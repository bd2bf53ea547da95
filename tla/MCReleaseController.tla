------------------------- MODULE MCReleaseController -------------------------
(* Small instances of ReleaseController for TLC.                            *)
EXTENDS ReleaseController
=============================================================================

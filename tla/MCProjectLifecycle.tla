-------------------------- MODULE MCProjectLifecycle --------------------------
(* Small instances of ProjectLifecycle for TLC.                             *)
EXTENDS ProjectLifecycle
=============================================================================

------------------------------ MODULE MCEnvStore ------------------------------
(* A small instance of EnvStore for TLC.                                    *)
EXTENDS EnvStore
=============================================================================

---------------------------- MODULE MCDeployQueue ----------------------------
(* Small instances of DeployQueue for TLC.                                  *)
EXTENDS DeployQueue, TLC

\* Replicas are alike, and so are worker pods.
Symmetry == Permutations(Relay) \cup Permutations(Consumer)
=============================================================================

------------------------------- MODULE MCAccess -------------------------------
(* A small instance of Access for TLC.                                      *)
EXTENDS Access, TLC

\* Processes are alike, and so are sockets.
Symmetry == Permutations(Process) \cup Permutations(Socket)
=============================================================================

---------------------------- MODULE MCBuildWorker ----------------------------
(* Small instances of Builds for TLC.                                       *)
EXTENDS Builds, TLC

\* Threads are alike.
Symmetry == Permutations(Handler)

\* A project before its first deploy, or one whose third is a rollback.
MCInit ==
    \/ BuildsInit
    \/ /\ TwoReleases({3})
       /\ handler = [h \in Handler |-> Free]
       /\ faults = 0
       /\ reading = Nobody
MCSpec == MCInit /\ [][BuildsNext]_buildsVars
=============================================================================

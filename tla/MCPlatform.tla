------------------------------ MODULE MCPlatform -----------------------------
(* A small instance of Platform for TLC.                                    *)
EXTENDS Platform

\* One disruption in a run, of the worker or of the controller; and after one of
\* the worker, no rollback request while the Job of a cancelled build waits for
\* its deletion.
OneDisruption ==
    /\ faults + cuts <= 1
    /\ faults = 0 \/ killing = {} \/ \A q \in Request : request[q].pc = "idle"
=============================================================================

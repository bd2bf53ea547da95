----------------------------- MODULE AtLeastOnce -----------------------------
(***************************************************************************)
(* What the deploy queue promises the rest of the platform                 *)
(* (docs/decisions.md, decision 2): a deployment that was recorded is      *)
(* handed to a worker until one of them has settled it, and nothing is     *)
(* settled that was never recorded.  How often it is handed out, by whom   *)
(* and in which order is left open.                                        *)
(***************************************************************************)
CONSTANT Deployment      \* the deployments a run may record

VARIABLES recorded,      \* deployments whose row is committed
          settled        \* deployments whose message a worker has acknowledged

vars == <<recorded, settled>>

Init == recorded = {} /\ settled = {}

\* The API commits new deployments.
Record(d) ==
    /\ d \notin recorded
    /\ recorded' = recorded \cup {d}
    /\ UNCHANGED settled

\* A worker is done with d, successfully or not, for the first time.
Settle(d) ==
    /\ d \in recorded \ settled
    /\ settled' = settled \cup {d}
    /\ UNCHANGED recorded

Next == \E d \in Deployment : Record(d) \/ Settle(d)

Safety == Init /\ [][Next]_vars

Spec == Safety /\ \A d \in Deployment : WF_vars(Settle(d))
=============================================================================

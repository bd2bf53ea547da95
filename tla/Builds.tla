-------------------------------- MODULE Builds --------------------------------
(***************************************************************************)
(* The worker threads beside the controller as they see it: a pass reads a *)
(* row, and minutes later writes its verdict to the row by its id alone    *)
(* (controller/main.py: reconcile_deployments).  ReleaseController has the *)
(* pass in full.                                                           *)
(***************************************************************************)
EXTENDS BuildWorker

VARIABLE
    reading       \* the row the controller's pass has read as Deploying, 0 for none

buildsVars == <<buildWorkerVars, reading>>

BuildsTypeOK == BuildTypeOK /\ reading \in Deployment \cup {Nobody}

BuildsInit == BuildInit /\ reading = Nobody

\* SELECT: a pass finds d with its image.
ControllerReads(d) ==
    /\ reading = Nobody
    /\ state[d] = "Deploying"
    /\ reading' = d
    /\ UNCHANGED buildWorkerVars

\* d has a ready pod: the UPDATE to Running and promote_release, whatever has become
\* of the row.
ControllerPromotes(d) ==
    /\ reading = d
    /\ SetState(d, "Running")
    /\ live' = d
    /\ reading' = Nobody
    /\ UNCHANGED <<image, replicas, grace, buildVars, request, handler, faults>>

\* The UPDATE to Failed: d was not ready in time, or was Running and has crashed.
\* Nothing more is kept of that read than that the row has its image.
ControllerFails(d) ==
    /\ d \in pinned
    /\ SetState(d, "Failed")
    /\ UNCHANGED <<releaseVars, buildVars, request, handler, faults, reading>>

\* The pass is over, and d no longer one to decide on.
ControllerLeaves(d) ==
    /\ reading = d
    /\ state[d] # "Deploying"
    /\ reading' = Nobody
    /\ UNCHANGED buildWorkerVars

\* A release that is no longer live is scaled to 0, by the row as it is.
ScalesDown(d) ==
    /\ state[d] = "Running"
    /\ d # live
    /\ replicas' = [replicas EXCEPT ![d] = 0]
    /\ UNCHANGED <<state, image, grace, live, buildVars, request, handler, faults, reading>>

BuildsNext ==
    \/ /\ \/ UserNext /\ UNCHANGED <<handler, faults>>
          \/ WorkerNext
       /\ UNCHANGED reading
    \/ \E d \in Deployment :
          \/ ControllerReads(d) \/ ControllerPromotes(d) \/ ControllerFails(d)
          \/ ControllerLeaves(d) \/ ScalesDown(d)

BuildsSpec == BuildsInit /\ [][BuildsNext]_buildsVars

\* Threads run, a free thread gets a waiting message, Jobs end (they have a
\* deadline), and the controller's passes come to an end and, within five minutes,
\* to a verdict on what they read as Deploying.  Nothing is assumed of users, the
\* sweeper and faults.
FairBuildsSpec ==
    /\ BuildsSpec
    /\ \A h \in Handler : WF_buildsVars(HandlerStep(h) /\ UNCHANGED reading)
    /\ \A d \in Deployment :
          SF_buildsVars(/\ \E h \in Handler : d \notin Taken /\ Deliver(h, d)
                        /\ UNCHANGED reading)
    /\ WF_buildsVars((\E j \in DOMAIN jobs : JobEnds(j)) /\ UNCHANGED reading)
    /\ WF_buildsVars(\E d \in Deployment : ControllerReads(d))
    /\ WF_buildsVars(\E d \in Deployment : ControllerPromotes(d) \/ ControllerLeaves(d))
=============================================================================

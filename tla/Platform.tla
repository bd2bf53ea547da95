------------------------------ MODULE Platform -------------------------------
(***************************************************************************)
(* One project end to end: users, worker threads and the controller on the *)
(* same rows, each module's own actions with the other side left as it is. *)
(***************************************************************************)
EXTENDS BuildWorker, ReleaseController

platformVars == <<releaseAll, handler, faults>>

\* It starts after two releases.
ASSUME PlatformAssumption == {1, 2} \subseteq Deployment

PlatformInit ==
    /\ TwoReleases({})
    /\ manifest = [d \in Deployment |-> CASE d = 1 -> "zero" [] d = 2 -> "up" [] OTHER -> "none"]
    /\ cluster = [d \in Deployment |-> CASE d = 1 -> "zero" [] d = 2 -> "ready" [] OTHER -> "absent"]
    /\ vanity = IF HasVanity THEN 2 ELSE Nobody
    /\ pass = [k \in Controller |-> NoPass]
    /\ synced = [k \in Controller |-> {vanity}]
    /\ crashes = [k \in Controller |-> [d \in Deployment |-> 0]]
    /\ aged = {}
    /\ cuts = 0
    /\ handler = [h \in Handler |-> Free]
    /\ faults = 0

PlatformNext ==
    \/ /\ \/ WorkerNext
          \/ /\ \/ \E q \in Request : RollbackStep(q)
                \/ \E d \in Deployment : Create(d) \/ Cancel(d) \/ KillJob(d)
             /\ UNCHANGED <<handler, faults>>
       /\ UNCHANGED <<gitVars, cluster, processVars, cuts>>
       /\ Ages({})
    \/ /\ ControllerNext \/ \E q \in Request : SwitchBack(q)
       /\ UNCHANGED <<handler, faults>>

PlatformSpec == PlatformInit /\ [][PlatformNext]_platformVars

\* Git names only images that are pinned to the digest some build of the
\* platform reported, whoever wrote the rows the pass worked on.
GitIsPinned == \A d \in Deployment : manifest[d] # "none" => d \in pinned

\* As long as no delivery is repeated and no call of the worker fails, a release
\* that got its image is not taken back to be built again: not by the message it
\* came by, and not when a pass of the controller makes a row Running that has been
\* cancelled since it was read (process_message's early return on Deploying and
\* Running; reconcile_deployments' UPDATE by id).
NotRebuiltWithoutFaults ==
    [][faults = 0 => \A d \in Deployment :
          state[d] \in {"Deploying", "Running"} => state'[d] \notin {"Queued", "Building"}]_platformVars

\* As long as no delivery is repeated and no call of the worker fails, the orphan
\* cleanup removes no file of a release in use, whatever workers and users do to
\* the row between the pass's reads and its commit.  (A repeated delivery may take
\* a cancelled rollback out of Failed after the pass has read it.)
FilesStayWithoutFaults ==
    [][faults = 0 => \A d \in Deployment :
          manifest[d] # "none" /\ manifest'[d] = "none"
              => state[d] \notin Active \cup {"Running"}]_platformVars
=============================================================================

-------------------------- MODULE ReleaseController --------------------------
(***************************************************************************)
(* The controller's pass over one Ready project (controller/main.py:       *)
(* reconcile_deployments, promote_release, sync_vanity_route): it scales   *)
(* down what is past its grace period, compares the rows with the          *)
(* Deployments it listed in Kubernetes, commits manifests to Git, moves    *)
(* rows to Running or Failed, switches the live release and points the     *)
(* stable hostname at it.  ArgoCD makes the cluster match Git on its own   *)
(* time.                                                                   *)
(*                                                                         *)
(* A pass works on what it read at its start, while users and workers      *)
(* write the rows.  The project runs one instance of each release.         *)
(***************************************************************************)
EXTENDS Deployments

CONSTANTS
    Controller,    \* controller processes that believe they lead
    KeepReleases,  \* scaled-down releases kept as rollback targets (KEEP_RELEASES)
    HasVanity,     \* whether the project has a vanity name (valid_vanity(subdomain))
    Flaky,         \* releases whose pods may stop being ready
    MaxCuts        \* bound: refused and failed Git commits, controller crashes in a run

ASSUME ReleaseAssumption ==
    /\ KeepReleases \in Nat
    /\ HasVanity \in BOOLEAN
    /\ Flaky \subseteq Deployment
    /\ MaxCuts \in Nat

VARIABLES
    manifest,      \* per deployment: its file in Git, by the replicas it asks for
    cluster,       \* per deployment: the Kubernetes Deployment and its pods
    vanity,        \* the release vanity.yaml points at, 0 without the file
    pass,          \* per controller: where its pass is and what it has read
    synced,        \* per controller: _vanity_synced, {} or {the release written last}
    crashes,       \* per controller and deployment: _deployment_failures, up to 2
    aged,          \* releases whose grace period has outlasted a whole pass
    cuts           \* refused and failed commits and crashes so far

processVars == <<pass, synced, crashes>>
gitVars     == <<manifest, vanity>>
releaseAll  == <<rowVars, gitVars, cluster, processVars, aged, cuts>>

NoPass == [pc |-> "idle", liveRead |-> Nobody, seen |-> <<>>, rows |-> <<>>, sizes |-> <<>>,
           todo |-> {}, target |-> Nobody, inGrace |-> {}]

ReleaseTypeOK ==
    /\ DeploymentsTypeOK
    /\ manifest \in [Deployment -> {"none", "up", "zero"}]
    /\ cluster \in [Deployment -> {"absent", "zero", "down", "ready"}]
    /\ vanity \in Deployment \cup {Nobody}
    /\ \A k \in Controller :
          /\ pass[k].pc \in {"idle", "observed", "act", "route", "commit"}
          /\ pass[k].todo \subseteq Deployment
          /\ pass[k].target \in Deployment \cup {Nobody}
          /\ synced[k] = {} \/ \E t \in Deployment \cup {Nobody} : synced[k] = {t}
    /\ crashes \in [Controller -> [Deployment -> 0..2]]
    /\ aged \subseteq {d \in Deployment : grace[d] = "running"}
    /\ cuts \in 0..MaxCuts

ReleaseInit ==
    /\ DeploymentsInit
    /\ manifest = [d \in Deployment |-> "none"]
    /\ cluster = [d \in Deployment |-> "absent"]
    /\ vanity = Nobody
    /\ pass = [k \in Controller |-> NoPass]
    /\ synced = [k \in Controller |-> {}]
    /\ crashes = [k \in Controller |-> [d \in Deployment |-> 0]]
    /\ aged = {}
    /\ cuts = 0

Cut == cuts < MaxCuts /\ cuts' = cuts + 1

\* The grace periods of S have outlasted a pass; those that are over or taken
\* back have not.
Ages(S) == aged' = {d \in aged \cup S : grace'[d] = "running"}

-----------------------------------------------------------------------------
(* A pass.                                                                 *)

\* The project row, then the Deployments Kubernetes lists.
Observe(k) ==
    /\ pass[k].pc = "idle"
    /\ pass' = [pass EXCEPT ![k] = [NoPass EXCEPT
                    !.pc = "observed", !.liveRead = live, !.seen = cluster,
                    !.inGrace = {d \in Deployment : grace[d] = "running"}]]
    /\ UNCHANGED <<rowVars, gitVars, cluster, synced, crashes, cuts>>
    /\ Ages({})

\* UPDATE ... SET replicas = 0 of what is past its grace period, except the
\* release that is live now; then SELECT the rows to work on.
PastGrace == {d \in Deployment : grace[d] = "over"}

ScaleDownAndRead(k) ==
    /\ pass[k].pc = "observed"
    /\ LET down == PastGrace \ {live}
       IN  /\ replicas' = [d \in Deployment |-> IF d \in down THEN 0 ELSE replicas[d]]
           /\ grace' = [d \in Deployment |-> IF d \in down THEN "none" ELSE grace[d]]
    /\ pass' = [pass EXCEPT ![k].pc = "act", ![k].rows = state, ![k].sizes = replicas',
                    ![k].todo = {d \in Deployment : state[d] \in {"Running", "Verifying", "Deploying"}}]
    /\ UNCHANGED <<state, image, live, buildVars, request, gitVars, cluster,
                   synced, crashes, cuts>>
    /\ Ages({})

\* What the pass saw of d: nothing, no ready pod, or a ready one.
Absent(k, d)  == pass[k].seen[d] = "absent"
Unready(k, d) == pass[k].seen[d] \in {"zero", "down"}
Ready(k, d)   == pass[k].seen[d] = "ready"

Drifted(k, d) ==
    Absent(k, d) \/ (pass[k].seen[d] = "zero") # (pass[k].sizes[d] = 0)

\* commit_manifests_to_git: the files become what the pass wants.  A call that is
\* refused (no token, an error GitHub answers with) is logged, and the caller goes
\* on as if it had been committed.
Commits(files) ==
    \/ manifest' = files /\ UNCHANGED cuts
    \/ files # manifest /\ UNCHANGED manifest /\ Cut

\* The pass deals with d: its manifest is committed again if it is missing or
\* has drifted.
Handles(k, d) ==
    /\ pass[k].pc = "act"
    /\ d \in pass[k].todo
    /\ pass' = [pass EXCEPT ![k].todo = @ \ {d}]
    /\ Commits(IF Drifted(k, d)
               THEN [manifest EXCEPT ![d] = IF pass[k].sizes[d] = 0 THEN "zero" ELSE "up"]
               ELSE manifest)
    /\ UNCHANGED <<image, replicas, buildVars, request, cluster, vanity, synced>>

\* No Deployment yet, an earlier release at 0, or a release that is up.
LeaveAlone(k, d) ==
    /\ Handles(k, d)
    /\ \/ Absent(k, d)
       \/ Unready(k, d) /\ pass[k].rows[d] = "Running" /\ pass[k].sizes[d] = 0
       \/ Ready(k, d) /\ pass[k].rows[d] = "Running"
    /\ UNCHANGED <<state, grace, live, crashes>>
    /\ Ages({})

\* A Running release without a ready pod: Failed at the second such pass, unless
\* a rollout is in progress.
CountCrash(k, d) ==
    /\ Handles(k, d)
    /\ Unready(k, d)
    /\ pass[k].rows[d] = "Running"
    /\ pass[k].sizes[d] > 0
    /\ crashes' = [crashes EXCEPT ![k][d] = IF @ < 2 THEN @ + 1 ELSE @]
    /\ \/ crashes'[k][d] = 2 /\ SetState(d, "Failed")
       \/ UNCHANGED state
    /\ UNCHANGED <<grace, live>>
    /\ Ages({})

\* A new release without a ready pod: Failed after five minutes.
AwaitReady(k, d) ==
    /\ Handles(k, d)
    /\ Unready(k, d)
    /\ pass[k].rows[d] # "Running"
    /\ crashes' = [crashes EXCEPT ![k][d] = 0]
    /\ \/ SetState(d, "Failed")
       \/ UNCHANGED state
    /\ UNCHANGED <<grace, live>>
    /\ Ages({})

\* The newest n members of S.
Newest(S, n) == {d \in S : Cardinality({b \in S : b > d}) < n}

\* A new release with a ready pod is Running and live; the others that are up
\* enter their grace period, and of those at 0 only KeepReleases stay Running.
\* One transaction: the UPDATE to Running and promote_release.
GoLiveWithoutGrace(k, d) ==
    /\ Handles(k, d)
    /\ Ready(k, d)
    /\ pass[k].rows[d] # "Running"
    /\ crashes' = [crashes EXCEPT ![k][d] = 0]
    /\ SetState(d, "Running")
    /\ live' = d
    /\ grace' = [b \in Deployment |->
                    IF b # d /\ state[b] = "Running" /\ replicas[b] > 0 THEN "over" ELSE grace[b]]
    /\ Ages({})
GoLive(k, d) ==
    /\ Handles(k, d)
    /\ Ready(k, d)
    /\ pass[k].rows[d] # "Running"
    /\ crashes' = [crashes EXCEPT ![k][d] = 0]
    /\ LET running == {b \in Deployment : state[b] = "Running"} \cup {d}
           atZero  == {b \in running : replicas[b] = 0}
           dropped == atZero \ Newest(atZero, KeepReleases)
           ending  == {b \in running \ {d} : replicas[b] > 0 /\ grace[b] = "none"}
       IN  /\ state' = [b \in Deployment |-> IF b \in dropped THEN "Superseded"
                                             ELSE IF b = d THEN "Running" ELSE state[b]]
           /\ live' = d
           /\ grace' = [b \in Deployment |-> IF b \in ending THEN "running" ELSE grace[b]]
    /\ Ages({})

\* Orphans, by the rows this pass read: their files are removed from Git.
Orphans(k) ==
    {d \in Deployment : ~Absent(k, d) /\ pass[k].rows[d] \notin Active \cup {"Running"}}

\* The releases are done with; the route still needs the project row.
TurnsToRoute(k) ==
    pass' = [pass EXCEPT ![k] = [NoPass EXCEPT !.pc = "route", !.liveRead = pass[k].liveRead,
                                               !.inGrace = pass[k].inGrace]]

Without(S) == [d \in Deployment |-> IF d \in S THEN "none" ELSE manifest[d]]

CleanupKeepingRunning(k) ==
    /\ pass[k].pc = "act"
    /\ pass[k].todo = {}
    /\ manifest' = Without({d \in Deployment : ~Absent(k, d) /\ pass[k].rows[d] # "Running"})
    /\ TurnsToRoute(k)
    /\ UNCHANGED <<rowVars, cluster, vanity, synced, crashes, cuts>>
    /\ Ages({})
Cleanup(k) ==
    /\ pass[k].pc = "act"
    /\ pass[k].todo = {}
    /\ \E refused \in SUBSET Orphans(k) :
          /\ manifest' = Without(Orphans(k) \ refused)
          /\ IF refused = {} THEN UNCHANGED cuts ELSE Cut
    /\ TurnsToRoute(k)
    /\ UNCHANGED <<rowVars, cluster, vanity, synced, crashes>>
    /\ Ages({})

\* A call to GitHub or to Kubernetes raises: the rest of the rows wait for the next
\* pass, the route is still looked at.
CommitFails(k) ==
    /\ pass[k].pc = "act"
    /\ (\E d \in pass[k].todo : Drifted(k, d)) \/ (pass[k].todo = {} /\ Orphans(k) # {})
    /\ Cut
    /\ TurnsToRoute(k)
    /\ UNCHANGED <<rowVars, gitVars, cluster, synced, crashes>>
    /\ Ages({})

\* sync_vanity_route: the release the project row named when the pass began, if
\* it is up now, else the newest that is; none for a project without a vanity
\* name.  Nothing to do if this process wrote the same one last.
EndsPass(k) == pass' = [pass EXCEPT ![k] = NoPass]

ChooseRoute(k) ==
    /\ pass[k].pc = "route"
    /\ LET target == IF HasVanity THEN ServingFor(pass[k].liveRead) ELSE Nobody
       IN  IF synced[k] = {target}
           THEN EndsPass(k)
           ELSE pass' = [pass EXCEPT ![k].pc = "commit", ![k].target = target]
    /\ UNCHANGED <<rowVars, gitVars, cluster, synced, crashes, cuts>>
    /\ Ages(IF pass'[k] = NoPass THEN pass[k].inGrace ELSE {})

\* Both commits return, refused or not, and the pass takes the route for written.
RouteCacheGrows(k) ==
    /\ pass[k].pc = "commit"
    /\ vanity' = pass[k].target
    /\ synced' = [synced EXCEPT ![k] = @ \cup {pass[k].target}]
    /\ EndsPass(k)
    /\ UNCHANGED <<rowVars, manifest, cluster, crashes, cuts>>
    /\ Ages(pass[k].inGrace)
CommitRoute(k) ==
    /\ pass[k].pc = "commit"
    /\ \/ vanity' = pass[k].target /\ UNCHANGED cuts
       \/ vanity # pass[k].target /\ UNCHANGED vanity /\ Cut
    /\ synced' = [synced EXCEPT ![k] = {pass[k].target}]
    /\ EndsPass(k)
    /\ UNCHANGED <<rowVars, manifest, cluster, crashes>>
    /\ Ages(pass[k].inGrace)

\* One of them raises, before or after GitHub took it: logged, and tried again by
\* the next pass.
RouteFails(k) ==
    /\ pass[k].pc = "commit"
    /\ Cut
    /\ vanity' \in {vanity, pass[k].target}
    /\ EndsPass(k)
    /\ UNCHANGED <<rowVars, manifest, cluster, synced, crashes>>
    /\ Ages(pass[k].inGrace)

\* The process dies; its caches are gone.
ControllerCrash(k) ==
    /\ pass[k].pc # "idle"
    /\ Cut
    /\ pass' = [pass EXCEPT ![k] = NoPass]
    /\ synced' = [synced EXCEPT ![k] = {}]
    /\ crashes' = [crashes EXCEPT ![k] = [d \in Deployment |-> 0]]
    /\ UNCHANGED <<rowVars, gitVars, cluster>>
    /\ Ages({})

-----------------------------------------------------------------------------
(* Time, ArgoCD and the cluster.                                           *)

\* RELEASE_GRACE_MINUTES are over.  Ten minutes are longer than a pass.
GraceEnds(d) ==
    /\ d \in aged
    /\ grace' = [grace EXCEPT ![d] = "over"]
    /\ UNCHANGED <<state, image, replicas, live, buildVars, request, gitVars, cluster,
                   processVars, cuts>>
    /\ Ages({})

\* ArgoCD applies what Git says of d.
Wanted(d) ==
    CASE manifest[d] = "none" -> {"absent"}
      [] manifest[d] = "zero" -> {"zero"}
      [] manifest[d] = "up"   -> {"down", "ready"}

ArgoSync(d) ==
    /\ cluster[d] \notin Wanted(d)
    /\ cluster' = [cluster EXCEPT ![d] = IF manifest[d] = "up" THEN "down"
                                         ELSE CHOOSE c \in Wanted(d) : TRUE]
    /\ UNCHANGED <<rowVars, gitVars, processVars, cuts>>
    /\ Ages({})

\* A pod becomes ready, or stops being ready.
PodTurns(d) ==
    /\ \/ cluster[d] = "down" /\ cluster' = [cluster EXCEPT ![d] = "ready"]
       \/ cluster[d] = "ready" /\ d \in Flaky /\ cluster' = [cluster EXCEPT ![d] = "down"]
    /\ UNCHANGED <<rowVars, gitVars, processVars, cuts>>
    /\ Ages({})

\* A user's instant rollback.  The ten minutes of the release left start anew, so
\* a pass that is in progress counts for neither of the two.
SwitchBack(q) ==
    LET changed == {request[q].from, request[q].to}
    IN  /\ RollbackInstantly(q)
        /\ pass' = [k \in Controller |-> [pass[k] EXCEPT !.inGrace = @ \ changed]]
        /\ aged' = aged \ changed
        /\ UNCHANGED <<gitVars, cluster, synced, crashes, cuts>>

\* A worker, in short: it writes Deploying or Failed to the row its message names,
\* whatever has become of that row, and again when the message comes twice.
\* Platform has the worker in full.
WorkerDecides(d) ==
    /\ state[d] # "none"
    /\ \/ /\ IndexAllows(d, "Deploying")
          /\ SetState(d, "Deploying")
          /\ pinned' = pinned \cup {d}
       \/ SetState(d, "Failed") /\ UNCHANGED pinned
    /\ unsettled' = unsettled \ {d}
    /\ UNCHANGED <<releaseVars, rollbacks, jobs, killing, request, gitVars, cluster,
                   processVars, cuts>>
    /\ Ages({})

-----------------------------------------------------------------------------
PassStep(k) ==
    \/ Observe(k) \/ ScaleDownAndRead(k) \/ Cleanup(k) \/ ChooseRoute(k) \/ CommitRoute(k)
    \/ \E d \in Deployment : LeaveAlone(k, d) \/ CountCrash(k, d) \/ AwaitReady(k, d) \/ GoLive(k, d)

ControllerNext ==
    \/ \E k \in Controller : PassStep(k) \/ CommitFails(k) \/ RouteFails(k) \/ ControllerCrash(k)
    \/ \E d \in Deployment : GraceEnds(d) \/ ArgoSync(d) \/ PodTurns(d)

ReleaseNext ==
    \/ ControllerNext
    \/ /\ \/ \E q \in Request : RollbackStep(q)
          \/ \E d \in Deployment : Create(d) \/ Cancel(d)
       /\ UNCHANGED <<gitVars, cluster, processVars, cuts>>
       /\ Ages({})
    \/ \E q \in Request : SwitchBack(q)
    \/ \E d \in Deployment : WorkerDecides(d)

ReleaseSpec == ReleaseInit /\ [][ReleaseNext]_releaseAll

\* The main loop starts a pass at every interval and a pass ends.
FairReleaseSpec == ReleaseSpec /\ \A k \in Controller : WF_releaseAll(PassStep(k))

-----------------------------------------------------------------------------
(* Properties.                                                             *)

Up(d) == state[d] = "Running" /\ replicas[d] > 0

\* No gap while the route switches: as long as the live release is up and no
\* commit has failed, the release the stable hostname points at is not the one
\* that is scaled down, although the pass that promotes still routes by the
\* project row it read before (promote_release, sync_vanity_route;
\* docs/architecture.md, "Blue-green releases").
NoGapOnSwitch ==
    [][\A d \in Deployment :
          cuts = 0 /\ live # Nobody /\ Up(live) /\ replicas[d] > 0 /\ replicas'[d] = 0
              => vanity # d]_releaseAll

\* Between passes, the stable hostname never points at a release that has been
\* scaled down, unless a commit failed: whatever a pass scales down, switches or
\* marks Failed, its last step routes by the rows as they are then
\* (sync_vanity_route).
RouteNeverGone ==
    /\ cuts = 0
    /\ \A k \in Controller : pass[k].pc = "idle"
    => vanity = Nobody \/ replicas[vanity] > 0

\* Once a release is live and up for good, the stable hostname ends up on it,
\* through failed commits and restarts of the controller, if the project has a
\* vanity name.
RouteFollowsLive ==
    HasVanity => \A d \in Deployment : <>[](live = d /\ Up(d)) => <>[](vanity = d)
=============================================================================

--------------------------- MODULE Platform_proofs ---------------------------
(***************************************************************************)
(* The controller's safety properties, on its own rows and next to users   *)
(* and workers, for every number of releases, threads, requests, faults    *)
(* and failed commits.                                                     *)
(*                                                                         *)
(* A pass works on what it has read, and the rows change meanwhile.  The   *)
(* argument is about what it can still know of a release: a trace of d     *)
(* (Traced) is its file in Git, its Deployment in the cluster, or what a   *)
(* pass has seen or means to handle.  A step of the controller spreads the *)
(* traces there are, or takes up a release that is deployed                *)
(* (ControllerGoes, TracesFollow); users and workers change no trace       *)
(* (SamePasses).  So whatever is true of every deployed release and stays  *)
(* true is true of every trace:                                            *)
(*   - it has been in the table (TracedInv);                               *)
(*   - it is pinned (PinInv, whence GitIsPinned);                          *)
(*   - until the first fault, its message is settled or about to be        *)
(*     (DoneInv), so that no worker takes it back.                         *)
(*                                                                         *)
(* What the orphan cleanup removes and where the route points also depend  *)
(* on nobody else doing the controller's work in between.  GoneInv and     *)
(* RouteInv say what one controller can rely on (OneController, what the   *)
(* lease is for): what a pass has read as done with stays so, and the      *)
(* cache of the route is the file in Git.  With two, each may undo what    *)
(* the other has just read.                                                *)
(***************************************************************************)
EXTENDS Platform, BuildWorker_proofs, TLAPS

\* A pass, and the type invariant with more of what a pass has read than
\* ReleaseTypeOK says.
PassRecord ==
    [pc : {"idle", "observed", "act", "route", "commit"},
     liveRead : Deployment \cup {Nobody},
     seen : [Deployment -> {"absent", "zero", "down", "ready"}] \cup {<<>>},
     rows : [Deployment -> States] \cup {<<>>},
     sizes : [Deployment -> {0, 1}] \cup {<<>>},
     todo : SUBSET Deployment,
     target : Deployment \cup {Nobody},
     inGrace : SUBSET Deployment]

PassTypes ==
    /\ manifest \in [Deployment -> {"none", "up", "zero"}]
    /\ cluster \in [Deployment -> {"absent", "zero", "down", "ready"}]
    /\ vanity \in Deployment \cup {Nobody}
    /\ pass \in [Controller -> PassRecord]
    /\ synced \in [Controller -> SUBSET (Deployment \cup {Nobody})]
    /\ \A k \in Controller :
          synced[k] = {} \/ \E t \in Deployment \cup {Nobody} : synced[k] = {t}
    /\ crashes \in [Controller -> [Deployment -> 0..2]]
    /\ aged \subseteq {d \in Deployment : grace[d] = "running"}
    /\ cuts \in 0..MaxCuts

\* PassTypes says no less than ReleaseTypeOK.
LEMMA PassTypesImplyTypes == DeploymentsTypeOK /\ PassTypes => ReleaseTypeOK
  BY DEF ReleaseTypeOK, PassTypes, PassRecord

\* The record of a controller between two passes is one.
LEMMA NoPassTypes == NoPass \in PassRecord
  BY DEF NoPass, PassRecord

\* Only grace periods that still run can have outlasted a pass.
LEMMA AgesTypes ==
  ASSUME PassTypes, NEW S \in SUBSET Deployment, Ages(S)
  PROVE  aged' \subseteq {d \in Deployment : grace'[d] = "running"}
  BY DEF PassTypes, Ages

\* A pass of k becomes r; the others stay as they are.
LEMMA PassMoves ==
  ASSUME PassTypes, NEW k \in Controller, NEW r \in PassRecord,
         pass' = [pass EXCEPT ![k] = r]
  PROVE  /\ pass' \in [Controller -> PassRecord]
         /\ pass'[k] = r
         /\ \A l \in Controller \ {k} : pass'[l] = pass[l]
  BY DEF PassTypes

\* The release the route is pointed at is one of the project's, or none.
LEMMA ServingTypes ==
  ASSUME NEW d
  PROVE ServingFor(d) \in Deployment \cup {Nobody}
  BY ServingIsUp

\* What a step of the controller does to the rows users and workers see: it
\* writes Failed and Superseded, and Running for what its pass set out to handle.
RowsDecided ==
    /\ UNCHANGED <<image, buildVars, request>>
    /\ \A d \in Deployment : state'[d] # state[d] =>
          \/ state'[d] \in {"Failed", "Superseded"}
          \/ state'[d] = "Running" /\ \E k \in Controller : pass[k].pc = "act" /\ d \in pass[k].todo

\* A pass deals with one release (the loop of reconcile_deployments,
\* promote_release): the types are kept.
LEMMA HandlesTypes ==
  ASSUME DeploymentsTypeOK, PassTypes, NEW k \in Controller, NEW d \in Deployment, 
         LeaveAlone(k, d) \/ CountCrash(k, d) \/ AwaitReady(k, d) \/ GoLive(k, d)
  PROVE  DeploymentsTypeOK' /\ PassTypes' /\ RowsDecided
  <1>1. Handles(k, d) /\ Ages({})
    BY DEF LeaveAlone, CountCrash, AwaitReady, GoLive
  <1>2. /\ state' \in [Deployment -> States]
        /\ grace' \in [Deployment -> {"none", "running", "over"}]
        /\ live' \in Deployment \cup {Nobody}
        /\ \A b \in Deployment : state'[b] # state[b] =>
              state'[b] \in {"Failed", "Superseded"} \/ (state'[b] = "Running" /\ b = d)
    <2>1. CASE LeaveAlone(k, d)
      BY <2>1 DEF LeaveAlone, DeploymentsTypeOK
    <2>2. CASE CountCrash(k, d) \/ AwaitReady(k, d)
      <3>1. UNCHANGED <<grace, live>> /\ (UNCHANGED state \/ SetState(d, "Failed"))
        BY <2>2 DEF CountCrash, AwaitReady
      <3>. QED BY <3>1 DEF SetState, DeploymentsTypeOK, States
    <2>3. CASE GoLive(k, d)
      <3> DEFINE running == {b \in Deployment : state[b] = "Running"} \cup {d}
                 atZero  == {b \in running : replicas[b] = 0}
                 dropped == atZero \ Newest(atZero, KeepReleases)
                 ending  == {b \in running \ {d} : replicas[b] > 0 /\ grace[b] = "none"}
      <3>1. /\ state' = [b \in Deployment |-> IF b \in dropped THEN "Superseded"
                                             ELSE IF b = d THEN "Running" ELSE state[b]]
            /\ live' = d
            /\ grace' = [b \in Deployment |-> IF b \in ending THEN "running" ELSE grace[b]]
        BY <2>3 DEF GoLive
      <3> HIDE DEF running, atZero, dropped, ending
      <3>2. /\ state \in [Deployment -> States]
            /\ grace \in [Deployment -> {"none", "running", "over"}]
        BY DEF DeploymentsTypeOK
      <3>3. {"Superseded", "Running"} \subseteq States
        BY DEF States
      <3>4. /\ state' \in [Deployment -> States]
            /\ \A b \in Deployment : state'[b] # state[b] =>
                  state'[b] = "Superseded" \/ (state'[b] = "Running" /\ b = d)
        <4>1. \A b \in Deployment : state[b] \in States
          BY <3>2
        <4>2. state' = [b \in Deployment |-> IF b \in dropped THEN "Superseded"
                                             ELSE IF b = d THEN "Running" ELSE state[b]]
          BY <3>1
        <4>. QED BY <4>1, <4>2, <3>3
      <3>5. grace' \in [Deployment -> {"none", "running", "over"}]
        BY <3>1, <3>2
      <3>. QED BY <3>1, <3>4, <3>5
    <2>. QED BY <2>1, <2>2, <2>3
  <1>3. /\ UNCHANGED <<image, replicas, buildVars, request, cluster, vanity, synced>>
        /\ cuts' \in 0..MaxCuts
    BY <1>1, ReleaseAssumption DEF Handles, Commits, Cut, PassTypes
  <1>4. DeploymentsTypeOK'
    BY <1>2, <1>3 DEF DeploymentsTypeOK, buildVars
  <1>5. RowsDecided
    BY <1>1, <1>2, <1>3 DEF RowsDecided, Handles
  <1>6. crashes' \in [Controller -> [Deployment -> 0..2]]
    <2>0. crashes \in [Controller -> [Deployment -> 0..2]]
      BY DEF PassTypes
    <2>1. \E v \in 0..2 : crashes' = crashes \/ crashes' = [crashes EXCEPT ![k][d] = v]
      BY <2>0 DEF LeaveAlone, CountCrash, AwaitReady, GoLive
    <2>. QED BY <2>0, <2>1
  <1>7. /\ pass' \in [Controller -> PassRecord]
        /\ manifest' \in [Deployment -> {"none", "up", "zero"}]
    <2> DEFINE r == [pass[k] EXCEPT !.todo = @ \ {d}]
    <2>0. pass[k] \in PassRecord
      BY DEF PassTypes
    <2>1. r \in PassRecord
      BY <2>0 DEF PassRecord
    <2>2. pass' = [pass EXCEPT ![k] = r]
      BY <1>1 DEF Handles
    <2>3. manifest' \in [Deployment -> {"none", "up", "zero"}]
      BY <1>1 DEF Handles, Commits, PassTypes
    <2>. HIDE DEF r
    <2>. QED BY <2>1, <2>2, <2>3, PassMoves
  <1>8. PassTypes'
    BY <1>1, <1>3, <1>6, <1>7, AgesTypes DEF PassTypes
  <1>. QED BY <1>4, <1>5, <1>8

\* So do the steps of a pass before and after the releases,
LEMMA PassStepTypes ==
  ASSUME DeploymentsTypeOK, PassTypes, NEW k \in Controller,
         \/ Observe(k) \/ ScaleDownAndRead(k) \/ Cleanup(k) \/ ChooseRoute(k) \/ CommitRoute(k)
         \/ CommitFails(k) \/ RouteFails(k) \/ ControllerCrash(k)
  PROVE  DeploymentsTypeOK' /\ PassTypes' /\ RowsDecided
  <1> USE DEF rowVars, releaseVars, buildVars, gitVars
  <1>a. pass[k] \in PassRecord /\ NoPass \in PassRecord
    BY NoPassTypes DEF PassTypes
  <1>1. CASE Observe(k)
    <2> DEFINE r == [NoPass EXCEPT !.pc = "observed", !.liveRead = live, !.seen = cluster,
                    !.inGrace = {d \in Deployment : grace[d] = "running"}]
    <2>1. r \in PassRecord
      BY <1>a DEF PassRecord, PassTypes, DeploymentsTypeOK
    <2>2. /\ pass' = [pass EXCEPT ![k] = r]
          /\ UNCHANGED <<rowVars, gitVars, cluster, synced, crashes, cuts>>
          /\ Ages({})
      BY <1>1 DEF Observe
    <2>3. DeploymentsTypeOK' /\ RowsDecided
      BY <2>2 DEF DeploymentsTypeOK, RowsDecided
    <2> HIDE DEF r
    <2>4. PassTypes'
      BY <2>1, <2>2, PassMoves, AgesTypes DEF PassTypes
    <2>. QED BY <2>3, <2>4
  <1>2. CASE ScaleDownAndRead(k)
    <2> DEFINE r == [pass[k] EXCEPT !.pc = "act", !.rows = state, !.sizes = replicas',
                    !.todo = {d \in Deployment : state[d] \in {"Running", "Verifying", "Deploying"}}]
    <2>1. replicas' \in [Deployment -> {0, 1}] /\ grace' \in [Deployment -> {"none", "running", "over"}]
      BY <1>2 DEF ScaleDownAndRead, DeploymentsTypeOK
    <2>2. r \in PassRecord
      BY <1>a, <2>1 DEF PassRecord, DeploymentsTypeOK
    <2>3. /\ pass' = [pass EXCEPT ![k] = r]
          /\ UNCHANGED <<state, image, live, buildVars, request, gitVars, cluster,
                   synced, crashes, cuts>>
          /\ Ages({})
      BY <1>2 DEF ScaleDownAndRead
    <2>4. DeploymentsTypeOK' /\ RowsDecided
      BY <2>1, <2>3 DEF DeploymentsTypeOK, RowsDecided
    <2> HIDE DEF r
    <2>5. PassTypes'
      BY <2>2, <2>3, PassMoves, AgesTypes DEF PassTypes
    <2>. QED BY <2>4, <2>5
  <1>3. ASSUME TurnsToRoute(k) PROVE pass' \in [Controller -> PassRecord]
    <2> DEFINE r == [NoPass EXCEPT !.pc = "route", !.liveRead = pass[k].liveRead,
                                   !.inGrace = pass[k].inGrace]
    <2>1. r \in PassRecord
      BY <1>a DEF PassRecord
    <2>2. pass' = [pass EXCEPT ![k] = r]
      BY <1>3 DEF TurnsToRoute
    <2> HIDE DEF r
    <2>. QED BY <2>1, <2>2, PassMoves
  <1>4. CASE Cleanup(k)
    <2>1. DeploymentsTypeOK' /\ RowsDecided
      BY <1>4 DEF Cleanup, DeploymentsTypeOK, RowsDecided
    <2>2. /\ TurnsToRoute(k) /\ Ages({}) /\ UNCHANGED <<cluster, vanity, synced, crashes>>
          /\ \E removed : manifest' = Without(removed)
          /\ cuts' \in 0..MaxCuts
      BY <1>4, ReleaseAssumption DEF Cleanup, Cut, PassTypes
    <2>3. manifest' \in [Deployment -> {"none", "up", "zero"}]
      BY <2>2 DEF PassTypes, Without
    <2>4. PassTypes'
      BY <1>3, <2>2, <2>3, AgesTypes DEF PassTypes
    <2>. QED BY <2>1, <2>4
  <1>5. CASE CommitFails(k)
    <2>1. DeploymentsTypeOK' /\ RowsDecided
      BY <1>5 DEF CommitFails, DeploymentsTypeOK, RowsDecided
    <2>2. /\ TurnsToRoute(k) /\ Ages({}) /\ UNCHANGED <<gitVars, cluster, synced, crashes>>
          /\ cuts' \in 0..MaxCuts
      BY <1>5, ReleaseAssumption DEF CommitFails, Cut, PassTypes
    <2>4. PassTypes'
      BY <1>3, <2>2, AgesTypes DEF PassTypes
    <2>. QED BY <2>1, <2>4
  <1>6. ASSUME EndsPass(k) PROVE pass' \in [Controller -> PassRecord]
    BY <1>6, <1>a, PassMoves DEF EndsPass
  <1>7. CASE ChooseRoute(k)
    <2>0. DeploymentsTypeOK' /\ RowsDecided
      BY <1>7 DEF ChooseRoute, DeploymentsTypeOK, RowsDecided
    <2> DEFINE target == IF HasVanity THEN ServingFor(pass[k].liveRead) ELSE Nobody
               r == [pass[k] EXCEPT !.pc = "commit", !.target = target]
    <2>1. target \in Deployment \cup {Nobody}
      BY ServingTypes
    <2>2. /\ EndsPass(k) \/ pass' = [pass EXCEPT ![k].pc = "commit", ![k].target = target]
          /\ UNCHANGED <<gitVars, cluster, synced, crashes, cuts>>
          /\ \E S \in {pass[k].inGrace, {}} : Ages(S)
      BY <1>7 DEF ChooseRoute
    <2> HIDE DEF target
    <2>3. r \in PassRecord
      BY <1>a, <2>1 DEF PassRecord
    <2>4. EndsPass(k) \/ pass' = [pass EXCEPT ![k] = r]
      BY <2>2
    <2> HIDE DEF r
    <2>5. pass' \in [Controller -> PassRecord]
      BY <1>6, <2>3, <2>4, PassMoves
    <2>6. pass[k].inGrace \in SUBSET Deployment
      BY <1>a DEF PassRecord
    <2>7. aged' \subseteq {d \in Deployment : grace'[d] = "running"}
      BY <2>2, <2>6, AgesTypes
    <2>8. PassTypes'
      BY <2>2, <2>5, <2>7 DEF PassTypes
    <2>. QED BY <2>0, <2>8
  <1>8. CASE CommitRoute(k) \/ RouteFails(k)
    <2>0. DeploymentsTypeOK' /\ RowsDecided
      BY <1>8 DEF CommitRoute, RouteFails, DeploymentsTypeOK, RowsDecided
    <2>a. cuts' \in 0..MaxCuts
      BY <1>8, ReleaseAssumption DEF CommitRoute, RouteFails, Cut, PassTypes
    <2>1. /\ EndsPass(k) /\ Ages(pass[k].inGrace) /\ UNCHANGED <<manifest, cluster, crashes>>
          /\ vanity' \in {vanity, pass[k].target}
          /\ UNCHANGED synced \/ synced' = [synced EXCEPT ![k] = {pass[k].target}]
      BY <1>8 DEF CommitRoute, RouteFails
    <2>2. pass[k].inGrace \in SUBSET Deployment /\ pass[k].target \in Deployment \cup {Nobody}
      BY <1>a DEF PassRecord
    <2>3. aged' \subseteq {d \in Deployment : grace'[d] = "running"}
      BY <2>1, <2>2, AgesTypes
    <2>4. /\ synced' \in [Controller -> SUBSET (Deployment \cup {Nobody})]
          /\ \A l \in Controller :
                synced'[l] = {} \/ \E t \in Deployment \cup {Nobody} : synced'[l] = {t}
      BY <2>1, <2>2 DEF PassTypes
    <2>5. PassTypes'
      BY <1>6, <2>a, <2>1, <2>2, <2>3, <2>4 DEF PassTypes
    <2>. QED BY <2>0, <2>5
  <1>9. CASE ControllerCrash(k)
    <2>0. DeploymentsTypeOK' /\ RowsDecided
      BY <1>9 DEF ControllerCrash, DeploymentsTypeOK, RowsDecided
    <2>1. pass' \in [Controller -> PassRecord]
      BY <1>9, <1>6 DEF ControllerCrash, EndsPass
    <2>2. /\ synced' \in [Controller -> SUBSET (Deployment \cup {Nobody})]
          /\ \A l \in Controller :
                synced'[l] = {} \/ \E t \in Deployment \cup {Nobody} : synced'[l] = {t}
      BY <1>9 DEF ControllerCrash, PassTypes
    <2>3. crashes' \in [Controller -> [Deployment -> 0..2]]
      BY <1>9 DEF ControllerCrash, PassTypes
    <2>4. Ages({}) /\ UNCHANGED <<gitVars, cluster>> /\ cuts' \in 0..MaxCuts
      BY <1>9, ReleaseAssumption DEF ControllerCrash, Cut, PassTypes
    <2>5. PassTypes'
      BY <2>1, <2>2, <2>3, <2>4, AgesTypes DEF PassTypes
    <2>. QED BY <2>0, <2>5
  <1>. QED BY <1>1, <1>2, <1>4, <1>5, <1>7, <1>8, <1>9

\* and time, ArgoCD and the pods.
LEMMA ClusterTypes ==
  ASSUME DeploymentsTypeOK, PassTypes, NEW d \in Deployment,
         GraceEnds(d) \/ ArgoSync(d) \/ PodTurns(d)
  PROVE  DeploymentsTypeOK' /\ PassTypes' /\ RowsDecided
  <1> USE DEF rowVars, releaseVars, buildVars, gitVars, processVars
  <1>1. CASE GraceEnds(d)
    <2>1. grace' \in [Deployment -> {"none", "running", "over"}]
      BY <1>1 DEF GraceEnds, DeploymentsTypeOK
    <2>2. /\ UNCHANGED <<state, image, replicas, live, buildVars, request, gitVars, cluster,
                   processVars, cuts>>
          /\ Ages({})
      BY <1>1 DEF GraceEnds
    <2>3. DeploymentsTypeOK' /\ RowsDecided
      BY <2>1, <2>2 DEF DeploymentsTypeOK, RowsDecided
    <2>4. PassTypes'
      BY <2>2, AgesTypes DEF PassTypes
    <2>. QED BY <2>3, <2>4
  <1>2. CASE ArgoSync(d) \/ PodTurns(d)
    <2>1. /\ UNCHANGED <<rowVars, gitVars, processVars, cuts>>
          /\ Ages({})
      BY <1>2 DEF ArgoSync, PodTurns
    <2>2. \E c \in {"absent", "zero", "down", "ready"} : cluster' = [cluster EXCEPT ![d] = c]
      <3>1. CASE ArgoSync(d)
        <4>1. manifest[d] \in {"none", "up", "zero"}
          BY DEF PassTypes
        <4>2. CASE manifest[d] = "up"
          BY <3>1, <4>2 DEF ArgoSync
        <4>3. CASE manifest[d] = "none"
          <5>1. Wanted(d) = {"absent"}
            BY <4>3 DEF Wanted
          <5>. QED BY <3>1, <4>3, <5>1 DEF ArgoSync
        <4>4. CASE manifest[d] = "zero"
          <5>1. Wanted(d) = {"zero"}
            BY <4>4 DEF Wanted
          <5>. QED BY <3>1, <4>4, <5>1 DEF ArgoSync
        <4>. QED BY <4>1, <4>2, <4>3, <4>4
      <3>2. CASE PodTurns(d)
        BY <3>2 DEF PodTurns
      <3>. QED BY <1>2, <3>1, <3>2
    <2>3. cluster' \in [Deployment -> {"absent", "zero", "down", "ready"}]
      BY <2>2 DEF PassTypes
    <2>4. DeploymentsTypeOK' /\ RowsDecided
      BY <2>1 DEF DeploymentsTypeOK, RowsDecided
    <2>5. PassTypes'
      BY <2>1, <2>3, AgesTypes DEF PassTypes
    <2>. QED BY <2>4, <2>5
  <1>. QED BY <1>1, <1>2

\* Any step of the controller keeps the types.
LEMMA ControllerTypes ==
  ASSUME DeploymentsTypeOK, PassTypes, ControllerNext
  PROVE  DeploymentsTypeOK' /\ PassTypes' /\ RowsDecided
  BY PassStepTypes, HandlesTypes, ClusterTypes DEF ControllerNext, PassStep

\* So does an instant rollback,
LEMMA SwitchBackTypes ==
  ASSUME DeploymentsTypeOK, TargetInv, PassTypes, NEW q \in Request, SwitchBack(q)
  PROVE  DeploymentsTypeOK' /\ TargetInv' /\ PassTypes'
  <1>1. DeploymentsTypeOK' /\ TargetInv'
    BY UsersKeepTypes DEF SwitchBack
  <1>2. /\ UNCHANGED <<gitVars, cluster, synced, crashes, cuts>>
        /\ \E changed :
              /\ pass' = [k \in Controller |-> [pass[k] EXCEPT !.inGrace = @ \ changed]]
              /\ aged' = aged \ changed
              /\ \A d \in Deployment \ changed : grace'[d] = grace[d]
    BY DEF SwitchBack, RollbackInstantly
  <1>3. PICK changed :
              /\ pass' = [k \in Controller |-> [pass[k] EXCEPT !.inGrace = @ \ changed]]
              /\ aged' = aged \ changed
              /\ \A d \in Deployment \ changed : grace'[d] = grace[d]
    BY <1>2
  <1>4. \A k \in Controller : [pass[k] EXCEPT !.inGrace = @ \ changed] \in PassRecord
    <2> TAKE k \in Controller
    <2>1. pass[k] \in PassRecord
      BY DEF PassTypes
    <2>. QED BY <2>1 DEF PassRecord
  <1>5. pass' \in [Controller -> PassRecord]
    BY <1>3, <1>4
  <1>6. aged' \subseteq {d \in Deployment : grace'[d] = "running"}
    BY <1>3 DEF PassTypes
  <1>7. PassTypes'
    BY <1>2, <1>5, <1>6 DEF PassTypes, gitVars
  <1>. QED BY <1>1, <1>7

\* and a step of users or workers, who see nothing of the controller's state.
LEMMA RowStepTypes ==
  ASSUME PassTypes, UNCHANGED <<gitVars, cluster, processVars, cuts>>, Ages({})
  PROVE  PassTypes'
  BY AgesTypes DEF PassTypes, gitVars, processVars
-----------------------------------------------------------------------------
(* What a pass has read, and the traces of a release.                      *)

\* The rows a pass sets out to handle (the SELECT of reconcile_deployments).
Shipped == {"Deploying", "Verifying", "Running"}

\* One process works as the controller, as the lease is there to ensure.
OneController == \A k, l \in Controller : k = l

\* The pass of k still holds a list of Deployments with d in it.
Saw(k, d) == pass[k].pc \in {"observed", "act"} /\ pass[k].seen[d] # "absent"

\* d has left a trace in Git, in the cluster or in what a pass works on.
Traced(d) ==
    \/ manifest[d] # "none"
    \/ cluster[d] # "absent"
    \/ \E k \in Controller : Saw(k, d) \/ d \in pass[k].todo

\* Nothing but a worker takes d back from here.
Gone(d) == state[d] \in {"Failed", "Superseded"}

\* What a pass still means to handle was deployed when it read the row.
TodoInv ==
    \A k \in Controller, d \in Deployment :
        d \in pass[k].todo => pass[k].pc = "act" /\ pass[k].rows[d] \in Shipped

\* Whatever has left a trace has been in the table.
TracedInv == \A d \in Deployment : Traced(d) => state[d] # "none"

\* What a pass has seen in the cluster and read as done with is done with:
\* the orphan cleanup removes only such files.
GoneInv ==
    \A k \in Controller, d \in Deployment :
        pass[k].pc = "act" /\ Saw(k, d) /\ pass[k].rows[d] \notin Active \cup {"Running"} => Gone(d)

\* What a step of a pass does to what it knows: it learns of releases from the
\* cluster and from rows that are deployed, and reads the rows once.
PassGoes(k) ==
    /\ \A l \in Controller \ {k} : pass'[l] = pass[l]
    /\ \A d \in Deployment : Saw(k, d)' => Saw(k, d) \/ cluster[d] # "absent"
    /\ \A d \in pass'[k].todo :
          /\ pass'[k].pc = "act"
          /\ pass'[k].rows[d] \in Shipped
          /\ d \in pass[k].todo \/ state[d] \in Shipped
    /\ pass'[k].pc = "act" =>
          /\ \A d \in Deployment : Saw(k, d)' => Saw(k, d)
          /\ \/ pass[k].pc = "act" /\ pass'[k].rows = pass[k].rows
             \/ pass[k].pc = "observed" /\ pass'[k].rows = state /\ UNCHANGED state

\* Dealing with a release writes its file and no other,
LEMMA HandlesGoes ==
  ASSUME PassTypes, TodoInv, NEW k \in Controller, NEW d \in Deployment, Handles(k, d)
  PROVE  /\ PassGoes(k)
         /\ UNCHANGED cluster
         /\ \A b \in Deployment : manifest'[b] # manifest[b] => b \in pass[k].todo /\ manifest'[b] # "none"
  <1> DEFINE r == [pass[k] EXCEPT !.todo = @ \ {d}]
  <1>1. pass' = [pass EXCEPT ![k] = r] /\ d \in pass[k].todo
    BY DEF Handles
  <1>2. pass[k] \in PassRecord
    BY DEF PassTypes
  <1>3. /\ r.pc = pass[k].pc /\ r.seen = pass[k].seen /\ r.rows = pass[k].rows
        /\ r.todo \subseteq pass[k].todo /\ pass[k].todo \subseteq Deployment
    BY <1>2 DEF PassRecord
  <1> HIDE DEF r
  <1>4. pass'[k] = r /\ \A l \in Controller \ {k} : pass'[l] = pass[l]
    BY <1>1 DEF PassTypes
  <1>5. PassGoes(k)
    <2>1. \A b \in Deployment : Saw(k, b)' = Saw(k, b)
      BY <1>3, <1>4 DEF Saw
    <2>2. \A b \in pass'[k].todo : b \in pass[k].todo /\ pass'[k].pc = "act" /\ pass'[k].rows[b] \in Shipped
      BY <1>3, <1>4 DEF TodoInv
    <2>3. pass[k].pc = "act"
      BY <1>3, <1>1 DEF TodoInv
    <2>. QED BY <1>3, <1>4, <2>1, <2>2, <2>3 DEF PassGoes
  <1>6. \A b \in Deployment : manifest'[b] # manifest[b] => b \in pass[k].todo /\ manifest'[b] # "none"
    BY <1>1 DEF Handles, Commits, PassTypes
  <1>. QED BY <1>5, <1>6 DEF Handles

\* A pass that ends, or turns to the route, knows nothing of the releases any more.
LEMMA ForgetfulPass ==
  ASSUME PassTypes, NEW k \in Controller, NEW r \in PassRecord,
         r.pc \in {"idle", "route", "commit"}, r.todo = {},
         pass' = [pass EXCEPT ![k] = r]
  PROVE  PassGoes(k) /\ \A d \in Deployment : ~Saw(k, d)'
  <1>1. pass'[k] = r /\ \A l \in Controller \ {k} : pass'[l] = pass[l]
    BY PassMoves
  <1>2. \A d \in Deployment : ~Saw(k, d)'
    BY <1>1 DEF Saw
  <1>. QED BY <1>1, <1>2 DEF PassGoes

\* and the other steps of a pass write no file; the cleanup removes those of
\* orphans, by the rows as read.
LEMMA PassGoesOn ==
  ASSUME DeploymentsTypeOK, PassTypes, TodoInv, NEW k \in Controller,
         \/ Observe(k) \/ ScaleDownAndRead(k) \/ Cleanup(k) \/ ChooseRoute(k) \/ CommitRoute(k)
         \/ CommitFails(k) \/ RouteFails(k) \/ ControllerCrash(k)
  PROVE  /\ PassGoes(k)
         /\ UNCHANGED cluster
         /\ \A d \in Deployment : manifest'[d] # manifest[d] =>
               manifest'[d] = "none" /\ pass[k].pc = "act" /\ d \in Orphans(k) /\ UNCHANGED state
  <1> USE DEF gitVars
  <1>a. pass[k] \in PassRecord /\ NoPass \in PassRecord
    BY NoPassTypes DEF PassTypes
  <1>b. NoPass.pc = "idle" /\ NoPass.todo = {}
    BY DEF NoPass
  <1>1. CASE Observe(k)
    <2> DEFINE r == [NoPass EXCEPT !.pc = "observed", !.liveRead = live, !.seen = cluster,
                    !.inGrace = {d \in Deployment : grace[d] = "running"}]
    <2>1. r.pc = "observed" /\ r.seen = cluster /\ r.todo = {}
      BY <1>a DEF PassRecord, NoPass
    <2>2. /\ pass' = [pass EXCEPT ![k] = r]
          /\ UNCHANGED <<gitVars, cluster>>
      BY <1>1 DEF Observe
    <2> HIDE DEF r
    <2>3. pass'[k] = r /\ \A l \in Controller \ {k} : pass'[l] = pass[l]
      BY <2>2 DEF PassTypes
    <2>. QED BY <2>1, <2>2, <2>3 DEF PassGoes, Saw
  <1>2. CASE ScaleDownAndRead(k)
    <2> DEFINE r == [pass[k] EXCEPT !.pc = "act", !.rows = state, !.sizes = replicas',
                    !.todo = {d \in Deployment : state[d] \in {"Running", "Verifying", "Deploying"}}]
    <2>1. /\ r.pc = "act" /\ r.seen = pass[k].seen /\ r.rows = state
          /\ r.todo = {d \in Deployment : state[d] \in Shipped}
      BY <1>a DEF PassRecord, Shipped
    <2>2. /\ pass' = [pass EXCEPT ![k] = r]
          /\ pass[k].pc = "observed"
          /\ UNCHANGED <<state, gitVars, cluster>>
      BY <1>2 DEF ScaleDownAndRead
    <2> HIDE DEF r
    <2>3. pass'[k] = r /\ \A l \in Controller \ {k} : pass'[l] = pass[l]
      BY <2>2 DEF PassTypes
    <2>. QED BY <2>1, <2>2, <2>3 DEF PassGoes, Saw
  <1>3. ASSUME TurnsToRoute(k) PROVE PassGoes(k)
    <2> DEFINE r == [NoPass EXCEPT !.pc = "route", !.liveRead = pass[k].liveRead,
                                   !.inGrace = pass[k].inGrace]
    <2>1. r \in PassRecord /\ r.pc = "route" /\ r.todo = {}
      BY <1>a DEF PassRecord, NoPass
    <2>2. pass' = [pass EXCEPT ![k] = r]
      BY <1>3 DEF TurnsToRoute
    <2> HIDE DEF r
    <2>. QED BY <2>1, <2>2, ForgetfulPass
  <1>4. CASE Cleanup(k)
    <2>1. /\ PassGoes(k) /\ pass[k].pc = "act" /\ UNCHANGED <<state, cluster>>
          /\ \E refused \in SUBSET Orphans(k) : manifest' = Without(Orphans(k) \ refused)
      BY <1>3, <1>4 DEF Cleanup, rowVars
    <2>. QED BY <2>1 DEF Without
  <1>5. CASE CommitFails(k)
    BY <1>3, <1>5 DEF CommitFails
  <1>6. ASSUME EndsPass(k) PROVE PassGoes(k)
    BY <1>6, <1>a, <1>b, ForgetfulPass DEF EndsPass
  <1>7. CASE ChooseRoute(k)
    <2> DEFINE target == IF HasVanity THEN ServingFor(pass[k].liveRead) ELSE Nobody
               r == [pass[k] EXCEPT !.pc = "commit", !.target = target]
    <2>1. target \in Deployment \cup {Nobody}
      BY ServingTypes
    <2>2. /\ EndsPass(k) \/ pass' = [pass EXCEPT ![k].pc = "commit", ![k].target = target]
          /\ UNCHANGED <<gitVars, cluster>>
          /\ pass[k].pc = "route"
      BY <1>7 DEF ChooseRoute
    <2> HIDE DEF target
    <2>3. pass[k].todo = {}
      BY <1>a, <2>2 DEF TodoInv, PassRecord
    <2>4. r \in PassRecord /\ r.pc = "commit" /\ r.todo = {}
      BY <1>a, <2>1, <2>3 DEF PassRecord
    <2>5. EndsPass(k) \/ pass' = [pass EXCEPT ![k] = r]
      BY <2>2
    <2> HIDE DEF r
    <2>. QED BY <1>6, <2>2, <2>4, <2>5, ForgetfulPass
  <1>8. CASE CommitRoute(k) \/ RouteFails(k)
    BY <1>6, <1>8 DEF CommitRoute, RouteFails
  <1>9. CASE ControllerCrash(k)
    BY <1>6, <1>9 DEF ControllerCrash, EndsPass
  <1>. QED BY <1>1, <1>2, <1>4, <1>5, <1>7, <1>8, <1>9

\* What a step of the controller does to what it knows and to Git.
ControllerGoes ==
    \/ /\ UNCHANGED <<pass, manifest, state>>
       /\ \A d \in Deployment : cluster'[d] # "absent" => cluster[d] # "absent" \/ manifest[d] # "none"
    \/ /\ UNCHANGED cluster
       /\ \E k \in Controller :
             /\ PassGoes(k)
             /\ \A d \in Deployment : manifest'[d] # manifest[d] =>
                   \/ d \in pass[k].todo /\ manifest'[d] # "none"
                   \/ manifest'[d] = "none" /\ pass[k].pc = "act" /\ d \in Orphans(k) /\ UNCHANGED state

\* Every step of the controller, of ArgoCD and of the pods is of that kind.
LEMMA ControllerGoesOn ==
  ASSUME DeploymentsTypeOK, PassTypes, TodoInv, ControllerNext PROVE ControllerGoes
  <1>1. ASSUME NEW d \in Deployment, GraceEnds(d) \/ PodTurns(d) PROVE ControllerGoes
    BY <1>1 DEF GraceEnds, PodTurns, ControllerGoes, rowVars, gitVars, processVars, PassTypes
  <1>2. ASSUME NEW d \in Deployment, ArgoSync(d) PROVE ControllerGoes
    <2>1. /\ UNCHANGED <<pass, manifest, state>>
          /\ \A b \in Deployment \ {d} : cluster'[b] = cluster[b]
      BY <1>2 DEF ArgoSync, rowVars, gitVars, processVars, PassTypes
    <2>2. ASSUME manifest[d] = "none" PROVE cluster'[d] = "absent"
      <3>1. Wanted(d) = {"absent"}
        BY <2>2 DEF Wanted
      <3>. QED BY <1>2, <2>2, <3>1 DEF ArgoSync, PassTypes
    <2>. QED BY <2>1, <2>2 DEF ControllerGoes
  <1>3. ASSUME NEW k \in Controller, NEW d \in Deployment, Handles(k, d) PROVE ControllerGoes
    BY <1>3, HandlesGoes DEF ControllerGoes
  <1>4. ASSUME NEW k \in Controller,
               \/ Observe(k) \/ ScaleDownAndRead(k) \/ Cleanup(k) \/ ChooseRoute(k) \/ CommitRoute(k)
               \/ CommitFails(k) \/ RouteFails(k) \/ ControllerCrash(k)
        PROVE  ControllerGoes
    BY <1>4, PassGoesOn DEF ControllerGoes
  <1>5. ASSUME NEW k \in Controller, NEW d \in Deployment,
               LeaveAlone(k, d) \/ CountCrash(k, d) \/ AwaitReady(k, d) \/ GoLive(k, d)
        PROVE  Handles(k, d)
    BY <1>5 DEF LeaveAlone, CountCrash, AwaitReady, GoLive
  <1>. QED BY <1>1, <1>2, <1>3, <1>4, <1>5 DEF ControllerNext, PassStep

\* New traces appear only of what is deployed.
TracesFollow == \A d \in Deployment : Traced(d)' => Traced(d) \/ state[d] \in Shipped

\* So it is with every step of the controller.
LEMMA ControllerTraces ==
  ASSUME PassTypes, TodoInv, ControllerGoes PROVE TodoInv' /\ TracesFollow
  <1>1. CASE /\ UNCHANGED <<pass, manifest, state>>
             /\ \A d \in Deployment : cluster'[d] # "absent" => cluster[d] # "absent" \/ manifest[d] # "none"
    BY <1>1 DEF TodoInv, TracesFollow, Traced, Saw
  <1>2. ASSUME UNCHANGED cluster, NEW k \in Controller, PassGoes(k),
               \A d \in Deployment : manifest'[d] # manifest[d] =>
                   d \in pass[k].todo \/ manifest'[d] = "none"
        PROVE  TodoInv' /\ TracesFollow
    <2>1. TodoInv'
      BY <1>2 DEF TodoInv, PassGoes
    <2>2. ASSUME NEW d \in Deployment, NEW l \in Controller, Saw(l, d)' \/ d \in pass'[l].todo
          PROVE  Traced(d) \/ state[d] \in Shipped
      <3>1. CASE l = k
        BY <1>2, <2>2, <3>1 DEF PassGoes, Traced
      <3>2. CASE l # k
        BY <1>2, <2>2, <3>2 DEF PassGoes, Traced, Saw
      <3>. QED BY <3>1, <3>2
    <2>3. TracesFollow
      BY <1>2, <2>2 DEF TracesFollow, Traced
    <2>. QED BY <2>1, <2>3
  <1>. QED BY <1>1, <1>2 DEF ControllerGoes

\* With one controller, a row that was done with when its pass read it stays so.
LEMMA ControllerGone ==
  ASSUME OneController, TodoInv, TracedInv, GoneInv, PassTypes, DeploymentsTypeOK,
         ControllerGoes, RowsDecided
  PROVE  GoneInv'
  <1> SUFFICES ASSUME NEW l \in Controller, NEW d \in Deployment,
                      pass'[l].pc = "act", Saw(l, d)', pass'[l].rows[d] \notin Active \cup {"Running"}
               PROVE  Gone(d)'
    BY DEF GoneInv
  <1>1. ASSUME pass[l].pc = "act", Saw(l, d), pass[l].rows[d] \notin Active \cup {"Running"}
        PROVE  Gone(d)'
    <2>1. Gone(d)
      BY <1>1 DEF GoneInv
    <2>2. \A k \in Controller : d \notin pass[k].todo
      BY <1>1 DEF TodoInv, OneController, Shipped, Active
    <2>. QED BY <2>1, <2>2 DEF RowsDecided, Gone
  <1>2. ASSUME Saw(l, d), state[d] \notin Active \cup {"Running"}, UNCHANGED state PROVE Gone(d)'
    BY <1>2 DEF TracedInv, Traced, Gone, DeploymentsTypeOK, States
  <1>3. CASE UNCHANGED pass
    BY <1>1, <1>3 DEF Saw
  <1>4. CASE PassGoes(l)
    BY <1>1, <1>2, <1>4 DEF PassGoes
  <1>. QED BY <1>3, <1>4 DEF ControllerGoes, OneController

\* The orphan cleanup works on what its pass has read, so then it removes no file
\* of a release in use (_LIVE_STATES).
LEMMA ControllerKeepsFiles ==
  ASSUME GoneInv, PassTypes, ControllerGoes
  PROVE  \A d \in Deployment : manifest[d] # "none" /\ manifest'[d] = "none"
             => state[d] \notin Active \cup {"Running"}
  <1> SUFFICES ASSUME NEW d \in Deployment, manifest[d] # "none", manifest'[d] = "none"
               PROVE  Gone(d)
    BY DEF Gone, Active
  <1>1. PICK k \in Controller : pass[k].pc = "act" /\ d \in Orphans(k)
    BY DEF ControllerGoes
  <1>. QED BY <1>1 DEF GoneInv, Orphans, Absent, Saw

\* Until a commit is refused or lost the cache of the route (_vanity_synced) names
\* what Git says, and a release a pass is about to point the route at is up until it
\* has: nothing scales down in between but the pass itself.
RouteInv ==
    /\ cuts = 0 => \A k \in Controller : synced[k] = {} \/ synced[k] = {vanity}
    /\ \A k \in Controller : pass[k].pc = "commit" =>
          pass[k].target = Nobody \/ replicas[pass[k].target] > 0
    /\ RouteNeverGone

\* A pass ends by pointing the route at a release that is up, or has found that
\* it already points there (sync_vanity_route).
LEMMA ControllerRoute ==
  ASSUME OneController, DeploymentsTypeOK, PassTypes, RouteInv, ControllerNext
  PROVE  RouteInv'
  <1> USE DEF rowVars, releaseVars, gitVars, processVars
  <1>1. ASSUME NEW d \in Deployment, GraceEnds(d) \/ ArgoSync(d) \/ PodTurns(d) PROVE RouteInv'
    BY <1>1 DEF GraceEnds, ArgoSync, PodTurns, RouteInv, RouteNeverGone
  <1> SUFFICES ASSUME NEW k \in Controller,
                      \/ Observe(k) \/ ScaleDownAndRead(k) \/ Cleanup(k) \/ ChooseRoute(k) \/ CommitRoute(k)
                      \/ CommitFails(k) \/ RouteFails(k) \/ ControllerCrash(k)
                      \/ \E d \in Deployment : LeaveAlone(k, d) \/ CountCrash(k, d) \/ AwaitReady(k, d)
                                             \/ GoLive(k, d)
               PROVE  RouteInv'
    BY <1>1 DEF ControllerNext, PassStep
  <1>a. pass[k] \in PassRecord /\ NoPass.pc = "idle" /\ \A l \in Controller : l = k
    BY DEF PassTypes, NoPass, OneController
  <1>b. cuts \in Nat /\ (cuts' = cuts \/ cuts' = cuts + 1)
    <2>1. cuts \in Nat
      BY ReleaseAssumption DEF PassTypes
    <2>2. UNCHANGED cuts \/ Cut
      BY DEF Observe, ScaleDownAndRead, Cleanup, ChooseRoute, CommitRoute, CommitFails,
         RouteFails, ControllerCrash, LeaveAlone, CountCrash, AwaitReady, GoLive, Handles, Commits
    <2>. QED BY <2>1, <2>2 DEF Cut
  \* The pass has not reached the route: RouteInv asks nothing of it yet.
  <1>2. ASSUME pass'[k].pc \in {"observed", "act", "route"}, UNCHANGED <<vanity, synced>>
        PROVE  RouteInv'
    BY <1>2, <1>a, <1>b DEF RouteInv, RouteNeverGone
  <1>3. CASE Observe(k) \/ ScaleDownAndRead(k) \/ Cleanup(k) \/ CommitFails(k)
    <2>1. UNCHANGED <<vanity, synced>>
      BY <1>3 DEF Observe, ScaleDownAndRead, Cleanup, CommitFails
    <2>2. PICK r : pass' = [pass EXCEPT ![k] = r] /\ r.pc \in {"observed", "act", "route"}
      <3>1. CASE Observe(k)
        <4> DEFINE r == [NoPass EXCEPT !.pc = "observed", !.liveRead = live, !.seen = cluster,
                          !.inGrace = {d \in Deployment : grace[d] = "running"}]
        <4>1. pass' = [pass EXCEPT ![k] = r] /\ r.pc = "observed"
          BY <3>1 DEF Observe, NoPass
        <4>. QED BY <4>1
      <3>2. CASE ScaleDownAndRead(k)
        <4> DEFINE r == [pass[k] EXCEPT !.pc = "act", !.rows = state, !.sizes = replicas',
                          !.todo = {d \in Deployment : state[d] \in {"Running", "Verifying", "Deploying"}}]
        <4>1. pass' = [pass EXCEPT ![k] = r]
          BY <3>2 DEF ScaleDownAndRead
        <4>2. r.pc = "act"
          BY <1>a DEF PassRecord
        <4>. QED BY <4>1, <4>2
      <3>3. CASE TurnsToRoute(k)
        <4> DEFINE r == [NoPass EXCEPT !.pc = "route", !.liveRead = pass[k].liveRead,
                                       !.inGrace = pass[k].inGrace]
        <4>1. pass' = [pass EXCEPT ![k] = r] /\ r.pc = "route"
          BY <3>3 DEF TurnsToRoute, NoPass
        <4>. QED BY <4>1
      <3>. QED BY <1>3, <3>1, <3>2, <3>3 DEF Cleanup, CommitFails
    <2>3. pass'[k].pc \in {"observed", "act", "route"}
      BY <2>2 DEF PassTypes
    <2>. QED BY <2>1, <2>3, <1>2
  <1>4. ASSUME NEW d \in Deployment, LeaveAlone(k, d) \/ CountCrash(k, d) \/ AwaitReady(k, d) \/ GoLive(k, d)
        PROVE  RouteInv'
    <2>1. Handles(k, d)
      BY <1>4 DEF LeaveAlone, CountCrash, AwaitReady, GoLive
    <2> DEFINE r == [pass[k] EXCEPT !.todo = @ \ {d}]
    <2>2. pass' = [pass EXCEPT ![k] = r] /\ pass[k].pc = "act" /\ UNCHANGED <<vanity, synced>>
      BY <2>1 DEF Handles
    <2>3. r.pc = pass[k].pc
      BY <1>a DEF PassRecord
    <2> HIDE DEF r
    <2>4. pass'[k].pc = "act"
      BY <2>2, <2>3 DEF PassTypes
    <2>. QED BY <2>2, <2>4, <1>2
  \* A pass that ends with a failure, or with a commit that was refused.
  <1>5. ASSUME pass' = [pass EXCEPT ![k] = NoPass], cuts' # 0 PROVE RouteInv'
    <2>1. pass'[k].pc = "idle"
      BY <1>5, <1>a DEF PassTypes
    <2>. QED BY <2>1, <1>5, <1>a DEF RouteInv, RouteNeverGone
  <1>8. CASE RouteFails(k) \/ ControllerCrash(k)
    BY <1>5, <1>8, <1>b DEF RouteFails, ControllerCrash, Cut, EndsPass
  \* The target is up when it is chosen, and no row is scaled down until it is
  \* committed.
  <1>6. CASE ChooseRoute(k)
    <2> DEFINE target == IF HasVanity THEN ServingFor(pass[k].liveRead) ELSE Nobody
               r == [pass[k] EXCEPT !.pc = "commit", !.target = target]
    <2>1. target = Nobody \/ replicas[target] > 0
      BY ServingIsUp
    <2>2. /\ IF synced[k] = {target} THEN EndsPass(k)
             ELSE pass' = [pass EXCEPT ![k].pc = "commit", ![k].target = target]
          /\ UNCHANGED <<vanity, synced, replicas, cuts>>
      BY <1>6 DEF ChooseRoute
    <2> HIDE DEF target
    <2>3. CASE synced[k] = {target}
      <3>1. pass'[k].pc = "idle"
        BY <2>2, <2>3, <1>a DEF EndsPass, PassTypes
      <3>2. cuts = 0 => vanity = target
        BY <2>3 DEF RouteInv
      <3>. QED BY <2>1, <2>2, <3>1, <3>2, <1>a DEF RouteInv, RouteNeverGone
    <2>4. CASE synced[k] # {target}
      <3>1. pass' = [pass EXCEPT ![k] = r]
        BY <2>2, <2>4
      <3>2. r.pc = "commit" /\ r.target = target
        BY <1>a DEF PassRecord
      <3> HIDE DEF r
      <3>3. pass'[k].pc = "commit" /\ pass'[k].target = target
        BY <3>1, <3>2 DEF PassTypes
      <3>. QED BY <2>1, <2>2, <3>3, <1>a DEF RouteInv, RouteNeverGone
    <2>. QED BY <2>3, <2>4
  <1>7. CASE CommitRoute(k)
    <2>1. /\ pass[k].pc = "commit"
          /\ synced' = [synced EXCEPT ![k] = {pass[k].target}]
          /\ pass' = [pass EXCEPT ![k] = NoPass]
          /\ UNCHANGED replicas
          /\ vanity' = pass[k].target \/ cuts' # 0
      BY <1>7, <1>b DEF CommitRoute, EndsPass, Cut
    <2>2. pass'[k].pc = "idle" /\ synced'[k] = {pass[k].target}
      BY <2>1, <1>a DEF PassTypes
    <2>3. CASE vanity' = pass[k].target
      BY <2>1, <2>2, <2>3, <1>a DEF RouteInv, RouteNeverGone
    <2>. QED BY <2>1, <2>3, <1>5
  <1>. QED BY <1>3, <1>4, <1>6, <1>7, <1>8

-----------------------------------------------------------------------------
(* Steps of users and workers.                                             *)

\* What they leave alone: Git, the cluster and what the passes know.
SamePasses ==
    /\ UNCHANGED <<manifest, cluster, vanity, synced, cuts, replicas>>
    /\ \A k \in Controller :
          /\ pass'[k].pc = pass[k].pc /\ pass'[k].seen = pass[k].seen
          /\ pass'[k].rows = pass[k].rows /\ pass'[k].todo = pass[k].todo
          /\ pass'[k].target = pass[k].target

\* Then the traces are the same ones, and the route is where it was.
LEMMA RowStepPasses ==
  ASSUME TodoInv, SamePasses
  PROVE  /\ TodoInv'
         /\ \A d \in Deployment : Traced(d)' <=> Traced(d)
         /\ \A k \in Controller, d \in Deployment : Saw(k, d)' <=> Saw(k, d)
         /\ RouteInv => RouteInv'
  <1>1. \A k \in Controller, d \in Deployment : Saw(k, d)' <=> Saw(k, d)
    BY DEF Saw, SamePasses
  <1>2. \A d \in Deployment : Traced(d)' <=> Traced(d)
    BY <1>1 DEF Traced, SamePasses
  <1>3. TodoInv'
    BY DEF TodoInv, SamePasses
  <1>4. RouteInv => RouteInv'
    BY DEF RouteInv, RouteNeverGone, SamePasses
  <1>. QED BY <1>1, <1>2, <1>3, <1>4

\* What a pass has read as done with stays so if nothing traced is taken back.
LEMMA RowStepGone ==
  ASSUME TodoInv, GoneInv, SamePasses,
         \A d \in Deployment : Traced(d) /\ Gone(d) => Gone(d)'
  PROVE  GoneInv'
  <1>1. \A k \in Controller, d \in Deployment : Saw(k, d)' <=> Saw(k, d)
    BY RowStepPasses
  <1>. QED BY <1>1 DEF GoneInv, SamePasses, Traced

\* An instant rollback changes the grace periods and no more of a pass.
LEMMA SwitchBackPasses ==
  ASSUME PassTypes, NEW q \in Request, SwitchBack(q)
  PROVE  SamePasses /\ UNCHANGED <<state, buildVars>>
  <1>1. /\ UNCHANGED <<gitVars, cluster, synced, crashes, cuts, state, replicas, buildVars>>
        /\ \E changed :
              pass' = [k \in Controller |-> [pass[k] EXCEPT !.inGrace = @ \ changed]]
    BY DEF SwitchBack, RollbackInstantly
  <1>2. PICK changed : pass' = [k \in Controller |-> [pass[k] EXCEPT !.inGrace = @ \ changed]]
    BY <1>1
  <1>3. ASSUME NEW k \in Controller
        PROVE  /\ pass'[k].pc = pass[k].pc /\ pass'[k].seen = pass[k].seen
               /\ pass'[k].rows = pass[k].rows /\ pass'[k].todo = pass[k].todo
               /\ pass'[k].target = pass[k].target
    <2> DEFINE r == [pass[k] EXCEPT !.inGrace = @ \ changed]
    <2>1. pass[k] \in PassRecord
      BY DEF PassTypes
    <2>2. /\ r.pc = pass[k].pc /\ r.seen = pass[k].seen /\ r.rows = pass[k].rows
          /\ r.todo = pass[k].todo /\ r.target = pass[k].target
      BY <2>1 DEF PassRecord
    <2>3. pass'[k] = r
      BY <1>2
    <2>. QED BY <2>2, <2>3
  <1>. QED BY <1>1, <1>3 DEF SamePasses, gitVars

\* Users put a row into the table, or take one out of progress.
UserRows ==
    /\ \A d \in Deployment : state'[d] # state[d] =>
          \/ state[d] = "none" /\ state'[d] = "Queued"
          \/ state[d] \in Active /\ state'[d] = "Failed"
    /\ \A d \in Deployment : d \in unsettled' => d \in unsettled \/ state[d] = "none"
    /\ unsettled \subseteq unsettled'
    /\ UNCHANGED replicas

\* The endpoints do no more (create_deployment, cancel_deployment,
\* rollback_deployment).
LEMMA UsersMoveRows ==
  ASSUME DeploymentsTypeOK,
         \/ \E d \in Deployment : Create(d) \/ Cancel(d) \/ KillJob(d)
         \/ \E q \in Request : RollbackStep(q)
  PROVE  UserRows
  <1> USE DEF releaseVars, buildVars, UserRows
  <1>1. ASSUME NEW d \in Deployment, Create(d) PROVE UserRows
    BY <1>1 DEF Create, Fresh, SetState, DeploymentsTypeOK
  <1>2. ASSUME NEW d \in Deployment, Cancel(d) PROVE UserRows
    BY <1>2 DEF Cancel, SetState, DeploymentsTypeOK
  <1>3. ASSUME NEW d \in Deployment, KillJob(d) PROVE UserRows
    BY <1>3 DEF KillJob
  <1>4. ASSUME NEW q \in Request, RollbackStart(q) \/ RollbackChoose(q) \/ RollbackRefused(q) PROVE UserRows
    BY <1>4 DEF RollbackStart, RollbackChoose, RollbackRefused
  <1>5. ASSUME NEW q \in Request, NEW d \in Deployment, RollbackByDeploying(q, d) PROVE UserRows
    BY <1>5 DEF RollbackByDeploying, Fresh, SetState, DeploymentsTypeOK
  <1>. QED BY <1>1, <1>2, <1>3, <1>4, <1>5 DEF RollbackStep

-----------------------------------------------------------------------------
(* ReleaseController on its own.                                           *)

\* The inductive invariant of ReleaseSpec, with any number of controllers,
ReleaseInv == DeploymentsTypeOK /\ TargetInv /\ PassTypes /\ TodoInv /\ TracedInv
\* and what is inductive on top of it with one.
RoutedInv == ReleaseInv /\ RouteInv

\* The controller keeps ReleaseInv.
LEMMA ControllerKeepsReleaseInv ==
  ASSUME ReleaseInv, ControllerNext
  PROVE  ReleaseInv' /\ ControllerGoes /\ RowsDecided /\ TracesFollow
  <1>1. DeploymentsTypeOK' /\ PassTypes' /\ RowsDecided /\ ControllerGoes
    BY ControllerTypes, ControllerGoesOn DEF ReleaseInv
  <1>2. TodoInv' /\ TracesFollow
    BY <1>1, ControllerTraces DEF ReleaseInv
  <1>3. TargetInv'
    BY <1>1 DEF RowsDecided, TargetInv, ReleaseInv
  <1>4. TracedInv'
    BY <1>1, <1>2 DEF ReleaseInv, TracedInv, TracesFollow, RowsDecided, Shipped
  <1>. QED BY <1>1, <1>2, <1>3, <1>4 DEF ReleaseInv

\* So does whoever leaves passes alone and takes no row out of the table.
LEMMA RowStepKeepsReleaseInv ==
  ASSUME ReleaseInv, DeploymentsTypeOK', TargetInv', PassTypes', SamePasses,
         \A d \in Deployment : state'[d] = "none" => state[d] = "none"
  PROVE  ReleaseInv'
  BY RowStepPasses DEF ReleaseInv, TracedInv

\* Everything else ReleaseNext lets happen.
LEMMA ReleaseRowStep ==
  ASSUME ReleaseInv,
         \/ /\ \/ \E q \in Request : RollbackStep(q)
               \/ \E d \in Deployment : Create(d) \/ Cancel(d)
            /\ UNCHANGED <<gitVars, cluster, processVars, cuts>>
            /\ Ages({})
         \/ \E q \in Request : SwitchBack(q)
         \/ \E d \in Deployment : WorkerDecides(d)
  PROVE  ReleaseInv' /\ SamePasses
  <1>1. CASE /\ \/ \E q \in Request : RollbackStep(q)
                \/ \E d \in Deployment : Create(d) \/ Cancel(d)
             /\ UNCHANGED <<gitVars, cluster, processVars, cuts>>
             /\ Ages({})
    <2>1. UserRows /\ DeploymentsTypeOK' /\ TargetInv'
      BY <1>1, UsersMoveRows, UsersKeepTypes DEF ReleaseInv
    <2>2. PassTypes' /\ SamePasses
      BY <1>1, <2>1, RowStepTypes DEF ReleaseInv, SamePasses, gitVars, processVars, UserRows
    <2>. QED BY <2>1, <2>2, RowStepKeepsReleaseInv DEF UserRows, Active
  <1>2. ASSUME NEW q \in Request, SwitchBack(q)
        PROVE  ReleaseInv' /\ SamePasses
    BY <1>2, SwitchBackTypes, SwitchBackPasses, RowStepKeepsReleaseInv DEF ReleaseInv
  <1>3. ASSUME NEW d \in Deployment, WorkerDecides(d)
        PROVE  ReleaseInv' /\ SamePasses
    <2>1. /\ UNCHANGED <<releaseVars, rollbacks, jobs, killing, request, gitVars, cluster,
                         processVars, cuts>>
          /\ Ages({})
          /\ unsettled' = unsettled \ {d}
          /\ pinned' = pinned \/ pinned' = pinned \cup {d}
          /\ \E s \in {"Deploying", "Failed"} : SetState(d, s)
      BY <1>3 DEF WorkerDecides
    <2>2. /\ state' \in [Deployment -> States]
          /\ \A b \in Deployment : state'[b] # state[b] => b = d /\ state'[b] # "none"
      BY <2>1 DEF SetState, ReleaseInv, DeploymentsTypeOK, States, Active
    <2>3. DeploymentsTypeOK' /\ TargetInv'
      BY <2>1, <2>2 DEF ReleaseInv, DeploymentsTypeOK, TargetInv, releaseVars
    <2>4. PassTypes' /\ SamePasses
      BY <2>1, RowStepTypes DEF ReleaseInv, SamePasses, gitVars, processVars, releaseVars
    <2>. QED BY <2>1, <2>2, <2>3, <2>4, RowStepKeepsReleaseInv
  <1>. QED BY <1>1, <1>2, <1>3

\* RoutedInv holds at the start.
LEMMA InitReleaseInv == ReleaseInit => RoutedInv
  <1> SUFFICES ASSUME ReleaseInit PROVE RoutedInv
    OBVIOUS
  <1> USE DEF ReleaseInit, DeploymentsInit
  <1>1. DeploymentsTypeOK /\ TargetInv
    BY DEF DeploymentsTypeOK, TargetInv, States, Active, NoRequest
  <1>2. PassTypes
    BY NoPassTypes, ReleaseAssumption DEF PassTypes
  <1>3. \A k \in Controller : pass[k].pc = "idle" /\ pass[k].todo = {}
    BY DEF NoPass
  <1>4. TodoInv /\ TracedInv
    BY <1>3 DEF TodoInv, TracedInv, Traced, Saw
  <1>5. RouteInv
    BY <1>3 DEF RouteInv, RouteNeverGone
  <1>. QED BY <1>1, <1>2, <1>4, <1>5 DEF RoutedInv, ReleaseInv

\* Every step keeps ReleaseInv,
LEMMA NextReleaseInv == ReleaseInv /\ [ReleaseNext]_releaseAll => ReleaseInv'
  <1> SUFFICES ASSUME ReleaseInv, [ReleaseNext]_releaseAll PROVE ReleaseInv'
    OBVIOUS
  <1>1. CASE UNCHANGED releaseAll
    BY <1>1 DEF releaseAll, rowVars, releaseVars, buildVars, gitVars, processVars, ReleaseInv,
                DeploymentsTypeOK, TargetInv, PassTypes, TodoInv, TracedInv, Traced, Saw
  <1>. QED BY <1>1, ControllerKeepsReleaseInv, ReleaseRowStep DEF ReleaseNext

\* and RoutedInv, if one controller is at work.
LEMMA NextRoutedInv ==
  ASSUME OneController, RoutedInv, [ReleaseNext]_releaseAll
  PROVE  RoutedInv'
  <1>a. ReleaseInv /\ DeploymentsTypeOK /\ PassTypes /\ TodoInv /\ RouteInv
    BY DEF RoutedInv, ReleaseInv
  <1>b. ReleaseInv'
    BY <1>a, NextReleaseInv
  <1>1. CASE UNCHANGED releaseAll
    <2>1. SamePasses
      BY <1>1 DEF releaseAll, rowVars, releaseVars, gitVars, processVars, SamePasses
    <2>. QED BY <1>a, <1>b, <2>1, RowStepPasses DEF RoutedInv
  <1>2. CASE ControllerNext
    BY <1>a, <1>b, <1>2, ControllerRoute DEF RoutedInv
  <1>3. ASSUME SamePasses PROVE RoutedInv'
    BY <1>3, <1>a, <1>b, RowStepPasses DEF RoutedInv
  <1>. QED BY <1>1, <1>2, <1>3, <1>a, ReleaseRowStep DEF ReleaseNext

\* Rows, passes, caches, files and cluster have the types the model says, however
\* many controllers work at once (reconcile_deployments, promote_release,
\* sync_vanity_route).
THEOREM ReleaseTypes == ReleaseSpec => []ReleaseTypeOK
  <1>1. ReleaseInit => ReleaseInv
    BY InitReleaseInv DEF RoutedInv
  <1>2. ReleaseInv => ReleaseTypeOK
    BY PassTypesImplyTypes DEF ReleaseInv
  <1>. QED BY <1>1, <1>2, NextReleaseInv, PTL DEF ReleaseSpec

\* With one controller, the stable hostname never points at a release that has
\* been scaled down, between passes and until a commit fails: whatever the pass
\* did, its last step routes by the rows as they are then (sync_vanity_route).
THEOREM RouteStaysUp == ASSUME OneController PROVE ReleaseSpec => []RouteNeverGone
  <1>1. RoutedInv /\ [ReleaseNext]_releaseAll => RoutedInv'
    BY NextRoutedInv
  <1>2. RoutedInv => RouteNeverGone
    BY DEF RoutedInv, RouteInv
  <1>. QED BY <1>1, <1>2, InitReleaseInv, PTL DEF ReleaseSpec

-----------------------------------------------------------------------------
(* The project end to end.                                                 *)

\* Whatever has left a trace in Git, in the cluster or in a pass is pinned.
PinInv ==
    /\ \A d \in Deployment : state[d] # "Verifying"
    /\ \A d \in Deployment : Traced(d) => d \in pinned

\* The inductive invariant of PlatformSpec: the workers' (BInv, RollbackInv,
\* WorkInv's parts), the controller's, and that traces are pinned.
PlatformInv == BInv /\ RollbackInv /\ AloneInv /\ AttendedInv /\ ReleaseInv /\ PinInv

\* No worker will touch the row of d again: its message is settled, or with a
\* thread that has only to settle it.
Done(d) ==
    /\ \A h \in Handler : Msg(h) = d => handler[h].pc \in {"settle", "reap", "ack"}
    /\ d \in unsettled => d \in Taken

\* Whatever is deployed or has left a trace is done with.  A crash before the ack
\* breaks it: the message comes again.
DoneInv == \A d \in Deployment : Traced(d) \/ state[d] \in Shipped => Done(d)

\* What holds until the first fault besides, with any number of controllers and
\* with one.
UndisturbedInv == PlatformInv /\ (faults = 0 => DoneInv)
OnePassInv == UndisturbedInv /\ RouteInv /\ (faults = 0 => GoneInv)

\* A pass that writes Running after users have failed the row still writes it of
\* something pinned, and no row enters progress by it: the workers' invariant
\* survives the controller's unconditional UPDATEs.
LEMMA ControllerKeepsBInv ==
  ASSUME BInv, ReleaseInv, PinInv, DeploymentsTypeOK', RowsDecided, UNCHANGED handler
  PROVE  BInv'
  <1>1. /\ UNCHANGED <<pinned, rollbacks, unsettled, request>>
        /\ \A d \in Deployment : state'[d] # state[d] =>
              \/ state'[d] \in {"Failed", "Superseded"}
              \/ state'[d] = "Running" /\ d \in pinned
    BY DEF RowsDecided, PinInv, Traced, buildVars
  <1>2. RowInv'
    <2>1. OneActive'
      BY <1>1 DEF BInv, RowInv, OneActive, Active
    <2>2. QueuedHasMessage' /\ ReleasesArePinned'
      BY <1>1 DEF BInv, RowInv, QueuedHasMessage, ReleasesArePinned
    <2>. QED BY <1>1, <2>1, <2>2 DEF BInv, RowInv, DeploymentsTypeOK
  <1>3. Grows
    BY <1>1 DEF Grows, Left, LeftNext
  <1>4. HandlerInv' /\ RequestInv'
    BY <1>1, <1>3, HandlersStay DEF BInv, RequestInv
  <1>. QED BY <1>2, <1>4 DEF BInv

\* It touches no message, Job or image,
LEMMA ControllerKeepsRollbackInv ==
  ASSUME RollbackInv, DeploymentsTypeOK', TargetInv', RowsDecided, UNCHANGED <<handler, faults>>
  PROVE  RollbackInv'
  <1>1. BuildTypeOK'
    BY DEF RollbackInv, BuildTypeOK, At, Msg
  <1>2. OutsideStep
    BY DEF RowsDecided, OutsideStep, buildVars
  <1>. QED BY <1>1, <1>2, OutsideKeepsRollbackInv DEF RollbackInv

\* and keeps the whole of PlatformInv.
LEMMA ControllerKeepsPlatformInv ==
  ASSUME PlatformInv, ControllerNext, UNCHANGED <<handler, faults>>
  PROVE  PlatformInv'
  <1>1. ReleaseInv' /\ RowsDecided /\ TracesFollow
    BY ControllerKeepsReleaseInv DEF PlatformInv
  <1>2. BInv' /\ RollbackInv'
    BY <1>1, ControllerKeepsBInv, ControllerKeepsRollbackInv DEF PlatformInv, ReleaseInv
  <1>3. AloneInv' /\ AttendedInv'
    <2>1. OutsideStep /\ BuildTypeOK /\ BuildTypeOK' /\ faults' >= faults
      BY <1>1, <1>2 DEF RowsDecided, OutsideStep, buildVars, PlatformInv, RollbackInv, BuildTypeOK
    <2>. QED BY <2>1, OutsideKeepsWorkInv DEF PlatformInv
  <1>4. PinInv'
    BY <1>1 DEF PlatformInv, PinInv, RowsDecided, TracesFollow, BInv, RowInv, ReleasesArePinned,
                Shipped, buildVars
  <1>. QED BY <1>1, <1>2, <1>3, <1>4 DEF PlatformInv

\* Users never take a digest away, nor write "Verifying".
LEMMA UsersKeepPins ==
  ASSUME DeploymentsTypeOK,
         \/ \E d \in Deployment : Create(d) \/ Cancel(d) \/ KillJob(d)
         \/ \E q \in Request : RollbackStep(q)
  PROVE  pinned \subseteq pinned'
  <1> USE DEF releaseVars, buildVars
  <1>1. ASSUME NEW d \in Deployment, Create(d) \/ Cancel(d) \/ KillJob(d) PROVE pinned \subseteq pinned'
    BY <1>1 DEF Create, Cancel, KillJob
  <1>2. ASSUME NEW q \in Request, RollbackStep(q) PROVE pinned \subseteq pinned'
    BY <1>2 DEF RollbackStep, RollbackStart, RollbackChoose, RollbackRefused, RollbackByDeploying
  <1>. QED BY <1>1, <1>2

\* The rows a worker moves, and what it leaves alone.
WorkerRows ==
    /\ UNCHANGED replicas
    /\ pinned \subseteq pinned'
    /\ \A d \in Deployment : state'[d] # state[d] => state'[d] \in {"Building", "Deploying", "Failed"}

\* No step of process_message, monitor_job or the sweep does more.
LEMMA WorkerMovesRows ==
  ASSUME DeploymentsTypeOK, WorkerNext
  PROVE  WorkerRows
  <1> USE DEF rowVars, releaseVars, buildVars, WorkerRows, SetState, DeploymentsTypeOK
  <1>1. ASSUME NEW h \in Handler,
               Refuse(h) \/ Examine(h) \/ Settle(h) \/ CreateJob(h) \/ PrepareFails(h) \/ PodMissing(h)
               \/ PollEnds(h) \/ Promote(h) \/ PromoteFails(h) \/ RetryWithFix(h) \/ Reap(h) \/ Bury(h)
               \/ Crash(h) \/ CallFails(h) \/ \E d \in Deployment : Deliver(h, d)
        PROVE  WorkerRows
    BY <1>1 DEF Refuse, Examine, Settle, CreateJob, PrepareFails, PodMissing, PollEnds, Promote,
                PromoteFails, RetryWithFix, Reap, Bury, Crash, CallFails, Deliver
  <1>2. ASSUME NEW h \in Handler, AdvanceRollback(h) \/ PodAppears(h) \/ Finish(h) \/ MarkFailed(h) \/ Reject(h)
        PROVE  WorkerRows
    BY <1>2 DEF AdvanceRollback, PodAppears, Finish, MarkFailed, Reject
  <1>3. ASSUME NEW d \in Deployment, Resend(d) PROVE WorkerRows
    BY <1>3 DEF Resend
  <1>4. ASSUME NEW j \in DOMAIN jobs, JobEnds(j) \/ JobExpires(j) PROVE WorkerRows
    BY <1>4 DEF JobEnds, JobExpires
  <1>5. ASSUME NEW S \in SUBSET Deployment, SweepStuck(S) PROVE WorkerRows
    BY <1>5 DEF SweepStuck, Sweep
  <1>. QED BY <1>1, <1>2, <1>3, <1>4, <1>5 DEF WorkerNext, HandlerStep

\* As long as nothing fails no two threads share a message, and every Job
\* has its thread.
LEMMA WorkersKeepHands ==
  ASSUME RollbackInv, RollbackInv', AloneInv, AttendedInv, WorkerNext
  PROVE  AloneInv' /\ AttendedInv'
  <1>a. BuildTypeOK /\ BuildTypeOK' /\ UnbornInv /\ NoRollbackIsBuilt
    BY DEF RollbackInv
  <1>1. ASSUME NEW h \in Handler, HandlerStep(h) \/ Crash(h) \/ CallFails(h)
        PROVE  AloneInv' /\ AttendedInv'
    BY <1>1, <1>a, ThreadEffect, ThreadJobEffect, FaultsGrow, ThreadKeepsWorkInv
  <1>2. ASSUME NEW h \in Handler, NEW d \in Deployment, Deliver(h, d)
        PROVE  AloneInv' /\ AttendedInv'
    BY <1>2, <1>a, DeliverKeepsWorkInv
  <1>3. ASSUME \/ \E d \in Deployment : Resend(d)
               \/ \E j \in DOMAIN jobs : JobEnds(j) \/ JobExpires(j)
               \/ \E S \in SUBSET Deployment : SweepStuck(S)
        PROVE  AloneInv' /\ AttendedInv'
    BY <1>3, <1>a, QueueEffect, OutsideKeepsWorkInv
  <1>. QED BY <1>1, <1>2, <1>3 DEF WorkerNext

\* A step of users or workers: what PlatformNext has besides the controller.
OthersNext ==
    \/ /\ \/ WorkerNext
          \/ /\ \/ \E q \in Request : RollbackStep(q)
                \/ \E d \in Deployment : Create(d) \/ Cancel(d) \/ KillJob(d)
             /\ UNCHANGED <<handler, faults>>
       /\ UNCHANGED <<gitVars, cluster, processVars, cuts>>
       /\ Ages({})
    \/ (\E q \in Request : SwitchBack(q)) /\ UNCHANGED <<handler, faults>>

\* There is nothing else.
LEMMA PlatformSteps == PlatformNext => OthersNext \/ (ControllerNext /\ UNCHANGED <<handler, faults>>)
  BY DEF PlatformNext, OthersNext

\* Users and workers keep PlatformInv and what the passes know,
LEMMA OthersKeepPlatformInv ==
  ASSUME PlatformInv, OthersNext
  PROVE  PlatformInv' /\ SamePasses
  <1>a. /\ BInv /\ RollbackInv /\ AloneInv /\ AttendedInv /\ ReleaseInv /\ PinInv
        /\ PassTypes /\ DeploymentsTypeOK
    BY DEF PlatformInv, ReleaseInv
  <1>b. \A q \in Request : SwitchBack(q) => RollbackInstantly(q)
    BY DEF SwitchBack
  <1>1. BInv'
    BY <1>a, <1>b, NextBInv DEF OthersNext, ThreadsNext, UserNext, RollbackNext
  <1>2. RollbackInv'
    BY <1>a, <1>b, WorkerKeepsRollbackInv, UsersKeepRollbackInv DEF OthersNext
  <1>3. AloneInv' /\ AttendedInv'
    <2>1. ASSUME UNCHANGED <<handler, faults>>,
                 \/ \E d \in Deployment : Create(d) \/ Cancel(d) \/ KillJob(d)
                 \/ \E q \in Request : RollbackStep(q) \/ RollbackInstantly(q)
          PROVE  AloneInv' /\ AttendedInv'
      <3>1. OutsideStep
        BY <2>1, <1>a, UserEffect
      <3>2. BuildTypeOK /\ BuildTypeOK' /\ faults' >= faults
        BY <2>1, <1>a, <1>2 DEF RollbackInv, BuildTypeOK
      <3>. QED BY <3>1, <3>2, <1>a, OutsideKeepsWorkInv
    <2>. QED BY <2>1, <1>a, <1>b, <1>2, WorkersKeepHands DEF OthersNext
  <1>4. /\ SamePasses /\ PassTypes' /\ pinned \subseteq pinned'
        /\ \A d \in Deployment : state'[d] # state[d] => state'[d] \notin {"none", "Verifying"}
    <2>1. CASE /\ WorkerNext
               /\ UNCHANGED <<gitVars, cluster, processVars, cuts>>
               /\ Ages({})
      BY <2>1, <1>a, WorkerMovesRows, RowStepTypes DEF WorkerRows, SamePasses, gitVars, processVars
    <2>2. CASE /\ \/ \E q \in Request : RollbackStep(q)
                  \/ \E d \in Deployment : Create(d) \/ Cancel(d) \/ KillJob(d)
               /\ UNCHANGED <<gitVars, cluster, processVars, cuts>>
               /\ Ages({})
      BY <2>2, <1>a, UsersMoveRows, UsersKeepPins, RowStepTypes DEF UserRows, SamePasses, gitVars,
         processVars
    <2>3. CASE \E q \in Request : SwitchBack(q)
      BY <2>3, <1>a, SwitchBackTypes, SwitchBackPasses DEF ReleaseInv, buildVars
    <2>. QED BY <2>1, <2>2, <2>3 DEF OthersNext
  <1>5. ReleaseInv'
    BY <1>a, <1>2, <1>4, RowStepKeepsReleaseInv DEF RollbackInv, BuildTypeOK
  <1>6. PinInv'
    BY <1>a, <1>4, RowStepPasses DEF PinInv, ReleaseInv
  <1>. QED BY <1>1, <1>2, <1>3, <1>4, <1>5, <1>6 DEF PlatformInv

\* so every step does.
LEMMA NextPlatformInv == PlatformInv /\ [PlatformNext]_platformVars => PlatformInv'
  <1> SUFFICES ASSUME PlatformInv, [PlatformNext]_platformVars PROVE PlatformInv'
    OBVIOUS
  <1>1. CASE UNCHANGED platformVars
    <2> USE <1>1 DEF platformVars, releaseAll, rowVars, releaseVars, buildVars, gitVars, processVars
    <2>1. BInv'
      BY NextBInv DEF PlatformInv, buildWorkerVars
    <2>2. ReleaseInv'
      BY NextReleaseInv DEF PlatformInv
    <2>3. RollbackInv' /\ AloneInv' /\ AttendedInv' /\ PinInv'
      BY DEF PlatformInv, RollbackInv, BuildTypeOK, DeploymentsTypeOK, At, Msg, TargetInv, UnbornInv,
             NoRollbackIsBuilt, RollbacksNeverBuild, AloneInv, AttendedInv, Job, PinInv, Traced, Saw
    <2>. QED BY <2>1, <2>2, <2>3 DEF PlatformInv
  <1>. QED BY <1>1, PlatformSteps, ControllerKeepsPlatformInv, OthersKeepPlatformInv

\* What a thread does to its row and its message once it has its image, or fails.
LEMMA ThreadShips ==
  ASSUME BuildTypeOK, NEW h \in Handler, HandlerStep(h)
  PROVE  /\ handler[h].pc \in {"settle", "reap", "ack"} =>
               /\ UNCHANGED state
               /\ \/ msgAfter(h) = Msg(h) /\ pcAfter(h) = "ack" /\ UNCHANGED unsettled
                  \/ msgAfter(h) = Nobody /\ unsettled' = unsettled \ {Msg(h)}
         /\ \A d \in Deployment : state'[d] # state[d] /\ state'[d] \in Shipped =>
               d = Msg(h) /\ msgAfter(h) = d /\ pcAfter(h) \in {"settle", "reap"}
  <1> USE DEF rowVars, releaseVars, buildVars
  <1>1. CASE Settle(h)
    BY <1>1, FreesEffect DEF Settle, Settles
  <1>2. CASE Reap(h)
    BY <1>2, GoesEffect DEF Reap, At
  <1>3. CASE \/ Refuse(h) \/ Examine(h) \/ CreateJob(h) \/ PrepareFails(h) \/ PodMissing(h) \/ PollEnds(h)
             \/ Promote(h) \/ PromoteFails(h) \/ RetryWithFix(h) \/ Bury(h)
    <2>1. UNCHANGED state /\ handler[h].pc \notin {"settle", "reap", "ack"}
      BY <1>3 DEF Refuse, Examine, CreateJob, PrepareFails, PodMissing, PollEnds, Promote, PromoteFails,
                  RetryWithFix, Bury, At
    <2>. QED BY <2>1
  <1>4. CASE PodAppears(h) \/ MarkFailed(h) \/ Reject(h)
    <2>1. handler[h].pc \notin {"settle", "reap", "ack"}
      BY <1>4 DEF PodAppears, MarkFailed, Reject, At
    <2>2. UNCHANGED state \/ \E s \in {"Building", "Failed"} : SetState(Msg(h), s)
      BY <1>4 DEF PodAppears, MarkFailed, Reject
    <2>. QED BY <2>1, <2>2 DEF SetState, BuildTypeOK, DeploymentsTypeOK, Shipped
  <1>5. CASE AdvanceRollback(h) \/ Finish(h)
    <2>1. handler[h].pc \notin {"settle", "reap", "ack"}
      BY <1>5 DEF AdvanceRollback, Finish, At
    <2>2. \/ UNCHANGED state
          \/ SetState(Msg(h), "Deploying") /\ (Goes(h, "settle") \/ Goes(h, "reap"))
      BY <1>5 DEF AdvanceRollback, Finish
    <2>. QED BY <2>1, <2>2, GoesEffect DEF SetState, BuildTypeOK, DeploymentsTypeOK
  <1>. QED BY <1>1, <1>2, <1>3, <1>4, <1>5 DEF HandlerStep

\* The deployments that are done with stay so, as long as nothing fails.
LEMMA ThreadsKeepDone ==
  ASSUME PlatformInv, DoneInv, SamePasses, NEW h \in Handler, HandlerStep(h), faults' = 0
  PROVE  DoneInv' /\ \A d \in Deployment : Done(d) => state'[d] = state[d]
  <1>a. BuildTypeOK /\ TodoInv
    BY DEF PlatformInv, RollbackInv, ReleaseInv
  <1>b. ThreadStep(h) /\ Msg(h) \in Deployment /\ Nobody \notin Deployment
    BY <1>a, ThreadEffect, BusyTypes, DeploymentAssumption DEF ThreadStep, Nobody
  <1>c. \A g \in Handler : Msg(g)' = (IF g = h THEN msgAfter(h) ELSE Msg(g))
                          /\ handler'[g].pc = (IF g = h THEN pcAfter(h) ELSE handler[g].pc)
    BY <1>b DEF ThreadStep, Msg, msgAfter, pcAfter
  <1>d. \A d \in Deployment : Traced(d)' <=> Traced(d)
    BY <1>a, RowStepPasses
  <1>e. \A g \in Handler : Msg(g) = Msg(h) => g = h
    <2>1. faults = 0
      BY <1>a, FaultsGrow DEF BuildTypeOK
    <2>. QED BY <2>1, <1>b DEF PlatformInv, AloneInv
  <1>1. ASSUME NEW d \in Deployment \ {Msg(h)}
        PROVE  state'[d] = state[d] /\ (Done(d) => Done(d)')
    <2>1. state'[d] = state[d] /\ (d \in unsettled' => d \in unsettled) /\ msgAfter(h) # d
      BY <1>b DEF ThreadStep
    <2>. QED BY <2>1, <1>c DEF Done, Taken, Msg
  <1>2. ASSUME NEW d \in Deployment, d = Msg(h), Done(d) PROVE Done(d)' /\ UNCHANGED state
    <2>1. handler[h].pc \in {"settle", "reap", "ack"}
      BY <1>2 DEF Done
    <2>2. /\ UNCHANGED state
          /\ \/ msgAfter(h) = Msg(h) /\ pcAfter(h) = "ack" /\ UNCHANGED unsettled
             \/ msgAfter(h) = Nobody /\ unsettled' = unsettled \ {Msg(h)}
      BY <1>a, <2>1, ThreadShips
    <2>3. CASE msgAfter(h) = Msg(h) /\ pcAfter(h) = "ack"
      <3>1. \A g \in Handler : Msg(g)' = d => handler'[g].pc = "ack"
        BY <2>3, <1>2, <1>c, <1>e
      <3>2. d \in Taken'
        BY <2>3, <1>2, <1>c DEF Taken, Msg
      <3>. QED BY <2>2, <3>1, <3>2 DEF Done
    <2>4. CASE msgAfter(h) = Nobody /\ unsettled' = unsettled \ {Msg(h)}
      <3>1. \A g \in Handler : Msg(g)' # d
        BY <2>4, <1>2, <1>b, <1>c, <1>e
      <3>. QED BY <3>1, <2>2, <2>4, <1>2 DEF Done
    <2>. QED BY <2>2, <2>3, <2>4
  <1>3. ASSUME NEW d \in Deployment, d = Msg(h), state'[d] # state[d], state'[d] \in Shipped PROVE Done(d)'
    <2>1. msgAfter(h) = d /\ pcAfter(h) \in {"settle", "reap"}
      BY <1>a, <1>3, ThreadShips
    <2>2. \A g \in Handler : Msg(g)' = d => handler'[g].pc \in {"settle", "reap"}
      BY <2>1, <1>3, <1>c, <1>e
    <2>3. d \in Taken'
      BY <2>1, <1>c DEF Taken, Msg
    <2>. QED BY <2>2, <2>3 DEF Done
  <1>4. DoneInv'
    <2> SUFFICES ASSUME NEW d \in Deployment, Traced(d) \/ state'[d] \in Shipped PROVE Done(d)'
      BY <1>d DEF DoneInv
    <2>. QED BY <1>1, <1>2, <1>3 DEF DoneInv
  <1>. QED BY <1>1, <1>2, <1>4

\* So do deliveries, Jobs and the sweep of stuck rows: a message that is with
\* somebody is not delivered again without a fault.
LEMMA QueueKeepsDone ==
  ASSUME PlatformInv, DoneInv, SamePasses, faults' = 0,
         \/ \E h \in Handler : Crash(h) \/ CallFails(h)
         \/ \E h \in Handler, d \in Deployment : Deliver(h, d)
         \/ \E d \in Deployment : Resend(d)
         \/ \E j \in DOMAIN jobs : JobEnds(j) \/ JobExpires(j)
         \/ \E S \in SUBSET Deployment : SweepStuck(S)
  PROVE  DoneInv' /\ \A d \in Deployment : state'[d] # state[d] => state'[d] = "Failed"
  <1> USE DEF rowVars, releaseVars, buildVars
  <1>a. BuildTypeOK /\ TodoInv /\ state \in [Deployment -> States] /\ faults \in Nat
    BY BuildAssumption DEF PlatformInv, RollbackInv, ReleaseInv, BuildTypeOK, DeploymentsTypeOK
  <1>b. \A d \in Deployment : Traced(d)' <=> Traced(d)
    BY <1>a, RowStepPasses
  <1>c. ~Fault
    BY <1>a DEF Fault
  <1>1. \A h \in Handler : ~Crash(h) /\ ~CallFails(h)
    BY <1>c DEF Crash, CallFails
  <1>2. \A d \in Deployment : ~Resend(d)
    BY <1>c DEF Resend
  <1>3. ASSUME NEW h \in Handler, NEW d \in Deployment, Deliver(h, d)
        PROVE  DoneInv' /\ UNCHANGED state
    <2>1. /\ d \in unsettled /\ d \notin Taken /\ UNCHANGED <<state, unsettled>> /\ At(h, "idle")
          /\ handler' = [handler EXCEPT ![h] = [Free EXCEPT !.pc = "fetched", !.msg = d]]
      BY <1>3, <1>c DEF Deliver
    <2>2. Msg(h) = Nobody /\ Nobody \notin Deployment
      BY <2>1, <1>a, DeploymentAssumption DEF BuildTypeOK, Nobody
    <2>3. /\ Msg(h)' = d
          /\ \A g \in Handler \ {h} : Msg(g)' = Msg(g) /\ handler'[g].pc = handler[g].pc
      BY <2>1, <1>a DEF BuildTypeOK, Msg, Free
    <2>4. ~Done(d)
      BY <2>1 DEF Done
    <2>5. ASSUME NEW b \in Deployment \ {d}, Done(b) PROVE Done(b)'
      BY <2>1, <2>2, <2>3, <2>5 DEF Done, Taken, Msg
    <2>. QED BY <2>1, <2>4, <2>5, <1>b DEF DoneInv
  <1>4. ASSUME NEW j \in DOMAIN jobs, JobEnds(j) \/ JobExpires(j)
        PROVE  DoneInv' /\ UNCHANGED state
    <2>1. UNCHANGED <<state, unsettled, handler>>
      BY <1>4 DEF JobEnds, JobExpires
    <2>. QED BY <2>1, <1>b DEF DoneInv, Done, Taken, Msg
  <1>5. ASSUME NEW S \in SUBSET Deployment, SweepStuck(S)
        PROVE  DoneInv' /\ \A d \in Deployment : state'[d] # state[d] => state'[d] = "Failed"
    <2>1. /\ UNCHANGED <<unsettled, handler>>
          /\ \A d \in Deployment : state'[d] # state[d] =>
                state'[d] = "Failed"
      BY <1>5, <1>a DEF SweepStuck, Sweep
    <2>. QED BY <2>1, <1>b DEF DoneInv, Done, Taken, Msg, Shipped
  <1>. QED BY <1>1, <1>2, <1>3, <1>4, <1>5

\* Users add messages only for rows that were not in the table,
LEMMA UsersKeepDone ==
  ASSUME PlatformInv, DoneInv, SamePasses, UNCHANGED handler, UserRows
  PROVE  DoneInv'
  <1>a. TodoInv /\ TracedInv
    BY DEF PlatformInv, ReleaseInv
  <1>b. \A d \in Deployment : Traced(d)' <=> Traced(d)
    BY <1>a, RowStepPasses
  <1>1. ASSUME NEW d \in Deployment, Done(d), state[d] # "none" PROVE Done(d)'
    BY <1>1 DEF Done, Taken, Msg, UserRows
  <1>2. ASSUME NEW d \in Deployment, state'[d] \in Shipped PROVE state[d] \in Shipped
    BY <1>2 DEF UserRows, Shipped
  <1>. QED BY <1>a, <1>b, <1>1, <1>2 DEF DoneInv, TracedInv, Shipped

\* and the controller deploys only what has left a trace.
LEMMA ControllerKeepsDone ==
  ASSUME DoneInv, UNCHANGED handler, RowsDecided, TracesFollow
  PROVE  DoneInv'
  <1>1. \A d \in Deployment : Done(d) => Done(d)'
    BY DEF RowsDecided, buildVars, Done, Taken, Msg
  <1>2. \A d \in Deployment : state'[d] \in Shipped => Traced(d) \/ state[d] \in Shipped
    BY DEF RowsDecided, Shipped, Traced
  <1>. QED BY <1>1, <1>2 DEF DoneInv, TracesFollow

\* What is done with stays as it is or fails.
DoneRowsStay ==
    \A d \in Deployment : Done(d) /\ state[d] # "none" /\ state'[d] # state[d] => state'[d] = "Failed"

\* A step of users or workers before the first fault.
LEMMA OthersKeepDone ==
  ASSUME UndisturbedInv, OthersNext
  PROVE  /\ faults' = 0 => faults = 0 /\ DoneInv'
         /\ faults = 0 => DoneRowsStay
  <1>a. PlatformInv /\ PlatformInv' /\ RollbackInv /\ ReleaseInv /\ DeploymentsTypeOK /\ PassTypes /\ SamePasses
    BY OthersKeepPlatformInv DEF UndisturbedInv, PlatformInv, ReleaseInv
  <1>b. faults \in Nat /\ faults' \in Nat
    BY <1>a, BuildAssumption DEF PlatformInv, RollbackInv, BuildTypeOK
  <1>1. CASE WorkerNext
    <2>1. /\ faults' >= faults
          /\ faults' # faults => UNCHANGED state
      <3>1. ASSUME NEW h \in Handler, HandlerStep(h)
            PROVE  faults' >= faults /\ (faults' # faults => UNCHANGED state)
        <4>1. CASE Reap(h)
          BY <4>1, <1>b DEF Reap, Fault
        <4>2. CASE UNCHANGED faults
          BY <4>2, <1>b
        <4>. QED BY <3>1, <4>1, <4>2
             DEF HandlerStep, Refuse, Examine, AdvanceRollback, Settle, CreateJob, PrepareFails,
                 PodAppears, PodMissing, PollEnds, Promote, PromoteFails, Finish, RetryWithFix,
                 MarkFailed, Reject, Bury
      <3>2. ASSUME \/ \E h \in Handler : Crash(h) \/ CallFails(h) \/ \E d \in Deployment : Deliver(h, d)
                   \/ \E d \in Deployment : Resend(d)
                   \/ \E j \in DOMAIN jobs : JobEnds(j) \/ JobExpires(j)
            PROVE  faults' >= faults /\ UNCHANGED state
        <4>1. ASSUME NEW h \in Handler, Crash(h) \/ CallFails(h) PROVE faults' >= faults /\ UNCHANGED state
          BY <4>1, <1>b DEF Crash, CallFails, Fault, rowVars
        <4>2. ASSUME NEW h \in Handler, NEW d \in Deployment, Deliver(h, d)
              PROVE  faults' >= faults /\ UNCHANGED state
          BY <4>2, <1>b DEF Deliver, Fault, rowVars
        <4>3. ASSUME NEW d \in Deployment, Resend(d) PROVE faults' >= faults /\ UNCHANGED state
          BY <4>3, <1>b DEF Resend, Fault
        <4>4. ASSUME NEW j \in DOMAIN jobs, JobEnds(j) \/ JobExpires(j)
              PROVE  faults' >= faults /\ UNCHANGED state
          BY <4>4, <1>b DEF JobEnds, JobExpires
        <4>. QED BY <3>2, <4>1, <4>2, <4>3, <4>4
      <3>3. ASSUME NEW S \in SUBSET Deployment, SweepStuck(S) PROVE UNCHANGED faults
        BY <3>3 DEF SweepStuck
      <3>. QED BY <1>1, <1>b, <3>1, <3>2, <3>3 DEF WorkerNext
    <2>2. ASSUME faults' = 0 PROVE faults = 0 /\ DoneInv' /\ DoneRowsStay
      <3>1. faults = 0 /\ DoneInv
        BY <1>b, <2>1, <2>2 DEF UndisturbedInv
      <3>. QED BY <3>1, <2>2, <1>a, <1>1, ThreadsKeepDone, QueueKeepsDone DEF WorkerNext, DoneRowsStay
    <2>. QED BY <2>1, <2>2 DEF DoneRowsStay
  <1>2. CASE UserRows /\ UNCHANGED <<handler, faults>>
    BY <1>2, <1>a, UsersKeepDone DEF UndisturbedInv, UserRows, DoneRowsStay
  <1>3. CASE /\ \/ \E q \in Request : RollbackStep(q)
                \/ \E d \in Deployment : Create(d) \/ Cancel(d) \/ KillJob(d)
             /\ UNCHANGED <<handler, faults>>
    BY <1>2, <1>3, <1>a, UsersMoveRows
  <1>4. CASE (\E q \in Request : SwitchBack(q)) /\ UNCHANGED <<handler, faults>>
    <2>1. SamePasses /\ UNCHANGED <<state, buildVars>>
      BY <1>4, <1>a, SwitchBackPasses
    <2>2. UserRows
      BY <2>1 DEF UserRows, SamePasses, buildVars
    <2>. QED BY <2>2, <1>2, <1>4
  <1>. QED BY <1>1, <1>3, <1>4 DEF OthersNext

\* NotRebuiltWithoutFaults of one step.
NotTakenBack ==
    faults = 0 => \A d \in Deployment :
        state[d] \in {"Deploying", "Running"} => state'[d] \notin {"Queued", "Building"}

\* With any number of controllers.
LEMMA NextUndisturbed ==
  ASSUME UndisturbedInv, [PlatformNext]_platformVars
  PROVE  UndisturbedInv' /\ NotTakenBack
  <1>a. PlatformInv /\ PlatformInv'
    BY NextPlatformInv DEF UndisturbedInv
  <1>1. CASE UNCHANGED platformVars
    <2> USE <1>1 DEF platformVars, releaseAll, rowVars, releaseVars, buildVars, gitVars, processVars
    <2>1. SamePasses
      BY DEF SamePasses
    <2>2. DoneInv => DoneInv'
      BY <1>a, <2>1, RowStepPasses DEF DoneInv, Done, Taken, Msg, PlatformInv, ReleaseInv
    <2>. QED BY <1>a, <2>2 DEF UndisturbedInv, NotTakenBack
  <1>2. CASE ControllerNext /\ UNCHANGED <<handler, faults>>
    <2>1. RowsDecided /\ TracesFollow
      BY <1>2, <1>a, ControllerKeepsReleaseInv DEF PlatformInv
    <2>2. faults = 0 => DoneInv'
      BY <1>2, <2>1, ControllerKeepsDone DEF UndisturbedInv
    <2>. QED BY <1>a, <1>2, <2>1, <2>2 DEF UndisturbedInv, RowsDecided, NotTakenBack
  <1>3. ASSUME faults' = 0 => faults = 0 /\ DoneInv', faults = 0 => DoneRowsStay
        PROVE  UndisturbedInv' /\ NotTakenBack
    BY <1>3, <1>a DEF UndisturbedInv, NotTakenBack, DoneRowsStay, DoneInv, Shipped
  <1>. QED BY <1>1, <1>2, <1>3, PlatformSteps, OthersKeepDone

\* FilesStayWithoutFaults of one step.
FilesKept ==
    faults = 0 => \A d \in Deployment :
        manifest[d] # "none" /\ manifest'[d] = "none" => state[d] \notin Active \cup {"Running"}

\* With one controller, what a pass has read as done with stays so too.
LEMMA NextOnePass ==
  ASSUME OneController, OnePassInv, [PlatformNext]_platformVars
  PROVE  OnePassInv' /\ FilesKept
  <1>a. UndisturbedInv /\ UndisturbedInv' /\ PlatformInv /\ RouteInv /\ ReleaseInv /\ TodoInv
    BY NextUndisturbed DEF OnePassInv, UndisturbedInv, PlatformInv, ReleaseInv
  <1>b. DeploymentsTypeOK /\ PassTypes /\ TracedInv
    BY <1>a DEF ReleaseInv
  <1>1. ASSUME SamePasses,
               faults' = 0 => faults = 0 /\ \A d \in Deployment : Traced(d) /\ Gone(d) => Gone(d)'
        PROVE  OnePassInv' /\ FilesKept
    <2>1. RouteInv' /\ FilesKept
      BY <1>1, <1>a, RowStepPasses DEF FilesKept, SamePasses
    <2>2. faults' = 0 => GoneInv'
      BY <1>1, <1>a, RowStepGone DEF OnePassInv
    <2>. QED BY <1>a, <2>1, <2>2 DEF OnePassInv
  <1>2. CASE UNCHANGED platformVars
    <2> USE <1>2 DEF platformVars, releaseAll, rowVars, releaseVars, buildVars, gitVars, processVars
    <2>1. SamePasses
      BY DEF SamePasses
    <2>. QED BY <2>1, <1>1 DEF Gone
  <1>3. CASE ControllerNext /\ UNCHANGED <<handler, faults>>
    <2>1. ControllerGoes /\ RowsDecided
      BY <1>3, <1>a, ControllerKeepsReleaseInv
    <2>2. RouteInv'
      BY <1>a, <1>b, <1>3, ControllerRoute
    <2>3. faults = 0 => GoneInv'
      BY <1>a, <1>b, <2>1, ControllerGone DEF OnePassInv
    <2>4. FilesKept
      BY <1>b, <2>1, ControllerKeepsFiles DEF FilesKept, OnePassInv
    <2>. QED BY <1>a, <1>3, <2>2, <2>3, <2>4 DEF OnePassInv
  <1>4. CASE OthersNext
    <2>1. SamePasses
      BY <1>4, <1>a, OthersKeepPlatformInv
    <2>2. faults' = 0 => faults = 0 /\ DoneInv /\ DoneRowsStay
      BY <1>4, <1>a, OthersKeepDone DEF UndisturbedInv
    <2>. QED BY <2>1, <2>2, <1>1 DEF DoneInv, DoneRowsStay, Gone
  <1>. QED BY <1>2, <1>3, <1>4, PlatformSteps

\* All of it holds after the two releases the platform starts with.
LEMMA InitPlatformInv == PlatformInit => OnePassInv
  <1> SUFFICES ASSUME PlatformInit PROVE OnePassInv
    OBVIOUS
  <1> USE DEF PlatformInit, TwoReleases
  <1>a. {1, 2} \subseteq Deployment /\ Deployment \subseteq Nat \ {0}
    BY PlatformAssumption, DeploymentAssumption
  <1>1. /\ \A d \in Deployment : state[d] = IF d \in {1, 2} THEN "Running" ELSE "none"
        /\ pinned = {1, 2} /\ rollbacks = {} /\ unsettled = {} /\ live = 2
        /\ \A d \in Deployment : image[d] = d
    OBVIOUS
  <1>2. /\ state \in [Deployment -> States]
        /\ image \in [Deployment -> Deployment]
        /\ replicas \in [Deployment -> {0, 1}]
    BY DEF States, Active
  <1>3. request \in [Request -> [pc : {"idle", "started", "chosen"},
                                liveRead : Deployment \cup {Nobody},
                                from : Deployment \cup {Nobody},
                                to : Deployment \cup {Nobody},
                                instant : BOOLEAN, digest : BOOLEAN]]
    BY DEF NoRequest
  <1>4. DeploymentsTypeOK
    BY <1>a, <1>1, <1>2, <1>3 DEF DeploymentsTypeOK
  <1>5. \A q \in Request : request[q].pc = "idle"
    BY DEF NoRequest
  <1>6. /\ \A h \in Handler : handler[h].pc = "idle" /\ handler[h].msg = Nobody
        /\ handler \in [Handler -> HandlerRecord]
    BY DEF Free, HandlerRecord, Steps, Attempts
  <1>7. BInv
    <2>1. RowInv
      BY <1>1, <1>2 DEF RowInv, OneActive, QueuedHasMessage, ReleasesArePinned, Active
    <2>2. HandlerInv
      BY <1>6 DEF HandlerInv, Sound, PastQueue
    <2>3. RequestInv
      BY <1>5 DEF RequestInv
    <2>. QED BY <2>1, <2>2, <2>3 DEF BInv
  <1>8. RollbackInv /\ AloneInv /\ AttendedInv
    <2>1. BuildTypeOK
      BY <1>4, <1>6, BuildAssumption DEF BuildTypeOK, HandlerRecord, At, Msg
    <2>2. TargetInv /\ UnbornInv
      BY <1>a, <1>1, <1>5, <1>6 DEF TargetInv, UnbornInv, Msg, Nobody
    <2>3. NoRollbackIsBuilt /\ AloneInv
      BY <1>1, <1>6 DEF NoRollbackIsBuilt, RollbacksNeverBuild, AloneInv, Msg, BuildSteps
    <2>4. AttendedInv
      BY DEF AttendedInv
    <2>. QED BY <2>1, <2>2, <2>3, <2>4 DEF RollbackInv
  <1>9. /\ \A k \in Controller : pass[k].pc = "idle" /\ pass[k].todo = {} /\ synced[k] = {vanity}
        /\ \A d \in Deployment : manifest[d] # "none" \/ cluster[d] # "absent" => d \in {1, 2}
        /\ vanity \in {2, Nobody} /\ replicas[2] = 1
    BY <1>a DEF NoPass
  <1>10. \A d \in Deployment : Traced(d) => d \in {1, 2}
    BY <1>9 DEF Traced, Saw
  <1>11. PassTypes
    <2>1. /\ manifest \in [Deployment -> {"none", "up", "zero"}]
          /\ cluster \in [Deployment -> {"absent", "zero", "down", "ready"}]
      OBVIOUS
    <2>2. pass \in [Controller -> PassRecord]
      BY NoPassTypes
    <2>3. /\ vanity \in Deployment \cup {Nobody}
          /\ synced \in [Controller -> SUBSET (Deployment \cup {Nobody})]
      BY <1>a, <1>9
    <2>4. /\ crashes \in [Controller -> [Deployment -> 0..2]]
          /\ aged = {} /\ cuts \in 0..MaxCuts
      BY ReleaseAssumption
    <2>. QED BY <2>1, <2>2, <2>3, <2>4, <1>9 DEF PassTypes
  <1>12. ReleaseInv /\ PinInv
    BY <1>1, <1>4, <1>8, <1>9, <1>10, <1>11 DEF ReleaseInv, PinInv, RollbackInv, TodoInv, TracedInv
  <1>13. DoneInv /\ GoneInv
    BY <1>a, <1>1, <1>6, <1>9 DEF DoneInv, Done, Msg, GoneInv, Nobody
  <1>14. RouteInv
    BY <1>9 DEF RouteInv, RouteNeverGone
  <1>. QED BY <1>7, <1>8, <1>12, <1>13, <1>14 DEF OnePassInv, UndisturbedInv, PlatformInv

\* PlatformInv is an invariant of users, workers and controllers together.
THEOREM PlatformInvariance == PlatformSpec => []PlatformInv
  <1>1. PlatformInit => PlatformInv
    BY InitPlatformInv DEF OnePassInv, UndisturbedInv
  <1>. QED BY <1>1, NextPlatformInv, PTL DEF PlatformSpec

\* Git names only images a build of the platform has reported the digest of
\* (_render, promote_release): workers crash and repeat, users cancel and roll
\* back, and any number of controllers work on rows read earlier.
THEOREM GitStaysPinned == PlatformSpec => []GitIsPinned
  <1>1. PlatformInv => GitIsPinned
    BY DEF PlatformInv, PinInv, Traced, GitIsPinned
  <1>. QED BY <1>1, PlatformInvariance, PTL

\* A rollback is never built, not even when the controller moves its row while
\* its message is being worked on (process_message, the image_pinned branch).
THEOREM PlatformBuildsNoRollback == PlatformSpec => []RollbacksNeverBuild
  <1>1. PlatformInv => RollbacksNeverBuild
    BY DEF PlatformInv, RollbackInv, NoRollbackIsBuilt
  <1>. QED BY <1>1, PlatformInvariance, PTL

\* One deployment in progress (the partial unique index), no queued row without its
\* message, nothing released without a digest: also with controllers that write
\* Running and Failed by rows they read earlier.
THEOREM PlatformKeepsRowInvariants ==
  PlatformSpec => [](OneActive /\ QueuedHasMessage /\ ReleasesArePinned)
  <1>1. PlatformInv => OneActive /\ QueuedHasMessage /\ ReleasesArePinned
    BY DEF PlatformInv, BInv, RowInv
  <1>. QED BY <1>1, PlatformInvariance, PTL

\* A Job that builds has a thread that watches it, until something fails, also
\* when the controller moves the row meanwhile (monitor_job).
THEOREM PlatformJobsAttended == PlatformSpec => []NoUnattendedBuild
  <1>1. PlatformInv => NoUnattendedBuild
    BY DEF PlatformInv, AttendedInv, NoUnattendedBuild, JobSteps, BuildSteps, At
  <1>. QED BY <1>1, PlatformInvariance, PTL

\* The types of both components together.
THEOREM PlatformTypes == PlatformSpec => [](BuildTypeOK /\ ReleaseTypeOK)
  <1>1. PlatformInv => BuildTypeOK /\ ReleaseTypeOK
    BY PassTypesImplyTypes DEF PlatformInv, RollbackInv, ReleaseInv
  <1>. QED BY <1>1, PlatformInvariance, PTL

\* Until the first fault of a worker or of the queue, what is deployed is never
\* queued or built again, although every pass writes its verdict without looking
\* at the row again (process_message, monitor_job, reconcile_deployments).  After
\* a crash before the ack it may be: the message comes again, the row is cancelled,
\* a thread that has looked at it builds, and a pass that read it as Deploying
\* makes it Running in between.
THEOREM DeployedStaysDeployedUntilAFault == PlatformSpec => NotRebuiltWithoutFaults
  <1>1. UndisturbedInv /\ [PlatformNext]_platformVars => UndisturbedInv' /\ NotTakenBack
    BY NextUndisturbed
  <1>2. PlatformInit => UndisturbedInv
    BY InitPlatformInv DEF OnePassInv
  <1>3. NotTakenBack => [NotTakenBack]_platformVars
    OBVIOUS
  <1>4. PlatformSpec => [][NotTakenBack]_platformVars
    BY <1>1, <1>2, <1>3, PTL DEF PlatformSpec
  <1>. QED BY <1>4 DEF NotTakenBack, NotRebuiltWithoutFaults

\* With one controller and before the first fault, the orphan cleanup removes no
\* file of a release in use, whatever workers and users do between its reads and
\* its commit; Git commits may fail and the controller may crash
\* (reconcile_deployments).
THEOREM PlatformKeepsFiles == ASSUME OneController PROVE PlatformSpec => FilesStayWithoutFaults
  <1>1. OnePassInv /\ [PlatformNext]_platformVars => OnePassInv' /\ FilesKept
    BY NextOnePass
  <1>2. FilesKept => [FilesKept]_platformVars
    OBVIOUS
  <1>3. PlatformSpec => [][FilesKept]_platformVars
    BY <1>1, <1>2, InitPlatformInv, PTL DEF PlatformSpec
  <1>. QED BY <1>3 DEF FilesKept, FilesStayWithoutFaults

\* With one controller, the stable hostname never points at a release that has
\* been scaled down, between passes and until a commit fails, whatever workers do
\* and however often they fail (sync_vanity_route).
THEOREM PlatformRouteStaysUp == ASSUME OneController PROVE PlatformSpec => []RouteNeverGone
  <1>1. OnePassInv /\ [PlatformNext]_platformVars => OnePassInv'
    BY NextOnePass
  <1>2. OnePassInv => RouteNeverGone
    BY DEF OnePassInv, RouteInv
  <1>. QED BY <1>1, <1>2, InitPlatformInv, PTL DEF PlatformSpec
=============================================================================

------------------------ MODULE ProjectLifecycle_proofs ------------------------
(***************************************************************************)
(* Whatever fails, no pass takes away the folder of a project that is      *)
(* Ready or Failed, as long as one controller leads (LeaderLease).  With   *)
(* two, one of them collects what it read no row for while the other has   *)
(* made the project Ready.                                                 *)
(*                                                                         *)
(* The invariants relate the status a pass goes by to the row as it is     *)
(* now: a deletion is never undone in deleted_at, and a project that was   *)
(* not there when the sweep began cannot have come further than            *)
(* Provisioning without another pass.                                      *)
(***************************************************************************)
EXTENDS ProjectLifecycle, EnvStore_proofs

Passes == [pc : {"idle", "sweep", "start", "check", "ensure", "drop"}, row : Status, byEvent : BOOLEAN]

Own ==
    /\ status \in Status
    /\ status = "none" => ~ deleted
    /\ status \in {"Terminating", "Terminated"} => deleted
    /\ folder \subseteq {"tenant", "release"}
    /\ namespace \in {"none", "owned", "bare"}
    /\ pass \in [Controller -> Passes]
    /\ failures \in [Controller -> 0..GiveUp]
    /\ faults \in 0..MaxFaults

\* What a pass read of the row is still true of it in this much: a row stays, and
\* so does deleted_at.
ReadRight(p) ==
    /\ p.row # "none" => status # "none"
    /\ p.row \in {"Terminating", "Terminated"} => deleted
    /\ p.pc = "drop" => p.row = "Terminating"
    /\ p.pc \in {"start", "check", "ensure", "drop"} => p.row # "none"

DeletionsStay == \A k \in Controller : ReadRight(pass[k])

PassInv == Own /\ EnvInv /\ DeletionsStay

\* One controller leads.
OneController == \A j, k \in Controller : j = k

\* What a sweep found no row for has not been passed over since.
NewcomersWait ==
    \A k \in Controller : pass[k].pc = "sweep" /\ pass[k].row = "none" =>
        deleted \/ status \in {"none", "Provisioning"}

-----------------------------------------------------------------------------
(* The part of EnvStore.                                                   *)

\* Outside the steps of EnvStore only calls of ensure_project_secret begin and
\* are given up.
LEMMA EnvPart == PassInv /\ [LifecycleNext]_lifecycleVars => EnvInv'
  <1> SUFFICES ASSUME PassInv, [LifecycleNext]_lifecycleVars PROVE EnvInv'
    OBVIOUS
  <1>1. EnvInv
    BY DEF PassInv
  <1>2. ASSUME [EnvNext]_envVars PROVE EnvInv'
    BY <1>1, <1>2, NextEnvInv
  <1>3. ASSUME UNCHANGED <<deleted, storeVars, write>>, NEW k \in Controller,
               NEW new \in {"idle", "ensure"}, init' = [init EXCEPT ![k] = new]
        PROVE  EnvInv'
    <2>1. init' \in [Initializer -> {"idle", "ensure", "add"}]
      BY <1>1, <1>3, LifecycleAssumption DEF EnvInv, EnvTypeOK
    <2> QED
      BY <1>1, <1>3, <2>1, UnlockedEnvInv DEF EnvInv, EnvTypeOK, storeVars
  <1>4. ASSUME UNCHANGED envVars PROVE EnvInv'
    BY <1>2, <1>4
  <1>5. CASE Create
    BY <1>4, <1>5 DEF Create
  <1>6. CASE Delete
    BY <1>2, <1>6 DEF Delete, EnvNext
  <1>7. ASSUME NEW k \in Controller, SweepStart(k) \/ EventStart(k) \/ PassBreaks(k) PROVE EnvInv'
    BY <1>4, <1>7 DEF SweepStart, EventStart, PassBreaks
  <1>8. ASSUME NEW k \in Controller, MarkFailed(k) \/ Crash(k) PROVE EnvInv'
    BY <1>3, <1>8 DEF MarkFailed, Crash
  <1>9. ASSUME NEW k \in Controller, PassStep(k) PROVE EnvInv'
    <2>1. CASE CollectFolder(k) \/ SweepPassesBy(k) \/ SweepGoesOn(k)
      BY <1>4, <2>1 DEF CollectFolder, SweepPassesBy, SweepGoesOn
    <2>2. CASE CommitTenant(k) \/ RemoveTenant(k) \/ MarkReady(k) \/ MarkTerminated(k)
      BY <1>4, <2>2 DEF CommitTenant, RemoveTenant, MarkReady, MarkTerminated
    <2>3. CASE Waits(k) \/ Drift(k) \/ ReconcileReleases(k) \/ PassOverFailed(k)
      BY <1>4, <2>3 DEF Waits, Drift, ReconcileReleases, PassOverFailed
    <2>4. CASE NamespaceUp(k)
      BY <1>3, <2>4 DEF NamespaceUp
    <2>5. CASE NamespaceGone(k)
      BY <1>2, <2>5 DEF NamespaceGone, EnvNext
    <2>6. CASE EnsureStep(k)
      BY <1>2, <2>6, LifecycleAssumption DEF EnvNext
    <2> QED
      BY <1>9, <2>1, <2>2, <2>3, <2>4, <2>5, <2>6 DEF PassStep
  <1>10. CASE SyncCreates \/ SyncPrunes \/ NamespaceLost
    BY <1>4, <1>10 DEF SyncCreates, SyncPrunes, NamespaceLost
  <1>11. CASE \/ DropSecret
              \/ \E i \in Initializer \ Controller : EnsureStep(i) \/ (status # "none" /\ Bootstrap(i))
              \/ \E w \in Writer : WriterStep(w)
              \/ status # "none" /\ \E w \in Writer, op \in Op, key \in Key : Arrive(w, op, key)
    BY <1>2, <1>11 DEF EnvNext
  <1>12. CASE UNCHANGED lifecycleVars
    BY <1>4, <1>12 DEF lifecycleVars
  <1> QED
    BY <1>5, <1>6, <1>7, <1>8, <1>9, <1>10, <1>11, <1>12 DEF LifecycleNext

\* The steps of EnvStore leave deleted_at alone, but for MarkDeleted.
LEMMA DeletedStays ==
  ASSUME NEW i, NEW w, NEW op, NEW key,
         DropSecret \/ Bootstrap(i) \/ EnsureStep(i) \/ WriterStep(w) \/ Arrive(w, op, key)
  PROVE  UNCHANGED deleted
  BY DEF DropSecret, Bootstrap, EnsureStep, EnsureRead, EnsureAdd, Arrive, WriterStep, Connect, Busy,
         Lock, Load, LoadFails, Save, SaveFails, Audit, AuditLost

-----------------------------------------------------------------------------
(* The row, the folder and the passes.                                     *)

\* A pass that goes on or ends.
LEMMA PassMoves ==
  ASSUME PassInv, NEW k \in Controller, NEW p \in Passes, pass' = [pass EXCEPT ![k] = p]
  PROVE  /\ pass' \in [Controller -> Passes]
         /\ pass'[k] = p
         /\ \A j \in Controller \ {k} : pass'[j] = pass[j]
  BY DEF PassInv, Own

LEMMA NoPassIsTyped == NoPass \in Passes /\ NoPass.pc = "idle" /\ NoPass.row = "none"
  BY DEF NoPass, Passes, Status

\* Where a step of a pass takes it.
PassGoesTo(k, p) ==
    /\ pass' = [pass EXCEPT ![k] = p]
    /\ p.row = pass[k].row \/ p = NoPass \/ p.row = status
    /\ p.pc = "drop" => p.row = "Terminating"
    /\ p.pc \in {"start", "check", "ensure", "drop"} => p.row # "none"

LEMMA PassStepShape ==
  ASSUME PassInv, NEW k \in Controller,
         SweepStart(k) \/ EventStart(k) \/ PassStep(k) \/ PassBreaks(k) \/ MarkFailed(k) \/ Crash(k)
  PROVE  /\ UNCHANGED deleted
         /\ UNCHANGED pass \/ \E p \in Passes : PassGoesTo(k, p)
  <1>1. /\ pass[k] \in Passes /\ pass \in [Controller -> Passes] /\ status \in Status
        /\ ReadRight(pass[k])
    BY DEF PassInv, Own, DeletionsStay
  <1>2. ASSUME NEW pc \in {"start", "check", "ensure", "drop"},
               pass' = [pass EXCEPT ![k].pc = pc],
               pc = "drop" => pass[k].row = "Terminating", pass[k].row # "none"
        PROVE  \E p \in Passes : PassGoesTo(k, p)
    <2> DEFINE p == [pass[k] EXCEPT !.pc = pc]
    <2>1. p \in Passes /\ p.row = pass[k].row /\ p.pc = pc
      BY <1>1 DEF Passes
    <2>2. pass' = [pass EXCEPT ![k] = p]
      BY <1>1, <1>2
    <2> HIDE DEF p
    <2> QED
      BY <1>2, <2>1, <2>2 DEF PassGoesTo
  <1>3. ASSUME pass' = [pass EXCEPT ![k] = NoPass] PROVE \E p \in Passes : PassGoesTo(k, p)
    BY <1>3, NoPassIsTyped DEF PassGoesTo
  <1>4. ASSUME NEW pc \in {"sweep", "start"}, NEW event \in BOOLEAN,
               pass' = [pass EXCEPT ![k] = [pc |-> pc, row |-> status, byEvent |-> event]],
               pc = "start" => status # "none"
        PROVE  \E p \in Passes : PassGoesTo(k, p)
    <2> DEFINE p == [pc |-> pc, row |-> status, byEvent |-> event]
    <2>1. p \in Passes /\ p.row = status /\ p.pc = pc
      BY <1>1 DEF Passes
    <2> HIDE DEF p
    <2> QED
      BY <1>4, <2>1 DEF PassGoesTo, p
  <1> USE DEF Ends, Moves, envVars, projectVars
  <1>5. CASE SweepStart(k)
    BY <1>4, <1>5 DEF SweepStart
  <1>6. CASE EventStart(k)
    BY <1>4, <1>6 DEF EventStart, Active
  <1>7. CASE PassBreaks(k) \/ CollectFolder(k) \/ SweepPassesBy(k)
    BY <1>3, <1>7 DEF PassBreaks, CollectFolder, SweepPassesBy
  <1>8. CASE MarkFailed(k) \/ Crash(k)
    BY <1>3, <1>8 DEF MarkFailed, Crash
  <1>9. CASE MarkReady(k) \/ MarkTerminated(k) \/ Waits(k) \/ Drift(k)
    BY <1>3, <1>9 DEF MarkReady, MarkTerminated, Waits, Drift
  <1>10. CASE ReconcileReleases(k) \/ PassOverFailed(k)
    BY <1>3, <1>10 DEF ReconcileReleases, PassOverFailed
  <1>11. CASE CommitTenant(k) \/ RemoveTenant(k)
    BY <1>1, <1>2, <1>11 DEF CommitTenant, RemoveTenant
  <1>12. CASE NamespaceUp(k)
    BY <1>1, <1>2, <1>12 DEF NamespaceUp
  <1>13. CASE NamespaceGone(k)
    <2>1. UNCHANGED deleted
      BY <1>13 DEF NamespaceGone, DropSecret
    <2> QED
      BY <1>1, <1>2, <1>13, <2>1 DEF NamespaceGone
  <1>14. CASE SweepGoesOn(k)
    <2>1. pass[k].row # "none" /\ UNCHANGED deleted
      BY <1>14 DEF SweepGoesOn, Active
    <2>2. CASE failures[k] < GiveUp
      <3>1. pass' = [pass EXCEPT ![k].pc = "start"]
        BY <1>14, <2>2 DEF SweepGoesOn
      <3> QED
        BY <1>2, <2>1, <3>1
    <2>3. CASE ~ failures[k] < GiveUp
      <3>1. pass' = [pass EXCEPT ![k] = NoPass]
        BY <1>14, <2>3 DEF SweepGoesOn
      <3> QED
        BY <1>3, <2>1, <3>1
    <2> QED
      BY <2>2, <2>3
  <1>15. CASE EnsureStep(k) /\ UNCHANGED <<projectVars, pass>>
    BY <1>15 DEF EnsureStep, EnsureRead, EnsureAdd
  <1> QED
    BY <1>5, <1>6, <1>7, <1>8, <1>9, <1>10, <1>11, <1>12, <1>13, <1>14, <1>15 DEF PassStep

\* What a step does to the row and what the project has in Git and the cluster.
RowMoves ==
    /\ status' \in Status
    /\ status' = "none" => status = "none" /\ ~ deleted'
    /\ status' \in {"Terminating", "Terminated"} => deleted'
    /\ deleted => deleted'
    /\ folder' \subseteq {"tenant", "release"}
    /\ namespace' \in {"none", "owned", "bare"}
    /\ failures' \in [Controller -> 0..GiveUp]
    /\ faults' \in 0..MaxFaults

LEMMA RowSteps == PassInv /\ [LifecycleNext]_lifecycleVars => RowMoves
  <1> SUFFICES ASSUME PassInv, [LifecycleNext]_lifecycleVars PROVE RowMoves
    OBVIOUS
  <1>a. /\ status \in Status
        /\ status = "none" => ~ deleted
        /\ status \in {"Terminating", "Terminated"} => deleted
        /\ folder \subseteq {"tenant", "release"}
        /\ namespace \in {"none", "owned", "bare"}
        /\ failures \in [Controller -> 0..GiveUp]
        /\ faults \in 0..MaxFaults
    BY DEF PassInv, Own
  <1>b. Fault \/ UNCHANGED faults => faults' \in 0..MaxFaults
    BY <1>a, LifecycleAssumption DEF Fault
  <1>c. ASSUME NEW k \in Controller,
               UNCHANGED failures \/ failures' = [failures EXCEPT ![k] = 0]
        PROVE  failures' \in [Controller -> 0..GiveUp]
    BY <1>a, <1>c, LifecycleAssumption
  <1>d. ASSUME status' \in {"Provisioning", "Ready", "Failed"}, status # "none", UNCHANGED deleted, folder' \subseteq {"tenant", "release"},
               UNCHANGED namespace, failures' \in [Controller -> 0..GiveUp],
               faults' \in 0..MaxFaults
        PROVE  RowMoves
    BY <1>a, <1>d DEF RowMoves, Status
  <1>e. ASSUME UNCHANGED <<status, deleted>>, folder' \subseteq {"tenant", "release"},
               namespace' \in {"none", "owned", "bare"}, failures' \in [Controller -> 0..GiveUp],
               faults' \in 0..MaxFaults
        PROVE  RowMoves
    BY <1>a, <1>e DEF RowMoves
  <1> USE DEF Ends, Moves, Commits, envVars, projectVars
  <1>1. CASE Create
    BY <1>1, <1>a, <1>b DEF Create, RowMoves, Status
  <1>2. CASE Delete
    BY <1>2, <1>a, <1>b DEF Delete, MarkDeleted, RowMoves, Status
  <1>3. ASSUME NEW k \in Controller, SweepStart(k) \/ EventStart(k) PROVE RowMoves
    BY <1>3, <1>a, <1>b, <1>e DEF SweepStart, EventStart
  <1>4. ASSUME NEW k \in Controller, PassBreaks(k) PROVE RowMoves
    <2>1. failures' \in [Controller -> 0..GiveUp]
      <3>1. (IF pass[k].byEvent \/ failures[k] = GiveUp THEN failures[k] ELSE failures[k] + 1)
              \in 0..GiveUp
        BY <1>a, LifecycleAssumption
      <3> QED
        BY <1>4, <1>a, <3>1 DEF PassBreaks
    <2> QED
      BY <1>4, <1>a, <1>b, <1>e, <2>1 DEF PassBreaks
  <1>5. ASSUME NEW k \in Controller, MarkFailed(k) PROVE RowMoves
    <2>1. status # "none"
      BY <1>5 DEF MarkFailed, PassInv, Own, DeletionsStay, ReadRight
    <2> QED
      BY <1>5, <1>a, <1>b, <1>c, <1>d, <2>1 DEF MarkFailed
  <1>6. ASSUME NEW k \in Controller, Crash(k) PROVE RowMoves
    BY <1>6, <1>a, <1>b, <1>c, <1>e DEF Crash
  <1>7. ASSUME NEW k \in Controller, PassStep(k) PROVE RowMoves
    <2>0. pass[k].pc \in {"start", "check", "ensure", "drop"} => status # "none"
      BY DEF PassInv, DeletionsStay, ReadRight
    <2>1. CASE CollectFolder(k)
      BY <2>1, <1>a, <1>b, <1>c, <1>e DEF CollectFolder
    <2>2. CASE SweepPassesBy(k) \/ SweepGoesOn(k)
      BY <2>2, <1>a, <1>b, <1>c, <1>e DEF SweepPassesBy, SweepGoesOn
    <2>3. CASE CommitTenant(k) \/ RemoveTenant(k)
      BY <2>3, <1>a, <1>b, <1>c, <1>e DEF CommitTenant, RemoveTenant
    <2>4. CASE MarkReady(k)
      BY <2>4, <2>0, <1>a, <1>b, <1>c, <1>d DEF MarkReady
    <2>5. CASE Drift(k)
      BY <2>5, <2>0, <1>a, <1>b, <1>c, <1>d DEF Drift
    <2>6. CASE Waits(k) \/ PassOverFailed(k)
      BY <2>6, <1>a, <1>b, <1>c, <1>e DEF Waits, PassOverFailed
    <2>7. CASE MarkTerminated(k)
      <3>1. deleted
        BY <2>7 DEF MarkTerminated, PassInv, DeletionsStay, ReadRight
      <3> QED
        BY <2>7, <3>1, <1>a, <1>b, <1>c DEF MarkTerminated, RowMoves, Status
    <2>8. CASE ReconcileReleases(k)
      BY <2>8, <1>a, <1>b, <1>c, <1>e DEF ReconcileReleases
    <2>9. CASE NamespaceUp(k) \/ NamespaceGone(k)
      BY <2>9, <1>a, <1>b, <1>e DEF NamespaceUp, NamespaceGone, DropSecret
    <2>10. CASE EnsureStep(k) /\ UNCHANGED <<projectVars, pass>>
      BY <2>10, <1>a, <1>b, <1>e DEF EnsureStep, EnsureRead, EnsureAdd
    <2> QED
      BY <1>7, <2>1, <2>2, <2>3, <2>4, <2>5, <2>6, <2>7, <2>8, <2>9, <2>10 DEF PassStep
  <1>8. CASE SyncCreates \/ SyncPrunes \/ NamespaceLost
    BY <1>8, <1>a, <1>b, <1>e DEF SyncCreates, SyncPrunes, NamespaceLost
  <1>9. ASSUME UNCHANGED <<projectVars, deleted>> PROVE RowMoves
    BY <1>9, <1>a, <1>b, <1>e
  <1>10. CASE /\ \/ DropSecret
                 \/ \E i \in Initializer \ Controller : EnsureStep(i) \/ (status # "none" /\ Bootstrap(i))
                 \/ \E w \in Writer : WriterStep(w)
                 \/ status # "none" /\ \E w \in Writer, op \in Op, key \in Key : Arrive(w, op, key)
              /\ UNCHANGED <<projectVars, pass>>
    BY <1>9, <1>10, DeletedStays
  <1>11. CASE UNCHANGED lifecycleVars
    BY <1>9, <1>11 DEF lifecycleVars
  <1> QED
    BY <1>1, <1>2, <1>3, <1>4, <1>5, <1>6, <1>7, <1>8, <1>10, <1>11 DEF LifecycleNext

\* A pass is moved by the steps of its own controller only.
LEMMA PassSteps ==
  ASSUME PassInv, [LifecycleNext]_lifecycleVars
  PROVE  UNCHANGED pass \/ \E k \in Controller, p \in Passes : PassGoesTo(k, p)
  <1>1. CASE Create \/ Delete
    BY <1>1 DEF Create, Delete
  <1>2. ASSUME NEW k \in Controller,
               SweepStart(k) \/ EventStart(k) \/ PassStep(k) \/ PassBreaks(k) \/ MarkFailed(k)
                  \/ Crash(k)
        PROVE  UNCHANGED pass \/ \E p \in Passes : PassGoesTo(k, p)
    BY <1>2, PassStepShape
  <1>3. CASE SyncCreates \/ SyncPrunes \/ NamespaceLost
    BY <1>3 DEF SyncCreates, SyncPrunes, NamespaceLost
  <1>4. CASE UNCHANGED lifecycleVars
    BY <1>4 DEF lifecycleVars
  <1> QED
    BY <1>1, <1>2, <1>3, <1>4 DEF LifecycleNext

LEMMA NextPassInv == PassInv /\ [LifecycleNext]_lifecycleVars => PassInv'
  <1> SUFFICES ASSUME PassInv, [LifecycleNext]_lifecycleVars PROVE PassInv'
    OBVIOUS
  <1>1. RowMoves /\ EnvInv'
    BY RowSteps, EnvPart
  <1>2. ASSUME NEW p, ReadRight(p) PROVE ReadRight(p)'
    BY <1>1, <1>2 DEF ReadRight, RowMoves, PassInv, Own, Status
  <1>3. CASE UNCHANGED pass
    BY <1>1, <1>3 DEF PassInv, Own, DeletionsStay, ReadRight, RowMoves, Passes
  <1>4. ASSUME NEW k \in Controller, NEW p \in Passes, PassGoesTo(k, p) PROVE PassInv'
    <2>1. /\ pass' \in [Controller -> Passes]
          /\ pass'[k] = p
          /\ \A j \in Controller \ {k} : pass'[j] = pass[j]
      BY <1>4, PassMoves DEF PassGoesTo
    <2>2. p.row # "none" => status # "none"
      BY <1>4, NoPassIsTyped DEF PassGoesTo, PassInv, DeletionsStay, ReadRight
    <2>3. p.row \in {"Terminating", "Terminated"} => deleted
      BY <1>4, NoPassIsTyped DEF PassGoesTo, PassInv, Own, DeletionsStay, ReadRight
    <2>4. DeletionsStay'
      BY <1>1, <1>4, <2>1, <2>2, <2>3
         DEF PassGoesTo, PassInv, DeletionsStay, ReadRight, RowMoves
    <2> QED
      BY <1>1, <2>1, <2>4 DEF PassInv, Own, RowMoves
  <1> QED
    BY <1>3, <1>4, PassSteps

LEMMA InitPassInv == LifecycleInit => PassInv
  <1> SUFFICES ASSUME LifecycleInit PROVE PassInv
    OBVIOUS
  <1>1. EnvInv
    BY InitEnvInv DEF LifecycleInit
  <1>2. Own
    BY LifecycleAssumption, NoPassIsTyped DEF LifecycleInit, EnvInit, Own, Status
  <1>3. DeletionsStay
    BY NoPassIsTyped DEF LifecycleInit, DeletionsStay, ReadRight
  <1> QED
    BY <1>1, <1>2, <1>3 DEF PassInv

LEMMA PassInvHolds == LifecycleSpec => []PassInv
  BY InitPassInv, NextPassInv, PTL DEF LifecycleSpec

-----------------------------------------------------------------------------
\* The row, the folder, the namespace and the passes have their types: in
\* particular nothing marks a project Terminated whose deletion was never asked
\* for (controller/main.py, _reconcile_project).
THEOREM LifecycleTypeCorrect == LifecycleSpec => []LifecycleTypeOK
  <1>1. PassInv => LifecycleTypeOK
    BY DEF PassInv, Own, EnvInv, LifecycleTypeOK, Passes
  <1> QED
    BY <1>1, PassInvHolds, PTL

\* What one controller's sweep found no row for has not gone further.
LEMMA NextNewcomersWait ==
  OneController /\ PassInv /\ NewcomersWait /\ [LifecycleNext]_lifecycleVars => NewcomersWait'
  <1> SUFFICES ASSUME OneController, PassInv, NewcomersWait, [LifecycleNext]_lifecycleVars,
                      NEW k \in Controller, pass'[k].pc = "sweep", pass'[k].row = "none"
               PROVE  deleted' \/ status' \in {"none", "Provisioning"}
    BY DEF NewcomersWait
  <1>1. RowMoves /\ pass[k] \in Passes
    BY RowSteps DEF PassInv, Own
  <1>2. ASSUME UNCHANGED <<status, pass>> PROVE deleted' \/ status' \in {"none", "Provisioning"}
    BY <1>1, <1>2 DEF NewcomersWait, RowMoves
  <1>3. CASE Create \/ Delete
    BY <1>3 DEF Create, Delete, MarkDeleted
  <1>4. ASSUME NEW j \in Controller, pass' = [pass EXCEPT ![j] = NoPass] PROVE FALSE
    BY <1>4, NoPassIsTyped DEF OneController, PassInv, Own
  <1>5. ASSUME NEW j \in Controller, NEW pc \in {"start", "check", "ensure", "drop"},
               pass' = [pass EXCEPT ![j].pc = pc]
        PROVE  FALSE
    BY <1>5 DEF OneController, PassInv, Own, Passes
  <1>6. ASSUME NEW j \in Controller, SweepStart(j) \/ EventStart(j) \/ PassBreaks(j)
                                       \/ MarkFailed(j) \/ Crash(j)
        PROVE  deleted' \/ status' \in {"none", "Provisioning"}
    <2>1. CASE SweepStart(j)
      BY <2>1 DEF SweepStart, OneController, PassInv, Own, projectVars
    <2>2. CASE EventStart(j)
      BY <2>2 DEF EventStart, Active, OneController, PassInv, Own
    <2>3. CASE PassBreaks(j)
      BY <1>4, <2>3 DEF PassBreaks
    <2>4. CASE MarkFailed(j) \/ Crash(j)
      BY <1>4, <2>4 DEF MarkFailed, Crash, Ends
    <2> QED
      BY <1>6, <2>1, <2>2, <2>3, <2>4
  <1>7. ASSUME NEW j \in Controller, PassStep(j)
        PROVE  deleted' \/ status' \in {"none", "Provisioning"}
    <2>1. CASE CollectFolder(j) \/ SweepPassesBy(j)
      BY <1>4, <2>1 DEF CollectFolder, SweepPassesBy, Ends
    <2>2. CASE SweepGoesOn(j)
      BY <1>1, <2>2, NoPassIsTyped DEF SweepGoesOn, OneController, PassInv, Own, Passes
    <2>3. CASE CommitTenant(j) \/ RemoveTenant(j) \/ NamespaceUp(j) \/ NamespaceGone(j)
      BY <1>5, <2>3 DEF CommitTenant, RemoveTenant, NamespaceUp, NamespaceGone, Moves
    <2>4. CASE MarkReady(j) \/ MarkTerminated(j) \/ Waits(j) \/ Drift(j) \/ ReconcileReleases(j)
                 \/ PassOverFailed(j)
      BY <1>4, <2>4 DEF MarkReady, MarkTerminated, Waits, Drift, ReconcileReleases, PassOverFailed, Ends
    <2>5. CASE EnsureStep(j) /\ UNCHANGED <<projectVars, pass>>
      BY <1>2, <2>5 DEF projectVars
    <2> QED
      BY <1>7, <2>1, <2>2, <2>3, <2>4, <2>5 DEF PassStep
  <1>8. CASE SyncCreates \/ SyncPrunes \/ NamespaceLost
    BY <1>2, <1>8 DEF SyncCreates, SyncPrunes, NamespaceLost
  <1>9. CASE UNCHANGED <<projectVars, pass>> \/ UNCHANGED lifecycleVars
    BY <1>2, <1>9 DEF projectVars, lifecycleVars
  <1> QED
    BY <1>3, <1>6, <1>7, <1>8, <1>9 DEF LifecycleNext

\* The files a step takes out of the folder.
LEMMA FolderKept ==
  ASSUME PassInv, NewcomersWait, [LifecycleNext]_lifecycleVars,
         ~ deleted, status \in {"Ready", "Failed"}
  PROVE  folder \ {"release"} \subseteq folder'
  <1>1. CASE UNCHANGED folder
    BY <1>1
  <1>2. CASE Create \/ Delete
    BY <1>2 DEF Create, Delete
  <1>3. ASSUME NEW k \in Controller, SweepStart(k) \/ EventStart(k) \/ PassBreaks(k)
                                       \/ MarkFailed(k) \/ Crash(k)
        PROVE  UNCHANGED folder
    BY <1>3 DEF SweepStart, EventStart, PassBreaks, MarkFailed, Crash, projectVars
  <1>4. ASSUME NEW k \in Controller, PassStep(k) PROVE folder \ {"release"} \subseteq folder'
    <2>1. CASE CollectFolder(k)
      <3>1. pass[k].pc = "sweep" /\ pass[k].row \in {"none", "Terminated"}
        BY <2>1 DEF CollectFolder, Active
      <3> QED
        BY <3>1 DEF PassInv, DeletionsStay, ReadRight, NewcomersWait
    <2>2. CASE RemoveTenant(k)
      BY <2>2 DEF RemoveTenant, PassInv, DeletionsStay, ReadRight
    <2>3. CASE SweepGoesOn(k) \/ CommitTenant(k) \/ ReconcileReleases(k)
      BY <2>3 DEF SweepGoesOn, CommitTenant, Commits, ReconcileReleases
    <2>4. CASE SweepPassesBy(k) \/ NamespaceUp(k) \/ MarkReady(k) \/ NamespaceGone(k)
                 \/ MarkTerminated(k) \/ Waits(k) \/ Drift(k) \/ PassOverFailed(k)
      BY <2>4 DEF SweepPassesBy, NamespaceUp, MarkReady, NamespaceGone, MarkTerminated, Waits, Drift,
                  PassOverFailed, projectVars
    <2>5. CASE EnsureStep(k) /\ UNCHANGED <<projectVars, pass>>
      BY <2>5 DEF projectVars
    <2> QED
      BY <1>4, <2>1, <2>2, <2>3, <2>4, <2>5 DEF PassStep
  <1>5. CASE SyncCreates \/ SyncPrunes \/ NamespaceLost
    BY <1>5 DEF SyncCreates, SyncPrunes, NamespaceLost
  <1>6. CASE UNCHANGED <<projectVars, pass>> \/ UNCHANGED lifecycleVars
    BY <1>6 DEF projectVars, lifecycleVars
  <1> QED
    BY <1>2, <1>3, <1>4, <1>5, <1>6 DEF LifecycleNext

\* While one controller leads, a project that is Ready or Failed keeps its
\* tenant.yaml until its deletion (gc_orphan_tenant_folders and
\* _reconcile_project, controller/main.py:259 and 726).
THEOREM FolderOutlivesSweeps == OneController => (LifecycleSpec => ReadyKeepsFolder)
  <1> SUFFICES ASSUME OneController PROVE LifecycleSpec => ReadyKeepsFolder
    OBVIOUS
  <1>1. LifecycleInit => NewcomersWait
    BY NoPassIsTyped DEF LifecycleInit, NewcomersWait
  <1>2. PassInv /\ NewcomersWait /\ [LifecycleNext]_lifecycleVars => NewcomersWait'
    BY NextNewcomersWait
  <1>3. PassInv /\ NewcomersWait /\ [LifecycleNext]_lifecycleVars
          => [(~ deleted /\ status \in {"Ready", "Failed"})
                 => folder \ {"release"} \subseteq folder']_lifecycleVars
    BY FolderKept
  <1> QED
    BY <1>1, <1>2, <1>3, PassInvHolds, PTL DEF LifecycleSpec, ReadyKeepsFolder
=============================================================================

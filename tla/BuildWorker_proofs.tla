------------------------- MODULE BuildWorker_proofs --------------------------
(***************************************************************************)
(* The safety properties of the rows and the worker threads, for every     *)
(* number of deployments, threads, rollback requests and faults.           *)
(*                                                                         *)
(* QueuedHasMessage is not inductive: an acknowledgement could hit a row   *)
(* that still waits.  So BInv records, for every step at which a thread    *)
(* can acknowledge or bury, that the row of its message has left the queue *)
(* for good (PastQueue).  Nor is ReleasesArePinned: what a thread finishes *)
(* is pinned before (Sound), and so is every rollback, because the target  *)
(* its request has read was (RequestInv); and so is whatever the controller*)
(* promotes, because the row it read was (ReadInv).                        *)
(*                                                                         *)
(* BInv says nothing of Jobs.  WorkInv does, and its proof looks at each   *)
(* action of a thread once: ThreadStep and ThreadJobs say what any step of *)
(* a thread does to its message, its row and its Job, OutsideStep what     *)
(* users, the queue and the controller do to them; the parts of WorkInv    *)
(* follow from these.                                                      *)
(***************************************************************************)
EXTENDS Builds, FiniteSetTheorems, WellFoundedInduction, TLAPS

\* The row d is no longer waiting to be built and never will be.
Left(d) == state[d] \notin {"none", "Queued"}

RowInv ==
    /\ state \in [Deployment -> States]
    /\ OneActive
    /\ QueuedHasMessage
    /\ ReleasesArePinned
    /\ rollbacks \subseteq pinned

\* The steps at which a thread can only be if the row of its message has left
\* the queue.
PastQueue == {"settle", "poll", "promote", "finish", "unbuilt", "reap", "ack", "bury"}

HandlerRecord == [pc : Steps, msg : Deployment \cup {Nobody}, attempt : Attempts]

\* What is true of a thread that is at the step r.pc with r.msg.
Sound(r) ==
    /\ r \in HandlerRecord
    /\ r.pc # "idle" => r.msg \in Deployment
    /\ r.pc \in PastQueue => Left(r.msg)
    /\ r.pc = "rollback" => r.msg \in rollbacks
    /\ r.pc = "finish" => r.msg \in pinned

HandlerInv ==
    /\ handler = [h \in Handler |-> handler[h]]
    /\ \A h \in Handler : Sound(handler[h])

\* A rollback that deploys again has read a digest.
RequestInv ==
    /\ request = [q \in Request |-> request[q]]
    /\ \A q \in Request : request[q].pc = "chosen" => request[q].digest

BInv == RowInv /\ HandlerInv /\ RequestInv

\* What the controller's pass has read as Deploying was pinned, whatever its row
\* says by now.
ReadInv == reading \in pinned \cup {Nobody}

BuildsInv == BInv /\ ReadInv

(* What a thread works on.  WorkInv adds what three more properties need:  *)
(* NoUnattendedBuild says only that some thread has the Job in hand, not   *)
(* that it will delete it; RollbacksNeverBuild says nothing of the thread  *)
(* that is about to create a Job; and the types need the requests'.        *)

\* The steps from clone to clean-up, those at which a Job may run, and those
\* before the row has its image.
BuildSteps  == {"prepare", "await", "poll", "promote", "finish", "unbuilt", "failed", "reap"}
JobSteps    == BuildSteps \ {"prepare"}
BeforeImage == BuildSteps \ {"failed", "reap"}

\* A request that has chosen has a target.
TargetInv == \A q \in Request : request[q].pc = "chosen" => request[q].to \in Deployment

\* Nothing is under way for a deployment that has not been created.
UnbornInv ==
    \A d \in Deployment : state[d] = "none" =>
        /\ d \notin unsettled \cup rollbacks
        /\ \A a \in Attempts : jobs[<<d, a>>] = "absent"
        /\ \A h \in Handler : Msg(h) # d

NoRollbackIsBuilt ==
    /\ RollbacksNeverBuild
    /\ \A h \in Handler : handler[h].pc \in BuildSteps => Msg(h) \notin rollbacks

\* Two threads have the same message only after a fault.
AloneInv ==
    faults = 0 =>
        \A h, g \in Handler : Msg(h) = Msg(g) /\ Msg(h) # Nobody => h = g

AttendedInv ==
    faults = 0 => \A j \in DOMAIN jobs : jobs[j] = "running" =>
        \E h \in Handler : handler[h].pc \in JobSteps /\ Job(h) = j

RollbackInv == BuildTypeOK /\ TargetInv /\ UnbornInv /\ NoRollbackIsBuilt
WorkInv == RollbackInv /\ AloneInv /\ AttendedInv

-----------------------------------------------------------------------------
(* What the parts of a step may do.                                        *)

\* Left and Sound of the same deployment and the same record, after the step.
LeftNext(d) == state'[d] \notin {"none", "Queued"}
SoundNext(r) ==
    /\ r \in HandlerRecord
    /\ r.pc # "idle" => r.msg \in Deployment
    /\ r.pc \in PastQueue => LeftNext(r.msg)
    /\ r.pc = "rollback" => r.msg \in rollbacks'
    /\ r.pc = "finish" => r.msg \in pinned'

\* The pinned deployments, the rollbacks and the rows that left the queue only
\* grow.
Grows ==
    /\ pinned \subseteq pinned'
    /\ rollbacks \subseteq rollbacks'
    /\ \A d \in Deployment : Left(d) => LeftNext(d)

\* One row moves, within what the unique index allows; it does not go back to the
\* queue, waits only with a message, and is deployed only when pinned.
LEMMA RowMoves ==
  ASSUME RowInv, NEW d \in Deployment, NEW s \in States,
         state' = [state EXCEPT ![d] = s],
         s \in Active => IndexAllows(d, s),
         s \in {"none", "Queued"} => ~Left(d),
         s = "Queued" => d \in unsettled',
         s \in {"Deploying", "Running"} => d \in pinned',
         unsettled \subseteq unsettled',
         pinned \subseteq pinned',
         rollbacks \subseteq rollbacks',
         rollbacks' \subseteq pinned'
  PROVE  RowInv' /\ Grows
  <1>1. state \in [Deployment -> States] /\ state' \in [Deployment -> States]
    BY DEF RowInv
  <1>2. state'[d] = s /\ \A b \in Deployment \ {d} : state'[b] = state[b]
    BY <1>1
  <1>3. OneActive'
    BY <1>2 DEF RowInv, OneActive, IndexAllows
  <1>4. QueuedHasMessage'
    BY <1>2 DEF RowInv, QueuedHasMessage
  <1>5. ReleasesArePinned'
    BY <1>2 DEF RowInv, ReleasesArePinned
  <1>6. Grows
    BY <1>2 DEF Grows, Left, LeftNext
  <1> QED
    BY <1>1, <1>3, <1>4, <1>5, <1>6 DEF RowInv

\* No row moves; messages are settled only of rows that left the queue or of
\* branches the worker refuses.
LEMMA RowsStay ==
  ASSUME RowInv, UNCHANGED state,
         \A d \in Deployment \ Malformed :
             d \in unsettled /\ d \notin unsettled' => state[d] # "Queued",
         pinned \subseteq pinned',
         rollbacks' = rollbacks
  PROVE  RowInv' /\ Grows
  <1>1. OneActive'
    BY DEF RowInv, OneActive
  <1>2. QueuedHasMessage'
    BY DEF RowInv, QueuedHasMessage
  <1>3. ReleasesArePinned'
    BY DEF RowInv, ReleasesArePinned
  <1>4. Grows
    BY DEF Grows, Left, LeftNext
  <1> QED
    BY <1>1, <1>2, <1>3, <1>4 DEF RowInv

\* What is true of a thread stays true while it waits.
LEMMA SoundStays ==
  ASSUME NEW r, Sound(r), Grows
  PROVE  SoundNext(r)
  <1>1. r.pc \in PastQueue => r.msg \in Deployment
    BY DEF Sound, PastQueue
  <1> QED
    BY <1>1 DEF Sound, SoundNext, Grows

LEMMA HandlersStay ==
  ASSUME HandlerInv, Grows, UNCHANGED handler
  PROVE  HandlerInv'
  <1>1. \A h \in Handler : SoundNext(handler'[h])
    BY SoundStays DEF HandlerInv
  <1> QED
    BY <1>1 DEF HandlerInv, Sound, SoundNext, Left, LeftNext

\* One thread goes on.
LEMMA HandlerMoves ==
  ASSUME HandlerInv, Grows, NEW h \in Handler, NEW r,
         handler' = [handler EXCEPT ![h] = r],
         SoundNext(r)
  PROVE  HandlerInv'
  <1>1. /\ handler'[h] = r
        /\ \A g \in Handler \ {h} : handler'[g] = handler[g]
        /\ handler' = [g \in Handler |-> handler'[g]]
    BY DEF HandlerInv
  <1>2. \A g \in Handler : SoundNext(handler'[g])
    BY <1>1, SoundStays DEF HandlerInv
  <1> QED
    BY <1>1, <1>2 DEF HandlerInv, Sound, SoundNext, Left, LeftNext

\* A thread that stays with its message and goes on to the step pc.
LEMMA GoesOn ==
  ASSUME HandlerInv, Grows, NEW h \in Handler, NEW pc \in Steps \ {"idle"}, Goes(h, pc),
         ~At(h, "idle"),
         pc \in PastQueue => LeftNext(Msg(h)),
         pc = "rollback" => Msg(h) \in rollbacks',
         pc = "finish" => Msg(h) \in pinned'
  PROVE  HandlerInv'
  <1> DEFINE r == [handler[h] EXCEPT !.pc = pc]
  <1>1. handler' = [handler EXCEPT ![h] = r]
    BY DEF Goes
  <1>2. handler[h] \in HandlerRecord /\ Msg(h) \in Deployment
    BY DEF HandlerInv, Sound, At, Msg
  <1>3. r \in HandlerRecord /\ r.pc = pc /\ r.msg = Msg(h)
    BY <1>2 DEF HandlerRecord, Msg
  <1> HIDE DEF r
  <1>4. SoundNext(r)
    BY <1>2, <1>3 DEF SoundNext, HandlerRecord, Msg
  <1> QED
    BY <1>1, <1>4, HandlerMoves

LEMMA FreesHandler ==
  ASSUME HandlerInv, Grows, NEW h \in Handler, Frees(h)
  PROVE  HandlerInv'
  <1>1. Free \in HandlerRecord /\ Free.pc = "idle"
    BY DEF Free, HandlerRecord, Steps, Attempts
  <1>2. SoundNext(Free)
    BY <1>1 DEF SoundNext, PastQueue, HandlerRecord
  <1> QED
    BY <1>2, HandlerMoves DEF Frees

-----------------------------------------------------------------------------
(* The actions of a thread.                                                *)

\* What is known of the message of a busy thread.
LEMMA Busy ==
  ASSUME HandlerInv, NEW h \in Handler, ~At(h, "idle")
  PROVE  /\ Msg(h) \in Deployment
         /\ handler[h].pc \in PastQueue => Left(Msg(h))
         /\ At(h, "rollback") => Msg(h) \in rollbacks
         /\ At(h, "finish") => Msg(h) \in pinned
  BY DEF HandlerInv, Sound, At, Msg

\* A step of a thread that moves no row and settles nothing that still waits.
LEMMA QuietStep ==
  ASSUME BInv, NEW h \in Handler, ~At(h, "idle"), NEW pc \in Steps \ {"idle"},
         Goes(h, pc) \/ Frees(h),
         UNCHANGED <<state, rollbacks, request>>,
         pinned \subseteq pinned',
         \A d \in Deployment \ Malformed :
             d \in unsettled /\ d \notin unsettled' => state[d] # "Queued",
         pc \in PastQueue => Left(Msg(h)),
         pc = "rollback" => Msg(h) \in rollbacks,
         pc = "finish" => Msg(h) \in pinned'
  PROVE  BInv'
  <1>1. RowInv' /\ Grows
    BY RowsStay DEF BInv
  <1>2. CASE Frees(h)
    BY <1>1, <1>2, FreesHandler DEF BInv, RequestInv
  <1>3. CASE Goes(h, pc)
    BY <1>1, <1>3, GoesOn DEF BInv, RequestInv, Left, LeftNext
  <1> QED
    BY <1>2, <1>3

\* update_state(s) of the message of a thread, which then goes on to the step pc.
LEMMA RowStep ==
  ASSUME BInv, NEW h \in Handler, ~At(h, "idle"), NEW pc \in Steps \ {"idle"},
         Goes(h, pc), pc \notin {"rollback", "finish"},
         NEW s \in States \ {"none", "Queued"},
         state' = [state EXCEPT ![Msg(h)] = s],
         s \in Active => IndexAllows(Msg(h), s),
         s \in {"Deploying", "Running"} => Msg(h) \in pinned,
         UNCHANGED <<unsettled, pinned, rollbacks, request>>
  PROVE  BInv'
  <1>1. Msg(h) \in Deployment
    BY Busy DEF BInv
  <1>2. RowInv' /\ Grows
    <2>1. rollbacks \subseteq pinned
      BY DEF BInv, RowInv
    <2> QED
      BY <1>1, <2>1, RowMoves DEF BInv
  <1>3. LeftNext(Msg(h))
    BY <1>1 DEF LeftNext, BInv, RowInv
  <1>4. HandlerInv'
    BY <1>2, <1>3, GoesOn DEF BInv
  <1> QED
    BY <1>2, <1>4 DEF BInv, RequestInv

\* Delivery hands a message to a free thread.
LEMMA DeliverBInv ==
  ASSUME BInv, NEW h \in Handler, NEW d \in Deployment, Deliver(h, d) PROVE BInv'
  <1> DEFINE r == [Free EXCEPT !.pc = "fetched", !.msg = d]
  <1>1. r \in HandlerRecord /\ r.pc = "fetched" /\ r.msg = d
    BY DEF Free, HandlerRecord, Steps, Attempts
  <1>2. handler' = [handler EXCEPT ![h] = r]
    BY DEF Deliver
  <1> HIDE DEF r
  <1>3. RowInv' /\ Grows
    BY RowsStay DEF Deliver, rowVars, releaseVars, buildVars, BInv
  <1>4. SoundNext(r)
    BY <1>1 DEF SoundNext, PastQueue
  <1> QED
    BY <1>2, <1>3, <1>4, HandlerMoves
    DEF BInv, RequestInv, Deliver, rowVars, releaseVars, buildVars

\* The steps before a build: refused, examined, a rollback advanced, settled.
LEMMA MessageBInv ==
  ASSUME BInv, NEW h \in Handler,
         Refuse(h) \/ Examine(h) \/ AdvanceRollback(h) \/ Settle(h)
  PROVE  BInv'
  <1> USE DEF rowVars, releaseVars, buildVars
  <1>1. CASE Refuse(h)
    <2>1. "reject" \in Steps \ {"idle"} /\ "reject" \notin PastQueue \cup {"rollback", "finish"}
      BY DEF Steps, PastQueue
    <2> QED
      BY <1>1, <2>1, QuietStep DEF Refuse, Settles, At
  <1>2. CASE Examine(h)
    <2> DEFINE pc == IF state[Msg(h)] \in {"Deploying", "Running"} THEN "settle"
                     ELSE IF Msg(h) \in rollbacks THEN "rollback" ELSE "prepare"
    <2>1. pc \in Steps \ {"idle"}
      BY DEF Steps
    <2>2. /\ pc \in PastQueue => Left(Msg(h))
          /\ pc = "rollback" => Msg(h) \in rollbacks
          /\ pc # "finish"
      BY DEF PastQueue, Left
    <2>3. Goes(h, pc) /\ ~At(h, "idle") /\ UNCHANGED rowVars
      BY <1>2 DEF Examine, At
    <2> HIDE DEF pc
    <2> QED
      BY <2>1, <2>2, <2>3, QuietStep
  <1>3. CASE AdvanceRollback(h)
    <2>1. ~At(h, "idle") /\ Msg(h) \in pinned
      BY <1>3, Busy DEF AdvanceRollback, At, BInv, RowInv
    <2>2. /\ "settle" \in Steps \ {"idle", "rollback", "finish"}
          /\ "reject" \in Steps \ {"idle"} /\ "reject" \notin PastQueue \cup {"rollback", "finish"}
          /\ "Deploying" \in States \ {"none", "Queued"}
      BY DEF Steps, PastQueue, States, Active
    <2>3. CASE IndexAllows(Msg(h), "Deploying")
      BY <1>3, <2>1, <2>2, <2>3, RowStep DEF AdvanceRollback, SetState
    <2>4. CASE ~IndexAllows(Msg(h), "Deploying")
      BY <1>3, <2>1, <2>2, <2>4, QuietStep DEF AdvanceRollback
    <2> QED
      BY <2>3, <2>4
  <1>4. CASE Settle(h)
    <2>1. ~At(h, "idle") /\ Left(Msg(h))
      BY <1>4, Busy DEF Settle, At, BInv, PastQueue
    <2>2. "reject" \in Steps \ {"idle"} /\ "reject" \notin PastQueue \cup {"rollback", "finish"}
      BY DEF Steps, PastQueue
    <2> QED
      BY <1>4, <2>1, <2>2, QuietStep DEF Settle, Settles, Left
  <1> QED
    BY <1>1, <1>2, <1>3, <1>4

\* Every step but the first and the last, and those that say nothing of the rows.
PlainSteps == {"prepare", "await", "failed", "reject"}
LEMMA StepNames ==
  /\ PlainSteps \subseteq Steps \ {"idle"}
  /\ PlainSteps \cap (PastQueue \cup {"rollback", "finish"}) = {}
  /\ PastQueue \subseteq Steps \ {"idle"}
  /\ {"Building", "Deploying", "Running", "Failed"} \subseteq States \ {"none", "Queued"}
  BY DEF PlainSteps, Steps, PastQueue, States, Active

\* The steps of a build that move no row.
LEMMA BuildBInv ==
  ASSUME BInv, NEW h \in Handler,
         \/ CreateJob(h) \/ PrepareFails(h) \/ PodMissing(h) \/ PollEnds(h) \/ Promote(h)
         \/ PromoteFails(h) \/ RetryWithFix(h) \/ Reap(h) \/ Bury(h)
  PROVE  BInv'
  <1> USE DEF rowVars, releaseVars, buildVars
  <1>1. CASE CreateJob(h)
    BY <1>1, StepNames, QuietStep DEF CreateJob, At, PlainSteps
  <1>2. CASE PrepareFails(h)
    BY <1>2, StepNames, QuietStep DEF PrepareFails, At, PlainSteps
  <1>3. CASE PodMissing(h)
    BY <1>3, StepNames, QuietStep DEF PodMissing, At, PlainSteps
  <1>4. CASE PollEnds(h)
    <2>1. ~At(h, "idle") /\ Left(Msg(h))
      BY <1>4, Busy DEF PollEnds, At, BInv, PastQueue
    <2>2. CASE Goes(h, "promote")
      BY <1>4, <2>1, <2>2, StepNames, QuietStep DEF PollEnds, PastQueue
    <2>3. CASE Goes(h, "unbuilt")
      BY <1>4, <2>1, <2>3, StepNames, QuietStep DEF PollEnds, PastQueue
    <2> QED
      BY <1>4, <2>2, <2>3 DEF PollEnds
  <1>5. CASE Promote(h)
    <2>1. ~At(h, "idle") /\ Left(Msg(h))
      BY <1>5, Busy DEF Promote, At, BInv, PastQueue
    <2> QED
      BY <1>5, <2>1, StepNames, QuietStep DEF Promote, PastQueue
  <1>6. CASE PromoteFails(h)
    BY <1>6, StepNames, QuietStep DEF PromoteFails, At, PlainSteps
  <1>7. CASE RetryWithFix(h)
    <2> DEFINE r == [handler[h] EXCEPT !.attempt = "fix", !.pc = "await"]
    <2>1. handler[h] \in HandlerRecord /\ Msg(h) \in Deployment
      BY <1>7, Busy DEF BInv, HandlerInv, Sound, RetryWithFix, At
    <2>2. r \in HandlerRecord /\ r.pc = "await" /\ r.msg = Msg(h)
      BY <2>1 DEF HandlerRecord, Msg, Steps, Attempts
    <2>3. handler' = [handler EXCEPT ![h] = r]
      BY <1>7 DEF RetryWithFix
    <2> HIDE DEF r
    <2>4. SoundNext(r)
      BY <2>1, <2>2 DEF SoundNext, PastQueue
    <2>5. RowInv' /\ Grows
      BY <1>7, RowsStay DEF RetryWithFix, BInv
    <2> QED
      BY <1>7, <2>3, <2>4, <2>5, HandlerMoves DEF BInv, RequestInv, RetryWithFix
  <1>8. CASE Reap(h)
    <2>1. ~At(h, "idle") /\ Left(Msg(h))
      BY <1>8, Busy DEF Reap, At, BInv, PastQueue
    <2> QED
      BY <1>8, <2>1, StepNames, QuietStep DEF Reap, PastQueue
  <1>9. CASE Bury(h)
    <2>1. ~At(h, "idle") /\ Left(Msg(h))
      BY <1>9, Busy DEF Bury, At, BInv, PastQueue
    <2> QED
      BY <1>9, <2>1, StepNames, QuietStep DEF Bury, Settles, Left, PlainSteps
  <1> QED
    BY <1>1, <1>2, <1>3, <1>4, <1>5, <1>6, <1>7, <1>8, <1>9

\* The steps of a build that move its row.
LEMMA UpdateBInv ==
  ASSUME BInv, NEW h \in Handler, PodAppears(h) \/ Finish(h) \/ MarkFailed(h) \/ Reject(h)
  PROVE  BInv'
  <1> USE DEF rowVars, releaseVars, buildVars
  <1>1. "failed" \in PlainSteps /\ {"poll", "reap", "bury"} \subseteq PastQueue \ {"finish"}
    BY DEF PlainSteps, PastQueue
  <1>2. CASE PodAppears(h)
    <2>1. CASE IndexAllows(Msg(h), "Building")
      BY <1>1, <1>2, <2>1, StepNames, RowStep DEF PodAppears, SetState, At, PastQueue
    <2>2. CASE ~IndexAllows(Msg(h), "Building")
      BY <1>1, <1>2, <2>2, StepNames, QuietStep DEF PodAppears, At
    <2> QED
      BY <2>1, <2>2
  <1>3. CASE Finish(h)
    <2>1. ~At(h, "idle") /\ Msg(h) \in pinned
      BY <1>3, Busy DEF Finish, At, BInv
    <2>2. CASE IndexAllows(Msg(h), "Deploying")
      BY <1>1, <1>3, <2>1, <2>2, StepNames, RowStep DEF Finish, SetState, PastQueue
    <2>3. CASE ~IndexAllows(Msg(h), "Deploying")
      BY <1>1, <1>3, <2>1, <2>3, StepNames, QuietStep DEF Finish
    <2> QED
      BY <2>2, <2>3
  <1>4. CASE MarkFailed(h)
    BY <1>1, <1>4, StepNames, RowStep DEF MarkFailed, SetState, At, Active, PastQueue
  <1>5. CASE Reject(h)
    BY <1>1, <1>5, StepNames, RowStep DEF Reject, SetState, At, Active, PastQueue
  <1> QED
    BY <1>2, <1>3, <1>4, <1>5

\* A thread dies or a call of it fails: no row moves and nothing is settled.
LEMMA FaultBInv == ASSUME BInv, NEW h \in Handler, Crash(h) \/ CallFails(h) PROVE BInv'
  <1> USE DEF rowVars, releaseVars, buildVars
  <1>1. CASE Crash(h)
    BY <1>1, StepNames, QuietStep DEF Crash, PlainSteps
  <1>2. CASE CallFails(h)
    <2>1. ~At(h, "idle")
      BY <1>2 DEF CallFails, At
    <2>2. CASE Goes(h, "failed")
      BY <1>2, <2>1, <2>2, StepNames, QuietStep DEF CallFails, PlainSteps
    <2>3. CASE Goes(h, "reject")
      BY <1>2, <2>1, <2>3, StepNames, QuietStep DEF CallFails, PlainSteps
    <2>4. CASE At(h, "poll") /\ Goes(h, "unbuilt")
      <3>1. Left(Msg(h))
        BY <2>1, <2>4, Busy DEF At, BInv, PastQueue
      <3> QED
        BY <1>2, <2>1, <2>4, <3>1, StepNames, QuietStep DEF CallFails, PastQueue
    <2> QED
      BY <1>2, <2>2, <2>3, <2>4 DEF CallFails
  <1> QED
    BY <1>1, <1>2

-----------------------------------------------------------------------------
(* Users, Jobs, the sweeper and the controller.                            *)

LEMMA RequestMoves ==
  ASSUME RequestInv, NEW q \in Request, NEW r, request' = [request EXCEPT ![q] = r],
         r.pc = "chosen" => r.digest
  PROVE  RequestInv'
  BY DEF RequestInv

\* Deploys, cancels and redeliveries.
LEMMA DeployBInv ==
  ASSUME BInv, NEW d \in Deployment, UNCHANGED handler,
         Create(d) \/ Cancel(d) \/ KillJob(d) \/ Resend(d)
  PROVE  BInv'
  <1> USE DEF rowVars, releaseVars, buildVars
  <1>1. UNCHANGED request /\ rollbacks \subseteq pinned
    BY DEF Create, Cancel, KillJob, Resend, BInv, RowInv
  <1>2. CASE Create(d)
    <2>1. state[d] = "none" /\ "Queued" \in States
      BY <1>2 DEF Create, Fresh, States, Active
    <2>2. RowInv' /\ Grows
      BY <1>1, <1>2, <2>1, RowMoves DEF Create, SetState, Left, BInv
    <2> QED
      BY <1>1, <2>2, HandlersStay DEF BInv, RequestInv
  <1>3. CASE Cancel(d)
    <2>1. RowInv' /\ Grows
      BY <1>1, <1>3, StepNames, RowMoves DEF Cancel, SetState, Active, BInv
    <2> QED
      BY <1>1, <2>1, HandlersStay DEF BInv, RequestInv
  <1>4. CASE KillJob(d) \/ Resend(d)
    <2>1. RowInv' /\ Grows
      BY <1>4, RowsStay DEF KillJob, Resend, BInv
    <2> QED
      BY <1>1, <2>1, HandlersStay DEF BInv, RequestInv
  <1> QED
    BY <1>2, <1>3, <1>4

\* A rollback that has to deploy again copies the digest of a Running release,
\* and a Running release is pinned.
LEMMA RollbackBInv == ASSUME BInv, UNCHANGED handler, RollbackNext PROVE BInv'
  <1> USE DEF rowVars, releaseVars, buildVars
  <1> PICK q \in Request :
         \/ RollbackStart(q) \/ RollbackChoose(q) \/ RollbackInstantly(q) \/ RollbackRefused(q)
         \/ \E d \in Deployment : RollbackByDeploying(q, d)
    BY DEF RollbackNext, RollbackStep
  <1>1. NoRequest.pc = "idle" /\ [NoRequest EXCEPT !.pc = "started", !.liveRead = live].pc = "started"
    BY DEF NoRequest
  <1>2. CASE RollbackStart(q) \/ RollbackChoose(q) \/ RollbackInstantly(q) \/ RollbackRefused(q)
    <2>1. RowInv' /\ Grows
      BY <1>2, RowsStay
      DEF RollbackStart, RollbackChoose, RollbackInstantly, RollbackRefused, BInv
    <2>2. RequestInv'
      <3>1. CASE request' = [request EXCEPT ![q] = NoRequest]
        BY <1>1, <3>1, RequestMoves DEF BInv
      <3>2. CASE RollbackStart(q)
        BY <1>1, <3>2, RequestMoves DEF RollbackStart, BInv
      <3>3. CASE RollbackChoose(q) /\ request' # [request EXCEPT ![q] = NoRequest]
        <4> DEFINE from == ServingFor(request[q].liveRead)
        <4>1. PICK to \in TargetsFor(from) :
                 request' = [request EXCEPT ![q] =
                    [pc |-> "chosen", liveRead |-> request[q].liveRead, from |-> from, to |-> to,
                     instant |-> replicas[to] > 0, digest |-> to \in pinned]]
          BY <3>3 DEF RollbackChoose
        <4>2. to \in pinned
          BY DEF TargetsFor, BInv, RowInv, ReleasesArePinned
        <4> QED
          BY <4>1, <4>2, RequestMoves DEF BInv
      <3> QED
        BY <1>2, <3>1, <3>2, <3>3 DEF RollbackInstantly, RollbackRefused
    <2> QED
      BY <2>1, <2>2, HandlersStay DEF BInv
  <1>3. CASE \E d \in Deployment : RollbackByDeploying(q, d)
    <2> PICK d \in Deployment : RollbackByDeploying(q, d)
      BY <1>3
    <2>1. request[q].digest
      BY DEF RollbackByDeploying, BInv, RequestInv
    <2>2. pinned' = pinned \cup {d} /\ rollbacks' = rollbacks \cup {d}
      BY <2>1 DEF RollbackByDeploying
    <2>3. state[d] = "none" /\ "Queued" \in States
      BY DEF RollbackByDeploying, Fresh, States, Active
    <2>4. rollbacks' \subseteq pinned'
      BY <2>2 DEF BInv, RowInv
    <2>5. RowInv' /\ Grows
      BY <2>2, <2>3, <2>4, RowMoves DEF RollbackByDeploying, SetState, Left, BInv
    <2>6. RequestInv'
      BY <1>1, RequestMoves DEF RollbackByDeploying, BInv
    <2> QED
      BY <2>5, <2>6, HandlersStay DEF BInv, RollbackByDeploying
  <1> QED
    BY <1>2, <1>3

\* Jobs are no concern of the rows.
LEMMA JobBInv ==
  ASSUME BInv, NEW j \in DOMAIN jobs, JobEnds(j) \/ JobExpires(j) PROVE BInv'
  <1> USE DEF rowVars, releaseVars, buildVars
  <1>1. UNCHANGED <<state, unsettled, pinned, rollbacks, request, handler>>
    BY DEF JobEnds, JobExpires
  <1>2. RowInv' /\ Grows
    BY <1>1, RowsStay DEF BInv
  <1> QED
    BY <1>1, <1>2, HandlersStay DEF BInv, RequestInv

\* The sweeper only takes rows out of progress.
LEMMA SweepBInv == ASSUME BInv, NEW S \in SUBSET Deployment, SweepStuck(S) PROVE BInv'
  <1> USE DEF rowVars, releaseVars, buildVars
  <1>1. /\ state' = [d \in Deployment |-> IF d \in S THEN "Failed" ELSE state[d]]
        /\ UNCHANGED <<unsettled, pinned, rollbacks, request, handler>>
    BY DEF SweepStuck, Sweep
  <1>2. RowInv'
    <2>1. state' \in [Deployment -> States]
      BY <1>1, StepNames DEF BInv, RowInv
    <2>2. OneActive'
      BY <1>1 DEF BInv, RowInv, OneActive, Active
    <2>3. QueuedHasMessage' /\ ReleasesArePinned'
      BY <1>1 DEF BInv, RowInv, QueuedHasMessage, ReleasesArePinned
    <2> QED
      BY <1>1, <2>1, <2>2, <2>3 DEF BInv, RowInv
  <1>3. Grows
    BY <1>1 DEF Grows, Left, LeftNext
  <1> QED
    BY <1>1, <1>2, <1>3, HandlersStay DEF BInv, RequestInv

LEMMA NobodyIsNoDeployment == Nobody \notin Deployment
  BY DeploymentAssumption DEF Nobody

\* The controller moves rows that were pinned when it read them, and so still are.
LEMMA ControllerBInv ==
  ASSUME BuildsInv, NEW d \in Deployment,
         ControllerPromotes(d) \/ ControllerFails(d) \/ ScalesDown(d)
  PROVE  BInv'
  <1> USE DEF rowVars, releaseVars, buildVars
  <1>1. /\ UNCHANGED <<unsettled, pinned, rollbacks, request, handler>>
        /\ rollbacks \subseteq pinned
        /\ d \in pinned
    <2>1. reading = d => d \in pinned
      BY NobodyIsNoDeployment DEF BuildsInv, ReadInv
    <2>2. state[d] = "Running" => d \in pinned
      BY DEF BuildsInv, BInv, RowInv, ReleasesArePinned
    <2> QED
      BY <2>1, <2>2 DEF ControllerPromotes, ControllerFails, ScalesDown, BuildsInv, BInv, RowInv
  <1>2. CASE UNCHANGED state
    <2>1. RowInv' /\ Grows
      BY <1>1, <1>2, RowsStay DEF BuildsInv, BInv
    <2> QED
      BY <1>1, <2>1, HandlersStay DEF BuildsInv, BInv, RequestInv
  <1>3. CASE ~UNCHANGED state
    <2>1. PICK s \in {"Running", "Failed"} : state' = [state EXCEPT ![d] = s]
      BY <1>3 DEF ControllerPromotes, ControllerFails, ScalesDown, SetState
    <2>2. s \in States \ {"none", "Queued"} /\ s \notin Active
      BY <2>1, StepNames DEF Active
    <2>3. RowInv' /\ Grows
      BY <1>1, <2>1, <2>2, RowMoves DEF BuildsInv, BInv
    <2> QED
      BY <1>1, <2>3, HandlersStay DEF BuildsInv, BInv, RequestInv
  <1> QED
    BY <1>2, <1>3

-----------------------------------------------------------------------------
LEMMA InitBInv == BuildInit => BInv
  <1> SUFFICES ASSUME BuildInit PROVE BInv
    OBVIOUS
  <1> USE DEF BuildInit, DeploymentsInit
  <1>1. \A d \in Deployment : state[d] = "none"
    OBVIOUS
  <1>2. RowInv
    BY <1>1 DEF RowInv, States, Active, OneActive, QueuedHasMessage, ReleasesArePinned
  <1>3. Sound(Free)
    BY DEF Sound, Free, HandlerRecord, Steps, Attempts, PastQueue
  <1>4. HandlerInv
    BY <1>3 DEF HandlerInv
  <1>5. RequestInv
    BY DEF RequestInv, NoRequest
  <1> QED
    BY <1>2, <1>4, <1>5 DEF BInv

\* What is not the controller's: users, threads, Jobs, the queue and the sweeper.
ThreadsNext == (UserNext /\ UNCHANGED <<handler, faults>>) \/ WorkerNext

\* Every such step keeps BInv.
LEMMA NextBInv == BInv /\ [ThreadsNext]_buildWorkerVars => BInv'
  <1> SUFFICES ASSUME BInv, [ThreadsNext]_buildWorkerVars PROVE BInv'
    OBVIOUS
  <1>1. CASE UNCHANGED buildWorkerVars
    <2> USE <1>1 DEF buildWorkerVars, rowVars, releaseVars, buildVars
    <2>1. RowInv' /\ Grows
      BY RowsStay DEF BInv
    <2> QED
      BY <2>1, HandlersStay DEF BInv, RequestInv
  <1>2. CASE UserNext /\ UNCHANGED <<handler, faults>>
    BY <1>2, DeployBInv, RollbackBInv DEF UserNext
  <1>3. CASE WorkerNext
    <2>1. CASE \E h \in Handler : HandlerStep(h)
      BY <2>1, MessageBInv, BuildBInv, UpdateBInv DEF HandlerStep
    <2>2. CASE \E h \in Handler : Crash(h) \/ CallFails(h)
      BY <2>2, FaultBInv
    <2>3. CASE \E h \in Handler, d \in Deployment : Deliver(h, d)
      BY <2>3, DeliverBInv
    <2>4. CASE \E d \in Deployment : Resend(d)
      BY <2>4, DeployBInv DEF Resend
    <2>5. CASE \E j \in DOMAIN jobs : JobEnds(j) \/ JobExpires(j)
      BY <2>5, JobBInv
    <2>6. CASE \E S \in SUBSET Deployment : SweepStuck(S)
      BY <2>6, SweepBInv
    <2> QED
      BY <1>3, <2>1, <2>2, <2>3, <2>4, <2>5, <2>6 DEF WorkerNext
  <1> QED
    BY <1>1, <1>2, <1>3 DEF ThreadsNext

\* A digest, once recorded, stays.
LEMMA PinnedGrows ==
  ASSUME BInv, ThreadsNext
  PROVE  pinned \subseteq pinned'
  <1> USE DEF rowVars, releaseVars, buildVars
  <1>1. CASE UserNext
    BY <1>1 DEF UserNext, RollbackNext, RollbackStep, Create, Cancel, KillJob, RollbackStart,
       RollbackChoose, RollbackInstantly, RollbackRefused, RollbackByDeploying
  <1>2. CASE WorkerNext
    <2>1. ASSUME NEW h \in Handler, HandlerStep(h) PROVE pinned \subseteq pinned'
      BY <2>1 DEF HandlerStep, Refuse, Examine, AdvanceRollback, Settle, CreateJob, PrepareFails,
         PodAppears, PodMissing, PollEnds, Promote, PromoteFails, Finish, RetryWithFix, MarkFailed,
         Reap, Reject, Bury
    <2> QED
      BY <1>2, <2>1
      DEF WorkerNext, Crash, CallFails, Deliver, Resend, JobEnds, JobExpires, SweepStuck, Sweep
  <1> QED
    BY <1>1, <1>2 DEF ThreadsNext

LEMMA NextBuildsInv == BuildsInv /\ [BuildsNext]_buildsVars => BuildsInv'
  <1> SUFFICES ASSUME BuildsInv, [BuildsNext]_buildsVars PROVE BuildsInv'
    OBVIOUS
  <1>1. CASE UNCHANGED buildWorkerVars
    <2>1. BInv'
      BY <1>1, NextBInv DEF BuildsInv
    <2>2. pinned' = pinned
      BY <1>1 DEF buildWorkerVars, rowVars, buildVars
    <2>3. CASE reading' = reading \/ reading' = Nobody
      BY <2>1, <2>2, <2>3 DEF BuildsInv, ReadInv
    <2>4. CASE \E d \in Deployment : ControllerReads(d)
      BY <2>1, <2>2, <2>4 DEF ControllerReads, BuildsInv, ReadInv, BInv, RowInv, ReleasesArePinned
    <2>5. CASE ThreadsNext /\ UNCHANGED reading
      BY <2>3, <2>5
    <2>6. CASE \E d \in Deployment :
                  \/ ControllerPromotes(d) \/ ControllerFails(d)
                  \/ ControllerLeaves(d) \/ ScalesDown(d)
      BY <2>3, <2>6 DEF ControllerPromotes, ControllerFails, ControllerLeaves, ScalesDown
    <2> QED
      BY <2>3, <2>4, <2>5, <2>6 DEF BuildsNext, ThreadsNext, buildsVars
  <1>2. CASE ThreadsNext /\ UNCHANGED reading
    BY <1>2, NextBInv, PinnedGrows DEF BuildsInv, ReadInv
  <1>3. ASSUME NEW d \in Deployment,
               ControllerPromotes(d) \/ ControllerFails(d) \/ ScalesDown(d)
        PROVE  BuildsInv'
    <2>1. BInv'
      BY <1>3, ControllerBInv
    <2>2. pinned' = pinned /\ reading' \in {reading, Nobody}
      BY <1>3 DEF ControllerPromotes, ControllerFails, ScalesDown, buildVars
    <2> QED
      BY <2>1, <2>2 DEF BuildsInv, ReadInv
  <1>4. CASE \E d \in Deployment : ControllerReads(d) \/ ControllerLeaves(d)
    BY <1>1, <1>4 DEF ControllerReads, ControllerLeaves
  <1> QED
    BY <1>1, <1>2, <1>3, <1>4 DEF BuildsNext, ThreadsNext, buildsVars

\* The inductive invariant of the rows, the threads, the rollback requests and the
\* row the controller has read.
THEOREM BuildInvariance == BuildsSpec => []BuildsInv
  <1>1. BuildsInit => BuildsInv
    BY InitBInv DEF BuildsInit, BuildsInv, ReadInv
  <1>2. BuildsInv /\ [BuildsNext]_buildsVars => BuildsInv'
    BY NextBuildsInv
  <1> QED
    BY <1>1, <1>2, PTL DEF BuildsSpec

\* A project has one deployment in progress at a time (migrations/0013).
THEOREM OneDeployInProgress == BuildsSpec => []OneActive
  <1>1. BuildsInv => OneActive
    BY DEF BuildsInv, BInv, RowInv
  <1> QED
    BY <1>1, BuildInvariance, PTL

\* A deploy that waits to be built has a message (main.py, process_message).
THEOREM WaitingHasMessage == BuildsSpec => []QueuedHasMessage
  <1>1. BuildsInv => QueuedHasMessage
    BY DEF BuildsInv, BInv, RowInv
  <1> QED
    BY <1>1, BuildInvariance, PTL

\* What the controller is told to deploy is pinned to a digest (comment C4).
THEOREM DeployedIsPinned == BuildsSpec => []ReleasesArePinned
  <1>1. BuildsInv => ReleasesArePinned
    BY DEF BuildsInv, BInv, RowInv
  <1> QED
    BY <1>1, BuildInvariance, PTL

-----------------------------------------------------------------------------
(* The newest of a set of deployments, and the release that serves.        *)

\* A set of deployments that is not empty has a newest: a smallest set without
\* one would keep it when it loses a member.
LEMMA NewestIsMember ==
  ASSUME NEW S \in SUBSET Deployment, S # {}
  PROVE  NewestOf(S) \in S /\ \A b \in S : b <= NewestOf(S)
  <1> DEFINE HasNewest(U) == \E d \in U : \A b \in U : b <= d
             T == {U \in SUBSET Deployment : U # {} /\ ~HasNewest(U)}
  <1>1. IsWellFoundedOn(StrictSubsetOrdering(Deployment), SUBSET Deployment)
    BY DeploymentAssumption, FS_StrictSubsetOrderingWellFounded, FS_FiniteSubsetsOfFinite
  <1>2. ASSUME T # {} PROVE FALSE
    <2>1. PICK U \in T : \A V \in T : <<V, U>> \notin StrictSubsetOrdering(Deployment)
      <3> HIDE DEF HasNewest
      <3>1. T \subseteq SUBSET Deployment
        OBVIOUS
      <3> HIDE DEF T
      <3> QED
        BY <1>1, <1>2, <3>1, WFMin
    <2>2. PICK x \in U : TRUE
      OBVIOUS
    <2> DEFINE V == U \ {x}
    <2>3. V \in SUBSET Deployment /\ <<V, U>> \in StrictSubsetOrdering(Deployment)
      BY <2>2 DEF StrictSubsetOrdering
    <2>4. V \notin T
      BY <2>1, <2>3
    <2>5. U \subseteq Nat /\ x \in Nat
      BY <2>2, DeploymentAssumption
    <2>6. CASE V = {}
      BY <2>2, <2>5, <2>6
    <2>7. CASE HasNewest(V)
      <3>1. PICK m \in V : \A b \in V : b <= m
        BY <2>7
      <3>2. m \in Nat /\ m \in U
        BY <2>5, <3>1
      <3>3. CASE x <= m
        BY <3>1, <3>2, <3>3
      <3>4. CASE ~(x <= m)
        BY <2>2, <2>5, <3>1, <3>2, <3>4
      <3> QED
        BY <3>3, <3>4
    <2> QED
      BY <2>3, <2>4, <2>6, <2>7
  <1>3. HasNewest(S)
    BY <1>2
  <1> QED
    BY <1>3 DEF NewestOf

\* The release chosen as the one that serves is up, if there is one.
LEMMA ServingIsUp ==
  ASSUME NEW d
  PROVE  \/ ServingFor(d) = Nobody
         \/ /\ ServingFor(d) \in Deployment
            /\ state[ServingFor(d)] = "Running"
            /\ replicas[ServingFor(d)] > 0
  <1> DEFINE up == {b \in Deployment : state[b] = "Running" /\ replicas[b] > 0}
  <1>1. ServingFor(d) = IF d \in up THEN d ELSE IF up = {} THEN Nobody ELSE NewestOf(up)
    BY DEF ServingFor
  <1>2. up # {} => NewestOf(up) \in up
    BY NewestIsMember
  <1> QED
    BY <1>1, <1>2

-----------------------------------------------------------------------------
(* Types.                                                                  *)

\* update_state keeps the types of the two columns it writes.
LEMMA SetStateTypes ==
  ASSUME state \in [Deployment -> States],
         NEW d \in Deployment, NEW s \in States,
         SetState(d, s)
  PROVE  /\ state' \in [Deployment -> States]
  BY DEF SetState

\* A thread that has a message goes on with it, or is free.
ThreadTypes ==
    /\ handler \in [Handler -> HandlerRecord]
    /\ \A h \in Handler : At(h, "idle") <=> Msg(h) = Nobody

LEMMA ThreadTypesKept ==
  ASSUME ThreadTypes, NEW h \in Handler, NEW r \in HandlerRecord,
         handler' = [handler EXCEPT ![h] = r],
         r.pc = "idle" <=> r.msg = Nobody
  PROVE  ThreadTypes'
  <1>1. handler' \in [Handler -> HandlerRecord]
    BY DEF ThreadTypes
  <1>2. \A g \in Handler : handler'[g] = IF g = h THEN r ELSE handler[g]
    BY DEF ThreadTypes
  <1> QED
    BY <1>1, <1>2 DEF ThreadTypes, At, Msg

LEMMA GoesTypes ==
  ASSUME ThreadTypes, NEW h \in Handler, ~At(h, "idle"), NEW pc \in Steps \ {"idle"},
         Goes(h, pc)
  PROVE  ThreadTypes'
  <1> DEFINE r == [handler[h] EXCEPT !.pc = pc]
  <1>1. handler[h] \in HandlerRecord /\ handler[h].msg # Nobody
    BY DEF ThreadTypes, At, Msg
  <1>2. r \in HandlerRecord /\ r.pc = pc /\ r.msg = handler[h].msg
    BY <1>1 DEF HandlerRecord
  <1>3. handler' = [handler EXCEPT ![h] = r]
    BY DEF Goes
  <1> HIDE DEF r
  <1> QED
    BY <1>1, <1>2, <1>3, ThreadTypesKept

LEMMA FreesTypes ==
  ASSUME ThreadTypes, NEW h \in Handler, Frees(h)
  PROVE  ThreadTypes'
  <1>1. Free \in HandlerRecord /\ Free.pc = "idle" /\ Free.msg = Nobody
    BY DEF Free, HandlerRecord, Steps, Attempts
  <1> QED
    BY <1>1, ThreadTypesKept DEF Frees

\* One entry of the Jobs changes.
LEMMA JobTypes ==
  ASSUME jobs \in [Deployment \X Attempts -> {"absent", "running", "succeeded", "failed"}],
         NEW j \in Deployment \X Attempts,
         NEW v \in {"absent", "running", "succeeded", "failed"},
         jobs' = [jobs EXCEPT ![j] = v]
  PROVE  jobs' \in [Deployment \X Attempts -> {"absent", "running", "succeeded", "failed"}]
  OBVIOUS

\* BuildTypeOK in parts.
LEMMA TypesSplit ==
  BuildTypeOK <=> DeploymentsTypeOK /\ ThreadTypes /\ faults \in 0..MaxFaults
  BY DEF BuildTypeOK, ThreadTypes, HandlerRecord

\* A step of a thread.
LEMMA ThreadKeepsTypes ==
  ASSUME BuildTypeOK, NEW h \in Handler, HandlerStep(h) \/ Crash(h) \/ CallFails(h)
  PROVE  BuildTypeOK'
  <1> USE DEF rowVars, releaseVars, buildVars
  <1>a. DeploymentsTypeOK /\ ThreadTypes /\ faults \in 0..MaxFaults
    BY TypesSplit
  <1>b. ~At(h, "idle")
    BY DEF HandlerStep, Refuse, Examine, AdvanceRollback, Settle, CreateJob, PrepareFails,
           PodAppears, PodMissing, PollEnds, Promote, PromoteFails, Finish, RetryWithFix,
           MarkFailed, Reap, Reject, Bury, Crash, CallFails, At
  <1>c. Msg(h) \in Deployment /\ handler[h] \in HandlerRecord /\ Job(h) \in Deployment \X Attempts
    BY <1>a, <1>b DEF ThreadTypes, HandlerRecord, Msg, Job
  <1>1. ThreadTypes'
    <2>1. CASE RetryWithFix(h)
      <3> DEFINE r == [handler[h] EXCEPT !.attempt = "fix", !.pc = "await"]
      <3>1. r \in HandlerRecord /\ r.pc = "await" /\ r.msg = Msg(h)
        BY <1>c DEF HandlerRecord, Steps, Attempts, Msg
      <3>2. handler' = [handler EXCEPT ![h] = r]
        BY <2>1 DEF RetryWithFix
      <3>3. Msg(h) # Nobody
        BY <1>c, NobodyIsNoDeployment
      <3> HIDE DEF r
      <3> QED
        BY <1>a, <3>1, <3>2, <3>3, ThreadTypesKept
    <2>2. CASE ~RetryWithFix(h)
      <3>1. Frees(h) \/ \E pc \in Steps \ {"idle"} : Goes(h, pc)
        BY <2>2
        DEF HandlerStep, Refuse, Examine, AdvanceRollback, Settle, CreateJob, PrepareFails,
            PodAppears, PodMissing, PollEnds, Promote, PromoteFails, Finish,
            MarkFailed, Reap, Reject, Bury, Crash, CallFails, Steps
      <3> QED
        BY <1>a, <1>b, <3>1, GoesTypes, FreesTypes
    <2> QED
      BY <2>1, <2>2
  <1>2. faults' \in 0..MaxFaults
    BY <1>a, BuildAssumption
    DEF HandlerStep, Refuse, Examine, AdvanceRollback, Settle, CreateJob, PrepareFails,
        PodAppears, PodMissing, PollEnds, Promote, PromoteFails, Finish, RetryWithFix,
        MarkFailed, Reap, Reject, Bury, Crash, CallFails, Fault
  <1>3. DeploymentsTypeOK'
    <2>1. state' \in [Deployment -> States]
      <3>1. \/ UNCHANGED state
            \/ \E s \in States : SetState(Msg(h), s)
        BY DEF HandlerStep, Refuse, Examine, AdvanceRollback, Settle, CreateJob, PrepareFails,
               PodAppears, PodMissing, PollEnds, Promote, PromoteFails, Finish, RetryWithFix,
               MarkFailed, Reap, Reject, Bury, Crash, CallFails, States, Active
      <3> QED
        BY <1>a, <1>c, <3>1, SetStateTypes DEF DeploymentsTypeOK
    <2>2. jobs' \in [Deployment \X Attempts -> {"absent", "running", "succeeded", "failed"}]
      <3>1. CASE RetryWithFix(h)
        BY <1>a, <1>c, <3>1 DEF RetryWithFix, DeploymentsTypeOK, Attempts
      <3>2. CASE CreateJob(h) \/ Reap(h) \/ CallFails(h)
        BY <1>a, <1>c, <3>2 DEF CreateJob, Reap, CallFails, Deleted, DeploymentsTypeOK
      <3>3. CASE UNCHANGED jobs
        BY <1>a, <3>3 DEF DeploymentsTypeOK
      <3> QED
        BY <3>1, <3>2, <3>3
        DEF HandlerStep, Refuse, Examine, AdvanceRollback, Settle, PrepareFails,
            PodAppears, PodMissing, PollEnds, Promote, PromoteFails, Finish,
            MarkFailed, Reject, Bury, Crash
    <2>3. pinned' \subseteq Deployment /\ unsettled' \subseteq Deployment
      BY <1>a, <1>c
      DEF DeploymentsTypeOK, HandlerStep, Refuse, Examine, AdvanceRollback, Settle, CreateJob,
          PrepareFails, PodAppears, PodMissing, PollEnds, Promote, PromoteFails, Finish,
          RetryWithFix, MarkFailed, Reap, Reject, Bury, Crash, CallFails, Settles
    <2>4. UNCHANGED <<image, replicas, grace, live, rollbacks, killing, request>>
      BY DEF HandlerStep, Refuse, Examine, AdvanceRollback, Settle, CreateJob,
          PrepareFails, PodAppears, PodMissing, PollEnds, Promote, PromoteFails, Finish,
          RetryWithFix, MarkFailed, Reap, Reject, Bury, Crash, CallFails
    <2> QED
      BY <1>a, <2>1, <2>2, <2>3, <2>4 DEF DeploymentsTypeOK
  <1> QED
    BY <1>1, <1>2, <1>3 DEF BuildTypeOK, ThreadTypes, HandlerRecord

\* Deliveries, Jobs and the sweeper.
LEMMA QueueKeepsTypes ==
  ASSUME BuildTypeOK,
         \/ \E h \in Handler, d \in Deployment : Deliver(h, d)
         \/ \E d \in Deployment : Resend(d)
         \/ \E j \in DOMAIN jobs : JobEnds(j) \/ JobExpires(j)
         \/ \E S \in SUBSET Deployment : SweepStuck(S)
  PROVE  BuildTypeOK'
  <1> USE BuildAssumption DEF rowVars, releaseVars, buildVars
  <1>1. CASE \E h \in Handler, d \in Deployment : Deliver(h, d)
    <2> PICK h \in Handler, d \in Deployment : Deliver(h, d)
      BY <1>1
    <2> DEFINE r == [Free EXCEPT !.pc = "fetched", !.msg = d]
    <2>1. r \in HandlerRecord /\ r.pc = "fetched" /\ r.msg = d
      BY DEF Free, HandlerRecord, Steps, Attempts
    <2>2. handler' = [handler EXCEPT ![h] = r]
      BY DEF Deliver
    <2> HIDE DEF r
    <2>3. ThreadTypes'
      BY <2>1, <2>2, TypesSplit, ThreadTypesKept, NobodyIsNoDeployment
    <2>4. faults' \in 0..MaxFaults
      <3>1. faults \in 0..MaxFaults
        BY DEF BuildTypeOK
      <3>2. faults' = faults \/ (faults < MaxFaults /\ faults' = faults + 1)
        BY DEF Deliver, Fault
      <3> QED
        BY <3>1, <3>2
    <2> QED
      BY <2>3, <2>4 DEF Deliver, BuildTypeOK, DeploymentsTypeOK, ThreadTypes, HandlerRecord
  <1>2. CASE \E d \in Deployment : Resend(d)
    BY <1>2 DEF Resend, Fault, BuildTypeOK, DeploymentsTypeOK, At, Msg
  <1>3. CASE \E j \in DOMAIN jobs : JobEnds(j) \/ JobExpires(j)
    <2> PICK j \in DOMAIN jobs : JobEnds(j) \/ JobExpires(j)
      BY <1>3
    <2>1. j \in Deployment \X Attempts
      BY DEF BuildTypeOK, DeploymentsTypeOK
    <2>2. jobs' \in [Deployment \X Attempts -> {"absent", "running", "succeeded", "failed"}]
      <3>1. \E v \in {"absent", "succeeded", "failed"} : jobs' = [jobs EXCEPT ![j] = v]
        BY DEF JobEnds, JobExpires
      <3> QED
        BY <2>1, <3>1, JobTypes DEF BuildTypeOK, DeploymentsTypeOK
    <2> QED
      BY <2>2 DEF JobEnds, JobExpires, BuildTypeOK, DeploymentsTypeOK, At, Msg
  <1>4. CASE \E S \in SUBSET Deployment : SweepStuck(S)
    BY <1>4 DEF SweepStuck, Sweep, BuildTypeOK, DeploymentsTypeOK, States, At, Msg
  <1> QED
    BY <1>1, <1>2, <1>3, <1>4

\* Users: deploys, cancels and rollbacks.
LEMMA UsersKeepTypes ==
  ASSUME DeploymentsTypeOK, TargetInv,
         \/ \E d \in Deployment : Create(d) \/ Cancel(d) \/ KillJob(d)
         \/ \E q \in Request : RollbackStep(q) \/ RollbackInstantly(q)
  PROVE  DeploymentsTypeOK' /\ TargetInv'
  <1> USE DEF rowVars, releaseVars, buildVars
  <1>1. CASE \E d \in Deployment : Create(d) \/ Cancel(d) \/ KillJob(d)
    <2> PICK d \in Deployment : Create(d) \/ Cancel(d) \/ KillJob(d)
      BY <1>1
    <2>1. CASE Create(d) \/ Cancel(d)
      <3>1. \E s \in States : SetState(d, s)
        BY <2>1 DEF Create, Cancel, States, Active
      <3>2. /\ state' \in [Deployment -> States]
        BY <3>1, SetStateTypes DEF DeploymentsTypeOK
      <3> QED
        BY <2>1, <3>2 DEF Create, Cancel, DeploymentsTypeOK, TargetInv
    <2>2. CASE KillJob(d)
      <3>1. <<d, "first">> \in Deployment \X Attempts
        BY DEF Attempts
      <3>2. jobs' \in [Deployment \X Attempts -> {"absent", "running", "succeeded", "failed"}]
        BY <2>2, <3>1, JobTypes DEF KillJob, DeploymentsTypeOK
      <3> QED
        BY <2>2, <3>2 DEF KillJob, DeploymentsTypeOK, TargetInv
    <2> QED
      BY <2>1, <2>2
  <1>2. CASE \E q \in Request : RollbackStep(q) \/ RollbackInstantly(q)
    <2> PICK q \in Request : RollbackStep(q) \/ RollbackInstantly(q)
      BY <1>2
    <2> DEFINE R == [pc : {"idle", "started", "chosen"},
                     liveRead : Deployment \cup {Nobody}, from : Deployment \cup {Nobody},
                     to : Deployment \cup {Nobody}, instant : BOOLEAN, digest : BOOLEAN]
    <2>1. \E r \in R : /\ request' = [request EXCEPT ![q] = r]
                       /\ r.pc = "chosen" => r.to \in Deployment
      <3>1. NoRequest \in R /\ NoRequest.pc = "idle"
        BY DEF NoRequest
      <3>2. CASE RollbackStart(q)
        <4> DEFINE r == [NoRequest EXCEPT !.pc = "started", !.liveRead = live]
        <4>1. r \in R /\ r.pc = "started"
          BY <3>2 DEF NoRequest, DeploymentsTypeOK
        <4> QED
          BY <3>2, <4>1 DEF RollbackStart
      <3>3. CASE RollbackChoose(q) /\ request' # [request EXCEPT ![q] = NoRequest]
        <4> DEFINE from == ServingFor(request[q].liveRead)
        <4>1. PICK to \in TargetsFor(from) :
                 request' = [request EXCEPT ![q] =
                    [pc |-> "chosen", liveRead |-> request[q].liveRead, from |-> from, to |-> to,
                     instant |-> replicas[to] > 0, digest |-> to \in pinned]]
          BY <3>3 DEF RollbackChoose
        <4>2. to \in Deployment
          BY DEF TargetsFor
        <4>3. from \in Deployment \cup {Nobody}
          BY ServingIsUp
        <4>4. request[q].liveRead \in Deployment \cup {Nobody}
          BY DEF DeploymentsTypeOK
        <4> HIDE DEF from
        <4> DEFINE r == [pc |-> "chosen", liveRead |-> request[q].liveRead, from |-> from,
                         to |-> to, instant |-> replicas[to] > 0, digest |-> to \in pinned]
        <4>5. (replicas[to] > 0) \in BOOLEAN /\ (to \in pinned) \in BOOLEAN
          OBVIOUS
        <4>6. r \in R /\ r.pc = "chosen" /\ r.to = to
          BY <4>2, <4>3, <4>4, <4>5
        <4> QED
          BY <4>1, <4>2, <4>6
      <3>4. CASE request' = [request EXCEPT ![q] = NoRequest]
        BY <3>1, <3>4
      <3> QED
        BY <3>2, <3>3, <3>4
        DEF RollbackStep, RollbackRefused, RollbackByDeploying, RollbackInstantly
    <2>2. request' \in [Request -> R] /\ TargetInv'
      <3>1. request \in [Request -> R]
        BY DEF DeploymentsTypeOK
      <3> HIDE DEF R
      <3> QED
        BY <2>1, <3>1 DEF TargetInv
    <2>3. UNCHANGED <<state, image, replicas, grace, live, buildVars>> =>
              DeploymentsTypeOK'
      BY <2>2 DEF DeploymentsTypeOK
    <2>4. CASE RollbackStart(q) \/ RollbackChoose(q) \/ RollbackRefused(q)
      BY <2>2, <2>3, <2>4 DEF RollbackStart, RollbackChoose, RollbackRefused
    <2>5. CASE RollbackInstantly(q)
      <3>1. live' \in Deployment /\ grace' \in [Deployment -> {"none", "running", "over"}]
        BY <2>5 DEF RollbackInstantly, TargetInv, DeploymentsTypeOK
      <3> QED
        BY <2>2, <2>5, <3>1 DEF RollbackInstantly, DeploymentsTypeOK
    <2>6. CASE \E d \in Deployment : RollbackByDeploying(q, d)
      <3> PICK d \in Deployment : RollbackByDeploying(q, d)
        BY <2>6
      <3>1. /\ state' \in [Deployment -> States]
        BY SetStateTypes DEF RollbackByDeploying, DeploymentsTypeOK, States, Active
      <3>2. image' \in [Deployment -> Deployment]
        BY DEF RollbackByDeploying, TargetInv, DeploymentsTypeOK
      <3> QED
        BY <2>2, <3>1, <3>2 DEF RollbackByDeploying, DeploymentsTypeOK
    <2> QED
      BY <2>2, <2>4, <2>5, <2>6 DEF RollbackStep
  <1> QED
    BY <1>1, <1>2

\* The controller as the threads see it.
LEMMA ControllerKeepsTypes ==
  ASSUME DeploymentsTypeOK, NEW d \in Deployment,
         ControllerPromotes(d) \/ ControllerFails(d) \/ ScalesDown(d)
  PROVE  DeploymentsTypeOK'
  <1>1. /\ state' \in [Deployment -> States]
    <2>1. \/ UNCHANGED state
          \/ \E s \in States : SetState(d, s)
      BY DEF ControllerPromotes, ControllerFails, ScalesDown, States
    <2> QED
      BY <2>1, SetStateTypes DEF DeploymentsTypeOK
  <1> QED
    BY <1>1 DEF ControllerPromotes, ControllerFails, ScalesDown, DeploymentsTypeOK, releaseVars,
       buildVars

-----------------------------------------------------------------------------
(* What a step of a thread does to its message, its row and its Job.       *)

pcOf(h)     == handler[h].pc
pcAfter(h)  == handler'[h].pc
msgAfter(h) == handler'[h].msg
jobAfter(h) == <<handler'[h].msg, handler'[h].attempt>>

\* The thread stays with its message or is free; it starts to build only what
\* no rollback asks for, and moves no row but its own.
ThreadStep(h) ==
    /\ ~At(h, "idle")
    /\ \A g \in Handler \ {h} : handler'[g] = handler[g]
    /\ msgAfter(h) \in {Msg(h), Nobody}
    /\ pcAfter(h) \in BuildSteps =>
          /\ msgAfter(h) = Msg(h)
          /\ pcOf(h) \in BuildSteps \/ (At(h, "fetched") /\ Msg(h) \notin rollbacks)
    /\ pcAfter(h) \in BeforeImage =>
          /\ state'[Msg(h)] \in {state[Msg(h)], "Building"}
          /\ pcOf(h) \in BeforeImage \/ state[Msg(h)] \notin {"Deploying", "Running"}
    /\ \A d \in Deployment : state'[d] # state[d] =>
          /\ d = Msg(h)
          /\ state'[d] \notin {"none", "Queued"}
          /\ state'[d] = "Building" => pcOf(h) \in BeforeImage
    /\ unsettled' \subseteq unsettled
    /\ rollbacks' = rollbacks

\* Only a thread that builds starts a Job, and only its own; a Job that runs
\* after the step is one it was not at work on or is at work on now.
ThreadJobs(h) ==
    /\ \A j \in Deployment \X Attempts :
          jobs'[j] \in {jobs[j], "absent"} \/ (j[1] = Msg(h) /\ pcOf(h) \in BuildSteps)
    /\ faults' = 0 => \A j \in Deployment \X Attempts : jobs'[j] = "running" =>
          \/ jobs[j] = "running" /\ ~(pcOf(h) \in JobSteps /\ Job(h) = j)
          \/ pcAfter(h) \in JobSteps /\ jobAfter(h) = j

LEMMA GoesEffect ==
  ASSUME BuildTypeOK, NEW h \in Handler, NEW pc, Goes(h, pc)
  PROVE  /\ pcAfter(h) = pc /\ msgAfter(h) = Msg(h) /\ jobAfter(h) = Job(h)
         /\ \A g \in Handler \ {h} : handler'[g] = handler[g]
  BY DEF Goes, BuildTypeOK, pcAfter, msgAfter, jobAfter, Msg, Job

LEMMA FreesEffect ==
  ASSUME BuildTypeOK, NEW h \in Handler, Frees(h)
  PROVE  /\ pcAfter(h) = "idle" /\ msgAfter(h) = Nobody
         /\ \A g \in Handler \ {h} : handler'[g] = handler[g]
  BY DEF Frees, Free, BuildTypeOK, pcAfter, msgAfter

\* A busy thread has a deployment as its message, and its row is in the table.
LEMMA BusyTypes ==
  ASSUME BuildTypeOK, NEW h \in Handler, ~At(h, "idle")
  PROVE  Msg(h) \in Deployment /\ Job(h) \in Deployment \X Attempts
  BY DEF BuildTypeOK, At, Msg, Job

\* A row that takes a state in the hands of a thread.
LEMMA RowEffect ==
  ASSUME BuildTypeOK, NEW h \in Handler, ~At(h, "idle"), NEW s,
         SetState(Msg(h), s)
  PROVE  /\ state'[Msg(h)] = s
         /\ \A d \in Deployment : state'[d] # state[d] => d = Msg(h)
  BY BusyTypes DEF SetState, BuildTypeOK, DeploymentsTypeOK

LEMMA ThreadEffect ==
  ASSUME BuildTypeOK, NEW h \in Handler, HandlerStep(h) \/ Crash(h) \/ CallFails(h)
  PROVE  ThreadStep(h)
  <1> USE DEF rowVars, releaseVars, buildVars, BuildSteps, BeforeImage, ThreadStep
  <1>1. CASE Refuse(h) \/ Settle(h) \/ Crash(h) \/ Bury(h)
    <2>1. Frees(h) /\ ~At(h, "idle") /\ unsettled' \subseteq unsettled /\ UNCHANGED <<state, rollbacks>>
      BY <1>1 DEF Refuse, Settle, Crash, Bury, Settles, At
    <2> QED
      BY <2>1, FreesEffect
  <1>2. CASE Examine(h)
    <2>1. ~At(h, "idle") /\ UNCHANGED rowVars /\ At(h, "fetched")
      BY <1>2 DEF Examine, At
    <2>2. \/ Goes(h, "settle")
          \/ Goes(h, "rollback")
          \/ /\ Goes(h, "prepare")
             /\ Msg(h) \notin rollbacks
             /\ state[Msg(h)] \notin {"Deploying", "Running"}
      BY <1>2 DEF Examine
    <2> QED
      BY <2>1, <2>2, GoesEffect
  <1>3. CASE AdvanceRollback(h)
    <2>1. ~At(h, "idle") /\ UNCHANGED <<unsettled, rollbacks>>
      BY <1>3 DEF AdvanceRollback, At
    <2>2. \/ SetState(Msg(h), "Deploying") /\ Goes(h, "settle")
          \/ UNCHANGED state /\ Frees(h)
      BY <1>3 DEF AdvanceRollback
    <2> QED
      BY <2>1, <2>2, GoesEffect, FreesEffect, RowEffect
  <1>4. CASE \/ CreateJob(h) \/ PrepareFails(h) \/ PodMissing(h) \/ PollEnds(h) \/ Promote(h)
             \/ PromoteFails(h) \/ Reap(h)
    <2>1. ~At(h, "idle") /\ pcOf(h) \in BuildSteps /\ UNCHANGED <<state, unsettled, rollbacks>>
      BY <1>4 DEF CreateJob, PrepareFails, PodMissing, PollEnds, Promote, PromoteFails, Reap,
                  At, pcOf
    <2>2. \/ \E pc \in {"failed", "ack", "reject"} : Goes(h, pc)
          \/ pcOf(h) \in BeforeImage /\ \E pc \in BeforeImage : Goes(h, pc)
      BY <1>4 DEF CreateJob, PrepareFails, PodMissing, PollEnds, Promote, PromoteFails, Reap,
                  At, pcOf
    <2> QED
      BY <2>1, <2>2, GoesEffect
  <1>5. CASE PodAppears(h) \/ Finish(h) \/ MarkFailed(h)
    <2>1. /\ ~At(h, "idle") /\ pcOf(h) \in BuildSteps /\ UNCHANGED <<unsettled, rollbacks>>
          /\ \/ UNCHANGED state /\ Goes(h, "failed")
             \/ /\ pcOf(h) \in BeforeImage
                /\ SetState(Msg(h), "Building") /\ Goes(h, "poll")
             \/ \E s \in {"Deploying", "Failed"} :
                  SetState(Msg(h), s) /\ Goes(h, "reap")
      BY <1>5 DEF PodAppears, Finish, MarkFailed, At, pcOf
    <2> QED
      BY <2>1, GoesEffect, RowEffect
  <1>6. CASE RetryWithFix(h)
    <2>1. /\ ~At(h, "idle") /\ pcOf(h) \in BeforeImage /\ UNCHANGED <<state, unsettled, rollbacks>>
          /\ handler' = [handler EXCEPT ![h].attempt = "fix", ![h].pc = "await"]
      BY <1>6 DEF RetryWithFix, At, pcOf
    <2>2. /\ pcAfter(h) = "await" /\ msgAfter(h) = Msg(h)
          /\ \A g \in Handler \ {h} : handler'[g] = handler[g]
      BY <2>1 DEF BuildTypeOK, pcAfter, msgAfter, Msg
    <2> QED
      BY <2>1, <2>2
  <1>7. CASE Reject(h)
    <2>1. /\ ~At(h, "idle") /\ UNCHANGED <<unsettled, rollbacks>>
          /\ SetState(Msg(h), "Failed") /\ Goes(h, "bury")
      BY <1>7 DEF Reject, At
    <2> QED
      BY <2>1, GoesEffect, RowEffect
  <1>8. CASE CallFails(h)
    <2>1. ~At(h, "idle") /\ UNCHANGED <<state, unsettled, rollbacks>>
      BY <1>8 DEF CallFails, At
    <2>2. \/ /\ pcOf(h) \in BeforeImage
             /\ Goes(h, "failed") \/ Goes(h, "unbuilt")
          \/ Goes(h, "reject")
      BY <1>8 DEF CallFails, At, pcOf
    <2> QED
      BY <2>1, <2>2, GoesEffect
  <1> QED
    BY <1>1, <1>2, <1>3, <1>4, <1>5, <1>6, <1>7, <1>8 DEF HandlerStep

LEMMA ThreadJobEffect ==
  ASSUME BuildTypeOK, NEW h \in Handler, HandlerStep(h) \/ Crash(h) \/ CallFails(h)
  PROVE  ThreadJobs(h)
  <1> USE DEF rowVars, releaseVars, buildVars, BuildSteps, JobSteps, ThreadJobs
  <1>1. CASE UNCHANGED jobs /\ pcOf(h) \notin JobSteps
    BY <1>1
  <1>2. CASE /\ UNCHANGED jobs
             /\ \/ faults' # 0
                \/ \E pc \in JobSteps : Goes(h, pc)
    BY <1>2, GoesEffect
  <1>3. CASE CreateJob(h)
    <2>1. /\ At(h, "prepare") /\ Goes(h, "await")
          /\ jobs' = [jobs EXCEPT ![Job(h)] = IF @ = "absent" THEN "running" ELSE @]
      BY <1>3 DEF CreateJob
    <2>2. Job(h) \in Deployment \X Attempts /\ Job(h)[1] = Msg(h)
      BY <2>1, BusyTypes DEF At, Job, Msg
    <2>3. \A j \in Deployment \X Attempts : j # Job(h) => jobs'[j] = jobs[j]
      BY <2>1, <2>2 DEF BuildTypeOK, DeploymentsTypeOK
    <2> QED
      BY <2>1, <2>2, <2>3, GoesEffect DEF At, pcOf
  <1>4. CASE RetryWithFix(h)
    <2>1. /\ At(h, "unbuilt") /\ handler[h].attempt = "first"
          /\ handler' = [handler EXCEPT ![h].attempt = "fix", ![h].pc = "await"]
          /\ jobs' = [jobs EXCEPT ![<<Msg(h), "first">>] = "absent",
                            ![<<Msg(h), "fix">>] = IF @ = "absent" THEN "running" ELSE @]
      BY <1>4 DEF RetryWithFix
    <2>2. /\ <<Msg(h), "first">> \in Deployment \X Attempts
          /\ <<Msg(h), "fix">> \in Deployment \X Attempts
      BY <2>1, BusyTypes DEF At, Attempts
    <2>3. \A j \in Deployment \X Attempts :
              /\ j \notin {<<Msg(h), "first">>, <<Msg(h), "fix">>} => jobs'[j] = jobs[j]
              /\ j = <<Msg(h), "first">> => jobs'[j] = "absent"
      <3> DEFINE a == <<Msg(h), "first">>
                 b == <<Msg(h), "fix">>
      <3>1. a # b /\ {a, b} \subseteq Deployment \X Attempts
        BY <2>2
      <3>2. jobs' = [jobs EXCEPT ![a] = "absent", ![b] = IF @ = "absent" THEN "running" ELSE @]
        BY <2>1
      <3>3. jobs \in [Deployment \X Attempts -> {"absent", "running", "succeeded", "failed"}]
        BY DEF BuildTypeOK, DeploymentsTypeOK
      <3> HIDE DEF a, b
      <3>4. \A j \in Deployment \X Attempts :
                /\ j \notin {a, b} => jobs'[j] = jobs[j]
                /\ j = a => jobs'[j] = "absent"
        BY <3>1, <3>2, <3>3
      <3> QED
        BY <3>4 DEF a, b
    <2>4. jobAfter(h) = <<Msg(h), "fix">> /\ pcAfter(h) = "await" /\ pcOf(h) = "unbuilt"
      BY <2>1 DEF BuildTypeOK, pcAfter, jobAfter, Msg, pcOf, At
    <2>5. Job(h) = <<Msg(h), "first">>
      BY <2>1 DEF Job, Msg
    <2> QED
      BY <2>3, <2>4, <2>5
  <1>5. CASE Reap(h)
    <2>1. Job(h) \in Deployment \X Attempts
      BY <1>5, BusyTypes DEF Reap, At
    <2>2. CASE jobs' = Deleted(Job(h))
      <3>1. \A j \in Deployment \X Attempts :
               jobs'[j] = IF j = Job(h) THEN "absent" ELSE jobs[j]
        BY <2>1, <2>2 DEF Deleted, BuildTypeOK, DeploymentsTypeOK
      <3> QED
        BY <3>1
    <2>3. CASE UNCHANGED jobs /\ Fault
      <3>1. faults' # 0
        BY <2>3 DEF Fault, BuildTypeOK
      <3> QED
        BY <1>2, <2>3, <3>1
    <2> QED
      BY <1>5, <2>2, <2>3 DEF Reap
  <1>6. CASE CallFails(h)
    <2>1. faults' # 0
      BY <1>6 DEF CallFails, Fault, BuildTypeOK
    <2>2. \A j \in Deployment \X Attempts : jobs'[j] \in {jobs[j], "absent"}
      BY <1>6 DEF CallFails, Deleted, BuildTypeOK, DeploymentsTypeOK
    <2> QED
      BY <2>1, <2>2
  <1>7. CASE Crash(h)
    <2>1. faults' # 0
      BY <1>7 DEF Crash, Fault, BuildTypeOK
    <2> QED
      BY <1>2, <1>7, <2>1 DEF Crash
  <1>8. CASE \/ Refuse(h) \/ Examine(h) \/ AdvanceRollback(h) \/ Settle(h)
             \/ PrepareFails(h) \/ Reject(h) \/ Bury(h)
    BY <1>1, <1>8 DEF Refuse, Examine, AdvanceRollback, Settle, PrepareFails, Reject, Bury, At, pcOf
  <1>9. CASE \/ PodAppears(h) \/ PodMissing(h) \/ PollEnds(h) \/ Promote(h) \/ PromoteFails(h)
             \/ Finish(h) \/ MarkFailed(h)
    <2>1. UNCHANGED jobs /\ \E pc \in JobSteps : Goes(h, pc)
      BY <1>9 DEF PodAppears, PodMissing, PollEnds, Promote, PromoteFails, Finish, MarkFailed
    <2> QED
      BY <1>2, <2>1
  <1> QED
    BY <1>3, <1>4, <1>5, <1>6, <1>7, <1>8, <1>9 DEF HandlerStep

-----------------------------------------------------------------------------
(* WorkInv is inductive.                                                   *)

\* A step of the rows' surroundings: no thread moves, no row leaves the table,
\* a deployment gets a message or becomes a rollback only when it is created, and
\* no Job starts.
OutsideStep ==
    /\ UNCHANGED handler
    /\ \A d \in Deployment : state'[d] = "none" =>
          /\ state[d] = "none"
          /\ d \in unsettled' \cup rollbacks' => d \in unsettled \cup rollbacks
    /\ \A d \in rollbacks' : d \in rollbacks \/ state[d] = "none"
    /\ \A j \in Deployment \X Attempts :
          /\ jobs[j] = "absent" => jobs'[j] = "absent"
          /\ jobs'[j] = "running" => jobs[j] = "running"

LEMMA OutsideKeepsRollbackInv ==
  ASSUME UnbornInv, NoRollbackIsBuilt, BuildTypeOK, BuildTypeOK', OutsideStep
  PROVE  UnbornInv' /\ NoRollbackIsBuilt'
  <1>1. \A h \in Handler : Msg(h)' = Msg(h) /\ handler'[h].pc = handler[h].pc
    BY DEF OutsideStep, Msg
  <1>2. \A d \in Deployment, a \in Attempts : jobs[<<d, a>>] = "absent" => jobs'[<<d, a>>] = "absent"
    BY DEF OutsideStep
  <1>3. rollbacks' \subseteq Deployment /\ rollbacks \subseteq Deployment
    BY DEF BuildTypeOK, DeploymentsTypeOK
  <1>4. UnbornInv'
    BY <1>1, <1>2 DEF UnbornInv, OutsideStep
  <1>5. RollbacksNeverBuild'
    BY <1>2, <1>3 DEF NoRollbackIsBuilt, RollbacksNeverBuild, UnbornInv, OutsideStep
  <1>6. \A h \in Handler : handler'[h].pc \in BuildSteps => Msg(h) \notin rollbacks'
    BY <1>3 DEF NoRollbackIsBuilt, UnbornInv, OutsideStep
  <1> QED
    BY <1>1, <1>4, <1>5, <1>6 DEF NoRollbackIsBuilt

LEMMA ThreadKeepsRollbackInv ==
  ASSUME UnbornInv, NoRollbackIsBuilt, BuildTypeOK, NEW h \in Handler, ThreadStep(h), ThreadJobs(h)
  PROVE  UnbornInv' /\ NoRollbackIsBuilt'
  <1>1. \A g \in Handler : Msg(g)' = IF g = h THEN msgAfter(h) ELSE Msg(g)
    BY DEF ThreadStep, Msg, msgAfter
  <1>2. \A j \in Deployment \X Attempts : j[1] # Msg(h) /\ jobs[j] = "absent" => jobs'[j] = "absent"
    BY DEF ThreadJobs
  <1>3. UnbornInv'
    <2> SUFFICES ASSUME NEW d \in Deployment, state'[d] = "none"
                 PROVE  /\ d \notin unsettled' \cup rollbacks'
                        /\ \A a \in Attempts : jobs'[<<d, a>>] = "absent"
                        /\ \A g \in Handler : Msg(g)' # d
      BY DEF UnbornInv
    <2>1. state[d] = "none"
      BY DEF ThreadStep
    <2>2. d # Msg(h)
      BY <2>1 DEF UnbornInv
    <2>3. d # Nobody
      BY NobodyIsNoDeployment
    <2>4. \A a \in Attempts : jobs'[<<d, a>>] = "absent"
      BY <1>2, <2>1, <2>2 DEF UnbornInv
    <2> QED
      BY <1>1, <2>1, <2>2, <2>3, <2>4 DEF UnbornInv, ThreadStep
  <1>4. RollbacksNeverBuild'
    <2> SUFFICES ASSUME NEW d \in rollbacks, NEW a \in Attempts PROVE jobs'[<<d, a>>] = "absent"
      BY DEF RollbacksNeverBuild, ThreadStep
    <2>1. <<d, a>> \in Deployment \X Attempts
      BY DEF BuildTypeOK, DeploymentsTypeOK
    <2>2. jobs[<<d, a>>] = "absent" /\ ~(d = Msg(h) /\ pcOf(h) \in BuildSteps)
      BY DEF NoRollbackIsBuilt, RollbacksNeverBuild, pcOf
    <2> QED
      BY <2>1, <2>2 DEF ThreadJobs
  <1>5. \A g \in Handler : handler'[g].pc \in BuildSteps => Msg(g)' \notin rollbacks'
    <2>1. pcAfter(h) \in BuildSteps => msgAfter(h) \notin rollbacks
      BY DEF ThreadStep, NoRollbackIsBuilt, pcOf
    <2> QED
      BY <1>1, <2>1 DEF ThreadStep, NoRollbackIsBuilt, pcAfter
  <1> QED
    BY <1>3, <1>4, <1>5 DEF NoRollbackIsBuilt

LEMMA DeliverKeepsWorkInv ==
  ASSUME UnbornInv, NoRollbackIsBuilt, BuildTypeOK,
         NEW h \in Handler, NEW d \in Deployment, Deliver(h, d)
  PROVE  /\ UnbornInv' /\ NoRollbackIsBuilt'
         /\ AloneInv => AloneInv'
         /\ AttendedInv => AttendedInv'
  <1> USE DEF rowVars, releaseVars, buildVars
  <1>1. /\ \A g \in Handler : handler'[g] = IF g = h THEN [Free EXCEPT !.pc = "fetched", !.msg = d]
                                                     ELSE handler[g]
        /\ UNCHANGED <<state, unsettled, rollbacks, jobs>>
    BY DEF Deliver, BuildTypeOK
  <1>2. handler'[h].pc = "fetched" /\ handler'[h].msg = d
    BY <1>1 DEF Free
  <1>3. \A g \in Handler \ {h} : handler'[g] = handler[g]
    BY <1>1
  <1>4. state[d] # "none"
    BY DEF Deliver, UnbornInv
  <1>5. UnbornInv'
    BY <1>1, <1>2, <1>3, <1>4 DEF UnbornInv, Msg
  <1>6. NoRollbackIsBuilt'
    BY <1>1, <1>2, <1>3 DEF NoRollbackIsBuilt, RollbacksNeverBuild, Msg, BuildSteps
  <1>7. ASSUME AloneInv PROVE AloneInv'
    <2> SUFFICES ASSUME faults' = 0,
                        NEW f \in Handler, NEW g \in Handler,
                        handler'[f].msg = handler'[g].msg, handler'[f].msg # Nobody
                 PROVE  f = g
      BY DEF AloneInv, Msg
    <2>1. d \notin Taken /\ faults' = faults
      BY DEF Deliver, Fault, BuildTypeOK
    <2> QED
      BY <1>2, <1>3, <1>7, <2>1 DEF AloneInv, Taken, Msg
  <1>8. ASSUME AttendedInv PROVE AttendedInv'
    <2> SUFFICES ASSUME faults' = 0, NEW j \in DOMAIN jobs, jobs[j] = "running"
                 PROVE  \E g \in Handler : handler'[g].pc \in JobSteps
                                           /\ <<handler'[g].msg, handler'[g].attempt>> = j
      BY <1>1 DEF AttendedInv, Job
    <2>1. faults = 0
      BY DEF Deliver, Fault, BuildTypeOK
    <2>2. PICK g \in Handler : handler[g].pc \in JobSteps /\ Job(g) = j
      BY <1>8, <2>1 DEF AttendedInv
    <2>3. g # h
      BY <2>2 DEF Deliver, At, JobSteps, BuildSteps
    <2> QED
      BY <1>3, <2>2, <2>3 DEF Job
  <1> QED
    BY <1>5, <1>6, <1>7, <1>8

LEMMA OutsideKeepsWorkInv ==
  ASSUME BuildTypeOK, BuildTypeOK', OutsideStep, faults' >= faults
  PROVE  /\ AloneInv => AloneInv'
         /\ AttendedInv => AttendedInv'
  <1>1. faults' = 0 => faults = 0
    BY DEF BuildTypeOK
  <1>2. AloneInv => AloneInv'
    BY <1>1 DEF AloneInv, OutsideStep, Msg
  <1>3. AttendedInv => AttendedInv'
    BY <1>1 DEF AttendedInv, OutsideStep, Job, BuildTypeOK, DeploymentsTypeOK
  <1> QED
    BY <1>2, <1>3

LEMMA ThreadKeepsWorkInv ==
  ASSUME BuildTypeOK, BuildTypeOK',
         NEW h \in Handler, ThreadStep(h), ThreadJobs(h), faults' >= faults
  PROVE  /\ AloneInv => AloneInv'
         /\ AttendedInv => AttendedInv'
  <1>1. faults' = 0 => faults = 0
    BY DEF BuildTypeOK
  <1>2. \A g \in Handler : Msg(g)' = IF g = h THEN msgAfter(h) ELSE Msg(g)
    BY DEF ThreadStep, Msg, msgAfter
  <1>3. \A g \in Handler : handler'[g].pc = IF g = h THEN pcAfter(h) ELSE handler[g].pc
    BY DEF ThreadStep, pcAfter
  <1>4. ASSUME AloneInv PROVE AloneInv'
    <2> SUFFICES ASSUME faults' = 0, NEW f \in Handler, NEW g \in Handler,
                        Msg(f)' = Msg(g)', Msg(f)' # Nobody
                 PROVE  f = g
      BY DEF AloneInv
    <2>1. Msg(f) = Msg(f)' /\ Msg(g) = Msg(g)'
      BY <1>2 DEF ThreadStep
    <2> QED
      BY <1>1, <1>4, <2>1 DEF AloneInv
  <1>5. ASSUME AttendedInv PROVE AttendedInv'
    <2> SUFFICES ASSUME faults' = 0, NEW j \in Deployment \X Attempts, jobs'[j] = "running"
                 PROVE  \E g \in Handler : handler'[g].pc \in JobSteps
                                           /\ <<handler'[g].msg, handler'[g].attempt>> = j
      BY DEF AttendedInv, Job, BuildTypeOK, DeploymentsTypeOK
    <2>1. CASE pcAfter(h) \in JobSteps /\ jobAfter(h) = j
      BY <2>1 DEF pcAfter, jobAfter
    <2>2. CASE jobs[j] = "running" /\ ~(pcOf(h) \in JobSteps /\ Job(h) = j)
      <3>1. j \in DOMAIN jobs
        BY DEF BuildTypeOK, DeploymentsTypeOK
      <3>2. PICK g \in Handler : handler[g].pc \in JobSteps /\ Job(g) = j
        BY <1>1, <1>5, <2>2, <3>1 DEF AttendedInv
      <3>3. g # h
        BY <2>2, <3>2 DEF pcOf
      <3> QED
        BY <3>2, <3>3 DEF ThreadStep, Job
    <2> QED
      BY <2>1, <2>2 DEF ThreadJobs
  <1> QED
    BY <1>4, <1>5

\* Users and redeliveries, Jobs, the sweeper, and the controller as the threads
\* see it.
LEMMA UserEffect ==
  ASSUME DeploymentsTypeOK, UNCHANGED handler,
         \/ \E d \in Deployment : Create(d) \/ Cancel(d) \/ KillJob(d)
         \/ \E q \in Request : RollbackStep(q) \/ RollbackInstantly(q)
  PROVE  OutsideStep
  <1> USE DEF OutsideStep, releaseVars, buildVars
  <1>1. ASSUME NEW d \in Deployment, Create(d) PROVE OutsideStep
    BY <1>1 DEF Create, Fresh, SetState, DeploymentsTypeOK
  <1>2. ASSUME NEW d \in Deployment, Cancel(d) PROVE OutsideStep
    BY <1>2 DEF Cancel, SetState, DeploymentsTypeOK
  <1>3. ASSUME NEW d \in Deployment, KillJob(d) PROVE OutsideStep
    BY <1>3 DEF KillJob, DeploymentsTypeOK
  <1>4. ASSUME NEW q \in Request,
               \/ RollbackStart(q) \/ RollbackChoose(q) \/ RollbackRefused(q)
               \/ RollbackInstantly(q)
        PROVE  OutsideStep
    BY <1>4 DEF RollbackStart, RollbackChoose, RollbackRefused, RollbackInstantly
  <1>5. ASSUME NEW q \in Request, NEW d \in Deployment, RollbackByDeploying(q, d)
        PROVE  OutsideStep
    BY <1>5 DEF RollbackByDeploying, Fresh, SetState, DeploymentsTypeOK
  <1> QED
    BY <1>1, <1>2, <1>3, <1>4, <1>5 DEF RollbackStep

LEMMA QueueEffect ==
  ASSUME BuildTypeOK,
         \/ \E d \in Deployment : Resend(d)
         \/ \E j \in DOMAIN jobs : JobEnds(j) \/ JobExpires(j)
         \/ \E S \in SUBSET Deployment : SweepStuck(S)
  PROVE  OutsideStep /\ faults' >= faults
  <1> USE DEF OutsideStep, releaseVars, buildVars
  <1>1. ASSUME NEW d \in Deployment, Resend(d) PROVE OutsideStep /\ faults' >= faults
    BY <1>1 DEF Resend, Fault, BuildTypeOK
  <1>2. ASSUME NEW j \in DOMAIN jobs, JobEnds(j) \/ JobExpires(j)
        PROVE  OutsideStep /\ faults' >= faults
    <2>1. faults' >= faults /\ UNCHANGED <<state, unsettled, rollbacks, handler>>
      BY <1>2 DEF JobEnds, JobExpires, BuildTypeOK
    <2>2. jobs \in [Deployment \X Attempts -> {"absent", "running", "succeeded", "failed"}]
      BY DEF BuildTypeOK, DeploymentsTypeOK
    <2>3. jobs[j] # "absent" /\ \E v \in {"absent", "succeeded", "failed"} : jobs' = [jobs EXCEPT ![j] = v]
      BY <1>2 DEF JobEnds, JobExpires
    <2> QED
      BY <2>1, <2>2, <2>3
  <1>3. ASSUME NEW S \in SUBSET Deployment, SweepStuck(S)
        PROVE  OutsideStep /\ faults' >= faults
    BY <1>3 DEF SweepStuck, Sweep, BuildTypeOK
  <1> QED
    BY <1>1, <1>2, <1>3

LEMMA ControllerEffect ==
  ASSUME DeploymentsTypeOK, NEW d \in Deployment,
         ControllerPromotes(d) \/ ControllerFails(d) \/ ScalesDown(d)
  PROVE  OutsideStep
  BY DEF ControllerPromotes, ControllerFails, ScalesDown, SetState, OutsideStep, DeploymentsTypeOK,
     buildVars

\* A fault is counted, never taken back.
LEMMA FaultsGrow ==
  ASSUME BuildTypeOK, NEW h \in Handler, HandlerStep(h) \/ Crash(h) \/ CallFails(h)
  PROVE  faults' >= faults
  BY DEF BuildTypeOK, Fault, HandlerStep, Refuse, Examine, AdvanceRollback, Settle, CreateJob,
         PrepareFails, PodAppears, PodMissing, PollEnds, Promote, PromoteFails, Finish,
         RetryWithFix, MarkFailed, Reap, Reject, Bury, Crash, CallFails

LEMMA WorkerKeepsRollbackInv ==
  ASSUME RollbackInv, WorkerNext PROVE RollbackInv'
  <1>1. CASE \E h \in Handler : HandlerStep(h) \/ Crash(h) \/ CallFails(h)
    <2> PICK h \in Handler : HandlerStep(h) \/ Crash(h) \/ CallFails(h)
      BY <1>1
    <2>1. ThreadStep(h) /\ ThreadJobs(h) /\ BuildTypeOK'
      BY ThreadEffect, ThreadJobEffect, ThreadKeepsTypes DEF RollbackInv
    <2>2. UNCHANGED request
      BY DEF HandlerStep, Refuse, Examine, AdvanceRollback, Settle, CreateJob,
         PrepareFails, PodAppears, PodMissing, PollEnds, Promote, PromoteFails, Finish,
         RetryWithFix, MarkFailed, Reap, Reject, Bury, Crash, CallFails, rowVars
    <2> QED
      BY <2>1, <2>2, ThreadKeepsRollbackInv DEF RollbackInv, TargetInv
  <1>2. CASE \E h \in Handler, d \in Deployment : Deliver(h, d)
    BY <1>2, QueueKeepsTypes, DeliverKeepsWorkInv DEF RollbackInv, Deliver, rowVars, TargetInv
  <1>3. CASE \/ \E d \in Deployment : Resend(d)
             \/ \E j \in DOMAIN jobs : JobEnds(j) \/ JobExpires(j)
             \/ \E S \in SUBSET Deployment : SweepStuck(S)
    <2>1. OutsideStep /\ BuildTypeOK'
      BY <1>3, QueueEffect, QueueKeepsTypes DEF RollbackInv
    <2>2. UNCHANGED request
      BY <1>3 DEF Resend, JobEnds, JobExpires, SweepStuck, Sweep
    <2> QED
      BY <2>1, <2>2, OutsideKeepsRollbackInv DEF RollbackInv, TargetInv
  <1> QED
    BY <1>1, <1>2, <1>3 DEF WorkerNext

LEMMA UsersKeepRollbackInv ==
  ASSUME RollbackInv, UNCHANGED <<handler, faults>>,
         \/ \E d \in Deployment : Create(d) \/ Cancel(d) \/ KillJob(d)
         \/ \E q \in Request : RollbackStep(q) \/ RollbackInstantly(q)
  PROVE  RollbackInv'
  <1>1. BuildTypeOK' /\ TargetInv'
    BY UsersKeepTypes DEF RollbackInv, BuildTypeOK, At, Msg
  <1>2. OutsideStep
    BY UserEffect DEF RollbackInv, BuildTypeOK
  <1> QED
    BY <1>1, <1>2, OutsideKeepsRollbackInv DEF RollbackInv

\* Every step keeps WorkInv.
LEMMA NextWorkInv == WorkInv /\ [BuildsNext]_buildsVars => WorkInv'
  <1> SUFFICES ASSUME WorkInv, [BuildsNext]_buildsVars PROVE WorkInv'
    OBVIOUS
  <1>a. RollbackInv /\ BuildTypeOK /\ DeploymentsTypeOK
    BY DEF WorkInv, RollbackInv, BuildTypeOK
  <1>1. RollbackInv'
    <2>1. CASE UserNext /\ UNCHANGED <<handler, faults>>
      BY <1>a, <2>1, UsersKeepRollbackInv DEF UserNext, RollbackNext
    <2>2. CASE WorkerNext
      BY <1>a, <2>2, WorkerKeepsRollbackInv
    <2>3. CASE \E d \in Deployment : ControllerPromotes(d) \/ ControllerFails(d) \/ ScalesDown(d)
      <3>1. DeploymentsTypeOK' /\ OutsideStep
        BY <1>a, <2>3, ControllerKeepsTypes, ControllerEffect
      <3>2. UNCHANGED <<request, handler, faults>>
        BY <2>3 DEF ControllerPromotes, ControllerFails, ScalesDown
      <3>3. BuildTypeOK'
        BY <1>a, <3>1, <3>2 DEF BuildTypeOK, At, Msg
      <3> QED
        BY <1>a, <3>1, <3>2, <3>3, OutsideKeepsRollbackInv DEF RollbackInv, TargetInv
    <2>4. CASE UNCHANGED buildWorkerVars
      BY <1>a, <2>4 DEF buildWorkerVars, rowVars, releaseVars, buildVars, RollbackInv, BuildTypeOK,
         DeploymentsTypeOK, TargetInv, UnbornInv, NoRollbackIsBuilt, RollbacksNeverBuild, At, Msg
    <2> QED
      BY <2>1, <2>2, <2>3, <2>4
      DEF BuildsNext, ControllerReads, ControllerLeaves, buildsVars
  <1>2. BuildTypeOK'
    BY <1>1 DEF RollbackInv
  <1>3. CASE OutsideStep /\ faults' >= faults
    BY <1>a, <1>1, <1>2, <1>3, OutsideKeepsWorkInv DEF WorkInv
  <1>4. CASE \E h \in Handler : HandlerStep(h) \/ Crash(h) \/ CallFails(h)
    BY <1>a, <1>1, <1>2, <1>4, ThreadEffect, ThreadJobEffect, FaultsGrow, ThreadKeepsWorkInv DEF WorkInv
  <1>5. CASE \E h \in Handler, d \in Deployment : Deliver(h, d)
    BY <1>1, <1>5, DeliverKeepsWorkInv DEF WorkInv, RollbackInv
  <1>6. UNCHANGED faults => faults' >= faults
    BY <1>a DEF BuildTypeOK
  <1>7. CASE UserNext /\ UNCHANGED <<handler, faults>>
    BY <1>a, <1>3, <1>6, <1>7, UserEffect DEF UserNext, RollbackNext
  <1>8. CASE \E d \in Deployment : ControllerPromotes(d) \/ ControllerFails(d) \/ ScalesDown(d)
    BY <1>a, <1>3, <1>6, <1>8, ControllerEffect DEF ControllerPromotes, ControllerFails, ScalesDown
  <1>9. CASE UNCHANGED buildWorkerVars
    BY <1>3, <1>6, <1>9 DEF buildWorkerVars, rowVars, buildVars, OutsideStep
  <1>10. CASE \/ \E d \in Deployment : Resend(d)
              \/ \E j \in DOMAIN jobs : JobEnds(j) \/ JobExpires(j)
              \/ \E S \in SUBSET Deployment : SweepStuck(S)
    BY <1>a, <1>3, <1>10, QueueEffect
  <1> QED
    BY <1>4, <1>5, <1>7, <1>8, <1>9, <1>10
    DEF BuildsNext, WorkerNext, ControllerReads, ControllerLeaves, buildsVars

LEMMA InitWorkInv == BuildInit => WorkInv
  <1> SUFFICES ASSUME BuildInit PROVE WorkInv
    OBVIOUS
  <1> USE DEF BuildInit, DeploymentsInit
  <1>1. DeploymentsTypeOK
    BY DEF DeploymentsTypeOK, States, Active, NoRequest
  <1>2. BuildTypeOK
    BY <1>1, BuildAssumption DEF BuildTypeOK, Free, Steps, Attempts, At, Msg
  <1>3. \A h \in Handler : handler[h].pc = "idle" /\ Msg(h) = Nobody
    BY DEF Free, Msg
  <1>4. TargetInv
    BY DEF TargetInv, NoRequest
  <1>5. UnbornInv
    BY <1>3, NobodyIsNoDeployment DEF UnbornInv
  <1>6. NoRollbackIsBuilt /\ AloneInv
    BY <1>3 DEF NoRollbackIsBuilt, RollbacksNeverBuild, AloneInv, BuildSteps
  <1>7. AttendedInv
    BY DEF AttendedInv
  <1> QED
    BY <1>2, <1>4, <1>5, <1>6, <1>7 DEF WorkInv, RollbackInv

\* The invariant behind the three theorems that follow.
THEOREM WorkInvariance == BuildsSpec => []WorkInv
  <1>1. WorkInv /\ [BuildsNext]_buildsVars => WorkInv'
    BY NextWorkInv
  <1>2. BuildsInit => WorkInv
    BY InitWorkInv DEF BuildsInit
  <1> QED
    BY <1>1, <1>2, PTL DEF BuildsSpec

\* Rows, Jobs, requests and threads have their types, a thread has a message
\* exactly while it works, and the controller has read a deployment or nothing.
THEOREM BuildTypes == BuildsSpec => []BuildsTypeOK
  <1>1. WorkInv /\ BuildsInv => BuildsTypeOK
    BY DEF WorkInv, RollbackInv, BuildsInv, ReadInv, BuildsTypeOK, BuildTypeOK, DeploymentsTypeOK
  <1> QED
    BY <1>1, WorkInvariance, BuildInvariance, PTL

\* No Job is ever created for a rollback (deployments.py, rollback_deployment).
THEOREM RollbacksDoNotBuild == BuildsSpec => []RollbacksNeverBuild
  <1>1. WorkInv => RollbacksNeverBuild
    BY DEF WorkInv, RollbackInv, NoRollbackIsBuilt
  <1> QED
    BY <1>1, WorkInvariance, PTL

\* While nothing fails, a running Job has its thread (the finally of monitor_job).
THEOREM JobsAreAttended == BuildsSpec => []NoUnattendedBuild
  <1>1. WorkInv => NoUnattendedBuild
    BY DEF WorkInv, AttendedInv, NoUnattendedBuild, JobSteps, BuildSteps, At
  <1> QED
    BY <1>1, WorkInvariance, PTL
=============================================================================

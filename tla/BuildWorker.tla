----------------------------- MODULE BuildWorker -----------------------------
(***************************************************************************)
(* The threads of the worker pods (worker/main.py: process_message and     *)
(* monitor_job), each taking one deploy message through clone, build Job,  *)
(* promotion of the image and acknowledgement, while users cancel, the     *)
(* sweeper fires, Jobs end and expire, and threads die.                    *)
(*                                                                         *)
(* The queue appears as DeployQueue shows it: a set of unsettled messages, *)
(* any of which may be delivered, again too after a failure.               *)
(***************************************************************************)
EXTENDS Deployments

CONSTANTS
    Handler,      \* worker threads, of all pods
    Malformed,    \* deployments whose branch the worker refuses
    Nixpacks,     \* deployments built by Nixpacks, whose failure may have a known fix
    MaxFaults     \* bound: crashes, failed calls and duplicates in a run

ASSUME BuildAssumption ==
    /\ Malformed \subseteq Deployment
    /\ Nixpacks \subseteq Deployment
    /\ MaxFaults \in Nat

VARIABLES
    handler,      \* per thread: its step, its message, the build attempt
    faults        \* faults so far

buildWorkerVars == <<rowVars, handler, faults>>

Steps == {"idle", "fetched", "rollback", "settle", "prepare", "await", "poll",
          "promote", "finish", "unbuilt", "failed", "reap", "ack", "reject", "bury"}

Free == [pc |-> "idle", msg |-> Nobody, attempt |-> "first"]

\* The thread h goes on to the step pc.
Goes(h, pc) == handler' = [handler EXCEPT ![h].pc = pc]
Frees(h) == handler' = [handler EXCEPT ![h] = Free]

At(h, pc) == handler[h].pc = pc
Msg(h) == handler[h].msg
Job(h) == <<handler[h].msg, handler[h].attempt>>
Taken == {handler[h].msg : h \in Handler}

BuildTypeOK ==
    /\ DeploymentsTypeOK
    /\ handler \in [Handler -> [pc : Steps, msg : Deployment \cup {Nobody}, attempt : Attempts]]
    /\ \A h \in Handler : At(h, "idle") <=> Msg(h) = Nobody
    /\ faults \in 0..MaxFaults

BuildInit ==
    /\ DeploymentsInit
    /\ handler = [h \in Handler |-> Free]
    /\ faults = 0

Fault == faults < MaxFaults /\ faults' = faults + 1

Settles(d) == unsettled' = unsettled \ {d}

-----------------------------------------------------------------------------
(* Delivery.                                                               *)

\* XREADGROUP or XAUTOCLAIM hands a message to a free thread.  While another thread
\* is at work on it, it is one of two entries (a relay pass that failed after its
\* XADDs sends the rows again seconds later), or reclaimed from that thread.
Deliver(h, d) ==
    /\ At(h, "idle")
    /\ d \in unsettled
    /\ IF d \in Taken THEN Fault ELSE UNCHANGED faults
    /\ handler' = [handler EXCEPT ![h] = [Free EXCEPT !.pc = "fetched", !.msg = d]]
    /\ UNCHANGED rowVars

\* The second entry is still there when the first is settled, whatever threads are
\* at work on then.
Resend(d) ==
    /\ state[d] # "none"
    /\ d \notin unsettled
    /\ Fault
    /\ unsettled' = unsettled \cup {d}
    /\ UNCHANGED <<state, releaseVars, pinned, rollbacks, jobs, killing, request, handler>>

\* A branch the worker refuses: straight to the dead-letter stream.
Refuse(h) ==
    /\ At(h, "fetched")
    /\ Msg(h) \in Malformed \ rollbacks
    /\ Settles(Msg(h))
    /\ Frees(h)
    /\ UNCHANGED <<state, releaseVars, pinned, rollbacks, jobs, killing, request, faults>>

\* get_deployment, and what it decides: a deployment that got its image is
\* acknowledged, a rollback needs no build, anything else is built.
ExamineForgettingRollbacks(h) ==
    /\ At(h, "fetched")
    /\ Msg(h) \notin Malformed \ rollbacks
    /\ Goes(h, IF state[Msg(h)] \in {"Deploying", "Running"} THEN "settle" ELSE "prepare")
    /\ UNCHANGED <<rowVars, faults>>
Examine(h) ==
    /\ At(h, "fetched")
    /\ Msg(h) \notin Malformed \ rollbacks
    /\ Goes(h, IF state[Msg(h)] \in {"Deploying", "Running"} THEN "settle"
               ELSE IF Msg(h) \in rollbacks THEN "rollback"
               ELSE "prepare")
    /\ UNCHANGED <<rowVars, faults>>

\* update_state(Deploying) of a rollback.  If another deployment is active the
\* exception ends the thread and the message stays pending.
AdvanceRollback(h) ==
    /\ At(h, "rollback")
    /\ IF IndexAllows(Msg(h), "Deploying")
       THEN SetState(Msg(h), "Deploying") /\ Goes(h, "settle")
       ELSE UNCHANGED state /\ Frees(h)
    /\ UNCHANGED <<releaseVars, buildVars, request, faults>>

\* ack_message of an early return or at the end of a build.
SettleNothing(h) ==
    /\ At(h, "settle") \/ At(h, "ack")
    /\ Frees(h)
    /\ UNCHANGED <<rowVars, faults>>
SettleEarly(h) ==
    /\ At(h, "fetched")
    /\ Settles(Msg(h))
    /\ Goes(h, "prepare")
    /\ UNCHANGED <<state, releaseVars, pinned, rollbacks, jobs, killing, request, faults>>
Settle(h) ==
    /\ At(h, "settle") \/ At(h, "ack")
    /\ Settles(Msg(h))
    /\ Frees(h)
    /\ UNCHANGED <<state, releaseVars, pinned, rollbacks, jobs, killing, request, faults>>

-----------------------------------------------------------------------------
(* The build.                                                              *)

\* Clone, read shipzen.yaml, pick a builder, create the Job; a Job that exists
\* (409) is taken over.
CreateJob(h) ==
    /\ At(h, "prepare")
    /\ jobs' = [jobs EXCEPT ![Job(h)] = IF @ = "absent" THEN "running" ELSE @]
    /\ Goes(h, "await")
    /\ UNCHANGED <<state, releaseVars, pinned, rollbacks, unsettled, killing, request, faults>>

\* Any of that fails: no such branch, a bad shipzen.yaml, no builder, quota.
PrepareFails(h) ==
    /\ At(h, "prepare")
    /\ Goes(h, "reject")
    /\ UNCHANGED <<rowVars, faults>>

\* A pod of the Job is listed: update_state(Building).
PodAppears(h) ==
    /\ At(h, "await")
    /\ IF IndexAllows(Msg(h), "Building")
       THEN SetState(Msg(h), "Building") /\ Goes(h, "poll")
       ELSE UNCHANGED state /\ Goes(h, "failed")
    /\ UNCHANGED <<releaseVars, buildVars, request, faults>>

\* No pod within five minutes.
PodMissing(h) ==
    /\ At(h, "await")
    /\ Goes(h, "failed")
    /\ UNCHANGED <<rowVars, faults>>

\* The poll finds the Job succeeded, failed or gone (404).
PollEnds(h) ==
    /\ At(h, "poll")
    /\ jobs[Job(h)] # "running"
    /\ Goes(h, IF jobs[Job(h)] = "succeeded" THEN "promote" ELSE "unbuilt")
    /\ UNCHANGED <<rowVars, faults>>

\* The digest the build reported is copied to shipzen-builds and recorded.
FinishBeforePromote(h) ==
    /\ At(h, "promote")
    /\ IF IndexAllows(Msg(h), "Deploying")
       THEN SetState(Msg(h), "Deploying") /\ Goes(h, "reap")
       ELSE UNCHANGED state /\ Goes(h, "failed")
    /\ UNCHANGED <<releaseVars, buildVars, request, faults>>
Promote(h) ==
    /\ At(h, "promote")
    /\ pinned' = pinned \cup {Msg(h)}
    /\ Goes(h, "finish")
    /\ UNCHANGED <<state, releaseVars, rollbacks, unsettled, jobs, killing, request, faults>>

\* The pod is gone, the digest malformed, or crane fails.
PromoteFails(h) ==
    /\ At(h, "promote")
    /\ Goes(h, "failed")
    /\ UNCHANGED <<rowVars, faults>>

\* update_state(Deploying).
Finish(h) ==
    /\ At(h, "finish")
    /\ IF IndexAllows(Msg(h), "Deploying")
       THEN SetState(Msg(h), "Deploying") /\ Goes(h, "reap")
       ELSE UNCHANGED state /\ Goes(h, "failed")
    /\ UNCHANGED <<releaseVars, buildVars, request, faults>>

\* A Nixpacks build failed with a known fix: its Job is deleted and
\* build-<id8>-fix created.
RetryWithFix(h) ==
    /\ At(h, "unbuilt")
    /\ handler[h].attempt = "first"
    /\ Msg(h) \in Nixpacks
    /\ jobs' = [jobs EXCEPT ![<<Msg(h), "first">>] = "absent",
                            ![<<Msg(h), "fix">>] = IF @ = "absent" THEN "running" ELSE @]
    /\ handler' = [handler EXCEPT ![h].attempt = "fix", ![h].pc = "await"]
    /\ UNCHANGED <<state, releaseVars, pinned, rollbacks, unsettled, killing, request, faults>>

\* update_state(Failed): the build failed, or an exception in monitor_job.
MarkFailed(h) ==
    /\ At(h, "unbuilt") \/ At(h, "failed")
    /\ SetState(Msg(h), "Failed")
    /\ Goes(h, "reap")
    /\ UNCHANGED <<releaseVars, buildVars, request, faults>>

\* The finally of monitor_job deletes the Job of this attempt; whatever that call
\* raises is ignored.
ReapFirstOnly(h) ==
    /\ At(h, "reap")
    /\ jobs' = [jobs EXCEPT ![<<Msg(h), "first">>] = "absent"]
    /\ Goes(h, "ack")
    /\ UNCHANGED <<state, releaseVars, pinned, rollbacks, unsettled, killing, request, faults>>
Deleted(j) == [jobs EXCEPT ![j] = "absent"]

Reap(h) ==
    /\ At(h, "reap")
    /\ \/ jobs' = Deleted(Job(h)) /\ UNCHANGED faults
       \/ UNCHANGED jobs /\ Fault
    /\ Goes(h, "ack")
    /\ UNCHANGED <<state, releaseVars, pinned, rollbacks, unsettled, killing, request>>

\* The outer except of process_message: update_state(Failed) ...
RejectSilently(h) ==
    /\ At(h, "reject")
    /\ Goes(h, "bury")
    /\ UNCHANGED <<rowVars, faults>>
Reject(h) ==
    /\ At(h, "reject")
    /\ SetState(Msg(h), "Failed")
    /\ Goes(h, "bury")
    /\ UNCHANGED <<releaseVars, buildVars, request, faults>>

\* ... then add_to_dlq.
BuryAndKeep(h) ==
    /\ At(h, "bury")
    /\ Settles(Msg(h))
    /\ Goes(h, "idle")
    /\ UNCHANGED <<state, releaseVars, pinned, rollbacks, jobs, killing, request, faults>>
Bury(h) ==
    /\ At(h, "bury")
    /\ Settles(Msg(h))
    /\ Frees(h)
    /\ UNCHANGED <<state, releaseVars, pinned, rollbacks, jobs, killing, request, faults>>

-----------------------------------------------------------------------------
(* Failures of the thread.                                                 *)

\* The pod dies, or an exception leaves process_message: the message stays
\* pending and whatever the thread had started goes on.
Crash(h) ==
    /\ ~At(h, "idle")
    /\ Fault
    /\ Frees(h)
    /\ UNCHANGED rowVars

\* A call to Postgres or Redis fails inside monitor_job, or its poll gives up
\* after an hour; or the XACK after a build fails, which the outer except
\* treats like a failed build.
CallFails(h) ==
    /\ Fault
    /\ \/ /\ At(h, "await") \/ At(h, "promote") \/ At(h, "finish") \/ At(h, "unbuilt")
          /\ Goes(h, "failed")
          /\ UNCHANGED jobs
       \/ At(h, "poll") /\ Goes(h, "unbuilt") /\ UNCHANGED jobs
       \/ At(h, "ack") /\ Goes(h, "reject") /\ UNCHANGED jobs
       \/ At(h, "failed") /\ Goes(h, "reject") /\ jobs' \in {jobs, Deleted(Job(h))}
    /\ UNCHANGED <<state, releaseVars, pinned, rollbacks, unsettled, killing, request>>

-----------------------------------------------------------------------------
(* The surroundings.                                                       *)

\* Kubernetes ends a Job: the build is done, fails, or meets its deadline of
\* 30 minutes.
JobEnds(j) ==
    /\ jobs[j] = "running"
    /\ jobs' \in {[jobs EXCEPT ![j] = end] : end \in {"succeeded", "failed"}}
    /\ UNCHANGED <<state, releaseVars, pinned, rollbacks, unsettled, killing, request, handler, faults>>

\* ttlSecondsAfterFinished of the Nixpacks Jobs.
JobExpires(j) ==
    /\ j[1] \in Nixpacks
    /\ jobs[j] \in {"succeeded", "failed"}
    /\ jobs' = [jobs EXCEPT ![j] = "absent"]
    /\ UNCHANGED <<state, releaseVars, pinned, rollbacks, unsettled, killing, request, handler, faults>>

\* The sweeper.  A build that a thread is monitoring ends within its deadline,
\* so a row that is Building for an hour has lost its thread.
SweepStuck(S) ==
    /\ \A d \in S : state[d] = "Building" => d \notin Taken
    /\ Sweep(S)
    /\ UNCHANGED <<handler, faults>>

HandlerStep(h) ==
    \/ Refuse(h) \/ Examine(h) \/ AdvanceRollback(h) \/ Settle(h)
    \/ CreateJob(h) \/ PrepareFails(h) \/ PodAppears(h) \/ PodMissing(h) \/ PollEnds(h)
    \/ Promote(h) \/ PromoteFails(h) \/ Finish(h)
    \/ RetryWithFix(h) \/ MarkFailed(h) \/ Reap(h) \/ Reject(h) \/ Bury(h)

WorkerNext ==
    \/ \E h \in Handler :
          \/ HandlerStep(h) \/ Crash(h) \/ CallFails(h)
          \/ \E d \in Deployment : Deliver(h, d)
    \/ \E d \in Deployment : Resend(d)
    \/ \E j \in DOMAIN jobs : JobEnds(j) \/ JobExpires(j)
    \/ \E S \in SUBSET Deployment : SweepStuck(S)

-----------------------------------------------------------------------------
(* Properties.                                                             *)

\* A deploy that waits to be built still has a message: no early return, no
\* dead-lettering and no failure settles one and leaves its row Queued.  The
\* branches the worker refuses are the exception (main.py, process_message).
QueuedHasMessage ==
    \A d \in Deployment \ Malformed : state[d] = "Queued" => d \in unsettled

\* What the controller is told to deploy is pinned to a digest, of its own
\* build or of the release it rolls back to (main.py, comment C4).
ReleasesArePinned ==
    \A d \in Deployment : state[d] \in {"Deploying", "Running"} => d \in pinned

\* A rollback deploys an image that exists and never builds one, not on a
\* redelivery and not after a fault (deployments.py, rollback_deployment:
\* "Re-deploy the last known-good image without rebuilding").
RollbacksNeverBuild ==
    \A d \in rollbacks : \A a \in Attempts : jobs[<<d, a>>] = "absent"

\* While nothing fails, no build Job runs that no thread looks after: cancels,
\* retries with a fix and failed builds leave none behind (the finally of
\* monitor_job).
NoUnattendedBuild ==
    faults = 0 => \A j \in DOMAIN jobs :
        jobs[j] = "running" => \E h \in Handler : ~At(h, "idle") /\ Job(h) = j

\* Every message is settled, however often threads die or calls fail
\* (docs/decisions.md, decision 2: "a crashed worker doesn't lose builds").
EveryMessageSettles == \A d \in Deployment : []<>(d \notin unsettled)

\* Every deploy stops being in progress without the sweeper's help, so that the
\* project can deploy again.
EveryDeployEnds ==
    \A d \in Deployment \ Malformed : []<>(state[d] \notin Active)
=============================================================================

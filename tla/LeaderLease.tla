----------------------------- MODULE LeaderLease -----------------------------
(***************************************************************************)
(* Leader election among the controller pods (controller/main.py,          *)
(* LeaderElector): every process tries to acquire or renew one Kubernetes  *)
(* Lease, with a call that reads it and a call that replaces the copy it   *)
(* read.  is_leader changes only when an attempt ends, never because time  *)
(* passes.                                                                 *)
(*                                                                         *)
(* An error that _renew_loop does not catch ends the renew thread for      *)
(* good, while the process lives on.                                       *)
(*                                                                         *)
(* Time advances in ticks and is kept as ages.  The clocks of the pods     *)
(* agree, and a thread whose sleep is over runs at once.                   *)
(***************************************************************************)
EXTENDS Integers

CONSTANTS
    Process,      \* controller pods
    Nobody,       \* holder_identity None, after a release
    NoLease,      \* there is no Lease object yet
    Lease,        \* lease_duration
    Renew,        \* pause between two attempts, lease_duration / 3
    Slow,         \* a call to the API server is answered or given up within Slow
    MaxFaults     \* bound: failed calls and crashes in a run

ASSUME LeaseAssumption ==
    /\ Nobody \notin Process
    /\ NoLease \notin Process \cup {Nobody}
    /\ Lease \in Nat /\ Renew \in Nat /\ Slow \in Nat
    /\ MaxFaults \in Nat

VARIABLES
    holder,       \* spec.holder_identity
    age,          \* ticks since spec.renew_time, up to Ancient
    elector,      \* per process: the attempt of its renew loop
    isLeader,     \* per process: is_leader
    usurped,      \* history, per process: ticks that it has gone on although
                  \* another has taken the Lease from it, up to Longest
    faults        \* faults so far

leaseVars == <<holder, age, elector, isLeader, usurped, faults>>

\* Older than any process can find too young.
Ancient == Lease + 2 * Slow + 1

\* The attempt that renews, the pause, and the attempt that fails.
Longest == 4 * Slow + Renew

\* An attempt that has taken its timestamp, now, and sent the read.
Attempt == [pc |-> "read", slept |-> 0, since |-> 0, seen |-> "nothing", fresh |-> FALSE]
Asleep  == [pc |-> "sleep", slept |-> 0, since |-> 0, seen |-> "nothing", fresh |-> FALSE]
Down    == [pc |-> "down", slept |-> 0, since |-> 0, seen |-> "nothing", fresh |-> FALSE]
Dead    == [pc |-> "dead", slept |-> 0, since |-> 0, seen |-> "nothing", fresh |-> FALSE]

LeaseTypeOK ==
    /\ holder \in Process \cup {Nobody, NoLease}
    /\ age \in 0..Ancient
    /\ elector \in [Process -> [pc : {"down", "dead", "sleep", "read", "write", "answer"},
                                slept : 0..Renew, since : 0..2 * Slow,
                                seen : {"nothing", "absent", "mine", "expired"},
                                fresh : BOOLEAN]]
    /\ isLeader \in [Process -> BOOLEAN]
    /\ usurped \in [Process -> 0..Longest]
    /\ faults \in 0..MaxFaults

LeaseInit ==
    /\ holder = NoLease
    /\ age = Ancient
    /\ elector = [p \in Process |-> Attempt]
    /\ isLeader = [p \in Process |-> FALSE]
    /\ usurped = [p \in Process |-> 0]
    /\ faults = 0

At(p, pc) == elector[p].pc = pc
Fault == faults < MaxFaults /\ faults' = faults + 1

\* The attempt of p ends and is_leader becomes b.
Ends(p, b) ==
    /\ elector' = [elector EXCEPT ![p] = Asleep]
    /\ isLeader' = [isLeader EXCEPT ![p] = b]

\* p goes on although the Lease is no longer its own.
Outrun(p) == holder # p /\ (isLeader[p] \/ At(p, "answer"))

\* p writes the Lease and goes on as e; the copies the others have read are
\* outdated (resourceVersion).
Writes(p, h, e) ==
    /\ holder' = h
    /\ usurped' = [q \in Process |-> IF q \in {p, holder} THEN 0 ELSE usurped[q]]
    /\ elector' = [q \in Process |-> IF q = p THEN e ELSE [elector[q] EXCEPT !.fresh = FALSE]]

-----------------------------------------------------------------------------
\* A tick, unless some process has to act first.
MayWaitTooLong(e) ==
    CASE e.pc \in {"down", "dead"} -> TRUE
      [] e.pc = "sleep" -> e.slept <= Renew
      [] e.pc = "read"  -> e.since <= Slow
      [] OTHER          -> e.since <= 2 * Slow
MayWait(e) ==
    CASE e.pc \in {"down", "dead"} -> TRUE
      [] e.pc = "sleep" -> e.slept < Renew
      [] e.pc = "read"  -> e.since < Slow
      [] OTHER          -> e.since < 2 * Slow

Older(e) ==
    CASE e.pc \in {"down", "dead"} -> e
      [] e.pc = "sleep" -> [e EXCEPT !.slept = @ + 1]
      [] OTHER          -> [e EXCEPT !.since = @ + 1]

Tick ==
    /\ \A p \in Process : MayWait(elector[p])
    /\ age' = IF age < Ancient THEN age + 1 ELSE age
    /\ elector' = [p \in Process |-> Older(elector[p])]
    /\ usurped' = [p \in Process |-> IF ~Outrun(p) THEN 0
                                     ELSE IF usurped[p] < Longest THEN usurped[p] + 1
                                     ELSE usurped[p]]
    /\ UNCHANGED <<holder, isLeader, faults>>

\* The next round of _renew_loop.
Wake(p) ==
    /\ At(p, "sleep")
    /\ elector[p].slept = Renew
    /\ elector' = [elector EXCEPT ![p] = Attempt]
    /\ UNCHANGED <<holder, age, isLeader, usurped, faults>>

\* How old the Lease is at the timestamp of the attempt.
ExpiredUnlessReleased(p) == holder # Nobody /\ age - elector[p].since > Lease
Expired(p) == age - elector[p].since > Lease

\* read_namespaced_lease: renew what is ours, take over what has expired, create
\* what does not exist; otherwise another process leads.
ReadLease(p) ==
    /\ At(p, "read")
    /\ LET writes(s) == /\ elector' = [elector EXCEPT ![p].pc = "write", ![p].seen = s,
                                                      ![p].fresh = TRUE]
                        /\ UNCHANGED isLeader
       IN  \/ holder = NoLease /\ writes("absent")
           \/ holder = p /\ writes("mine")
           \/ holder \notin {p, NoLease} /\ Expired(p) /\ writes("expired")
           \/ holder \notin {p, NoLease} /\ ~Expired(p) /\ Ends(p, FALSE)
    /\ UNCHANGED <<holder, age, usurped, faults>>

\* The API server takes a write of an unchanged Lease; its renew_time is the
\* timestamp of the attempt.
WriteLeaseUnchecked(p) ==
    /\ At(p, "write")
    /\ Writes(p, p, [elector[p] EXCEPT !.pc = "answer"])
    /\ age' = elector[p].since
    /\ UNCHANGED <<isLeader, faults>>
WriteLease(p) ==
    /\ At(p, "write")
    /\ elector[p].fresh
    /\ Writes(p, p, [elector[p] EXCEPT !.pc = "answer"])
    /\ age' = elector[p].since
    /\ UNCHANGED <<isLeader, faults>>

\* 409: the Lease has changed since it was read, or exists by now.
WriteConflicts(p) ==
    /\ At(p, "write")
    /\ ~elector[p].fresh
    /\ Ends(p, FALSE)
    /\ UNCHANGED <<holder, age, usurped, faults>>

\* The answer to the write.
Acquired(p) ==
    /\ At(p, "answer")
    /\ Ends(p, TRUE)
    /\ UNCHANGED <<holder, age, usurped, faults>>

\* A call times out or is refused, or the process has no answer to its write.
CallFailsAndLeads(p) ==
    /\ At(p, "read") \/ At(p, "write") \/ At(p, "answer")
    /\ Fault
    /\ Ends(p, isLeader[p])
    /\ UNCHANGED <<holder, age, usurped>>
CallFails(p) ==
    /\ At(p, "read") \/ At(p, "write") \/ At(p, "answer")
    /\ Fault
    /\ Ends(p, FALSE)
    /\ UNCHANGED <<holder, age, usurped>>

\* create_namespaced_lease times out or loses its connection, before or after the
\* server has taken it: its handler catches only ApiException, so the error
\* leaves _renew_loop and the thread is gone.  /healthz does not look at it.
ThreadDies(p) ==
    /\ At(p, "write") \/ At(p, "answer")
    /\ elector[p].seen = "absent"
    /\ Fault
    /\ elector' = [elector EXCEPT ![p] = Dead]
    /\ UNCHANGED <<holder, age, isLeader, usurped>>

\* SIGTERM: a leader gives the Lease back, if the two calls for that succeed,
\* and the process exits.
Stop(p) ==
    /\ ~At(p, "down")
    /\ Fault
    /\ \/ isLeader[p] /\ holder = p /\ Writes(p, Nobody, Down)
       \/ UNCHANGED <<holder, usurped>> /\ elector' = [elector EXCEPT ![p] = Down]
    /\ isLeader' = [isLeader EXCEPT ![p] = FALSE]
    /\ UNCHANGED age

\* The container starts again, under the same pod name.
Start(p) ==
    /\ At(p, "down")
    /\ elector' = [elector EXCEPT ![p] = Attempt]
    /\ UNCHANGED <<holder, age, isLeader, usurped, faults>>

Round(p) == Wake(p) \/ ReadLease(p) \/ WriteLease(p) \/ WriteConflicts(p) \/ Acquired(p)

LeaseNext ==
    Tick \/ \E p \in Process : Round(p) \/ CallFails(p) \/ ThreadDies(p) \/ Stop(p) \/ Start(p)

LeaseSpec == LeaseInit /\ [][LeaseNext]_leaseVars

\* Time passes, the renew loops run, calls are answered and pods are started
\* again.
FairLeaseSpec ==
    /\ LeaseSpec
    /\ WF_leaseVars(Tick)
    /\ \A p \in Process : WF_leaseVars(Round(p)) /\ WF_leaseVars(Start(p))

-----------------------------------------------------------------------------
(* Properties.                                                             *)

\* At most one process believes it leads (docs/architecture.md: "one leader
\* (Lease)").  The timeouts of the code do not give that: a leader that cannot
\* reach the API server goes on believing until its attempt has failed, and by
\* then the Lease may have expired and be another's.
OneLeader == \A p, q \in Process : isLeader[p] /\ isLeader[q] => p = q

\* What they do give: a process from which the Lease was taken believes in its
\* lead for less than the attempt that renewed it, the pause and the attempt that
\* fails last beyond the lease (30 seconds, by try_acquire_or_renew's 10 s, 5 s
\* and 15 s).
BriefOverlap ==
    \A p \in Process : isLeader[p] /\ holder # p => Lease + usurped[p] < Longest

\* The Lease changes hands only when the holder has not renewed it for longer
\* than the lease lasts, or has given it back.
TakeoverAfterExpiry ==
    [][\A p, q \in Process : holder = p /\ holder' = q /\ p # q => age > Lease]_leaseVars

\* There is a leader again and again, whatever calls fail and processes stop,
\* unless the renew thread of every process has died creating the Lease: then
\* nobody leads until a pod is restarted (_renew_loop).
SomeoneLeads ==
    \/ []<>(\E p \in Process : isLeader[p])
    \/ <>[](\A p \in Process : At(p, "dead"))
=============================================================================

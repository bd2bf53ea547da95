------------------------- MODULE LeaderLease_proofs --------------------------
(***************************************************************************)
(* How long a controller may go on believing that it leads, for every      *)
(* number of pods, every lease, pause and call time, and every number of   *)
(* failed calls and crashes.                                               *)
(*                                                                         *)
(* BriefOverlap is not inductive: it does not say how much longer a        *)
(* process will believe.  LInv does, by the timers of its renew loop: they *)
(* bound the age of the Lease while the process holds it, and from the     *)
(* takeover on the lease and the time since.                               *)
(***************************************************************************)
EXTENDS LeaderLease, TLAPS

\* What a copy that is still current says of the Lease.
CopiesHold ==
    \A p \in Process : At(p, "write") /\ elector[p].fresh =>
        /\ elector[p].seen = "absent"  => holder = NoLease
        /\ elector[p].seen = "mine"    => holder = p
        /\ elector[p].seen = "expired" => age > Lease
        /\ elector[p].seen # "nothing"

\* Before there is a Lease nobody leads, and who creates it did not lead.
NoneBefore ==
    /\ holder = NoLease => \A p \in Process : ~isLeader[p] /\ ~At(p, "answer")
    /\ \A p \in Process : elector[p].seen = "absent" => ~isLeader[p]

\* What n ticks since the renewal say: of the Lease as long as p holds it, and of
\* the time since it was taken, which was after it had expired.
Within(p, n) == IF holder = p THEN age <= n ELSE Lease + usurped[p] < n

\* A process that leads, or has just been granted the Lease, renewed it as long
\* ago as its own timers allow.
LeadersTimed ==
    \A p \in Process : isLeader[p] \/ At(p, "answer") =>
        /\ At(p, "sleep") => Within(p, 2 * Slow + elector[p].slept)
        /\ At(p, "read") \/ At(p, "write") => Within(p, 2 * Slow + Renew + elector[p].since)
        /\ At(p, "answer") => Within(p, elector[p].since)
        /\ ~At(p, "down") /\ ~At(p, "dead")

LInv == LeaseTypeOK /\ CopiesHold /\ NoneBefore /\ LeadersTimed

Phases == {"down", "dead", "sleep", "read", "write", "answer"}
Attempts == [pc : Phases, slept : 0..Renew, since : 0..2 * Slow,
             seen : {"nothing", "absent", "mine", "expired"}, fresh : BOOLEAN]

-----------------------------------------------------------------------------
\* The records the renew loop starts from are attempts.
LEMMA StartsAreAttempts ==
  /\ Attempt \in Attempts /\ Attempt.pc = "read" /\ Attempt.since = 0 /\ Attempt.seen = "nothing"
  /\ Asleep \in Attempts /\ Asleep.pc = "sleep" /\ Asleep.slept = 0 /\ Asleep.seen = "nothing"
  /\ Down \in Attempts /\ Down.pc = "down" /\ Down.seen = "nothing"
  /\ Dead \in Attempts /\ Dead.pc = "dead" /\ Dead.seen = "nothing"
  BY LeaseAssumption DEF Attempt, Asleep, Down, Dead, Attempts, Phases

\* The facts about p that every step of p starts from.
LEMMA TypesOf ==
  ASSUME LInv, NEW p \in Process
  PROVE  /\ elector \in [Process -> Attempts]
         /\ elector[p] \in Attempts
         /\ elector[p].pc \in Phases
         /\ elector[p].slept \in 0..Renew
         /\ elector[p].since \in 0..2 * Slow
         /\ isLeader[p] \in BOOLEAN
         /\ isLeader \in [Process -> BOOLEAN]
         /\ isLeader = [isLeader EXCEPT ![p] = isLeader[p]]
         /\ usurped[p] \in 0..Longest
         /\ faults \in 0..MaxFaults
         /\ age \in 0..Ancient
         /\ Ancient \in Nat /\ Longest \in Nat
  BY LeaseAssumption DEF LInv, LeaseTypeOK, Attempts, Phases, Ancient, Longest

\* The initial state.
LEMMA InitLInv == LeaseInit => LInv
  <1> SUFFICES ASSUME LeaseInit PROVE LInv
    OBVIOUS
  <1>1. LeaseTypeOK
    BY LeaseAssumption, StartsAreAttempts
    DEF LeaseInit, LeaseTypeOK, Attempts, Phases, Ancient, Longest
  <1>2. \A p \in Process : At(p, "read") /\ ~isLeader[p]
    BY DEF LeaseInit, At, Attempt
  <1> QED
    BY <1>1, <1>2 DEF LInv, CopiesHold, NoneBefore, LeadersTimed, At

-----------------------------------------------------------------------------
(* Every step keeps LInv.                                                  *)

\* The timers of an attempt stay within their bounds.
LEMMA OlderIsAttempt ==
  ASSUME NEW e \in Attempts, MayWait(e)
  PROVE  /\ Older(e) \in Attempts
         /\ Older(e).pc = e.pc /\ Older(e).seen = e.seen /\ Older(e).fresh = e.fresh
         /\ e.pc = "sleep" => Older(e).slept = e.slept + 1
         /\ e.pc \in {"read", "write", "answer"} => Older(e).since = e.since + 1
  <1> USE LeaseAssumption
  <1>1. e.pc \in Phases /\ e.slept \in 0..Renew /\ e.since \in 0..2 * Slow
    BY DEF Attempts
  <1>2. CASE e.pc \in {"down", "dead"}
    BY <1>2 DEF Older
  <1>3. CASE e.pc = "sleep"
    <2>1. Older(e) = [e EXCEPT !.slept = @ + 1] /\ e.slept + 1 \in 0..Renew
      BY <1>1, <1>3 DEF Older, MayWait
    <2> QED
      BY <1>3, <2>1 DEF Attempts
  <1>4. CASE e.pc \in {"read", "write", "answer"}
    <2>1. Older(e) = [e EXCEPT !.since = @ + 1] /\ e.since + 1 \in 0..2 * Slow
      BY <1>1, <1>4 DEF Older, MayWait
    <2> QED
      BY <1>4, <2>1 DEF Attempts
  <1> QED
    BY <1>1, <1>2, <1>3, <1>4 DEF Phases

\* Time passes: the Lease, and the time since it was taken, grow no faster than the
\* timers of whoever believes.
LEMMA TickLInv == LInv /\ Tick => LInv'
  <1> SUFFICES ASSUME LInv, Tick PROVE LInv'
    OBVIOUS
  <1> USE LeaseAssumption
  <1>1. /\ age \in 0..Ancient /\ Ancient \in Nat /\ Longest \in Nat
        /\ age' \in 0..Ancient
        /\ age' <= age + 1 /\ age <= age'
        /\ UNCHANGED <<holder, isLeader, faults>>
    BY DEF LInv, LeaseTypeOK, Tick, Ancient, Longest
  <1>2. \A p \in Process : elector[p] \in Attempts /\ elector'[p] = Older(elector[p])
                            /\ MayWait(elector[p])
    BY DEF LInv, LeaseTypeOK, Tick, Attempts, Phases
  <1>3. \A p \in Process :
           /\ elector'[p] \in Attempts
           /\ elector'[p].pc = elector[p].pc
           /\ elector'[p].seen = elector[p].seen
           /\ elector'[p].fresh = elector[p].fresh
           /\ At(p, "sleep") => elector'[p].slept = elector[p].slept + 1
           /\ At(p, "read") \/ At(p, "write") \/ At(p, "answer")
                => elector'[p].since = elector[p].since + 1
    BY <1>2, OlderIsAttempt DEF At
  <1>4. \A p \in Process :
           /\ usurped[p] \in 0..Longest /\ usurped'[p] \in 0..Longest
           /\ usurped'[p] <= usurped[p] + 1
    BY <1>1 DEF LInv, LeaseTypeOK, Tick
  <1>5. LeaseTypeOK'
    <2>1. elector' \in [Process -> Attempts] /\ usurped' \in [Process -> 0..Longest]
      BY <1>3, <1>4 DEF Tick
    <2> QED
      BY <1>1, <2>1 DEF LInv, LeaseTypeOK, Attempts, Phases, Ancient, Longest
  <1>6. CopiesHold'
    BY <1>1, <1>3 DEF LInv, CopiesHold, At
  <1>7. NoneBefore'
    BY <1>1, <1>3 DEF LInv, NoneBefore, At
  <1>8. LeadersTimed'
    <2> SUFFICES ASSUME NEW p \in Process, (isLeader[p] \/ At(p, "answer"))'
                 PROVE  (/\ At(p, "sleep") => Within(p, 2 * Slow + elector[p].slept)
                         /\ At(p, "read") \/ At(p, "write")
                              => Within(p, 2 * Slow + Renew + elector[p].since)
                         /\ At(p, "answer") => Within(p, elector[p].since)
                         /\ ~At(p, "down") /\ ~At(p, "dead"))'
      BY DEF LeadersTimed
    <2>1. isLeader[p] \/ At(p, "answer")
      BY <1>1, <1>3 DEF At
    <2>2. ASSUME NEW n \in Nat, Within(p, n)
          PROVE  IF holder' = p THEN age' <= n + 1 ELSE Lease + usurped'[p] < n + 1
      BY <1>1, <1>4, <2>2 DEF Within
    <2>3. elector[p].slept \in Nat /\ elector[p].since \in Nat
      BY <1>2 DEF Attempts
    <2>4. CASE At(p, "sleep")
      <3>1. Within(p, 2 * Slow + elector[p].slept)
        BY <2>1, <2>4 DEF LInv, LeadersTimed
      <3>2. elector'[p].slept = elector[p].slept + 1 /\ elector'[p].pc = "sleep"
        BY <1>3, <2>4 DEF At
      <3>3. 2 * Slow + elector[p].slept \in Nat
        BY <2>3
      <3>4. IF holder' = p THEN age' <= 2 * Slow + elector[p].slept + 1
            ELSE Lease + usurped'[p] < 2 * Slow + elector[p].slept + 1
        BY <2>2, <3>1, <3>3
      <3>5. 2 * Slow + elector'[p].slept = 2 * Slow + elector[p].slept + 1
        BY <2>3, <3>2
      <3> QED
        BY <3>2, <3>4, <3>5 DEF At, Within
    <2>5. CASE At(p, "read") \/ At(p, "write")
      <3>1. Within(p, 2 * Slow + Renew + elector[p].since)
        BY <2>1, <2>5 DEF LInv, LeadersTimed
      <3>2. elector'[p].since = elector[p].since + 1 /\ elector'[p].pc \in {"read", "write"}
        BY <1>3, <2>5 DEF At
      <3>3. 2 * Slow + Renew + elector[p].since \in Nat
        BY <2>3
      <3>4. IF holder' = p THEN age' <= 2 * Slow + Renew + elector[p].since + 1
            ELSE Lease + usurped'[p] < 2 * Slow + Renew + elector[p].since + 1
        BY <2>2, <3>1, <3>3
      <3>5. 2 * Slow + Renew + elector'[p].since = 2 * Slow + Renew + elector[p].since + 1
        BY <2>3, <3>2
      <3> QED
        BY <3>2, <3>4, <3>5 DEF At, Within
    <2>6. CASE At(p, "answer")
      <3>1. Within(p, elector[p].since)
        BY <2>1, <2>6 DEF LInv, LeadersTimed
      <3>2. elector'[p].since = elector[p].since + 1 /\ elector'[p].pc = "answer"
        BY <1>3, <2>6 DEF At
      <3>3. IF holder' = p THEN age' <= elector[p].since + 1
            ELSE Lease + usurped'[p] < elector[p].since + 1
        BY <2>2, <2>3, <3>1
      <3> QED
        BY <3>2, <3>3 DEF At, Within
    <2> QED
      BY <2>1, <2>4, <2>5, <2>6, TypesOf DEF LInv, LeadersTimed, At, Phases
  <1> QED
    BY <1>5, <1>6, <1>7, <1>8 DEF LInv

\* A step of p that changes neither the Lease nor the attempts of others, and
\* after which p does not write on anything but a current copy, nor lead unless
\* its timers allow it.
LEMMA OwnStepLInv ==
  ASSUME LInv, NEW p \in Process, NEW e \in Attempts, NEW b \in BOOLEAN,
         UNCHANGED <<holder, age, usurped>>,
         faults' \in 0..MaxFaults,
         elector' = [elector EXCEPT ![p] = e],
         isLeader' = [isLeader EXCEPT ![p] = b],
         e.pc # "answer",
         e.pc = "write" /\ e.fresh =>
             /\ e.seen = "absent"  => holder = NoLease
             /\ e.seen = "mine"    => holder = p
             /\ e.seen = "expired" => age > Lease
             /\ e.seen # "nothing",
         b => /\ holder # NoLease
              /\ e.seen # "absent"
              /\ e.pc = "sleep" => Within(p, 2 * Slow + e.slept)
              /\ e.pc = "read" \/ e.pc = "write" => Within(p, 2 * Slow + Renew + e.since)
              /\ e.pc # "down" /\ e.pc # "dead"
  PROVE  LInv'
  <1>1. /\ elector \in [Process -> Attempts]
        /\ isLeader \in [Process -> BOOLEAN]
    BY TypesOf
  <1>2. /\ elector'[p] = e /\ isLeader'[p] = b
        /\ \A q \in Process \ {p} : elector'[q] = elector[q] /\ isLeader'[q] = isLeader[q]
    BY <1>1
  <1>3. LeaseTypeOK'
    BY <1>1 DEF LInv, LeaseTypeOK, Attempts, Phases, Ancient, Longest
  <1>4. CopiesHold'
    BY <1>2 DEF LInv, CopiesHold, At
  <1>5. NoneBefore'
    BY <1>2 DEF LInv, NoneBefore, At
  <1>6. LeadersTimed'
    BY <1>2 DEF LInv, LeadersTimed, At, Within
  <1> QED
    BY <1>3, <1>4, <1>5, <1>6 DEF LInv

\* Who believes holds the Lease or has held it.
LEMMA BelieversHeld ==
  ASSUME LInv, NEW p \in Process, isLeader[p] PROVE holder # NoLease /\ elector[p].seen # "absent"
  BY DEF LInv, NoneBefore

\* The pause is over: the attempt begins with the whole pause behind it.
LEMMA WakeLInv == ASSUME LInv, NEW p \in Process, Wake(p) PROVE LInv'
  <1>1. isLeader[p] => Within(p, 2 * Slow + Renew)
    BY DEF LInv, LeadersTimed, Wake
  <1>2. 2 * Slow + Renew + Attempt.since = 2 * Slow + Renew
    BY StartsAreAttempts, LeaseAssumption
  <1>3. /\ UNCHANGED <<holder, age, usurped>> /\ faults' \in 0..MaxFaults
        /\ elector' = [elector EXCEPT ![p] = Attempt]
        /\ isLeader' = [isLeader EXCEPT ![p] = isLeader[p]]
        /\ isLeader[p] \in BOOLEAN
    BY TypesOf DEF Wake
  <1> QED
    BY <1>1, <1>2, <1>3, StartsAreAttempts, BelieversHeld, OwnStepLInv

\* A process that is started again leads nothing.
LEMMA StartLInv == ASSUME LInv, NEW p \in Process, Start(p) PROVE LInv'
  <1>1. ~isLeader[p]
    BY DEF LInv, LeadersTimed, Start
  <1>2. /\ UNCHANGED <<holder, age, usurped>> /\ faults' \in 0..MaxFaults
        /\ elector' = [elector EXCEPT ![p] = Attempt]
        /\ isLeader' = [isLeader EXCEPT ![p] = FALSE]
    BY <1>1, TypesOf DEF Start
  <1> QED
    BY <1>2, StartsAreAttempts, OwnStepLInv

\* An attempt that ends without the Lease.
LEMMA LosesLInv ==
  ASSUME LInv, NEW p \in Process, Ends(p, FALSE), UNCHANGED <<holder, age, usurped>>,
         faults' \in 0..MaxFaults
  PROVE  LInv'
  BY StartsAreAttempts, OwnStepLInv DEF Ends

\* A renew thread dies creating the Lease, so it did not lead.
LEMMA DiesLInv == ASSUME LInv, NEW p \in Process, ThreadDies(p) PROVE LInv'
  <1>1. ~isLeader[p]
    BY DEF LInv, NoneBefore, ThreadDies
  <1>2. /\ UNCHANGED <<holder, age, usurped>> /\ faults' \in 0..MaxFaults
        /\ elector' = [elector EXCEPT ![p] = Dead]
        /\ isLeader' = [isLeader EXCEPT ![p] = FALSE]
    BY <1>1, TypesOf, LeaseAssumption DEF ThreadDies, Fault
  <1> QED
    BY <1>2, StartsAreAttempts, OwnStepLInv

\* The answer to a write: the Lease was as old as the attempt.
LEMMA AcquiredLInv == ASSUME LInv, NEW p \in Process, Acquired(p) PROVE LInv'
  <1>1. At(p, "answer") /\ Within(p, elector[p].since) /\ holder # NoLease
    BY DEF LInv, LeadersTimed, NoneBefore, Acquired
  <1>2. 2 * Slow + Asleep.slept = 2 * Slow
    BY StartsAreAttempts, LeaseAssumption
  <1>3. Within(p, 2 * Slow)
    BY <1>1, TypesOf, LeaseAssumption DEF Within
  <1>4. /\ UNCHANGED <<holder, age, usurped>> /\ faults' \in 0..MaxFaults
        /\ elector' = [elector EXCEPT ![p] = Asleep]
        /\ isLeader' = [isLeader EXCEPT ![p] = TRUE]
    BY TypesOf DEF Acquired, Ends
  <1> QED
    BY <1>1, <1>2, <1>3, <1>4, StartsAreAttempts, OwnStepLInv

\* The read: what the attempt then sets out to write follows from the Lease.
LEMMA ReadLInv == ASSUME LInv, NEW p \in Process, ReadLease(p) PROVE LInv'
  <1>1. CASE Ends(p, FALSE)
    BY <1>1, TypesOf, LosesLInv DEF ReadLease
  <1>2. CASE ~Ends(p, FALSE)
    <2>1. PICK s \in {"absent", "mine", "expired"} :
             /\ elector' = [elector EXCEPT ![p].pc = "write", ![p].seen = s, ![p].fresh = TRUE]
             /\ UNCHANGED isLeader
             /\ s = "absent" => holder = NoLease
             /\ s = "mine" => holder = p
             /\ s = "expired" => Expired(p)
      BY <1>2 DEF ReadLease
    <2> DEFINE e == [elector[p] EXCEPT !.pc = "write", !.seen = s, !.fresh = TRUE]
    <2>2. /\ e \in Attempts /\ e.pc = "write" /\ e.seen = s
          /\ e.since = elector[p].since
      BY <2>1, TypesOf DEF Attempts, Phases
    <2>3. elector' = [elector EXCEPT ![p] = e]
      BY <2>1
    <2>4. s = "expired" => age > Lease
      BY <2>1, TypesOf, LeaseAssumption DEF Expired
    <2>5. isLeader[p] => Within(p, 2 * Slow + Renew + e.since)
      BY <2>2 DEF LInv, LeadersTimed, ReadLease
    <2>6. isLeader[p] => holder # NoLease /\ e.seen # "absent"
      BY <2>1, <2>2, BelieversHeld
    <2>7. UNCHANGED <<holder, age, usurped, faults>>
      BY DEF ReadLease
    <2> HIDE DEF e
    <2> QED
      BY <2>1, <2>2, <2>3, <2>4, <2>5, <2>6, <2>7, TypesOf, OwnStepLInv
  <1> QED
    BY <1>1, <1>2

\* Outdating the copy of an attempt changes nothing else.
LEMMA OutdatedIsAttempt ==
  ASSUME NEW e \in Attempts
  PROVE  /\ [e EXCEPT !.fresh = FALSE] \in Attempts
         /\ [e EXCEPT !.fresh = FALSE].pc = e.pc
         /\ [e EXCEPT !.fresh = FALSE].slept = e.slept
         /\ [e EXCEPT !.fresh = FALSE].since = e.since
         /\ [e EXCEPT !.fresh = FALSE].seen = e.seen
         /\ [e EXCEPT !.fresh = FALSE].fresh = FALSE
  BY DEF Attempts

\* What a write of the Lease does to the others.
LEMMA WritesOthers ==
  ASSUME LInv, NEW p \in Process, NEW e \in Attempts, NEW h, Writes(p, h, e)
  PROVE  /\ elector' \in [Process -> Attempts]
         /\ usurped' \in [Process -> 0..Longest]
         /\ elector'[p] = e
         /\ \A q \in Process \ {p} :
               /\ elector'[q].pc = elector[q].pc
               /\ elector'[q].slept = elector[q].slept
               /\ elector'[q].since = elector[q].since
               /\ elector'[q].seen = elector[q].seen
               /\ ~elector'[q].fresh
               /\ usurped'[q] = IF q = holder THEN 0 ELSE usurped[q]
  <1>1. \A q \in Process : elector[q] \in Attempts /\ usurped[q] \in 0..Longest /\ Longest \in Nat
    BY TypesOf
  <1>2. \A q \in Process \ {p} : elector'[q] = [elector[q] EXCEPT !.fresh = FALSE]
    BY DEF Writes
  <1>3. elector'[p] = e /\ elector' = [q \in Process |-> elector'[q]]
    BY DEF Writes
  <1>4. elector' \in [Process -> Attempts]
    BY <1>1, <1>2, <1>3, OutdatedIsAttempt
  <1>5. usurped' \in [Process -> 0..Longest]
    BY <1>1 DEF Writes
  <1>6. \A q \in Process \ {p} : usurped'[q] = IF q = holder THEN 0 ELSE usurped[q]
    BY DEF Writes
  <1>7. ASSUME NEW q \in Process \ {p}
        PROVE  /\ elector'[q].pc = elector[q].pc
               /\ elector'[q].slept = elector[q].slept
               /\ elector'[q].since = elector[q].since
               /\ elector'[q].seen = elector[q].seen
               /\ ~elector'[q].fresh
    <2>1. elector[q] \in Attempts /\ elector'[q] = [elector[q] EXCEPT !.fresh = FALSE]
      BY <1>1, <1>2
    <2> QED
      BY <2>1, OutdatedIsAttempt
  <1> QED
    BY <1>3, <1>4, <1>5, <1>6, <1>7

\* A write by p: whoever else held the Lease had not renewed it for longer than it
\* lasts, because p found it absent, its own or expired and it has not changed
\* since.
LEMMA WriteLInv == ASSUME LInv, NEW p \in Process, WriteLease(p) PROVE LInv'
  <1> USE LeaseAssumption
  <1> DEFINE e == [elector[p] EXCEPT !.pc = "answer"]
  <1>1. /\ elector[p].pc = "write" /\ elector[p].fresh
        /\ holder' = p /\ age' = elector[p].since
        /\ UNCHANGED <<isLeader, faults>>
        /\ Writes(p, p, e)
    BY DEF WriteLease, Writes, At
  <1>2. /\ e \in Attempts /\ e.pc = "answer" /\ e.since = elector[p].since
        /\ e.seen = elector[p].seen
    BY TypesOf DEF Attempts, Phases
  <1> HIDE DEF e
  <1>3. /\ elector' \in [Process -> Attempts]
        /\ usurped' \in [Process -> 0..Longest]
        /\ elector'[p] = e
        /\ \A q \in Process \ {p} :
              /\ elector'[q].pc = elector[q].pc
              /\ elector'[q].slept = elector[q].slept
              /\ elector'[q].since = elector[q].since
              /\ elector'[q].seen = elector[q].seen
              /\ ~elector'[q].fresh
              /\ usurped'[q] = IF q = holder THEN 0 ELSE usurped[q]
    BY <1>1, <1>2, WritesOthers
  <1>4. LeaseTypeOK'
    <2>1. age' \in 0..Ancient
      BY <1>1, TypesOf DEF Ancient
    <2> QED
      BY <1>1, <1>3, <2>1 DEF LInv, LeaseTypeOK, Attempts, Phases, Ancient, Longest
  <1>5. CopiesHold'
    BY <1>2, <1>3 DEF CopiesHold, At
  <1>6. NoneBefore'
    BY <1>1, <1>2, <1>3 DEF LInv, NoneBefore, At
  <1>7. holder = NoLease \/ holder = p \/ age > Lease
    BY <1>1, TypesOf DEF LInv, CopiesHold, At, Attempts
  <1>8. ASSUME NEW q \in Process \ {p}, NEW n \in Nat, Within(q, n), holder # NoLease
        PROVE  Within(q, n)'
    <2>1. age \in Nat /\ usurped[q] \in Nat
      BY TypesOf
    <2>2. holder' # q
      BY <1>1
    <2>3. CASE holder = q
      BY <1>3, <1>7, <1>8, <2>1, <2>2, <2>3 DEF Within
    <2>4. CASE holder # q
      BY <1>3, <1>8, <2>1, <2>2, <2>4 DEF Within
    <2> QED
      BY <2>3, <2>4
  <1>9. LeadersTimed'
    <2> SUFFICES ASSUME NEW q \in Process, (isLeader[q] \/ At(q, "answer"))'
                 PROVE  (/\ At(q, "sleep") => Within(q, 2 * Slow + elector[q].slept)
                         /\ At(q, "read") \/ At(q, "write")
                              => Within(q, 2 * Slow + Renew + elector[q].since)
                         /\ At(q, "answer") => Within(q, elector[q].since)
                         /\ ~At(q, "down") /\ ~At(q, "dead"))'
      BY DEF LeadersTimed
    <2>1. CASE q = p
      <3>1. age' <= e.since
        BY <1>1, <1>2, TypesOf
      <3> QED
        BY <1>1, <1>2, <1>3, <2>1, <3>1 DEF At, Within
    <2>2. CASE q # p
      <3>1. isLeader[q] \/ At(q, "answer")
        BY <1>1, <1>3, <2>2 DEF At
      <3>2. holder # NoLease
        BY <3>1 DEF LInv, NoneBefore
      <3>3. /\ elector[q].slept \in Nat /\ elector[q].since \in Nat
            /\ 2 * Slow + elector[q].slept \in Nat
            /\ 2 * Slow + Renew + elector[q].since \in Nat
        BY TypesOf
      <3>4. /\ At(q, "sleep") => Within(q, 2 * Slow + elector[q].slept)
            /\ At(q, "read") \/ At(q, "write") => Within(q, 2 * Slow + Renew + elector[q].since)
            /\ At(q, "answer") => Within(q, elector[q].since)
            /\ ~At(q, "down") /\ ~At(q, "dead")
        BY <3>1 DEF LInv, LeadersTimed
      <3>5. /\ At(q, "sleep") => Within(q, 2 * Slow + elector[q].slept)'
            /\ At(q, "read") \/ At(q, "write") => Within(q, 2 * Slow + Renew + elector[q].since)'
            /\ At(q, "answer") => Within(q, elector[q].since)'
        <4>1. /\ elector'[q].slept = elector[q].slept
              /\ elector'[q].since = elector[q].since
          BY <1>3, <2>2
        <4>2. At(q, "sleep") => Within(q, 2 * Slow + elector[q].slept)'
          <5> SUFFICES ASSUME At(q, "sleep") PROVE Within(q, 2 * Slow + elector[q].slept)'
            OBVIOUS
          <5> DEFINE n == 2 * Slow + elector[q].slept
          <5>1. n \in Nat /\ Within(q, n) /\ n' = n
            BY <3>3, <3>4, <4>1
          <5> HIDE DEF n
          <5>2. Within(q, n)'
            BY <1>8, <2>2, <3>2, <5>1 DEF Within
          <5> QED
            BY <5>2 DEF n
        <4>3. At(q, "read") \/ At(q, "write") => Within(q, 2 * Slow + Renew + elector[q].since)'
          <5> SUFFICES ASSUME At(q, "read") \/ At(q, "write")
                       PROVE  Within(q, 2 * Slow + Renew + elector[q].since)'
            OBVIOUS
          <5> DEFINE n == 2 * Slow + Renew + elector[q].since
          <5>1. n \in Nat /\ Within(q, n) /\ n' = n
            BY <3>3, <3>4, <4>1
          <5> HIDE DEF n
          <5>2. Within(q, n)'
            BY <1>8, <2>2, <3>2, <5>1 DEF Within
          <5> QED
            BY <5>2 DEF n
        <4>4. At(q, "answer") => Within(q, elector[q].since)'
          <5> SUFFICES ASSUME At(q, "answer") PROVE Within(q, elector[q].since)'
            OBVIOUS
          <5> DEFINE n == elector[q].since
          <5>1. n \in Nat /\ Within(q, n) /\ n' = n
            BY <3>3, <3>4, <4>1
          <5> HIDE DEF n
          <5>2. Within(q, n)'
            BY <1>8, <2>2, <3>2, <5>1 DEF Within
          <5> QED
            BY <5>2 DEF n
        <4> QED
          BY <4>2, <4>3, <4>4
      <3>6. elector'[q].pc = elector[q].pc
        BY <1>3, <2>2
      <3> QED
        BY <3>4, <3>5, <3>6 DEF At
    <2> QED
      BY <2>1, <2>2
  <1> QED
    BY <1>4, <1>5, <1>6, <1>9 DEF LInv

\* A process that stops leads no more; if it gives the Lease back, nobody else
\* loses it.
LEMMA StopLInv == ASSUME LInv, NEW p \in Process, Stop(p) PROVE LInv'
  <1>1. UNCHANGED age /\ faults' \in 0..MaxFaults
    BY TypesOf, LeaseAssumption DEF Stop, Fault
  <1>2. CASE UNCHANGED <<holder, usurped>> /\ elector' = [elector EXCEPT ![p] = Down]
    BY <1>1, <1>2, StartsAreAttempts, OwnStepLInv DEF Stop
  <1>3. CASE isLeader[p] /\ holder = p /\ Writes(p, Nobody, Down)
    <2>1. isLeader' = [isLeader EXCEPT ![p] = FALSE] /\ holder' = Nobody
      BY <1>3 DEF Stop, Writes
    <2>2. /\ elector' \in [Process -> Attempts]
          /\ usurped' \in [Process -> 0..Longest]
          /\ elector'[p] = Down
          /\ \A q \in Process \ {p} :
                /\ elector'[q].pc = elector[q].pc
                /\ elector'[q].slept = elector[q].slept
                /\ elector'[q].since = elector[q].since
                /\ elector'[q].seen = elector[q].seen
                /\ ~elector'[q].fresh
                /\ usurped'[q] = IF q = holder THEN 0 ELSE usurped[q]
      BY <1>3, StartsAreAttempts, WritesOthers
    <2>3. /\ isLeader'[p] = FALSE /\ isLeader' \in [Process -> BOOLEAN]
          /\ \A q \in Process \ {p} : isLeader'[q] = isLeader[q]
      BY <2>1, TypesOf
    <2>4. LeaseTypeOK'
      BY <1>1, <2>1, <2>2, <2>3 DEF LInv, LeaseTypeOK, Attempts, Phases, Ancient, Longest
    <2>5. CopiesHold'
      BY <2>2, StartsAreAttempts DEF CopiesHold, At
    <2>6. NoneBefore'
      BY <2>1, <2>2, <2>3, StartsAreAttempts, LeaseAssumption DEF LInv, NoneBefore, At
    <2>7. LeadersTimed'
      <3> SUFFICES ASSUME NEW q \in Process, (isLeader[q] \/ At(q, "answer"))'
                   PROVE  (/\ At(q, "sleep") => Within(q, 2 * Slow + elector[q].slept)
                           /\ At(q, "read") \/ At(q, "write")
                                => Within(q, 2 * Slow + Renew + elector[q].since)
                           /\ At(q, "answer") => Within(q, elector[q].since)
                           /\ ~At(q, "down") /\ ~At(q, "dead"))'
        BY DEF LeadersTimed
      <3>1. q # p
        BY <2>2, <2>3, StartsAreAttempts DEF At
      <3>2. /\ elector'[q].pc = elector[q].pc
            /\ elector'[q].slept = elector[q].slept
            /\ elector'[q].since = elector[q].since
            /\ usurped'[q] = usurped[q]
            /\ isLeader'[q] = isLeader[q]
            /\ holder # q /\ holder' # q
        BY <1>3, <2>1, <2>2, <2>3, <3>1, LeaseAssumption
      <3> QED
        BY <3>2 DEF LInv, LeadersTimed, At, Within
    <2> QED
      BY <2>4, <2>5, <2>6, <2>7 DEF LInv
  <1> QED
    BY <1>2, <1>3 DEF Stop

-----------------------------------------------------------------------------
\* Every step keeps LInv.
LEMMA NextLInv == LInv /\ [LeaseNext]_leaseVars => LInv'
  <1> SUFFICES ASSUME LInv, [LeaseNext]_leaseVars PROVE LInv'
    OBVIOUS
  <1>1. CASE UNCHANGED leaseVars
    BY <1>1 DEF leaseVars, LInv, LeaseTypeOK, CopiesHold, NoneBefore, LeadersTimed, Within, At,
                Ancient, Longest
  <1>2. CASE Tick
    BY <1>2, TickLInv
  <1>3. CASE \E p \in Process : Round(p)
    <2> PICK p \in Process : Round(p)
      BY <1>3
    <2>1. CASE WriteConflicts(p)
      BY <2>1, TypesOf, LosesLInv DEF WriteConflicts
    <2> QED
      BY <2>1, WakeLInv, ReadLInv, WriteLInv, AcquiredLInv DEF Round
  <1>4. CASE \E p \in Process : CallFails(p)
    <2> PICK p \in Process : CallFails(p)
      BY <1>4
    <2>1. faults' \in 0..MaxFaults
      BY TypesOf, LeaseAssumption DEF CallFails, Fault
    <2> QED
      BY <2>1, LosesLInv DEF CallFails
  <1>5. CASE \E p \in Process : ThreadDies(p) \/ Stop(p) \/ Start(p)
    BY <1>5, DiesLInv, StopLInv, StartLInv
  <1> QED
    BY <1>1, <1>2, <1>3, <1>4, <1>5 DEF LeaseNext

\* LInv holds throughout, however slow calls are.
THEOREM LeaseInvariance == LeaseSpec => []LInv
  BY InitLInv, NextLInv, PTL DEF LeaseSpec

\* Every attempt, timer and counter stays within its range.
THEOREM LeaseTypes == LeaseSpec => []LeaseTypeOK
  <1>1. LInv => LeaseTypeOK
    BY DEF LInv
  <1> QED
    BY <1>1, LeaseInvariance, PTL

\* A controller that has lost the Lease believes in its lead for less than
\* Longest - Lease, whatever the lease, the pause and the timeouts are
\* (LeaderElector.is_leader).
THEOREM OverlapIsBrief == LeaseSpec => []BriefOverlap
  <1>1. LInv => BriefOverlap
    <2> SUFFICES ASSUME LInv, NEW p \in Process, isLeader[p], holder # p
                 PROVE  Lease + usurped[p] < Longest
      BY DEF BriefOverlap
    <2>1. /\ At(p, "sleep") => Lease + usurped[p] < 2 * Slow + elector[p].slept
          /\ At(p, "read") \/ At(p, "write")
               => Lease + usurped[p] < 2 * Slow + Renew + elector[p].since
          /\ At(p, "answer") => Lease + usurped[p] < elector[p].since
          /\ ~At(p, "down") /\ ~At(p, "dead")
      BY DEF LInv, LeadersTimed, Within
    <2>2. /\ elector[p].pc \in Phases
          /\ elector[p].slept \in 0..Renew
          /\ elector[p].since \in 0..2 * Slow
          /\ usurped[p] \in 0..Longest
      BY TypesOf
    <2> QED
      BY <2>1, <2>2, LeaseAssumption DEF At, Phases, Longest
  <1> QED
    BY <1>1, LeaseInvariance, PTL

\* Nobody takes the Lease from a process before it has expired, however slow calls
\* are: what a copy says is true until the Lease changes, and then the write fails.
THEOREM NoEarlyTakeover == LeaseSpec => TakeoverAfterExpiry
  <1> DEFINE Kept == \A p, q \in Process : holder = p /\ holder' = q /\ p # q => age > Lease
  <1>1. LInv /\ [LeaseNext]_leaseVars => [Kept]_leaseVars
    <2> SUFFICES ASSUME LInv, LeaseNext, NEW p \in Process, NEW q \in Process,
                        holder = p, holder' = q, p # q
                 PROVE  age > Lease
      BY DEF leaseVars
    <2>1. PICK r \in Process : WriteLease(r) \/ Stop(r)
      BY DEF LeaseNext, Tick, Round, Wake, ReadLease, WriteConflicts, Acquired, CallFails,
             ThreadDies, Start
    <2>2. CASE WriteLease(r)
      <3>1. /\ r = q /\ elector[r].pc = "write" /\ elector[r].fresh
            /\ elector[r].seen \in {"nothing", "absent", "mine", "expired"}
        BY <2>2 DEF WriteLease, Writes, At, LInv, LeaseTypeOK
      <3> QED
        BY <3>1, LeaseAssumption DEF LInv, CopiesHold, At
    <2>3. CASE Stop(r)
      BY <2>3, LeaseAssumption DEF Stop, Writes
    <2> QED
      BY <2>1, <2>2, <2>3
  <1> QED
    BY <1>1, LeaseInvariance, PTL DEF LeaseSpec, TakeoverAfterExpiry
=============================================================================

-------------------------- MODULE DeployQueue_proofs --------------------------
(***************************************************************************)
(* Proofs about DeployQueue for any number of deployments, replicas and    *)
(* workers: no deploy is lost, none is sent again without a fault, and     *)
(* the queue implements AtLeastOnce.                                       *)
(***************************************************************************)
EXTENDS DeployQueue, FiniteSetTheorems, SequenceTheorems, TLAPS

\* The deploys that have a stream entry.
Queued == {stream[e] : e \in Entries}

\* A pass locks committed rows only.
LockedRecorded == \A r \in Relay : relay[r].rows \subseteq recorded

\* Between the XADDs and the commit, every row of the batch has its entry.
SentQueued ==
    \A r \in Relay : relay[r].phase = "sent" => relay[r].rows \subseteq Queued

\* Nothing is added to the stream that is not recorded.
QueuedRecorded == Queued \subseteq recorded

\* A row leaves the outbox only for the stream.
RowsAccounted == recorded \subseteq outbox \cup Queued

\* What the group has passed over is pending, acknowledged or trimmed.
EntriesAccounted == \A e \in 1..cursor : e \in pending \cup acked \/ e <= trimmed

\* Redis keeps the newest MaxLen entries.
TrimBound == trimmed = 0 \/ trimmed + MaxLen <= Len(stream)

\* The inductive invariant.
IInv ==
    /\ TypeOK
    /\ IsFiniteSet(recorded)
    /\ LockedRecorded
    /\ SentQueued
    /\ QueuedRecorded
    /\ RowsAccounted
    /\ EntriesAccounted
    /\ TrimBound

-----------------------------------------------------------------------------
(* Lemmas about single steps.                                              *)

\* A pass over finitely many rows takes finitely many of them.
LEMMA FirstRowsOfFinite ==
    ASSUME NEW S, IsFiniteSet(S)
    PROVE  FirstRows(S) \subseteq S /\ IsFiniteSet(FirstRows(S))
<1>1. FirstRows(S) \subseteq S
  BY DEF FirstRows
<1>2. QED
  BY <1>1, FS_Subset

\* Appending the batch S keeps the old entries in place, adds only rows of S, in
\* their order, and gives each of them an entry.
LEMMA AppendBatch ==
    ASSUME NEW S, S \subseteq Deployment, IsFiniteSet(S),
           stream \in Seq(Deployment),
           NEW q \in InIdOrder(S), stream' = stream \o q
    PROVE  /\ stream' \in Seq(Deployment)
           /\ Len(stream') >= Len(stream)
           /\ \A e \in Entries : e \in Entries' /\ stream'[e] = stream[e]
           /\ \A e \in Entries' \ Entries :
                 e - Len(stream) \in 1..Cardinality(S) /\ stream'[e] = q[e - Len(stream)]
           /\ Queued' = Queued \cup S
<1> DEFINE n == Cardinality(S)
<1>1. n \in Nat
  BY FS_CardinalityType
<1> HIDE DEF n
<1>2. /\ q \in [1..n -> S]
      /\ \A d \in S : \E i \in 1..n : q[i] = d
  BY DEF InIdOrder, n
<1>3. q \in Seq(S) /\ Len(q) = n
  BY <1>1, <1>2
<1>4. q \in Seq(Deployment)
  BY <1>3
<1>5. Len(stream) \in Nat
  OBVIOUS
<1>6. /\ stream' \in Seq(Deployment)
      /\ Len(stream') = Len(stream) + n
      /\ \A e \in 1..Len(stream) : stream'[e] = stream[e]
      /\ \A i \in 1..n : stream'[Len(stream) + i] = q[i]
  <2>1. /\ stream \o q \in Seq(Deployment)
        /\ Len(stream \o q) = Len(stream) + Len(q)
        /\ \A i \in 1..(Len(stream) + Len(q)) :
              (stream \o q)[i] = IF i <= Len(stream) THEN stream[i] ELSE q[i - Len(stream)]
    BY <1>4, ConcatProperties
  <2>2. \A i \in 1..n : /\ Len(stream) + i \in 1..(Len(stream) + n)
                        /\ ~(Len(stream) + i <= Len(stream))
                        /\ (Len(stream) + i) - Len(stream) = i
    BY <1>1, <1>5
  <2>3. \A e \in 1..Len(stream) : e \in 1..(Len(stream) + n) /\ e <= Len(stream)
    BY <1>1, <1>5
  <2>4. QED
    BY <2>1, <2>2, <2>3, <1>3
<1>7. \A e \in Entries' \ Entries : e - Len(stream) \in 1..n /\ stream'[e] = q[e - Len(stream)]
  <2> TAKE e \in Entries' \ Entries
  <2>1. e - Len(stream) \in 1..n /\ e = Len(stream) + (e - Len(stream))
    BY <1>1, <1>6, <1>5 DEF Entries
  <2>2. QED
    BY <2>1, <1>6
<1>8. Queued' \subseteq Queued \cup S
  <2> SUFFICES ASSUME NEW e \in Entries' PROVE stream'[e] \in Queued \cup S
    BY DEF Queued
  <2>1. CASE e \in Entries
    BY <2>1, <1>6 DEF Queued, Entries
  <2>2. CASE e \notin Entries
    BY <2>2, <1>2, <1>7
  <2>3. QED
    BY <2>1, <2>2
<1>9. Queued \subseteq Queued'
  BY <1>1, <1>6, <1>5 DEF Queued, Entries
<1>10. S \subseteq Queued'
  <2> SUFFICES ASSUME NEW d \in S PROVE \E e \in Entries' : stream'[e] = d
    BY DEF Queued
  <2>1. PICK i \in 1..n : q[i] = d
    BY <1>2
  <2>2. Len(stream) + i \in Entries' /\ stream'[Len(stream) + i] = d
    BY <2>1, <1>1, <1>6, <1>5 DEF Entries
  <2>3. QED
    BY <2>2
<1>11. /\ Len(stream') >= Len(stream)
       /\ \A e \in Entries : e \in Entries' /\ stream'[e] = stream[e]
  BY <1>1, <1>6, <1>5 DEF Entries
<1>12. Queued' = Queued \cup S
  BY <1>8, <1>9, <1>10
<1>13. QED
  BY <1>6, <1>7, <1>11, <1>12 DEF n

-----------------------------------------------------------------------------
(* The invariant.                                                          *)

LEMMA InitIInv == Init => IInv
<1> SUFFICES ASSUME Init PROVE IInv
  OBVIOUS
<1>1. stream \in Seq(Deployment) /\ Len(stream) = 0
  BY DEF Init
<1>2. TypeOK
  BY <1>1, QueueAssumption DEF Init, TypeOK, Idle
<1>3. IsFiniteSet(recorded)
  BY FS_EmptySet DEF Init
<1>4. LockedRecorded /\ SentQueued
  BY DEF Init, LockedRecorded, SentQueued, Idle
<1>5. QueuedRecorded /\ RowsAccounted /\ EntriesAccounted /\ TrimBound
  BY <1>1 DEF Init, QueuedRecorded, Queued, Entries, RowsAccounted, EntriesAccounted, TrimBound
<1>6. QED
  BY <1>2, <1>3, <1>4, <1>5 DEF IInv

\* A new row: it is in the outbox, and everything else is as it was.
LEMMA RecordIInv ==
    ASSUME IInv, NEW d \in Deployment, Record(d)
    PROVE  IInv'
<1> USE DEF IInv, Record, relayVars, groupVars
<1>1. TypeOK'
  BY DEF TypeOK
<1>2. IsFiniteSet(recorded')
  BY FS_AddElement
<1>3. Queued' = Queued /\ Entries' = Entries
  BY DEF Queued, Entries
<1>4. LockedRecorded' /\ SentQueued' /\ QueuedRecorded' /\ RowsAccounted'
  BY <1>3 DEF LockedRecorded, SentQueued, QueuedRecorded, RowsAccounted
<1>5. EntriesAccounted' /\ TrimBound'
  BY DEF EntriesAccounted, TrimBound
<1>6. QED
  BY <1>1, <1>2, <1>3, <1>4, <1>5

\* The steps of a relay pass that add nothing to the stream.
LEMMA RelayIInv ==
    ASSUME IInv, NEW r \in Relay,
           RelayPick(r) \/ RelayReject(r) \/ RelayCommit(r) \/ RelayFail(r)
    PROVE  IInv'
<1> USE DEF IInv
<1>1. /\ UNCHANGED <<recorded, stream, trimmed, cursor, pending, acked, dlq, working>>
      /\ faults' \in 0..MaxFaults
      /\ outbox' \subseteq outbox
      /\ \A b \in Relay : b # r => relay'[b] = relay[b]
  BY QueueAssumption DEF RelayPick, RelayReject, RelayCommit, RelayFail, groupVars, TypeOK
<1>2. Queued' = Queued
  BY <1>1 DEF Queued, Entries
<1>3. IsFiniteSet(outbox \ Locked)
  BY FS_Subset DEF TypeOK
<1>4. /\ relay'[r] \in [phase : {"idle", "locked", "sent"}, rows : SUBSET Deployment]
      /\ relay'[r].rows \subseteq recorded
      /\ relay'[r].phase # "sent"
  <2>1. Idle \in [phase : {"idle", "locked", "sent"}, rows : SUBSET Deployment]
    BY DEF Idle
  <2>2. CASE RelayPick(r)
    <3>1. FirstRows(outbox \ Locked) \subseteq outbox
      BY <1>3, FirstRowsOfFinite
    <3>2. relay'[r] = [phase |-> "locked", rows |-> FirstRows(outbox \ Locked)]
      BY <2>2 DEF RelayPick, TypeOK
    <3>3. FirstRows(outbox \ Locked) \subseteq recorded /\ recorded \subseteq Deployment
      BY <3>1 DEF TypeOK
    <3> HIDE DEF IInv
    <3>4. QED
      BY <3>2, <3>3
  <2>3. CASE RelayReject(r) \/ RelayCommit(r) \/ RelayFail(r)
    <3>1. relay'[r] = Idle
      BY <2>3 DEF RelayReject, RelayCommit, RelayFail, TypeOK
    <3>2. QED
      BY <2>1, <3>1 DEF Idle
  <2>4. QED
    BY <2>2, <2>3
<1>5. relay' \in [Relay -> [phase : {"idle", "locked", "sent"}, rows : SUBSET Deployment]]
  <2>1. relay' = [relay EXCEPT ![r] = relay'[r]]
    BY DEF RelayPick, RelayReject, RelayCommit, RelayFail, TypeOK
  <2>2. QED
    BY <1>4, <2>1 DEF TypeOK
<1>6. TypeOK'
  BY <1>1, <1>5 DEF TypeOK
<1>7. LockedRecorded' /\ SentQueued' /\ QueuedRecorded'
  BY <1>1, <1>2, <1>4 DEF LockedRecorded, SentQueued, QueuedRecorded
<1>8. RowsAccounted'
  <2>1. CASE outbox' = outbox
    BY <2>1, <1>1, <1>2 DEF RowsAccounted
  <2>2. CASE RelayCommit(r)
    BY <2>2, <1>1, <1>2 DEF RelayCommit, RowsAccounted, SentQueued
  <2>3. QED
    BY <2>1, <2>2 DEF RelayPick, RelayReject, RelayFail
<1>9. EntriesAccounted' /\ TrimBound'
  BY <1>1 DEF EntriesAccounted, TrimBound
<1>10. QED
  BY <1>1, <1>6, <1>7, <1>8, <1>9

\* The XADDs of a batch.
LEMMA SendIInv ==
    ASSUME IInv, NEW r \in Relay, RelaySend(r)
    PROVE  IInv'
<1> USE DEF IInv
<1> DEFINE S == relay[r].rows
<1>1. S \subseteq recorded /\ S \subseteq Deployment /\ IsFiniteSet(S)
  BY FS_Subset DEF LockedRecorded, TypeOK
<1>2. PICK q \in InIdOrder(S) : stream' = stream \o q
  BY DEF RelaySend
<1>3. /\ stream' \in Seq(Deployment)
      /\ Len(stream') >= Len(stream)
      /\ \A e \in Entries : e \in Entries' /\ stream'[e] = stream[e]
      /\ Queued' = Queued \cup S
  BY <1>1, <1>2, AppendBatch DEF TypeOK
<1>4. /\ trimmed' \in trimmed..Len(stream')
      /\ trimmed' = trimmed \/ trimmed' + MaxLen <= Len(stream')
  BY DEF RelaySend
<1>5. Len(stream) \in Nat /\ Len(stream') \in Nat
  BY <1>3 DEF TypeOK
<1>6. /\ UNCHANGED <<recorded, outbox, cursor, pending, acked, dlq, working, faults>>
      /\ relay' = [relay EXCEPT ![r].phase = "sent"]
  BY DEF RelaySend, groupVars
<1>7. TypeOK'
  <2>1. relay' \in [Relay -> [phase : {"idle", "locked", "sent"}, rows : SUBSET Deployment]]
    BY <1>6 DEF TypeOK
  <2>2. trimmed' \in 0..Len(stream') /\ cursor' \in 0..Len(stream')
    BY <1>3, <1>4, <1>5, <1>6 DEF TypeOK
  <2>3. QED
    BY <1>3, <1>6, <2>1, <2>2 DEF TypeOK
<1>8. /\ \A b \in Relay : relay'[b].rows = relay[b].rows
      /\ \A b \in Relay : b # r => relay'[b].phase = relay[b].phase
  BY <1>6 DEF TypeOK
<1>9. LockedRecorded'
  BY <1>6, <1>8 DEF LockedRecorded
<1>10. SentQueued'
  BY <1>3, <1>8 DEF SentQueued
<1>11. QueuedRecorded' /\ RowsAccounted'
  BY <1>1, <1>3, <1>6 DEF QueuedRecorded, RowsAccounted
<1>12. EntriesAccounted'
  BY <1>4, <1>5, <1>6 DEF EntriesAccounted, TypeOK
<1>13. TrimBound'
  BY <1>3, <1>4, <1>5, QueueAssumption DEF TrimBound, TypeOK
<1>14. QED
  BY <1>6, <1>7, <1>9, <1>10, <1>11, <1>12, <1>13

\* What the consumer group does to its cursor and its pending entries.
LEMMA GroupIInv ==
    ASSUME IInv, NEW c \in Consumer, GroupNext(c)
    PROVE  IInv'
<1> USE DEF IInv
<1>1. UNCHANGED <<recorded, outbox, relay, stream, trimmed>>
  BY DEF GroupNext, Read, WorkerCrash, Ack, DeadLetter, Abandon, Reclaim, relayVars
<1>2. Queued' = Queued
  BY <1>1 DEF Queued, Entries
<1>3. /\ LockedRecorded' /\ SentQueued' /\ QueuedRecorded'
      /\ RowsAccounted' /\ TrimBound' /\ IsFiniteSet(recorded')
  BY <1>1, <1>2 DEF LockedRecorded, SentQueued, QueuedRecorded, RowsAccounted, TrimBound
<1>4. Len(stream) \in Nat
  BY DEF TypeOK
<1> DEFINE GroupOK == /\ cursor' \in 0..Len(stream)
                      /\ pending' \subseteq 1..cursor'
                      /\ acked' \subseteq 1..cursor'
                      /\ dlq' \subseteq acked'
                      /\ working' \subseteq Consumer \X (1..cursor')
                      /\ faults' \in 0..MaxFaults
                      /\ EntriesAccounted'
<1>5. CASE Read(c)
  <2> DEFINE from == IF cursor < trimmed THEN trimmed ELSE cursor
             to   == IF from + ReadCount < Len(stream) THEN from + ReadCount ELSE Len(stream)
  <2>1. /\ from \in Nat /\ to \in 0..Len(stream)
        /\ cursor <= from /\ from <= to
        /\ from = cursor \/ from = trimmed
    BY <1>4, <1>5, QueueAssumption DEF Read, TypeOK
  <2> HIDE DEF from, to
  <2>2. /\ cursor' = to
        /\ pending' = pending \cup (from + 1)..to
        /\ working' = working \cup ({c} \X ((from + 1)..to))
        /\ UNCHANGED <<acked, dlq, faults>>
    BY <1>5 DEF Read, from, to
  <2>3. 1..cursor \subseteq 1..to /\ (from + 1)..to \subseteq 1..to
    BY <2>1 DEF TypeOK
  <2>4. GroupOK
    <3>1. EntriesAccounted'
      BY <1>1, <2>1, <2>2 DEF EntriesAccounted, TypeOK
    <3>2. QED
      BY <2>1, <2>2, <2>3, <3>1 DEF TypeOK
  <2>5. QED
    BY <1>1, <1>3, <2>4 DEF TypeOK
<1>6. CASE WorkerCrash(c)
  <2>1. GroupOK
    BY <1>1, <1>6, QueueAssumption DEF WorkerCrash, TypeOK, EntriesAccounted
  <2>2. QED
    BY <1>1, <1>3, <2>1 DEF TypeOK
<1>7. ASSUME NEW e \in pending \cup Held, Ack(c, e) \/ DeadLetter(c, e) \/ Abandon(c, e)
      PROVE  IInv'
  <2>1. e \in 1..cursor
    BY <1>7 DEF Ack, DeadLetter, Abandon, TypeOK
  <2>2. /\ UNCHANGED cursor
        /\ pending' \subseteq pending
        /\ acked \subseteq acked' /\ acked' \subseteq acked \cup {e}
        /\ pending \subseteq pending' \cup acked'
        /\ working' \subseteq working
        /\ dlq' \subseteq acked'
        /\ faults' \in 0..MaxFaults
    <3>1. CASE Ack(c, e)
      BY <3>1 DEF Ack, TypeOK
    <3>2. CASE DeadLetter(c, e)
      BY <3>2 DEF DeadLetter, TypeOK
    <3>3. CASE Abandon(c, e)
      BY <3>3, QueueAssumption DEF Abandon, TypeOK
    <3>4. QED
      BY <1>7, <3>1, <3>2, <3>3
  <2>3. GroupOK
    BY <1>1, <2>1, <2>2 DEF TypeOK, EntriesAccounted
  <2>4. QED
    BY <1>1, <1>3, <2>3 DEF TypeOK
<1>8. ASSUME NEW S \in SUBSET pending, Reclaim(c, S)
      PROVE  IInv'
  <2>1. /\ pending' = pending \ {e \in S : e <= trimmed}
        /\ working' = working \cup ({c} \X {e \in S : e > trimmed})
        /\ faults' \in 0..MaxFaults
        /\ UNCHANGED <<cursor, acked, dlq>>
    BY <1>8, QueueAssumption DEF Reclaim, TypeOK
  <2>2. GroupOK
    BY <1>1, <2>1 DEF TypeOK, EntriesAccounted
  <2>3. QED
    BY <1>1, <1>3, <2>2 DEF TypeOK
<1>9. QED
  BY <1>5, <1>6, <1>7, <1>8 DEF GroupNext

\* IInv holds in every reachable state.
THEOREM Invariance == Safety => []IInv
<1>1. IInv /\ [Next]_vars => IInv'
  <2> SUFFICES ASSUME IInv, [Next]_vars PROVE IInv'
    OBVIOUS
  <2>1. ASSUME NEW d \in Deployment, Record(d) PROVE IInv'
    BY <2>1, RecordIInv
  <2>2. ASSUME NEW r \in Relay, RelayNext(r) PROVE IInv'
    BY <2>2, RelayIInv, SendIInv DEF RelayNext
  <2>3. ASSUME NEW c \in Consumer, GroupNext(c) PROVE IInv'
    BY <2>3, GroupIInv
  <2>4. CASE UNCHANGED vars
    BY <2>4 DEF vars, relayVars, groupVars, IInv, TypeOK, LockedRecorded, SentQueued,
                QueuedRecorded, RowsAccounted, EntriesAccounted, TrimBound, Queued, Entries
  <2>5. QED
    BY <2>1, <2>2, <2>3, <2>4 DEF Next
<1>2. QED
  BY <1>1, InitIInv, PTL DEF Safety

\* The variables keep their types: in particular no row waits in the outbox that
\* is not recorded, and nothing is acknowledged or dead-lettered that the group
\* did not deliver (queue_client.py).
THEOREM TypeCorrect == Safety => []TypeOK
<1>1. IInv => TypeOK
  BY DEF IInv
<1>2. QED
  BY <1>1, Invariance, PTL

\* No recorded deploy is lost: whatever the relays, the workers and the faults
\* do, it is in the outbox, owed to a worker or settled, or MaxLen newer entries
\* have pushed it out of the stream (background._relay_outbox_once,
\* queue_client).
THEOREM DeploysSurvive == Safety => []NoLostDeploy
<1>1. IInv => NoLostDeploy
  <2> SUFFICES ASSUME IInv, NEW d \in recorded, d \notin outbox
               PROVE  \E e \in EntriesOf(d) : e \in acked \/ Owed(e) \/ Overrun(e)
    BY DEF NoLostDeploy
  <2>1. PICK e \in Entries : stream[e] = d
    BY DEF IInv, RowsAccounted, Queued
  <2>2. e \in EntriesOf(d)
    BY <2>1 DEF EntriesOf
  <2>3. e \in Nat /\ trimmed \in Nat /\ cursor \in Nat /\ Len(stream) \in Nat
    BY DEF IInv, TypeOK, Entries
  <2>4. CASE e <= trimmed
    BY <2>2, <2>3, <2>4, QueueAssumption DEF IInv, TrimBound, Overrun, Entries
  <2>5. CASE e > trimmed
    BY <2>2, <2>3, <2>5 DEF IInv, EntriesAccounted, Owed, Entries
  <2>6. QED
    BY <2>3, <2>4, <2>5
<1>2. QED
  BY <1>1, Invariance, PTL

-----------------------------------------------------------------------------
(* How often a deploy is in the stream.                                    *)

\* A row of the outbox that a pass has yet to send, for the first time or again.
Unsent(d) ==
    /\ d \in outbox
    /\ \A r \in Relay : relay[r].phase = "sent" => d \notin relay[r].rows

\* The locks: each pass holds rows of the outbox, and no two hold the same one.
LocksApart ==
    /\ \A r \in Relay : relay[r].rows \subseteq outbox
    /\ \A r, b \in Relay : r # b => relay[r].rows \cap relay[b].rows = {}

\* Every entry but one took a fault, and for a row that will be sent the one is
\* still to come.
EntriesCounted ==
    \A d \in Deployment : /\ Cardinality(EntriesOf(d)) <= 1 + faults
                          /\ Unsent(d) => Cardinality(EntriesOf(d)) <= faults

\* The inductive invariant behind DuplicatesNeedFaults, beside IInv.
DupInv == LocksApart /\ EntriesCounted

LEMMA EntriesFinite ==
    ASSUME NEW d
    PROVE  /\ stream \in Seq(Deployment)
                => IsFiniteSet(EntriesOf(d)) /\ Cardinality(EntriesOf(d)) \in Nat
           /\ stream' \in Seq(Deployment)
                => IsFiniteSet(EntriesOf(d)') /\ Cardinality(EntriesOf(d)') \in Nat
<1>1. ASSUME NEW s \in Seq(Deployment), NEW A \in SUBSET (1..Len(s))
      PROVE  IsFiniteSet(A) /\ Cardinality(A) \in Nat
  <2>1. Len(s) \in Nat
    OBVIOUS
  <2>2. IsFiniteSet(1..Len(s))
    BY <2>1, FS_Interval
  <2>3. QED
    BY <2>2, FS_Subset, FS_CardinalityType
<1>2. EntriesOf(d) \subseteq 1..Len(stream) /\ EntriesOf(d)' \subseteq 1..Len(stream')
  BY DEF EntriesOf, Entries
<1>3. QED
  BY <1>1, <1>2

\* A set with one more element at most.
LEMMA OneMore ==
    ASSUME NEW A, IsFiniteSet(A), NEW B, A \subseteq B, \A e, f \in B \ A : e = f
    PROVE  Cardinality(B) <= Cardinality(A) + 1
<1>1. Cardinality(A) \in Nat
  BY FS_CardinalityType
<1>2. CASE B = A
  BY <1>1, <1>2
<1>3. CASE B # A
  <2>1. PICK e : B = A \cup {e}
    BY <1>3
  <2>2. Cardinality(A \cup {e}) = IF e \in A THEN Cardinality(A) ELSE Cardinality(A) + 1
    BY FS_AddElement
  <2>3. QED
    BY <1>1, <2>1, <2>2
<1>4. QED
  BY <1>2, <1>3

\* A batch gives each of its rows one entry, and no other deploy any.
LEMMA AppendOnce ==
    ASSUME NEW S, S \subseteq Deployment, IsFiniteSet(S), stream \in Seq(Deployment),
           NEW q \in InIdOrder(S), stream' = stream \o q, NEW d \in Deployment
    PROVE  IF d \in S THEN Cardinality(EntriesOf(d)') <= Cardinality(EntriesOf(d)) + 1
                     ELSE EntriesOf(d)' = EntriesOf(d)
<1>1. /\ \A e \in Entries : e \in Entries' /\ stream'[e] = stream[e]
      /\ \A e \in Entries' \ Entries :
            e - Len(stream) \in 1..Cardinality(S) /\ stream'[e] = q[e - Len(stream)]
  BY AppendBatch
<1>2. /\ q \in [1..Cardinality(S) -> S]
      /\ \A i, j \in 1..Cardinality(S) : i < j => q[i] < q[j]
  BY DEF InIdOrder
<1>3. EntriesOf(d) \subseteq EntriesOf(d)'
  BY <1>1 DEF EntriesOf
<1>4. \A e \in EntriesOf(d)' \ EntriesOf(d) :
         e \in Nat /\ e - Len(stream) \in 1..Cardinality(S) /\ q[e - Len(stream)] = d
  BY <1>1 DEF EntriesOf, Entries
<1>5. ASSUME NEW e \in EntriesOf(d)' \ EntriesOf(d), NEW f \in EntriesOf(d)' \ EntriesOf(d)
      PROVE  e = f
  <2>1. d \in Nat /\ e \in Nat /\ f \in Nat /\ Len(stream) \in Nat
    BY <1>4, QueueAssumption
  <2>2. ~ (e - Len(stream) < f - Len(stream)) /\ ~ (f - Len(stream) < e - Len(stream))
    BY <1>2, <1>4, <2>1
  <2>3. QED
    BY <2>1, <2>2
<1>6. d \notin S => EntriesOf(d)' \subseteq EntriesOf(d)
  BY <1>2, <1>4
<1>7. IsFiniteSet(EntriesOf(d))
  BY EntriesFinite
<1>8. Cardinality(EntriesOf(d)') <= Cardinality(EntriesOf(d)) + 1
  BY <1>3, <1>5, <1>7, OneMore
<1>9. d \notin S => EntriesOf(d)' = EntriesOf(d)
  BY <1>3, <1>6
<1>10. QED
  BY <1>8, <1>9

\* A step that adds no entry, after which a row is to be sent that was not only
\* at the price of a fault.
LEMMA CountKept ==
    ASSUME IInv, EntriesCounted, UNCHANGED stream,
           \/ faults' = faults /\ \A d \in Deployment : Unsent(d)' => Unsent(d)
           \/ faults' = faults + 1
    PROVE  EntriesCounted'
<1>1. \A d : EntriesOf(d)' = EntriesOf(d) /\ Cardinality(EntriesOf(d)) \in Nat
  BY EntriesFinite DEF EntriesOf, Entries, IInv, TypeOK
<1>2. faults \in Nat
  BY QueueAssumption DEF IInv, TypeOK
<1>3. QED
  BY <1>1, <1>2 DEF EntriesCounted

\* A new row has no entry yet.
LEMMA RecordDupInv ==
    ASSUME IInv, DupInv, NEW d \in Deployment, Record(d)
    PROVE  DupInv'
<1>1. /\ outbox' = outbox \cup {d} /\ d \notin recorded
      /\ UNCHANGED <<relay, stream, faults>>
  BY DEF Record, groupVars
<1>2. LocksApart'
  BY <1>1 DEF DupInv, LocksApart
<1>3. EntriesOf(d) = {}
  BY <1>1 DEF EntriesOf, IInv, QueuedRecorded, Queued
<1>4. faults \in Nat
  BY QueueAssumption DEF IInv, TypeOK
<1>5. Cardinality(EntriesOf(d)) = 0
  BY <1>3, FS_EmptySet
<1>6. \A b \in Deployment : /\ EntriesOf(b)' = EntriesOf(b)
                            /\ Unsent(b)' => Unsent(b) \/ b = d
  BY <1>1 DEF EntriesOf, Entries, Unsent
<1>7. EntriesCounted'
  BY <1>1, <1>4, <1>5, <1>6 DEF DupInv, EntriesCounted
<1>8. QED
  BY <1>2, <1>7 DEF DupInv

\* The XADDs give each row of the batch, which no other pass holds, an entry; it
\* is to be sent no more unless the pass fails.
LEMMA SendDupInv ==
    ASSUME IInv, DupInv, NEW r \in Relay, RelaySend(r)
    PROVE  DupInv'
<1> DEFINE S == relay[r].rows
<1>1. S \subseteq Deployment /\ IsFiniteSet(S) /\ S \subseteq outbox
  BY FS_Subset DEF IInv, LockedRecorded, TypeOK, DupInv, LocksApart
<1>2. PICK q \in InIdOrder(S) : stream' = stream \o q
  BY DEF RelaySend
<1>3. /\ UNCHANGED <<outbox, faults>>
      /\ relay[r].phase = "locked" /\ relay'[r].phase = "sent"
      /\ \A b \in Relay : relay'[b].rows = relay[b].rows
      /\ \A b \in Relay \ {r} : relay'[b].phase = relay[b].phase
  BY DEF RelaySend, IInv, TypeOK
<1>4. LocksApart'
  BY <1>3 DEF DupInv, LocksApart
<1>5. ASSUME NEW d \in Deployment
      PROVE  /\ Cardinality(EntriesOf(d)') <= 1 + faults'
             /\ Unsent(d)' => Cardinality(EntriesOf(d)') <= faults'
  <2>1. IF d \in S THEN Cardinality(EntriesOf(d)') <= Cardinality(EntriesOf(d)) + 1
                   ELSE EntriesOf(d)' = EntriesOf(d)
    BY <1>1, <1>2, AppendOnce DEF IInv, TypeOK
  <2>2. Cardinality(EntriesOf(d)) \in Nat /\ faults \in Nat
    BY EntriesFinite, QueueAssumption DEF IInv, TypeOK
  <2>3. Cardinality(EntriesOf(d)') \in Nat
    <3>1. stream' \in Seq(Deployment)
      BY <1>1, <1>2, AppendBatch DEF IInv, TypeOK
    <3>2. QED
      BY <3>1, EntriesFinite
  <2>4. CASE d \in S
    <3>1. Unsent(d) /\ ~ Unsent(d)'
      BY <1>1, <1>3, <2>4 DEF Unsent, DupInv, LocksApart
    <3>2. Cardinality(EntriesOf(d)) <= faults
      BY <3>1 DEF DupInv, EntriesCounted
    <3>3. QED
      BY <1>3, <2>1, <2>2, <2>3, <2>4, <3>1, <3>2
  <2>5. CASE d \notin S
    <3>1. Unsent(d)' => Unsent(d)
      BY <1>3 DEF Unsent
    <3>2. QED
      BY <1>3, <2>1, <2>5, <3>1 DEF DupInv, EntriesCounted
  <2>6. QED
    BY <2>4, <2>5
<1>6. QED
  BY <1>4, <1>5 DEF DupInv, EntriesCounted

\* A pass locks what no other holds, and lets go of it committed or unsent.
LEMMA RelayDupInv ==
    ASSUME IInv, DupInv, NEW r \in Relay,
           RelayPick(r) \/ RelayReject(r) \/ RelayCommit(r) \/ RelayFail(r)
    PROVE  DupInv'
<1>1. /\ UNCHANGED stream
      /\ \A b \in Relay \ {r} : relay'[b] = relay[b]
  BY DEF RelayPick, RelayReject, RelayCommit, RelayFail, IInv, TypeOK
<1>2. CASE RelayPick(r)
  <2>1. IsFiniteSet(outbox \ Locked)
    BY FS_Subset DEF IInv, TypeOK
  <2>2. /\ relay[r].phase = "idle" /\ UNCHANGED <<outbox, faults>>
        /\ relay'[r] = [phase |-> "locked", rows |-> FirstRows(outbox \ Locked)]
        /\ FirstRows(outbox \ Locked) \subseteq outbox \ Locked
    BY <1>2, <2>1, FirstRowsOfFinite DEF RelayPick, IInv, TypeOK
  <2>3. LocksApart'
    <3>1. /\ relay'[r].rows \subseteq outbox
          /\ \A b \in Relay : relay'[r].rows \cap relay[b].rows = {}
      BY <2>2 DEF Locked
    <3>2. QED
      BY <1>1, <2>2, <3>1 DEF DupInv, LocksApart
  <2>4. \A d \in Deployment : Unsent(d)' => Unsent(d)
    BY <1>1, <2>2 DEF Unsent
  <2>5. QED
    BY <1>1, <2>2, <2>3, <2>4, CountKept DEF DupInv
<1>3. CASE RelayReject(r) \/ RelayCommit(r) \/ RelayFail(r)
  <2>1. relay'[r].phase = "idle" /\ relay'[r].rows = {}
    BY <1>3 DEF RelayReject, RelayCommit, RelayFail, IInv, TypeOK, Idle
  <2>2. outbox' = outbox \/ outbox' = outbox \ relay[r].rows
    BY <1>3 DEF RelayReject, RelayCommit, RelayFail
  <2>3. LocksApart'
    BY <1>1, <2>1, <2>2 DEF DupInv, LocksApart
  <2>4. \/ faults' = faults /\ \A d \in Deployment : Unsent(d)' => Unsent(d)
        \/ faults' = faults + 1
    <3>1. CASE RelayReject(r)
      BY <1>1, <3>1 DEF RelayReject, Unsent
    <3>2. CASE RelayCommit(r)
      BY <1>1, <3>2 DEF RelayCommit, Unsent
    <3>3. QED
      BY <1>3, <3>1, <3>2 DEF RelayFail
  <2>5. QED
    BY <1>1, <2>3, <2>4, CountKept DEF DupInv
<1>4. QED
  BY <1>2, <1>3

\* A deploy's stream entries exceed one by no more than the faults so far, for any
\* number of replicas that relay side by side (FOR UPDATE SKIP LOCKED in
\* background._relay_outbox_once).
THEOREM DuplicatesAreFaults == Safety => []DuplicatesNeedFaults
<1>1. Init => DupInv
  <2> SUFFICES ASSUME Init PROVE DupInv
    OBVIOUS
  <2>1. LocksApart
    BY DEF Init, Idle, LocksApart
  <2>2. \A d : EntriesOf(d) = {}
    BY DEF Init, EntriesOf, Entries
  <2>3. \A d : Cardinality(EntriesOf(d)) = 0
    BY <2>2, FS_EmptySet
  <2>4. QED
    BY <2>1, <2>3 DEF DupInv, EntriesCounted, Init
<1>2. IInv /\ DupInv /\ [Next]_vars => DupInv'
  <2> SUFFICES ASSUME IInv, DupInv, [Next]_vars PROVE DupInv'
    OBVIOUS
  <2>1. ASSUME NEW d \in Deployment, Record(d) PROVE DupInv'
    BY <2>1, RecordDupInv
  <2>2. ASSUME NEW r \in Relay, RelayNext(r) PROVE DupInv'
    BY <2>2, SendDupInv, RelayDupInv DEF RelayNext
  <2>3. ASSUME UNCHANGED <<outbox, relay, stream>>, faults' = faults \/ faults' = faults + 1
        PROVE  DupInv'
    <3>1. LocksApart' /\ \A d \in Deployment : Unsent(d)' => Unsent(d)
      BY <2>3 DEF DupInv, LocksApart, Unsent
    <3>2. QED
      BY <2>3, <3>1, CountKept DEF DupInv
  <2>4. ASSUME NEW c \in Consumer, GroupNext(c) PROVE DupInv'
    BY <2>3, <2>4
       DEF GroupNext, Read, WorkerCrash, Ack, DeadLetter, Abandon, Reclaim, relayVars
  <2>5. CASE UNCHANGED vars
    BY <2>3, <2>5 DEF vars, relayVars
  <2>6. QED
    BY <2>1, <2>2, <2>4, <2>5 DEF Next
<1>3. DupInv => DuplicatesNeedFaults
  BY DEF DupInv, EntriesCounted, DuplicatesNeedFaults
<1>4. QED
  BY <1>1, <1>2, <1>3, Invariance, PTL DEF Safety

-----------------------------------------------------------------------------
(* The queue implements AtLeastOnce.                                       *)

\* The deployments a worker has acknowledged.
Settled == {stream[e] : e \in acked}

\* A step that acknowledges nothing settles nothing.
LEMMA SettledKept ==
    ASSUME acked' = acked, \A e \in acked : stream'[e] = stream[e]
    PROVE  Settled' = Settled
BY DEF Settled

\* The end of a handler settles at most the deployment of its own entry, which
\* is a recorded one.
LEMMA GroupSettles ==
    ASSUME IInv, NEW c \in Consumer, GroupNext(c)
    PROVE  /\ UNCHANGED recorded
           /\ Settled' = Settled
              \/ \E d \in Deployment : d \in recorded \ Settled /\ Settled' = Settled \cup {d}
<1>1. UNCHANGED <<recorded, stream>>
  BY DEF GroupNext, Read, WorkerCrash, Ack, DeadLetter, Abandon, Reclaim
<1>2. CASE UNCHANGED acked
  BY <1>1, <1>2 DEF Settled
<1>3. ASSUME NEW e \in pending \cup Held, Ack(c, e) \/ DeadLetter(c, e)
      PROVE  \/ Settled' = Settled
             \/ \E d \in Deployment : d \in recorded \ Settled /\ Settled' = Settled \cup {d}
  <2>1. acked' = acked \cup {e}
    BY <1>3 DEF Ack, DeadLetter
  <2>2. Settled' = Settled \cup {stream[e]}
    BY <1>1, <2>1 DEF Settled
  <2>3. e \in 1..cursor /\ 1..cursor \subseteq Entries
    BY <1>3 DEF Ack, DeadLetter, IInv, TypeOK, Entries
  <2>4. stream[e] \in recorded /\ recorded \subseteq Deployment
    BY <2>3 DEF IInv, TypeOK, QueuedRecorded, Queued
  <2>5. QED
    BY <2>2, <2>4
<1>4. QED
  BY <1>1, <1>2, <1>3 DEF GroupNext, Read, WorkerCrash, Abandon, Reclaim

\* Every step of the queue is a step of AtLeastOnce or changes nothing it
\* speaks of: each deploy is settled at most once, and only once recorded
\* (the queue's part of docs/decisions.md, decision 2).
THEOREM ImplementsAtLeastOnce == Safety => SettlesWhatWasRecorded
<1> USE DEF Settled
<1>1. Init => ALO!Init
  BY DEF Init, ALO!Init
<1>2. IInv /\ [Next]_vars => [ALO!Next]_(ALO!vars)
  <2> SUFFICES ASSUME IInv, [Next]_vars
               PROVE  ALO!Next \/ (recorded' = recorded /\ Settled' = Settled)
    BY DEF ALO!vars
  <2>1. ASSUME NEW d \in Deployment, Record(d) PROVE ALO!Next
    BY <2>1 DEF Record, groupVars, ALO!Next, ALO!Record
  <2>2. ASSUME NEW r \in Relay, RelayNext(r)
        PROVE  recorded' = recorded /\ Settled' = Settled
    <3>1. UNCHANGED <<recorded, acked>>
      BY <2>2 DEF RelayNext, RelayPick, RelaySend, RelayReject, RelayCommit, RelayFail, groupVars
    <3>2. \A e \in acked : stream'[e] = stream[e]
      <4>1. CASE UNCHANGED stream
        BY <4>1
      <4>2. CASE RelaySend(r)
        <5>1. relay[r].rows \subseteq Deployment /\ IsFiniteSet(relay[r].rows)
          BY FS_Subset DEF IInv, LockedRecorded, TypeOK
        <5>2. PICK q \in InIdOrder(relay[r].rows) : stream' = stream \o q
          BY <4>2 DEF RelaySend
        <5>3. \A e \in Entries : stream'[e] = stream[e]
          BY <5>1, <5>2, AppendBatch DEF IInv, TypeOK
        <5>4. acked \subseteq Entries
          BY DEF IInv, TypeOK, Entries
        <5>5. QED
          BY <5>3, <5>4
      <4>3. QED
        BY <2>2, <4>1, <4>2 DEF RelayNext, RelayPick, RelayReject, RelayCommit, RelayFail
    <3>3. QED
      BY <3>1, <3>2, SettledKept
  <2>3. ASSUME NEW c \in Consumer, GroupNext(c)
        PROVE  ALO!Next \/ (recorded' = recorded /\ Settled' = Settled)
    <3>1. ASSUME NEW d \in Deployment, d \in recorded \ Settled, Settled' = Settled \cup {d},
                 recorded' = recorded
          PROVE  ALO!Next
      BY <3>1 DEF ALO!Next, ALO!Settle
    <3>2. QED
      BY <2>3, <3>1, GroupSettles
  <2>4. CASE UNCHANGED vars
    BY <2>4 DEF vars, groupVars
  <2>5. QED
    BY <2>1, <2>2, <2>3, <2>4 DEF Next
<1>3. QED
  BY <1>1, <1>2, Invariance, PTL DEF Safety, SettlesWhatWasRecorded, ALO!Safety
=============================================================================

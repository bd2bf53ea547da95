----------------------------- MODULE DeployQueue -----------------------------
(***************************************************************************)
(* The path of a deploy message: the transactional outbox the API writes   *)
(* (api/helpers.py), the relay loop of every API replica that moves rows   *)
(* to the Redis Stream (api/background.py), and the consumer group the     *)
(* workers read, acknowledge, dead-letter and reclaim from                 *)
(* (worker/queue_client.py).                                               *)
(*                                                                         *)
(* A deployment stands for its message, and the order of the numbers is    *)
(* the order of the outbox's serial ids.  A stream entry is named by its   *)
(* position; Redis keeps the newest MaxLen entries at least (XADD with     *)
(* maxlen and approximate trimming).                                       *)
(***************************************************************************)
EXTENDS Naturals, Sequences, FiniteSets

CONSTANTS
    Deployment,   \* deployments, numbered in the order of their outbox ids
    Poison,       \* those whose payload redis-py refuses to encode (a null field)
    Relay,        \* API replicas, each running outbox_relay
    Consumer,     \* worker pods, the consumers of the group
    Batch,        \* rows one relay pass takes (LIMIT 10)
    ReadCount,    \* entries one XREADGROUP returns (count=5)
    MaxLen,       \* entries the stream surely keeps (maxlen=10000)
    MaxFaults     \* bound: crashes, lost connections and overlong handlers in a run

ASSUME QueueAssumption ==
    /\ Deployment \subseteq Nat
    /\ Poison \subseteq Deployment
    /\ Batch \in Nat \ {0}
    /\ ReadCount \in Nat \ {0}
    /\ MaxLen \in Nat \ {0}
    /\ MaxFaults \in Nat

VARIABLES
    recorded,     \* deployments whose row and outbox row are committed
    outbox,       \* rows of outbox_events not yet deleted
    relay,        \* per replica: the pass it is in and the rows it has locked
    stream,       \* every entry ever added to deploy_stream, oldest first
    trimmed,      \* entries 1..trimmed are no longer in Redis
    cursor,       \* the group's last-delivered entry
    pending,      \* the group's pending entries list (delivered, not acknowledged)
    acked,        \* entries acknowledged, by XACK alone or with a copy to the DLQ
    dlq,          \* the entries among them that were copied to deploy_stream_dlq
    working,      \* <<c, e>>: a thread of worker c holds entry e
    faults        \* faults so far

relayVars == <<outbox, relay>>
groupVars == <<cursor, pending, acked, dlq, working>>
vars == <<recorded, relayVars, stream, trimmed, groupVars, faults>>

Entries == 1..Len(stream)
EntriesOf(d) == {e \in Entries : stream[e] = d}
Held == {w[2] : w \in working}

-----------------------------------------------------------------------------
(* The relay.                                                              *)

Idle == [phase |-> "idle", rows |-> {}]

\* SELECT ... FOR UPDATE SKIP LOCKED: what the other replicas hold is invisible.
Locked == UNION {relay[r].rows : r \in Relay}

\* ORDER BY id LIMIT Batch over the rows S.
FirstRows(S) ==
    {d \in S : Cardinality({b \in S : b < d}) < Batch}

\* The rows S, each once, in id order: the order of the pipeline's XADDs.
InIdOrder(S) ==
    {q \in [1..Cardinality(S) -> S] :
        /\ \A i, j \in 1..Cardinality(S) : i < j => q[i] < q[j]
        /\ \A d \in S : \E i \in 1..Cardinality(S) : q[i] = d}

TypeOK ==
    /\ recorded \subseteq Deployment
    /\ outbox \subseteq recorded
    /\ relay \in [Relay -> [phase : {"idle", "locked", "sent"},
                            rows : SUBSET Deployment]]
    /\ stream \in Seq(Deployment)
    /\ trimmed \in 0..Len(stream)
    /\ cursor \in 0..Len(stream)
    /\ pending \subseteq 1..cursor
    /\ acked \subseteq 1..cursor
    /\ dlq \subseteq acked
    /\ working \subseteq Consumer \X (1..cursor)
    /\ faults \in 0..MaxFaults

Init ==
    /\ recorded = {}
    /\ outbox = {}
    /\ relay = [r \in Relay |-> Idle]
    /\ stream = <<>>
    /\ trimmed = 0
    /\ cursor = 0
    /\ pending = {}
    /\ acked = {}
    /\ dlq = {}
    /\ working = {}
    /\ faults = 0

\* queue_deployment in the caller's transaction: the deployments row and its
\* outbox row become visible together.
RecordInTwoTransactions(d) ==
    /\ \/ /\ d \notin recorded \cup outbox
          /\ outbox' = outbox \cup {d}
          /\ UNCHANGED recorded
       \/ /\ d \notin recorded
          /\ recorded' = recorded \cup {d}
          /\ UNCHANGED outbox
    /\ UNCHANGED <<relay, stream, trimmed, groupVars, faults>>
Record(d) ==
    /\ d \notin recorded
    /\ recorded' = recorded \cup {d}
    /\ outbox' = outbox \cup {d}
    /\ UNCHANGED <<relay, stream, trimmed, groupVars, faults>>

\* Lock the first Batch rows nobody else has locked.
PickWithoutSkipLocked(r) ==
    /\ relay[r].phase = "idle"
    /\ outbox # {}
    /\ relay' = [relay EXCEPT ![r] = [phase |-> "locked", rows |-> FirstRows(outbox)]]
    /\ UNCHANGED <<recorded, outbox, stream, trimmed, groupVars, faults>>
RelayPick(r) ==
    /\ relay[r].phase = "idle"
    /\ outbox \ Locked # {}
    /\ relay' = [relay EXCEPT ![r] = [phase |-> "locked",
                                      rows |-> FirstRows(outbox \ Locked)]]
    /\ UNCHANGED <<recorded, outbox, stream, trimmed, groupVars, faults>>

\* pipe.execute(): one MULTI/EXEC adds every row of the batch; each XADD may
\* trim what is older than the newest MaxLen entries.
RelaySend(r) ==
    /\ relay[r].phase = "locked"
    /\ relay[r].rows \cap Poison = {}
    /\ \E q \in InIdOrder(relay[r].rows) : stream' = stream \o q
    /\ \E t \in trimmed..Len(stream') :
          /\ t = trimmed \/ t + MaxLen <= Len(stream')
          /\ trimmed' = t
    /\ relay' = [relay EXCEPT ![r].phase = "sent"]
    /\ UNCHANGED <<recorded, outbox, groupVars, faults>>

\* One payload of the batch cannot be encoded: redis-py raises before it sends
\* anything, the transaction rolls back and the loop sleeps.
RelayReject(r) ==
    /\ relay[r].phase = "locked"
    /\ relay[r].rows \cap Poison # {}
    /\ relay' = [relay EXCEPT ![r] = Idle]
    /\ UNCHANGED <<recorded, outbox, stream, trimmed, groupVars, faults>>

\* DELETE the rows of the batch and commit.
RelayCommit(r) ==
    /\ relay[r].phase = "sent"
    /\ outbox' = outbox \ relay[r].rows
    /\ relay' = [relay EXCEPT ![r] = Idle]
    /\ UNCHANGED <<recorded, stream, trimmed, groupVars, faults>>

\* As if the DELETE were committed before the pipeline is executed.
DeleteBeforeSend(r) ==
    /\ relay[r].phase # "idle"
    /\ faults < MaxFaults
    /\ faults' = faults + 1
    /\ outbox' = outbox \ relay[r].rows
    /\ relay' = [relay EXCEPT ![r] = Idle]
    /\ UNCHANGED <<recorded, stream, trimmed, groupVars>>
\* The replica dies, Redis or Postgres drops the connection: the transaction
\* rolls back and the rows stay, whether or not the entries were added.
RelayFail(r) ==
    /\ relay[r].phase # "idle"
    /\ faults < MaxFaults
    /\ faults' = faults + 1
    /\ relay' = [relay EXCEPT ![r] = Idle]
    /\ UNCHANGED <<recorded, outbox, stream, trimmed, groupVars>>

-----------------------------------------------------------------------------
(* The consumer group.                                                     *)

\* XREADGROUP '>': the next ReadCount entries still in Redis.  Trimmed entries
\* are skipped over and never delivered.
Read(c) ==
    LET from == IF cursor < trimmed THEN trimmed ELSE cursor
        to   == IF from + ReadCount < Len(stream) THEN from + ReadCount ELSE Len(stream)
    IN  /\ from < Len(stream)
        /\ cursor' = to
        /\ pending' = pending \cup (from + 1)..to
        /\ working' = working \cup ({c} \X ((from + 1)..to))
        /\ UNCHANGED <<recorded, relayVars, stream, trimmed, acked, dlq, faults>>

\* XACK at the end of process_message.
Ack(c, e) ==
    /\ <<c, e>> \in working
    /\ pending' = pending \ {e}
    /\ acked' = acked \cup {e}
    /\ working' = working \ {<<c, e>>}
    /\ UNCHANGED <<recorded, relayVars, stream, trimmed, cursor, dlq, faults>>

\* add_to_dlq: XADD to the dead-letter stream and XACK in one MULTI/EXEC.
DeadLetterWithoutAck(c, e) ==
    /\ <<c, e>> \in working
    /\ dlq' = dlq \cup {e}
    /\ working' = working \ {<<c, e>>}
    /\ UNCHANGED <<recorded, relayVars, stream, trimmed, cursor, pending, acked, faults>>
DeadLetter(c, e) ==
    /\ <<c, e>> \in working
    /\ pending' = pending \ {e}
    /\ acked' = acked \cup {e}
    /\ dlq' = dlq \cup {e}
    /\ working' = working \ {<<c, e>>}
    /\ UNCHANGED <<recorded, relayVars, stream, trimmed, cursor, faults>>

\* An exception that escapes process_message: logged, the entry stays pending.
Abandon(c, e) ==
    /\ <<c, e>> \in working
    /\ faults < MaxFaults
    /\ faults' = faults + 1
    /\ working' = working \ {<<c, e>>}
    /\ UNCHANGED <<recorded, relayVars, stream, trimmed, cursor, pending, acked, dlq>>

\* The worker pod dies with all its threads.
WorkerCrash(c) ==
    /\ \E w \in working : w[1] = c
    /\ faults < MaxFaults
    /\ faults' = faults + 1
    /\ working' = {w \in working : w[1] # c}
    /\ UNCHANGED <<recorded, relayVars, stream, trimmed, cursor, pending, acked, dlq>>

\* XAUTOCLAIM of the entries S idle for 65 minutes, each handed to a new thread.
\* An entry whose thread is gone needs nothing more than time; one that another
\* pod still works on is a fault.  (A pod may also reclaim what a thread of its
\* own holds; it then acts as a second consumer does.)  Claimed entries that
\* were trimmed leave the pending list without being returned.
ReclaimAndForget(c, S) ==
    /\ S # {}
    /\ S \subseteq pending \ Held
    /\ pending' = pending \ S
    /\ UNCHANGED <<recorded, relayVars, stream, trimmed, cursor, acked, dlq, working, faults>>
Reclaim(c, S) ==
    /\ S # {}
    /\ S \subseteq pending
    /\ \A e \in S : <<c, e>> \notin working
    /\ IF S \cap Held = {} THEN faults' = faults
       ELSE faults < MaxFaults /\ faults' = faults + 1
    /\ pending' = pending \ {e \in S : e <= trimmed}
    /\ working' = working \cup ({c} \X {e \in S : e > trimmed})
    /\ UNCHANGED <<recorded, relayVars, stream, trimmed, cursor, acked, dlq>>

-----------------------------------------------------------------------------
RelayNext(r) ==
    RelayPick(r) \/ RelaySend(r) \/ RelayReject(r) \/ RelayCommit(r) \/ RelayFail(r)

GroupNext(c) ==
    \/ Read(c)
    \/ WorkerCrash(c)
    \/ \E e \in pending \cup Held : Ack(c, e) \/ DeadLetter(c, e) \/ Abandon(c, e)
    \/ \E S \in SUBSET pending : Reclaim(c, S)

Next ==
    \/ \E d \in Deployment : Record(d)
    \/ \E r \in Relay : RelayNext(r)
    \/ \E c \in Consumer : GroupNext(c)

Safety == Init /\ [][Next]_vars

\* The relays and the main loops of the workers run forever, a handler ends,
\* and an entry nobody works on is idle for long enough sooner or later.
\* Users, crashes and lost connections owe nothing.
FairSpec ==
    /\ Safety
    /\ \A r \in Relay : /\ WF_vars(RelayPick(r))
                        /\ WF_vars(RelaySend(r) \/ RelayReject(r))
                        /\ WF_vars(RelayCommit(r))
    /\ \A c \in Consumer :
          /\ WF_vars(Read(c))
          /\ WF_vars(\E e \in Held : Ack(c, e) \/ DeadLetter(c, e))
          /\ WF_vars(\E S \in SUBSET (pending \ Held) : Reclaim(c, S))

-----------------------------------------------------------------------------
(* Properties.                                                             *)

\* An entry the group still owes to a worker: not read yet or delivered and
\* unacknowledged, and still in Redis.
Owed(e) == (e > cursor \/ e \in pending) /\ e > trimmed

\* Trimming may drop an entry only once MaxLen newer ones follow it.
Overrun(e) == e + MaxLen <= Len(stream)

\* A recorded deploy is always somewhere: in the outbox, owed to a worker, or
\* settled.  Whatever the relay's transaction, the group and the crashes do,
\* only a backlog of MaxLen newer entries can lose it (helpers.queue_deployment,
\* background._relay_outbox_once, queue_client.recover_pending_messages).
NoLostDeploy ==
    \A d \in recorded :
        d \in outbox \/ \E e \in EntriesOf(d) : e \in acked \/ Owed(e) \/ Overrun(e)

\* A deploy gets a second stream entry only when a relay pass failed after its
\* XADDs: replicas that relay side by side never send a row twice (FOR UPDATE
\* SKIP LOCKED in _relay_outbox_once).
DuplicatesNeedFaults ==
    \A d \in Deployment : Cardinality(EntriesOf(d)) <= 1 + faults

\* Seen from outside, the queue is AtLeastOnce, where a deploy is settled when
\* the first of its entries is acknowledged.
ALO == INSTANCE AtLeastOnce WITH settled <- {stream[e] : e \in acked}

\* Every step of the queue records or settles one deployment or changes neither;
\* nothing is settled that was not recorded, and a settled one stays settled.
SettlesWhatWasRecorded == ALO!Safety

\* Every recorded deploy is settled, through relay failures, worker crashes and
\* abandoned handlers: AtLeastOnce's liveness, for a deploy no backlog of MaxLen
\* newer entries overran and as long as no row redis-py refuses to encode waits
\* in the outbox.  (Such a row keeps every row that shares a batch with it out of
\* the stream, for ever: background._relay_outbox_once sends a batch as a whole.)
\* Rows are recorded and settled for good, so the set settles as each of it does.
EveryDeploySettles ==
    []<>(\A d \in recorded : \/ \E e \in EntriesOf(d) : e \in acked \/ Overrun(e)
                             \/ Poison \cap outbox # {})
=============================================================================

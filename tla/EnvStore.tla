------------------------------- MODULE EnvStore -------------------------------
(***************************************************************************)
(* The environment variables and secrets of one project                    *)
(* (api/secret_store.py, api/routers/env.py): one Secret Manager secret    *)
(* holding a KEY: value object.  A write endpoint takes a connection of    *)
(* the pool (api/database.py), the project's advisory lock, reads the      *)
(* whole object, stores it again with one key changed, and writes an audit *)
(* entry over a SECOND connection of the same pool while it still holds    *)
(* the first.  ensure_project_secret (at start-up, on creation and in the  *)
(* controller) and delete_project_secret take no lock at all.              *)
(*                                                                         *)
(* The writers are the requests of one API process, which share its pool.  *)
(* Values are left out: which keys are stored is what a lost write shows.  *)
(***************************************************************************)
EXTENDS Integers, FiniteSets

CONSTANTS
    Key,           \* names of variables
    Writer,        \* write requests an API process handles at the same time
    PoolMax,       \* connections of its pool (DB_POOL_MAX)
    Initializer    \* callers of ensure_project_secret

ASSUME EnvAssumption ==
    /\ PoolMax \in Nat \ {0}
    /\ IsFiniteSet(Writer)
    /\ Key # {}

VARIABLES
    deleted,       \* the project's deleted_at is set
    secret,        \* the secret: none, empty (it has no version yet), stored
    values,        \* keys of its latest version
    write,         \* per writer: where its request is, its operation, what it read
    init           \* per initializer: where its call is

storeVars == <<secret, values>>
envVars   == <<deleted, secret, values, write, init>>

Op == {"put", "delete"}

NoWrite == [pc |-> "idle", op |-> "put", key |-> CHOOSE k \in Key : TRUE, read |-> {}]

EnvTypeOK ==
    /\ deleted \in BOOLEAN
    /\ secret \in {"none", "empty", "stored"}
    /\ values \subseteq Key
    /\ secret # "stored" => values = {}
    /\ write \in [Writer -> [pc : {"idle", "connect", "lock", "load", "save", "audit"},
                             op : Op, key : Key, read : SUBSET Key]]
    /\ init \in [Initializer -> {"idle", "ensure", "add"}]

EnvInit ==
    /\ deleted = FALSE
    /\ secret = "none"
    /\ values = {}
    /\ write = [w \in Writer |-> NoWrite]
    /\ init = [i \in Initializer |-> "idle"]

\* Who holds the project's advisory lock, and who a connection.
Holding(w) == write[w].pc \in {"load", "save", "audit"}
Holders    == {w \in Writer : Holding(w)}
Connected  == {w \in Writer : Holding(w) \/ write[w].pc = "lock"}
FreeSlot   == Cardinality(Connected) < PoolMax

Goes(w, from, to) ==
    /\ write[w].pc = from
    /\ write' = [write EXCEPT ![w].pc = to]

-----------------------------------------------------------------------------
(* A write request.                                                        *)

\* verify_project_write_access has found the project.
Arrive(w, op, key) ==
    /\ ~ deleted
    /\ write[w].pc = "idle"
    /\ write' = [write EXCEPT ![w] = [NoWrite EXCEPT !.pc = "connect", !.op = op, !.key = key]]
    /\ UNCHANGED <<deleted, storeVars, init>>

\* get_connection waits for a slot, ten seconds at most: then the answer is 503.
Connect(w) ==
    /\ FreeSlot
    /\ Goes(w, "connect", "lock")
    /\ UNCHANGED <<deleted, storeVars, init>>

Busy(w) ==
    /\ Goes(w, "connect", "idle")
    /\ UNCHANGED <<deleted, storeVars, init>>

\* pg_advisory_xact_lock waits without a limit, holding the connection.
LockShared(w) ==
    /\ Goes(w, "lock", "load")
    /\ UNCHANGED <<deleted, storeVars, init>>
Lock(w) ==
    /\ Holders = {}
    /\ Goes(w, "lock", "load")
    /\ UNCHANGED <<deleted, storeVars, init>>

\* The latest version, or {} for a put when there is none.
Load(w) ==
    /\ write[w].pc = "load"
    /\ secret = "stored" \/ write[w].op = "put"
    /\ write' = [write EXCEPT ![w].read = values,
                              ![w].pc = IF write[w].op = "put" \/ write[w].key \in values
                                        THEN "save" ELSE "idle"]
    /\ UNCHANGED <<deleted, storeVars, init>>

\* Another error; a missing secret is told from it by the error's text only.
LoadFails(w) ==
    /\ Goes(w, "load", "idle")
    /\ UNCHANGED <<deleted, storeVars, init>>

Changed(w) ==
    IF write[w].op = "put" THEN write[w].read \cup {write[w].key}
                           ELSE write[w].read \ {write[w].key}

\* save_env creates the secret if it is gone, and adds a version.
SaveIntoNothing(w) ==
    /\ Goes(w, "save", "audit")
    /\ values' = Changed(w)
    /\ UNCHANGED <<deleted, secret, init>>
Save(w) ==
    /\ Goes(w, "save", "audit")
    /\ secret' = "stored"
    /\ values' = Changed(w)
    /\ UNCHANGED <<deleted, init>>

\* One of the two calls fails: the answer is 500.
SaveFails(w) ==
    /\ Goes(w, "save", "idle")
    /\ secret' \in {secret, IF secret = "none" THEN "empty" ELSE secret}
    /\ UNCHANGED <<deleted, values, init>>

\* log_audit_event over a second connection, then the commit that frees both.
Audit(w) ==
    /\ FreeSlot
    /\ Goes(w, "audit", "idle")
    /\ UNCHANGED <<deleted, storeVars, init>>

\* None is free for ten seconds, or the INSERT fails: swallowed.
AuditLostOnceConnected(w) ==
    /\ FreeSlot
    /\ Goes(w, "audit", "idle")
    /\ UNCHANGED <<deleted, storeVars, init>>
AuditLost(w) ==
    /\ Goes(w, "audit", "idle")
    /\ UNCHANGED <<deleted, storeVars, init>>

-----------------------------------------------------------------------------
(* Calls outside the lock.                                                 *)

\* _bootstrap_secrets: the project was not deleted when the API read the rows.
Bootstrap(i) ==
    /\ ~ deleted
    /\ init[i] = "idle"
    /\ init' = [init EXCEPT ![i] = "ensure"]
    /\ UNCHANGED <<deleted, storeVars, write>>

\* Create the secret, whose failure is ignored, and read its latest version;
\* any error is taken for a version that is missing.
EnsureRead(i) ==
    /\ init[i] = "ensure"
    /\ secret' \in {secret, IF secret = "none" THEN "empty" ELSE secret}
    /\ \/ secret' = "stored" /\ init' = [init EXCEPT ![i] = "idle"]
       \/ init' = [init EXCEPT ![i] = "add"]
    /\ UNCHANGED <<deleted, values, write>>

\* Add {} as the latest version, or fail.
EnsureAdd(i) ==
    /\ init[i] = "add"
    /\ init' = [init EXCEPT ![i] = "idle"]
    /\ \/ secret # "none" /\ secret' = "stored" /\ values' = {}
       \/ UNCHANGED storeVars
    /\ UNCHANGED <<deleted, write>>

\* delete_project: deleted_at first, the secret in a step of its own.
MarkDeleted ==
    /\ ~ deleted
    /\ deleted' = TRUE
    /\ UNCHANGED <<storeVars, write, init>>

DropSecret ==
    /\ deleted
    /\ secret # "none"
    /\ secret' = "none"
    /\ values' = {}
    /\ UNCHANGED <<deleted, write, init>>

-----------------------------------------------------------------------------
WriterStep(w) ==
    \/ Connect(w) \/ Busy(w) \/ Lock(w)
    \/ Load(w) \/ LoadFails(w) \/ Save(w) \/ SaveFails(w)
    \/ Audit(w) \/ AuditLost(w)

EnsureStep(i) == EnsureRead(i) \/ EnsureAdd(i)

EnvNext ==
    \/ \E w \in Writer :
          \/ \E op \in Op, k \in Key : Arrive(w, op, k)
          \/ WriterStep(w)
    \/ \E i \in Initializer : Bootstrap(i) \/ EnsureStep(i)
    \/ MarkDeleted
    \/ DropSecret

EnvSpec == EnvInit /\ [][EnvNext]_envVars

\* Threads run on, a wait for a connection ends after ten seconds, and Postgres
\* grants a lock in the order it was asked for.
EnvFairness ==
    \A w \in Writer :
       /\ WF_envVars(Connect(w) \/ Busy(w))
       /\ SF_envVars(Lock(w))
       /\ WF_envVars(Load(w) \/ LoadFails(w))
       /\ WF_envVars(Save(w) \/ SaveFails(w))
       /\ WF_envVars(Audit(w) \/ AuditLost(w))

FairEnvSpec == EnvSpec /\ EnvFairness

-----------------------------------------------------------------------------
(* Properties.                                                             *)

\* A write loses no other key (_serialized, api/routers/env.py:63): whatever
\* initializers and deletions did since it read the keys, a version it stores
\* lacks none of the keys stored just before, except the one it deletes.
SaveKeepsOthers ==
    [][\A w \in Writer : (write[w].pc = "save" /\ write'[w].pc = "audit")
          => values \ {write[w].key} \subseteq values']_envVars

\* Every accepted write request gets an answer: waiting for the lock with a
\* connection in hand, and for a second connection with the lock in hand, can
\* stop everyone only until the ten seconds are over (api/database.py:46).
EveryWriteEnds == \A w \in Writer : write[w].pc # "idle" ~> write[w].pc = "idle"
=============================================================================

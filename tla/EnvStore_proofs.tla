---------------------------- MODULE EnvStore_proofs ----------------------------
(***************************************************************************)
(* No write of a variable loses another one, for every number of writers,  *)
(* keys, connections and unlocked callers.                                 *)
(*                                                                         *)
(* EnvTypeOK is not enough: what a writer stores is computed from what it  *)
(* read.  EnvInv adds that one writer at most holds the lock, and that     *)
(* what is stored when it is about to write is part of what it read:       *)
(* whoever takes no lock only ever empties the object.                     *)
(***************************************************************************)
EXTENDS EnvStore, TLAPS

\* The project's advisory lock has one holder.
Exclusive == \A v, w \in Writer : Holding(v) /\ Holding(w) => v = w

\* The holder about to write has read every key that is stored now.
ReadCoversStored == \A w \in Writer : write[w].pc = "save" => values \subseteq write[w].read

EnvInv == EnvTypeOK /\ Exclusive /\ ReadCoversStored

Steps  == {"idle", "connect", "lock", "load", "save", "audit"}
Writes == [pc : Steps, op : Op, key : Key, read : SUBSET Key]

-----------------------------------------------------------------------------
\* A record of a write that goes on to another step is one of a write again.
LEMMA GoesIsTyped ==
  ASSUME NEW w \in Writer, write \in [Writer -> Writes], NEW from, NEW to \in Steps,
         Goes(w, from, to)
  PROVE  /\ write' \in [Writer -> Writes]
         /\ write[w].pc = from /\ write'[w].pc = to
         /\ write'[w].op = write[w].op
         /\ write'[w].key = write[w].key
         /\ write'[w].read = write[w].read
         /\ \A v \in Writer \ {w} : write'[v] = write[v]
  BY DEF Goes, Writes

\* The state a request starts from.
LEMMA NoWriteIsTyped == NoWrite \in Writes
  BY EnvAssumption DEF NoWrite, Writes, Steps, Op

LEMMA InitEnvInv == EnvInit => EnvInv
  <1> SUFFICES ASSUME EnvInit PROVE EnvInv
    OBVIOUS
  <1>1. EnvTypeOK
    BY NoWriteIsTyped DEF EnvInit, EnvTypeOK, Writes, Steps
  <1>2. \A w \in Writer : write[w].pc = "idle"
    BY DEF EnvInit, NoWrite
  <1> QED
    BY <1>1, <1>2 DEF EnvInv, Exclusive, ReadCoversStored, Holding

\* A writer that goes on without a change of what is stored keeps EnvInv, if it
\* takes the lock only when it is free and never starts to save.
LEMMA QuietGoes ==
  ASSUME EnvInv, NEW w \in Writer, NEW from, NEW to \in Steps \ {"save"}, Goes(w, from, to),
         from \in {"load", "save", "audit"} \/ to \in {"idle", "connect", "lock"} \/ Holders = {},
         UNCHANGED <<deleted, values, init>>, secret' \in {secret, "empty"},
         secret # "none" => secret' = secret
  PROVE  EnvInv'
  <1>1. write \in [Writer -> Writes]
    BY DEF EnvInv, EnvTypeOK, Writes, Steps
  <1>2. /\ write' \in [Writer -> Writes]
        /\ write[w].pc = from /\ write'[w].pc = to
        /\ \A v \in Writer \ {w} : write'[v] = write[v]
    BY <1>1, GoesIsTyped
  <1>3. EnvTypeOK'
    BY <1>2 DEF EnvInv, EnvTypeOK, Writes, Steps
  <1>4. \A v \in Writer : Holding(v)' /\ v # w => Holding(v)
    BY <1>2 DEF Holding
  <1>5. Holding(w)' => Holding(w) \/ \A v \in Writer : ~ Holding(v)
    BY <1>2 DEF Holding, Holders
  <1>6. Exclusive'
    BY <1>4, <1>5 DEF EnvInv, Exclusive
  <1>7. ReadCoversStored'
    BY <1>2 DEF EnvInv, ReadCoversStored
  <1> QED
    BY <1>3, <1>6, <1>7 DEF EnvInv

\* Reading the latest version: what the writer read is what is stored.
LEMMA LoadEnvInv == ASSUME NEW w \in Writer PROVE EnvInv /\ Load(w) => EnvInv'
  <1> SUFFICES ASSUME EnvInv, Load(w) PROVE EnvInv'
    OBVIOUS
  <1>1. /\ write \in [Writer -> Writes] /\ values \subseteq Key
        /\ UNCHANGED <<deleted, secret, values, init>>
    BY DEF EnvInv, EnvTypeOK, Writes, Steps, Load, storeVars
  <1>2. /\ write' \in [Writer -> Writes]
        /\ write[w].pc = "load"
        /\ write'[w].pc \in {"save", "idle"} /\ write'[w].read = values
        /\ \A v \in Writer \ {w} : write'[v] = write[v]
    BY <1>1 DEF Load, Writes, Steps
  <1>3. EnvTypeOK'
    BY <1>1, <1>2 DEF EnvInv, EnvTypeOK, Writes, Steps
  <1>4. \A v \in Writer : Holding(v)' => Holding(v)
    BY <1>2 DEF Holding
  <1>5. ReadCoversStored'
    BY <1>1, <1>2 DEF EnvInv, ReadCoversStored
  <1> QED
    BY <1>3, <1>4, <1>5 DEF EnvInv, Exclusive

\* Storing a version: nobody else is about to write.
LEMMA SaveEnvInv == ASSUME NEW w \in Writer PROVE EnvInv /\ Save(w) => EnvInv'
  <1> SUFFICES ASSUME EnvInv, Save(w) PROVE EnvInv'
    OBVIOUS
  <1>1. /\ write \in [Writer -> Writes]
        /\ Goes(w, "save", "audit") /\ "audit" \in Steps
        /\ secret' = "stored" /\ values' = Changed(w) /\ UNCHANGED <<deleted, init>>
    BY DEF EnvInv, EnvTypeOK, Writes, Steps, Save
  <1>2. /\ write' \in [Writer -> Writes]
        /\ write[w].pc = "save" /\ write'[w].pc = "audit"
        /\ \A v \in Writer \ {w} : write'[v] = write[v]
    BY <1>1, GoesIsTyped
  <1>3. values' \subseteq Key
    BY <1>1 DEF Changed, Writes
  <1>4. EnvTypeOK'
    BY <1>1, <1>2, <1>3 DEF EnvInv, EnvTypeOK, Writes, Steps
  <1>5. \A v \in Writer : Holding(v)' => Holding(v)
    BY <1>2 DEF Holding
  <1>6. \A v \in Writer \ {w} : write'[v].pc # "save"
    BY <1>2 DEF EnvInv, Exclusive, Holding
  <1> QED
    BY <1>2, <1>4, <1>5, <1>6 DEF EnvInv, Exclusive, ReadCoversStored

\* Steps outside the lock: what is stored stays, or is emptied.
LEMMA UnlockedEnvInv ==
  ASSUME EnvInv, EnvTypeOK', UNCHANGED write, values' \subseteq values
  PROVE  EnvInv'
  BY DEF EnvInv, Exclusive, ReadCoversStored, Holding

\* Every step of the specification keeps EnvInv.
LEMMA NextEnvInv == EnvInv /\ [EnvNext]_envVars => EnvInv'
  <1> SUFFICES ASSUME EnvInv, [EnvNext]_envVars PROVE EnvInv'
    OBVIOUS
  <1>1. ASSUME NEW w \in Writer, NEW op \in Op, NEW key \in Key, Arrive(w, op, key)
        PROVE  EnvInv'
    <2>1. write \in [Writer -> Writes] /\ UNCHANGED <<deleted, secret, values, init>>
      BY <1>1 DEF EnvInv, EnvTypeOK, Writes, Steps, Arrive, storeVars
    <2>2. /\ write' \in [Writer -> Writes]
          /\ write'[w].pc = "connect"
          /\ \A v \in Writer \ {w} : write'[v] = write[v]
      BY <1>1, <2>1, NoWriteIsTyped DEF Arrive, Writes, Steps
    <2>3. EnvTypeOK'
      BY <2>1, <2>2 DEF EnvInv, EnvTypeOK, Writes, Steps
    <2> QED
      BY <2>1, <2>2, <2>3 DEF EnvInv, Exclusive, ReadCoversStored, Holding
  <1>2. ASSUME NEW w \in Writer, WriterStep(w) PROVE EnvInv'
    <2> USE QuietGoes DEF Steps, storeVars
    <2>1. CASE Connect(w)
      BY <2>1 DEF Connect
    <2>2. CASE Busy(w)
      BY <2>2 DEF Busy
    <2>3. CASE Lock(w)
      BY <2>3 DEF Lock
    <2>4. CASE Load(w)
      BY <2>4, LoadEnvInv
    <2>5. CASE LoadFails(w)
      BY <2>5 DEF LoadFails
    <2>6. CASE Save(w)
      BY <2>6, SaveEnvInv
    <2>7. CASE SaveFails(w)
      BY <2>7 DEF SaveFails
    <2>8. CASE Audit(w)
      BY <2>8 DEF Audit
    <2>9. CASE AuditLost(w)
      BY <2>9 DEF AuditLost
    <2> QED
      BY <1>2, <2>1, <2>2, <2>3, <2>4, <2>5, <2>6, <2>7, <2>8, <2>9 DEF WriterStep
  <1>3. ASSUME NEW i \in Initializer, Bootstrap(i) \/ EnsureStep(i) PROVE EnvInv'
    <2>1. UNCHANGED write /\ values' \subseteq values
      BY <1>3 DEF Bootstrap, EnsureStep, EnsureRead, EnsureAdd, storeVars
    <2>2. EnvTypeOK'
      BY <1>3 DEF EnvInv, EnvTypeOK, Bootstrap, EnsureStep, EnsureRead, EnsureAdd, storeVars
    <2> QED
      BY <2>1, <2>2, UnlockedEnvInv
  <1>4. ASSUME MarkDeleted \/ DropSecret PROVE EnvInv'
    <2>1. UNCHANGED write /\ values' \subseteq values /\ EnvTypeOK'
      BY <1>4 DEF EnvInv, EnvTypeOK, MarkDeleted, DropSecret, storeVars
    <2> QED
      BY <2>1, UnlockedEnvInv
  <1>5. ASSUME UNCHANGED envVars PROVE EnvInv'
    BY <1>5 DEF EnvInv, EnvTypeOK, Exclusive, ReadCoversStored, Holding, envVars, storeVars
  <1> QED
    BY <1>1, <1>2, <1>3, <1>4, <1>5 DEF EnvNext

\* EnvInv holds in every reachable state.
LEMMA EnvInvHolds == EnvSpec => []EnvInv
  BY InitEnvInv, NextEnvInv, PTL DEF EnvSpec

-----------------------------------------------------------------------------
\* The stored object and the requests have their types; in particular a secret
\* that does not exist or was never written holds no keys.
THEOREM EnvTypeCorrect == EnvSpec => []EnvTypeOK
  <1>1. EnvInv => EnvTypeOK
    BY DEF EnvInv
  <1> QED
    BY <1>1, EnvInvHolds, PTL

\* No version a writer stores lacks a key of the one before, other than the one
\* it deletes (_serialized and env_write_lock, api/routers/env.py:57).
THEOREM NoLostUpdate == EnvSpec => SaveKeepsOthers
  <1>1. ASSUME EnvInv, [EnvNext]_envVars
        PROVE  [\A w \in Writer : (write[w].pc = "save" /\ write'[w].pc = "audit")
                   => values \ {write[w].key} \subseteq values']_envVars
    <2> SUFFICES ASSUME EnvNext, NEW w \in Writer, write[w].pc = "save", write'[w].pc = "audit"
                 PROVE  values \ {write[w].key} \subseteq values'
      BY <1>1
    <2> USE DEF EnvInv, EnvTypeOK
    <2>1. write[w].pc # write'[w].pc
      OBVIOUS
    <2>2. ASSUME NEW v \in Writer, NEW op \in Op, NEW key \in Key, Arrive(v, op, key)
          PROVE  FALSE
      BY <1>1, <2>1, <2>2 DEF Arrive, NoWrite
    <2>3. ASSUME NEW v \in Writer, WriterStep(v), ~ Save(v) PROVE FALSE
      BY <1>1, <2>1, <2>3 DEF WriterStep, Connect, Busy, Lock, Load, LoadFails, SaveFails, Audit,
                              AuditLost, Goes
    <2>4. ASSUME NEW v \in Writer, Save(v) PROVE values \ {write[w].key} \subseteq values'
      <3>1. v = w
        BY <1>1, <2>1, <2>4 DEF Save, Goes
      <3>2. values \subseteq write[w].read
        BY <1>1 DEF ReadCoversStored
      <3> QED
        BY <2>4, <3>1, <3>2 DEF Save, Changed
    <2>5. ASSUME NEW i \in Initializer, Bootstrap(i) \/ EnsureStep(i) PROVE FALSE
      BY <2>1, <2>5 DEF Bootstrap, EnsureStep, EnsureRead, EnsureAdd
    <2>6. ASSUME MarkDeleted \/ DropSecret PROVE FALSE
      BY <2>1, <2>6 DEF MarkDeleted, DropSecret
    <2> QED
      BY <2>2, <2>3, <2>4, <2>5, <2>6 DEF EnvNext
  <1> QED
    BY <1>1, EnvInvHolds, PTL DEF EnvSpec, SaveKeepsOthers
=============================================================================

---------------------------- MODULE Webhooks_proofs ----------------------------
(***************************************************************************)
(* A pull request never has two previews up, or two on their way, for any  *)
(* number of rows, pull requests, overlapping deliveries and limits.       *)
(*                                                                         *)
(* With the types OnePreviewPerPR is inductive: the index refuses a second *)
(* row in flight to whoever inserts or writes one, and the one step that   *)
(* makes a row Running replaces the others of its pull request.            *)
(*                                                                         *)
(* The cap on previews is a matter of counting: CapInv counts the pull     *)
(* requests that have a preview together with those a request has been     *)
(* allowed to insert one for.  Only Count adds to that set, one pull       *)
(* request when fewer than MaxPreviews others have one, and each of the    *)
(* other requests can have been allowed one more.                          *)
(***************************************************************************)
EXTENDS Webhooks, FiniteSetTheorems, TLAPS

Requests == [pc : {"idle", "limits", "count", "insert"}, slot : Slot, byUser : BOOLEAN]

PreviewInv == WebhookTypeOK /\ OnePreviewPerPR

\* What OnePreviewPerPR says of two rows.
LEMMA TwoRows ==
  OnePreviewPerPR <=>
     \A d, b \in Deployment :
        (/\ slot[d] \in PR /\ slot[b] = slot[d]
         /\ \/ state[d] \in InFlight /\ state[b] \in InFlight
            \/ state[d] = "Running" /\ state[b] = "Running") => d = b
  BY DEF OnePreviewPerPR, RowsOf, InFlight

\* A row that becomes Failed or Superseded, or a step that changes no row.
LEMMA RowsGo ==
  ASSUME PreviewInv, WebhookTypeOK',
         \A d \in Deployment : state'[d] = state[d] \/ state'[d] \in Gone,
         UNCHANGED slot
  PROVE  PreviewInv'
  <1>1. \A d \in Deployment : /\ state'[d] \in InFlight => state[d] \in InFlight
                              /\ state'[d] = "Running" => state[d] = "Running"
    BY DEF Gone, InFlight
  <1> QED
    BY <1>1, TwoRows DEF PreviewInv, OnePreviewPerPR, RowsOf, Gone, InFlight

\* A row the index lets be in flight.
LEMMA RowEnters ==
  ASSUME PreviewInv, WebhookTypeOK', NEW d \in Deployment, NEW s \in Slot, NEW new \in InFlight,
         IndexAllows(d, s), state' = [state EXCEPT ![d] = new], slot' = [slot EXCEPT ![d] = s]
  PROVE  PreviewInv'
  <1>1. /\ state'[d] = new /\ slot'[d] = s
        /\ \A b \in Deployment \ {d} : state'[b] = state[b] /\ slot'[b] = slot[b]
    BY DEF PreviewInv, WebhookTypeOK
  <1>2. \A b \in Deployment \ {d} : state[b] # "none" /\ slot[b] = s => state[b] \notin InFlight
    BY DEF IndexAllows, RowsOf
  <1>3. new # "Running"
    BY DEF InFlight
  <1> QED
    BY <1>1, <1>2, <1>3 DEF PreviewInv, OnePreviewPerPR, RowsOf, InFlight

-----------------------------------------------------------------------------
LEMMA SetStateIsTyped ==
  ASSUME WebhookTypeOK, NEW d \in Deployment, NEW new \in Active \cup Gone, SetState(d, new)
  PROVE  /\ state' = [state EXCEPT ![d] = new]
         /\ state' \in [Deployment -> Active \cup Gone \cup {"none"}]
         /\ revived' \subseteq Deployment
         /\ \A b \in Deployment : state'[b] = IF b = d THEN new ELSE state[b]
  BY DEF WebhookTypeOK, SetState

\* Requests of the API that have not inserted yet.
LEMMA RequestStays ==
  ASSUME PreviewInv, NEW h \in Handler, UNCHANGED <<rowVars, pass>>, NEW r \in Requests,
         handler' = [handler EXCEPT ![h] = r]
  PROVE  PreviewInv'
  <1>1. handler' \in [Handler -> Requests]
    BY DEF PreviewInv, WebhookTypeOK, Requests
  <1>2. WebhookTypeOK'
    BY <1>1 DEF PreviewInv, WebhookTypeOK, Requests, rowVars
  <1> QED
    BY <1>2, RowsGo DEF rowVars

LEMMA HandlerStepKeeps ==
  ASSUME PreviewInv, NEW h \in Handler,
         \/ \E s \in Slot, byUser \in BOOLEAN : Receive(h, s, byUser)
         \/ RequestStep(h)
  PROVE  PreviewInv'
  <1>1. NoRequest \in Requests /\ handler[h] \in Requests
    BY DEF NoRequest, Requests, Slot, PreviewInv, WebhookTypeOK
  <1>2. ASSUME NEW s \in Slot, NEW byUser \in BOOLEAN, Receive(h, s, byUser) PROVE PreviewInv'
    <2>1. [pc |-> "limits", slot |-> s, byUser |-> byUser] \in Requests
      BY DEF Requests
    <2> QED
      BY <1>2, <2>1, RequestStays DEF Receive
  <1>3. ASSUME NEW pc \in {"count", "insert"}, NEW guard, Passes(h, pc, guard),
               UNCHANGED <<rowVars, pass>>
        PROVE  PreviewInv'
    <2>1. [handler[h] EXCEPT !.pc = pc, !.byUser = FALSE] \in Requests
      BY <1>1 DEF Requests
    <2>2. CASE guard
      BY <1>3, <2>1, <2>2, RequestStays DEF Passes
    <2>3. CASE ~ guard
      <3>1. handler' = [handler EXCEPT ![h] = NoRequest]
        BY <1>3, <2>3 DEF Passes
      <3> QED
        BY <1>1, <1>3, <3>1, RequestStays
    <2> QED
      BY <2>2, <2>3
  <1>4. CASE CheckLimits(h)
    BY <1>3, <1>4 DEF CheckLimits
  <1>5. CASE Count(h)
    BY <1>3, <1>5 DEF Count
  <1>6. CASE Refused(h)
    BY <1>1, <1>6, RequestStays DEF Refused
  <1>7. ASSUME NEW d \in Deployment, Insert(h, d) PROVE PreviewInv'
    <2>1. /\ handler[h].slot \in Slot
          /\ "Queued" \in InFlight /\ "Queued" \in Active \cup Gone
      BY <1>1 DEF Requests, InFlight, Active
    <2>2. /\ state' = [state EXCEPT ![d] = "Queued"]
          /\ state' \in [Deployment -> Active \cup Gone \cup {"none"}]
          /\ revived' \subseteq Deployment
          /\ \A b \in Deployment : state'[b] = IF b = d THEN "Queued" ELSE state[b]
      BY <1>7, <2>1, SetStateIsTyped DEF Insert, PreviewInv
    <2>3. /\ slot' \in [Deployment -> Slot]
          /\ work' \in [Deployment -> {"none", "waiting", "building"}]
          /\ \A b \in Deployment : work'[b] = IF b = d THEN "waiting" ELSE work[b]
      BY <1>7, <2>1 DEF Insert, PreviewInv, WebhookTypeOK
    <2>4. handler' \in [Handler -> Requests]
      BY <1>1, <1>7 DEF Insert, PreviewInv, WebhookTypeOK, Requests
    <2>5. WebhookTypeOK'
      BY <1>7, <2>2, <2>3, <2>4 DEF Insert, PreviewInv, WebhookTypeOK, Requests
    <2> QED
      BY <1>7, <2>1, <2>2, <2>5, RowEnters DEF Insert
  <1> QED
    BY <1>2, <1>4, <1>5, <1>6, <1>7 DEF RequestStep

LEMMA ClosedKeeps == ASSUME PreviewInv, NEW pr \in PR, Closed(pr) PROVE PreviewInv'
  <1>1. PICK removed \in SUBSET Deployment :
           /\ state' = [d \in Deployment |-> IF d \in removed THEN "Superseded" ELSE state[d]]
           /\ revived' = revived \ removed
    BY DEF Closed, RowsOf
  <1>2. UNCHANGED <<slot, work, handler, pass>>
    BY DEF Closed
  <1>3. WebhookTypeOK'
    BY <1>1, <1>2 DEF PreviewInv, WebhookTypeOK, Gone
  <1> QED
    BY <1>1, <1>2, <1>3, RowsGo DEF Gone

\* A row is given up: by its user, the worker, the sweeper or the controller.
LEMMA FailsKeeps ==
  ASSUME PreviewInv, NEW d \in Deployment, SetState(d, "Failed"), UNCHANGED <<slot, handler>>,
         work' \in [Deployment -> {"none", "waiting", "building"}],
         \A b \in Deployment \ {d} : work'[b] = work[b],
         pass' \in [Deployment -> {"done", "Deploying", "Running"}]
  PROVE  PreviewInv'
  <1>1. "Failed" \in Gone
    BY DEF Gone
  <1>2. /\ state' \in [Deployment -> Active \cup Gone \cup {"none"}]
        /\ revived' \subseteq Deployment
        /\ \A b \in Deployment : state'[b] = IF b = d THEN "Failed" ELSE state[b]
    BY <1>1, SetStateIsTyped DEF PreviewInv
  <1>3. WebhookTypeOK'
    BY <1>2 DEF PreviewInv, WebhookTypeOK
  <1> QED
    BY <1>1, <1>2, <1>3, RowsGo

LEMMA BuildsKeeps == ASSUME PreviewInv, NEW d \in Deployment, Builds(d) \/ Built(d) PROVE PreviewInv'
  <1>1. /\ \A new \in {"none", "building"} :
              work' = [work EXCEPT ![d] = new] =>
                 /\ work' \in [Deployment -> {"none", "waiting", "building"}]
                 /\ \A b \in Deployment \ {d} : work'[b] = work[b]
        /\ UNCHANGED <<slot, handler, pass>>
        /\ slot[d] \in Slot /\ slot' = [slot EXCEPT ![d] = slot[d]]
        /\ pass' \in [Deployment -> {"done", "Deploying", "Running"}]
    BY DEF Builds, Built, PreviewInv, WebhookTypeOK
  <1>2. ASSUME SetState(d, "Failed"), work' = [work EXCEPT ![d] = "none"] PROVE PreviewInv'
    BY <1>1, <1>2, FailsKeeps
  <1>3. ASSUME NEW new \in {"Building", "Deploying"}, SetState(d, new), IndexAllows(d, slot[d]),
               NEW w \in {"none", "building"}, work' = [work EXCEPT ![d] = w]
        PROVE  PreviewInv'
    <2>1. new \in InFlight /\ new \in Active \cup Gone
      BY DEF InFlight, Active
    <2>2. /\ state' = [state EXCEPT ![d] = new]
          /\ state' \in [Deployment -> Active \cup Gone \cup {"none"}]
          /\ revived' \subseteq Deployment
          /\ \A b \in Deployment : state'[b] = IF b = d THEN new ELSE state[b]
      BY <1>3, <2>1, SetStateIsTyped DEF PreviewInv
    <2>3. WebhookTypeOK'
      BY <1>1, <1>3, <2>2 DEF PreviewInv, WebhookTypeOK
    <2> QED
      BY <1>1, <1>3, <2>1, <2>2, <2>3, RowEnters
  <1> QED
    BY <1>2, <1>3 DEF Builds, Built

\* The step that makes a row Running replaces the others of its pull request.
LEMMA GoesLiveKeeps == ASSUME PreviewInv, NEW d \in Deployment, GoesLive(d) PROVE PreviewInv'
  <1> DEFINE replaced == {b \in RowsOf(slot[d]) \ {d} : slot[d] \in PR /\ state[b] = "Running"}
  <1>1. /\ state' = [b \in Deployment |-> IF b = d THEN "Running"
                                          ELSE IF b \in replaced THEN "Superseded" ELSE state[b]]
        /\ revived' \subseteq Deployment
        /\ UNCHANGED <<slot, work, handler>>
        /\ pass' \in [Deployment -> {"done", "Deploying", "Running"}]
    BY DEF GoesLive, Done, PreviewInv, WebhookTypeOK
  <1>2. WebhookTypeOK'
    BY <1>1 DEF PreviewInv, WebhookTypeOK, Active, Gone
  <1>3. \A b \in Deployment : state'[b] \in InFlight => state[b] \in InFlight
    BY <1>1 DEF InFlight
  <1>4. \A b \in Deployment \ {d} : state'[b] = "Running" =>
           state[b] = "Running" /\ (slot[d] \in PR => slot[b] # slot[d])
    BY <1>1 DEF RowsOf
  <1> QED
    BY <1>1, <1>2, <1>3, <1>4, TwoRows DEF PreviewInv, OnePreviewPerPR, RowsOf, InFlight

\* Every step of the specification keeps PreviewInv.
LEMMA NextPreviewInv == PreviewInv /\ [WebhookNext]_webhookVars => PreviewInv'
  <1> SUFFICES ASSUME PreviewInv, [WebhookNext]_webhookVars PROVE PreviewInv'
    OBVIOUS
  <1>1. ASSUME NEW h \in Handler,
               \/ \E s \in Slot, byUser \in BOOLEAN : Receive(h, s, byUser)
               \/ RequestStep(h)
        PROVE  PreviewInv'
    BY <1>1, HandlerStepKeeps
  <1>2. ASSUME NEW pr \in PR, Closed(pr) PROVE PreviewInv'
    BY <1>2, ClosedKeeps
  <1>3. ASSUME NEW d \in Deployment, Builds(d) \/ Built(d) PROVE PreviewInv'
    BY <1>3, BuildsKeeps
  <1>4. ASSUME NEW d \in Deployment, Cancel(d) \/ Sweep(d) \/ GivesUp(d) PROVE PreviewInv'
    <2>1. /\ SetState(d, "Failed") /\ UNCHANGED <<slot, work, handler>>
          /\ work' \in [Deployment -> {"none", "waiting", "building"}]
          /\ pass' \in [Deployment -> {"done", "Deploying", "Running"}]
      BY <1>4 DEF Cancel, Sweep, GivesUp, Done, PreviewInv, WebhookTypeOK
    <2> QED
      BY <2>1, FailsKeeps
  <1>5. ASSUME NEW d \in Deployment, GoesLive(d) PROVE PreviewInv'
    BY <1>5, GoesLiveKeeps
  <1>6. ASSUME UNCHANGED <<rowVars, handler>>,
               pass' \in [Deployment -> {"done", "Deploying", "Running"}]
        PROVE  PreviewInv'
    <2>1. WebhookTypeOK'
      BY <1>6 DEF PreviewInv, WebhookTypeOK, rowVars
    <2> QED
      BY <1>6, <2>1, RowsGo DEF rowVars
  <1>7. CASE PassStart
    BY <1>6, <1>7 DEF PassStart
  <1>8. ASSUME NEW d \in Deployment, Watches(d) PROVE PreviewInv'
    BY <1>6, <1>8 DEF Watches, Done, PreviewInv, WebhookTypeOK
  <1>9. CASE UNCHANGED webhookVars
    BY <1>6, <1>9 DEF webhookVars, PreviewInv, WebhookTypeOK
  <1> QED
    BY <1>1, <1>2, <1>3, <1>4, <1>5, <1>7, <1>8, <1>9 DEF WebhookNext, PassStep

LEMMA PreviewInvHolds == WebhookSpec => []PreviewInv
  <1>1. WebhookInit => PreviewInv
    <2> SUFFICES ASSUME WebhookInit PROVE PreviewInv
      OBVIOUS
    <2>1. WebhookTypeOK
      BY DEF WebhookInit, WebhookTypeOK, NoRequest, NoPass, Slot
    <2>2. \A s : RowsOf(s) = {}
      BY DEF WebhookInit, RowsOf
    <2> QED
      BY <2>1, <2>2 DEF PreviewInv, OnePreviewPerPR
  <1> QED
    BY <1>1, NextPreviewInv, PTL DEF WebhookSpec

-----------------------------------------------------------------------------
\* The rows have their types; a Queued one always has its message waiting
\* (helpers.py, queue_deployment: "so a deployment row is never committed
\* without its queue message").
THEOREM WebhookTypeCorrect == WebhookSpec => []WebhookTypeOK
  <1>1. PreviewInv => WebhookTypeOK
    BY DEF PreviewInv
  <1> QED
    BY <1>1, PreviewInvHolds, PTL

\* One preview up and one on its way for each pull request, whatever overlaps,
\* is cancelled or comes back (migrations/0013; controller/main.py:1073).
THEOREM OnePreview == WebhookSpec => []OnePreviewPerPR
  <1>1. PreviewInv => OnePreviewPerPR
    BY DEF PreviewInv
  <1> QED
    BY <1>1, PreviewInvHolds, PTL

-----------------------------------------------------------------------------
(* The cap on previews.                                                    *)

\* The pull requests the cap is about, those a request may insert one for, and
\* all that ever had one.
Counted  == {pr \in PR : \E d \in RowsOf(pr) \ revived : state[d] \in Active}
Admitted == {pr \in PR : \E h \in Handler : handler[h].pc = "insert" /\ handler[h].slot = pr}
Previewed == {pr \in PR : RowsOf(pr) # {}}

\* What a worker builds or a pass has read is in the table.
BornInv == \A d \in Deployment : state[d] = "none" => work[d] = "none" /\ pass[d] = "done"

\* Users deploy no previews by hand.
ByHandInv == \A h \in Handler : handler[h].byUser => handler[h].slot \notin PR

\* The inductive invariant behind PreviewsAreCapped.
CapInv ==
    /\ BornInv /\ ByHandInv
    /\ IsFiniteSet(Previewed)
    /\ Cardinality(Counted \cup Admitted) <= MaxPreviews + Cardinality(Handler) - 1

\* A request asks for one slot at a time.
LEMMA OneSlotEach ==
  ASSUME NEW requests, NEW S, \A s \in S : \E h \in Handler : requests[h].slot = s
  PROVE  IsFiniteSet(S) /\ Cardinality(S) <= Cardinality(Handler)
  <1> DEFINE f == [s \in S |-> CHOOSE h \in Handler : requests[h].slot = s]
  <1>1. \A s \in S : f[s] \in Handler /\ requests[f[s]].slot = s
    OBVIOUS
  <1>2. f \in Injection(S, Handler)
    BY <1>1 DEF Injection, IsInjective
  <1> QED
    BY <1>2, FS_Injection, WebhookAssumption

LEMMA AdmittedBound ==
  /\ IsFiniteSet(Admitted) /\ Cardinality(Admitted) <= Cardinality(Handler)
  /\ IsFiniteSet(Admitted') /\ Cardinality(Admitted') <= Cardinality(Handler)
  BY OneSlotEach DEF Admitted

\* Whoever has a preview had one inserted.
LEMMA CountedFinite ==
  ASSUME IsFiniteSet(Previewed)
  PROVE  /\ IsFiniteSet(Counted \cup Admitted)
         /\ \A s : IsFiniteSet(OthersServed(s)) /\ Counted \subseteq OthersServed(s) \cup {s}
  <1>1. Counted \subseteq Previewed /\ \A s : OthersServed(s) \subseteq Previewed
    BY DEF Counted, Previewed, OthersServed, RowsOf
  <1>2. \A s : Counted \subseteq OthersServed(s) \cup {s}
    BY DEF Counted, OthersServed, RowsOf
  <1>3. IsFiniteSet(Counted) /\ \A s : IsFiniteSet(OthersServed(s))
    BY <1>1, FS_Subset
  <1> QED
    BY <1>2, <1>3, AdmittedBound, FS_Union

\* A step that adds nobody.
LEMMA CapStays ==
  ASSUME CapInv, BornInv', ByHandInv', Previewed' \subseteq Previewed \cup Admitted,
         (Counted \cup Admitted)' \subseteq Counted \cup Admitted
  PROVE  CapInv'
  <1>1. IsFiniteSet(Counted \cup Admitted)
    BY CountedFinite DEF CapInv
  <1>2. Cardinality((Counted \cup Admitted)') <= Cardinality(Counted \cup Admitted)
        /\ IsFiniteSet((Counted \cup Admitted)')
    BY <1>1, FS_Subset
  <1>3. IsFiniteSet(Previewed')
    <2>1. IsFiniteSet(Previewed \cup Admitted)
      BY AdmittedBound, FS_Union DEF CapInv
    <2> QED
      BY <2>1, FS_Subset
  <1>4. /\ Cardinality(Counted \cup Admitted) \in Nat /\ Cardinality((Counted \cup Admitted)') \in Nat
        /\ Cardinality(Handler) \in Nat /\ MaxPreviews \in Nat
    BY <1>1, <1>2, FS_CardinalityType, WebhookAssumption
  <1> QED
    BY <1>2, <1>3, <1>4 DEF CapInv

\* A step on rows that are in the table, of which only revived ones come back.
LEMMA RowsKeepCap ==
  ASSUME CapInv, BornInv', UNCHANGED <<slot, handler>>,
         \A d \in Deployment : state'[d] # "none" => state[d] # "none",
         \A d \in Deployment : state'[d] \in Active /\ d \notin revived'
                                 => state[d] \in Active /\ d \notin revived
  PROVE  CapInv'
  <1>1. Admitted' = Admitted /\ ByHandInv'
    BY DEF Admitted, ByHandInv, CapInv
  <1>2. Previewed' \subseteq Previewed
    BY DEF Previewed, RowsOf
  <1>3. Counted' \subseteq Counted
    BY DEF Counted, RowsOf
  <1> QED
    BY <1>1, <1>2, <1>3, CapStays

\* update_state: a row that comes back is revived.
LEMMA SetStateKeepsCap ==
  ASSUME WebhookTypeOK, CapInv, NEW d \in Deployment, NEW new \in Active \cup Gone, SetState(d, new),
         state[d] # "none", UNCHANGED <<slot, handler>>,
         \A b \in Deployment \ {d} : work'[b] = work[b],
         \A b \in Deployment \ {d} : pass'[b] = pass[b]
  PROVE  CapInv'
  <1>1. /\ \A b \in Deployment : state'[b] = IF b = d THEN new ELSE state[b]
        /\ revived' = IF new \in Gone THEN revived \ {d}
                      ELSE IF state[d] \in Gone THEN revived \cup {d} ELSE revived
    BY SetStateIsTyped DEF SetState
  <1>2. new # "none" /\ (new \in Gone => new \notin Active) /\ state[d] \in Active \cup Gone
    BY DEF Active, InFlight, Gone, WebhookTypeOK
  <1>3. BornInv'
    BY <1>1, <1>2 DEF CapInv, BornInv
  <1> QED
    BY <1>1, <1>2, <1>3, RowsKeepCap

\* check_deploy_limits and Count: whoever is allowed to insert found fewer than
\* MaxPreviews others.
LEMMA RequestKeepsCap ==
  ASSUME WebhookTypeOK, CapInv, NEW h \in Handler,
         \/ \E s \in Slot, byUser \in BOOLEAN : Receive(h, s, byUser)
         \/ CheckLimits(h) \/ Count(h) \/ Refused(h)
  PROVE  CapInv'
  <1> USE DEF rowVars
  <1>1. UNCHANGED <<rowVars, pass>>
    BY DEF Receive, CheckLimits, Count, Refused
  <1>2. BornInv' /\ Previewed' = Previewed /\ Counted' = Counted
    BY <1>1 DEF CapInv, BornInv, Previewed, Counted, RowsOf
  <1>3. PICK r : handler' = [handler EXCEPT ![h] = r]
    BY DEF Receive, CheckLimits, Count, Refused, Passes
  <1>4. /\ handler'[h] = r /\ \A g \in Handler \ {h} : handler'[g] = handler[g]
    BY <1>3 DEF WebhookTypeOK
  <1>5. /\ r.byUser => r.slot \notin PR
        /\ r.pc = "insert" /\ r.slot \in PR => Cardinality(OthersServed(r.slot)) < MaxPreviews
    <2> DEFINE old == handler[h]
    <2>1. /\ ~ NoRequest.byUser /\ NoRequest.pc = "idle"
          /\ old \in Requests
          /\ old.byUser => old.slot \notin PR
      BY DEF NoRequest, Requests, WebhookTypeOK, CapInv, ByHandInv
    <2>2. ASSUME NEW s \in Slot, NEW byUser \in BOOLEAN, Receive(h, s, byUser)
          PROVE  r.pc = "limits" /\ (r.byUser => r.slot \notin PR)
      <3>1. r = [pc |-> "limits", slot |-> s, byUser |-> byUser]
        BY <1>4, <2>2 DEF Receive, WebhookTypeOK
      <3> QED
        BY <2>2, <3>1, WebhookAssumption DEF Receive
    <2>3. ASSUME NEW pc \in {"count", "insert"}, NEW guard, Passes(h, pc, guard)
          PROVE  \/ r = NoRequest
                 \/ guard /\ r.pc = pc /\ r.slot = old.slot /\ ~ r.byUser
      <3>1. r = IF guard THEN [old EXCEPT !.pc = pc, !.byUser = FALSE] ELSE NoRequest
        BY <1>4, <2>3 DEF Passes, WebhookTypeOK
      <3> QED
        BY <2>1, <3>1 DEF Requests
    <2>4. CASE CheckLimits(h)
      <3>1. PICK allowed \in BOOLEAN :
               Passes(h, IF old.byUser THEN "insert" ELSE "count", allowed /\ WithinLimits(h))
        BY <2>4 DEF CheckLimits
      <3>2. \/ r = NoRequest
            \/ /\ r.pc = IF old.byUser THEN "insert" ELSE "count"
               /\ r.slot = old.slot /\ ~ r.byUser
        BY <2>3, <3>1
      <3> QED
        BY <2>1, <3>2
    <2>5. CASE Count(h)
      <3>1. \/ r = NoRequest
            \/ /\ old.slot \in PR => Cardinality(OthersServed(old.slot)) < MaxPreviews
               /\ r.slot = old.slot /\ ~ r.byUser
        BY <2>3, <2>5 DEF Count
      <3> QED
        BY <2>1, <3>1
    <2>6. CASE Refused(h)
      BY <1>4, <2>1, <2>6 DEF Refused, WebhookTypeOK
    <2> QED
      BY <2>2, <2>4, <2>5, <2>6
  <1>6. ByHandInv'
    BY <1>4, <1>5 DEF CapInv, ByHandInv
  <1>7. ASSUME r.pc # "insert" PROVE CapInv'
    <2>1. Admitted' \subseteq Admitted
      BY <1>4, <1>7 DEF Admitted
    <2> QED
      BY <1>2, <1>6, <2>1, CapStays
  <1>8. ASSUME r.pc = "insert", r.slot \notin PR PROVE CapInv'
    <2>1. Admitted' \subseteq Admitted
      BY <1>4, <1>8 DEF Admitted
    <2> QED
      BY <1>2, <1>6, <2>1, CapStays
  <1>9. ASSUME r.pc = "insert", r.slot \in PR PROVE CapInv'
    <2> DEFINE served == OthersServed(r.slot)
    <2>1. r.slot \in Admitted'
      BY <1>4, <1>9 DEF Admitted
    <2>2. (Counted \cup Admitted)' \subseteq served \cup Admitted'
      BY <1>2, <2>1, CountedFinite DEF CapInv
    <2>3. /\ IsFiniteSet(served) /\ IsFiniteSet(Admitted')
          /\ Cardinality(Admitted') <= Cardinality(Handler)
      BY CountedFinite, AdmittedBound DEF CapInv
    <2>4. Cardinality(served) < MaxPreviews
      BY <1>9, <1>5
    <2> HIDE DEF served
    <2>5. /\ IsFiniteSet(served \cup Admitted')
          /\ Cardinality(served \cup Admitted') =
                Cardinality(served) + Cardinality(Admitted') - Cardinality(served \cap Admitted')
      BY <2>3, FS_Union
    <2>6. Cardinality((Counted \cup Admitted)') <= Cardinality(served \cup Admitted')
          /\ IsFiniteSet((Counted \cup Admitted)')
      BY <2>2, <2>5, FS_Subset
    <2>7. /\ Cardinality(served) \in Nat /\ Cardinality(Admitted') \in Nat
          /\ Cardinality(served \cap Admitted') \in Nat /\ Cardinality((Counted \cup Admitted)') \in Nat
          /\ Cardinality(Handler) \in Nat /\ MaxPreviews \in Nat
      BY <2>3, <2>6, FS_CardinalityType, FS_Intersection, WebhookAssumption
    <2>8. Cardinality((Counted \cup Admitted)') <= MaxPreviews + Cardinality(Handler) - 1
      BY <2>3, <2>4, <2>5, <2>6, <2>7
    <2> QED
      BY <1>2, <1>6, <2>8 DEF CapInv
  <1> QED
    BY <1>7, <1>8, <1>9

\* The INSERT takes up what its request was allowed.
LEMMA InsertKeepsCap ==
  ASSUME WebhookTypeOK, CapInv, NEW h \in Handler, NEW d \in Deployment, Insert(h, d)
  PROVE  CapInv'
  <1> DEFINE s == handler[h].slot
  <1>1. /\ s \in Slot /\ handler[h].pc = "insert"
        /\ \A b \in Deployment : state'[b] = IF b = d THEN "Queued" ELSE state[b]
        /\ \A b \in Deployment : slot'[b] = IF b = d THEN s ELSE slot[b]
        /\ \A b \in Deployment : work'[b] = IF b = d THEN "waiting" ELSE work[b]
        /\ state[d] = "none" /\ UNCHANGED <<pass, revived>>
        /\ \A g \in Handler : handler'[g] = IF g = h THEN NoRequest ELSE handler[g]
    BY DEF Insert, SetState, WebhookTypeOK, Gone
  <1>2. BornInv' /\ ByHandInv'
    BY <1>1 DEF CapInv, BornInv, ByHandInv, NoRequest
  <1>3. Admitted' \subseteq Admitted
    BY <1>1 DEF Admitted, NoRequest
  <1>4. \A pr \in PR : pr = s => pr \in Admitted
    BY <1>1 DEF Admitted
  <1>5. Previewed' \subseteq Previewed \cup Admitted
    BY <1>1, <1>4 DEF Previewed, RowsOf
  <1>6. Counted' \subseteq Counted \cup Admitted
    BY <1>1, <1>4 DEF Counted, RowsOf
  <1> QED
    BY <1>2, <1>3, <1>5, <1>6, CapStays

\* Closing, cancelling, building, sweeping and passing over rows.
LEMMA NextCapInv == WebhookTypeOK /\ CapInv /\ [WebhookNext]_webhookVars => CapInv'
  <1> SUFFICES ASSUME WebhookTypeOK, CapInv, [WebhookNext]_webhookVars PROVE CapInv'
    OBVIOUS
  <1>0. {"Queued", "Building", "Deploying", "Running"} = Active /\ {"Failed", "Superseded"} = Gone
    BY DEF Active, InFlight, Gone
  <1>1. ASSUME NEW h \in Handler,
               \/ \E s \in Slot, byUser \in BOOLEAN : Receive(h, s, byUser)
               \/ RequestStep(h)
        PROVE  CapInv'
    BY <1>1, RequestKeepsCap, InsertKeepsCap DEF RequestStep
  <1>2. ASSUME NEW pr \in PR, Closed(pr) PROVE CapInv'
    <2> DEFINE gone == {d \in RowsOf(pr) : state[d] \in {"Running", "Failed"}}
    <2>1. PICK removed : /\ state' = [d \in Deployment |-> IF d \in removed THEN "Superseded" ELSE state[d]]
                         /\ revived' = revived \ removed
                         /\ \A d \in removed : state[d] # "none"
      <3> WITNESS gone
      <3> QED
        BY <1>2 DEF Closed, RowsOf
    <2>2. BornInv'
      BY <1>2, <2>1 DEF Closed, CapInv, BornInv
    <2> QED
      BY <1>2, <1>0, <2>1, <2>2, RowsKeepCap DEF Closed
  <1>3. ASSUME NEW d \in Deployment,
               Cancel(d) \/ Builds(d) \/ Built(d) \/ Sweep(d) \/ GivesUp(d)
        PROVE  CapInv'
    <2>1. /\ \E new \in Active \cup Gone : SetState(d, new)
          /\ UNCHANGED <<slot, handler>>
          /\ \A b \in Deployment \ {d} : work'[b] = work[b]
          /\ \A b \in Deployment \ {d} : pass'[b] = pass[b]
      BY <1>3, <1>0 DEF Cancel, Builds, Built, Sweep, GivesUp, Done, WebhookTypeOK
    <2>2. state[d] # "none"
      BY <1>3 DEF Cancel, Builds, Built, Sweep, GivesUp, CapInv, BornInv, InFlight
    <2> QED
      BY <2>1, <2>2, SetStateKeepsCap
  <1>4. ASSUME NEW d \in Deployment, GoesLive(d) PROVE CapInv'
    <2> DEFINE previous == {b \in RowsOf(slot[d]) \ {d} : slot[d] \in PR /\ state[b] = "Running"}
    <2>1. PICK replaced :
             /\ state' = [b \in Deployment |-> IF b = d THEN "Running"
                                               ELSE IF b \in replaced THEN "Superseded" ELSE state[b]]
             /\ revived' = (IF state[d] \in Gone THEN revived \cup {d} ELSE revived) \ replaced
             /\ \A b \in replaced : state[b] # "none" /\ b # d
      <3> WITNESS previous
      <3> QED
        BY <1>4 DEF GoesLive, RowsOf
    <2>2. /\ state[d] # "none" /\ state[d] \in Active \cup Gone
          /\ UNCHANGED <<slot, work, handler>>
          /\ \A b \in Deployment \ {d} : pass'[b] = pass[b]
      BY <1>4 DEF GoesLive, Done, CapInv, BornInv, WebhookTypeOK
    <2>3. BornInv'
      BY <2>1, <2>2 DEF CapInv, BornInv
    <2> QED
      BY <1>0, <2>1, <2>2, <2>3, RowsKeepCap
  <1>5. CASE PassStart
    <2>1. UNCHANGED <<rowVars, handler>> /\ BornInv'
      BY <1>5 DEF PassStart, rowVars, CapInv, BornInv
    <2> QED
      BY <2>1, RowsKeepCap DEF rowVars
  <1>6. ASSUME NEW d \in Deployment, Watches(d) PROVE CapInv'
    <2>1. UNCHANGED <<rowVars, handler>> /\ BornInv'
      BY <1>6 DEF Watches, Done, rowVars, CapInv, BornInv, WebhookTypeOK
    <2> QED
      BY <2>1, RowsKeepCap DEF rowVars
  <1>7. CASE UNCHANGED webhookVars
    <2>1. UNCHANGED <<rowVars, handler>> /\ BornInv'
      BY <1>7 DEF webhookVars, rowVars, CapInv, BornInv
    <2> QED
      BY <2>1, RowsKeepCap DEF rowVars
  <1> QED
    BY <1>1, <1>2, <1>3, <1>4, <1>5, <1>6, <1>7 DEF WebhookNext, PassStep

\* Overlapping deliveries exceed the cap on previews by one less than there are of
\* them, and nothing else exceeds it but rows that come back (webhooks.py,
\* _handle_pull_request; MAX_PREVIEWS_PER_PROJECT).
THEOREM PreviewCap == WebhookSpec => []PreviewsAreCapped
  <1>1. WebhookInit => CapInv
    <2> SUFFICES ASSUME WebhookInit PROVE CapInv
      OBVIOUS
    <2>1. BornInv /\ ByHandInv /\ Previewed = {} /\ Counted \cup Admitted = {}
      BY DEF WebhookInit, BornInv, ByHandInv, Previewed, Counted, Admitted, RowsOf, NoRequest, NoPass
    <2>2. Cardinality(Handler) \in Nat /\ MaxPreviews \in Nat \ {0}
      BY FS_CardinalityType, WebhookAssumption
    <2>3. IsFiniteSet(Previewed) /\ Cardinality(Counted \cup Admitted) = 0
      BY <2>1, FS_EmptySet
    <2> QED
      BY <2>1, <2>2, <2>3 DEF CapInv
  <1>2. CapInv => PreviewsAreCapped
    <2> SUFFICES ASSUME CapInv PROVE PreviewsAreCapped
      OBVIOUS
    <2>1. IsFiniteSet(Counted \cup Admitted)
      BY CountedFinite DEF CapInv
    <2>2. IsFiniteSet(Counted) /\ Cardinality(Counted) <= Cardinality(Counted \cup Admitted)
      BY <2>1, FS_Subset
    <2>3. /\ Cardinality(Counted) \in Nat /\ Cardinality(Counted \cup Admitted) \in Nat
          /\ Cardinality(Handler) \in Nat /\ MaxPreviews \in Nat
      BY <2>1, <2>2, FS_CardinalityType, WebhookAssumption
    <2>4. Cardinality(Counted) <= MaxPreviews + Cardinality(Handler) - 1
      BY <2>2, <2>3 DEF CapInv
    <2> QED
      BY <2>4 DEF PreviewsAreCapped, Counted
  <1>3. CapInv /\ WebhookTypeOK /\ [WebhookNext]_webhookVars => CapInv'
    BY NextCapInv
  <1> QED
    BY <1>1, <1>2, <1>3, WebhookTypeCorrect, PTL DEF WebhookSpec
=============================================================================

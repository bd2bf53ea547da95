-------------------------------- MODULE Webhooks --------------------------------
(***************************************************************************)
(* What starts deployments of one project without its owner: pushes and    *)
(* pull requests (api/routers/webhooks.py), the limits they share with     *)
(* deploys by hand (api/helpers.py, check_deploy_limits), and the life of  *)
(* a pull request's preview in the controller's passes over the project.   *)
(*                                                                         *)
(* The worker appears as BuildWorker shows it: it writes what it got to,   *)
(* whatever the row has become.  A second delivery of a message is         *)
(* BuildWorker's, what going live means for a production release is        *)
(* ReleaseController's.                                                    *)
(***************************************************************************)
EXTENDS Integers, FiniteSets

CONSTANTS
    Deployment,     \* rows in the order they are inserted: 1..n
    PR,             \* pull requests of the project's repository
    Handler,        \* requests the API handles at the same time
    MaxPreviews,    \* MAX_PREVIEWS_PER_PROJECT (3)
    MaxPerMonth,    \* MAX_DEPLOYS_PER_PROJECT_PER_MONTH (300)
    MaxActive       \* MAX_ACTIVE_DEPLOYS_PER_USER (3)

ASSUME WebhookAssumption ==
    /\ Deployment \subseteq Nat
    /\ "production" \notin PR
    /\ {MaxPreviews, MaxPerMonth, MaxActive} \subseteq Nat \ {0}
    /\ IsFiniteSet(Handler)
    /\ Handler # {}

VARIABLES
    slot,           \* per row: its kind, as the pull request or "production"
    state,          \* per row
    work,           \* per row: its message waits, or a worker builds it
    handler,        \* per request: its step, its slot, whether a user sent it
    pass,           \* per row: what the controller's pass read and has yet to act on
    revived         \* active rows that were Failed or Superseded before (history)

rowVars     == <<slot, state, work, revived>>
webhookVars == <<rowVars, handler, pass>>

Slot     == PR \cup {"production"}
InFlight == {"Queued", "Building", "Deploying"}
Active   == InFlight \cup {"Running"}
Gone     == {"Failed", "Superseded"}

NoRequest == [pc |-> "idle", slot |-> "production", byUser |-> FALSE]
NoPass    == [d \in Deployment |-> "done"]

WebhookTypeOK ==
    /\ slot \in [Deployment -> Slot]
    /\ state \in [Deployment -> Active \cup Gone \cup {"none"}]
    /\ work \in [Deployment -> {"none", "waiting", "building"}]
    /\ \A d \in Deployment : state[d] = "Queued" => work[d] = "waiting"
    /\ handler \in [Handler -> [pc : {"idle", "limits", "count", "insert"},
                                slot : Slot, byUser : BOOLEAN]]
    /\ pass \in [Deployment -> {"done", "Deploying", "Running"}]
    /\ revived \subseteq Deployment

WebhookInit ==
    /\ slot = [d \in Deployment |-> "production"]
    /\ state = [d \in Deployment |-> "none"]
    /\ work = [d \in Deployment |-> "none"]
    /\ handler = [h \in Handler |-> NoRequest]
    /\ pass = NoPass
    /\ revived = {}

RowsOf(s) == {d \in Deployment : state[d] # "none" /\ slot[d] = s}

\* idx_deployments_one_active_per_project and _per_pr: whether d may be active.
IndexAllows(d, s) == \A b \in RowsOf(s) \ {d} : state[b] \notin InFlight

SetState(d, new) ==
    /\ state' = [state EXCEPT ![d] = new]
    /\ revived' = IF new \in Gone THEN revived \ {d}
                  ELSE IF state[d] \in Gone THEN revived \cup {d} ELSE revived

-----------------------------------------------------------------------------
(* Users and GitHub.                                                       *)

\* A push to the project's branch, from the repository it is bound to; a pull
\* request of a branch of it that was opened, reopened or pushed to; a deploy
\* by hand, which looks for one in flight first.
Receive(h, s, byUser) ==
    /\ handler[h].pc = "idle"
    /\ byUser => s = "production" /\ \A d \in RowsOf(s) : state[d] \notin InFlight
    /\ handler' = [handler EXCEPT ![h] = [pc |-> "limits", slot |-> s, byUser |-> byUser]]
    /\ UNCHANGED <<rowVars, pass>>

\* A pull request is closed: its previews that are up or failed go.
Closed(pr) ==
    /\ LET removed == {d \in RowsOf(pr) : state[d] \in {"Running", "Failed"}}
       IN  /\ removed # {}
           /\ state' = [d \in Deployment |-> IF d \in removed THEN "Superseded" ELSE state[d]]
           /\ revived' = revived \ removed
    /\ UNCHANGED <<slot, work, handler, pass>>

\* cancel_deployment.
Cancel(d) ==
    /\ state[d] \in InFlight
    /\ SetState(d, "Failed")
    /\ UNCHANGED <<slot, work, handler, pass>>

-----------------------------------------------------------------------------
(* Requests that deploy.                                                   *)

Passes(h, pc, guard) ==
    handler' = [handler EXCEPT ![h] = IF guard THEN [@ EXCEPT !.pc = pc, !.byUser = FALSE]
                                                  ELSE NoRequest]

\* check_deploy_limits, in a transaction of its own; it refuses too while an
\* admin has paused deploys or the project's owner is suspended.
WithinLimits(h) ==
    /\ Cardinality({d \in Deployment : state[d] # "none"}) < MaxPerMonth
    /\ handler[h].byUser =>
          Cardinality({d \in Deployment : state[d] \in InFlight}) < MaxActive

CheckLimits(h) ==
    /\ handler[h].pc = "limits"
    /\ \E allowed \in BOOLEAN : Passes(h, IF handler[h].byUser THEN "insert" ELSE "count",
                                     allowed /\ WithinLimits(h))
    /\ UNCHANGED <<rowVars, pass>>

\* The SELECTs of the next transaction: nothing in flight in this slot, and not
\* too many other pull requests with a preview.
OthersServed(s) == {pr \in PR \ {s} : \E d \in RowsOf(pr) : state[d] \in Active}

CountUnfinished(h) ==
    /\ handler[h].pc = "count"
    /\ LET s == handler[h].slot
       IN  Passes(h, "insert", /\ \A d \in RowsOf(s) : state[d] \notin InFlight
                               /\ s \in PR => Cardinality({pr \in PR \ {s} :
                                     \E d \in RowsOf(pr) : state[d] \in InFlight}) < MaxPreviews)
    /\ UNCHANGED <<rowVars, pass>>
Count(h) ==
    /\ handler[h].pc = "count"
    /\ LET s == handler[h].slot
       IN  Passes(h, "insert", /\ \A d \in RowsOf(s) : state[d] \notin InFlight
                               /\ s \in PR => Cardinality(OthersServed(s)) < MaxPreviews)
    /\ UNCHANGED <<rowVars, pass>>

\* The INSERT, with its message, and the commit; or the index refuses it.
InsertWithoutMessage(h, d) ==
    /\ handler[h].pc = "insert"
    /\ state[d] = "none" /\ \A b \in Deployment : b < d => state[b] # "none"
    /\ IndexAllows(d, handler[h].slot)
    /\ slot' = [slot EXCEPT ![d] = handler[h].slot]
    /\ SetState(d, "Queued")
    /\ handler' = [handler EXCEPT ![h] = NoRequest]
    /\ UNCHANGED <<work, pass>>
Insert(h, d) ==
    /\ handler[h].pc = "insert"
    /\ state[d] = "none" /\ \A b \in Deployment : b < d => state[b] # "none"
    /\ IndexAllows(d, handler[h].slot)
    /\ slot' = [slot EXCEPT ![d] = handler[h].slot]
    /\ SetState(d, "Queued")
    /\ work' = [work EXCEPT ![d] = "waiting"]
    /\ handler' = [handler EXCEPT ![h] = NoRequest]
    /\ UNCHANGED pass

Refused(h) ==
    /\ handler[h].pc = "insert"
    /\ \E d \in RowsOf(handler[h].slot) : state[d] \in InFlight
    /\ handler' = [handler EXCEPT ![h] = NoRequest]
    /\ UNCHANGED <<rowVars, pass>>

-----------------------------------------------------------------------------
(* The worker and the sweeper.                                             *)

\* update_state(Building), which the index refuses if another row took over;
\* then, and when the source cannot be prepared, the row is Failed.
Builds(d) ==
    /\ work[d] = "waiting"
    /\ \/ /\ IndexAllows(d, slot[d])
          /\ SetState(d, "Building")
          /\ work' = [work EXCEPT ![d] = "building"]
       \/ /\ SetState(d, "Failed")
          /\ work' = [work EXCEPT ![d] = "none"]
    /\ UNCHANGED <<slot, handler, pass>>

\* The image is there, or not.
Built(d) ==
    /\ work[d] = "building"
    /\ work' = [work EXCEPT ![d] = "none"]
    /\ \/ IndexAllows(d, slot[d]) /\ SetState(d, "Deploying")
       \/ SetState(d, "Failed")
    /\ UNCHANGED <<slot, handler, pass>>

Sweep(d) ==
    /\ state[d] \in {"Queued", "Building"}
    /\ SetState(d, "Failed")
    /\ UNCHANGED <<slot, work, handler, pass>>

-----------------------------------------------------------------------------
(* The controller's pass, on the rows as it read them; the files it writes   *)
(* and removes are ReleaseController's.                                    *)

PassStart ==
    /\ pass = NoPass
    /\ pass' = [d \in Deployment |-> IF state[d] \in {"Deploying", "Running"} THEN state[d]
                                                                           ELSE "done"]
    /\ pass' # pass
    /\ UNCHANGED <<rowVars, handler>>

Done(d) == pass' = [pass EXCEPT ![d] = "done"]

\* A pod is ready: the row is Running, and a preview replaces the previous one
\* of its pull request, in one transaction.
GoesLiveAlone(d) ==
    /\ pass[d] = "Deploying"
    /\ SetState(d, "Running")
    /\ Done(d)
    /\ UNCHANGED <<slot, work, handler>>
GoesLive(d) ==
    /\ pass[d] = "Deploying"
    /\ LET replaced == {b \in RowsOf(slot[d]) \ {d} : slot[d] \in PR /\ state[b] = "Running"}
       IN  /\ state' = [b \in Deployment |-> IF b = d THEN "Running"
                                             ELSE IF b \in replaced THEN "Superseded" ELSE state[b]]
           /\ revived' = (IF state[d] \in Gone THEN revived \cup {d} ELSE revived) \ replaced
    /\ Done(d)
    /\ UNCHANGED <<slot, work, handler>>

\* No pod got ready within five minutes, or the instances of a live release
\* keep crashing.
GivesUp(d) ==
    /\ pass[d] \in {"Deploying", "Running"}
    /\ SetState(d, "Failed")
    /\ Done(d)
    /\ UNCHANGED <<slot, work, handler>>

\* Nothing to decide yet.
Watches(d) ==
    /\ pass[d] \in {"Deploying", "Running"}
    /\ Done(d)
    /\ UNCHANGED <<rowVars, handler>>

-----------------------------------------------------------------------------
RequestStep(h) ==
    CheckLimits(h) \/ Count(h) \/ Refused(h) \/ \E d \in Deployment : Insert(h, d)

PassStep ==
    \/ PassStart
    \/ \E d \in Deployment :
          GoesLive(d) \/ GivesUp(d) \/ Watches(d)

WebhookNext ==
    \/ \E h \in Handler :
          \/ \E s \in Slot, byUser \in BOOLEAN : Receive(h, s, byUser)
          \/ RequestStep(h)
    \/ \E pr \in PR : Closed(pr)
    \/ \E d \in Deployment :
          Cancel(d) \/ Builds(d) \/ Built(d) \/ Sweep(d)
    \/ PassStep

WebhookSpec == WebhookInit /\ [][WebhookNext]_webhookVars

-----------------------------------------------------------------------------
(* Properties.                                                             *)

\* A pull request has one preview up and one on its way at most, although a
\* pass brings rows to life it read long ago and the worker builds rows that
\* were cancelled (controller/main.py: "it replaces the PR's previous preview").
OnePreviewPerPR ==
    \A pr \in PR : \A d, b \in RowsOf(pr) :
        {state[d], state[b]} \subseteq InFlight \/ {state[d], state[b]} = {"Running"} => d = b

\* The cap on previews is counted and used in steps of which any number may
\* overlap: it is exceeded by as many pull requests as deliveries overlap, less
\* one, and by rows that come back after they failed or were replaced (MAX_PREVIEWS_PER_PROJECT).
PreviewsAreCapped ==
    Cardinality({pr \in PR : \E d \in RowsOf(pr) \ revived : state[d] \in Active})
        <= MaxPreviews + Cardinality(Handler) - 1
=============================================================================

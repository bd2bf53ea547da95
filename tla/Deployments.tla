----------------------------- MODULE Deployments -----------------------------
(***************************************************************************)
(* The production deployments of one project: the rows the API, the        *)
(* workers and the controller share, and what users do to them             *)
(* (api/routers/deployments.py).  Every UPDATE names its row by id and is  *)
(* a transaction of its own, so processes meet only in these rows.         *)
(*                                                                         *)
(* Deployments are numbered in the order of created_at.                    *)
(***************************************************************************)
EXTENDS Naturals, FiniteSets

CONSTANTS
    Deployment,   \* deployments that may be created, numbered from 1
    Request       \* rollback requests that may be in progress at a time

ASSUME DeploymentAssumption ==
    /\ Deployment \subseteq Nat \ {0}
    /\ IsFiniteSet(Deployment)

VARIABLES
    state,        \* per deployment: "none" before the INSERT, then the column
    image,        \* per deployment: the deployment whose build image_uri names
    pinned,       \* deployments whose image_digest is set
    replicas,     \* per deployment: the column, 1 or 0
    grace,        \* per deployment: scale_down_after: "none", "running" or "over"
    live,         \* projects.live_deployment_id, 0 for NULL
    rollbacks,    \* deployments whose message says is_rollback
    unsettled,    \* deployments with a message some worker still has to settle
    jobs,         \* per deployment and attempt: the build Job in shipzen-build
    killing,      \* cancelled deployments whose Job is not yet deleted
    request       \* per rollback request: where it is and what it has read

buildVars   == <<pinned, rollbacks, unsettled, jobs, killing>>
releaseVars == <<image, replicas, grace, live>>
rowVars     == <<state, releaseVars, buildVars, request>>

Active == {"Queued", "Building", "Deploying", "Verifying"}
States == Active \cup {"none", "Running", "Failed", "Superseded"}
Attempts == {"first", "fix"}
Nobody == 0

\* idx_deployments_one_active_per_project: the row d may take the state s only
\* if that leaves one active row.  Postgres raises UniqueViolation otherwise.
IndexAllowsAtInsertOnly(d, s) ==
    s = "Queued" => \A b \in Deployment \ {d} : state[b] \notin Active
IndexAllows(d, s) ==
    s \in Active => \A b \in Deployment \ {d} : state[b] \notin Active

\* UPDATE deployments SET state WHERE deployment_id = d.
SetState(d, s) == state' = [state EXCEPT ![d] = s]

NewestOf(S) == CHOOSE d \in S : \A b \in S : b <= d

NoRequest == [pc |-> "idle", liveRead |-> Nobody, from |-> Nobody, to |-> Nobody,
              instant |-> FALSE, digest |-> FALSE]

DeploymentsTypeOK ==
    /\ state \in [Deployment -> States]
    /\ image \in [Deployment -> Deployment]
    /\ pinned \subseteq Deployment
    /\ replicas \in [Deployment -> {0, 1}]
    /\ grace \in [Deployment -> {"none", "running", "over"}]
    /\ live \in Deployment \cup {Nobody}
    /\ rollbacks \subseteq Deployment
    /\ unsettled \subseteq Deployment
    /\ jobs \in [Deployment \X Attempts -> {"absent", "running", "succeeded", "failed"}]
    /\ killing \subseteq Deployment
    /\ request \in [Request -> [pc : {"idle", "started", "chosen"},
                                liveRead : Deployment \cup {Nobody},
                                from : Deployment \cup {Nobody},
                                to : Deployment \cup {Nobody},
                                instant : BOOLEAN, digest : BOOLEAN]]

DeploymentsInit ==
    /\ state = [d \in Deployment |-> "none"]
    /\ image = [d \in Deployment |-> d]
    /\ pinned = {}
    /\ replicas = [d \in Deployment |-> 1]
    /\ grace = [d \in Deployment |-> "none"]
    /\ live = Nobody
    /\ rollbacks = {}
    /\ unsettled = {}
    /\ jobs = [j \in Deployment \X Attempts |-> "absent"]
    /\ killing = {}
    /\ request = [q \in Request |-> NoRequest]

\* Two releases later: 1 is scaled down for a rollback, 2 is live, and S is
\* queued to deploy the image of 1 again.
TwoReleases(S) ==
    /\ state = [d \in Deployment |-> IF d \in {1, 2} THEN "Running"
                                     ELSE IF d \in S THEN "Queued" ELSE "none"]
    /\ image = [d \in Deployment |-> IF d \in S THEN 1 ELSE d]
    /\ pinned = {1, 2} \cup S
    /\ replicas = [d \in Deployment |-> IF d = 1 THEN 0 ELSE 1]
    /\ grace = [d \in Deployment |-> "none"]
    /\ live = 2
    /\ rollbacks = S
    /\ unsettled = S
    /\ jobs = [j \in Deployment \X Attempts |-> "absent"]
    /\ killing = {}
    /\ request = [q \in Request |-> NoRequest]

-----------------------------------------------------------------------------
(* Deploy and cancel.                                                      *)

\* d is the next row to be inserted.
Fresh(d) == state[d] = "none" /\ \A b \in Deployment : b < d => state[b] # "none"

\* POST /deployments, redeploy and the push webhook: the row and its message
\* in one transaction.  The SELECT for an active row that comes first only
\* words the refusal; the index decides.
Create(d) ==
    /\ Fresh(d)
    /\ IndexAllows(d, "Queued")
    /\ SetState(d, "Queued")
    /\ unsettled' = unsettled \cup {d}
    /\ UNCHANGED <<releaseVars, pinned, rollbacks, jobs, killing, request>>

\* POST /cancel: the guarded UPDATE.
Cancel(d) ==
    /\ state[d] \in Active
    /\ SetState(d, "Failed")
    /\ killing' = killing \cup {d}
    /\ UNCHANGED <<releaseVars, pinned, rollbacks, unsettled, jobs, request>>

\* The rest of the request: delete the Job build-<id8>.  An error is logged and
\* forgotten, and so is the rest of the request if the replica dies.
KillJob(d) ==
    /\ d \in killing
    /\ killing' = killing \ {d}
    /\ jobs' \in {jobs, [jobs EXCEPT ![<<d, "first">>] = "absent"]}
    /\ UNCHANGED <<state, releaseVars, pinned, rollbacks, unsettled, request>>

-----------------------------------------------------------------------------
(* Rollback.                                                               *)

\* verify_project_write_access reads the project before the endpoint runs.
RollbackStart(q) ==
    /\ request[q].pc = "idle"
    /\ request' = [request EXCEPT ![q] = [NoRequest EXCEPT !.pc = "started", !.liveRead = live]]
    /\ UNCHANGED <<state, releaseVars, buildVars>>

\* The release serving now: the one the project pointed at, else the newest.
ServingForAnyRunning(liveRead) ==
    LET up == {d \in Deployment : state[d] = "Running"}
    IN  IF liveRead \in up THEN liveRead
        ELSE IF up = {} THEN Nobody ELSE NewestOf(up)
ServingFor(liveRead) ==
    LET up == {d \in Deployment : state[d] = "Running" /\ replicas[d] > 0}
    IN  IF liveRead \in up THEN liveRead
        ELSE IF up = {} THEN Nobody ELSE NewestOf(up)

\* The Running releases with another image than the one serving now.
TargetsFor(from) ==
    {d \in Deployment : /\ state[d] = "Running"
                        /\ d # from
                        /\ from # Nobody => image[d] # image[from]}

\* The two SELECTs of rollback_deployment, the second for the newest target;
\* 409 if there is nothing to go back to.
RollbackChoose(q) ==
    /\ request[q].pc = "started"
    /\ LET from    == ServingFor(request[q].liveRead)
           targets == TargetsFor(from)
       IN  \/ /\ targets = {}
              /\ request' = [request EXCEPT ![q] = NoRequest]
           \/ \E to \in targets :
              /\ \A b \in targets : b <= to
              /\ request' = [request EXCEPT ![q] =
                      [pc |-> "chosen", liveRead |-> request[q].liveRead, from |-> from, to |-> to,
                       instant |-> replicas[to] > 0, digest |-> to \in pinned]]
    /\ UNCHANGED <<state, releaseVars, buildVars>>

\* The release read with replicas > 0 becomes the live one, and the one that
\* was live gets its grace period.
RollbackInstantly(q) ==
    /\ request[q].pc = "chosen"
    /\ request[q].instant
    /\ live' = request[q].to
    /\ grace' = [d \in Deployment |->
                    CASE d = request[q].to   -> "none"
                      [] d = request[q].from -> "running"
                      [] OTHER               -> grace[d]]
    /\ request' = [request EXCEPT ![q] = NoRequest]
    /\ UNCHANGED <<state, image, replicas, buildVars>>

\* The release was scaled to 0: deploy its image again as a new deployment d.
RollbackWithoutDigest(q, d) ==
    /\ request[q].pc = "chosen"
    /\ ~request[q].instant
    /\ Fresh(d)
    /\ IndexAllows(d, "Queued")
    /\ SetState(d, "Queued")
    /\ image' = [image EXCEPT ![d] = image[request[q].to]]
    /\ rollbacks' = rollbacks \cup {d}
    /\ unsettled' = unsettled \cup {d}
    /\ request' = [request EXCEPT ![q] = NoRequest]
    /\ UNCHANGED <<replicas, grace, live, pinned, jobs, killing>>
RollbackByDeploying(q, d) ==
    /\ request[q].pc = "chosen"
    /\ ~request[q].instant
    /\ Fresh(d)
    /\ IndexAllows(d, "Queued")
    /\ SetState(d, "Queued")
    /\ image' = [image EXCEPT ![d] = image[request[q].to]]
    /\ pinned' = IF request[q].digest THEN pinned \cup {d} ELSE pinned
    /\ rollbacks' = rollbacks \cup {d}
    /\ unsettled' = unsettled \cup {d}
    /\ request' = [request EXCEPT ![q] = NoRequest]
    /\ UNCHANGED <<replicas, grace, live, jobs, killing>>

\* The INSERT meets an active deployment: UniqueViolation, 500.
RollbackRefused(q) ==
    /\ request[q].pc = "chosen"
    /\ ~request[q].instant
    /\ \E d \in Deployment : state[d] \in Active
    /\ request' = [request EXCEPT ![q] = NoRequest]
    /\ UNCHANGED <<state, releaseVars, buildVars>>

RollbackStep(q) ==
    \/ RollbackStart(q) \/ RollbackChoose(q) \/ RollbackRefused(q)
    \/ \E d \in Deployment : RollbackByDeploying(q, d)

RollbackNext == \E q \in Request : RollbackStep(q) \/ RollbackInstantly(q)

UserNext ==
    \/ \E d \in Deployment : Create(d) \/ Cancel(d) \/ KillJob(d)
    \/ RollbackNext

-----------------------------------------------------------------------------
\* The sweeper at the start of every reconcile(): the rows S have been Queued
\* or Building for over an hour.
Sweep(S) ==
    /\ S # {}
    /\ \A d \in S : state[d] \in {"Queued", "Building"}
    /\ state' = [d \in Deployment |-> IF d \in S THEN "Failed" ELSE state[d]]
    /\ UNCHANGED <<releaseVars, buildVars, request>>

-----------------------------------------------------------------------------
\* A project has one deployment in progress at a time, whatever the API
\* replicas, the workers and the controller write side by side
\* (migrations/0013, the comment over its unique index).
OneActive == \A d, b \in Deployment : state[d] \in Active /\ state[b] \in Active => d = b
=============================================================================

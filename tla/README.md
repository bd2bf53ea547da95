# ShipZen in TLA+

ShipZen deploys a user's repository to Kubernetes: an API writes a deployment
and its message in one transaction, workers build the image in throwaway Jobs,
a controller writes manifests to Git for ArgoCD and switches the live release.
Several processes of each kind run at a time and meet only in Postgres, Redis,
Secret Manager, the Kubernetes API and the GitOps repository. These modules model
that core, TLC checks them on small instances, and TLAPS proves the properties
that matter most for every instance.

## 1. The system

### Components, their state and their operations

| Component | State | Operations | Module |
|---|---|---|---|
| Deploy queue (`api/helpers.py`, `api/background.py`, `worker/queue_client.py`) | `outbox_events`; `deploy_stream` with its group: cursor, pending list; `deploy_stream_dlq` | record, relay pass (lock, XADD, DELETE), XREADGROUP, XACK, dead-letter, XAUTOCLAIM, trimming | `AtLeastOnce`, `DeployQueue` |
| Deployment rows (`api/routers/deployments.py`, push webhook) | `deployments` (state, image, digest, replicas, scale_down_after), `projects.live_deployment_id`, the unique index of migration 0013 | deploy, redeploy, push, cancel, rollback (instant or by deploying), sweeper | `Deployments` |
| Build worker (`worker/main.py`, `worker/state_machine.py`) | one handler per thread; build Jobs | early returns, clone and create Job, poll, promote image, retry with a fix, fail, acknowledge, dead-letter | `BuildWorker`, `Builds` |
| Release controller (`controller/main.py`) | manifests in Git, a pass with what it has read, `_vanity_synced`, `_deployment_failures` | scale down, drift repair, crash counter, promotion, orphan cleanup, vanity route | `ReleaseController` |
| Leader election (`controller/main.py`, `LeaderElector`) | the Lease; `is_leader` per process | acquire, renew, take over, release | `LeaderLease` |
| Project lifecycle (`controller/main.py`, `api/routers/projects.py`) | `projects.status`, `deleted_at`; the project's folder in Git; its namespace; `_project_failures` | create, delete, sweep, event pass, provision, drift, terminate, FAILED, folder collection and refresh; ArgoCD's sync and prune | `ProjectLifecycle` |
| Environment store (`api/secret_store.py`, `api/routers/env.py`, `api/database.py`, `api/audit.py`) | the project's secret and its latest version; the advisory lock; slots of the API's pool | put, delete, audit over a second connection, initial version, deletion | `EnvStore` |
| Sign-ins and sockets (`api/auth.py`, `api/background.py`, `routers/operations.py`, `routers/admin.py`, `routers/deployments.py`) | the user's row; `_token_cache` per process; tickets in Redis; `_ws_open` | suspend, change a role, evict, sign in, issue and spend a ticket, open and close a socket | `Access` |
| Webhooks, previews, limits (`api/routers/webhooks.py`, `api/helpers.py`, controller) | rows of one project by pull request; requests between their steps | push, pull request, close, limits, cap, insert; a preview through worker, sweeper and pass | `Webhooks` |
| Everything of one project's releases at once | the shared rows | rows, worker and release controller | `Platform` |

Users, the API, workers and controller share the rows of `deployments` and
`projects`, and every UPDATE names its row by id and commits alone; most are
unconditional. The API talks to the workers through the outbox and the stream, the
controller to ArgoCD through Git, and both controller processes through one Lease.
Redis Pub/Sub wakes the controller and the UI earlier, and evicts cached sign-ins.

What is hard here:

- **Several writers, few conditions.** A thread, the sweeper, a user and the
  controller may each write a row after deciding on a copy of it.
- **At-least-once delivery.** Messages are sent again after a failed relay pass,
  handed out again after a crash, and may be with two threads at a time. Evictions,
  in contrast, are sent once and may be missed.
- **Stale snapshots.** A controller pass works for minutes on a listing of the
  cluster and on rows it read; a rollback works on the release it read; a limit is
  counted in one transaction and used in the next; a sign-in outlives its row.
- **Failures between two steps.** Between XADD and commit, between the image's
  promotion and the row's update, between a row's update and the acknowledgement,
  between a Git commit and the cache that remembers it, between a lock and the
  second connection.
- **Time.** Lease against request timeouts, grace period against the length of a
  pass, the 60-minute sweeper against the 65-minute reclaim, lives of caches,
  tickets and sockets that follow one another.

What makes each component correct is the list of properties in section 3; the
hazards they are for are listed line by line in `PROJECT.json`, with those no
property covers and why.

### Not modelled, and why

- Repository analysis, validation, hostname and size rules, failure rules, GitHub
  access: sequential and stateless.
- Member, admin, audit and observability endpoints: single statements or proxied
  queries. Live logs and status are best effort.
- Notifications: at most once, because `SET NX` precedes the mail.
- The circuit breaker of the sign-in and the rate limits: they only refuse.
- The pool of 20 threads with its heartbeat: `BuildWorker`'s threads take a message
  when they are free, and a pod that the liveness probe restarts is a `Crash`.
- The worker's and the controller's database pools: one connection per thread.
- Migrations, UI, infrastructure, scripts.

## 2. The modules

```
AtLeastOnce <--refines-- DeployQueue          LeaderLease
                              ^                    ^
                      DeployQueue_proofs   LeaderLease_proofs

Deployments <-- BuildWorker <-- Builds <-- BuildWorker_proofs
     ^              ^                             ^
     |              +--------- Platform <-- Platform_proofs
     |                           |
     +-- ReleaseController <-----+

EnvStore <-------- EnvStore_proofs          Access          Webhooks
   ^                     ^                    ^                ^
ProjectLifecycle <-- ProjectLifecycle_proofs  Access_proofs    Webhooks_proofs
```

An arrow is EXTENDS, but for the refinement. `MC*` modules add the symmetry, the
initial states and the constraint a run uses. An operator whose name says what is wrong (`LockShared`, `SettleEarly`) is not
part of a specification: it is the definition after it with a plausible mistake,
which TLC is seen to catch (section 3).

**`DeployQueue`.** A deployment is a number, in the order of the outbox's ids, and
stands for its message. `recorded` and `outbox` are the committed rows, `relay[r]`
the transaction of a replica (`locked` after the SELECT, `sent` after the XADDs).
`stream` keeps every entry ever added and `trimmed` says which Redis has dropped;
`cursor`, `pending` and `acked` are the consumer group. `RelayPick`, `RelaySend`,
`RelayCommit` are the three moments of `_relay_outbox_once`; `RelayReject` is the
payload redis-py refuses; `RelayFail` a crash or a lost connection, on either side
of the XADDs. `Abandon` is an exception that escapes `process_message`,
`WorkerCrash` the death of a pod, `Reclaim` XAUTOCLAIM.

**`AtLeastOnce`** is what the queue promises: recorded deploys get settled, and
nothing else does. `DeployQueue` implements it with
`settled <- {stream[e] : e \in acked}`.

**`Deployments`** holds the production rows of one project and what users do to
them. `IndexAllows` is the partial unique index. A rollback is three steps, since
the project row is read before the endpoint, then the two SELECTs, then the write.
The two SELECTs are one step. No code ever writes `Verifying`; it stays in `Active`
because the SQL lists it. Every production row is created by one `Create`: POST,
redeploy and the push webhooks differ only in what they copy into it.

**`BuildWorker`** is `process_message` and `monitor_job`, one record per thread
with its step `pc`. The queue appears as `unsettled`, as `DeployQueue` shows it:
any unsettled message may be delivered, again after a crash (`Crash`), and to a
second thread while the first is at work on it: a relay pass that failed after its
XADDs sends the row again seconds later, or XAUTOCLAIM takes it from a thread that is
slow. Such a delivery is a fault, and so is `Resend`, the second entry that is still
there when the first is settled. `update_state` is unconditional but for the index,
whose violation is an exception; `CallFails` takes the exception path of every call
to Postgres, Redis or Kubernetes. A Job whose deletion fails is left where it is
(`Reap`): the code ignores that error. `jobs` has one entry per deployment and attempt.
A row that is Building is
swept only if no thread holds it: the deadline of a Job is half of the sweeper's
hour.

**`Builds`** puts the worker beside the controller as it sees it. A pass reads a row
as Deploying (`ControllerReads`) and later writes Running to it by its id, whatever
has become of it (`ControllerPromotes`), or Failed (`ControllerFails`); `reading` is
what it has read. One row at a time is enough for what is asked here; the whole pass
is in `Platform`.

**`ReleaseController`** is one Ready project's pass: `Observe` (project row, then
the listing), `ScaleDownAndRead`, one of `LeaveAlone`, `CountCrash`, `AwaitReady`,
`GoLive` for each row, `Cleanup`, `ChooseRoute`, `CommitRoute`. `pass[k]` carries
what has been read, so every other process may act between two steps. `manifest`
and `vanity` are the files in Git, `cluster` is what ArgoCD and the pods have made
of them. `crashes` and `synced` are process memory and die with it. `aged` records
which grace periods have outlasted a whole pass: ten minutes against a pass per
minute. An instant rollback (`SwitchBack`) starts the ten minutes anew, so the pass in
progress no longer counts for them. `commit_manifests_to_git` returns normally when
GitHub refuses a call (`Commits`), and raises when a call does not come back
(`CommitFails`, `RouteFails`). After a refusal the pass goes on, and `CommitRoute`
remembers the route as written either way; `cuts` counts refusals too. `HasVanity`
says whether the project has a vanity name, without which the route is not there; a
release has one instance; Services, routes and secrets of a release, which only cause
its manifest to be written again, are left out. The worker is abstracted to
`WorkerDecides`, which writes to any row there is.

**`Platform`** puts the actions of `BuildWorker` and `ReleaseController` on the
same rows, without either abstraction of the other. It starts where a project is
after two releases, the first scaled down, the second live, their Jobs reaped
(`TwoReleases`).

**`LeaderLease`** is the renew loop of every controller on a discrete clock.
`age` is how long ago `renew_time` was, `elector[p]` the attempt: when it took its
timestamp, what the read said, whether its copy is current (`fresh`, the
resourceVersion). A write and its answer are two steps. A call takes any time up to
`Slow`, and nothing is assumed of `Slow` against `Lease`. An error of
`create_namespaced_lease` other than an `ApiException` ends the renew thread
(`ThreadDies`); `usurped` is history, how long a process has gone on although another
has taken its Lease. Clocks agree, a thread whose sleep is over runs at once, and a
write whose call has timed out is not applied later.

**`EnvStore`.** `write[w]` is one PUT, POST or DELETE of a variable or secret:
`Connect` takes a slot of the pool, `Lock` the advisory lock, `Load` and `Save` are
the two calls to Secret Manager, `Audit` takes a second slot while the first is
held. `Busy` and `AuditLost` are the ten seconds running out. `EnsureRead` and
`EnsureAdd` are `ensure_project_secret`, which takes no lock and reads any error as
a missing version; `DropSecret` is the deletion, whose caller has marked the row
before. Values are left out: a key that is gone is what a lost write shows. `/env`
and `/secrets` write the same object with the same steps.

**`ProjectLifecycle`** adds the life of that project. `pass[k]` is what a controller
has read: `sweep` while it collects and refreshes folders, then `start`, `check`
(is the namespace there?), `ensure` or `drop` (its secret), each a call during which
users, ArgoCD and env writes go on. `MarkReady`, `MarkTerminated`, `Drift` and
`MarkFailed` write the status whatever it has become. `commit_manifests_to_git`
swallows a refused call (`Commits`). `failures` is `_project_failures`, which only
sweeps count; `Crash` is a restart, which forgets it. The folder is the set of kinds of
file in it; a namespace is `owned` (in `tenant.yaml`, pruned with it) or `bare` (made
by ArgoCD's CreateNamespace, which nothing prunes). The initial folder may be a
former project's. A Ready project's releases come and go as `ReconcileReleases`
says; what exactly a pass writes is `ReleaseController`.

**`Access`** follows one user's row into everything decided on it. Time passes in
ticks; a cached sign-in, a ticket and a socket count the ticks they have left, a
sign-in or the opening of a socket in flight those it has taken, at most `Prompt`.
`Change` is the admin's UPDATE, `Evict(p)` the eviction reaching a process,
`EvictionLost(p)` a listener that is reconnecting or a publication that failed.
`ReadRow` and `Cache` are the two ends of `get_current_user`. A ticket carries the
decision of the request that got it (`Issue`), a socket that of its ticket or token
(`Authenticate`), and neither looks at the row again. `Open` is the stretch of
`_ws_open_for` without an await: the cap, then the slot. `SubscribeFails` leaks one.
An endpoint acts at once on the sign-in that admitted it. The lifetime of a socket
counts from its slot; the code starts its clock a little later, in `_keepalive`, after
the subscription and the first read of the row, which `Prompt` covers.

**`Webhooks`** has the rows of one project by `slot`, a pull request or production.
A request receives, passes `CheckLimits` in a transaction of its own, `Count`s in
the next one, and inserts. A refusal by freeze, suspension or repository binding may
happen at any time. `Builds`, `Built` and `Sweep` are the worker and sweeper as
`BuildWorker` shows them: unconditional but for the index. A pass remembers the state
it read of each row (`pass`) and acts on it later; `GoesLive` supersedes the previous
preview in the same transaction. `revived` is history: rows that came back after they
were Failed or Superseded.

## 3. The runs

| Run | Instance | What it shows |
|---|---|---|
| `queue` | 3 deploys (1 unencodable), 2 relays, 2 workers, batch 2, stream of 2, 2 faults | `TypeOK`; `NoLostDeploy`; `DuplicatesNeedFaults`; `SettlesWhatWasRecorded` (refinement, safety); `EveryDeploySettles` (refinement, liveness) |
| `builds` | 3 deploys (1 refused branch), or 2 releases and a queued rollback, 2 threads, Nixpacks fix, stale passes, 1 fault | `BuildsTypeOK`; `OneActive`; `QueuedHasMessage`; `ReleasesArePinned`; `NoUnattendedBuild` |
| `builds_crash` | 2 deploys, 2 threads, 1 fault | `EveryMessageSettles`; `EveryDeployEnds` |
| `platform` | 2 releases and a deploy, 1 rollback request, 1 thread, 1 controller, 1 fault of the worker or 1 refused or failed commit or controller crash | `ReleaseTypeOK`; `GitIsPinned`; `RollbacksNeverBuild`; `RouteNeverGone`; `NotRebuiltWithoutFaults`; `FilesStayWithoutFaults`; `NoGapOnSwitch` |
| `route` | 2 releases, pods that stay ready, 1 refused commit | *violation* of `RouteFollowsLive` |
| `lease` | 3 processes; in ticks of 5 s, lease 3, pause 1, calls of up to 2; 3 faults | `LeaseTypeOK`; `BriefOverlap`; `TakeoverAfterExpiry`; `SomeoneLeads`; no deadlock |
| `leaders` | 2 processes, the same times, no faults | *violation* of `OneLeader` |
| `env` | 2 keys, 2 writers, pool of 2, 1 initializer | `EnvTypeOK`; `SaveKeepsOthers`; `EveryWriteEnds` |
| `projects` | 1 controller, 1 writer, the API's initializer, skipped after 2 failed passes, 2 faults | `LifecycleTypeOK`; `ReadyKeepsFolder`; `ServedInTheEnd`; `TerminatedIsCollected` |
| `terminating` | 1 controller, no faults | *violation* of `DeletedIsTerminated` |
| `access` | 2 processes, 2 sockets, 1 ticket, every life and `Prompt` one tick, cap of 1, 1 failed subscribe | `AccessTypeOK`; `StaleIsBounded`; `EvictedMeansFresh`; `SignedOutAtLast`; `CapHolds`; no deadlock |
| `webhooks` | 3 rows, 3 pull requests, 2 requests at a time, 1 preview allowed | `WebhookTypeOK`; `OnePreviewPerPR`; `PreviewsAreCapped` |

Every property of a passing run is also checked against a mistake in the code: a
mutant of one definition (`PROJECT.json`, "mutants") under which TLC finds it
violated.

**Bounds.** `MaxFaults` and `MaxCuts` count failures, and `Deployment` bounds what
users create; otherwise only two counters are cut off: `crashes` stops at 2 and
`failures` at `GiveUp`, where the code's comparisons stop distinguishing; clocks stop
(`age` at `Ancient`) where every property has stopped caring. Two faults in the
queue let a pass fail on both sides of its XADDs and a worker die on an entry that
was sent twice. Two deployments and two threads are enough for a failed row to come
back while a newer one is active; three releases are enough for a promotion, a grace
period that ends, a release that becomes Superseded and a rollback that deploys again. `MaxLen` 2 lets trimming reach unread and pending entries. Two writers and a
pool of two let everybody wait with a connection in hand; a third writer only waits
longer. One-tick lives let every ticket, entry and socket be at both ends of its
life; the proofs cover all others. Three pull requests exceed the cap of one by
overlap, and would exceed the bound of `PreviewsAreCapped` by one more. The monthly
limit equals the number of rows, so a request is refused for it only by the
nondeterministic refusal that stands for freezes too. Deadlock is not
checked where users may simply stop; the lease loops and the clock of `Access` never
stop, so there it is.

`platform` sees one failure in a run, of the worker or of the controller (the
constraint `OneDisruption`, which after a fault of the worker also keeps a rollback
request and the deletion of a cancelled build's Job apart). It keeps one scaled-down
release, so that others become Superseded. The theorems of section 5 are for any
number of failures and any `KeepReleases`. `lease` and `leaders` use the code's own times: a lease of 15 s, a
pause of 5 s and calls of up to 10 s are 3, 1 and 2 ticks.

`NotRebuiltWithoutFaults` and `FilesStayWithoutFaults` say what holds until a delivery is
repeated or a call of the worker fails; after that both are false. A worker gets the image and
dies before the ack, its message comes again, a pass reads Deploying, the user cancels,
a thread looks at the row (now Failed) and prepares the build, the pass makes the row
Running, and the thread writes Building. And a cancelled deployment whose file the
cleanup is about to remove may be taken up again by the redelivery of its message; the
next pass writes the file again.

`NoGapOnSwitch` and `RouteNeverGone` say nothing once a commit was refused or has
failed: the route may then be one the pass only believes to be in Git (section 4).

`PreviewsAreCapped` leaves `revived` rows out: a preview that was cancelled or swept
while its worker went on, and comes up after all, was not counted by anybody.

**Fairness.** Relays and main loops run for ever, so their steps are weakly fair; a
message that is repeatedly free to be delivered is delivered eventually (strong
fairness of `Deliver`, since a thread may keep being busy with another); Jobs have a
deadline; the controller starts a pass at every interval and decides on a row within
five minutes. In `EnvStore` threads run on and Postgres grants the lock in the order
it was asked for (strong fairness of `Lock`: between two holders it is free for a
moment only); nobody is promised a connection, only that the wait for one ends. In
`ProjectLifecycle` the leader's loop comes round to the next sweep whatever events
arrive, and every twentieth sweep collects folders (strong fairness of `SweepStart`
and `CollectFolder`); ArgoCD syncs. Users, crashes, the sweeper, a pod's readiness
and the end of a grace period owe nothing. `EveryDeployEnds` therefore holds without
the sweeper through one fault, except for the branches the worker refuses
(`Malformed`), which only the sweeper ends. Two faults may leave a row to it: two
threads have the message, one crashes, the other settles it, and a row written
Building in between has nobody. In `LeaderLease` time passes, renew loops run and stopped pods are started again; a
pod whose renew thread has died is not, since nothing notices.

## 4. Disagreements with the documentation

With a run:

- **`terminating`.** A pass that read Provisioning goes on after the project has
  been deleted: it commits `tenant.yaml`, waits for the namespace, makes sure of the
  secret and sets the status to Ready. The row has `deleted_at`, nobody can see it any
  more, and no later pass terminates it. The docstring of `delete_project` says the
  controller will delete the namespace and then the row. `MarkFailed` and `Drift`
  lose a deletion the same way. Apart from that a Terminating project may wait for
  ever: only `tenant.yaml` is removed, files of releases keep the folder, and ArgoCD
  makes its namespace again.
- **`route`.** `commit_manifests_to_git` logs a commit that GitHub refuses and returns,
  so `sync_vanity_route` remembers the route as written. No later pass tries again
  until the controller restarts or another release is to be routed to; the stable
  hostname keeps pointing at the old release, also when its grace period is over.
  `docs/architecture.md`: "the stable vanity URL switches to it".
- **`leaders`.** A process believes it leads until an attempt ends, and attempts of two
  calls of up to 10 s outlast the lease of 15 s, so with a slow API server another
  process takes the Lease meanwhile. `docs/architecture.md`: "one leader (Lease)".
  `BriefOverlap` says how long there are two: less than 30 s after the takeover.
  `ReadyKeepsFolder`, `RouteNeverGone` and `FilesStayWithoutFaults`, which are about
  one controller at a time, are not guaranteed meanwhile.

Modelled, and seen to be possible in these models, without a run of their own:

- **A renew thread that dies** (`LeaderLease`, `ThreadDies`). A timeout of
  `create_namespaced_lease` is not an `ApiException`: it leaves `_renew_loop`, and the
  process never leads again, while `/healthz` goes on answering. If it happens to every
  process, nobody leads until a pod is restarted; `SomeoneLeads` makes that exception.
- **Suspended within seconds** (`Access`). The docstring of the suspension in
  `api/routers/operations.py:119` says so of signing out; an eviction that is missed is
  not sent again, and the sign-in then lasts as long as `StaleIsBounded` says: the life of
  the cache and one sign-in.
- **A refused payload** (`RelayReject`). `branch: null` passes the request model,
  ends up as a null field of the message, and redis-py refuses the whole batch, on
  every pass. `docs/decisions.md` says a deploy is never recorded without being
  queued. `EveryDeploySettles` therefore makes an exception of outboxes that hold one.
- **Cancel** (`BuildWorker`, `update_state`). The worker does not look at the row it
  overwrites, so a cancelled build goes on to Deploying. `docs/architecture.md`:
  "Cancel stops a queued or building deployment."
- **Rollback against scale-down** (`ReleaseController`). An instant rollback decides by
  `replicas` it has read; if the controller scales the target down before the rollback
  writes, the live release has 0 replicas and nothing raises them again. The comment at
  `reconcile_deployments` says this never happens to the live release.
- **Closing a pull request** (`Webhooks`). Only Running and Failed previews are
  superseded; one that is being built goes live afterwards and stays.
  `_handle_pull_request`: "remove its previews when it closes".
- **The audit log** (`EnvStore`). `api/routers/env.py` says every change is written to
  it; with the pool exhausted by requests that wait for the lock, the entry is dropped.

## 5. What is proved

Each proof module extends its specification and needs only its named assumptions
about constants (and `OneController` where a theorem says so).

- **`DeployQueue_proofs`.** `NoLostDeploy` is not inductive: it does not say what
  a pass in progress has done. `IInv` adds that locked rows are recorded, that
  the rows of a pass that has sent have entries, that a recorded row is in the
  outbox or has an entry, that everything the cursor has passed is pending,
  acknowledged or trimmed, and how far trimming goes. From it follow `TypeCorrect`,
  `DeploysSurvive`, and `ImplementsAtLeastOnce`: each step maps to a step of
  `AtLeastOnce` or to a stutter, by what it does to `recorded` and `acked`.
  `DuplicatesNeedFaults` needs `DupInv` besides: the locks of two passes are apart, and
  a row that is still to be sent (`Unsent`) has one entry less than the bound. Sending
  uses that one up, and only a failed pass, which is a fault, makes the row unsent
  again (`DuplicatesAreFaults`).
- **`BuildWorker_proofs`.** `BInv` joins the three properties with what a thread
  knows at each step: once it may acknowledge, its row has left the queue for good;
  once it may finish, its row is pinned; a rollback request that chose a target has
  read its digest. `ReadInv` adds that what the controller has read as Deploying was
  pinned, since it writes Running to it later, whatever the row says by then.
  Together they give `OneDeployInProgress`, `WaitingHasMessage` and
  `DeployedIsPinned`, for any number of deployments, threads, requests and faults. Since `HandlerStep` has seventeen cases, the lemmas are
  about kinds of steps: one that leaves rows alone, one that moves one row, one that
  settles a message. `WorkInv` is about Jobs and hands: no rollback is at a step that
  builds; until a fault, no two threads have the same message (`AloneInv`) and
  a running Job has a thread at a step that watches it (`AttendedInv`, stronger
  than `NoUnattendedBuild`, since a thread that has reaped must not count). `ThreadStep` and `ThreadJobs` say
  what any step of a thread does, `OutsideStep` what anybody else does; from them
  follow `BuildTypes`, `RollbacksDoNotBuild` and `JobsAreAttended`.
- **`Platform_proofs`** takes both to the whole controller. A release leaves traces:
  its file in Git, its Deployment in the cluster, what a pass has seen or means to
  handle (`Traced`). The controller only spreads traces or takes up what is deployed,
  users and workers change none, so what holds of every deployed release and lasts
  holds of every trace: it is pinned (`PinInv`), and until the first fault its message
  is settled or about to be (`DoneInv`). With that, `BInv` and `WorkInv`'s parts survive
  passes that write Running and Failed by rows read earlier (`PlatformInvariance`), for
  any number of controllers. `GitStaysPinned`, `PlatformBuildsNoRollback`,
  `PlatformKeepsRowInvariants`, `PlatformJobsAttended`, `PlatformTypes` and
  `ReleaseTypes` follow, and `DeployedStaysDeployedUntilAFault` from `DoneInv`.
  Three more need `OneController`, one process doing the controller's work, which is
  what the lease is for: `PlatformKeepsFiles` from `GoneInv` (until the first fault, what
  a pass has seen and read as done with stays so), `RouteStaysUp` and
  `PlatformRouteStaysUp` from `RouteInv` (until a commit is refused or fails, the cache
  of the route is what Git says, and the release about to be routed to is up). With two controllers the properties are
  false: one may promote what the other has read as done with, and the caches of
  the route disagree.
- **`LeaderLease_proofs`.** `BriefOverlap` does not say how much longer a process will
  believe. `LInv` does, by the timers of its renew loop: while it holds the Lease they
  bound its age (the attempt that renewed it, the pause, and the attempt in progress);
  from the takeover on, which needs an age over `Lease`, the same timers bound the
  lease and the time since (`Within`). `OverlapIsBrief` follows for any number of
  processes, faults, and all times; where four calls and a pause fit into the lease it
  says that nobody leads without the Lease, which the code's times do not
  satisfy. `LeaseTypes` and `NoEarlyTakeover` follow too: what a copy says is true as
  long as the server would take a write based on it, however slow the call.
- **`EnvStore_proofs`.** What a writer stores is computed from what it read, so
  `EnvInv` adds that the lock has one holder and that a writer about to save has read
  every key that is stored: who takes no lock only ever empties the object. Its steps
  preserve it, and `NoLostUpdate` follows from it at each `Save`; `EnvTypeCorrect` too.
- **`ProjectLifecycle_proofs`** extends them. `PassInv` is `EnvInv`, the types, and what
  stays true of the status a pass has read: rows stay, deletions stay, a pass that drops
  the secret read Terminating. It gives `LifecycleTypeCorrect`. `FolderOutlivesSweeps`
  needs `NewcomersWait` besides, which holds if one controller leads: a project the
  sweep found no row for cannot be Ready or Failed before that sweep is over.
- **`Access_proofs`.** `Chain` bounds, for each place a decision on the old row can be
  in (a sign-in in flight, the cache, a ticket, an opening, a socket), the age of the
  change plus the time that place has left; every step hands the bound on.
  `StaleSignInsExpire` and `SuspensionTakesHold` follow for all lives of all of them.
  `CapIsKept` counts: the open sockets of a process are at most the slots taken, which
  only leaking makes strict; `AccessTypeCorrect` needs it, since `_ws_open` is a number
  because every `Close` returns a slot that was taken. `EvictionWorks` is about order:
  an eviction empties what is cached and marks the sign-ins in flight, so what a
  process it has reached still decides on the old row was in flight then (`Fresh`).
- **`Webhooks_proofs`.** `PreviewInv`, the type invariant and `OnePreviewPerPR`, is
  inductive: the index keeps two rows of a pull request from being in flight together,
  whoever inserts or revives them, and going live supersedes the other in the same
  step. The lemmas are about rows that go and about one row that enters a class.
  `PreviewCap` counts: `CapInv` bounds the pull requests that have a preview together
  with those a request has been allowed to insert one for. Only `Count` adds to them,
  when fewer than `MaxPreviews` others have a preview, and each other request holds
  one permission at most; an insert uses one up, and a deploy by hand is no preview.

Only model-checked: all liveness (`EveryDeploySettles`, `EveryMessageSettles`,
`EveryDeployEnds`, `SomeoneLeads`, `EveryWriteEnds`,
`ServedInTheEnd`, `TerminatedIsCollected`), since fairness and ENABLED are out of the
prover's reach; and `NoGapOnSwitch`. That one depends on time: a rollback that has
chosen its target and does not write for more than the ten minutes of a grace period,
while the live release fails, could switch to what is being scaled down. The run's one
request and three releases do not get there, and the model has no clock to say that a
request is shorter than ten minutes. Induction over data and RECURSIVE operators, which
the prover does not support, are not needed: no module has either.

## 6. What could follow

- Two controllers in `ReleaseController`, with `LeaderLease` deciding who passes.
- An abstract lifecycle of a deployment (what the sweeper, a cancel and a stale pass
  may do to a row that has ended), to be implemented by `Deployments` and its users.
- `release_scaling` and the hostname and size rules as pure operators against
  reference definitions.
- A proof of `NoGapOnSwitch` once the time a request takes is in the model.

## Running it

```
tlc -workers 2 -config queue.cfg MCDeployQueue.tla
tlapm DeployQueue_proofs.tla
```

`PROJECT.json` lists the runs with their module and configuration, the mutation of
the code each property was seen to catch, the source lines every definition models,
the findings, the hazards and the theorems.

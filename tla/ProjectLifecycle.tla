---------------------------- MODULE ProjectLifecycle ----------------------------
(***************************************************************************)
(* The life of one project: its row (api/routers/projects.py), the         *)
(* controller's passes over it (controller/main.py: reconcile,             *)
(* _reconcile_project, reconcile_single_project_by_id, the orphan GC and   *)
(* the tenant refresh), its folder in the tenants repository, and the      *)
(* namespace ArgoCD makes of that folder (infra/system/applicationset).    *)
(*                                                                         *)
(* A pass acts on the status it read at its start; every UPDATE of the     *)
(* status it makes later is unconditional.  A sweep reads all rows first,  *)
(* collects folders no row owns, and then passes over the projects.        *)
(* The pass over a Ready project is ReleaseController; here it only writes *)
(* or removes the files of releases.  The secret is EnvStore's.            *)
(***************************************************************************)
EXTENDS EnvStore

CONSTANTS
    Controller,    \* controller processes that believe they lead
    GiveUp,        \* failed passes in a row after which a sweep skips the project (3)
    MaxFaults      \* bound: failed calls, crashes and namespaces deleted by hand

ASSUME LifecycleAssumption ==
    /\ Controller \subseteq Initializer
    /\ GiveUp \in Nat \ {0}
    /\ MaxFaults \in Nat

VARIABLES
    status,        \* of the project's row; none before it is created
    folder,        \* its folder in Git: the kinds of file in it
    namespace,     \* none, owned (a resource of the ArgoCD app) or bare (made by CreateNamespace)
    pass,          \* per controller: where its pass is, the status it read, whether
                   \* an event rather than a sweep began it
    failures,      \* per controller: _project_failures of the project
    faults

projectVars   == <<status, folder, namespace, failures, faults>>
lifecycleVars == <<envVars, projectVars, pass>>

Status == {"none", "Provisioning", "Ready", "Failed", "Terminating", "Terminated"}

NoPass == [pc |-> "idle", row |-> "none", byEvent |-> FALSE]

LifecycleTypeOK ==
    /\ EnvTypeOK
    /\ status \in Status
    /\ status = "none" => ~ deleted
    /\ status \in {"Terminating", "Terminated"} => deleted
    /\ folder \subseteq {"tenant", "release"}
    /\ namespace \in {"none", "owned", "bare"}
    /\ pass \in [Controller -> [pc : {"idle", "sweep", "start", "check", "ensure", "drop"},
                                row : Status, byEvent : BOOLEAN]]
    /\ failures \in [Controller -> 0..GiveUp]
    /\ faults \in 0..MaxFaults

\* The tenants repository and the cluster outlive the database: they may hold
\* what an earlier project with this namespace left.
LifecycleInit ==
    /\ EnvInit
    /\ status = "none"
    /\ folder \in {{}, {"release"}, {"tenant", "release"}}
    /\ namespace = IF folder = {} THEN "none" ELSE IF "tenant" \in folder THEN "owned" ELSE "bare"
    /\ pass = [k \in Controller |-> NoPass]
    /\ failures = [k \in Controller |-> 0]
    /\ faults = 0

Fault == faults < MaxFaults /\ faults' = faults + 1

Moves(k, from, to) ==
    /\ pass[k].pc = from
    /\ pass' = [pass EXCEPT ![k].pc = to]

\* The pass is over and raised nothing, as far as the sweep can tell.
Ends(k, from) ==
    /\ pass[k].pc = from
    /\ pass' = [pass EXCEPT ![k] = NoPass]
    /\ failures' = IF pass[k].byEvent THEN failures ELSE [failures EXCEPT ![k] = 0]

-----------------------------------------------------------------------------
(* The API.                                                                *)

Create ==
    /\ status = "none"
    /\ status' = "Provisioning"
    /\ UNCHANGED <<envVars, folder, namespace, pass, failures, faults>>

DeleteByStatusOnly ==
    /\ status # "none"
    /\ status' = "Terminating"
    /\ UNCHANGED <<envVars, folder, namespace, pass, failures, faults>>
Delete ==
    /\ status # "none"
    /\ MarkDeleted
    /\ status' = "Terminating"
    /\ UNCHANGED <<folder, namespace, pass, failures, faults>>

-----------------------------------------------------------------------------
(* A pass.                                                                 *)

ActiveUnlessFailed(s) == s \notin {"none", "Terminated", "Failed"}
Active(s) == s \notin {"none", "Terminated"}

\* reconcile: SELECT the rows, then list the cluster.
SweepStart(k) ==
    /\ pass[k].pc = "idle"
    /\ pass' = [pass EXCEPT ![k] = [pc |-> "sweep", row |-> status, byEvent |-> FALSE]]
    /\ UNCHANGED <<envVars, projectVars>>

\* gc_orphan_tenant_folders, every twentieth sweep: no row owns the folder, so
\* its files go, one call each; a call that fails leaves its file.
CollectTenantOnly(k) ==
    /\ ~ Active(pass[k].row)
    /\ pass[k].pc = "sweep"
    /\ pass' = [pass EXCEPT ![k] = NoPass]
    /\ folder' = folder \ {"tenant"}
    /\ failures' = [failures EXCEPT ![k] = 0]
    /\ UNCHANGED <<envVars, status, namespace, faults>>
CollectFolder(k) ==
    /\ ~ Active(pass[k].row)
    /\ pass[k].pc = "sweep"
    /\ pass' = [pass EXCEPT ![k] = NoPass]
    /\ \/ folder' = {} /\ UNCHANGED faults
       \/ Fault /\ folder' \in SUBSET folder
    /\ failures' = [failures EXCEPT ![k] = 0]
    /\ UNCHANGED <<envVars, status, namespace>>

SweepPassesBy(k) ==
    /\ ~ Active(pass[k].row)
    /\ Ends(k, "sweep")
    /\ UNCHANGED <<envVars, status, folder, namespace, faults>>

\* refresh_tenant_manifests, on the same sweeps, for rows that were Ready; then
\* the pass over the project, unless it failed too often.
SweepGoesOn(k) ==
    /\ Active(pass[k].row)
    /\ pass[k].pc = "sweep"
    /\ folder' \in {folder, IF pass[k].row = "Ready" THEN folder \cup {"tenant"} ELSE folder}
    /\ pass' = [pass EXCEPT ![k] = IF failures[k] < GiveUp THEN [@ EXCEPT !.pc = "start"] ELSE NoPass]
    /\ UNCHANGED <<envVars, status, namespace, failures, faults>>

\* A connection for the pass is not to be had: a sweep counts a failure.
PassBreaks(k) ==
    /\ Fault
    /\ pass[k].pc = "start"
    /\ pass' = [pass EXCEPT ![k] = NoPass]
    /\ failures' = [failures EXCEPT ![k] = IF pass[k].byEvent \/ @ = GiveUp THEN @ ELSE @ + 1]
    /\ UNCHANGED <<envVars, status, folder, namespace>>

\* reconcile_single_project_by_id, for an event: the row, then its pass.
EventStart(k) ==
    /\ pass[k].pc = "idle"
    /\ Active(status)
    /\ pass' = [pass EXCEPT ![k] = [pc |-> "start", row |-> status, byEvent |-> TRUE]]
    /\ UNCHANGED <<envVars, projectVars>>

\* commit_manifests_to_git: a call that GitHub refuses changes nothing, and its
\* caller is not told.
Commits(newFolder) ==
    \/ folder' = newFolder /\ UNCHANGED faults
    \/ Fault /\ UNCHANGED folder

CommitNothing(k) ==
    /\ pass[k].row = "Provisioning"
    /\ Moves(k, "start", "check")
    /\ UNCHANGED <<envVars, projectVars>>
CommitTenant(k) ==
    /\ pass[k].row = "Provisioning"
    /\ Moves(k, "start", "check")
    /\ Commits(folder \cup {"tenant"})
    /\ UNCHANGED <<envVars, status, namespace, failures>>

RemoveTenant(k) ==
    /\ pass[k].row = "Terminating"
    /\ Moves(k, "start", "check")
    /\ Commits(folder \ {"tenant"})
    /\ UNCHANGED <<envVars, status, namespace, failures>>

\* The namespace is there: make sure of its secret, then it is Ready.
NamespaceUp(k) ==
    /\ pass[k].row = "Provisioning" /\ namespace # "none"
    /\ Moves(k, "check", "ensure")
    /\ init' = [init EXCEPT ![k] = "ensure"]
    /\ UNCHANGED <<deleted, storeVars, write, projectVars>>

MarkReady(k) ==
    /\ init[k] = "idle"
    /\ Ends(k, "ensure")
    /\ status' = "Ready"
    /\ UNCHANGED <<envVars, folder, namespace, faults>>

\* The namespace is gone: so goes the secret, unless the call fails, and the row
\* is Terminated.
NamespaceGone(k) ==
    /\ pass[k].row = "Terminating" /\ namespace = "none"
    /\ Moves(k, "check", "drop")
    /\ DropSecret \/ UNCHANGED envVars
    /\ UNCHANGED projectVars

MarkTerminated(k) ==
    /\ Ends(k, "drop")
    /\ status' = "Terminated"
    /\ UNCHANGED <<envVars, folder, namespace, faults>>

\* Not yet, in either direction.
Waits(k) ==
    /\ \/ pass[k].row = "Provisioning" /\ namespace = "none"
       \/ pass[k].row = "Terminating" /\ namespace # "none"
    /\ Ends(k, "check")
    /\ UNCHANGED <<envVars, status, folder, namespace, faults>>

\* A Ready project whose namespace is missing is provisioned again.
Drift(k) ==
    /\ pass[k].row = "Ready" /\ namespace = "none"
    /\ Ends(k, "start")
    /\ status' = "Provisioning"
    /\ UNCHANGED <<envVars, folder, namespace, faults>>

\* reconcile_deployments: the files of the project's releases come and go.
ReconcileReleases(k) ==
    /\ pass[k].row = "Ready" /\ namespace # "none"
    /\ Ends(k, "start")
    /\ folder' \in {folder, folder \cup {"release"}, folder \ {"release"}}
    /\ UNCHANGED <<envVars, status, namespace, faults>>

\* No branch takes a Failed project on.
PassOverFailed(k) ==
    /\ pass[k].row = "Failed"
    /\ Ends(k, "start")
    /\ UNCHANGED <<envVars, status, folder, namespace, faults>>

\* Anything raised in a pass makes the project Failed, whatever its row says now.
MarkFailed(k) ==
    /\ Fault
    /\ pass[k].pc \in {"start", "check", "ensure", "drop"}
    /\ Ends(k, pass[k].pc)
    /\ init' = [init EXCEPT ![k] = "idle"]
    /\ status' = "Failed"
    /\ UNCHANGED <<deleted, storeVars, write, folder, namespace>>

\* The process restarts, and has forgotten whom it gave up.
Crash(k) ==
    /\ Fault
    /\ pass' = [pass EXCEPT ![k] = NoPass]
    /\ failures' = [failures EXCEPT ![k] = 0]
    /\ init' = [init EXCEPT ![k] = "idle"]
    /\ UNCHANGED <<deleted, storeVars, write, status, folder, namespace>>

-----------------------------------------------------------------------------
(* ArgoCD: an application per folder, prune, selfHeal, CreateNamespace, and *)
(* a finalizer that deletes its resources with it.                          *)

SyncCreates ==
    /\ folder # {}
    /\ namespace' = IF "tenant" \in folder THEN "owned" ELSE "bare"
    /\ namespace = "none" \/ (namespace = "bare" /\ namespace' = "owned")
    /\ UNCHANGED <<envVars, pass, status, folder, failures, faults>>

\* tenant.yaml is gone, or the whole folder: what the app owns is deleted.
SyncPrunes ==
    /\ namespace = "owned"
    /\ "tenant" \notin folder
    /\ namespace' = "none"
    /\ UNCHANGED <<envVars, pass, status, folder, failures, faults>>

NamespaceLost ==
    /\ Fault
    /\ namespace # "none"
    /\ namespace' = "none"
    /\ UNCHANGED <<envVars, pass, status, folder, failures>>

-----------------------------------------------------------------------------
PassStep(k) ==
    \/ CollectFolder(k) \/ SweepPassesBy(k) \/ SweepGoesOn(k)
    \/ CommitTenant(k) \/ RemoveTenant(k) \/ NamespaceUp(k) \/ MarkReady(k)
    \/ NamespaceGone(k) \/ MarkTerminated(k) \/ Waits(k) \/ Drift(k)
    \/ ReconcileReleases(k) \/ PassOverFailed(k)
    \/ EnsureStep(k) /\ UNCHANGED <<projectVars, pass>>

LifecycleNext ==
    \/ Create \/ Delete
    \/ \E k \in Controller :
          SweepStart(k) \/ EventStart(k) \/ PassStep(k)
          \/ PassBreaks(k) \/ MarkFailed(k) \/ Crash(k)
    \/ SyncCreates \/ SyncPrunes \/ NamespaceLost
    \/ /\ \/ DropSecret
          \/ \E i \in Initializer \ Controller : EnsureStep(i) \/ (status # "none" /\ Bootstrap(i))
          \/ \E w \in Writer : WriterStep(w)
          \/ status # "none" /\ \E w \in Writer, op \in Op, key \in Key : Arrive(w, op, key)
       /\ UNCHANGED <<projectVars, pass>>

LifecycleSpec == LifecycleInit /\ [][LifecycleNext]_lifecycleVars

\* The leader's main loop comes round to the next sweep, its calls return, every
\* twentieth sweep collects folders, and ArgoCD syncs.
LifecycleFairness ==
    /\ \A k \in Controller :
          /\ WF_lifecycleVars(SweepStart(k) \/ EventStart(k) \/ PassStep(k))
          /\ SF_lifecycleVars(SweepStart(k))
          /\ SF_lifecycleVars(CollectFolder(k))
    /\ WF_lifecycleVars(SyncCreates)
    /\ WF_lifecycleVars(SyncPrunes)

FairLifecycleSpec == LifecycleSpec /\ LifecycleFairness

-----------------------------------------------------------------------------
(* Properties.                                                             *)

\* A project that got as far as Ready or Failed keeps its tenant.yaml until it is
\* deleted: the collector works on the rows the sweep read first, and a pass
\* removes the file only of a Terminating project (controller/main.py:240).
ReadyKeepsFolder ==
    [][(~ deleted /\ status \in {"Ready", "Failed"})
          => folder \ {"release"} \subseteq folder']_lifecycleVars

\* A project that is created, or whose namespace is lost, gets a namespace and is
\* Ready, unless a pass over it fails, every controller has given it up
\* (controller/main.py:711), or its owner deletes it.
ServedInTheEnd ==
    status \in {"Provisioning", "Ready"}
       ~> \/ status = "Ready" /\ namespace # "none"
          \/ status = "Failed" \/ deleted
          \/ \A k \in Controller : failures[k] = GiveUp

\* What a Terminated project leaves in Git is collected, and the namespace ArgoCD
\* owns goes with it.
TerminatedIsCollected ==
    status = "Terminated" ~> folder = {} /\ namespace # "owned"

\* "The controller will delete the Kubernetes namespace and then hard-delete the
\* row once the namespace is gone" (api/routers/projects.py:316).
DeletedIsTerminated ==
    status = "Terminating" ~> status = "Terminated"
=============================================================================

# Primaza: a verification project

TLA+ modules for the control plane and the two agents of [Primaza](../src/README.md), TLC
configurations that check them on small instances, and TLAPS proofs of the
properties that matter most.

## 1. The system

Primaza connects applications to services across Kubernetes clusters. A *control
plane* holds all resources; *worker clusters* hold application namespaces and
service namespaces, each with an agent. Everything is a controller: a worker that
takes a name from a work queue, reads objects from a **cache** that lags the API
server, and writes objects back with the resourceVersion it read; the API server
rejects a write from an old version. A returned error puts the name back in the
queue. Every controller has one worker (`MaxConcurrentReconciles` is not set), but
the controllers of one manager run concurrently and write each other's objects.

| component | source | state it keeps | operations | talks to |
|---|---|---|---|---|
| ServiceClaim controller | `controllers/serviceclaim_controller.go` | claim state, claimID, `status.registeredService`, finalizer | choose a service, mark Pending, claim the service, push bindings, mark Resolved, roll back; on deletion unbind, release, drop the finalizer | services (status), worker clusters (ServiceBinding, secret, claim copies), events of services |
| RegisteredService controller | `controllers/registeredservice_controller.go` | `status.state`, health-check CronJob | derive the state, add to and remove from catalogs | catalogs, health jobs |
| Matching | `pkg/envtag`, `checkSCISubset` | none | environment constraints, identities as multisets | used by all of the above |
| ServiceCatalog controller | `controllers/servicecatalog_controller.go` | none | push the catalog to every ClusterEnvironment of the environment | worker clusters |
| ClusterEnvironment controller | `controllers/clusterenvironment_controller.go` | state, conditions, finalizer | test connection and permissions, create/delete/push the catalog, bind namespaces, push bindings, monitor health | catalogs, claims, worker clusters |
| Namespace binding | `pkg/primaza/controlplane/namespaces_*.go`, `workercluster/agents.go` | RoleBindings (with labels), agents | bind and unbind namespaces | API servers of both sides |
| Informers (pull strategy) | `clusterenvironment_controller_*informers.go` | running informers, by ClusterEnvironment and namespace | start, stop, synchronize; copy claims, services and their secrets up from worker clusters | claims, services |
| ServiceClass controller, webhook | `controllers/serviceclass_controller.go`, `api/v1alpha1/serviceclass_webhook.go`, `controlplane/serviceclasses.go` | finalizer, copies of classes | push classes to service namespaces, remove them, reject a second class for a kind | service namespaces |
| Application agent | `controllers/agents/app` | binding state, finalizers, informers | project secrets into workloads, forward claims, own catalogs, clean up when it is deleted | workloads, control plane |
| Service agent | `controllers/agents/svc` | informers, finalizers of classes and of its Deployment | register the resources of a class, by list and by event; unregister them with the class or the agent | control plane |

The hard behaviours: three controllers read stale caches and write the same
objects; a claim is resolved by four writes to three objects in two clusters, any
of which may fail or be followed by a restart; catalogs are created from one read
and edited from another; and what was pushed to a worker cluster has to be found
again without a record of it. What makes each part correct:

* claims: a service is used by one claim at a time; a resolved claim that has somewhere to be
  pushed to has its binding, and a deleted one leaves none; retries end;
* services: only the claim controller frees a claimed service without a health check;
* catalogs: entries are unique, and catalog and copies end up equal to what is available;
* workloads: the secret of a binding ends up in every selected workload and leaves it
  with the secret; nothing is left undone when the agent rests;
* namespaces: agents end up exactly where they are asked for, and none is lost sight of;
* discovery: every resource of a class is registered as it is, and nothing is unregistered but
  with its class or its agent;
* forwarding: claims and services are in the control plane as they are in their namespaces, and
  a claim that is gone leaves no copy behind;
* classes: one managed class per kind, service namespaces have it as it is now, and only missing
  copies keep one that is deleted from going.

`PROJECT.json` lists every component and, under `hazards`, the lines where each of
these can go wrong.

## 2. Modules

### Matching
`Match` and `checkSCISubset` as recursive functions, one step per iteration, with the
early returns of the loops. `MCClaimLifecycle` states what they compute over all lists up to a
length, next to the claims that choose with them. `ClassPush` uses `Match` too.

### ClaimLifecycle
The ServiceClaim controller (worker `w`), the status half of the RegisteredService
controller (worker `v`), and the ClusterEnvironment controller's pass that pushes
bindings again (`env`).

| TLA+ | Go |
|---|---|
| `claim`, `svc` | ServiceClaims and `status.state` of RegisteredServices in the API server |
| `cCache`, `sCache`, `stale`, `edited` | the manager's cache; whether the cached version is current; whether the generation changed (`GenerationChangedPredicate`) |
| `w.pc` | the call at which the code of `Reconcile` stands; one step is the code between two calls to an API server |
| `w.fresh`, `w.sfresh`, `v.fresh` | whether the in-memory copy has the current resourceVersion |
| `binding` | the service named by the claim's ServiceBinding in its application namespaces |
| `stray` | history: services that stopped being Claimed while a claim still used them |

`Reconcile`, `AddFinalizer`, `ensureServiceClaimIsInitialized`, `processClaim`,
`reportNoMatch`, `processResolvedServiceClaim`, `markPending`, `claimService`,
`pushToClusterEnvironments`, `rollback`, `markResolved`,
`processClaimMarkedForDeletion`, `releaseService` and `removeFinalizer` are the pieces
of the claim's `Reconcile`; `ReconcileService` and `UpdateService` those of the
service's. `Restart` loses queues, workers and caches.

Abstractions: a resourceVersion is only compared with the current one, so a flag
stands for it; a write that changes nothing keeps the version, as the API server does;
the cache jumps to the current version; lists come in any order; the name of a deleted
service is used again only when nothing refers to it; the bindings of one claim are one
value, and a push that fails in some namespaces may or may not have written it; which claims
have a namespace to be pushed to at all is fixed (`Hosted`): the push of another one writes
nothing and succeeds, as the loops over ClusterEnvironments and namespaces do when nothing in them
matches, and the claim is Resolved;
conditions are left out, except that a `Ready=False` already there makes the write in
`reportNoMatch` a no-op; service endpoint keys, cluster contexts and remote copies are a
success or a failure (`MayFail`); the RegisteredService controller may reconcile any
time, since its own CronJob's events and its retries do that.

### Allocation, ClaimAllocation
`Allocation` is what the claim controllers promise, without caches, versions and workers: a
claim is given a service that nobody uses (`Grant`), stops using it (`Drop`), and a service is
freed (`Free`). Its one gap is explicit: a service freed while in use is `stray`, and no longer
protected. `ClaimAllocation` maps `ClaimLifecycle` to it: a service is claimed when its state says
so, its users are the claims that are Resolved with it or about to be (`Holds`).

### Catalog
Catalogs, their copies in application namespaces, and the three controllers that write
them: RegisteredService (worker `v`), ClusterEnvironment (`x`), ServiceCatalog (`u`).
Objects, caches and versions are as above; the claim controller appears only as
`changeServiceState`, bounded by `MaxClaims`. The spec of a service has two revisions,
of which the second may be constrained to other environments. A copy is one value per
ClusterEnvironment; unbinding its namespaces removes it at once (it is owned by the
agent). Names of deleted objects are not used again.

### NamespaceBinding
RoleBindings in the control plane and agents in the worker cluster, and the
ClusterEnvironment controller that keeps them. A RoleBinding has the name and the labels
the code gives it, because creation and deletion compute the name differently. Names are joined
with dashes, so a name is the sequence of its parts (`Parts`, `Role`) and joining is concatenation:
ClusterEnvironment `worker` with namespace `prod-apps`, and `worker-prod` with `apps`, give one name,
under which the second RoleBinding is not created and no error is reported. `NamesDiffer` says that
this does not happen. A
namespace stands for one of either kind (application or service), which share nothing.
An agent is a Deployment and a ConfigMap that may fail separately; each remembers who
created it. The context secret may be deleted, and its absence is the error that the finalization
ignores. Calls fail and the manager restarts until `calm`. `MaxVersion` bounds the edits of a spec.
An agent is deleted at once: that its Deployment stays until the agent has removed its finalizer is
in `ServiceDiscovery` and `Forwarding`.

### WorkloadBinding
The application agent: one ServiceBinding, the reconciler (`rec`) and the handlers (`hnd`)
of the informer it starts, which run concurrently and write the same workloads and the same
status.

| TLA+ | Go |
|---|---|
| `binding`, `cache`, `fresh` | the ServiceBinding, its cached copy, and which copies have the current version: the cache's, the reconciler's, the handler's, the one in the informer's closure |
| `workloads`, `held` | the volume, variables and mount path of each workload; which thread has a current copy of it |
| `secrets` | each secret, and whether the binding (or a former one of the name) owns it |
| `informer`, `events` | the running informer with the secret its closure names; undelivered events, at most `Backlog` per workload |
| `calm` | users, and the network, leave everything alone from now on |

`ReconcileLive` to `SetOwner` are the pieces of `Reconcile`, `ReconcileDeleted` to
`RemoveFinalizer` those of the finalization, `HandleChange` to `HandlerPrune` those of the
three event handlers. `Bound` and `Unbound` are what they do to a workload.

Abstractions: the selector does not change, and a workload's labels are all, some or none of
it; variables that refer to a secret are one value; the binding declares some; other bindings
are among the users; a user's volume is left out; the event queue of one workload is bounded
by merging the agent's own updates, so that only users wait for it. The finalizer that
`Reconcile` adds is never written (a status update leaves metadata alone), so whether there is
one is a matter of how the binding is created: the constant `Finalized`.

### ServiceDiscovery
The service agent of one service namespace: the ServiceClass controller (`w`), the controller of
the agent's Deployment (`d`), and one informer per class whose handler (`h[c]`) registers on its
own.

| TLA+ | Go |
|---|---|
| `obj`, `class`, `dep` | the resources, the ServiceClasses with finalizer, deletion and owner, and the Deployment |
| `reg` | RegisteredServices in the control plane, under the names of resources |
| `cache`, `stale`, `queue` | the manager's cache and the work queues |
| `w.items`, `w.todo` | the resources that were listed, and those still to be handled |
| `inf`, `h` | `r.informers`: with which version of the class it was started, its store; the event being handled |

`Reconcile` to `UpdateStatus` are the pieces of the class's `Reconcile`, in the order of its
calls; `Notify`, `Resync` and `CreateOrUpdateRegisteredService` those of the informer;
`ReconcileAgent` to `RemoveAgentFinalizer` those of `agentsvc_controller.go`. `Crash` loses
informers and workers; without the Deployment the process exits (`os.Exit`) or is killed.
Content is only compared with the current one, so flags stand for it; endpoint definitions
succeed or fail; the secret of a RegisteredService is not in the state (the garbage collector
removes it with its owner), its failing write is an error after the RegisteredService was written; a call whose context is cancelled has been served before the cancellation, or not
at all (a request on its way could still be served after it, which no client can rule out).

### Forwarding
How claims and services reach the control plane: by the application agent (`strategy` push), or
by the informers of the ClusterEnvironment controller (pull), and the catalogs that the agent is
handed. A behaviour is about one strategy and one kind of object (`flow`), which do not meet.

| TLA+ | Go |
|---|---|
| `item`, `copy`, `secret` | claims or services in the namespaces, their copies in the control plane, the descriptor secrets of these |
| `dep`, `catalog`, `up`, `a`, `d` | the agent: Deployment, the catalog in its namespace, its process and its workers |
| `todo`, `r`, `inf`, `h` | the ClusterEnvironment worker, `appInformers`/`svcInformers`, and the events being handled |

`Reconcile` to `RemoveFinalizer` are the agent's claim controller, `ReconcileCatalog`,
`ReconcileAgent` and `RemoveAgentFinalizer` its other two; `RunInformers` and `MarkSynced` are
`Run*Informers` and `Run*Informer`, `Handle` the handlers. The registry of informers is modelled
as the code keeps it: informers are entered under `ClusterEnvironment/namespace` and looked for
under the namespace alone, so that each run stops them all. Cancelled calls are as in
`ServiceDiscovery`; claims with an environment tag, which the informers ignore, are not among the pulled ones.
The finalization of copies in the control plane is that of `ClaimLifecycle`. An item that is listed
and deleted before its late add event is handled makes no event: the handlers would write and delete
its copy. A descriptor secret is there when its service is; a missing one is a handler's error, as any
failing call.

### ClassPush
ServiceClasses in the control plane and their copies in service namespaces, written by the
ServiceClass controller (`w`) and by the ClusterEnvironment controller's pass (`e`), and the
webhook, which judges by the same cache. `watch` is the list of changes the cache has not seen:
the order of changes of different classes matters to the webhook. A copy has the version of the
class that was written last and may be `dying`, held by the finalizer of the service agent
(`Collect`, see `ServiceDiscovery`). A worker holds a job, the class it read and the calls still to
be made: the namespaces of each ClusterEnvironment, one after the other. A call that fails ends those of its ClusterEnvironment, and
the others are still made; that a class exists already (`AlreadyExists`, from a creation that lost a
race) ends them without an error. The pass pushes every class it lists that has constraints and
admits the ClusterEnvironment, whether the controller manages it or not: `OneManaged` is about the
finalizer, and says nothing of which classes have copies. The webhook also rejects the controller's own
updates of finalizers while it sees another class of the kind: that is what makes `OneManaged`
true.

Operators marked *Variant* are altered forms of the definition after them, used to test
that the properties notice a plausible mistake; no specification uses them.

## 3. Runs

| run | instance | shows |
|---|---|---|
| `claims_faults` | 2 claims, of which one has an application namespace, 1 service, failures, restarts, deletion, edits | `TypeOK`, `ClaimInv` (inductive), `Exclusive`, `HeldIsClaimed`, `NoOrphanBinding`, `ResolvedIsBound`, `OnlyClaimControllerFrees`, and the refinement `ImplementsAllocation` |
| `claims_health` | 2 claims, 1 service with health check, deleted and recreated, environment pass | `ClaimedFromAvailable` with the health check taking services away |
| `claims_live` | 2 claims, 1 service, deletion; lists of up to 3 constraints and 3 items | `ClaimIsServed`, `DeletionCompletes`; `MatchesAsSet`: `Match` depends on the set of constraints alone; `SubsetIsMatching`: `checkSCISubset` is inclusion of multisets |
| `catalog_safety` | 1 service, 1 ClusterEnvironment, both deletable, failures | `TypeOK`, `NoDuplicates` |
| `catalog_converges` | a service that leaves the environment, a ClusterEnvironment that comes and goes | `CatalogConverges`, `NamespaceConverges` |
| `namespaces` | 1 ClusterEnvironment, a namespace of each kind, edits, deletion, a lost secret, failures and restarts | `TypeOK`, `AgentsAreFound`, `AgentsConverge` |
| `workloads_rest` | 2 workloads that come and go, edits of the binding, restarts | `TypeOK`, `RestIsSettled`: when nothing is queued, under way or undelivered, everything is projected, listed and owned |
| `workloads_converge` | 1 workload, a finalized binding, its secret; deletions, failing calls | `WorkloadsConverge`, `DeletionEnds` |
| `discovery` | 1 class, 1 resource, both edited and deleted, as the agent; failures, restarts | `TypeOK`; `ResourcesRegistered`; `DeletedWithClass`; `UnregisteredStay`: no handler writes back what the worker has unregistered; `DeletionEnds`, of classes and agent |
| `forwarding` | 2 ClusterEnvironments, 1 claim or service, all flows; failures, restarts, denials | `TypeOK`; `ItemsForwarded`; `GoneIsReleased`; `DeletedWithItem`; `DeletionReleases` |
| `classes` | 2 classes for one kind, for different environments, one recreated or edited; 1 ClusterEnvironment with 2 service namespaces, a cache that lags, failures, restarts | `TypeOK`; `OneManaged`; `LiveKeepsCopies`; `PushConverges`; `OnlyMissingCopiesBlock`: a deleted class that stays does so because every attempt begins with a copy missing |
| `doc_exclusive` | 2 claims, 1 service | **violated**: `NeverShared` |

`Exclusive` and `HeldIsClaimed` have a proviso, `stray`: a service may be taken from
under its claim by a deletion that releases the wrong service, by the health check, or by
being deleted. The proviso is exact history, not a guess: it names the services to which
that happened, and `doc_exclusive` is what happens to them.

**Bounds.** Two claims and one service is where competition, handing over and wrong
releases show; two services and one claim is where a claim moves. A third claim only
repeats the second (workers treat claims one at a time), and the theorems of section 5
remove the bound where they apply. One service and one ClusterEnvironment give each of the
three catalog writers something to overwrite. One resource and one class are enough for list,
event and resync to meet, one item for its writers; two ClusterEnvironments are the least of which
one can stop the other's informers; two classes and three versions are the least with which the
webhook can be late and a class come back; two service namespaces are the least with which a push can
fail half way. Two workloads are the least of which a handler's write can forget
one. `MaxClaims`, `MaxVersion`,
`MaxPushes`, `MaxMade` bound the users' actions only; `Backlog` and `MaxLag` make them wait.
The runs reach between 9,000 states (`forwarding`) and 3.0 million (`workloads_rest`), each in less
than two minutes with two workers.

**Fairness.** Weak fairness for workers and watches: goroutines keep running and informers
deliver. Strong fairness for `Reconcile`: work queues are first in, first out, and a name
taken from one is processed even if others come back all the time. The catalog and
namespace runs also assume the informers' periodic resync (10 hours by default in the
vendored controller-runtime): without it `CatalogConverges` does not hold, see below. Users
owe nothing. In the claim and catalog runs liveness is checked with calls that succeed and without
restarts, since the code promises nothing else. The later modules have a step `Calm`, which need
never happen: until then calls fail and processes restart, and liveness is about what is so once it
has. `workloads_converge`, `discovery` and `forwarding` assume that the informers the code creates
resync, every minute: the handlers do not repeat what failed. `namespaces` and `classes` assume the
10-hour resync, and `classes` that service agents let go of deleted copies, which `discovery`
shows for agents that run. That pass and controller take turns in no particular order is
all they assume, so `ClassDeletionEnds` fails for two ClusterEnvironments (section 4).

**Deadlock** is not checked where the system may stop: in `catalog_safety`, `namespaces`,
`discovery`, `forwarding` and `classes` everything may have been deleted, with names that are not
used again, or no agent be left; in `claims_health` the service may be gone while claims still name
it; in the workload runs there may be no binding.

## 4. Where code and documentation disagree

One run records a disagreement (a finding in `PROJECT.json`):

* `doc_exclusive`: deleting a claim releases the *first matching* service, in whatever
  state, so a service in use becomes Available and is claimed again.

Further configurations, not among the runs, check statements of the documents that TLC
refutes too. Each row is about the property in parentheses; where a configuration stands for
several, it checks the first, and names the others in a comment.

| configuration | statement, and what the code does |
|---|---|
| `doc_rollback` (`RollbackRestores`) | `serviceclaim_controller.go:530`; after a failed push the service is not set back to Available: `changeServiceState` gets its service by value and the caller's copy is out of date |
| `doc_permissions` (`PermissionsRemoved`) | clusterenvironment.md:63; RoleBindings are created under the name of the role and deleted under the name `primaza-...`, which does not exist: they stay. (`AgentsAreFound` holds *because* of this: the RoleBinding goes before the agent, and with the right name an agent whose deletion fails could not be found again.) |
| `doc_release` (`ReleasedOnDeletion`) | serviceclaim.md:63; the claim's own service may stay Claimed |
| `doc_health` (`RecoveredStaysClaimed`) | registeredservice.md:83; a recovered service becomes Available although its claim is Resolved |
| `doc_service_deletion` (`RemovedServiceUnresolves`) | registeredservice.md:96; the claim of a deleted service stays Resolved |
| `doc_unbound` (`ResolvedHasBinding`) | serviceclaim.md:51-54; a claim for which no ClusterEnvironment and no application namespace matches is marked Resolved, and there is no ServiceBinding |
| `doc_orphan_binding` (`NoOrphanBinding`, with the environment pass) | serviceclaim.md:61; a pass under way writes the bindings of a deleted claim again |
| `doc_catalog_labels` (`ListsAvailable`) | servicecatalog.md:3; wrong until the next resync when an entry was judged by an old copy |
| `doc_catalog_deletion` (`DeletedUnlisted`) | registeredservice.md:95; an entry missed at the deletion stays, as the resync does not know the service |
| `doc_catalog_deletion` (`EntryUpdated`) | servicecatalog.md:49; an existing entry is never rewritten |
| `doc_catalog_labels` (`LabelledAreClaimed`) | `api/v1alpha1/servicecatalog_types.go:49`; nothing removes entries from `claimedByLabels` |
| `doc_catalog_clusters` (`CatalogEnsured`) | servicecatalog.md:39; a cached catalog that was just deleted is taken for existing, until the next resync |
| `doc_catalog_clusters` (`CopyRemoved`) | servicecatalog.md:45; a push under way writes the copy back |
| `doc_agents` (`AgentsPushed`) | clusterenvironment.md:54; a ClusterEnvironment that gave up a namespace deletes the agent there at each reconciliation, whoever owns it |
| `doc_names` (`AgentsAreFound`, with names that collide) | the RoleBinding of the second ClusterEnvironment is taken to exist, has the labels of the first, and does not lead to the agent. (With ClusterEnvironments `worker` and `claimer-worker`, the second one's deletion removes the RoleBinding of the first; TLC finds this, too, where the deletion of the agent fails.) |
| `doc_unbind` (`DeletionUnbinds`) | servicebinding.md:69; a binding is finalized by its `status.connections`, written after the workloads: a deletion in between makes that write fail, and the workload, not listed, keeps its projection |
| `doc_unbind` (`DeletionUnbinds`, with `Finalized = FALSE`) | servicebinding.md, Deletion; without a finalizer nothing is unbound |
| `doc_binding_ends` (`DeletionEnds`, with workloads deleted) | a finalized binding whose connected workload is gone cannot be deleted |
| `doc_update` (`UpdateIsProjected`) | servicebinding.md, Update; the handlers look for the secret the binding had when the informer was started, and without it leave a replaced or new workload alone |
| `doc_selector` (`RootIsUsed`) | servicebinding.md and `servicebinding_controller.go:56`; the container's variables are removed before SERVICE_BINDING_ROOT is looked up |
| `doc_selector` (`OnlySelectedBound`) | servicebinding.md, Creation; a handler takes one of the selector's labels for a match |
| `doc_discovery` (`DeletedUnregistered`) | architecture/service-agent.md:27 and the test serviceClassWatch.feature:118-139; on the deletion of a resource the agent asks for the deletion of a RegisteredService with the name of the *class* and no namespace |
| `doc_discovery` (`ClassUpdateReaches`) | serviceclass.md:69-70; the informer keeps the class it was started with and writes its old mapping every minute |
| `doc_discovery` (`ClassDeletionUnregisters`) | serviceclass.md:64-65; the finalizer goes although deletions failed, and a resource that appears after the list is not unregistered |
| `doc_discovery` (`InformerStopped`) | comment at agents/svc/serviceclass_controller.go:156; a reconciliation from the cache starts the informer again, or the class went without finalizer |
| `doc_pull` (`AllAreWatched`) | comments at appinformers.go:54, svcinformers.go:59; the informers of all ClusterEnvironments are stopped, not those no longer needed |
| `doc_pull` (`ClaimsPulled`) | test claimFromAppNsPull.feature:67; a claim that is there before the informer is synchronized, or whose copying fails, is not pulled, and `UpdateFunc` is empty |
| `doc_pull` (`DeletionPulled`) | test claimFromAppNsPull.feature:105-138; a deletion while no informer runs, or that fails, is never repeated |
| `doc_push` (`ClaimDeletionEnds`) | comment at agents/app/serviceclaim_controller.go:129; the retry fails for good when the copy is gone already |
| `doc_push` (`ItemsForwarded`, `MaxMade = 2`) | a claim created again while the former copy is being deleted is written into that copy, and goes with it |
| `doc_push` (`AgentDeletionCleans`) | architecture/application-namespace.md:15-17; copies of claims stay, and catalogs pushed while the agent goes |
| `doc_classes` (`ClassDeletionEnds`) | serviceclass.md:64; a copy that is gone already fails the removal, which goes on with the other ClusterEnvironments and deletes theirs. With two ClusterEnvironments whose passes bring the copies back in turn, one is missing at every attempt, for ever, although nothing fails and the resync comes round. With one, the deletion ends with the resync |
| `doc_classes` (`PushConverges`, no resync) | serviceclass.md:69; a pass that listed the class before its update writes the old one last |
| `doc_classes` (`CopiesRemoved`) | serviceclass.md:64; copies stay when the class has no constraints, when they were changed, or when a pass writes them back |
| `doc_classes` (`OneClassPerKind`) | serviceclass_webhook.go:169-174; the webhook lists a cache, and admits a second class meanwhile |

`claims_one` is a further passing instance of `ResolvedIsBound` (one claim that moves between
two services, 1.3 million states). `AgentsAreFound` and its inductive invariant also pass for two
ClusterEnvironments with names that differ and share a namespace (1.9 million states).
`discovery` passes with `MaxPushes = 2` as well (a class created again, 558,278 states), and the
properties of `classes` with a second class that has no constraints (587,796 states) and for one
class with two ClusterEnvironments and failing calls (143,102 states). With the constants of `doc_catalog_labels` `CatalogConverges` holds
(a service claimed by label and released), with those of `doc_catalog_clusters`
`NamespaceConverges` (two ClusterEnvironments of one environment).

## 5. Proofs

| module | theorem | for all constants that satisfy the module's assumption |
|---|---|---|
| `ClaimProofs` | `TypeCorrect` | `TypeOK`, and workers have the objects of their step |
| `ClaimProofs` | `ServiceExclusive`, `ServiceInUseClaimed` | `Exclusive`, `HeldIsClaimed` |
| `ClaimProofs` | `ClaimedNotFreed`, `ClaimsAvailable` | the action properties `OnlyClaimControllerFrees`, `ClaimedFromAvailable` |
| `ClaimProofs` | `ClaimInvHolds`, `BindInvHolds` | the inductive invariants themselves |
| `ClaimProofs` | `GoneIsUnbound` | `NoOrphanBinding`, if `~EnvPushes` |
| `ClaimProofs` | `ResolvedClaimBound` | `ResolvedIsBound`, if `~EnvPushes` |
| `AllocationProofs` | `ClaimsAllocate` | `ImplementsAllocation`: `ClaimLifecycle` implements `Allocation` |
| `AllocationProofs` | `AllocationAllots` | `Allotted` of `Allocation`: one user per service and one service per claim |
| `AllocationProofs` | `ClaimsAllotted` | `Allotted` of the controllers, through the refinement |
| `CatalogProofs` | `CatalogType`, `ListedOnce` | `TypeOK`, `NoDuplicates`; `CatInvHolds` is the inductive invariant |
| `NamespaceProofs` | `NamespaceTypeCorrect` | `TypeOK` |
| `NamespaceProofs` | `AgentsFound` | `AgentsAreFound`, if `NamesDiffer` |
| `ClassProofs` | `ClassType`, `OneClassManaged`, `CopiesKept` | `TypeOK`, `OneManaged`, `LiveKeepsCopies`; `ClassInvHolds` is the inductive invariant |
| `ForwardingProofs` | `ForwardingType`, `GoneReleased` | `TypeOK`, `GoneIsReleased` |
| `ForwardingProofs` | `DeletesWithItem` | `DeletedWithItem`, if no two items have one name, and items that are pulled are created once |
| `DiscoveryProofs` | `DiscoveryType`, `UnregisteredStays` | `TypeOK`, `UnregisteredStay` |
| `DiscoveryProofs` | `DeletesWithClass` | `DeletedWithClass`, if no name is used by two classes |
| `WorkloadProofs` | `WorkloadTypes` | `TypeOK` |
| `WorkloadProofs` | `WorkloadsSettle` | `RestIsSettled`, if `~MayFail` |

*Claims.* The assumptions are that claims, services and the null values are different
things; nothing is assumed of `MayFail`, `MayCrash` or of how many there are. `Exclusive`
is not inductive: the worker is about to claim a service it read a while ago. `ClaimInv`
adds that a copy with the current version tells the truth (`CopiesCurrent`), that a worker
with a current copy of an unresolved claim's service sees it Available, that one that claims
anew is the only user (`WorkerKnows`), and that a cache that still shows the deletion of a
claim since recreated is older than any resolution of the new one (`OldDeletionSeen`). The
steps are: a user's write outdates the copies; a rejected write changes nothing; a claiming
write that is not rejected finds the service Available, hence unused by `HeldIsClaimed`; any
other write that takes a service away from a user makes it stray. TLC checks `ClaimInv` in
`claims_faults` as well.

*Bindings.* `BindInv` orders the writes of a claim: its finalizer is stored before the worker comes
to push (`FinalizerKept`), the binding is pushed before the status that speaks of it (`Bound`) and
removed before the finalizer (`Unbound`). It rests on `ClaimInv`, by which a write that is accepted
was made from the current claim. `ResolvedIsBound` is about the claims of `Hosted`, of which nothing
is assumed; for the others the documentation's statement is false (`doc_unbound`). The hypothesis is
necessary: with the environment pass TLC refutes `NoOrphanBinding` (`doc_orphan_binding`), and with
two services `ResolvedIsBound` as well (the constants of `claims_one`), since a pass that listed a
claim before it moved to another service pushes the old one.

*Allocation.* Every step of `ClaimLifecycle` from a state with `ClaimInv` is sorted by what it does
to `Claimed` and `Users`: most change neither (`NothingMoves`); those that take a claim from its
service are a `Drop`; those that change the state of one service away from Claimed are a `Free`;
the claiming write is a `Grant`, whose condition (nobody uses the service) is `WorkerKnows` and
`HeldIsClaimed`, and which is the only step that adds a user. `Allotted` is then proved from the
definitions of `Allocation` alone, so that what the controllers promise can be read without their
code, and `ClaimsAllotted` carries it back to them.

*Catalogs.* The assumption is that there are finitely many services and that names of different
kinds differ. `NoDuplicates` is not inductive: the worker adds an entry because a *copy* did not
list the service. `CatInv` adds that an up-to-date cached catalog is the catalog (`CacheInv`), and
that of the catalogs it has still to write and has the current version of, the worker knows whether
they exist and list the service (`ServiceWorkerInv`); any other writer of a catalog takes it off
those, and the API server rejects the rest. Lemmas about lists of entries say that appending
a new name and removing an entry keep names different, and that a catalog is created with
different ones (`ClusterWorkerInv`).

*Namespaces.* `FoundInv` adds that a RoleBinding has the name its creation gave it. `NamesDiffer`
then says that one which is there already, when a namespace is bound, is the namespace's own; and
that the deletion, which looks for another name, never removes one: the labels keep leading to every
agent. The hypothesis is necessary, in both its parts (`doc_names`). The types need that the
worker's object is one the cache had (`WorkerType`).

*Classes.* `ClassInv` is about the watch, which keeps the order of writes: every class that is
managed has been shown to the cache before it got its finalizer (`CacheKnows`), the events not yet
seen follow what the cache shows (`InOrder`), and a worker that deletes copies of a class is at the
same time the only one that could manage it anew (`WorkerKnows`). The webhook rejects the
controller's own write of the finalizer while the cache shows another class of the kind, so the
second of two never becomes managed, for any number of classes and any lag.

*Forwarding.* `FwdInv`: nothing of the push strategy moves in the pull strategy and the other way
round (`PullOff`); a claim that the cache shows live has still got its finalizer, which only the
agent removes, and one it shows as being deleted has not got it anew (`CacheKnows`, and
`WorkerKnows` for what the worker has read); a copy that is not being deleted is that of a claim
with the finalizer (`CopiesHeld`). For `DeletesWithItem`, `PullKnows` adds what the pull strategy
needs: no agent's worker is busy with an item (`NoAgent`), and a handler that is to delete a copy
has been told of an item that was created and is gone (`HandlerKnows`), for which the stores of
informers, over all their restarts, show only what was created. Both hypotheses are necessary, by
TLC. Where items of two namespaces have one name, the copy that is deleted with one is the other's.
Where a pulled item is created again between its deletion and the handler's call, the handler deletes
by name and does not look again; pushed claims may be created again as often as one likes.

*Discovery.* `DiscInv`: what cache and worker know of deletions and of the agent's Deployment is not
taken back (`CacheKnows`, `WorkerKnows`), and while a class is finalized its informer is stopped and
what the worker has unregistered stays so (`Unregistered`). The hypothesis of `DeletesWithClass` is
necessary (TLC refutes the property for two classes of resources that share a name):
RegisteredServices are named after the resource, and the agent deletes by name.

*Workloads.* `RestIsSettled` is about states in which nobody is doing anything, and says nothing of
how they are reached; `RestInv` says it of all states. Either another reconciliation is certain
(`Due`: one is queued, the cache is behind, or the one under way is going to end in an error or in an
event of the binding), or the informer runs, the status and the secret are what the last
reconciliation left (`Stands`), and every selected workload is `Covered`: an event of it is
undelivered, the handler is at it with a current copy (`HandlerOn`), the reconciler has it in its
list (`ReconcilerOn`), or it has the secret and is listed (`Served`). At rest only the last is left.
The other parts carry this through the steps: the newest event of a workload is the last one
(`Watching`), the handler and the reconciler work with the binding's secret or with a copy that is
out of date, in which case their status is rejected and the binding comes back (`HndCopy`,
`RecCopy`). The case that decides it is a reconciler and a handler that both write the status: the
one that loses drops its connections, and is covered because the other's write makes the cache
stale. The assumption is that `Backlog` is positive and the names differ; workloads, secrets, labels,
operations of users, finalizers and restarts are arbitrary. `~MayFail` is necessary (TLC refutes the
property without it, for one workload): handlers drop their errors, and only a resync repeats them,
which is what `WorkloadsConverge` checks.

Proving found two mistakes in models. Two cases of `Reconcile` in `Forwarding` overlapped for a claim
that is missing while the Deployment is being deleted, which the code returns from at once. And
`SetOwner` in `WorkloadBinding` always made the existing binding the owner of the secret, while
the reconciler may hold one without finalizer that has been deleted, and perhaps created again,
since it was read (`Owners`).

Only model-checked: liveness and `ENABLED`; what the recursive functions of `Matching` compute
(`MatchesAsSet`, `SubsetIsMatching`: induction over data is out of the prover's reach). Each
inductive invariant was checked by TLC before it was proved, on the constants of the run of its
module and on larger ones: two services for `CatInv`, two resources that share a name for `DiscInv`,
two workloads (6 million states) and all operations on one (1.5 million) for `RestInv`, two
ClusterEnvironments with an item each for `PullKnows`.

## 6. Not modelled, and the plan

Not modelled: `MonitorHealth` (nothing else reads the state it writes; that its writes conflict
with those of `Reconcile` is a failure in `Catalog` and `NamespaceBinding`, that they queue the
ClusterEnvironment is `Enqueue` in `Forwarding`); permission checks and the construction of clients
(a nondeterministic outcome); the values of endpoint definitions, health checks and bindings
(data that no property tells apart; whether they can be had is a failure); the validation of the
fields of a ServiceClass; generated code; the programs in `cmd`. Claims and ClusterEnvironments are
separate modules: a claim that targets a deleted ClusterEnvironment is a lookup that fails.

In order:

1. claims composed with ClusterEnvironments, whose namespaces come and go after a claim was
   Resolved (`Hosted` is fixed now), and for deletions that can never end;
2. `MonitorHealth`, with the state a ClusterEnvironment shows;
3. several ServiceBindings that share a workload in `WorkloadBinding`.

# Verification of ingress2gateway-controller

The controller watches Kubernetes Ingresses and writes the Gateway API objects
that replace them: a `Gateway` shared by the Ingresses of a class, and
`HTTPRoute`, `GRPCRoute`, `TLSRoute` and `BackendTLSPolicy` objects. This
directory holds a TLA+ model of it, TLC runs on small clusters, and proofs
checked by TLAPS. Paths and line numbers are those of the repository.

## The system

| Part | State | Operations | Interacts with |
|---|---|---|---|
| Selection and target, `pkg/config/config.go`, `providers.go` | none; the flags are fixed for a process | `IsEnabled`, `GetConfig`, `GetIngressClass`, `AddSourceAnnotations` | called by the reconcile loop for the request's Ingress and, in the merge, for every Ingress |
| Converter, `pkg/converter/converter.go` | none | `Convert`, `findSourceIngress`, `setParentRef`, `buildFakeClientObjects` | runs the ingress2gateway library on a fake client, post-processes what it emits |
| Reconcile loop, `pkg/controller/reconciler.go` | in the API server: finalizers, Gateways, routes, owner references, the `source` annotation | `Reconcile`, `handleDeletion`, `cleanupManagedResources`, `deleteOrphanRoutes`, `removeOwnerReference`, `createOrUpdateGateway`, `createOrUpdateResource` | reads the informer caches, writes to the API server |
| Watches and queue, `SetupWithManager` | queue, back-off and delayed keys, caches | event delivery, retry, resync | one worker; `Owns()` follows controller references, and the code sets plain owner references, so only Ingress events wake the worker |
| Notifications, `reconciler.go` | four `sync.Map`s of the last message per Ingress | store, compare, delete along `Reconcile` | Kubernetes events |
| ingress-nginx secrets, `nginx_ingress.go` | none | fetches Secrets into the fake client | converter |
| Metrics, `pkg/metrics` | counters | increments | written only |
| Start-up, `cmd/controller` | flags | parsing, validation, `mgr.Start` | gives the constants of the model their values |

What is hard here is not the code of one step but what happens between steps.
Reads come from caches that lag behind; an `Update` is refused if the object
has changed since it was read, a `Delete` is not. A Gateway is shared: several
Ingresses join and leave it, each in a reconcile of its own. The reconcile of
one Ingress writes the routes of others (the merge). Clean-up is a sequence of
calls any of which may fail, after which everything starts over; the process
may die between any two. And nothing wakes the worker for a Gateway or a route.

What makes each part correct:

* selection: the finalizer follows the users' choice (`FinalizerFollowsSelection`,
  `SettledFinalizers`), and a user's change is never overwritten (`NoLostUserUpdate`);
* shared Gateways: joining and leaving never hurts another Ingress (`OwnersKept`,
  `LastOwnerOnly`, `GatewayThere`, `ListenersServe`), the last one to leave takes the
  Gateway along (`NoGatewayLeft`), a foreign class is not overwritten (`ClassKept`), an external
  Gateway is left alone (`ExternalUntouched`, `ExternalSurvives`);
* stale reads: whom a decision on an old copy hurts was not to be seen in that copy, and nobody else
  is hurt (`LastOwnerShown`, `ReleasedWhatIsListed`, `OwnersHeld`, `RoutesHeld`, `OwnGatewayThere`,
  `OwnListenersServe`);
* routes: every rule of a selected Ingress is served (`RoutesServe`), none
  outlives its rules (`ReleasedRoutes`, `NoRouteLeft`), and the mark clean-up goes
  by is right (`TrackedToMember`);
* deletion: it completes (`DeletionCompletes`);
* repair: whatever was deleted, overwritten or refused, in the end every selected Ingress
  is served (`Converges`);
* two processes: each keeps to the users' choice and to the other's writes (`BothFollowSelection`,
  `BothKeepOwners`), and what one of them alone achieves, both achieve together (`EachSettles`, `BothServe`);
* notifications: an event is repeated only for a reason (`EventsBounded`), and the maps that
  decide it hold what is the case (`MemoryFits`);
* start-up: the mappings mean what was written (`MappingsFaithful`), nothing invalid
  runs (`OnlyValidRuns`), and what is valid comes up (`ComesUp`).

## Modules

| Module | Models |
|---|---|
| `IngressConfig` | `pkg/config`: which settings select an Ingress, which are valid, which Gateway they target. Pure operators. |
| `Conversion` | the converter: which resources a set of Ingresses yields, their parents, and `findSourceIngress`. The library's grouping (rules of one namespace and host make one route, named after the first Ingress) and naming are external. |
| `Reconciler` | the reconcile loop, the caches, the API server, users, the garbage collector. |
| `ReconcilerProperties` | the type invariant and everything the runs check. |
| `NginxIngress` | the Secrets that conversions for ingress-nginx look up and the warnings about missing ones. Pure operators. |
| `Notifications` | the events and the four maps that deduplicate them, along the actions of `Reconciler`. |
| `StaleReads` | the reconcile loop with a history of what it was not shown: owners a list lacked, Gateways left alone on an old copy, routes a clean-up could not find. |
| `Drift` | administrators who delete or change by hand what the controller made, and what brings it back. |
| `Replicas` | two processes, each a `Reconciler` of its own with caches of its own, on one API server. |
| `GatewayOwnership` | abstract: what the controller promises about shared Gateways. |
| `GatewayRefinement` | the mapping by which `Reconciler` implements `GatewayOwnership`. |
| `Startup` | the process from its command line to its watches, the kubelet, CRDs that come and go. |
| `MCReconciler`, `MCStaleReads`, `MCNotifications`, `MCReplicas`, `MCStartup` | values of the constants, one definition per scenario. |
| `ReconcilerProofs` | types, and the theorems that follow from them: finalizers, user updates, classes, external Gateways. |
| `OwnershipProofs` | theorems about the owner references of shared Gateways and the routes a clean-up deletes. |
| `StaleReadsProofs` | theorems about shared Gateways and routes under caches of any age. |
| `RefinementProofs` | the proof that `Reconciler` implements `GatewayOwnership`. |
| `RestProofs` | theorems about what holds whenever the controller comes to rest; lemmas on attribution. |
| `NotificationsProofs`, `ReplicasProofs`, `StartupProofs` | theorems about the three other specifications. |

`Reconciler` extends `Conversion`, which extends `IngressConfig`. `StaleReads`, `Notifications`, `Drift`,
`Replicas` and `GatewayRefinement` each extend `ReconcilerProperties`; `Replicas` also instantiates it,
with the second process's variables. `OwnershipProofs` extends
`ReconcilerProofs`; on it stands `RefinementProofs`, on that `RestProofs`, and on that
`StaleReadsProofs`, `NotificationsProofs` and `ReplicasProofs`. `Startup` and `StartupProofs` stand alone: what `Startup`
leaves in `mode`, `provider`, `managed` and `external` are the constants `Mode`, `DefaultProvider`,
`GatewayClassFor` and `ExternalFor` of the others.

### State and code

* `ingresses`, `gateways`, `routes` are **watch windows**: the sequence of states
  of a kind from the one the cache holds (first) to the one the API server holds
  (last). A write appends; a delivery drops the first. `IngressLag`, `GatewayLag`
  and `RouteLag` bound how far a cache is behind; with lag 0 a cache is always fresh.
* An Ingress is `[ex, gen, spec, fin, del]`: there or not, how often its key was
  created (so that `<<key, gen>>` is its UID), its settings, finalizer and deletion
  timestamp. A Gateway is its class, owner references and the hosts it listens for;
  a route is its body (source annotation, parent, the Ingresses whose rules it
  carries) and owner references.
* `pc, key, obj, want, todo, detach, requeueAfter` are the locals of the one
  `Reconcile` in progress: where it is, its request and copy of the Ingress, and
  what is still to be written or left.
* `queue` and `delayed` are the work queue and its delayed keys, `delayed` with
  the reason: an error's back-off, or `RequeueAfter`.

* `notes` (in `Notifications`) is, for each Ingress and each of the four topics, the message
  the map holds and the number of events emitted; a message stands for the part of its
  text that varies. `secrets` are the Secrets that are there.
* `overlooked` (in `StaleReads`) are pairs of a Gateway and a UID: that the one is, or should be, owned by the other
  was not in the copy a request went by. `strays` are the routes that no clean-up will find, because the route cache
  did not show them to it, or because they were made for an Ingress without the finalizer. Both are defined by what the caches show,
  not by what the code did with it, and no action reads them.
* `ingresses2`, `gateways2`, `routes2`, `queue2`, `pc2`, ... (in `Replicas`) are the second process's own variables.
  Its windows end where those of the first end, in what the API server holds, and begin where its own caches are.
* `left, phase, version, mode, provider, managed, external, watched` (in `Startup`) are the memory of
  one process, `given` the command line of the Deployment, `crds` what the API server serves.
  A flag's value is a sequence of tokens (`=`, `/`, the blank, words).

### Actions and code

| Action | Code |
|---|---|
| `Fetch` | `Reconcile` 77-161 up to the first write: not found, deletion, opt-out, invalid configuration |
| `AddFinalizer` | 160-166 |
| `Convert` | 171-244 and `Converter.Convert`: read or skip the merge list, look at the external Gateway, convert |
| `EnsureGateway` | `createOrUpdateGateway` |
| `EnsureRoute` | `createOrUpdateResource`, the four kinds in their order |
| `Finish` | 343-352, with `RequeueAfter` for a missing external Gateway |
| `CleanRoutes` | `deleteOrphanRoutes`, kind after kind; a failure leaves any part undone |
| `ListGateways`, `Detach` | `cleanupManagedResources` 394-421, `removeOwnerReference` |
| `RemoveFinalizer` | `handleDeletion` 371-382; the answer of the accepted Update may be lost, which sends the request into back-off |
| `CallFails`, `Restart` | an API call that returns an error, having had its effect or not; a new process |
| `DeliverIngresses`, ... , `TimerFires`, `Resync` | informers and work queue |
| `CreateIngress`, `EditIngress`, `DeleteIngress`, `ToggleExternalGateway` | users and administrators |
| `CollectGateway`, `CollectRoute` | the garbage collector |
| `NotedFetch`, `NotedConvert`, `NotedRemoveFinalizer` (`Notifications`) | the actions above, with the maps and events of 84-88, 113-143, 177-210, 246-275, 371-374 |
| `NotedCallFails`, `NotedRestart` | a failure before or after the maps were touched; a new process has empty maps |
| `ReadNext` (`StaleReads`) | the actions above; the history notes what a list or a copy lacked |
| `Tamper` (`Drift`) | a route or Gateway deleted, a route's rules rewritten, a Gateway given another class, with nobody told |
| `BothNext` (`Replicas`) | a step of either process; the watches of the other receive what it wrote |
| `ParseArg`, `CheckFlags` (`Startup`) | `flag.Parse` with the two `Set` methods; `main` 68-95 |
| `Setup`, `CachesFill`, `CachesTimeOut` | `SetupWithManager` and `isCRDInstalled`; `mgr.Start`, which waits for the caches of the watched kinds and gives up in the end |
| `Restart`, `Crash`, `ToggleCRD` | the kubelet; administrators |

One action is one API call and the local code up to the next one. Three things
are coarser than the code. The resource version is abstracted to an object's
contents: an `Update` is accepted when the object is what was read, so a
change there and back in between counts as no change. The routes of all kinds
share one watch window. And `CleanRoutes` lists and deletes the routes in one
action; its failing disjunct may leave any part of them undeleted, and
`CallFails` after it stands for a last call that failed late. Within one reconcile
the routes of one kind are written in any order, as the library emits them from maps.

## Runs

All runs but `startup` are about one or two Ingresses, `a` and `b`. Deadlock is not
checked, since the controller rests when all Ingresses are gone and the bounds on
users' changes are used up.

Bounds: `MaxEdits` (users' changes, 0 to 3), `MaxFaults` (failed calls and
crashes, 0 or 1), and the lags (0 or 1). Two Ingresses are what a shared
Gateway, a merge or a shared host needs: one that stays and one that goes.
Three edits make every sequence create - join - leave, or leave - return - leave, possible on
top of any initial set of Ingresses. A lag of one write is enough for a stale
read of each kind; a longer lag delays the same stale copies. One fault falls
between any two steps of any reconcile. `stale_reads`, where everything is late at once, has one edit: a stale read
needs one change that the cache has not shown, and the controller's own writes are such changes as well.

A scenario starts with any set of its Ingresses there, with any of the settings the scenario has for them, and with
the Gateways it names (`Preexisting`), of whose owners only those are left whose Ingress is there: the garbage
collector has done its work before. In the two runs with two processes an earlier one has adopted both Ingresses, and
the Gateway is owned by `b`; `a` joins. With Gateway caches one write behind (`two_processes`) that is enough for either process to read what
the other is about to overwrite, in a join as in a clean-up; the settings of the start make any of the two leave.
A user who edits in between (`two_processes_edit`) takes fresh caches to stay small: a process is then outdated by
what happens between its own steps only. With both at once there are some three million states, too many for a run. `startup` has
`MaxEdits` = 2 CRDs installed or removed (one between the look at an optional CRD and the start
of the watches, and one back) and one crash.

"At rest" (`Quiet`) means: the worker idle, the queue empty, caches fresh, nothing
for the garbage collector, and nothing in back-off but Ingresses that cannot be
converted and have got as far as they can (with a valid configuration but a provider that is not linked in,
to their finalizer). It holds before a resync: what it says is what a user can rely on
without waiting ten hours.

Runs that pass:

| Run | Scenario | Shows |
|---|---|---|
| `shared_gateway` | two Ingresses, one Gateway, opt-out and opt-in, Ingress cache lag 1, one fault, three edits; 648 000 states | types, finalizers, owner references, no lost user update, only the last owner deletes, both served at rest; routes go before the finalizer and the last Ingress takes the Gateway along; `SharedOwnership`: the writes to Gateways implement `GatewayOwnership` |
| `stale_reads` | `StaleReads`; two Ingresses, one Gateway, opt-out and opt-in, all three caches lag, one fault, one edit; 996 000 states | owner references and finalizers withstand old copies; a Gateway deleted over an owner's head, a reference, a route or a Gateway amiss is one that the loop was not shown |
| `external_gateway` | `Notifications`; ingressclass mode, one Ingress on an external Gateway with a managed past, one on a managed Gateway with a Secret, or opted in with a class nobody maps; TLSRoute, GRPCRoute and BackendTLSPolicy; one fault, two edits; 673 000 states | the external Gateway is never written; complete service and complete clean-up of those kinds; events are bounded by what changed, the maps are right at rest |
| `deletion` | `Drift`, fair; one Ingress, stale Gateway and route caches, one fault, two edits or changes by hand on top of any initial choice between a Gateway of the right class that nobody owns, one of another class, an external Gateway that comes and goes, opt-out, a provider that is not linked in and one that is not supported; 100 000 states | deletion completes all the same, a selected Ingress is served in the end; the class of a Gateway is never overwritten, not even one changed after it was read |
| `two_processes` | `Replicas`; two Ingresses, one Gateway, no leader, Gateway caches one write behind; 235 000 states | neither process clobbers what the other wrote between its read and its write; finalizers and routes are right at rest |
| `two_processes_edit` | `Replicas`; the same, fresh caches, one edit between any two steps; 298 000 states | each process follows the user's choice of the moment, and overwrites no change |
| `startup` | `Startup`; 667 command lines: a plain flag or none, then up to two of ten mappings, well or badly spelled; CRDs there, partly there or not; 299 000 states | the parsers against a definition by spelling, no invalid process, liveness of start-up |

`GatewayThere`, `ListenersServe`, `RoutesServe`, `LastOwnerOnly` and `SharedOwnership` are checked
with fresh Gateway and route caches, since they fail with stale ones (below). What takes their place there is in
`stale_reads`, which says of each failure what the loop had not been shown.
For the same reason `shared_gateway` gives each Ingress a host of its own and one
namespace to both, and `NoGatewayLeft` speaks of executions without faults only.

`GatewayOwnership` knows Gateways with their class and owners, and Ingresses that are born
and die. Its steps are: somebody makes a Gateway, joins it, leaves it (the last one takes it along),
the dead are reaped. The mapping reads `held` and `living` off the API server's end of the
windows; the steps of caches, queue, routes and most of the worker stutter. That `Spec` implements it
says that every `Update` and `Delete` of a Gateway, decided on a copy, acts on the
Gateway that is there as if it had been decided at that moment.

Runs that find a disagreement between code and documentation, each with its quote
in `PROJECT.json` and the smallest scenario in which the question arises:

| Run | What happens |
|---|---|
| `v_stale_gateway` | `a` deletes the Gateway that `b` has just joined: the owners come from the cache, `Delete` has no precondition (`reconciler.go` 516) |
| `v_two_namespaces` | an owner of another namespace is refused and only logged (531): the Gateway goes with the one owner that counts |
| `v_host_edit` | the route of the old host stays (299) |
| `v_external_collected` | a Gateway that was managed and is external now keeps its owner reference: the clean-up of the opted-out Ingress skips it (401) and takes the finalizer off, the Ingress is deleted, and the garbage collector takes the Gateway along |
| `v_missing_crd` | without the TLSRoute or BackendTLSPolicy CRD no clean-up succeeds, deletion blocks (470, 482) |

TLC finds the following as well; the configurations differ from one that is here by
the constants named, and are not kept:

| Property | Constants | What happens |
|---|---|---|
| `TrackedToMember` | `MC_v_host_edit`, `Ingresses <- TwoIngresses`, `Specs <- Overlap`, `NameOf <- OverlapNames`, `NameLen <- OverlapLen` | a host that contains the name of another Ingress misleads `findSourceIngress` (`converter.go` 315, against 294) |
| `RoutesServe` | the same | a route attributed to another Ingress goes with that one, and nothing wakes the one it served |
| `RoutesServe` | `MC_v_host_edit`, `Specs <- OnOff`, `RouteLag = 1`, `MaxEdits = 2` | an Ingress that comes back within the cache's lag is compared with a route that is already deleted, and gets none (603) |
| `RoutesServe` | `MC_shared_gateway`, `Specs <- OneHost` | a route of two Ingresses goes with the one it is tracked to; nothing wakes the other (434) |
| `ListenersServe` | `MC_v_two_namespaces` | one of the library's Gateways, one per namespace, is kept at random (`converter.go` 170-176) |
| `NoRouteLeft` | `MC_shared_gateway` | routes made by another Ingress's merge are not cleaned up, for want of a finalizer (109) |
| `NoGatewayLeft` | `MC_v_host_edit`, `Specs <- Moving` | the old Gateway stays and stays owned (277) |
| `CleanedUpBefore` | `MC_shared_gateway` | a failed List of Gateways counts as success, and the finalizer goes (399, against 108) |
| `ExternalUntouched` | `MC_v_host_edit`, `Specs <- Clash`, `ExternalFor <- ClashExternal`, `Preexisting <- ClashThere` | a managed target that coincides with an external Gateway is written (277) |
| `SharedOwnership` | `MC_shared_gateway`, `GatewayLag = 1` | the refinement fails as `LastOwnerOnly` does in `v_stale_gateway` (516) |
| `NoStaleWarning` | `MC_external_gateway`, `Specs <- ThereAndBack`, `Ingresses <- OneIngress`, `Adopted = {}`, `Preexisting <- NothingThere` | an Ingress that went from a missing external Gateway to a managed one and back is not warned again: the managed branch forgets one message and not the other (210; `README.md` 94) |
| `EventsBounded` | `MC_external_gateway`, `Mode = "annotation"`, `Specs <- OneSecret`, `ExternalFor <- NoExternal`, `Adopted = {}`, `Preexisting <- NothingThere` | two Ingresses name one missing Secret, the first of the list is reported, the list comes in any order: the report alternates and each resync repeats the event (`nginx_ingress.go` 47; `reconciler_test.go` 389) |

With two processes fresh Gateway caches do not help: between the List and the Delete of the one (398, 516) the other lets an Ingress
join, whose Gateway is then gone. `BothServe` is therefore about routes only.

And one thing is seen by reading `Startup`: the parser of managed mappings takes `web=`
(`flags.go` 17). In ingressclass mode that makes `web` a class that selects an Ingress and
has no Gateway class, so its reconcile fails for ever (`HasManagedClass`).

### Fairness

`FairSpec` adds to `Spec`: weak fairness of the worker's steps (a reconcile runs
to its end), of each delivery, each timer and the garbage collector (each is a loop
of its own that is never stopped for good), and strong fairness of `Fetch` per
key (the work queue is first in, first out, and a key that comes back is queued
behind the others). Users, faults and the resync have no fairness: nobody has to
edit, and calls need not fail.

`DriftSpec` adds strong fairness of `Resync`: nothing else ever repairs what was changed by
hand, and the informer's timer does come round; the resync is enabled whenever the worker
has nothing to do, which is again and again. `Startup`'s `Spec` has weak fairness of the
process's own steps and of the kubelet's restart; CRDs are installed or removed as
administrators please.

## Theorems

Proved for every set of Ingresses, every mapping and every value of the bounds, in
`ReconcilerProofs`:

* `TypeCorrect`: `Spec => []TypeOK`. Besides types, `TypeOK` bounds the windows and
  says what the early returns of `Reconcile` and `handleDeletion` establish for the
  copy a request works on (`PhaseOK`). It is inductive as it stands; there is one lemma
  per action, and lemmas on windows say what a write, a delivery and a restart do
  to both ends of a window, so that no proof of an action unfolds a sequence.
* `FinalizerIsRight`: `Spec => FinalizerFollowsSelection`. The argument: by `PhaseOK` the
  copy was rightly judged; by `IngressWrites` the API server's Ingresses change only
  by a write of a copy that is still current, or by users, who do not touch the finalizer;
  so the judgement holds at the moment of the write, whatever the lag.
* `UserUpdatesSurvive`: `Spec => NoLostUserUpdate`, from the same lemma.
* `ClassesStay`: `Spec => ClassKept`: the class is compared on a copy, and the write
  that follows is accepted only if the copy is still current.

* `ExternalIsUntouched`: `Spec => ExternalUntouched`, assuming `NoClash`: no managed target
  is the key of an external Gateway. The code does not enforce this, and without it the
  theorem is false (the last line of the table above). The invariant is `ManagedOnly`: the Gateway
  still to be ensured and the Gateways still to be left are managed ones.

And in `OwnershipProofs`:

* `OwnersAreKept`: `Spec => OwnersKept`, with any lag. Optimistic locking alone is not
  enough here: `SetOwner` replaces a reference of the same name whatever its UID, so a
  request with an old copy of a re-created Ingress could take off the reference of the new
  one. The inductive invariant `Incarnations` rules that out: along the window
  of Ingresses incarnations only grow, the copy of a request is never newer than the cache,
  and no owner reference on a Gateway names an incarnation newer than the cache's or, for
  the Ingress of the request, than the copy's. A reference is made from a copy the
  cache once held, so it is never ahead of it.
* `RoutesAreReleased`: `Spec => ReleasedRoutes`, assuming `RouteLag = 0`, whatever fails and
  whenever the process dies. The invariant is `Untracked`: past `deleteOrphanRoutes` no route of the
  namespace is tracked to the Ingress. What is true of an older route cache is `RoutesAreHeld` below.

In `RefinementProofs`:

* `SharingIsImplemented`: `Spec => SharedOwnership`, assuming `GatewayLag = 0`: the
  initial states map to initial states, and each write of a Gateway is named as the abstract
  step it is; one lemma (`OneKindAtATime`) says that the others stutter. Besides `Incarnations` and
  `Listed` the mapping needs `Aged` (incarnations count from 1 and no faster than users edit), `Vacant` (of a
  Gateway that is gone nothing is left) and `StillOwned` (a Gateway still to be left has an owner as long as it is there).

In `RestProofs`, with one pattern for all: an Ingress is `Stirred` if its key is in the
queue or a later state of it is on its way to the cache. Every step but its own fetch keeps it
stirred, and stirs it if it changes what the cache shows (`StirKept`). So each
thing that must have been done for an Ingress has been done, for the Ingress as the cache shows it,
or the Ingress is stirred, or has an error in back-off, or the request in progress is
about it; and at rest only the first is left.

* `FinalizersSettle`: `Spec => []SettledFinalizers`, without further assumptions. The
  invariants are `Attended` (the pattern, for the finalizer) and `FreshRequest` (the copy a request works on is
  what the cache shows, or the Ingress is stirred).
* `RulesAreCarried`: `Spec => []RoutesServe`, assuming `RouteLag = 0`, `OwnRules` (no two Ingresses of a
  namespace have a rule in common) and `Attributable` (where the name of another Ingress stands in the
  name of a resource, it is shorter than the name of the Ingress the resource is made for). None can be dropped:
  the table above has a line for each. Gateways may be served by several Ingresses and their cache may be behind.
  The invariants are `RoutesFit` (the pattern, for a route that is of its Ingress alone, tracked to it, owned by
  it and on its Gateway: only the clean-up of that Ingress can take it away) and `TodoFits` (each route still to be ensured
  will be such a route, or its Ingress is stirred): a request for one Ingress writes the routes of others,
  and does them no harm because it converts what the cache shows of them.
  The lemmas on attribution: the name of an Ingress does stand in the name of each of
  its resources (`NameStands`), a list of the cache has every merged Ingress once (`ListedOnce`),
  so `findSourceIngress` finds it in whichever order they are listed (`SourceIsOwn`).

In `StaleReadsProofs`, for `ReadSpec`, with nothing assumed of lags, failures, edits or the namespaces and settings of the
Ingresses that share a Gateway:

* `OnlyTheUnseenSuffer`: `ReadSpec => LastOwnerShown`. `Delete` names no version, so what protects the other owners between the
  List and the Delete is that nobody adds one. The invariant `Shown` says so: the Gateways still to be left have no owner that
  the list did not show, but those it overlooked, since the one worker is the only process to add
  owners (`OwnersAdded`) and it is busy leaving.
* `TheListedAreReleased`: `ReadSpec => ReleasedWhatIsListed`, from `StillListed`: while a request leaves its Gateways, every managed
  Gateway that names its Ingress is on the list, or was overlooked. A List that fails shows nothing, and the finalizer
  goes all the same: this is the case in which the history grows by all the Gateways of the Ingress.
* `OwnersAreHeld` and `RoutesAreHeld`: `ReadSpec => []OwnersHeld`, `ReadSpec => []RoutesHeld`. Whatever names a living Ingress is
  there while the Ingress has the finalizer, so that somebody comes to take it away. The finalizer is dropped only past a clean-up
  (`StillListed`; `OnlyStrays` for routes), and a Gateway is joined, or a route written, for an Ingress that has none only if the copy was old,
  which the history notes. A merge writes routes for Ingresses that never had their turn: these are `strays` until they are written anew, for an Ingress that has the finalizer.
* `OwnGatewaysAreThere` and `OwnListenersAreServed`: `ReadSpec => []OwnGatewayThere`, `ReadSpec => []OwnListenersServe`, by the pattern of
  `RestProofs`. `Fitting`: an Ingress that has to be served and was not overlooked is stirred, in back-off, about to join, or named by its Gateway,
  which listens for its hosts; and it leaves this state only by its own clean-up, by an edit, which stirs it, or by a deletion that `LastOwnerShown` is about.
  `WantFits`: the Gateway about to be written listens for all whom it will serve. Ingresses of other namespaces, which cannot own the Gateway,
  may share it: they take nothing away from those that own it. The listeners are promised only for Gateways shared within
  one namespace (`Private`), since otherwise Convert keeps one of several (table above).

In `NotificationsProofs`, for `NotedSpec`:

* `MemoryIsRight`: `NotedSpec => []MemoryFits`, without further assumptions. `MemoryFits` is about all four maps for Ingresses that are gone or
  not converted, and about two of them, the unmapped class and the external Gateway, for those that are served: the not-found message of these may be wrong
  (`NoStaleWarning`, table above), and the report is what the last conversion found. The invariant `Remembered` is the same
  pattern, for what the maps hold of an Ingress that is converted and of one that is not.
  Every step of `NotedSpec` is one of `Spec` or changes a Secret, so that the lemmas of `RestProofs` apply.

* `EventsArePaid`: `NotedSpec => []EventsBounded`, assuming `GatewayLag = 0`, `IngressLag <= 1`, `NoClash` and
  `OwnSecrets` (Ingresses with a managed Gateway in common name no Secrets). The bound is not inductive: nothing in it says that the
  message just sent will not be sent again. So the proof counts, for each Ingress and topic, what may still be sent without
  anything changing (`Debt`): one if the settings call for a message the map does not hold, one more while a request works on
  settings the cache no longer shows, one for a change the cache has yet to show (`Pend`). Events sent,
  `Debt` and `Pend` together never exceed `1 + edits + faults` (`Solvent`): each event is paid from the debt, and only users,
  administrators and failures add to it, by one (`Settled`, which has one case per action; a restart, which forgets all four maps, is a fault).
  `Shown` is needed for a clean-up: the finalizer of an Ingress that is leaving is seen by the cache, so that its memory is erased once.
  Without `OwnSecrets` the theorem is false (last line of the table above). `GatewayLag = 0` and `IngressLag <= 1` are
  what the count supposes: with older copies each of them would be one more message to pay for.

In `ReplicasProofs`, for `BothSpec`:

* `BothFinalizersAreRight` and `BothOwnersAreKept`: `BothSpec => BothFollowSelection` and
  `BothSpec => BothKeepOwners`, with caches of any age in each process. The lemmas of `ReconcilerProofs` and `OwnershipProofs` are read a second time with
  the second process's variables (`SecondProofs`), and `OneState` says that the windows of the two end in the same state. Each step of either process keeps the types of both
  (`BothTypes`), and a single step needs no invariant beyond those to be harmless: the Update that follows a Get or a List is refused
  if the other has written in between. This is what makes optimistic locking independent of who else writes. One case remains that it cannot tell: a process
  that still works for an Ingress deleted since replaces, by name, the reference of the one created anew (`Outlives`). With one process `Incarnations`
  excludes it (`OwnersAreKept`); with two, the other may have made the new reference on a newer cache.
* `BothComeToRest`: `BothSpec => []EachSettles`, without further assumptions. For
  each process the other is somebody who writes the same objects: by `HeardAttended` (of `RestProofs`) such a step leaves what
  this process was about to do fit for the state as it is, or stirs the Ingress. So `Attended` is an invariant of each (`BothAttended`), and each finds
  the finalizers right when it rests, also while the other is in the middle of a request. That the routes are right
  when both rest (`BothServe`) is only model-checked.

In `StartupProofs`, for every set of command lines:

* `ValidAtRun`: `Spec => []OnlyValidRuns`; and `MappingsAreParsed`: past parsing, the two mappings are those of
  the whole command line (`Mapped`), after every restart too. The invariant `Inv` says of the part of the line
  that is parsed what `Mapped` says of all of it.

Assumptions are `ModeAssumption`, `ConversionAssumption` (Ingresses are finitely many,
names and hosts are sequences of words, every rule is of one of the four kinds), `ReconcilerAssumption`,
and `StartupAssumption` (a command line is a sequence
of flags with values), which TLC evaluates on every run, and the ones named with the theorems. The inductive
invariants were checked by TLC, on the runs' constants, before they were proved.

Only model-checked are:

* `MappingsFaithful`: what the parsers compute from the tokens, an induction over data, which is out of the
  prover's reach (`MappingsAreParsed` takes over where it ends);
* `DeletionCompletes`, `Converges` and `ComesUp`: liveness, out of the prover's reach;
* `GatewayThere`, `ListenersServe`, `NoGatewayLeft`, `NoRouteLeft` and `LastOwnerOnly`, which hold with fresh caches, one namespace and steady settings only
  (the theorems of `StaleReadsProofs` say what holds without), and `BothServe`.

## Not modelled

* Metrics: counters that the controller writes and never reads. (Reading the code shows that
  `ingress2gateway_resources_created_total` counts every pass of `createOrUpdate...`, created or not,
  and that only failures of the conversion itself count as `error` in
  `ingress2gateway_conversions_total`.)
* Emitters: an unknown emitter fails like an unregistered provider.
* Filters, back ends, weights, TLS settings: what the library makes of an Ingress
  beyond kind, host, name and Gateway; with them the Services given to the fake client, the class
  flag of the provider (the merged Ingresses are of one class) and `sectionName` in
  `setParentRef`. Warnings of the library other than those about Secrets.
* More than one worker in a process (the default is one); leader election itself.
* The Helm chart, images, CI: `Replicas` models what the chart's replica count makes possible.

## Plan

What is left:

* to prove `EventsBounded` for Ingresses that share a managed Gateway and name different
  Secrets: their reports do not depend on the order of the list, but each is about the others too, so the debt of
  one Ingress has to be counted over all that are merged with it;
* to prove `BothServe`, for which `RoutesFit` has to be stated of whichever of the two processes attends to a route;
* to give `RulesAreCarried` a history of the routes that were compared with an old copy, as `StaleReads` has for Gateways, in place of `RouteLag = 0`.

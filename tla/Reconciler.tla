------------------------------ MODULE Reconciler ------------------------------
(***************************************************************************)
(* The reconcile loop (pkg/controller/reconciler.go): one worker that      *)
(* turns Ingresses into Gateways and routes through the Kubernetes API.    *)
(*                                                                         *)
(* A kind is a watch window, the sequence of its states from the one the   *)
(* informer cache holds (the first) to the one the API server holds (the   *)
(* last).  Get and List read the cache; Create, Update and Delete go to    *)
(* the API server, and Update is refused unless the object is still the    *)
(* copy that was read (resourceVersion, abstracted to its contents).       *)
(* One action is one call of the API and the local code up to the next.    *)
(***************************************************************************)
EXTENDS Conversion

CONSTANTS
  InstalledKinds,                      \* the route kinds whose CRD is installed
  Preexisting,                         \* Gateways there at the start: key -> class, owners and hosts
  Adopted,                             \* Ingresses an earlier process gave the finalizer
  IngressLag, GatewayLag, RouteLag,    \* bounds: writes a cache may be behind
  MaxEdits,                            \* bound: changes by users and administrators
  MaxFaults                            \* bound: failed calls and crashes

ASSUME ReconcilerAssumption ==
  /\ InstalledKinds \subseteq {Kinds[k] : k \in DOMAIN Kinds}
  /\ DOMAIN Preexisting \subseteq GatewayKeys
  /\ \A g \in DOMAIN Preexisting : Preexisting[g].owners \subseteq Ingresses \X {1}
  /\ Adopted \subseteq Ingresses
  /\ {IngressLag, GatewayLag, RouteLag, MaxEdits, MaxFaults} \subseteq Nat

VARIABLES
  ingresses, gateways, routes,  \* the three watch windows
  queue,                        \* keys the worker will be handed
  delayed,                      \* <<key, why>>: back-off after an error, or RequeueAfter
  pc, key, obj,                 \* where Reconcile is, its request, its copy of the Ingress
  want,                         \* the Gateway still to be ensured, or None
  todo,                         \* the routes still to be ensured: id -> body and owner
  detach,                       \* the listed Gateways still to be left: key -> copy
  requeueAfter,                 \* requeueResult asks for a delayed retry
  edits, faults

kinds == <<ingresses, gateways, routes>>
local == <<pc, key, obj, want, todo, detach, requeueAfter>>
vars  == <<kinds, queue, delayed, local, edits, faults>>

-----------------------------------------------------------------------------
(* Watch windows. *)

API(w)   == w[Len(w)]
Cache(w) == w[1]

Push(w, s, lag) == IF Len(w) > lag THEN Append(Tail(w), s) ELSE Append(w, s)

(* An Ingress event reaches the queue when the cache receives it. *)
Noticed(w, v) == {i \in Ingresses : Cache(w)[i] # Cache(v)[i]}

WriteIngress(i, o) ==
  /\ ingresses' = Push(ingresses, [API(ingresses) EXCEPT ![i] = o], IngressLag)
  /\ queue' = queue \cup Noticed(ingresses, ingresses')

WriteGateway(g, o) == gateways' = Push(gateways, [API(gateways) EXCEPT ![g] = o], GatewayLag)

WriteRoute(r, o) == routes' = Push(routes, [API(routes) EXCEPT ![r] = o], RouteLag)

-----------------------------------------------------------------------------
(* Objects.  A UID is <<key, gen>>: gen counts how often a key was created.  *)

NoGateway == [ex |-> FALSE, class |-> "", owners |-> {}, hosts |-> {}]
NoRoute   == [ex |-> FALSE, body |-> None, owners |-> {}]
Gone(o)   == [o EXCEPT !.ex = FALSE, !.fin = FALSE, !.del = FALSE]

Alive(u) == API(ingresses)[u[1]].ex /\ API(ingresses)[u[1]].gen = u[2]

(* controllerutil.SetOwnerReference: replaces the reference of the same name *)
(* and is refused, which the code only logs, across namespaces.              *)
SetOwner(owners, u, ns) ==
  IF NsOf[u[1]] = ns THEN {v \in owners : v[1] # u[1]} \cup {u} ELSE owners

Selected(s) == IsEnabled(s) /\ ConfigValid(s)

Target(i, s) == TargetGateway(NsOf[i], s)

-----------------------------------------------------------------------------
(* Ends of a reconcile. *)

Return ==
  /\ pc' = "idle" /\ key' = None /\ obj' = None
  /\ want' = None /\ todo' = << >> /\ detach' = << >> /\ requeueAfter' = FALSE

FailMutant == Return /\ UNCHANGED delayed
Fail == Return /\ delayed' = delayed \cup {<<key, "error">>}

Goto(step) == pc' = step /\ UNCHANGED <<key, want, todo, detach, requeueAfter>>

(* An Update is refused unless the object is the copy that was read. *)
IngressCurrentMutant == API(ingresses)[key].ex
IngressCurrent == API(ingresses)[key] = obj

(* Deleted or no longer selected: what is left to do is the clean-up, and    *)
(* only if the finalizer says that there is something to clean up.           *)
LeavingMutant(o) == ~IsEnabled(o.spec)
Leaving(o) == o.del \/ ~IsEnabled(o.spec)
MustCleanUpMutant1(o) == Leaving(o)
MustCleanUpMutant2(o) == o.del /\ o.fin
MustCleanUp(o) == Leaving(o) /\ o.fin

(* Fetch the cached Ingress and decide what the request is about. *)
Fetch(i) ==
  LET o == Cache(ingresses)[i]
      Begin(step) == /\ pc' = step /\ key' = i /\ obj' = o
                     /\ UNCHANGED <<want, todo, detach, requeueAfter, delayed>>
  IN /\ pc = "idle" /\ i \in queue
     /\ queue' = queue \ {i}
     /\ \/ (~o.ex \/ (Leaving(o) /\ ~MustCleanUp(o))) /\ UNCHANGED <<local, delayed>>
        \/ o.ex /\ MustCleanUp(o) /\ Begin("cleanRoutes")
        \/ /\ o.ex /\ ~Leaving(o) /\ ~ConfigValid(o.spec)
           /\ delayed' = delayed \cup {<<i, "error">>} /\ UNCHANGED local
        \/ /\ o.ex /\ ~Leaving(o) /\ ConfigValid(o.spec)
           /\ Begin(IF o.fin THEN "convert" ELSE "addFinalizer")
     /\ UNCHANGED <<kinds, edits, faults>>

AddFinalizer ==
  /\ pc = "addFinalizer"
  /\ IF IngressCurrent
       THEN /\ WriteIngress(key, [obj EXCEPT !.fin = TRUE])
            /\ obj' = [obj EXCEPT !.fin = TRUE]
            /\ Goto("convert") /\ UNCHANGED delayed
       ELSE Fail /\ UNCHANGED <<ingresses, queue>>
  /\ UNCHANGED <<gateways, routes, edits, faults>>

-----------------------------------------------------------------------------
(* Conversion: an external Gateway is served by the one Ingress alone, a     *)
(* managed one by every cached Ingress that targets it.                      *)

Merged ==
  IF TargetsExternal(obj.spec)
    THEN {key}
    ELSE { j \in Ingresses :
             LET o == Cache(ingresses)[j] IN
             /\ o.ex /\ Selected(o.spec) /\ ~TargetsExternal(o.spec)
             /\ Target(j, o.spec) = Target(key, obj.spec) }

(* The copies the conversion works on. *)
Copy(j) == IF TargetsExternal(obj.spec) THEN obj ELSE Cache(ingresses)[j]

(* findOwner: the source Ingress, or the reconciled one for want of a source. *)
OwnerOf(source) == IF source = None THEN <<key, obj.gen>> ELSE <<source, Copy(source).gen>>

WithOwners(made) == [id \in DOMAIN made |-> [body |-> made[id], owner |-> OwnerOf(made[id].source)]]

WantedGateway(merged, ns) ==
  [ key   |-> Target(key, obj.spec),
    class |-> GatewayClassFor[GetIngressClass(obj.spec)],
    hosts |-> ListenerHosts([j \in merged |-> Copy(j).spec], merged, ns) ]

(* order is how the cache lists the merged Ingresses; unseen says that the    *)
(* look at the external Gateway failed, which must not fail the reconcile.   *)
ConvertIn(order, unseen) ==
  LET g        == Target(key, obj.spec)
      external == TargetsExternal(obj.spec)
      spec     == [j \in Merged |-> Copy(j).spec]
      emitted  == GatewayNamespaces(spec, Merged)
  IN /\ unseen => external /\ faults < MaxFaults
     /\ faults' = IF unseen THEN faults + 1 ELSE faults
     /\ IF Merged = {} \/ ProviderOf(obj.spec) \notin RegisteredProviders
          THEN Fail
          ELSE /\ todo' = WithOwners(ConvertedRoutes(spec, Merged, order, ProviderOf(obj.spec), g))
               /\ IF external \/ emitted = {}
                    THEN want' = None /\ pc' = "ensureRoutes"
                    ELSE /\ \E ns \in emitted : want' = WantedGateway(Merged, ns)
                         /\ pc' = "ensureGateway"
               /\ requeueAfter' = (external /\ ~unseen /\ ~Cache(gateways)[g].ex)
               /\ UNCHANGED <<key, obj, detach, delayed>>
     /\ UNCHANGED <<kinds, queue, edits>>

Convert ==
  /\ pc = "convert"
  /\ \E order \in ListOrders(Merged), unseen \in BOOLEAN : ConvertIn(order, unseen)

-----------------------------------------------------------------------------
(* The owners an update starts from: "avoiding clobbering other owners". *)
KeptOwnersMutant(old) == {}
KeptOwners(old) == old.owners

(* "Check for configuration conflicts". *)
Conflict(old, class) == old.ex /\ old.class # class

(* "gateway.ResourceVersion = existing.ResourceVersion": the Update is refused *)
(* unless the Gateway is still the copy that was read.                       *)
VersionReadMutant(current, old) == current.ex = old.ex
VersionRead(current, old) == current = old

(* createOrUpdateGateway. *)
EnsureGateway ==
  LET g   == want.key
      old == Cache(gateways)[g]
      new == [ ex     |-> TRUE,
               class  |-> want.class,
               owners |-> SetOwner(KeptOwners(old), <<key, obj.gen>>, g.ns),
               hosts  |-> want.hosts ]
      current  == API(gateways)[g]
      (* Create needs the name to be free, Update the version read; an equal *)
      (* object is not written.                                              *)
      accepted == ~Conflict(old, want.class) /\ (old = new \/ VersionRead(current, old))
  IN /\ pc = "ensureGateway"
     /\ IF accepted
          THEN /\ pc' = "ensureRoutes" /\ want' = None
               /\ IF old = new THEN UNCHANGED gateways ELSE WriteGateway(g, new)
               /\ UNCHANGED <<key, obj, todo, detach, requeueAfter, delayed>>
          ELSE Fail /\ UNCHANGED gateways
     /\ UNCHANGED <<ingresses, routes, queue, edits, faults>>

KindIndex(id) == CHOOSE k \in DOMAIN Kinds : Kinds[k] = id.kind

(* "no update needed". *)
UpToDateMutant(old, new) == old.ex /\ old.owners = new.owners
UpToDate(old, new) == old = new

(* createOrUpdateResource, for the kinds in their order. *)
EnsureRoute(id) ==
  LET old == Cache(routes)[id]
      new == [ ex     |-> TRUE,
               body   |-> todo[id].body,
               owners |-> SetOwner(KeptOwners(old), todo[id].owner, NsOf[id.ing]) ]
      accepted == id.kind \in InstalledKinds /\ (UpToDate(old, new) \/ API(routes)[id] = old)
  IN /\ pc = "ensureRoutes"
     /\ \A r \in DOMAIN todo : KindIndex(id) <= KindIndex(r)
     /\ IF accepted
          THEN /\ todo' = [r \in DOMAIN todo \ {id} |-> todo[r]]
               /\ IF UpToDate(old, new) THEN UNCHANGED routes ELSE WriteRoute(id, new)
               /\ UNCHANGED <<pc, key, obj, want, detach, requeueAfter, delayed>>
          ELSE Fail /\ UNCHANGED routes
     /\ UNCHANGED <<ingresses, gateways, queue, edits, faults>>

Finish ==
  /\ pc = "ensureRoutes" /\ DOMAIN todo = {}
  /\ Return
  /\ delayed' = IF requeueAfter THEN delayed \cup {<<key, "requeueAfter">>} ELSE delayed
  /\ UNCHANGED <<kinds, queue, edits, faults>>

-----------------------------------------------------------------------------
(* handleDeletion: delete the routes, leave the Gateways, drop the finalizer. *)

(* Kinds whose turn comes before the first one that cannot be listed. *)
ListableKinds ==
  {Kinds[k] : k \in {m \in DOMAIN Kinds : \A n \in 1..m : Kinds[n] \in InstalledKinds}}

(* The Ingress a route is tracked to by its annotation, if any. *)
SourceOf(r) == IF r.ex THEN r.body.source ELSE None

OrphansMutant1 == {id \in RouteIds : SourceOf(Cache(routes)[id]) = key /\ id.kind # "TLSRoute"}
OrphansMutant2 == {id \in RouteIds : Cache(routes)[id].ex /\ NsOf[id.ing] = NsOf[key]}
OrphansMutant3 == {}
Orphans ==
  { id \in RouteIds : /\ SourceOf(Cache(routes)[id]) = key
                      /\ NsOf[id.ing] = NsOf[key]
                      /\ id.kind \in ListableKinds }

DeleteRoutes(S) ==
  IF \E id \in S : API(routes)[id].ex
    THEN routes' = Push(routes, [id \in RouteIds |-> IF id \in S THEN NoRoute ELSE API(routes)[id]],
                        RouteLag)
    ELSE UNCHANGED routes

(* deleteOrphanRoutes; a call that fails leaves the rest undeleted. *)
CleanRoutes ==
  /\ pc = "cleanRoutes"
  /\ \/ /\ DeleteRoutes(Orphans)
        /\ IF \A k \in DOMAIN Kinds : Kinds[k] \in ListableKinds
             THEN Goto("listGateways") /\ UNCHANGED <<obj, delayed>>
             ELSE Fail
        /\ UNCHANGED faults
     \/ /\ faults < MaxFaults /\ faults' = faults + 1
        /\ \E S \in SUBSET Orphans \ {Orphans} : DeleteRoutes(S)
        /\ Fail
  /\ UNCHANGED <<ingresses, gateways, queue, edits>>

(* The Gateways a List of the cache shows to name this Ingress as an owner. *)
OwnedGatewaysMutant1 == {g \in GatewayKeys : <<key, obj.gen>> \in Cache(gateways)[g].owners}
OwnedGatewaysMutant2 == {g \in GatewayKeys : Cache(gateways)[g].owners = {<<key, obj.gen>>}}
OwnedGateways ==
  { g \in GatewayKeys : /\ <<key, obj.gen>> \in Cache(gateways)[g].owners
                        /\ ~IsExternalGateway(g) }

(* An error of the List is not looked at: nothing is left, nothing fails. *)
ListGateways ==
  /\ pc = "listGateways"
  /\ \/ detach' = [g \in OwnedGateways |-> Cache(gateways)[g]] /\ UNCHANGED faults
     \/ detach' = << >> /\ faults < MaxFaults /\ faults' = faults + 1
  /\ pc' = "detach"
  /\ UNCHANGED <<kinds, queue, delayed, key, obj, want, todo, requeueAfter, edits>>

IsLastOwnerMutant1(left) == TRUE
IsLastOwnerMutant2(left) == FALSE
IsLastOwner(left) == left = {}

(* removeOwnerReference: Delete names no version, Update does. *)
Detach(g) ==
  LET old      == detach[g]
      left     == old.owners \ {<<key, obj.gen>>}
      accepted == IF IsLastOwner(left) THEN API(gateways)[g].ex ELSE API(gateways)[g] = old
  IN /\ pc = "detach"
     /\ IF accepted
          THEN /\ WriteGateway(g, IF IsLastOwner(left) THEN NoGateway ELSE [old EXCEPT !.owners = left])
               /\ detach' = [h \in DOMAIN detach \ {g} |-> detach[h]]
               /\ UNCHANGED <<pc, key, obj, want, todo, requeueAfter, delayed>>
          ELSE Fail /\ UNCHANGED gateways
     /\ UNCHANGED <<ingresses, routes, queue, edits, faults>>

(* The Update may take effect and its answer be lost. *)
RemoveFinalizer ==
  /\ pc = "detach" /\ DOMAIN detach = {}
  /\ IF IngressCurrent
       THEN /\ WriteIngress(key, IF obj.del THEN Gone(obj) ELSE [obj EXCEPT !.fin = FALSE])
            /\ \/ Return /\ UNCHANGED <<delayed, faults>>
               \/ Fail /\ faults < MaxFaults /\ faults' = faults + 1
       ELSE Fail /\ UNCHANGED <<ingresses, queue, faults>>
  /\ UNCHANGED <<gateways, routes, edits>>

-----------------------------------------------------------------------------
(* Failures: a call that fails, before or after it took effect, and the      *)
(* process.                                                                  *)

CallFails ==
  /\ pc # "idle" /\ faults < MaxFaults
  /\ faults' = faults + 1
  /\ Fail
  /\ UNCHANGED <<kinds, queue, edits>>

(* A new process: fresh caches, and every Ingress is listed once. *)
Restart ==
  /\ faults < MaxFaults
  /\ faults' = faults + 1
  /\ ingresses' = <<API(ingresses)>>
  /\ gateways' = <<API(gateways)>>
  /\ routes' = <<API(routes)>>
  /\ queue' = {i \in Ingresses : API(ingresses)[i].ex}
  /\ delayed' = {}
  /\ Return
  /\ UNCHANGED edits

-----------------------------------------------------------------------------
(* The environment: watches, timers, users, administrators, the garbage      *)
(* collector.  Gateways and routes wake nobody: Owns() follows controller    *)
(* references only, and the code sets plain owner references.                *)

DeliverIngresses ==
  /\ Len(ingresses) > 1
  /\ ingresses' = Tail(ingresses)
  /\ queue' = queue \cup Noticed(ingresses, ingresses')
  /\ UNCHANGED <<gateways, routes, delayed, local, edits, faults>>

DeliverGateways ==
  /\ Len(gateways) > 1
  /\ gateways' = Tail(gateways)
  /\ UNCHANGED <<ingresses, routes, queue, delayed, local, edits, faults>>

DeliverRoutes ==
  /\ Len(routes) > 1
  /\ routes' = Tail(routes)
  /\ UNCHANGED <<ingresses, gateways, queue, delayed, local, edits, faults>>

TimerFires(d) ==
  /\ d \in delayed
  /\ delayed' = delayed \ {d}
  /\ queue' = queue \cup {d[1]}
  /\ UNCHANGED <<kinds, local, edits, faults>>

(* The informer's periodic resync, long after everything else. *)
Resync ==
  /\ pc = "idle" /\ queue = {} /\ Len(ingresses) = 1
  /\ queue' = {i \in Ingresses : Cache(ingresses)[i].ex}
  /\ queue' # {}
  /\ UNCHANGED <<kinds, delayed, local, edits, faults>>

Edited == edits < MaxEdits /\ edits' = edits + 1 /\ UNCHANGED <<delayed, local, faults>>

CreateIngress(i, s) ==
  /\ ~API(ingresses)[i].ex
  /\ WriteIngress(i, [ex |-> TRUE, gen |-> API(ingresses)[i].gen + 1, spec |-> s,
                      fin |-> FALSE, del |-> FALSE])
  /\ Edited /\ UNCHANGED <<gateways, routes>>

EditIngress(i, s) ==
  LET o == API(ingresses)[i] IN
  /\ o.ex /\ s # o.spec
  /\ WriteIngress(i, [o EXCEPT !.spec = s])
  /\ Edited /\ UNCHANGED <<gateways, routes>>

DeleteIngress(i) ==
  LET o == API(ingresses)[i] IN
  /\ o.ex /\ ~o.del
  /\ WriteIngress(i, IF o.fin THEN [o EXCEPT !.del = TRUE] ELSE Gone(o))
  /\ Edited /\ UNCHANGED <<gateways, routes>>

(* An administrator installs or removes an external Gateway. *)
ToggleExternalGateway(g) ==
  LET o == API(gateways)[g] IN
  /\ IsExternalGateway(g)
  /\ WriteGateway(g, IF o.ex THEN NoGateway ELSE [NoGateway EXCEPT !.ex = TRUE, !.class = "external"])
  /\ Edited /\ UNCHANGED <<ingresses, routes, queue>>

(* Owned objects lose references to owners that are gone, and the objects    *)
(* that lose all of them are deleted.                                        *)
Collectable(o) == \E u \in o.owners : ~Alive(u)
LivingOwners(o) == {u \in o.owners : Alive(u)}

CollectGateway(g) ==
  LET o == API(gateways)[g] IN
  /\ Collectable(o)
  /\ WriteGateway(g, IF LivingOwners(o) = {} THEN NoGateway ELSE [o EXCEPT !.owners = LivingOwners(o)])
  /\ UNCHANGED <<ingresses, routes, queue, delayed, local, edits, faults>>

CollectRoute(id) ==
  LET o == API(routes)[id] IN
  /\ Collectable(o)
  /\ WriteRoute(id, IF LivingOwners(o) = {} THEN NoRoute ELSE [o EXCEPT !.owners = LivingOwners(o)])
  /\ UNCHANGED <<ingresses, gateways, queue, delayed, local, edits, faults>>

-----------------------------------------------------------------------------
(* Ingresses and Gateways may be there before; no Gateway names an Ingress   *)
(* that is not.                                                              *)
Init ==
  /\ \E present \in SUBSET Ingresses :
       \E spec \in {f \in [Ingresses -> UNION {Specs[i] : i \in Ingresses}] :
                      \A i \in Ingresses : f[i] \in Specs[i]} :
         /\ ingresses = << [i \in Ingresses |-> [ex |-> i \in present, gen |-> 1, spec |-> spec[i],
                                                fin |-> i \in present \cap Adopted,
                                                del |-> FALSE]] >>
         /\ queue = present
         /\ gateways = << [g \in GatewayKeys |->
              IF g \in DOMAIN Preexisting
                THEN [ex |-> TRUE, class |-> Preexisting[g].class, hosts |-> Preexisting[g].hosts,
                      owners |-> {u \in Preexisting[g].owners : u[1] \in present}]
                ELSE NoGateway] >>
  /\ routes = << [id \in RouteIds |-> NoRoute] >>
  /\ delayed = {}
  /\ pc = "idle" /\ key = None /\ obj = None
  /\ want = None /\ todo = << >> /\ detach = << >> /\ requeueAfter = FALSE
  /\ edits = 0 /\ faults = 0

(* The steps Reconcile takes once it has a request. *)
Work ==
  \/ AddFinalizer \/ Convert \/ EnsureGateway
  \/ \E id \in DOMAIN todo : EnsureRoute(id)
  \/ Finish \/ CleanRoutes \/ ListGateways
  \/ \E g \in DOMAIN detach : Detach(g)
  \/ RemoveFinalizer

Deliver == DeliverIngresses \/ DeliverGateways \/ DeliverRoutes

Users ==
  \/ \E i \in Ingresses : \E s \in Specs[i] : CreateIngress(i, s) \/ EditIngress(i, s)
  \/ \E i \in Ingresses : DeleteIngress(i)
  \/ \E g \in GatewayKeys : ToggleExternalGateway(g)

Collect ==
  \/ \E g \in GatewayKeys : CollectGateway(g)
  \/ \E id \in RouteIds : CollectRoute(id)

Next ==
  \/ \E i \in Ingresses : Fetch(i)
  \/ Work \/ CallFails \/ Restart
  \/ Deliver \/ \E d \in delayed : TimerFires(d)
  \/ Resync \/ Users \/ Collect

Spec == Init /\ [][Next]_vars

(* A worker runs to the end of its request; the queue is first in, first     *)
(* out, so a key that keeps coming back is handed out in the end; watches,   *)
(* timers and the garbage collector are never stopped for good.              *)
Fairness ==
  /\ WF_vars(Work)
  /\ \A i \in Ingresses : SF_vars(Fetch(i))
  /\ WF_vars(DeliverIngresses) /\ WF_vars(DeliverGateways) /\ WF_vars(DeliverRoutes)
  /\ \A d \in Ingresses \X {"error", "requeueAfter"} : WF_vars(TimerFires(d))
  /\ WF_vars(Collect)

FairSpec == Spec /\ Fairness
=============================================================================

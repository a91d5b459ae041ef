--------------------------- MODULE ReconcilerProofs ---------------------------
(***************************************************************************)
(* Theorems about the reconcile loop, for every set of Ingresses, every    *)
(* mapping, every bound on the caches' age, on edits and on faults.        *)
(***************************************************************************)
EXTENDS ReconcilerProperties, TLAPS

-----------------------------------------------------------------------------
(* Watch windows. *)

(* The cache's and the API server's state of a kind are states of the kind. *)
LEMMA WindowStates ==
  ASSUME NEW S, NEW w, NEW lag \in Nat, IsWindow(w, S, lag)
  PROVE  API(w) \in S /\ Cache(w) \in S
BY DEF IsWindow, API, Cache

(* A write keeps a window within its bound and is the API server's state. *)
LEMMA PushWindow ==
  ASSUME NEW S, NEW w, NEW lag \in Nat, IsWindow(w, S, lag), NEW s \in S
  PROVE  IsWindow(Push(w, s, lag), S, lag) /\ API(Push(w, s, lag)) = s
<1> DEFINE v == IF Len(w) > lag THEN Tail(w) ELSE w
<1>1. v \in Seq(S) /\ Len(v) \in Nat /\ Len(v) <= lag /\ Push(w, s, lag) = Append(v, s)
  BY DEF IsWindow, Push
<1>2. Append(v, s) \in Seq(S) /\ Len(Append(v, s)) = Len(v) + 1 /\ Append(v, s)[Len(v) + 1] = s
  BY <1>1
<1> QED
  BY <1>1, <1>2 DEF IsWindow, API

(* A delivery keeps a window within its bound and leaves the API server's    *)
(* state alone.                                                              *)
LEMMA TailWindow ==
  ASSUME NEW S, NEW w, NEW lag \in Nat, IsWindow(w, S, lag), Len(w) > 1
  PROVE  IsWindow(Tail(w), S, lag) /\ API(Tail(w)) = API(w)
BY DEF IsWindow, API

(* A new process starts from the API server's state. *)
LEMMA FreshWindow ==
  ASSUME NEW S, NEW lag \in Nat, NEW s \in S
  PROVE  IsWindow(<<s>>, S, lag) /\ API(<<s>>) = s
BY DEF IsWindow, API

LEMMA Bounds ==
  IngressLag \in Nat /\ GatewayLag \in Nat /\ RouteLag \in Nat /\ MaxEdits \in Nat /\ MaxFaults \in Nat
BY ReconcilerAssumption

-----------------------------------------------------------------------------
(* Values. *)

LEMMA TargetIsGateway ==
  ASSUME NEW i \in Ingresses, NEW s \in Specs[i]
  PROVE  Target(i, s) \in GatewayKeys
BY DEF Target, GatewayKeys

LEMMA EmptyObjects == NoGateway \in GatewayRec /\ NoRoute \in RouteRec
BY DEF NoGateway, NoRoute, GatewayRec, RouteRec, Classes

LEMMA SettingsOfSpecs ==
  ASSUME NEW i \in Ingresses, NEW s \in Specs[i]
  PROVE  s \in Settings /\ \A r \in s.rules : r[2] \in Hosts
BY DEF Settings, Hosts

(* An owner reference is a UID, and adding one keeps a set of UIDs one. *)
LEMMA SetOwnerType ==
  ASSUME NEW owners \in SUBSET Uids, NEW u \in Uids, NEW ns
  PROVE  SetOwner(owners, u, ns) \in SUBSET Uids
BY DEF SetOwner

(* findSourceIngress answers with an Ingress of the list, or with none. *)
LEMMA SourceInList ==
  ASSUME NEW S, NEW order \in ListOrders(S), NEW res
  PROVE  FindSourceIngress(order, res) \in S \cup {None}
BY DEF FindSourceIngress, ListOrders

(* What a conversion makes is well-formed: its resources have names the      *)
(* model knows, a source among the merged Ingresses or none, and the target  *)
(* Gateway as the parent.                                                    *)
LEMMA ConvertedType ==
  ASSUME NEW merged \in SUBSET Ingresses, NEW spec, NEW order \in ListOrders(merged),
         NEW provider \in SupportedProviders, NEW g \in GatewayKeys
  PROVE  LET made == ConvertedRoutes(spec, merged, order, provider, g)
         IN  /\ DOMAIN made \subseteq RouteIds
             /\ \A id \in DOMAIN made : /\ made[id] \in BodyRec
                                        /\ made[id].source \in merged \cup {None}
<1> DEFINE made == ConvertedRoutes(spec, merged, order, provider, g)
<1>1. DOMAIN made = ConvertedIds(spec, merged) /\ DOMAIN made \subseteq RouteIds
  BY DEF ConvertedRoutes, ConvertedIds
<1>2. ASSUME NEW id \in DOMAIN made
      PROVE  made[id] \in BodyRec /\ made[id].source \in merged \cup {None}
  <2>1. id.ing \in merged
    BY <1>1 DEF ConvertedIds
  <2>2. Group(spec, merged, id.ing, <<id.kind, id.host>>) \in SUBSET Ingresses
    BY <2>1 DEF Group
  <2>3. FindSourceIngress(order, ResourceName(id)) \in merged \cup {None}
    BY SourceInList
  <2> QED
    BY <1>1, <2>2, <2>3 DEF ConvertedRoutes, BodyRec
<1> QED
  BY <1>1, <1>2

(* The listeners asked for are hosts of the merged Ingresses. *)
LEMMA ListenersType ==
  ASSUME NEW merged \in SUBSET Ingresses, NEW spec, NEW ns,
         \A j \in merged : spec[j] \in Specs[j]
  PROVE  ListenerHosts(spec, merged, ns) \in SUBSET Hosts
<1> SUFFICES ASSUME NEW j \in merged, NEW r \in spec[j].rules PROVE r[2] \in Hosts
  BY DEF ListenerHosts
<1> QED
  BY SettingsOfSpecs
-----------------------------------------------------------------------------
(* Writes. *)

LEMMA WriteIngressType ==
  ASSUME IsWindow(ingresses, IngressState, IngressLag), queue \in SUBSET Ingresses,
         NEW i \in Ingresses, NEW o \in IngressRec, WellFormed(i, o), WriteIngress(i, o)
  PROVE  /\ IsWindow(ingresses', IngressState, IngressLag)
         /\ queue' \in SUBSET Ingresses
         /\ API(ingresses') = [API(ingresses) EXCEPT ![i] = o]
<1>1. API(ingresses) \in IngressState
  BY Bounds, WindowStates
<1>2. [API(ingresses) EXCEPT ![i] = o] \in IngressState
  BY <1>1 DEF IngressState
<1> QED
  BY Bounds, <1>2, PushWindow DEF WriteIngress, Noticed

LEMMA WriteGatewayType ==
  ASSUME IsWindow(gateways, GatewayState, GatewayLag),
         NEW g \in GatewayKeys, NEW o \in GatewayRec, WriteGateway(g, o)
  PROVE  /\ IsWindow(gateways', GatewayState, GatewayLag)
         /\ API(gateways') = [API(gateways) EXCEPT ![g] = o]
<1>1. [API(gateways) EXCEPT ![g] = o] \in GatewayState
  BY Bounds, WindowStates DEF GatewayState
<1> QED
  BY Bounds, <1>1, PushWindow DEF WriteGateway

LEMMA WriteRouteType ==
  ASSUME IsWindow(routes, RouteState, RouteLag),
         NEW r \in RouteIds, NEW o \in RouteRec, WriteRoute(r, o)
  PROVE  IsWindow(routes', RouteState, RouteLag)
<1>1. [API(routes) EXCEPT ![r] = o] \in RouteState
  BY Bounds, WindowStates DEF RouteState
<1> QED
  BY Bounds, <1>1, PushWindow DEF WriteRoute

LEMMA DeleteRoutesType ==
  ASSUME IsWindow(routes, RouteState, RouteLag), NEW S, DeleteRoutes(S)
  PROVE  IsWindow(routes', RouteState, RouteLag)
<1>1. API(routes) \in RouteState
  BY Bounds, WindowStates
<1>2. [id \in RouteIds |-> IF id \in S THEN NoRoute ELSE API(routes)[id]] \in RouteState
  BY <1>1, EmptyObjects DEF RouteState
<1> QED
  BY Bounds, <1>2, PushWindow DEF DeleteRoutes

-----------------------------------------------------------------------------
(* The ends of a request leave its variables clean. *)

LEMMA ReturnType ==
  ASSUME Return
  PROVE  LocalOK' /\ PhaseOK'
<1>1. DOMAIN << >> = {}
  OBVIOUS
<1>2. DOMAIN todo' = {} /\ DOMAIN detach' = {}
  BY <1>1 DEF Return
<1>3. LocalOK'
  BY <1>2 DEF Return, LocalOK
<1>4. PhaseOK'
  BY DEF Return, PhaseOK, CleanUpSteps, ConvertSteps
<1> QED
  BY <1>3, <1>4

LEMMA FailType ==
  ASSUME TypeOK, pc # "idle", Fail
  PROVE  LocalOK' /\ PhaseOK' /\ delayed' \in SUBSET (Ingresses \X {"error", "requeueAfter"})
<1>1. key \in Ingresses
  BY DEF TypeOK, LocalOK
<1>2. delayed' = delayed \cup {<<key, "error">>}
  BY DEF Fail
<1> QED
  BY <1>1, <1>2, ReturnType DEF Fail, TypeOK

-----------------------------------------------------------------------------
(* TypeOK is inductive: first the steps of the worker, one lemma each. *)

LEMMA FetchType ==
  ASSUME TypeOK, NEW i \in Ingresses, Fetch(i)
  PROVE  TypeOK'
<1> DEFINE o == Cache(ingresses)[i]
<1>1. o \in IngressRec /\ WellFormed(i, o)
  BY Bounds, WindowStates DEF TypeOK, IngressState
<1>2. UNCHANGED <<ingresses, gateways, routes, edits, faults>> /\ queue' \in SUBSET Ingresses /\ pc = "idle"
  BY DEF Fetch, kinds, TypeOK
<1>3. CASE UNCHANGED <<local, delayed>>
  BY <1>2, <1>3 DEF TypeOK, local, LocalOK, PhaseOK
<1>4. CASE delayed' = delayed \cup {<<i, "error">>} /\ UNCHANGED local
  BY <1>2, <1>4 DEF TypeOK, local, LocalOK, PhaseOK
<1>5. CASE /\ o.ex /\ MustCleanUp(o)
           /\ pc' = "cleanRoutes" /\ key' = i /\ obj' = o
           /\ UNCHANGED <<want, todo, detach, requeueAfter, delayed>>
  BY <1>1, <1>2, <1>5 DEF TypeOK, LocalOK, PhaseOK, MustCleanUp, Leaving, CleanUpSteps, ConvertSteps
<1>6. CASE /\ o.ex /\ ~Leaving(o) /\ ConfigValid(o.spec)
           /\ pc' = (IF o.fin THEN "convert" ELSE "addFinalizer") /\ key' = i /\ obj' = o
           /\ UNCHANGED <<want, todo, detach, requeueAfter, delayed>>
  BY <1>1, <1>2, <1>6 DEF TypeOK, LocalOK, PhaseOK, Leaving, CleanUpSteps, ConvertSteps
<1> QED
  BY <1>3, <1>4, <1>5, <1>6 DEF Fetch

LEMMA AddFinalizerType ==
  ASSUME TypeOK, AddFinalizer
  PROVE  TypeOK'
<1>1. /\ pc = "addFinalizer" /\ pc # "idle" /\ key \in Ingresses /\ obj \in IngressRec
      /\ WellFormed(key, obj) /\ obj.ex /\ ~Leaving(obj) /\ ConfigValid(obj.spec)
  BY DEF AddFinalizer, TypeOK, LocalOK, PhaseOK, ConvertSteps
<1>2. UNCHANGED <<gateways, routes, edits, faults>>
  BY DEF AddFinalizer
<1> DEFINE new == [obj EXCEPT !.fin = TRUE]
<1>3. CASE /\ WriteIngress(key, new) /\ obj' = new
           /\ Goto("convert") /\ UNCHANGED delayed
  <2>1. /\ new \in IngressRec /\ WellFormed(key, new) /\ new.spec = obj.spec /\ new.ex /\ new.fin /\ new.del = obj.del
    BY <1>1 DEF IngressRec, WellFormed, Leaving
  <2>2. IsWindow(ingresses', IngressState, IngressLag) /\ queue' \in SUBSET Ingresses
    BY <1>1, <1>3, <2>1, WriteIngressType DEF TypeOK
  <2>3. ~Leaving(new) /\ ConfigValid(new.spec)
    BY <1>1, <2>1 DEF Leaving
  <2>4. LocalOK' /\ PhaseOK'
    BY <1>1, <1>3, <2>1, <2>3 DEF TypeOK, Goto, LocalOK, PhaseOK, CleanUpSteps, ConvertSteps
  <2> QED
    BY <1>2, <1>3, <2>2, <2>4 DEF TypeOK
<1>4. CASE Fail /\ UNCHANGED <<ingresses, queue>>
  BY <1>1, <1>2, <1>4, FailType DEF TypeOK
<1> QED
  BY <1>3, <1>4 DEF AddFinalizer

(* What is merged targets the same Gateway, by copies that are well-formed. *)
LEMMA MergedType ==
  ASSUME TypeOK, pc = "convert"
  PROVE  /\ Merged \in SUBSET Ingresses
         /\ \A j \in Merged : Copy(j).spec \in Specs[j] /\ Copy(j).gen \in Nat
<1>1. key \in Ingresses /\ obj \in IngressRec /\ WellFormed(key, obj)
  BY DEF TypeOK, LocalOK
<1>2. Cache(ingresses) \in IngressState
  BY Bounds, WindowStates DEF TypeOK
<1>3. CASE TargetsExternal(obj.spec)
  BY <1>1, <1>3 DEF Merged, Copy, IngressRec, WellFormed
<1>4. CASE ~TargetsExternal(obj.spec)
  <2>1. Merged \in SUBSET Ingresses /\ \A j \in Merged : Copy(j) = Cache(ingresses)[j]
    BY <1>4 DEF Merged, Copy
  <2>2. \A j \in Ingresses : Cache(ingresses)[j] \in IngressRec /\ WellFormed(j, Cache(ingresses)[j])
    BY <1>2 DEF IngressState
  <2> QED
    BY <2>1, <2>2 DEF IngressRec, WellFormed
<1> QED
  BY <1>3, <1>4

LEMMA ConvertType ==
  ASSUME TypeOK, Convert
  PROVE  TypeOK'
<1>0. PICK order \in ListOrders(Merged), unseen \in BOOLEAN : ConvertIn(order, unseen)
  BY DEF Convert
<1> DEFINE g        == Target(key, obj.spec)
           external == TargetsExternal(obj.spec)
           spec     == [j \in Merged |-> Copy(j).spec]
           emitted  == GatewayNamespaces(spec, Merged)
<1>1. /\ pc = "convert" /\ pc # "idle" /\ key \in Ingresses /\ obj \in IngressRec
      /\ WellFormed(key, obj) /\ obj.ex /\ obj.fin /\ ~Leaving(obj) /\ ConfigValid(obj.spec)
  BY DEF Convert, TypeOK, LocalOK, PhaseOK, ConvertSteps
<1>2. UNCHANGED <<ingresses, gateways, routes, queue, edits>> /\ faults' \in 0..MaxFaults
  BY <1>0, Bounds DEF ConvertIn, kinds, TypeOK
<1>3. g \in GatewayKeys /\ ProviderOf(obj.spec) \in SupportedProviders
  BY <1>1, TargetIsGateway DEF ConfigValid, WellFormed
<1>4. CASE Fail
  BY <1>1, <1>2, <1>4, FailType DEF TypeOK
<1>5. ASSUME todo' = WithOwners(ConvertedRoutes(spec, Merged, order, ProviderOf(obj.spec), g)),
             IF external \/ emitted = {}
               THEN want' = None /\ pc' = "ensureRoutes"
               ELSE /\ \E ns \in emitted : want' = WantedGateway(Merged, ns)
                    /\ pc' = "ensureGateway",
             requeueAfter' = (external /\ ~unseen /\ ~Cache(gateways)[g].ex),
             UNCHANGED <<key, obj, detach, delayed>>
      PROVE  TypeOK'
  <2> DEFINE made == ConvertedRoutes(spec, Merged, order, ProviderOf(obj.spec), g)
  <2>1. /\ DOMAIN made \subseteq RouteIds
        /\ \A id \in DOMAIN made : made[id] \in BodyRec /\ made[id].source \in Merged \cup {None}
    BY <1>0, <1>1, <1>3, MergedType, ConvertedType
  <2>2. ASSUME NEW s \in Merged \cup {None} PROVE OwnerOf(s) \in Uids
    BY <1>1, MergedType DEF OwnerOf, Uids, IngressRec
  <2>3. /\ DOMAIN todo' \subseteq RouteIds
        /\ \A id \in DOMAIN todo' : todo'[id] \in [body : BodyRec, owner : Uids]
    BY <1>5, <2>1, <2>2 DEF WithOwners
  <2>4. Cache(gateways)[g].ex \in BOOLEAN
    BY <1>3, Bounds, WindowStates DEF TypeOK, GatewayState, GatewayRec
  <2>5. CASE want' = None /\ pc' = "ensureRoutes"
    BY <1>1, <1>2, <1>5, <2>3, <2>4, <2>5 DEF TypeOK, LocalOK, PhaseOK, CleanUpSteps, ConvertSteps
  <2>6. ASSUME ~external, pc' = "ensureGateway", NEW ns, want' = WantedGateway(Merged, ns)
        PROVE  TypeOK'
    <3> DEFINE hosts == ListenerHosts([j \in Merged |-> Copy(j).spec], Merged, ns)
               class == GatewayClassFor[GetIngressClass(obj.spec)]
    <3>1. hosts \in SUBSET Hosts
      BY <1>1, MergedType, ListenersType
    <3>2. class \in Classes
      BY <1>1, <2>6 DEF ConfigValid, HasManagedClass, Classes
    <3>3. want' = [key |-> g, class |-> class, hosts |-> hosts]
      BY <2>6 DEF WantedGateway
    <3>4. want' \in [key : GatewayKeys, class : Classes, hosts : SUBSET Hosts]
      BY <1>3, <3>1, <3>2, <3>3
    <3> QED
      BY <1>1, <1>2, <1>5, <2>3, <2>4, <2>6, <3>4 DEF TypeOK, LocalOK, PhaseOK, CleanUpSteps, ConvertSteps
  <2> QED
    BY <1>5, <2>5, <2>6
<1> QED
  BY <1>0, <1>4, <1>5 DEF ConvertIn

LEMMA EnsureGatewayType ==
  ASSUME TypeOK, EnsureGateway
  PROVE  TypeOK'
<1> DEFINE g   == want.key
           old == Cache(gateways)[g]
           new == [ ex     |-> TRUE,
                    class  |-> want.class,
                    owners |-> SetOwner(KeptOwners(old), <<key, obj.gen>>, g.ns),
                    hosts  |-> want.hosts ]
<1>1. /\ pc = "ensureGateway" /\ pc # "idle" /\ key \in Ingresses /\ obj \in IngressRec
      /\ want \in [key : GatewayKeys, class : Classes, hosts : SUBSET Hosts]
  BY DEF EnsureGateway, TypeOK, LocalOK
<1>2. UNCHANGED <<ingresses, routes, queue, edits, faults>>
  BY DEF EnsureGateway
<1>3. old \in GatewayRec
  BY <1>1, Bounds, WindowStates DEF TypeOK, GatewayState
<1>4. <<key, obj.gen>> \in Uids
  BY <1>1 DEF Uids, IngressRec
<1>5. new \in GatewayRec
  BY <1>1, <1>3, <1>4, SetOwnerType DEF KeptOwners, GatewayRec
<1>6. CASE /\ pc' = "ensureRoutes" /\ want' = None
           /\ IF old = new THEN UNCHANGED gateways ELSE WriteGateway(g, new)
           /\ UNCHANGED <<key, obj, todo, detach, requeueAfter, delayed>>
  <2>1. IsWindow(gateways', GatewayState, GatewayLag)
    BY <1>1, <1>5, <1>6, WriteGatewayType DEF TypeOK
  <2>2. LocalOK' /\ PhaseOK'
    BY <1>1, <1>6 DEF TypeOK, LocalOK, PhaseOK, CleanUpSteps, ConvertSteps
  <2> QED
    BY <1>2, <1>6, <2>1, <2>2 DEF TypeOK
<1>7. CASE Fail /\ UNCHANGED gateways
  BY <1>1, <1>2, <1>7, FailType DEF TypeOK
<1> QED
  BY <1>6, <1>7 DEF EnsureGateway

LEMMA EnsureRouteType ==
  ASSUME TypeOK, NEW id \in DOMAIN todo, EnsureRoute(id)
  PROVE  TypeOK'
<1> DEFINE old == Cache(routes)[id]
           new == [ ex     |-> TRUE,
                    body   |-> todo[id].body,
                    owners |-> SetOwner(KeptOwners(old), todo[id].owner, NsOf[id.ing]) ]
<1>1. /\ pc = "ensureRoutes" /\ pc # "idle" /\ id \in RouteIds
      /\ todo[id] \in [body : BodyRec, owner : Uids]
  BY DEF EnsureRoute, TypeOK, LocalOK
<1>2. UNCHANGED <<ingresses, gateways, queue, edits, faults>>
  BY DEF EnsureRoute
<1>3. old \in RouteRec
  BY <1>1, Bounds, WindowStates DEF TypeOK, RouteState
<1>4. new \in RouteRec
  BY <1>1, <1>3, SetOwnerType DEF KeptOwners, RouteRec
<1>5. CASE /\ todo' = [r \in DOMAIN todo \ {id} |-> todo[r]]
           /\ IF old = new THEN UNCHANGED routes ELSE WriteRoute(id, new)
           /\ UNCHANGED <<pc, key, obj, want, detach, requeueAfter, delayed>>
  <2>1. IsWindow(routes', RouteState, RouteLag)
    BY <1>1, <1>4, <1>5, WriteRouteType DEF TypeOK
  <2>2. LocalOK' /\ PhaseOK'
    BY <1>1, <1>5 DEF TypeOK, LocalOK, PhaseOK
  <2> QED
    BY <1>2, <1>5, <2>1, <2>2 DEF TypeOK
<1>6. CASE Fail /\ UNCHANGED routes
  BY <1>1, <1>2, <1>6, FailType DEF TypeOK
<1> QED
  BY <1>5, <1>6 DEF EnsureRoute, UpToDate

LEMMA FinishType ==
  ASSUME TypeOK, Finish
  PROVE  TypeOK'
<1>1. pc # "idle" /\ key \in Ingresses
  BY DEF Finish, TypeOK, LocalOK
<1>2. delayed' \in SUBSET (Ingresses \X {"error", "requeueAfter"})
  BY <1>1 DEF Finish, TypeOK
<1> QED
  BY <1>2, ReturnType DEF Finish, TypeOK, kinds

LEMMA CleanRoutesType ==
  ASSUME TypeOK, CleanRoutes
  PROVE  TypeOK'
<1>1. pc = "cleanRoutes" /\ pc # "idle" /\ UNCHANGED <<ingresses, gateways, queue, edits>>
  BY DEF CleanRoutes
<1>2. IsWindow(routes', RouteState, RouteLag)
  BY DeleteRoutesType DEF CleanRoutes, TypeOK
<1>3. faults' \in 0..MaxFaults
  BY Bounds DEF CleanRoutes, TypeOK
<1>4. CASE Goto("listGateways") /\ UNCHANGED <<obj, delayed>>
  BY <1>1, <1>2, <1>3, <1>4 DEF TypeOK, Goto, LocalOK, PhaseOK, CleanUpSteps, ConvertSteps
<1>5. CASE Fail
  BY <1>1, <1>2, <1>3, <1>5, FailType DEF TypeOK
<1> QED
  BY <1>4, <1>5 DEF CleanRoutes

LEMMA ListGatewaysType ==
  ASSUME TypeOK, ListGateways
  PROVE  TypeOK'
<1>1. /\ pc = "listGateways" /\ pc' = "detach"
      /\ UNCHANGED <<ingresses, gateways, routes, queue, delayed, key, obj, want, todo, requeueAfter, edits>>
  BY DEF ListGateways, kinds
<1>2. faults' \in 0..MaxFaults
  BY Bounds DEF ListGateways, TypeOK
<1>3. DOMAIN detach' \subseteq GatewayKeys /\ \A g \in DOMAIN detach' : detach'[g] \in GatewayRec
  <2>1. Cache(gateways) \in GatewayState
    BY Bounds, WindowStates DEF TypeOK
  <2>2. CASE detach' = [g \in OwnedGateways |-> Cache(gateways)[g]]
    BY <2>1, <2>2 DEF OwnedGateways, GatewayState
  <2>3. CASE detach' = << >>
    <3>1. DOMAIN << >> = {}
      OBVIOUS
    <3> QED
      BY <2>3, <3>1
  <2> QED
    BY <2>2, <2>3 DEF ListGateways
<1>4. LocalOK' /\ PhaseOK'
  BY <1>1, <1>3 DEF TypeOK, LocalOK, PhaseOK, CleanUpSteps, ConvertSteps
<1> QED
  BY <1>1, <1>2, <1>4 DEF TypeOK

LEMMA DetachType ==
  ASSUME TypeOK, NEW g \in DOMAIN detach, Detach(g)
  PROVE  TypeOK'
<1> DEFINE old  == detach[g]
           left == old.owners \ {<<key, obj.gen>>}
           new  == IF IsLastOwner(left) THEN NoGateway ELSE [old EXCEPT !.owners = left]
<1>1. pc = "detach" /\ pc # "idle" /\ g \in GatewayKeys /\ old \in GatewayRec
  BY DEF Detach, TypeOK, LocalOK
<1>2. UNCHANGED <<ingresses, routes, queue, edits, faults>>
  BY DEF Detach
<1>3. new \in GatewayRec
  BY <1>1, EmptyObjects DEF GatewayRec
<1>4. CASE /\ WriteGateway(g, new)
           /\ detach' = [h \in DOMAIN detach \ {g} |-> detach[h]]
           /\ UNCHANGED <<pc, key, obj, want, todo, requeueAfter, delayed>>
  <2>1. IsWindow(gateways', GatewayState, GatewayLag)
    BY <1>1, <1>3, <1>4, WriteGatewayType DEF TypeOK
  <2>2. LocalOK' /\ PhaseOK'
    BY <1>1, <1>4 DEF TypeOK, LocalOK, PhaseOK
  <2> QED
    BY <1>2, <1>4, <2>1, <2>2 DEF TypeOK
<1>5. CASE Fail /\ UNCHANGED gateways
  BY <1>1, <1>2, <1>5, FailType DEF TypeOK
<1> QED
  BY <1>4, <1>5 DEF Detach

(* What RemoveFinalizer writes is an Ingress without the finalizer. *)
LEMMA RemoveFinalizerType ==
  ASSUME TypeOK, RemoveFinalizer
  PROVE  TypeOK'
<1> DEFINE new == IF obj.del THEN Gone(obj) ELSE [obj EXCEPT !.fin = FALSE]
<1>1. /\ pc = "detach" /\ pc # "idle" /\ key \in Ingresses /\ obj \in IngressRec
      /\ WellFormed(key, obj)
  BY DEF RemoveFinalizer, TypeOK, LocalOK
<1>2. UNCHANGED <<gateways, routes, edits>> /\ faults' \in 0..MaxFaults
  BY Bounds DEF RemoveFinalizer, TypeOK
<1>6. (Return /\ UNCHANGED delayed) \/ Fail =>
        LocalOK' /\ PhaseOK' /\ delayed' \in SUBSET (Ingresses \X {"error", "requeueAfter"})
  BY <1>1, ReturnType, FailType DEF TypeOK
<1>3. CASE WriteIngress(key, new) /\ ((Return /\ UNCHANGED delayed) \/ Fail)
  <2>1. new \in IngressRec /\ WellFormed(key, new)
    BY <1>1 DEF IngressRec, Gone, WellFormed
  <2>2. IsWindow(ingresses', IngressState, IngressLag) /\ queue' \in SUBSET Ingresses
    BY <1>1, <1>3, <2>1, WriteIngressType DEF TypeOK
  <2> QED
    BY <1>2, <1>3, <1>6, <2>2 DEF TypeOK
<1>4. CASE Fail /\ UNCHANGED <<ingresses, queue>>
  BY <1>1, <1>2, <1>4, FailType DEF TypeOK
<1> QED
  BY <1>3, <1>4 DEF RemoveFinalizer

LEMMA WorkType ==
  ASSUME TypeOK, Work
  PROVE  TypeOK'
BY AddFinalizerType, ConvertType, EnsureGatewayType, EnsureRouteType, FinishType,
   CleanRoutesType, ListGatewaysType, DetachType, RemoveFinalizerType DEF Work

-----------------------------------------------------------------------------
(* Failures and the environment. *)

LEMMA FailureType ==
  ASSUME TypeOK, CallFails \/ Restart
  PROVE  TypeOK'
<1>1. CASE CallFails
  <2>1. /\ UNCHANGED <<ingresses, gateways, routes, queue, edits>>
        /\ pc # "idle" /\ Fail /\ faults' \in 0..MaxFaults
    BY <1>1, Bounds DEF CallFails, kinds, TypeOK
  <2> QED
    BY <2>1, FailType DEF TypeOK
<1>2. CASE Restart
  <2>1. /\ API(ingresses) \in IngressState /\ API(gateways) \in GatewayState
        /\ API(routes) \in RouteState
    BY Bounds, WindowStates DEF TypeOK
  <2>2. /\ IsWindow(<<API(ingresses)>>, IngressState, IngressLag)
        /\ IsWindow(<<API(gateways)>>, GatewayState, GatewayLag)
        /\ IsWindow(<<API(routes)>>, RouteState, RouteLag)
    BY <2>1, Bounds, FreshWindow
  <2>3. queue' \in SUBSET Ingresses /\ faults' \in 0..MaxFaults /\ edits' = edits
    BY <1>2, Bounds DEF Restart, TypeOK
  <2> QED
    BY <1>2, <2>2, <2>3, ReturnType DEF Restart, TypeOK
<1> QED
  BY <1>1, <1>2

LEMMA DeliverType ==
  ASSUME TypeOK, Deliver
  PROVE  TypeOK'
<1>1. CASE DeliverIngresses
  BY <1>1, Bounds, TailWindow DEF DeliverIngresses, Noticed, TypeOK, local, LocalOK, PhaseOK
<1>2. CASE DeliverGateways
  BY <1>2, Bounds, TailWindow DEF DeliverGateways, TypeOK, local, LocalOK, PhaseOK
<1>3. CASE DeliverRoutes
  BY <1>3, Bounds, TailWindow DEF DeliverRoutes, TypeOK, local, LocalOK, PhaseOK
<1> QED
  BY <1>1, <1>2, <1>3 DEF Deliver

LEMMA TimerType ==
  ASSUME TypeOK, (\E d \in delayed : TimerFires(d)) \/ Resync
  PROVE  TypeOK'
BY DEF TimerFires, Resync, TypeOK, kinds, local, LocalOK, PhaseOK

LEMMA UsersType ==
  ASSUME TypeOK, Users
  PROVE  TypeOK'
<1>1. API(ingresses) \in IngressState /\ API(gateways) \in GatewayState
  BY Bounds, WindowStates DEF TypeOK
<1>2. ASSUME Edited PROVE /\ UNCHANGED <<delayed, faults>> /\ edits' \in 0..MaxEdits
                          /\ LocalOK' /\ PhaseOK'
  BY <1>2, Bounds DEF Edited, TypeOK, local, LocalOK, PhaseOK
<1>3. ASSUME NEW i \in Ingresses, NEW o \in IngressRec, WellFormed(i, o),
             WriteIngress(i, o), Edited, UNCHANGED <<gateways, routes>>
      PROVE  TypeOK'
  BY <1>2, <1>3, WriteIngressType DEF TypeOK
<1>4. ASSUME NEW i \in Ingresses, NEW s \in Specs[i], CreateIngress(i, s)
      PROVE  TypeOK'
  <2> DEFINE o == [ex |-> TRUE, gen |-> API(ingresses)[i].gen + 1, spec |-> s,
                   fin |-> FALSE, del |-> FALSE]
  <2>1. o \in IngressRec /\ WellFormed(i, o)
    BY <1>1, SettingsOfSpecs DEF IngressState, IngressRec, WellFormed
  <2> QED
    BY <1>3, <1>4, <2>1 DEF CreateIngress
<1>5. ASSUME NEW i \in Ingresses, NEW s \in Specs[i], EditIngress(i, s)
      PROVE  TypeOK'
  <2> DEFINE o == [API(ingresses)[i] EXCEPT !.spec = s]
  <2>1. o \in IngressRec /\ WellFormed(i, o)
    BY <1>1, SettingsOfSpecs DEF IngressState, IngressRec, WellFormed
  <2> QED
    BY <1>3, <1>5, <2>1 DEF EditIngress
<1>6. ASSUME NEW i \in Ingresses, DeleteIngress(i)
      PROVE  TypeOK'
  <2> DEFINE o == API(ingresses)[i]
             n == IF o.fin THEN [o EXCEPT !.del = TRUE] ELSE Gone(o)
  <2>1. n \in IngressRec /\ WellFormed(i, n)
    BY <1>1 DEF IngressState, IngressRec, WellFormed, Gone
  <2> QED
    BY <1>3, <1>6, <2>1 DEF DeleteIngress
<1>7. ASSUME NEW g \in GatewayKeys, ToggleExternalGateway(g)
      PROVE  TypeOK'
  <2> DEFINE o == IF API(gateways)[g].ex THEN NoGateway
                  ELSE [NoGateway EXCEPT !.ex = TRUE, !.class = "external"]
  <2>1. o \in GatewayRec
    BY EmptyObjects DEF NoGateway, GatewayRec, Classes
  <2>2. IsWindow(gateways', GatewayState, GatewayLag)
    BY <1>7, <2>1, WriteGatewayType DEF ToggleExternalGateway, TypeOK
  <2> QED
    BY <1>2, <1>7, <2>2 DEF ToggleExternalGateway, TypeOK
<1> QED
  BY <1>4, <1>5, <1>6, <1>7 DEF Users

LEMMA CollectType ==
  ASSUME TypeOK, Collect
  PROVE  TypeOK'
<1>1. API(gateways) \in GatewayState /\ API(routes) \in RouteState
  BY Bounds, WindowStates DEF TypeOK
<1>2. ASSUME NEW g \in GatewayKeys, CollectGateway(g) PROVE TypeOK'
  <2> DEFINE o == API(gateways)[g]
             n == IF LivingOwners(o) = {} THEN NoGateway ELSE [o EXCEPT !.owners = LivingOwners(o)]
  <2>1. n \in GatewayRec
    BY <1>1, EmptyObjects DEF GatewayState, GatewayRec, LivingOwners
  <2>2. IsWindow(gateways', GatewayState, GatewayLag)
    BY <1>2, <2>1, WriteGatewayType DEF CollectGateway, TypeOK
  <2> QED
    BY <1>2, <2>2 DEF CollectGateway, TypeOK, local, LocalOK, PhaseOK
<1>3. ASSUME NEW id \in RouteIds, CollectRoute(id) PROVE TypeOK'
  <2> DEFINE o == API(routes)[id]
             n == IF LivingOwners(o) = {} THEN NoRoute ELSE [o EXCEPT !.owners = LivingOwners(o)]
  <2>1. n \in RouteRec
    BY <1>1, EmptyObjects DEF RouteState, RouteRec, LivingOwners
  <2>2. IsWindow(routes', RouteState, RouteLag)
    BY <1>3, <2>1, WriteRouteType DEF CollectRoute, TypeOK
  <2> QED
    BY <1>3, <2>2 DEF CollectRoute, TypeOK, local, LocalOK, PhaseOK
<1> QED
  BY <1>2, <1>3 DEF Collect

-----------------------------------------------------------------------------
(* At the start a Gateway is one of those that were there, or not there. *)
AtStart(o, g) ==
  IF g \in DOMAIN Preexisting
    THEN /\ o.ex /\ o.class = Preexisting[g].class /\ o.hosts = Preexisting[g].hosts
         /\ o.owners \subseteq Preexisting[g].owners
    ELSE o = NoGateway

LEMMA GatewaysAtStart ==
  ASSUME Init
  PROVE  \E G \in GatewayState : gateways = <<G>> /\ \A g \in GatewayKeys : AtStart(G[g], g)
<1>1. PICK present :
        gateways = << [g \in GatewayKeys |->
          IF g \in DOMAIN Preexisting
            THEN [ex |-> TRUE, class |-> Preexisting[g].class, hosts |-> Preexisting[g].hosts,
                  owners |-> {u \in Preexisting[g].owners : u[1] \in present}]
            ELSE NoGateway] >>
  BY DEF Init
<1> DEFINE P(g) == [ex |-> TRUE, class |-> Preexisting[g].class, hosts |-> Preexisting[g].hosts,
                    owners |-> {u \in Preexisting[g].owners : u[1] \in present}]
           G == [g \in GatewayKeys |-> IF g \in DOMAIN Preexisting THEN P(g) ELSE NoGateway]
<1>2. ASSUME NEW g \in DOMAIN Preexisting
      PROVE  P(g) \in GatewayRec /\ AtStart(P(g), g)
  <2>1. Preexisting[g].class \in Classes
    BY DEF Classes
  <2>2. Ingresses \X {1} \subseteq Uids
    BY DEF Uids
  <2>3. Preexisting[g].hosts \in SUBSET Hosts
    BY DEF Hosts
  <2>4. {u \in Preexisting[g].owners : u[1] \in present} \in SUBSET Uids
    BY <2>2, ReconcilerAssumption
  <2> QED
    BY <2>1, <2>3, <2>4 DEF GatewayRec, AtStart
<1>3. ASSUME NEW g \in GatewayKeys
      PROVE  G[g] \in GatewayRec /\ AtStart(G[g], g)
  <2>1. ASSUME g \in DOMAIN Preexisting PROVE G[g] \in GatewayRec /\ AtStart(G[g], g)
    <3>1. G[g] = P(g)
      BY <2>1
    <3> HIDE DEF G, P
    <3> QED
      BY <1>2, <2>1, <3>1
  <2>2. ASSUME g \notin DOMAIN Preexisting PROVE G[g] \in GatewayRec /\ AtStart(G[g], g)
    BY <2>2, EmptyObjects DEF AtStart
  <2> QED
    BY <2>1, <2>2
<1>4. G \in GatewayState
  BY <1>3 DEF GatewayState
<1>5. gateways = <<G>>
  BY <1>1
<1> HIDE DEF G
<1> QED
  BY <1>3, <1>4, <1>5

LEMMA OwnersAtStart ==
  ASSUME Init, NEW g \in GatewayKeys
  PROVE  /\ API(gateways)[g].owners \subseteq Ingresses \X {1}
         /\ ~API(gateways)[g].ex => API(gateways)[g] = NoGateway
<1>1. AtStart(API(gateways)[g], g)
  BY GatewaysAtStart DEF API
<1>2. ASSUME g \in DOMAIN Preexisting
      PROVE  API(gateways)[g].owners \subseteq Ingresses \X {1} /\ API(gateways)[g].ex
  BY <1>1, <1>2, ReconcilerAssumption DEF AtStart
<1>3. ASSUME g \notin DOMAIN Preexisting
      PROVE  API(gateways)[g].owners = {} /\ API(gateways)[g] = NoGateway
  <2>1. API(gateways)[g] = NoGateway
    BY <1>1, <1>3 DEF AtStart
  <2>2. NoGateway.owners = {}
    BY DEF NoGateway
  <2> QED
    BY <2>1, <2>2
<1> QED
  BY <1>2, <1>3

LEMMA InitType == Init => TypeOK
<1> SUFFICES ASSUME Init PROVE TypeOK
  OBVIOUS
<1>1. /\ IsWindow(ingresses, IngressState, IngressLag) /\ queue \in SUBSET Ingresses
  <2>1. PICK present \in SUBSET Ingresses :
          \E spec \in {f \in [Ingresses -> UNION {Specs[i] : i \in Ingresses}] :
                         \A i \in Ingresses : f[i] \in Specs[i]} :
            /\ ingresses = << [i \in Ingresses |-> [ex |-> i \in present, gen |-> 1, spec |-> spec[i],
                                                    fin |-> i \in present \cap Adopted,
                                                    del |-> FALSE]] >>
            /\ queue = present
    BY DEF Init
  <2>2. PICK spec \in [Ingresses -> Settings] :
          /\ \A i \in Ingresses : spec[i] \in Specs[i]
          /\ ingresses = << [i \in Ingresses |-> [ex |-> i \in present, gen |-> 1, spec |-> spec[i],
                                                  fin |-> i \in present \cap Adopted,
                                                  del |-> FALSE]] >>
    BY <2>1 DEF Settings
  <2>3. [i \in Ingresses |-> [ex |-> i \in present, gen |-> 1, spec |-> spec[i],
                              fin |-> i \in present \cap Adopted, del |-> FALSE]] \in IngressState
    <3> DEFINE o(i) == [ex |-> i \in present, gen |-> 1, spec |-> spec[i],
                        fin |-> i \in present \cap Adopted, del |-> FALSE]
    <3>1. ASSUME NEW i \in Ingresses PROVE o(i) \in IngressRec /\ WellFormed(i, o(i))
      <4>1. spec[i] \in Settings /\ spec[i] \in Specs[i]
        BY <2>2
      <4>2. (i \in present) \in BOOLEAN /\ (i \in present \cap Adopted) \in BOOLEAN
        OBVIOUS
      <4>3. /\ o(i).ex = (i \in present) /\ o(i).gen = 1 /\ o(i).spec = spec[i]
            /\ o(i).fin = (i \in present \cap Adopted) /\ o(i).del = FALSE
        OBVIOUS
      <4>4. o(i) \in IngressRec
        BY <4>1, <4>2 DEF IngressRec
      <4>5. WellFormed(i, o(i))
        <5>1. i \in present \cap Adopted => i \in present
          OBVIOUS
        <5> HIDE DEF o
        <5> QED
          BY <4>1, <4>3, <5>1 DEF WellFormed
      <4> QED
        BY <4>4, <4>5
    <3> QED
      BY <3>1 DEF IngressState
  <2> QED
    BY <2>1, <2>2, <2>3, Bounds, FreshWindow
<1>2. IsWindow(gateways, GatewayState, GatewayLag)
  BY Bounds, FreshWindow, GatewaysAtStart
<1>3. IsWindow(routes, RouteState, RouteLag)
  <2>1. [id \in RouteIds |-> NoRoute] \in RouteState
    BY EmptyObjects DEF RouteState
  <2> QED
    BY <2>1, Bounds, FreshWindow DEF Init
<1>4. LocalOK
  <2>1. DOMAIN << >> = {}
    OBVIOUS
  <2>2. DOMAIN todo = {} /\ DOMAIN detach = {}
    BY <2>1 DEF Init
  <2> QED
    BY <2>2 DEF Init, LocalOK
<1>5. PhaseOK
  BY DEF Init, PhaseOK, CleanUpSteps, ConvertSteps
<1>6. edits \in 0..MaxEdits /\ faults \in 0..MaxFaults
  <2>1. edits = 0 /\ faults = 0
    BY DEF Init
  <2> QED
    BY <2>1, Bounds
<1> QED
  BY <1>1, <1>2, <1>3, <1>4, <1>5, <1>6 DEF Init, TypeOK

LEMMA NextType == TypeOK /\ [Next]_vars => TypeOK'
<1> SUFFICES ASSUME TypeOK, [Next]_vars PROVE TypeOK'
  OBVIOUS
<1>1. ASSUME Next PROVE TypeOK'
  BY <1>1, FetchType, WorkType, FailureType, DeliverType, TimerType, UsersType, CollectType DEF Next
<1>2. CASE UNCHANGED vars
  BY <1>2 DEF vars, kinds, local, TypeOK, LocalOK, PhaseOK
<1> QED
  BY <1>1, <1>2

(* Every reachable state is well-typed, and clean-up and conversion run on   *)
(* Ingresses that the early returns of Reconcile let through.                *)
THEOREM TypeCorrect == Spec => []TypeOK
BY InitType, NextType, PTL DEF Spec

-----------------------------------------------------------------------------
(* Who writes an Ingress, and what: the finalizer's two Updates, each of the *)
(* copy the request works on, and users, who leave the finalizer alone.      *)
LEMMA IngressWrites ==
  ASSUME TypeOK, [Next]_vars
  PROVE  \/ API(ingresses') = API(ingresses)
         \/ /\ pc = "addFinalizer" /\ API(ingresses)[key] = obj
            /\ API(ingresses') = [API(ingresses) EXCEPT ![key] = [obj EXCEPT !.fin = TRUE]]
         \/ /\ pc = "detach" /\ DOMAIN detach = {} /\ API(ingresses)[key] = obj
            /\ API(ingresses') = [API(ingresses) EXCEPT ![key] =
                                     IF obj.del THEN Gone(obj) ELSE [obj EXCEPT !.fin = FALSE]]
         \/ /\ edits' = edits + 1
            /\ \E i \in Ingresses : \E n \in IngressRec :
                 /\ API(ingresses') = [API(ingresses) EXCEPT ![i] = n]
                 /\ n.fin = (API(ingresses)[i].ex /\ API(ingresses)[i].fin)
                 /\ n.gen = IF API(ingresses)[i].ex THEN API(ingresses)[i].gen ELSE API(ingresses)[i].gen + 1
                 /\ n.ex \/ API(ingresses)[i].ex
<1> DEFINE Goal ==
         \/ API(ingresses') = API(ingresses)
         \/ /\ pc = "addFinalizer" /\ API(ingresses)[key] = obj
            /\ API(ingresses') = [API(ingresses) EXCEPT ![key] = [obj EXCEPT !.fin = TRUE]]
         \/ /\ pc = "detach" /\ DOMAIN detach = {} /\ API(ingresses)[key] = obj
            /\ API(ingresses') = [API(ingresses) EXCEPT ![key] =
                                     IF obj.del THEN Gone(obj) ELSE [obj EXCEPT !.fin = FALSE]]
         \/ /\ edits' = edits + 1
            /\ \E i \in Ingresses : \E n \in IngressRec :
                 /\ API(ingresses') = [API(ingresses) EXCEPT ![i] = n]
                 /\ n.fin = (API(ingresses)[i].ex /\ API(ingresses)[i].fin)
                 /\ n.gen = IF API(ingresses)[i].ex THEN API(ingresses)[i].gen ELSE API(ingresses)[i].gen + 1
                 /\ n.ex \/ API(ingresses)[i].ex
<1> SUFFICES Goal
  OBVIOUS
<1>1. API(ingresses) \in IngressState
  BY Bounds, WindowStates DEF TypeOK
<1>2. ASSUME UNCHANGED ingresses PROVE Goal
  BY <1>2
<1>3. ASSUME AddFinalizer PROVE Goal
  <2>1. /\ pc = "addFinalizer" /\ key \in Ingresses /\ obj \in IngressRec /\ WellFormed(key, obj)
    BY <1>3 DEF AddFinalizer, TypeOK, LocalOK
  <2>2. CASE IngressCurrent /\ WriteIngress(key, [obj EXCEPT !.fin = TRUE])
    <3>1. [obj EXCEPT !.fin = TRUE] \in IngressRec /\ WellFormed(key, [obj EXCEPT !.fin = TRUE])
      BY <1>3, <2>1 DEF IngressRec, WellFormed, TypeOK, LocalOK, PhaseOK, Leaving, ConvertSteps
    <3> QED
      BY <2>1, <2>2, <3>1, WriteIngressType DEF TypeOK, IngressCurrent
  <2>3. CASE UNCHANGED ingresses
    BY <2>3
  <2> QED
    BY <1>3, <2>2, <2>3 DEF AddFinalizer
<1>4. ASSUME RemoveFinalizer PROVE Goal
  <2> DEFINE n == IF obj.del THEN Gone(obj) ELSE [obj EXCEPT !.fin = FALSE]
  <2>1. /\ pc = "detach" /\ DOMAIN detach = {} /\ key \in Ingresses
        /\ obj \in IngressRec /\ WellFormed(key, obj)
    BY <1>4 DEF RemoveFinalizer, TypeOK, LocalOK
  <2>2. CASE IngressCurrent /\ WriteIngress(key, n)
    <3>1. n \in IngressRec /\ WellFormed(key, n)
      BY <2>1 DEF IngressRec, Gone, WellFormed
    <3> QED
      BY <2>1, <2>2, <3>1, WriteIngressType DEF TypeOK, IngressCurrent
  <2>3. CASE UNCHANGED ingresses
    BY <2>3
  <2> QED
    BY <1>4, <2>2, <2>3 DEF RemoveFinalizer
<1>5. ASSUME Work PROVE Goal
  BY <1>2, <1>3, <1>4, <1>5
  DEF Work, Convert, ConvertIn, EnsureGateway, EnsureRoute, Finish, CleanRoutes, ListGateways, Detach, kinds
<1>6. ASSUME Users PROVE Goal
  <2>1. ASSUME NEW i \in Ingresses, NEW n \in IngressRec, WellFormed(i, n), WriteIngress(i, n),
               Edited, n.fin = (API(ingresses)[i].ex /\ API(ingresses)[i].fin),
               n.gen = IF API(ingresses)[i].ex THEN API(ingresses)[i].gen ELSE API(ingresses)[i].gen + 1,
               n.ex \/ API(ingresses)[i].ex
        PROVE  Goal
    BY <2>1, WriteIngressType DEF TypeOK, Edited
  <2>2. ASSUME NEW i \in Ingresses, NEW s \in Specs[i], CreateIngress(i, s) PROVE Goal
    <3> DEFINE n == [ex |-> TRUE, gen |-> API(ingresses)[i].gen + 1, spec |-> s,
                     fin |-> FALSE, del |-> FALSE]
    <3>1. n \in IngressRec /\ WellFormed(i, n)
      BY <1>1, SettingsOfSpecs DEF IngressState, IngressRec, WellFormed
    <3> QED
      BY <2>1, <2>2, <3>1 DEF CreateIngress
  <2>3. ASSUME NEW i \in Ingresses, NEW s \in Specs[i], EditIngress(i, s) PROVE Goal
    <3> DEFINE o == API(ingresses)[i]
               n == [o EXCEPT !.spec = s]
    <3>1. /\ n \in IngressRec /\ WellFormed(i, n)
          /\ n.fin = (o.ex /\ o.fin) /\ n.gen = o.gen /\ o.ex
      BY <1>1, <2>3, SettingsOfSpecs DEF IngressState, IngressRec, WellFormed, EditIngress
    <3> QED
      BY <2>1, <2>3, <3>1 DEF EditIngress
  <2>4. ASSUME NEW i \in Ingresses, DeleteIngress(i) PROVE Goal
    <3> DEFINE o == API(ingresses)[i]
               n == IF o.fin THEN [o EXCEPT !.del = TRUE] ELSE Gone(o)
    <3>1. /\ n \in IngressRec /\ WellFormed(i, n)
          /\ n.fin = (o.ex /\ o.fin) /\ n.gen = o.gen /\ o.ex
      BY <1>1, <2>4 DEF IngressState, IngressRec, WellFormed, DeleteIngress, Gone
    <3> QED
      BY <2>1, <2>4, <3>1 DEF DeleteIngress
  <2> QED
    BY <1>2, <1>6, <2>2, <2>3, <2>4 DEF Users, ToggleExternalGateway
<1>7. ASSUME Deliver \/ Restart PROVE Goal
  BY <1>7, Bounds, TailWindow, FreshWindow, <1>1
  DEF Deliver, DeliverIngresses, DeliverGateways, DeliverRoutes, Restart, TypeOK
<1>8. ASSUME NEW i \in Ingresses, Fetch(i) PROVE Goal
  BY <1>2, <1>8 DEF Fetch, kinds
<1>9. ASSUME CallFails \/ (\E d \in delayed : TimerFires(d)) \/ Resync \/ Collect PROVE Goal
  BY <1>2, <1>9 DEF CallFails, TimerFires, Resync, Collect, CollectGateway, CollectRoute, kinds
<1>10. CASE UNCHANGED vars
  BY <1>2, <1>10 DEF vars, kinds
<1> QED
  BY <1>5, <1>6, <1>7, <1>8, <1>9, <1>10 DEF Next

(* The finalizer's two Updates, against the Ingress as it is. *)
LEMMA FinalizerStep ==
  ASSUME TypeOK, [Next]_vars, NEW i \in Ingresses
  PROVE  LET o == API(ingresses)[i]  n == API(ingresses')[i] IN
         /\ n.fin /\ ~o.fin => o.ex /\ ~Leaving(o) /\ ConfigValid(o.spec)
         /\ o.fin /\ ~n.fin => Leaving(o)
<1>1. API(ingresses) \in IngressState
  BY Bounds, WindowStates DEF TypeOK
<1>2. CASE API(ingresses') = API(ingresses)
  BY <1>2
<1>3. CASE /\ pc = "addFinalizer" /\ API(ingresses)[key] = obj
           /\ API(ingresses') = [API(ingresses) EXCEPT ![key] = [obj EXCEPT !.fin = TRUE]]
  <2>1. obj.ex /\ ~Leaving(obj) /\ ConfigValid(obj.spec) /\ obj \in IngressRec
    BY <1>3 DEF TypeOK, LocalOK, PhaseOK, ConvertSteps
  <2> QED
    BY <1>1, <1>3, <2>1 DEF IngressState, IngressRec, WellFormed
<1>4. CASE /\ pc = "detach" /\ API(ingresses)[key] = obj
           /\ API(ingresses') = [API(ingresses) EXCEPT ![key] =
                                    IF obj.del THEN Gone(obj) ELSE [obj EXCEPT !.fin = FALSE]]
  <2>1. Leaving(obj) /\ obj \in IngressRec
    BY <1>4 DEF TypeOK, LocalOK, PhaseOK, CleanUpSteps
  <2> QED
    BY <1>1, <1>4, <2>1 DEF IngressState, IngressRec, WellFormed, Gone
<1>5. ASSUME NEW j \in Ingresses, NEW n \in IngressRec,
             API(ingresses') = [API(ingresses) EXCEPT ![j] = n],
             n.fin = (API(ingresses)[j].ex /\ API(ingresses)[j].fin)
      PROVE  API(ingresses')[i].fin = API(ingresses)[i].fin
  BY <1>1, <1>5 DEF IngressState, IngressRec, WellFormed
<1> QED
  BY <1>2, <1>3, <1>4, <1>5, IngressWrites

(* The finalizer is put on and taken off by what users want at that moment,  *)
(* whatever the age of the cache the decision was taken on: the Update of a  *)
(* copy that is no longer current is refused.                                *)
THEOREM FinalizerIsRight == Spec => FinalizerFollowsSelection
<1> DEFINE A == \A i \in Ingresses :
                  LET o == API(ingresses)[i]  n == API(ingresses')[i] IN
                  /\ n.fin /\ ~o.fin => o.ex /\ ~Leaving(o) /\ ConfigValid(o.spec)
                  /\ o.fin /\ ~n.fin => Leaving(o)
<1>1. ASSUME TypeOK, [Next]_vars PROVE A
  BY <1>1, FinalizerStep
<1> QED
  BY <1>1, TypeCorrect, PTL DEF Spec, FinalizerFollowsSelection

(* Whatever is not a user's doing leaves what users decide alone. *)
LEMMA UserUpdateStep ==
  ASSUME TypeOK, [Next]_vars, edits' = edits, NEW i \in Ingresses
  PROVE  LET o == API(ingresses)[i]  n == API(ingresses')[i] IN
         /\ n.spec = o.spec /\ n.gen = o.gen
         /\ n.ex => n.del = o.del
<1>1. API(ingresses) \in IngressState /\ edits \in Nat
  BY Bounds, WindowStates DEF TypeOK
<1>2. CASE API(ingresses') = API(ingresses)
  BY <1>2
<1>3. CASE /\ pc = "addFinalizer" /\ API(ingresses)[key] = obj
           /\ API(ingresses') = [API(ingresses) EXCEPT ![key] = [obj EXCEPT !.fin = TRUE]]
  BY <1>1, <1>3 DEF IngressState, IngressRec
<1>4. CASE /\ pc = "detach" /\ API(ingresses)[key] = obj
           /\ API(ingresses') = [API(ingresses) EXCEPT ![key] =
                                    IF obj.del THEN Gone(obj) ELSE [obj EXCEPT !.fin = FALSE]]
  <2> DEFINE n == IF obj.del THEN Gone(obj) ELSE [obj EXCEPT !.fin = FALSE]
  <2>1. key \in Ingresses /\ obj \in IngressRec
    BY <1>4 DEF TypeOK, LocalOK
  <2>2. n.spec = obj.spec /\ n.gen = obj.gen /\ (n.ex => n.del = obj.del)
    BY <2>1 DEF IngressRec, Gone
  <2> HIDE DEF n
  <2> QED
    BY <1>1, <1>4, <2>1, <2>2 DEF IngressState, n
<1>5. edits' # edits + 1
  BY <1>1
<1> QED
  BY <1>2, <1>3, <1>4, <1>5, IngressWrites

(* No write of the controller undoes what a user did to an Ingress in the    *)
(* meantime: settings, incarnation and deletion change by users only.        *)
THEOREM UserUpdatesSurvive == Spec => NoLostUserUpdate
<1> DEFINE A == edits' = edits =>
                  \A i \in Ingresses :
                    LET o == API(ingresses)[i]  n == API(ingresses')[i] IN
                    /\ n.spec = o.spec /\ n.gen = o.gen
                    /\ n.ex => n.del = o.del
<1>1. ASSUME TypeOK, [Next]_vars PROVE A
  BY <1>1, UserUpdateStep
<1> QED
  BY <1>1, TypeCorrect, PTL DEF Spec, NoLostUserUpdate

-----------------------------------------------------------------------------
(* What a step of the worker can do to the Gateways of the API server: write *)
(* the wanted one over the copy it was compared with, leave a listed one, or *)
(* delete it.                                                                *)
LEMMA GatewayWrites ==
  ASSUME TypeOK, Work
  PROVE  \/ API(gateways') = API(gateways)
         \/ /\ pc = "ensureGateway" /\ want.key \in GatewayKeys
            /\ ~Conflict(API(gateways)[want.key], want.class)
            /\ \E n \in GatewayRec :
                 /\ API(gateways') = [API(gateways) EXCEPT ![want.key] = n]
                 /\ n.ex /\ n.class = want.class
                 /\ n.owners = SetOwner(API(gateways)[want.key].owners, <<key, obj.gen>>, want.key.ns)
                 /\ n.hosts = want.hosts
         \/ \E g \in DOMAIN detach : \E n \in GatewayRec :
              /\ pc = "detach" /\ g \in GatewayKeys
              /\ API(gateways') = [API(gateways) EXCEPT ![g] = n]
              /\ \/ n = NoGateway /\ detach[g].owners \subseteq {<<key, obj.gen>>}
                 \/ /\ API(gateways)[g] = detach[g]
                    /\ detach[g].owners \ {<<key, obj.gen>>} # {}
                    /\ n = [detach[g] EXCEPT !.owners = detach[g].owners \ {<<key, obj.gen>>}]
<1> DEFINE Goal ==
         \/ API(gateways') = API(gateways)
         \/ /\ pc = "ensureGateway" /\ want.key \in GatewayKeys
            /\ ~Conflict(API(gateways)[want.key], want.class)
            /\ \E n \in GatewayRec :
                 /\ API(gateways') = [API(gateways) EXCEPT ![want.key] = n]
                 /\ n.ex /\ n.class = want.class
                 /\ n.owners = SetOwner(API(gateways)[want.key].owners, <<key, obj.gen>>, want.key.ns)
                 /\ n.hosts = want.hosts
         \/ \E g \in DOMAIN detach : \E n \in GatewayRec :
              /\ pc = "detach" /\ g \in GatewayKeys
              /\ API(gateways') = [API(gateways) EXCEPT ![g] = n]
              /\ \/ n = NoGateway /\ detach[g].owners \subseteq {<<key, obj.gen>>}
                 \/ /\ API(gateways)[g] = detach[g]
                    /\ detach[g].owners \ {<<key, obj.gen>>} # {}
                    /\ n = [detach[g] EXCEPT !.owners = detach[g].owners \ {<<key, obj.gen>>}]
<1> SUFFICES Goal
  OBVIOUS
<1>1. ASSUME UNCHANGED gateways PROVE Goal
  BY <1>1
<1>2. ASSUME EnsureGateway PROVE Goal
  <2> DEFINE g   == want.key
             old == Cache(gateways)[g]
             new == [ ex |-> TRUE, class |-> want.class,
                      owners |-> SetOwner(KeptOwners(old), <<key, obj.gen>>, g.ns),
                      hosts |-> want.hosts ]
  <2>1. /\ pc = "ensureGateway"
        /\ want \in [key : GatewayKeys, class : Classes, hosts : SUBSET Hosts]
        /\ key \in Ingresses /\ obj \in IngressRec
    BY <1>2 DEF EnsureGateway, TypeOK, LocalOK
  <2>2. CASE ~Conflict(old, want.class) /\ API(gateways)[g] = old /\ WriteGateway(g, new)
    <3>1. <<key, obj.gen>> \in Uids
      BY <2>1 DEF Uids, IngressRec
    <3>2. KeptOwners(old) \in SUBSET Uids
      BY <2>1, Bounds, WindowStates DEF TypeOK, GatewayState, GatewayRec, KeptOwners
    <3>3. new \in GatewayRec
      BY <2>1, <3>1, <3>2, SetOwnerType DEF GatewayRec
    <3>4. API(gateways') = [API(gateways) EXCEPT ![g] = new]
      BY <2>1, <2>2, <3>3, WriteGatewayType DEF TypeOK
    <3> QED
      BY <2>1, <2>2, <3>3, <3>4 DEF KeptOwners
  <2> QED
    BY <1>1, <1>2, <2>2 DEF EnsureGateway, VersionRead
<1>3. ASSUME NEW g \in DOMAIN detach, Detach(g) PROVE Goal
  <2> DEFINE old  == detach[g]
             left == old.owners \ {<<key, obj.gen>>}
             n    == IF IsLastOwner(left) THEN NoGateway ELSE [old EXCEPT !.owners = left]
  <2>1. pc = "detach" /\ g \in GatewayKeys /\ old \in GatewayRec
    BY <1>3 DEF Detach, TypeOK, LocalOK
  <2>2. n \in GatewayRec
    BY <2>1, EmptyObjects DEF GatewayRec
  <2>3. CASE /\ IF IsLastOwner(left) THEN API(gateways)[g].ex ELSE API(gateways)[g] = old
             /\ WriteGateway(g, n)
    <3>1. API(gateways') = [API(gateways) EXCEPT ![g] = n]
      BY <2>1, <2>2, <2>3, WriteGatewayType DEF TypeOK
    <3> QED
      BY <2>1, <2>2, <2>3, <3>1 DEF IsLastOwner
  <2> QED
    BY <1>1, <1>3, <2>3 DEF Detach
<1> QED
  BY <1>1, <1>2, <1>3
  DEF Work, AddFinalizer, Convert, ConvertIn, EnsureRoute, Finish, CleanRoutes, ListGateways,
      RemoveFinalizer, kinds

(* The controller never turns a Gateway of one class into one of another: it *)
(* compares with a copy, and writes only where the copy is still current.    *)
THEOREM ClassesStay == Spec => ClassKept
<1> DEFINE A == Work => \A g \in GatewayKeys :
                  API(gateways)[g].ex /\ API(gateways')[g].ex =>
                    API(gateways')[g].class = API(gateways)[g].class
<1>1. ASSUME TypeOK, Work PROVE A
  <2>1. API(gateways) \in GatewayState
    BY <1>1, Bounds, WindowStates DEF TypeOK
  <2>2. CASE API(gateways') = API(gateways)
    BY <2>2
  <2>3. ASSUME NEW g \in GatewayKeys, NEW n \in GatewayRec,
               API(gateways') = [API(gateways) EXCEPT ![g] = n],
               API(gateways)[g].ex /\ n.ex => n.class = API(gateways)[g].class
        PROVE  A
    BY <2>1, <2>3 DEF GatewayState
  <2>4. ASSUME NEW g \in DOMAIN detach, NEW n \in GatewayRec,
               \/ n = NoGateway
               \/ /\ API(gateways)[g] = detach[g]
                  /\ n = [detach[g] EXCEPT !.owners = detach[g].owners \ {<<key, obj.gen>>}]
        PROVE  n.ex => n.class = API(gateways)[g].class
    <3>1. detach[g] \in GatewayRec
      BY <1>1 DEF TypeOK, LocalOK
    <3>2. CASE n = NoGateway
      BY <3>2 DEF NoGateway
    <3>3. CASE /\ API(gateways)[g] = detach[g]
               /\ n = [detach[g] EXCEPT !.owners = detach[g].owners \ {<<key, obj.gen>>}]
      <4>1. n.class = detach[g].class
        BY <3>1, <3>3 DEF GatewayRec
      <4> QED
        BY <3>3, <4>1
    <3> QED
      BY <2>4, <3>2, <3>3
  <2>5. CASE \E g \in DOMAIN detach : \E n \in GatewayRec :
               /\ g \in GatewayKeys
               /\ API(gateways') = [API(gateways) EXCEPT ![g] = n]
               /\ \/ n = NoGateway
                  \/ /\ API(gateways)[g] = detach[g]
                     /\ n = [detach[g] EXCEPT !.owners = detach[g].owners \ {<<key, obj.gen>>}]
    BY <2>3, <2>4, <2>5
  <2>6. CASE /\ want.key \in GatewayKeys /\ ~Conflict(API(gateways)[want.key], want.class)
             /\ \E n \in GatewayRec :
                  /\ API(gateways') = [API(gateways) EXCEPT ![want.key] = n]
                  /\ n.class = want.class
    BY <2>3, <2>6 DEF Conflict
  <2> QED
    BY <1>1, <2>2, <2>5, <2>6, GatewayWrites
<1> QED
  BY <1>1, TypeCorrect, PTL DEF Spec, ClassKept

-----------------------------------------------------------------------------
(* External Gateways.  Nothing in the code keeps a managed target apart from *)
(* an external Gateway; if the administrators do, the rest follows.          *)

NoClash ==
  \A i \in Ingresses : \A s \in Specs[i] :
    ConfigValid(s) /\ ~TargetsExternal(s) => ~IsExternalGateway(Target(i, s))

(* Neither the Gateway to be ensured nor one to be left is external. *)
ManagedOnly ==
  /\ pc = "ensureGateway" => ~IsExternalGateway(want.key)
  /\ \A g \in DOMAIN detach : ~IsExternalGateway(g)

LEMMA ManagedInit == Init => ManagedOnly
<1> SUFFICES ASSUME Init PROVE ManagedOnly
  OBVIOUS
<1>1. DOMAIN << >> = {}
  OBVIOUS
<1>2. DOMAIN detach = {}
  BY <1>1 DEF Init
<1> QED
  BY <1>2 DEF Init, ManagedOnly

LEMMA ManagedNext ==
  ASSUME NoClash, TypeOK, ManagedOnly, [Next]_vars
  PROVE  ManagedOnly'
<1>1. ASSUME Return PROVE ManagedOnly'
  <2>1. DOMAIN << >> = {}
    OBVIOUS
  <2>2. DOMAIN detach' = {}
    BY <1>1, <2>1 DEF Return
  <2> QED
    BY <1>1, <2>2 DEF Return, ManagedOnly
<1>2. ASSUME UNCHANGED detach, pc' # "ensureGateway" PROVE ManagedOnly'
  BY <1>2 DEF ManagedOnly
<1>3. ASSUME UNCHANGED local PROVE ManagedOnly'
  BY <1>3 DEF ManagedOnly, local
<1>4. CASE Convert
  <2>1. CASE Fail
    BY <2>1, <1>1 DEF Fail
  <2>2. CASE UNCHANGED detach /\ pc' = "ensureRoutes"
    BY <2>2, <1>2
  <2>3. ASSUME NEW ns, ~TargetsExternal(obj.spec), want' = WantedGateway(Merged, ns),
               UNCHANGED detach
        PROVE  ManagedOnly'
    <3>1. key \in Ingresses /\ obj.spec \in Specs[key] /\ ConfigValid(obj.spec)
      BY <1>4 DEF Convert, TypeOK, LocalOK, PhaseOK, ConvertSteps, WellFormed
    <3>2. ~IsExternalGateway(Target(key, obj.spec))
      BY <2>3, <3>1 DEF NoClash
    <3>3. want'.key = Target(key, obj.spec)
      BY <2>3 DEF WantedGateway
    <3> QED
      BY <2>3, <3>2, <3>3 DEF ManagedOnly
  <2> QED
    BY <1>4, <2>1, <2>2, <2>3 DEF Convert, ConvertIn
<1>5. CASE ListGateways
  <2>1. CASE detach' = [g \in OwnedGateways |-> Cache(gateways)[g]]
    <3>1. DOMAIN detach' = OwnedGateways
      BY <2>1
    <3> QED
      BY <1>5, <3>1 DEF ListGateways, OwnedGateways, ManagedOnly
  <2>2. CASE detach' = << >>
    <3>1. DOMAIN detach' = {}
      BY <2>2
    <3> QED
      BY <1>5, <3>1 DEF ListGateways, ManagedOnly
  <2> QED
    BY <1>5, <2>1, <2>2 DEF ListGateways
<1>6. ASSUME NEW g \in DOMAIN detach, Detach(g) PROVE ManagedOnly'
  <2>1. CASE Fail
    BY <2>1, <1>1 DEF Fail
  <2>2. CASE detach' = [h \in DOMAIN detach \ {g} |-> detach[h]] /\ UNCHANGED <<pc, want>>
    <3>1. DOMAIN detach' \subseteq DOMAIN detach
      BY <2>2
    <3> QED
      BY <2>2, <3>1 DEF ManagedOnly
  <2> QED
    BY <1>6, <2>1, <2>2 DEF Detach
<1>7. ASSUME Work PROVE ManagedOnly'
  <2>1. CASE AddFinalizer \/ EnsureGateway \/ CleanRoutes
    BY <2>1, <1>1, <1>2 DEF AddFinalizer, EnsureGateway, CleanRoutes, Fail, Goto
  <2>2. ASSUME NEW id \in DOMAIN todo, EnsureRoute(id) PROVE ManagedOnly'
    BY <2>2, <1>1, <1>2 DEF EnsureRoute, Fail
  <2>3. CASE Finish \/ RemoveFinalizer
    BY <2>3, <1>1 DEF Finish, RemoveFinalizer, Fail
  <2> QED
    BY <1>7, <1>4, <1>5, <1>6, <2>1, <2>2, <2>3 DEF Work
<1>8. ASSUME NEW i \in Ingresses, Fetch(i) PROVE ManagedOnly'
  BY <1>8, <1>2, <1>3 DEF Fetch
<1>9. ASSUME CallFails \/ Restart PROVE ManagedOnly'
  BY <1>9, <1>1 DEF CallFails, Restart, Fail
<1>10. ASSUME Deliver \/ (\E d \in delayed : TimerFires(d)) \/ Resync \/ Users \/ Collect
       PROVE  ManagedOnly'
  BY <1>10, <1>3
  DEF Deliver, DeliverIngresses, DeliverGateways, DeliverRoutes, TimerFires, Resync, Users,
      CreateIngress, EditIngress, DeleteIngress, ToggleExternalGateway, Edited,
      Collect, CollectGateway, CollectRoute
<1>11. CASE UNCHANGED vars
  BY <1>11, <1>3 DEF vars
<1> QED
  BY <1>7, <1>8, <1>9, <1>10, <1>11 DEF Next

(* If no managed target is an external Gateway, no step of the controller    *)
(* writes an external Gateway, not even one that names an Ingress as owner.  *)
THEOREM ExternalIsUntouched ==
  ASSUME NoClash
  PROVE  Spec => ExternalUntouched
<1> DEFINE A == Work => \A g \in GatewayKeys :
                  IsExternalGateway(g) => API(gateways')[g] = API(gateways)[g]
<1>1. ASSUME TypeOK, ManagedOnly, Work PROVE A
  <2>1. API(gateways) \in GatewayState
    BY <1>1, Bounds, WindowStates DEF TypeOK
  <2> QED
    BY <1>1, <2>1, GatewayWrites DEF GatewayState, ManagedOnly
<1>2. Spec => []ManagedOnly
  <2>1. NoClash
    OBVIOUS
  <2>2. TypeOK /\ ManagedOnly /\ [Next]_vars => ManagedOnly'
    BY <2>1, ManagedNext
  <2> QED
    BY ManagedInit, <2>2, TypeCorrect, PTL DEF Spec
<1> QED
  BY <1>1, <1>2, TypeCorrect, PTL DEF Spec, ExternalUntouched
=============================================================================

---------------------------- MODULE ReplicasProofs ----------------------------
(***************************************************************************)
(* Two processes that know nothing of each other: what optimistic locking  *)
(* and the owner references protect without a leader.  Each step of either *)
(* is one of the single process of ReconcilerProofs for its own variables, *)
(* and for the other it is a step of somebody else, whose writes its       *)
(* watches receive.                                                        *)
(***************************************************************************)
EXTENDS Replicas, RestProofs

(* The lemmas, read for the second process. *)
SecondProofs == INSTANCE RestProofs WITH
  ingresses <- ingresses2, gateways <- gateways2, routes <- routes2,
  queue <- queue2, delayed <- delayed2, pc <- pc2, key <- key2, obj <- obj2,
  want <- want2, todo <- todo2, detach <- detach2, requeueAfter <- requeueAfter2

(* Second of Replicas and SecondProofs are the same definitions under two    *)
(* names: shown once, step by step, by expanding both.                       *)

LEMMA SameInit ==
  ASSUME Second!Init PROVE SecondProofs!Init
BY
  DEF Second!GatewayKeys, SecondProofs!GatewayKeys, Second!GetIngressClass,
      SecondProofs!GetIngressClass, Second!Init, SecondProofs!Init, Second!NoGateway,
      SecondProofs!NoGateway, Second!NoRoute, SecondProofs!NoRoute, Second!RouteIds,
      SecondProofs!RouteIds, Second!TargetGateway, SecondProofs!TargetGateway,
      Second!TargetsExternal, SecondProofs!TargetsExternal

LEMMA SameWork ==
  ASSUME Second!Work PROVE SecondProofs!Work
<1>1. ASSUME Second!AddFinalizer PROVE SecondProofs!AddFinalizer
  BY <1>1
  DEF Second!API, SecondProofs!API, Second!AddFinalizer, SecondProofs!AddFinalizer,
      Second!Cache, SecondProofs!Cache, Second!Fail, SecondProofs!Fail, Second!Goto,
      SecondProofs!Goto, Second!IngressCurrent, SecondProofs!IngressCurrent, Second!Noticed,
      SecondProofs!Noticed, Second!Push, SecondProofs!Push, Second!Return, SecondProofs!Return,
      Second!WriteIngress, SecondProofs!WriteIngress
<1>2. ASSUME NEW order, NEW unseen, Second!ConvertIn(order, unseen) PROVE SecondProofs!ConvertIn(order, unseen)
  BY <1>2
  DEF Second!Cache, SecondProofs!Cache, Second!ConfigValid, SecondProofs!ConfigValid,
      Second!ConvertIn, SecondProofs!ConvertIn, Second!ConvertedIds, SecondProofs!ConvertedIds,
      Second!ConvertedRoutes, SecondProofs!ConvertedRoutes, Second!Copy, SecondProofs!Copy,
      Second!Fail, SecondProofs!Fail, Second!FindSourceIngress, SecondProofs!FindSourceIngress,
      Second!GatewayNamespaces, SecondProofs!GatewayNamespaces, Second!GetIngressClass,
      SecondProofs!GetIngressClass, Second!Group, SecondProofs!Group, Second!HasManagedClass,
      SecondProofs!HasManagedClass, Second!IsBestMatch, SecondProofs!IsBestMatch,
      Second!IsEnabled, SecondProofs!IsEnabled, Second!ListenerHosts,
      SecondProofs!ListenerHosts, Second!Merged, SecondProofs!Merged, Second!NameMatches,
      SecondProofs!NameMatches, Second!OwnerOf, SecondProofs!OwnerOf, Second!ProviderOf,
      SecondProofs!ProviderOf, Second!ResourceName, SecondProofs!ResourceName, Second!Return,
      SecondProofs!Return, Second!RouteIds, SecondProofs!RouteIds, Second!SelectableClasses,
      SecondProofs!SelectableClasses, Second!Selected, SecondProofs!Selected,
      Second!SupportedProviders, SecondProofs!SupportedProviders, Second!Target,
      SecondProofs!Target, Second!TargetGateway, SecondProofs!TargetGateway,
      Second!TargetsExternal, SecondProofs!TargetsExternal, Second!WantedGateway,
      SecondProofs!WantedGateway, Second!WithOwners, SecondProofs!WithOwners, Second!kinds,
      SecondProofs!kinds
<1>3. ASSUME Second!EnsureGateway PROVE SecondProofs!EnsureGateway
  BY <1>3
  DEF Second!API, SecondProofs!API, Second!Cache, SecondProofs!Cache, Second!Conflict,
      SecondProofs!Conflict, Second!EnsureGateway, SecondProofs!EnsureGateway, Second!Fail,
      SecondProofs!Fail, Second!KeptOwners, SecondProofs!KeptOwners, Second!Push,
      SecondProofs!Push, Second!Return, SecondProofs!Return, Second!SetOwner,
      SecondProofs!SetOwner, Second!VersionRead, SecondProofs!VersionRead,
      Second!WriteGateway, SecondProofs!WriteGateway
<1>4. ASSUME NEW id, Second!EnsureRoute(id) PROVE SecondProofs!EnsureRoute(id)
  BY <1>4
  DEF Second!API, SecondProofs!API, Second!Cache, SecondProofs!Cache, Second!EnsureRoute,
      SecondProofs!EnsureRoute, Second!Fail, SecondProofs!Fail, Second!KeptOwners,
      SecondProofs!KeptOwners, Second!KindIndex, SecondProofs!KindIndex, Second!Kinds,
      SecondProofs!Kinds, Second!Push, SecondProofs!Push, Second!Return, SecondProofs!Return,
      Second!SetOwner, SecondProofs!SetOwner, Second!UpToDate, SecondProofs!UpToDate,
      Second!WriteRoute, SecondProofs!WriteRoute
<1>5. ASSUME Second!Finish PROVE SecondProofs!Finish
  BY <1>5
  DEF Second!Finish, SecondProofs!Finish, Second!Return, SecondProofs!Return, Second!kinds,
      SecondProofs!kinds
<1>6. ASSUME Second!CleanRoutes PROVE SecondProofs!CleanRoutes
  BY <1>6
  DEF Second!API, SecondProofs!API, Second!Cache, SecondProofs!Cache, Second!CleanRoutes,
      SecondProofs!CleanRoutes, Second!DeleteRoutes, SecondProofs!DeleteRoutes, Second!Fail,
      SecondProofs!Fail, Second!Goto, SecondProofs!Goto, Second!Kinds, SecondProofs!Kinds,
      Second!ListableKinds, SecondProofs!ListableKinds, Second!NoRoute, SecondProofs!NoRoute,
      Second!Orphans, SecondProofs!Orphans, Second!Push, SecondProofs!Push, Second!Return,
      SecondProofs!Return, Second!RouteIds, SecondProofs!RouteIds, Second!SourceOf,
      SecondProofs!SourceOf
<1>7. ASSUME Second!ListGateways PROVE SecondProofs!ListGateways
  BY <1>7
  DEF Second!Cache, SecondProofs!Cache, Second!GatewayKeys, SecondProofs!GatewayKeys,
      Second!GetIngressClass, SecondProofs!GetIngressClass, Second!IsExternalGateway,
      SecondProofs!IsExternalGateway, Second!ListGateways, SecondProofs!ListGateways,
      Second!OwnedGateways, SecondProofs!OwnedGateways, Second!TargetGateway,
      SecondProofs!TargetGateway, Second!TargetsExternal, SecondProofs!TargetsExternal,
      Second!kinds, SecondProofs!kinds
<1>8. ASSUME NEW g, Second!Detach(g) PROVE SecondProofs!Detach(g)
  BY <1>8
  DEF Second!API, SecondProofs!API, Second!Detach, SecondProofs!Detach, Second!Fail,
      SecondProofs!Fail, Second!IsLastOwner, SecondProofs!IsLastOwner, Second!NoGateway,
      SecondProofs!NoGateway, Second!Push, SecondProofs!Push, Second!Return,
      SecondProofs!Return, Second!WriteGateway, SecondProofs!WriteGateway
<1>9. ASSUME Second!RemoveFinalizer PROVE SecondProofs!RemoveFinalizer
  BY <1>9
  DEF Second!API, SecondProofs!API, Second!Cache, SecondProofs!Cache, Second!Fail,
      SecondProofs!Fail, Second!Gone, SecondProofs!Gone, Second!IngressCurrent,
      SecondProofs!IngressCurrent, Second!Noticed, SecondProofs!Noticed, Second!Push,
      SecondProofs!Push, Second!RemoveFinalizer, SecondProofs!RemoveFinalizer, Second!Return,
      SecondProofs!Return, Second!WriteIngress, SecondProofs!WriteIngress
<1>10. Second!Merged = SecondProofs!Merged /\ \A S : Second!ListOrders(S) = SecondProofs!ListOrders(S)
  BY
  DEF Second!Cache, SecondProofs!Cache, Second!ConfigValid, SecondProofs!ConfigValid,
      Second!GetIngressClass, SecondProofs!GetIngressClass, Second!HasManagedClass,
      SecondProofs!HasManagedClass, Second!IsEnabled, SecondProofs!IsEnabled, Second!ListOrders,
      SecondProofs!ListOrders, Second!Merged, SecondProofs!Merged, Second!ProviderOf,
      SecondProofs!ProviderOf, Second!SelectableClasses, SecondProofs!SelectableClasses,
      Second!Selected, SecondProofs!Selected, Second!SupportedProviders,
      SecondProofs!SupportedProviders, Second!Target, SecondProofs!Target, Second!TargetGateway,
      SecondProofs!TargetGateway, Second!TargetsExternal, SecondProofs!TargetsExternal,
      Second!Cardinality, SecondProofs!Cardinality
<1> QED
  BY <1>1, <1>2, <1>3, <1>4, <1>5, <1>6, <1>7, <1>8, <1>9, <1>10
  DEF Second!Work, SecondProofs!Work, Second!Convert, SecondProofs!Convert

LEMMA SameNext ==
  ASSUME Second!Next PROVE SecondProofs!Next
<1>1. ASSUME NEW i, Second!Fetch(i) PROVE SecondProofs!Fetch(i)
  BY <1>1
  DEF Second!Cache, SecondProofs!Cache, Second!ConfigValid, SecondProofs!ConfigValid,
      Second!Fetch, SecondProofs!Fetch, Second!GetIngressClass, SecondProofs!GetIngressClass,
      Second!HasManagedClass, SecondProofs!HasManagedClass, Second!IsEnabled,
      SecondProofs!IsEnabled, Second!Leaving, SecondProofs!Leaving, Second!MustCleanUp,
      SecondProofs!MustCleanUp, Second!ProviderOf, SecondProofs!ProviderOf,
      Second!SelectableClasses, SecondProofs!SelectableClasses, Second!SupportedProviders,
      SecondProofs!SupportedProviders, Second!TargetsExternal, SecondProofs!TargetsExternal,
      Second!kinds, SecondProofs!kinds, Second!local, SecondProofs!local
<1>2. ASSUME Second!CallFails PROVE SecondProofs!CallFails
  BY <1>2
  DEF Second!CallFails, SecondProofs!CallFails, Second!Fail, SecondProofs!Fail, Second!Return,
      SecondProofs!Return, Second!kinds, SecondProofs!kinds
<1>3. ASSUME Second!Restart PROVE SecondProofs!Restart
  BY <1>3
  DEF Second!API, SecondProofs!API, Second!Restart, SecondProofs!Restart, Second!Return,
      SecondProofs!Return
<1>4. ASSUME Second!Deliver PROVE SecondProofs!Deliver
  BY <1>4
  DEF Second!Cache, SecondProofs!Cache, Second!Deliver, SecondProofs!Deliver,
      Second!DeliverGateways, SecondProofs!DeliverGateways, Second!DeliverIngresses,
      SecondProofs!DeliverIngresses, Second!DeliverRoutes, SecondProofs!DeliverRoutes,
      Second!Noticed, SecondProofs!Noticed, Second!local, SecondProofs!local
<1>5. ASSUME NEW d, Second!TimerFires(d) PROVE SecondProofs!TimerFires(d)
  BY <1>5
  DEF Second!TimerFires, SecondProofs!TimerFires, Second!kinds, SecondProofs!kinds,
      Second!local, SecondProofs!local
<1>6. ASSUME Second!Resync PROVE SecondProofs!Resync
  BY <1>6
  DEF Second!Cache, SecondProofs!Cache, Second!Resync, SecondProofs!Resync, Second!kinds,
      SecondProofs!kinds, Second!local, SecondProofs!local
<1>7. ASSUME Second!Users PROVE SecondProofs!Users
  BY <1>7
  DEF Second!API, SecondProofs!API, Second!Cache, SecondProofs!Cache, Second!CreateIngress,
      SecondProofs!CreateIngress, Second!DeleteIngress, SecondProofs!DeleteIngress,
      Second!EditIngress, SecondProofs!EditIngress, Second!Edited, SecondProofs!Edited,
      Second!GatewayKeys, SecondProofs!GatewayKeys, Second!GetIngressClass,
      SecondProofs!GetIngressClass, Second!Gone, SecondProofs!Gone, Second!IsExternalGateway,
      SecondProofs!IsExternalGateway, Second!NoGateway, SecondProofs!NoGateway, Second!Noticed,
      SecondProofs!Noticed, Second!Push, SecondProofs!Push, Second!TargetGateway,
      SecondProofs!TargetGateway, Second!TargetsExternal, SecondProofs!TargetsExternal,
      Second!ToggleExternalGateway, SecondProofs!ToggleExternalGateway, Second!Users,
      SecondProofs!Users, Second!WriteGateway, SecondProofs!WriteGateway, Second!WriteIngress,
      SecondProofs!WriteIngress, Second!local, SecondProofs!local
<1>8. ASSUME Second!Collect PROVE SecondProofs!Collect
  BY <1>8
  DEF Second!API, SecondProofs!API, Second!Alive, SecondProofs!Alive, Second!Collect,
      SecondProofs!Collect, Second!CollectGateway, SecondProofs!CollectGateway,
      Second!CollectRoute, SecondProofs!CollectRoute, Second!Collectable,
      SecondProofs!Collectable, Second!GatewayKeys, SecondProofs!GatewayKeys,
      Second!GetIngressClass, SecondProofs!GetIngressClass, Second!LivingOwners,
      SecondProofs!LivingOwners, Second!NoGateway, SecondProofs!NoGateway, Second!NoRoute,
      SecondProofs!NoRoute, Second!Push, SecondProofs!Push, Second!RouteIds,
      SecondProofs!RouteIds, Second!TargetGateway, SecondProofs!TargetGateway,
      Second!TargetsExternal, SecondProofs!TargetsExternal, Second!WriteGateway,
      SecondProofs!WriteGateway, Second!WriteRoute, SecondProofs!WriteRoute, Second!local,
      SecondProofs!local
<1> QED
  BY <1>1, <1>2, <1>3, <1>4, <1>5, <1>6, <1>7, <1>8, SameWork DEF Second!Next, SecondProofs!Next

(* The two modules' constants are the same, and so are the assumptions on    *)
(* them that each lemma of SecondProofs rests on.                            *)
LEMMA SameKeys ==
  /\ SecondProofs!Kinds = Kinds /\ SecondProofs!GatewayKeys = GatewayKeys
  /\ \A S : SecondProofs!IsFiniteSet(S) = IsFiniteSet(S)
<1>1. SecondProofs!Kinds = Kinds
  BY DEF SecondProofs!Kinds, Kinds
<1>2. SecondProofs!GatewayKeys = GatewayKeys
  BY
  DEF GatewayKeys, SecondProofs!GatewayKeys, GetIngressClass,
      SecondProofs!GetIngressClass, TargetGateway, SecondProofs!TargetGateway,
      TargetsExternal, SecondProofs!TargetsExternal
<1>3. \A S : SecondProofs!IsFiniteSet(S) = IsFiniteSet(S)
  BY DEF IsFiniteSet, SecondProofs!IsFiniteSet
<1> QED
  BY <1>1, <1>2, <1>3

(* What the two know of the API server is one state. *)
OneState ==
  /\ API(ingresses2) = API(ingresses)
  /\ API(gateways2) = API(gateways)
  /\ API(routes2) = API(routes)

LEMMA SameTerms ==
  /\ \A w : SecondProofs!API(w) = API(w)
  /\ \A o : SecondProofs!Leaving(o) = Leaving(o)
  /\ \A s : SecondProofs!ConfigValid(s) = ConfigValid(s)
  /\ OneState => \A u : SecondProofs!Alive(u) = Alive(u)
  /\ SecondProofs!GatewayKeys = GatewayKeys
<1>1. \A w : SecondProofs!API(w) = API(w)
  BY DEF SecondProofs!API, API
<1>2. OneState => \A u : SecondProofs!Alive(u) = Alive(u)
  BY <1>1 DEF SecondProofs!Alive, Alive, OneState
<1>3. \A o : SecondProofs!Leaving(o) = Leaving(o)
  BY
  DEF GetIngressClass, SecondProofs!GetIngressClass, IsEnabled,
      SecondProofs!IsEnabled, Leaving, SecondProofs!Leaving, SelectableClasses,
      SecondProofs!SelectableClasses
<1>4. \A s : SecondProofs!ConfigValid(s) = ConfigValid(s)
  BY
  DEF ConfigValid, SecondProofs!ConfigValid, GetIngressClass,
      SecondProofs!GetIngressClass, HasManagedClass, SecondProofs!HasManagedClass,
      ProviderOf, SecondProofs!ProviderOf, SupportedProviders,
      SecondProofs!SupportedProviders, TargetsExternal, SecondProofs!TargetsExternal
<1>5. SecondProofs!GatewayKeys = GatewayKeys
  BY
  DEF GatewayKeys, SecondProofs!GatewayKeys, GetIngressClass,
      SecondProofs!GetIngressClass, TargetGateway, SecondProofs!TargetGateway,
      TargetsExternal, SecondProofs!TargetsExternal
<1> QED
  BY <1>1, <1>2, <1>3, <1>4, <1>5

LEMMA SameStates ==
  /\ SecondProofs!IngressState = IngressState
  /\ SecondProofs!GatewayState = GatewayState
  /\ SecondProofs!RouteState = RouteState
<1>1. SecondProofs!IngressState = IngressState
  BY
  DEF IngressRec, SecondProofs!IngressRec, IngressState,
      SecondProofs!IngressState, Settings, SecondProofs!Settings, WellFormed,
      SecondProofs!WellFormed
<1>2. SecondProofs!GatewayState = GatewayState
  BY
  DEF Classes, SecondProofs!Classes, GatewayKeys, SecondProofs!GatewayKeys,
      GatewayRec, SecondProofs!GatewayRec, GatewayState,
      SecondProofs!GatewayState, GetIngressClass, SecondProofs!GetIngressClass,
      Hosts, SecondProofs!Hosts, Settings, SecondProofs!Settings,
      TargetGateway, SecondProofs!TargetGateway, TargetsExternal,
      SecondProofs!TargetsExternal, Uids, SecondProofs!Uids
<1>3. SecondProofs!RouteState = RouteState
  BY
  DEF BodyRec, SecondProofs!BodyRec, GatewayKeys, SecondProofs!GatewayKeys,
      GetIngressClass, SecondProofs!GetIngressClass, RouteIds,
      SecondProofs!RouteIds, RouteRec, SecondProofs!RouteRec, RouteState,
      SecondProofs!RouteState, SupportedProviders, SecondProofs!SupportedProviders,
      TargetGateway, SecondProofs!TargetGateway, TargetsExternal,
      SecondProofs!TargetsExternal, Uids, SecondProofs!Uids
<1> QED
  BY <1>1, <1>2, <1>3

BothTypes == TypeOK /\ SecondProofs!TypeOK /\ OneState

LEMMA WatchReceives ==
  ASSUME NEW S, NEW w, NEW lag \in Nat, IsWindow(w, S, lag), NEW new \in S
  PROVE  /\ API(Watch(w, API(w), new, lag)) = new
         /\ Watch(w, API(w), new, lag) \in {w, Push(w, new, lag)}
BY PushWindow DEF Watch

LEMMA StepOfFirst ==
  ASSUME BothTypes, Next, Hear2
  PROVE  /\ TypeOK' /\ OneState'
         /\ SecondProofs!Heard(API(ingresses'), API(gateways'), API(routes'))
<1>1. TypeOK'
  BY NextType DEF BothTypes
<1>2. API(ingresses') \in IngressState /\ API(gateways') \in GatewayState /\ API(routes') \in RouteState
  <2>1. IngressLag \in Nat /\ GatewayLag \in Nat /\ RouteLag \in Nat
    BY Bounds
  <2> QED
    BY <1>1, <2>1, WindowStates DEF TypeOK
<1>3. /\ IsWindow(ingresses2, IngressState, IngressLag)
      /\ IsWindow(gateways2, GatewayState, GatewayLag)
      /\ IsWindow(routes2, RouteState, RouteLag)
  BY SameStates DEF BothTypes, SecondProofs!TypeOK, SecondProofs!IsWindow, IsWindow
<1>4. /\ API(ingresses) = API(ingresses2)
      /\ API(gateways) = API(gateways2)
      /\ API(routes) = API(routes2)
  BY DEF BothTypes, OneState
<1>5. /\ API(ingresses2') = API(ingresses')
      /\ ingresses2' \in {ingresses2, Push(ingresses2, API(ingresses'), IngressLag)}
  BY <1>2, <1>3, <1>4, WatchReceives, Bounds DEF Hear2
<1>6. /\ API(gateways2') = API(gateways')
      /\ gateways2' \in {gateways2, Push(gateways2, API(gateways'), GatewayLag)}
  BY <1>2, <1>3, <1>4, WatchReceives, Bounds DEF Hear2
<1>7. /\ API(routes2') = API(routes')
      /\ routes2' \in {routes2, Push(routes2, API(routes'), RouteLag)}
  BY <1>2, <1>3, <1>4, WatchReceives, Bounds DEF Hear2
<1>8. \A w, x, lag : SecondProofs!Push(w, x, lag) = Push(w, x, lag)
  BY DEF SecondProofs!Push, Push
<1>9. queue2' = queue2 \cup SecondProofs!Noticed(ingresses2, ingresses2')
  BY DEF Hear2, Noticed, SecondProofs!Noticed, Cache, SecondProofs!Cache
<1>10. UNCHANGED <<delayed2, SecondProofs!local>>
  BY DEF Hear2, own2, SecondProofs!local
<1>11. OneState'
  BY <1>5, <1>6, <1>7 DEF OneState
<1> QED
  BY <1>1, <1>5, <1>6, <1>7, <1>8, <1>9, <1>10, <1>11 DEF SecondProofs!Heard

LEMMA StepOfSecond ==
  ASSUME BothTypes, Second!Next, Hear1
  PROVE  /\ SecondProofs!TypeOK' /\ OneState'
         /\ Heard(API(ingresses2'), API(gateways2'), API(routes2'))
<1>1. SecondProofs!TypeOK'
  BY SameNext, SecondProofs!NextType, SameKeys,
     ModeAssumption, ConversionAssumption, ReconcilerAssumption DEF BothTypes
<1>2. /\ API(ingresses2') \in IngressState /\ API(gateways2') \in GatewayState
      /\ API(routes2') \in RouteState
  <2>1. IngressLag \in Nat /\ GatewayLag \in Nat /\ RouteLag \in Nat
    BY Bounds
  <2>2. /\ IsWindow(ingresses2', IngressState, IngressLag)
        /\ IsWindow(gateways2', GatewayState, GatewayLag)
        /\ IsWindow(routes2', RouteState, RouteLag)
    BY <1>1, SameStates DEF SecondProofs!TypeOK, SecondProofs!IsWindow, IsWindow
  <2> QED
    BY <2>1, <2>2, WindowStates
<1>3. /\ IsWindow(ingresses, IngressState, IngressLag)
      /\ IsWindow(gateways, GatewayState, GatewayLag)
      /\ IsWindow(routes, RouteState, RouteLag)
  BY DEF BothTypes, TypeOK
<1>4. /\ API(ingresses2) = API(ingresses)
      /\ API(gateways2) = API(gateways)
      /\ API(routes2) = API(routes)
  BY DEF BothTypes, OneState
<1>5. /\ API(ingresses') = API(ingresses2')
      /\ ingresses' \in {ingresses, Push(ingresses, API(ingresses2'), IngressLag)}
  BY <1>2, <1>3, <1>4, WatchReceives, Bounds DEF Hear1
<1>6. /\ API(gateways') = API(gateways2')
      /\ gateways' \in {gateways, Push(gateways, API(gateways2'), GatewayLag)}
  BY <1>2, <1>3, <1>4, WatchReceives, Bounds DEF Hear1
<1>7. /\ API(routes') = API(routes2')
      /\ routes' \in {routes, Push(routes, API(routes2'), RouteLag)}
  BY <1>2, <1>3, <1>4, WatchReceives, Bounds DEF Hear1
<1>8. OneState'
  BY <1>5, <1>6, <1>7 DEF OneState
<1> QED
  BY <1>1, <1>5, <1>6, <1>7, <1>8 DEF Heard, Hear1, own1

(* A step of the two is a step of one of them, and the other hears of it. *)
LEMMA OneOfBoth ==
  ASSUME BothTypes, [BothNext]_vars2
  PROVE  \/ [Next]_vars /\ Hear2 /\ Next
         \/ [SecondProofs!Next]_(SecondProofs!vars) /\ Hear1 /\ Second!Next
         \/ UNCHANGED vars2
BY SameNext DEF BothNext

LEMMA BothTypesNext ==
  ASSUME BothTypes, [BothNext]_vars2
  PROVE  BothTypes'
<1>1. CASE Next /\ Hear2
  <2>1. /\ TypeOK' /\ OneState'
        /\ SecondProofs!Heard(API(ingresses'), API(gateways'), API(routes'))
    BY <1>1, StepOfFirst
  <2>2. /\ API(ingresses') \in SecondProofs!IngressState
        /\ API(gateways') \in SecondProofs!GatewayState
        /\ API(routes') \in SecondProofs!RouteState
    <3>1. IngressLag \in Nat /\ GatewayLag \in Nat /\ RouteLag \in Nat
      BY Bounds
    <3> QED
      BY <2>1, <3>1, SameStates, WindowStates DEF TypeOK
  <2>3. edits' \in 0..MaxEdits /\ faults' \in 0..MaxFaults
    BY <2>1 DEF TypeOK
  <2>4. SecondProofs!TypeOK'
    BY <2>1, <2>2, <2>3, SecondProofs!HeardType, SameKeys,
       ModeAssumption, ConversionAssumption, ReconcilerAssumption DEF BothTypes
  <2> QED
    BY <2>1, <2>4 DEF BothTypes
<1>2. CASE Second!Next /\ Hear1
  <2>1. /\ SecondProofs!TypeOK' /\ OneState'
        /\ Heard(API(ingresses2'), API(gateways2'), API(routes2'))
    BY <1>2, StepOfSecond
  <2>2. /\ API(ingresses2') \in IngressState
        /\ API(gateways2') \in GatewayState
        /\ API(routes2') \in RouteState
    <3>1. IngressLag \in Nat /\ GatewayLag \in Nat /\ RouteLag \in Nat
      BY Bounds
    <3>2. /\ IsWindow(ingresses2', IngressState, IngressLag)
          /\ IsWindow(gateways2', GatewayState, GatewayLag)
          /\ IsWindow(routes2', RouteState, RouteLag)
      BY <2>1, SameStates DEF SecondProofs!TypeOK, SecondProofs!IsWindow, IsWindow
    <3> QED
      BY <3>1, <3>2, WindowStates
  <2>3. edits' \in 0..MaxEdits /\ faults' \in 0..MaxFaults
    BY <2>1 DEF SecondProofs!TypeOK
  <2>4. TypeOK'
    BY <2>1, <2>2, <2>3, HeardType DEF BothTypes
  <2> QED
    BY <2>1, <2>4 DEF BothTypes
<1>3. CASE UNCHANGED vars2
  BY <1>3
  DEF BothTypes, OneState, API, vars2, vars, kinds, local, own2, TypeOK, LocalOK, PhaseOK,
      SecondProofs!TypeOK, SecondProofs!LocalOK, SecondProofs!PhaseOK
<1> QED
  BY <1>1, <1>2, <1>3 DEF BothNext

(* Both processes are well-typed and see one API server, whatever the other  *)
(* does.                                                                     *)
LEMMA BothTypeCorrect == BothSpec => []BothTypes
<1>1. BothInit => BothTypes
  <2> SUFFICES ASSUME BothInit PROVE BothTypes
    OBVIOUS
  <2>1. TypeOK /\ SecondProofs!TypeOK
    BY InitType, SameInit, SecondProofs!InitType, SameKeys,
       ModeAssumption, ConversionAssumption, ReconcilerAssumption DEF BothInit
  <2>2. ingresses2 = ingresses /\ gateways2 = gateways /\ routes2 = routes
    BY DEF BothInit, kinds
  <2> QED
    BY <2>1, <2>2 DEF BothTypes, OneState
<1>2. BothTypes /\ [BothNext]_vars2 => BothTypes'
  BY BothTypesNext
<1> QED
  BY <1>1, <1>2, PTL DEF BothSpec

-----------------------------------------------------------------------------
(* Optimistic locking needs no leader: whichever of the two processes does   *)
(* it, on caches of whatever age, the finalizer follows the users' choice of *)
(* that moment, and no user's change is written over (reconciler.go 160-166, *)
(* 375).                                                                     *)
THEOREM BothFinalizersAreRight == BothSpec => BothFollowSelection
<1> DEFINE A == \A i \in Ingresses :
                  LET o == API(ingresses)[i]  n == API(ingresses')[i] IN
                  /\ n.fin /\ ~o.fin => o.ex /\ ~Leaving(o) /\ ConfigValid(o.spec)
                  /\ o.fin /\ ~n.fin => Leaving(o)
                  /\ edits' = edits => n.spec = o.spec /\ n.gen = o.gen /\ (n.ex => n.del = o.del)
           A2 == \A i \in Ingresses :
                  LET o == API(ingresses2)[i]  n == API(ingresses2')[i] IN
                  /\ n.fin /\ ~o.fin => o.ex /\ ~Leaving(o) /\ ConfigValid(o.spec)
                  /\ o.fin /\ ~n.fin => Leaving(o)
                  /\ edits' = edits => n.spec = o.spec /\ n.gen = o.gen /\ (n.ex => n.del = o.del)
<1>1. ASSUME TypeOK, [Next]_vars PROVE A
  BY <1>1, FinalizerStep, UserUpdateStep
<1>2. ASSUME SecondProofs!TypeOK, [SecondProofs!Next]_(SecondProofs!vars) PROVE A2
  BY <1>2, SecondProofs!FinalizerStep, SecondProofs!UserUpdateStep, SameTerms, SameKeys,
     ModeAssumption, ConversionAssumption, ReconcilerAssumption
<1>3. OneState /\ OneState' /\ A2 => A
  BY DEF OneState
<1> HIDE DEF A, A2
<1>4. BothTypes /\ BothTypes' /\ [BothNext]_vars2 => A
  <2>1. UNCHANGED vars2 => UNCHANGED vars
    BY DEF vars2
  <2> QED
    BY <1>1, <1>2, <1>3, <2>1, OneOfBoth DEF BothTypes
<1> QED
  BY <1>4, BothTypeCorrect, PTL DEF BothSpec, BothFollowSelection, A

(* From a Gateway that stays, the reference of a living Ingress is taken in  *)
(* the step of the process that cleans up for this very Ingress, or replaced *)
(* by one that still works for an Ingress of that name deleted since:        *)
(* whatever the other process wrote between a Get, or a List, and the Update *)
(* that follows it (reconciler.go 398-416, 537-566).                         *)
THEOREM BothOwnersAreKept == BothSpec => BothKeepOwners
<1> DEFINE A == edits' = edits =>
                  \A g \in GatewayKeys :
                    API(gateways')[g].ex =>
                      \A u \in API(gateways)[g].owners \ API(gateways')[g].owners :
                        Alive(u) => \/ LetsGo(g, u) \/ Outlives(g, u)
                                    \/ Second!LetsGo(g, u) \/ Second!Outlives(g, u)
<1>1. ASSUME TypeOK, [Next]_vars PROVE A
  BY <1>1, OwnersTaken
<1>2. ASSUME SecondProofs!TypeOK, OneState, OneState', [SecondProofs!Next]_(SecondProofs!vars) PROVE A
  <2> SUFFICES ASSUME edits' = edits, NEW g \in GatewayKeys, API(gateways')[g].ex,
                      NEW u \in API(gateways)[g].owners \ API(gateways')[g].owners, Alive(u)
               PROVE  Second!LetsGo(g, u) \/ Second!Outlives(g, u)
    OBVIOUS
  <2>1. /\ API(gateways) = SecondProofs!API(gateways2)
        /\ API(gateways') = SecondProofs!API(gateways2')
        /\ g \in SecondProofs!GatewayKeys /\ SecondProofs!Alive(u)
    BY <1>2, SameTerms DEF OneState
  <2>2. SecondProofs!LetsGo(g, u) \/ SecondProofs!Outlives(g, u)
    BY <1>2, <2>1, SecondProofs!OwnersTaken, SameKeys,
       ModeAssumption, ConversionAssumption, ReconcilerAssumption
  <2> QED
    BY <2>2
    DEF SecondProofs!LetsGo, Second!LetsGo, SecondProofs!Outlives, Second!Outlives,
        SecondProofs!Leaving, Second!Leaving, SecondProofs!IsEnabled, Second!IsEnabled,
        SecondProofs!GetIngressClass, Second!GetIngressClass,
        SecondProofs!SelectableClasses, Second!SelectableClasses
<1> HIDE DEF A
<1>3. BothTypes /\ BothTypes' /\ [BothNext]_vars2 => A
  <2>1. UNCHANGED vars2 => UNCHANGED vars
    BY DEF vars2
  <2> QED
    BY <1>1, <1>2, <2>1, OneOfBoth DEF BothTypes
<1> QED
  BY <1>3, BothTypeCorrect, PTL DEF BothSpec, BothKeepOwners, A

-----------------------------------------------------------------------------
(* Rest.  A write of the other is one more thing that wakes a process.       *)

BothAttended == Attended /\ SecondProofs!Attended

LEMMA BothAttendedNext ==
  ASSUME BothTypes, BothTypes', BothAttended, [BothNext]_vars2
  PROVE  BothAttended'
<1>1. TypeOK /\ TypeOK' /\ SecondProofs!TypeOK /\ SecondProofs!TypeOK'
  BY DEF BothTypes
<1>2. CASE Next /\ Hear2
  <2>1. Attended'
    BY <1>1, <1>2, AttendedNext DEF BothAttended
  <2>2. SecondProofs!Heard(API(ingresses'), API(gateways'), API(routes'))
    BY <1>2, StepOfFirst
  <2>3. API(ingresses') \in SecondProofs!IngressState
    <3>1. IngressLag \in Nat
      BY Bounds
    <3> QED
      BY <1>1, <3>1, SameStates, WindowStates DEF TypeOK
  <2>4. SecondProofs!Attended'
    BY <1>1, <2>2, <2>3, SecondProofs!HeardAttended, SameKeys,
       ModeAssumption, ConversionAssumption, ReconcilerAssumption DEF BothAttended
  <2> QED
    BY <2>1, <2>4 DEF BothAttended
<1>3. CASE Second!Next /\ Hear1
  <2>1. SecondProofs!Attended'
    BY <1>1, <1>3, SameNext, SecondProofs!AttendedNext, SameKeys,
       ModeAssumption, ConversionAssumption, ReconcilerAssumption DEF BothAttended
  <2>2. Heard(API(ingresses2'), API(gateways2'), API(routes2'))
    BY <1>3, StepOfSecond
  <2>3. API(ingresses2') \in IngressState
    <3>1. IngressLag \in Nat
      BY Bounds
    <3>2. IsWindow(ingresses2', IngressState, IngressLag)
      BY <1>1, SameStates DEF SecondProofs!TypeOK, SecondProofs!IsWindow, IsWindow
    <3> QED
      BY <3>1, <3>2, WindowStates
  <2>4. Attended'
    BY <1>1, <2>2, <2>3, HeardAttended DEF BothAttended
  <2> QED
    BY <2>1, <2>4 DEF BothAttended
<1>4. CASE UNCHANGED vars2
  BY <1>4
  DEF BothAttended, Attended, AttendedTo, Stirred, Pending, Cache, vars2, vars, kinds, local, own2,
      SecondProofs!Attended, SecondProofs!AttendedTo, SecondProofs!Stirred, SecondProofs!Pending,
      SecondProofs!Cache
<1> QED
  BY <1>2, <1>3, <1>4 DEF BothNext

LEMMA SettledOfSecond ==
  ASSUME SecondProofs!SettledFinalizers PROVE Second!SettledFinalizers
BY
  DEF Second!SettledFinalizers, SecondProofs!SettledFinalizers,
      Second!Quiet, SecondProofs!Quiet, Second!API, SecondProofs!API, Second!GatewayKeys,
      SecondProofs!GatewayKeys, Second!RouteIds, SecondProofs!RouteIds, Second!Collectable,
      SecondProofs!Collectable, Second!LivingOwners, SecondProofs!LivingOwners, Second!Alive,
      SecondProofs!Alive, Second!Serving, SecondProofs!Serving, Second!Convertible,
      SecondProofs!Convertible, Second!Selected, SecondProofs!Selected, Second!ConfigValid,
      SecondProofs!ConfigValid, Second!IsEnabled, SecondProofs!IsEnabled,
      Second!GetIngressClass, SecondProofs!GetIngressClass, Second!HasManagedClass,
      SecondProofs!HasManagedClass, Second!ProviderOf, SecondProofs!ProviderOf,
      Second!SelectableClasses, SecondProofs!SelectableClasses, Second!SupportedProviders,
      SecondProofs!SupportedProviders, Second!TargetGateway, SecondProofs!TargetGateway,
      Second!TargetsExternal, SecondProofs!TargetsExternal

(* A process that has come to rest finds the finalizer on exactly the        *)
(* selected Ingresses, whatever the other is doing meanwhile and has done,   *)
(* whatever the age of the caches of both and whatever failed (main.go 70,   *)
(* reconciler.go 107-108, 160-175).                                          *)
THEOREM BothComeToRest == BothSpec => []EachSettles
<1>1. BothInit => BothAttended
  <2> SUFFICES ASSUME BothInit PROVE BothAttended
    OBVIOUS
  <2>1. Init /\ SecondProofs!Init
    BY SameInit DEF BothInit
  <2>2. Attended
    BY <2>1, StartStirred DEF Attended, AttendedTo
  <2>3. SecondProofs!Attended
    BY <2>1, SecondProofs!StartStirred, SameKeys,
       ModeAssumption, ConversionAssumption, ReconcilerAssumption
    DEF SecondProofs!Attended, SecondProofs!AttendedTo
  <2> QED
    BY <2>2, <2>3 DEF BothAttended
<1>2. BothTypes /\ BothTypes' /\ BothAttended /\ [BothNext]_vars2 => BothAttended'
  BY BothAttendedNext
<1>3. BothTypes /\ BothAttended => EachSettles
  <2> SUFFICES ASSUME BothTypes, BothAttended PROVE EachSettles
    OBVIOUS
  <2>1. SettledFinalizers
    BY SettledAtRest DEF BothTypes, BothAttended
  <2>2. SecondProofs!SettledFinalizers
    BY SecondProofs!SettledAtRest, SameKeys,
       ModeAssumption, ConversionAssumption, ReconcilerAssumption DEF BothTypes, BothAttended
  <2> QED
    BY <2>1, <2>2, SettledOfSecond DEF EachSettles
<1> QED
  BY <1>1, <1>2, <1>3, BothTypeCorrect, PTL DEF BothSpec
=============================================================================

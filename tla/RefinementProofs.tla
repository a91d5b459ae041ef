--------------------------- MODULE RefinementProofs ---------------------------
(***************************************************************************)
(* The reconcile loop implements GatewayOwnership when its cache of        *)
(* Gateways is never behind: every write of a Gateway, whoever makes it,   *)
(* is one Ingress that joins or leaves it or the garbage collector that    *)
(* reaps it.                                                               *)
(***************************************************************************)
EXTENDS OwnershipProofs, GatewayRefinement

(* Incarnations are counted from 1, and no faster than users edit. *)
Aged ==
  /\ \A i \in Ingresses : 1 <= Cache(ingresses)[i].gen /\ API(ingresses)[i].gen <= edits + 1
  /\ pc # "idle" => 1 <= obj.gen
  /\ \A g \in GatewayKeys : \A u \in API(gateways)[g].owners : 1 <= u[2]

(* Of a managed Gateway that is gone, nothing is left. *)
Vacant ==
  \A g \in GatewayKeys :
    ~IsExternalGateway(g) /\ ~API(gateways)[g].ex => API(gateways)[g] = NoGateway

(* The Gateways still to be left are owned by somebody as long as they are there. *)
StillOwned ==
  \A g \in DOMAIN detach :
    /\ ~IsExternalGateway(g)
    /\ API(gateways)[g].ex => API(gateways)[g].owners # {}

-----------------------------------------------------------------------------
(* Steps. *)

(* Whatever writes a Gateway is the worker, an administrator at an external  *)
(* one, or the garbage collector.                                            *)
LEMMA GatewayChanges ==
  ASSUME TypeOK, [Next]_vars
  PROVE  \/ API(gateways') = API(gateways)
         \/ Work
         \/ /\ UNCHANGED <<ingresses, pc, detach>>
            /\ \E h \in GatewayKeys : \E n \in GatewayRec :
                 /\ IsExternalGateway(h)
                 /\ API(gateways') = [API(gateways) EXCEPT ![h] = n] /\ n.owners = {}
         \/ /\ UNCHANGED <<ingresses, pc, detach>>
            /\ \E h \in GatewayKeys : \E n \in GatewayRec :
                 /\ Collectable(API(gateways)[h])
                 /\ API(gateways') = [API(gateways) EXCEPT ![h] = n]
                 /\ IF LivingOwners(API(gateways)[h]) = {}
                      THEN n = NoGateway
                      ELSE n = [API(gateways)[h] EXCEPT !.owners = LivingOwners(API(gateways)[h])]
<1> DEFINE Goal ==
         \/ API(gateways') = API(gateways)
         \/ Work
         \/ /\ UNCHANGED <<ingresses, pc, detach>>
            /\ \E h \in GatewayKeys : \E n \in GatewayRec :
                 /\ IsExternalGateway(h)
                 /\ API(gateways') = [API(gateways) EXCEPT ![h] = n] /\ n.owners = {}
         \/ /\ UNCHANGED <<ingresses, pc, detach>>
            /\ \E h \in GatewayKeys : \E n \in GatewayRec :
                 /\ Collectable(API(gateways)[h])
                 /\ API(gateways') = [API(gateways) EXCEPT ![h] = n]
                 /\ IF LivingOwners(API(gateways)[h]) = {}
                      THEN n = NoGateway
                      ELSE n = [API(gateways)[h] EXCEPT !.owners = LivingOwners(API(gateways)[h])]
<1> SUFFICES Goal
  OBVIOUS
<1>0. API(gateways) \in GatewayState
  BY Bounds, WindowStates DEF TypeOK
<1>1. CASE UNCHANGED gateways
  BY <1>1
<1>2. ASSUME NEW h \in GatewayKeys, CollectGateway(h) PROVE Goal
  <2> DEFINE o == API(gateways)[h]
             n == IF LivingOwners(o) = {} THEN NoGateway ELSE [o EXCEPT !.owners = LivingOwners(o)]
  <2>1. o \in GatewayRec /\ n \in GatewayRec
    BY <1>0, EmptyObjects DEF GatewayState, GatewayRec, LivingOwners
  <2>2. API(gateways') = [API(gateways) EXCEPT ![h] = n]
    BY <1>2, <2>1, WriteGatewayType DEF CollectGateway, TypeOK
  <2> QED
    BY <1>2, <2>1, <2>2 DEF CollectGateway, local
<1>3. ASSUME NEW h \in GatewayKeys, ToggleExternalGateway(h) PROVE Goal
  <2> DEFINE n == IF API(gateways)[h].ex THEN NoGateway
                  ELSE [NoGateway EXCEPT !.ex = TRUE, !.class = "external"]
  <2>1. n \in GatewayRec /\ n.owners = {}
    BY EmptyObjects DEF NoGateway, GatewayRec, Classes
  <2>2. API(gateways') = [API(gateways) EXCEPT ![h] = n]
    BY <1>3, <2>1, WriteGatewayType DEF ToggleExternalGateway, TypeOK
  <2> HIDE DEF n
  <2> QED
    BY <1>3, <2>1, <2>2 DEF ToggleExternalGateway, Edited, local
<1>4. CASE Deliver \/ Restart
  BY <1>0, <1>4, Bounds, TailWindow, FreshWindow
  DEF Deliver, DeliverIngresses, DeliverGateways, DeliverRoutes, Restart, TypeOK
<1> QED
  BY <1>1, <1>2, <1>3, <1>4
  DEF Next, Fetch, CallFails, TimerFires, Resync, Users, CreateIngress, EditIngress,
      DeleteIngress, Collect, CollectRoute, kinds, vars

(* No step changes both an Ingress and a Gateway at the API server. *)
LEMMA OneKindAtATime ==
  ASSUME TypeOK, [Next]_vars
  PROVE  API(ingresses') = API(ingresses) \/ API(gateways') = API(gateways)
<1>1. API(ingresses) \in IngressState /\ API(gateways) \in GatewayState
  BY Bounds, WindowStates DEF TypeOK
<1>2. CASE Deliver \/ Restart
  BY <1>1, <1>2, Bounds, TailWindow, FreshWindow
  DEF Deliver, DeliverIngresses, DeliverGateways, DeliverRoutes, Restart, TypeOK
<1> QED
  BY <1>2
  DEF Next, Fetch, Work, AddFinalizer, Convert, ConvertIn, EnsureGateway, EnsureRoute, Finish,
      CleanRoutes, ListGateways, Detach, RemoveFinalizer, CallFails, TimerFires, Resync, Users,
      CreateIngress, EditIngress, DeleteIngress, ToggleExternalGateway, Collect, CollectGateway,
      CollectRoute, kinds, vars

LEMMA EditsCount ==
  ASSUME TypeOK, [Next]_vars
  PROVE  edits \in Nat /\ edits' \in {edits, edits + 1}
<1>1. edits \in Nat
  BY Bounds DEF TypeOK
<1> QED
  BY <1>1
  DEF Next, Fetch, Work, AddFinalizer, Convert, ConvertIn, EnsureGateway, EnsureRoute, Finish,
      CleanRoutes, ListGateways, Detach, RemoveFinalizer, CallFails, Restart, Deliver,
      DeliverIngresses, DeliverGateways, DeliverRoutes, TimerFires, Resync, Users, CreateIngress,
      EditIngress, DeleteIngress, ToggleExternalGateway, Edited, Collect, CollectGateway,
      CollectRoute, vars

-----------------------------------------------------------------------------
(* The three invariants. *)

LEMMA AgedInit == Init => Aged /\ Vacant /\ StillOwned
<1> SUFFICES ASSUME Init PROVE Aged /\ Vacant /\ StillOwned
  OBVIOUS
<1>1. PICK present, spec :
        ingresses = << [i \in Ingresses |-> [ex |-> i \in present, gen |-> 1, spec |-> spec[i],
                                            fin |-> i \in present \cap Adopted,
                                            del |-> FALSE]] >>
  BY DEF Init
<1>2. \A i \in Ingresses : Cache(ingresses)[i].gen = 1 /\ API(ingresses)[i].gen = 1
  BY <1>1 DEF Cache, API
<1>4. ASSUME NEW g \in GatewayKeys, NEW u \in API(gateways)[g].owners PROVE 1 <= u[2]
  <2>1. u \in Ingresses \X {1}
    BY <1>4, OwnersAtStart
  <2> QED
    BY <2>1
<1>5. Vacant
  BY OwnersAtStart DEF Vacant
<1>6. DOMAIN << >> = {}
  OBVIOUS
<1>7. DOMAIN detach = {}
  BY <1>6 DEF Init
<1>8. edits = 0 /\ pc = "idle"
  BY DEF Init
<1> QED
  BY <1>2, <1>4, <1>5, <1>7, <1>8 DEF Aged, StillOwned

LEMMA AgedNext ==
  ASSUME TypeOK, TypeOK', Incarnations, Aged, [Next]_vars
  PROVE  Aged'
<1>1. \A i \in Ingresses : Cache(ingresses)[i].gen <= Cache(ingresses')[i].gen
  BY IngressesGrow DEF Incarnations
<1>2. /\ Cache(ingresses) \in IngressState /\ Cache(ingresses') \in IngressState
      /\ API(ingresses) \in IngressState /\ API(gateways') \in GatewayState
  BY Bounds, WindowStates DEF TypeOK
<1>3. edits \in Nat /\ edits' \in {edits, edits + 1}
  BY EditsCount
<1>4. \A i \in Ingresses : 1 <= Cache(ingresses')[i].gen
  BY <1>1, <1>2, GensAreNat DEF Aged
<1>5. ASSUME NEW i \in Ingresses PROVE API(ingresses')[i].gen <= edits' + 1
  <2>0. API(ingresses)[i].gen \in Nat /\ API(ingresses)[i].gen <= edits + 1
    BY <1>2, GensAreNat DEF Aged
  <2>1. CASE API(ingresses')[i].gen = API(ingresses)[i].gen
    BY <1>3, <2>0, <2>1
  <2>2. CASE edits' = edits + 1 /\ API(ingresses')[i].gen \in {API(ingresses)[i].gen, API(ingresses)[i].gen + 1}
    BY <1>3, <2>0, <2>2
  <2>3. ASSUME pc # "idle", NEW n, API(ingresses)[key] = obj,
               API(ingresses') = [API(ingresses) EXCEPT ![key] = n], n.gen = obj.gen
        PROVE  API(ingresses')[i].gen = API(ingresses)[i].gen
    BY <1>2, <2>3 DEF IngressState
  <2>4. pc # "idle" => [obj EXCEPT !.fin = TRUE].gen = obj.gen
                       /\ (IF obj.del THEN Gone(obj) ELSE [obj EXCEPT !.fin = FALSE]).gen = obj.gen
    BY DEF TypeOK, LocalOK, IngressRec, Gone
  <2>5. ASSUME NEW j \in Ingresses, NEW n \in IngressRec, edits' = edits + 1,
               API(ingresses') = [API(ingresses) EXCEPT ![j] = n],
               n.gen = IF API(ingresses)[j].ex THEN API(ingresses)[j].gen ELSE API(ingresses)[j].gen + 1
        PROVE  API(ingresses')[i].gen \in {API(ingresses)[i].gen, API(ingresses)[i].gen + 1}
    BY <1>2, <2>5 DEF IngressState
  <2> QED
    BY <2>1, <2>2, <2>3, <2>4, <2>5, IngressWrites
<1>6. pc # "idle" => obj.gen \in Nat /\ 1 <= obj.gen
  BY DEF TypeOK, LocalOK, IngressRec, Aged
<1>7. pc' # "idle" => 1 <= obj'.gen
  BY <1>2, <1>6, RequestStays DEF Aged
<1>8. ASSUME NEW g \in GatewayKeys, NEW u \in API(gateways')[g].owners PROVE 1 <= u[2]
  BY <1>2, <1>6, <1>8, OwnersAdded DEF Aged
<1> QED
  BY <1>4, <1>5, <1>7, <1>8 DEF Aged

(* What the worker may do to the list, beside what ListChanges says of it.   *)
LEMMA StillOwnedNext ==
  ASSUME TypeOK, TypeOK', Listed, StillOwned, [Next]_vars, GatewayLag = 0
  PROVE  StillOwned'
<1>1. API(gateways) \in GatewayState /\ API(gateways') \in GatewayState
  BY Bounds, WindowStates DEF TypeOK
<1>2. CASE DOMAIN detach' = {}
  BY <1>2 DEF StillOwned
<1>3. CASE ListGateways
  <2>1. UNCHANGED gateways /\ Cache(gateways) = API(gateways)
    <3>1. Len(gateways) \in 1..1
      BY DEF TypeOK, IsWindow
    <3>2. Len(gateways) = 1
      BY <3>1
    <3> QED
      BY <1>3, <3>2 DEF ListGateways, kinds, Cache, API
  <2>2. CASE detach' = [g \in OwnedGateways |-> Cache(gateways)[g]]
    <3>1. DOMAIN detach' = OwnedGateways
      BY <2>2
    <3>2. \A g \in OwnedGateways : ~IsExternalGateway(g) /\ API(gateways)[g].owners # {}
      BY <2>1 DEF OwnedGateways
    <3> QED
      BY <2>1, <3>1, <3>2 DEF StillOwned
  <2>3. CASE detach' = << >>
    <3>1. DOMAIN detach' = {}
      BY <2>3
    <3> QED
      BY <3>1 DEF StillOwned
  <2> QED
    BY <1>3, <2>2, <2>3 DEF ListGateways
<1>4. CASE pc = "detach" /\ pc' = "detach" /\ DOMAIN detach' \subseteq DOMAIN detach
  <2> SUFFICES ASSUME NEW g \in DOMAIN detach', API(gateways')[g].ex
               PROVE  API(gateways')[g].owners # {}
    BY <1>4 DEF StillOwned
  <2>0. /\ g \in DOMAIN detach /\ g \in GatewayKeys /\ ~IsExternalGateway(g)
        /\ API(gateways)[g].ex => API(gateways)[g].owners # {}
    BY <1>4 DEF StillOwned, TypeOK, LocalOK
  <2>1. CASE API(gateways')[g] = API(gateways)[g]
    BY <2>0, <2>1
  <2>2. CASE \E h \in DOMAIN detach : Detach(h) /\ DOMAIN detach' = DOMAIN detach \ {h}
    <3> PICK h \in DOMAIN detach : Detach(h) /\ DOMAIN detach' = DOMAIN detach \ {h}
      BY <2>2
    <3> DEFINE old  == detach[h]
               left == old.owners \ {<<key, obj.gen>>}
               n    == IF IsLastOwner(left) THEN NoGateway ELSE [old EXCEPT !.owners = left]
    <3>1. n \in GatewayRec /\ h \in GatewayKeys
      BY EmptyObjects DEF TypeOK, LocalOK, GatewayRec
    <3>2. API(gateways') = [API(gateways) EXCEPT ![h] = n] \/ API(gateways') = API(gateways)
      BY <3>1, WriteGatewayType DEF Detach, TypeOK
    <3> QED
      BY <1>1, <2>0, <2>1, <3>1, <3>2 DEF GatewayState
  <2>3. ASSUME NEW h \in GatewayKeys, NEW n \in GatewayRec, Collectable(API(gateways)[h]),
               API(gateways') = [API(gateways) EXCEPT ![h] = n],
               IF LivingOwners(API(gateways)[h]) = {}
                 THEN n = NoGateway
                 ELSE n = [API(gateways)[h] EXCEPT !.owners = LivingOwners(API(gateways)[h])]
        PROVE  API(gateways')[g].owners # {}
    <3>1. CASE h # g
      BY <1>1, <2>0, <2>3, <3>1 DEF GatewayState
    <3>2. CASE h = g
      <4>1. API(gateways')[g] = n /\ API(gateways)[g] \in GatewayRec /\ ~NoGateway.ex
        BY <1>1, <2>0, <2>3, <3>2 DEF GatewayState, NoGateway
      <4>2. LivingOwners(API(gateways)[g]) # {}
        BY <2>3, <3>2, <4>1
      <4>3. n.owners = LivingOwners(API(gateways)[g])
        BY <2>3, <3>2, <4>1, <4>2 DEF GatewayRec
      <4> QED
        BY <4>1, <4>2, <4>3
    <3> QED
      BY <3>1, <3>2
  <2>4. ASSUME NEW h \in GatewayKeys, NEW n, IsExternalGateway(h),
               API(gateways') = [API(gateways) EXCEPT ![h] = n]
        PROVE  API(gateways')[g].owners # {}
    BY <1>1, <2>0, <2>4 DEF GatewayState
  <2>5. Work => \E h \in DOMAIN detach : Detach(h) /\ DOMAIN detach' = DOMAIN detach \ {h}
    <3>1. ~Return
      BY <1>4 DEF Return
    <3> QED
      BY <1>4, <3>1
      DEF Work, AddFinalizer, Convert, ConvertIn, EnsureGateway, EnsureRoute, Finish, CleanRoutes,
          ListGateways, Detach, RemoveFinalizer, Fail, Goto
  <2> QED
    BY <2>1, <2>2, <2>3, <2>4, <2>5, GatewayChanges
<1> QED
  BY <1>2, <1>3, <1>4, ListChanges DEF Listed

LEMMA VacantNext ==
  ASSUME TypeOK, TypeOK', Listed, Vacant, StillOwned, [Next]_vars, GatewayLag = 0
  PROVE  Vacant'
<1>1. API(gateways) \in GatewayState /\ ~NoGateway.ex /\ NoGateway.owners = {}
  BY Bounds, WindowStates DEF TypeOK, NoGateway
<1> SUFFICES ASSUME NEW g \in GatewayKeys, ~IsExternalGateway(g), ~API(gateways')[g].ex
             PROVE  API(gateways')[g] = NoGateway
  BY DEF Vacant, IsExternalGateway
<1>2. CASE API(gateways')[g] = API(gateways)[g]
  BY <1>2 DEF Vacant
<1>3. ASSUME NEW h \in GatewayKeys, NEW n,
             API(gateways') = [API(gateways) EXCEPT ![h] = n],
             n.ex \/ n = NoGateway \/ IsExternalGateway(h)
      PROVE  API(gateways')[g] = NoGateway
  BY <1>1, <1>2, <1>3 DEF GatewayState
<1>4. ASSUME NEW h \in DOMAIN detach, h \in GatewayKeys, API(gateways)[h] = detach[h],
             NEW n, n = [detach[h] EXCEPT !.owners = detach[h].owners \ {<<key, obj.gen>>}]
      PROVE  n.ex \/ n = NoGateway
  <2>1. detach[h] \in GatewayRec
    BY DEF TypeOK, LocalOK
  <2>2. CASE API(gateways)[h].ex
    BY <1>4, <2>1, <2>2 DEF GatewayRec
  <2>3. CASE ~API(gateways)[h].ex
    <3>1. detach[h] = NoGateway
      BY <1>4, <2>3 DEF Vacant, StillOwned
    <3>2. detach[h].owners \ {<<key, obj.gen>>} = {}
      BY <1>1, <3>1
    <3>3. n \in GatewayRec
      BY <1>4, <2>1, <3>2 DEF GatewayRec
    <3>4. /\ n.ex = NoGateway.ex /\ n.class = NoGateway.class /\ n.hosts = NoGateway.hosts
          /\ n.owners = NoGateway.owners
      BY <1>1, <1>4, <2>1, <3>1, <3>2 DEF GatewayRec
    <3> QED
      BY <3>3, <3>4, EmptyObjects DEF GatewayRec
  <2> QED
    BY <2>2, <2>3
<1>5. CASE Work
  <2>1. CASE /\ want.key \in GatewayKeys
             /\ \E n \in GatewayRec :
                  n.ex /\ API(gateways') = [API(gateways) EXCEPT ![want.key] = n]
    BY <1>3, <2>1
  <2>2. CASE \E h \in DOMAIN detach : \E n \in GatewayRec :
               /\ h \in GatewayKeys /\ API(gateways') = [API(gateways) EXCEPT ![h] = n]
               /\ \/ n = NoGateway
                  \/ /\ API(gateways)[h] = detach[h]
                     /\ n = [detach[h] EXCEPT !.owners = detach[h].owners \ {<<key, obj.gen>>}]
    BY <1>3, <1>4, <2>2
  <2> QED
    BY <1>2, <1>5, <2>1, <2>2, GatewayWrites
<1>6. ASSUME NEW h \in GatewayKeys, NEW n \in GatewayRec, Collectable(API(gateways)[h]),
             API(gateways') = [API(gateways) EXCEPT ![h] = n],
             IF LivingOwners(API(gateways)[h]) = {}
               THEN n = NoGateway
               ELSE n = [API(gateways)[h] EXCEPT !.owners = LivingOwners(API(gateways)[h])]
      PROVE  API(gateways')[g] = NoGateway
  <2>1. CASE n = NoGateway \/ IsExternalGateway(h)
    BY <1>3, <1>6, <2>1
  <2>2. CASE n = [API(gateways)[h] EXCEPT !.owners = LivingOwners(API(gateways)[h])]
             /\ ~IsExternalGateway(h)
    <3>1. API(gateways)[h].owners # {}
      BY <1>6 DEF Collectable
    <3>2. API(gateways)[h].ex
      BY <1>1, <2>2, <3>1 DEF Vacant
    <3>3. n.ex
      BY <1>1, <1>6, <2>2, <3>2 DEF GatewayState, GatewayRec
    <3> QED
      BY <1>3, <1>6, <3>3
  <2> QED
    BY <1>6, <2>1, <2>2
<1> QED
  BY <1>2, <1>3, <1>5, <1>6, GatewayChanges

-----------------------------------------------------------------------------
(* The refinement mapping. *)

(* What GatewayOwnership sees of a Gateway. *)
View(o) == [ex |-> o.ex, class |-> o.class, owners |-> o.owners]

LEMMA ViewOfManaged ==
  ASSUME NEW g \in Managed
  PROVE  /\ HeldGateways[g] = View(API(gateways)[g])
         /\ HeldGateways[g].ex = API(gateways)[g].ex
         /\ HeldGateways[g].owners = API(gateways)[g].owners
         /\ g \in GatewayKeys /\ ~IsExternalGateway(g)
BY DEF HeldGateways, Managed, View

LEMMA ViewWithOwners ==
  ASSUME NEW o, NEW n, n.ex = o.ex, n.class = o.class
  PROVE  [View(o) EXCEPT !.owners = n.owners] = View(n)
<1> DEFINE R == [ex : {o.ex}, class : {o.class}, owners : {o.owners, n.owners}]
<1>1. View(o) \in R /\ View(n) \in R
  BY DEF View
<1>2. [View(o) EXCEPT !.owners = n.owners] \in R
  BY <1>1
<1>3. View(n).owners = n.owners /\ [View(o) EXCEPT !.owners = n.owners].owners = n.owners
  BY <1>1 DEF View
<1> QED
  BY <1>1, <1>2, <1>3

(* A write of a managed Gateway is one of what is held; a write of another   *)
(* Gateway does not show.                                                    *)
LEMMA HeldWrite ==
  ASSUME API(gateways) \in GatewayState, NEW g \in GatewayKeys, NEW n,
         API(gateways') = [API(gateways) EXCEPT ![g] = n]
  PROVE  IF g \in Managed
           THEN HeldGateways' = [HeldGateways EXCEPT ![g] = View(n)]
           ELSE UNCHANGED HeldGateways
<1>1. \A h \in GatewayKeys : API(gateways')[h] = IF h = g THEN n ELSE API(gateways)[h]
  BY DEF GatewayState
<1>2. HeldGateways' = [h \in Managed |-> View(API(gateways')[h])]
  BY DEF HeldGateways, View
<1>3. HeldGateways = [h \in Managed |-> View(API(gateways)[h])]
  BY DEF HeldGateways, View
<1>4. Managed \subseteq GatewayKeys
  BY DEF Managed
<1> QED
  BY <1>1, <1>2, <1>3, <1>4

LEMMA SameHeld ==
  ASSUME API(gateways') = API(gateways)
  PROVE  UNCHANGED HeldGateways
BY DEF HeldGateways

LEMMA SameLiving ==
  ASSUME API(ingresses') = API(ingresses)
  PROVE  UNCHANGED LivingIngresses
BY DEF LivingIngresses

(* The owners of a Gateway are owners as GatewayOwnership knows them. *)
LEMMA OwnersInRange ==
  ASSUME TypeOK, Incarnations, Aged
  PROVE  /\ \A g \in GatewayKeys : API(gateways)[g].owners \subseteq Ownership!Owners
         /\ pc # "idle" => <<key, obj.gen>> \in Ownership!Owners
         /\ \A i \in Ingresses : API(ingresses)[i].gen \in 1..(MaxEdits + 1)
<1>1. /\ Cache(ingresses) \in IngressState /\ API(ingresses) \in IngressState
      /\ API(gateways) \in GatewayState
      /\ Len(ingresses) \in Nat /\ Len(ingresses) >= 1
  BY Bounds, WindowStates DEF TypeOK, IsWindow
<1>2. \A i \in Ingresses : Cache(ingresses)[i].gen <= API(ingresses)[i].gen
  BY <1>1 DEF Incarnations, Growing, Cache, API
<1>3. edits \in Nat /\ MaxEdits \in Nat /\ edits <= MaxEdits
  BY Bounds DEF TypeOK
<1>4. ASSUME NEW i \in Ingresses, NEW n \in Nat, 1 <= n, n <= Cache(ingresses)[i].gen
      PROVE  n \in 1..(MaxEdits + 1)
  <2>1. Cache(ingresses)[i].gen \in Nat /\ API(ingresses)[i].gen \in Nat
        /\ API(ingresses)[i].gen <= edits + 1
    BY <1>1, GensAreNat DEF Aged
  <2> QED
    BY <1>2, <1>3, <1>4, <2>1
<1>5. ASSUME NEW g \in GatewayKeys, NEW u \in API(gateways)[g].owners
      PROVE  u \in Ownership!Owners
  <2>1. u \in Ingresses \X Nat
    BY <1>1, <1>5 DEF GatewayState, GatewayRec, Uids
  <2> QED
    BY <1>4, <1>5, <2>1 DEF Incarnations, Aged, Ownership!Owners
<1>6. pc # "idle" => <<key, obj.gen>> \in Ownership!Owners
  BY <1>4 DEF TypeOK, LocalOK, IngressRec, Incarnations, Aged, Ownership!Owners
<1>7. ASSUME NEW i \in Ingresses PROVE API(ingresses)[i].gen \in 1..(MaxEdits + 1)
  <2>1. /\ Cache(ingresses)[i].gen \in Nat /\ API(ingresses)[i].gen \in Nat
        /\ API(ingresses)[i].gen <= edits + 1 /\ 1 <= Cache(ingresses)[i].gen
    BY <1>1, GensAreNat DEF Aged
  <2> QED
    BY <1>2, <1>3, <2>1
<1> QED
  BY <1>5, <1>6, <1>7

-----------------------------------------------------------------------------
(* Each write is a step of GatewayOwnership, or does not show. *)

(* The finalizer and users: an Ingress is born, dies, or stays what it was.  *)
LEMMA IngressStep ==
  ASSUME TypeOK, TypeOK', Incarnations', Incarnations, Aged, Aged', [Next]_vars,
         API(gateways') = API(gateways)
  PROVE  [Ownership!Next]_(Ownership!vars)
<1>1. API(ingresses) \in IngressState /\ UNCHANGED HeldGateways
  BY Bounds, WindowStates, SameHeld DEF TypeOK
<1>2. /\ \A i \in Ingresses : API(ingresses)[i].gen \in 1..(MaxEdits + 1)
      /\ \A i \in Ingresses : API(ingresses')[i].gen \in 1..(MaxEdits + 1)
  <2>1. \A i \in Ingresses : API(ingresses)[i].gen \in 1..(MaxEdits + 1)
    BY OwnersInRange
  <2>2. API(ingresses') \in IngressState /\ Cache(ingresses') \in IngressState
        /\ edits' \in Nat /\ edits' <= MaxEdits /\ MaxEdits \in Nat
    BY Bounds, WindowStates DEF TypeOK
  <2>3. ASSUME NEW i \in Ingresses PROVE API(ingresses')[i].gen \in 1..(MaxEdits + 1)
    <3>1. /\ API(ingresses')[i].gen \in Nat /\ API(ingresses')[i].gen <= edits' + 1
          /\ Cache(ingresses')[i].gen \in Nat /\ 1 <= Cache(ingresses')[i].gen
      BY <2>2, GensAreNat DEF Aged
    <3>2. Cache(ingresses')[i].gen <= API(ingresses')[i].gen
      <4>1. Len(ingresses') \in Nat /\ Len(ingresses') >= 1
        BY DEF TypeOK, IsWindow
      <4> QED
        BY <4>1 DEF Incarnations, Growing, Cache, API
    <3> QED
      BY <2>2, <3>1, <3>2
  <2> QED
    BY <2>1, <2>3
<1>3. ASSUME NEW i \in Ingresses, NEW n, API(ingresses') = [API(ingresses) EXCEPT ![i] = n],
             n.ex, API(ingresses)[i].ex, n.gen = API(ingresses)[i].gen
      PROVE  UNCHANGED LivingIngresses
  BY <1>1, <1>3 DEF LivingIngresses, IngressState
<1>4. ASSUME NEW i \in Ingresses, NEW n, API(ingresses') = [API(ingresses) EXCEPT ![i] = n],
             n.ex, ~API(ingresses)[i].ex
      PROVE  Ownership!Born(i, n.gen) /\ n.gen \in 1..(MaxEdits + 1)
  <2>1. n.gen \in 1..(MaxEdits + 1)
    BY <1>1, <1>2, <1>4 DEF IngressState
  <2>2. LivingIngresses[i] = 0
    BY <1>4 DEF LivingIngresses
  <2>3. LivingIngresses' = [LivingIngresses EXCEPT ![i] = n.gen]
    BY <1>1, <1>4 DEF LivingIngresses, IngressState
  <2> QED
    BY <1>1, <2>1, <2>2, <2>3 DEF Ownership!Born
<1>5. ASSUME NEW i \in Ingresses, NEW n, API(ingresses') = [API(ingresses) EXCEPT ![i] = n],
             ~n.ex, API(ingresses)[i].ex
      PROVE  Ownership!Dies(i)
  <2>1. LivingIngresses[i] # 0
    BY <1>2, <1>5 DEF LivingIngresses
  <2>2. LivingIngresses' = [LivingIngresses EXCEPT ![i] = 0]
    BY <1>1, <1>5 DEF LivingIngresses, IngressState
  <2> QED
    BY <1>1, <2>1, <2>2 DEF Ownership!Dies
<1>6. CASE API(ingresses') = API(ingresses)
  BY <1>1, <1>6, SameLiving DEF Ownership!vars
<1>7. CASE \E i \in Ingresses : \E n :
             /\ API(ingresses') = [API(ingresses) EXCEPT ![i] = n]
             /\ n.ex /\ API(ingresses)[i].ex => n.gen = API(ingresses)[i].gen
             /\ n.ex \/ API(ingresses)[i].ex
  BY <1>1, <1>3, <1>4, <1>5, <1>7 DEF Ownership!Next, Ownership!vars
<1>8. ASSUME pc # "idle", API(ingresses)[key] = obj, NEW n,
             n = [obj EXCEPT !.fin = TRUE]
               \/ n = (IF obj.del THEN Gone(obj) ELSE [obj EXCEPT !.fin = FALSE])
      PROVE  /\ key \in Ingresses /\ API(ingresses)[key].ex
             /\ n.gen = API(ingresses)[key].gen
  BY <1>8 DEF TypeOK, LocalOK, IngressRec, Gone
<1>9. CASE /\ pc # "idle" /\ API(ingresses)[key] = obj
           /\ \E n : /\ API(ingresses') = [API(ingresses) EXCEPT ![key] = n]
                     /\ \/ n = [obj EXCEPT !.fin = TRUE]
                        \/ n = (IF obj.del THEN Gone(obj) ELSE [obj EXCEPT !.fin = FALSE])
  BY <1>7, <1>8, <1>9
<1> QED
  BY <1>6, <1>7, <1>9, IngressWrites

(* createOrUpdateGateway: the first to come makes the Gateway, the others    *)
(* join it, if they may.                                                     *)
LEMMA EnsureStep ==
  ASSUME TypeOK, Incarnations, Aged, Vacant, pc = "ensureGateway",
         API(ingresses') = API(ingresses), want.key \in GatewayKeys,
         ~Conflict(API(gateways)[want.key], want.class),
         NEW n \in GatewayRec, n.ex, n.class = want.class,
         n.owners = SetOwner(API(gateways)[want.key].owners, <<key, obj.gen>>, want.key.ns),
         API(gateways') = [API(gateways) EXCEPT ![want.key] = n]
  PROVE  [Ownership!Next]_(Ownership!vars)
<1> DEFINE g == want.key
           o == API(gateways)[g]
           u == <<key, obj.gen>>
<1>1. /\ API(gateways) \in GatewayState /\ UNCHANGED LivingIngresses
      /\ u \in Ownership!Owners /\ o.owners \subseteq Ownership!Owners
      /\ u[1] = key /\ u[2] = obj.gen
  BY Bounds, WindowStates, SameLiving, OwnersInRange DEF TypeOK
<1>2. CASE g \notin Managed
  BY <1>1, <1>2, HeldWrite DEF Ownership!vars
<1>3. CASE g \in Managed /\ ~o.ex
  <2>1. o.owners = {}
    <3>1. o = NoGateway
      BY <1>3 DEF Vacant, Managed
    <3>2. NoGateway.owners = {}
      BY DEF NoGateway
    <3> QED
      BY <3>1, <3>2
  <2>2. n.owners \in {{}} \cup {{v} : v \in Ownership!Owners}
    BY <1>1, <2>1 DEF SetOwner
  <2>3. ~HeldGateways[g].ex
    BY <1>3, ViewOfManaged
  <2>4. HeldGateways' = [HeldGateways EXCEPT ![g] = [ex |-> TRUE, class |-> n.class, owners |-> n.owners]]
    <3>1. n.ex = TRUE
      BY DEF GatewayRec
    <3> QED
      BY <1>1, <1>3, <3>1, HeldWrite DEF View
  <2>5. Ownership!Make(g, n.class, n.owners)
    BY <1>1, <2>3, <2>4 DEF Ownership!Make
  <2>6. n.class \in Classes
    BY DEF GatewayRec
  <2> QED
    BY <1>3, <2>2, <2>5, <2>6 DEF Ownership!Next
<1>4. CASE g \in Managed /\ o.ex
  <2>1. n.class = o.class /\ n.ex = o.ex
    BY <1>1, <1>4 DEF Conflict, GatewayRec, GatewayState
  <2>2. CASE n.owners = o.owners
    <3>1. View(n) = HeldGateways[g]
      BY <1>4, <2>1, <2>2, ViewOfManaged DEF View
    <3>2. HeldGateways' = [HeldGateways EXCEPT ![g] = View(n)]
      BY <1>1, <1>4, HeldWrite
    <3>3. HeldGateways' = HeldGateways
      BY <3>1, <3>2 DEF HeldGateways
    <3> QED
      BY <1>1, <3>3 DEF Ownership!vars
  <2>3. CASE n.owners = {v \in o.owners : v[1] # key} \cup {u}
    <3>1. Ownership!Superseded(o.owners, u) = {v \in o.owners : v[1] = key}
      BY <1>1, <1>4 DEF Incarnations, Ownership!Superseded
    <3>2. n.owners = (o.owners \ Ownership!Superseded(o.owners, u)) \cup {u}
      BY <2>3, <3>1
    <3>3. HeldGateways[g] = View(o) /\ HeldGateways[g].ex /\ HeldGateways[g].owners = o.owners
      BY <1>4, ViewOfManaged
    <3>4. [View(o) EXCEPT !.owners = n.owners] = View(n)
      BY <2>1, ViewWithOwners
    <3>5. HeldGateways' = [HeldGateways EXCEPT ![g] = View(n)]
      BY <1>1, <1>4, HeldWrite
    <3>6. Ownership!Join(g, u)
      BY <1>1, <3>2, <3>3, <3>4, <3>5 DEF Ownership!Join
    <3> QED
      BY <1>1, <1>4, <3>6 DEF Ownership!Next
  <2> QED
    BY <2>2, <2>3 DEF SetOwner
<1> QED
  BY <1>2, <1>3, <1>4

LEMMA ViewWithout ==
  ASSUME NEW o \in GatewayRec, NEW S, NEW n,
         IF o.owners \subseteq S THEN n = NoGateway ELSE n = [o EXCEPT !.owners = o.owners \ S]
  PROVE  Ownership!Without(View(o), S) = View(n)
<1>1. View(o).owners = o.owners
  BY DEF View
<1>2. CASE o.owners \subseteq S
  <2>1. Ownership!Without(View(o), S) = Ownership!Absent
    BY <1>1, <1>2 DEF Ownership!Without
  <2>2. NoGateway.ex = FALSE /\ NoGateway.class = "" /\ NoGateway.owners = {}
    BY DEF NoGateway
  <2>3. View(NoGateway) = Ownership!Absent
    BY <2>2 DEF Ownership!Absent, View
  <2> QED
    BY <1>2, <2>1, <2>3
<1>3. CASE ~(o.owners \subseteq S)
  <2>1. n.ex = o.ex /\ n.class = o.class /\ n.owners = o.owners \ S
    BY <1>3 DEF GatewayRec
  <2>2. Ownership!Without(View(o), S) = [View(o) EXCEPT !.owners = n.owners]
    BY <1>1, <1>3, <2>1 DEF Ownership!Without
  <2> QED
    BY <2>1, <2>2, ViewWithOwners
<1> QED
  BY <1>2, <1>3

(* removeOwnerReference: the Ingress leaves the Gateway as it is, not as it  *)
(* was listed; if somebody else has removed it, there is nothing to leave.   *)
LEMMA DetachStep ==
  ASSUME TypeOK, Incarnations, Aged, Listed, Vacant, StillOwned, pc = "detach",
         API(ingresses') = API(ingresses),
         NEW g \in DOMAIN detach, g \in GatewayKeys, NEW n \in GatewayRec,
         API(gateways') = [API(gateways) EXCEPT ![g] = n],
         \/ n = NoGateway /\ detach[g].owners \subseteq {<<key, obj.gen>>}
         \/ /\ API(gateways)[g] = detach[g]
            /\ detach[g].owners \ {<<key, obj.gen>>} # {}
            /\ n = [detach[g] EXCEPT !.owners = detach[g].owners \ {<<key, obj.gen>>}]
  PROVE  [Ownership!Next]_(Ownership!vars)
<1> DEFINE o == API(gateways)[g]
           u == <<key, obj.gen>>
<1>1. /\ API(gateways) \in GatewayState /\ o \in GatewayRec /\ UNCHANGED LivingIngresses
      /\ u \in Ownership!Owners
  BY Bounds, WindowStates, SameLiving, OwnersInRange DEF TypeOK, GatewayState
<1>2. g \in Managed
  BY DEF StillOwned, Managed
<1>3. HeldGateways' = [HeldGateways EXCEPT ![g] = View(n)]
  BY <1>1, <1>2, HeldWrite
<1>4. HeldGateways[g] = View(o) /\ HeldGateways[g].owners = o.owners
  BY <1>2, ViewOfManaged
<1>5. CASE n = o
  BY <1>1, <1>3, <1>4, <1>5 DEF HeldGateways, Ownership!vars
<1>6. ASSUME u \in o.owners,
             IF o.owners \subseteq {u} THEN n = NoGateway ELSE n = [o EXCEPT !.owners = o.owners \ {u}]
      PROVE  Ownership!Next
  <2>1. Ownership!Without(View(o), {u}) = View(n)
    BY <1>1, <1>6, ViewWithout
  <2>2. Ownership!Leave(g, u)
    BY <1>1, <1>3, <1>4, <1>6, <2>1 DEF Ownership!Leave
  <2> QED
    BY <1>1, <1>2, <2>2 DEF Ownership!Next
<1>7. CASE n = NoGateway /\ detach[g].owners \subseteq {u}
  <2>1. CASE ~o.ex
    BY <1>5, <1>7, <2>1 DEF Vacant, StillOwned
  <2>2. CASE o.ex
    <3>1. o.owners # {} /\ o.owners \subseteq {u}
      BY <1>7, <2>2 DEF StillOwned, Listed
    <3> QED
      BY <1>6, <1>7, <3>1
  <2> QED
    BY <2>1, <2>2
<1>8. CASE /\ o = detach[g] /\ detach[g].owners \ {u} # {}
           /\ n = [detach[g] EXCEPT !.owners = detach[g].owners \ {u}]
  <2>1. CASE u \in o.owners
    BY <1>6, <1>8, <2>1
  <2>2. CASE u \notin o.owners
    <3>1. o.owners \ {u} = o.owners
      BY <2>2
    <3>2. n = o
      BY <1>1, <1>8, <3>1 DEF GatewayRec
    <3> QED
      BY <1>5, <3>2
  <2> QED
    BY <2>1, <2>2
<1> QED
  BY <1>5, <1>6, <1>7, <1>8

(* The garbage collector. *)
LEMMA CollectStep ==
  ASSUME TypeOK, Incarnations, Aged,
         API(ingresses') = API(ingresses),
         NEW g \in GatewayKeys, NEW n \in GatewayRec, Collectable(API(gateways)[g]),
         API(gateways') = [API(gateways) EXCEPT ![g] = n],
         IF LivingOwners(API(gateways)[g]) = {}
           THEN n = NoGateway
           ELSE n = [API(gateways)[g] EXCEPT !.owners = LivingOwners(API(gateways)[g])]
  PROVE  [Ownership!Next]_(Ownership!vars)
<1> DEFINE o    == API(gateways)[g]
           dead == {u \in o.owners : ~Alive(u)}
<1>1. /\ API(gateways) \in GatewayState /\ o \in GatewayRec /\ UNCHANGED LivingIngresses
      /\ o.owners \subseteq Ownership!Owners
  BY Bounds, WindowStates, SameLiving, OwnersInRange DEF TypeOK, GatewayState
<1>2. CASE g \notin Managed
  BY <1>1, <1>2, HeldWrite DEF Ownership!vars
<1>3. CASE g \in Managed
  <2>1. HeldGateways' = [HeldGateways EXCEPT ![g] = View(n)]
    BY <1>1, <1>3, HeldWrite
  <2>2. HeldGateways[g] = View(o) /\ HeldGateways[g].owners = o.owners
    BY <1>3, ViewOfManaged
  <2>3. ASSUME NEW u \in o.owners PROVE Alive(u) <=> Ownership!Lives(u)
    <3>1. u[1] \in Ingresses /\ u[2] \in 1..(MaxEdits + 1) /\ MaxEdits \in Nat
      BY <1>1, Bounds DEF Ownership!Owners
    <3> QED
      BY <3>1 DEF Alive, Ownership!Lives, LivingIngresses
  <2>4. dead = {u \in o.owners : ~Ownership!Lives(u)}
    BY <2>3
  <2>5. Ownership!Without(View(o), dead) = View(n)
    <3>1. LivingOwners(o) = o.owners \ dead /\ (LivingOwners(o) = {} <=> o.owners \subseteq dead)
      BY DEF LivingOwners
    <3>2. IF o.owners \subseteq dead THEN n = NoGateway ELSE n = [o EXCEPT !.owners = o.owners \ dead]
      BY <3>1
    <3> QED
      BY <1>1, <3>2, ViewWithout
  <2>6. \E u \in HeldGateways[g].owners : ~Ownership!Lives(u)
    BY <2>2, <2>3 DEF Collectable
  <2>7. Ownership!Reap(g)
    BY <1>1, <2>1, <2>2, <2>4, <2>5, <2>6 DEF Ownership!Reap
  <2> QED
    BY <1>3, <2>7 DEF Ownership!Next
<1> QED
  BY <1>2, <1>3

-----------------------------------------------------------------------------
LEMMA RefinedInit == Init => Ownership!Init
<1> SUFFICES ASSUME Init PROVE Ownership!Init
  OBVIOUS
<1>1. TypeOK /\ Vacant
  BY InitType, AgedInit
<1>2. API(gateways) \in GatewayState
  BY <1>1, Bounds, WindowStates DEF TypeOK
<1>3. PICK present, spec :
        ingresses = << [i \in Ingresses |-> [ex |-> i \in present, gen |-> 1, spec |-> spec[i],
                                            fin |-> i \in present \cap Adopted,
                                            del |-> FALSE]] >>
  BY DEF Init
<1>4. \A i \in Ingresses : API(ingresses)[i].gen = 1
  BY <1>3 DEF API
<1>5. MaxEdits \in Nat
  BY Bounds
<1>6. LivingIngresses \in [Ingresses -> 1..(MaxEdits + 1) \cup {0}]
  BY <1>4, <1>5 DEF LivingIngresses
<1>7. ASSUME NEW g \in Managed
      PROVE  /\ HeldGateways[g] \in [ex : BOOLEAN, class : Classes, owners : SUBSET Ownership!Owners]
             /\ ~HeldGateways[g].ex => HeldGateways[g] = Ownership!Absent
  <2>1. API(gateways)[g].owners \subseteq Ingresses \X {1}
    BY ViewOfManaged, OwnersAtStart
  <2>2. API(gateways)[g].owners \subseteq Ownership!Owners
    BY <1>5, <2>1 DEF Ownership!Owners
  <2>3. /\ HeldGateways[g] = View(API(gateways)[g]) /\ g \in GatewayKeys /\ ~IsExternalGateway(g)
        /\ HeldGateways[g].ex = API(gateways)[g].ex
    BY ViewOfManaged
  <2>4. HeldGateways[g] \in [ex : BOOLEAN, class : Classes, owners : SUBSET Ownership!Owners]
    BY <1>2, <2>2, <2>3 DEF View, GatewayState, GatewayRec
  <2>5. ASSUME ~HeldGateways[g].ex PROVE HeldGateways[g] = Ownership!Absent
    <3>1. API(gateways)[g] = NoGateway
      BY <1>1, <2>3, <2>5 DEF Vacant
    <3>2. NoGateway.ex = FALSE /\ NoGateway.class = "" /\ NoGateway.owners = {}
      BY DEF NoGateway
    <3> QED
      BY <2>3, <3>1, <3>2 DEF View, Ownership!Absent
  <2> QED
    BY <2>4, <2>5
<1>8. HeldGateways \in [Managed -> [ex : BOOLEAN, class : Classes, owners : SUBSET Ownership!Owners]]
  BY <1>7 DEF HeldGateways
<1> QED
  BY <1>6, <1>7, <1>8 DEF Ownership!Init

LEMMA RefinedNext ==
  ASSUME TypeOK, TypeOK', Incarnations, Incarnations', Aged, Aged', Listed, Vacant, StillOwned,
         [Next]_vars
  PROVE  [Ownership!Next]_(Ownership!vars)
<1>1. CASE API(gateways') = API(gateways)
  BY <1>1, IngressStep
<1>2. CASE Work /\ API(ingresses') = API(ingresses)
  BY <1>1, <1>2, GatewayWrites, EnsureStep, DetachStep
<1>3. ASSUME NEW h \in GatewayKeys, NEW n, IsExternalGateway(h),
             API(gateways') = [API(gateways) EXCEPT ![h] = n], UNCHANGED ingresses
      PROVE  [Ownership!Next]_(Ownership!vars)
  <2>1. API(gateways) \in GatewayState /\ h \notin Managed
    BY <1>3, Bounds, WindowStates DEF TypeOK, Managed
  <2> QED
    BY <1>3, <2>1, HeldWrite, SameLiving DEF Ownership!vars
<1> QED
  BY <1>1, <1>2, <1>3, GatewayChanges, OneKindAtATime, CollectStep

(* Every step of the reconcile loop, of the users and of the garbage         *)
(* collector is a step of shared ownership or leaves it alone, whatever the  *)
(* age of the Ingress and route caches: nobody is pushed out of a Gateway    *)
(* that others still own (reconciler.go 495-567).                            *)
THEOREM SharingIsImplemented ==
  ASSUME GatewayLag = 0
  PROVE  Spec => SharedOwnership
<1> DEFINE Inv == Incarnations /\ Aged /\ Listed /\ Vacant /\ StillOwned
<1>1. Init => Inv
  BY IncarnationsInit, AgedInit, ListedInit
<1>2. TypeOK /\ TypeOK' /\ Inv /\ [Next]_vars => Inv'
  BY IncarnationsNext, AgedNext, ListedNext, VacantNext, StillOwnedNext
<1>3. TypeOK /\ TypeOK' /\ Inv /\ Inv' /\ [Next]_vars => [Ownership!Next]_(Ownership!vars)
  BY RefinedNext
<1> HIDE DEF Inv
<1> QED
  BY <1>1, <1>2, <1>3, RefinedInit, TypeCorrect, PTL DEF Spec, SharedOwnership, Ownership!Spec
=============================================================================

---------------------------- MODULE OwnershipProofs ----------------------------
(***************************************************************************)
(* Ingresses that share a Gateway never clobber each other's owner         *)
(* reference, whatever the age of the caches.  A reference is replaced by  *)
(* one of the same name (controllerutil.SetOwnerReference); the argument   *)
(* is that the one that replaces is never of an older incarnation.  An     *)
(* Ingress that leaves leaves completely: what the one worker has cleaned  *)
(* up while it is at it, nobody brings back.                               *)
(***************************************************************************)
EXTENDS ReconcilerProofs

(* Later states of a window hold later incarnations. *)
Growing(w) ==
  \A k, m \in 1..Len(w) : k <= m => \A i \in Ingresses : w[k][i].gen <= w[m][i].gen

(* No owner reference is of an incarnation that the cache, or the request    *)
(* about its key, has not seen.                                              *)
Incarnations ==
  /\ Growing(ingresses)
  /\ pc # "idle" => obj.gen <= Cache(ingresses)[key].gen
  /\ \A g \in GatewayKeys : \A u \in API(gateways)[g].owners :
       /\ u[2] <= Cache(ingresses)[u[1]].gen
       /\ pc # "idle" /\ key = u[1] => u[2] <= obj.gen

-----------------------------------------------------------------------------
(* Windows of Ingresses. *)

(* How a step may change the window of the Ingresses. *)
Appended(s) ==
  /\ s \in IngressState
  /\ \A i \in Ingresses : API(ingresses)[i].gen <= s[i].gen
  /\ ingresses' = Push(ingresses, s, IngressLag)

LEMMA GensAreNat ==
  ASSUME NEW s \in IngressState, NEW i \in Ingresses
  PROVE  s[i].gen \in Nat
BY DEF IngressState, IngressRec

LEMMA PushGrows ==
  ASSUME IsWindow(ingresses, IngressState, IngressLag), Growing(ingresses),
         NEW s, Appended(s)
  PROVE  /\ Growing(ingresses')
         /\ \A i \in Ingresses : Cache(ingresses)[i].gen <= Cache(ingresses')[i].gen
<1> DEFINE w == ingresses
           v == IF Len(w) > IngressLag THEN Tail(w) ELSE w
           d == IF Len(w) > IngressLag THEN 1 ELSE 0
<1>1. w \in Seq(IngressState) /\ Len(w) \in Nat /\ Len(w) >= 1
  BY DEF IsWindow
<1>2. /\ v \in Seq(IngressState) /\ Len(v) = Len(w) - d /\ d \in {0, 1}
      /\ \A k \in 1..Len(v) : v[k] = w[k + d]
  BY <1>1
<1>3. w' = Append(v, s)
  BY DEF Appended, Push
<1>4. /\ Len(w') = Len(v) + 1 /\ w'[Len(v) + 1] = s
      /\ \A k \in 1..Len(v) : w'[k] = v[k]
  BY <1>2, <1>3 DEF Appended
<1>5. \A k \in 1..Len(w) : w[k] \in IngressState
  BY <1>1
<1> HIDE DEF v, d
<1>6. ASSUME NEW k \in 1..Len(w), NEW i \in Ingresses PROVE w[k][i].gen <= s[i].gen
  <2>1. w[k][i].gen <= w[Len(w)][i].gen
    BY <1>1, <1>6 DEF Growing
  <2>2. w[Len(w)][i].gen <= s[i].gen
    BY DEF Appended, API
  <2>3. w[k][i].gen \in Nat /\ w[Len(w)][i].gen \in Nat /\ s[i].gen \in Nat
    BY <1>1, <1>5, GensAreNat DEF Appended
  <2> QED
    BY <2>1, <2>2, <2>3
<1>7. ASSUME NEW k \in 1..Len(w'), NEW m \in 1..Len(w'), k <= m, NEW i \in Ingresses
      PROVE  w'[k][i].gen <= w'[m][i].gen
  <2>1. CASE m \in 1..Len(v)
    <3>1. k \in 1..Len(v) /\ k + d \in 1..Len(w) /\ m + d \in 1..Len(w) /\ k + d <= m + d
      BY <1>1, <1>2, <1>7, <2>1
    <3>2. w'[k] = w[k + d] /\ w'[m] = w[m + d]
      BY <1>2, <1>4, <2>1, <3>1
    <3> QED
      BY <3>1, <3>2 DEF Growing
  <2>2. CASE m = Len(v) + 1 /\ k \in 1..Len(v)
    <3>1. k + d \in 1..Len(w) /\ w'[k] = w[k + d] /\ w'[m] = s
      BY <1>1, <1>2, <1>4, <2>2
    <3> QED
      BY <1>6, <3>1
  <2>3. CASE m = Len(v) + 1 /\ k = m
    <3>1. s[i].gen \in Nat
      BY GensAreNat DEF Appended
    <3> QED
      BY <1>4, <2>3, <3>1
  <2>4. Len(v) \in Nat /\ k \in 1..(Len(v) + 1) /\ m \in 1..(Len(v) + 1)
    BY <1>1, <1>2, <1>4, <1>7
  <2> QED
    BY <1>7, <2>1, <2>2, <2>3, <2>4
<1>8. ASSUME NEW i \in Ingresses PROVE w[1][i].gen <= w'[1][i].gen
  <2>1. CASE Len(v) = 0
    BY <1>1, <1>4, <1>6, <2>1
  <2>2. CASE Len(v) \in Nat \ {0}
    <3>1. 1 + d \in 1..Len(w) /\ w'[1] = w[1 + d]
      BY <1>1, <1>2, <1>4, <2>2
    <3> QED
      BY <1>1, <1>2, <3>1 DEF Growing
  <2>3. Len(v) \in Nat
    BY <1>1, <1>2
  <2> QED
    BY <2>1, <2>2, <2>3
<1> QED
  BY <1>7, <1>8 DEF Growing, Cache

LEMMA TailGrows ==
  ASSUME IsWindow(ingresses, IngressState, IngressLag), Growing(ingresses),
         Len(ingresses) > 1, ingresses' = Tail(ingresses)
  PROVE  /\ Growing(ingresses')
         /\ \A i \in Ingresses : Cache(ingresses)[i].gen <= Cache(ingresses')[i].gen
<1>1. ingresses \in Seq(IngressState) /\ Len(ingresses) \in Nat
  BY DEF IsWindow
<1>2. /\ Len(ingresses') = Len(ingresses) - 1
      /\ \A k \in 1..Len(ingresses') : ingresses'[k] = ingresses[k + 1]
  BY <1>1
<1>3. Growing(ingresses')
  <2> SUFFICES ASSUME NEW k \in 1..Len(ingresses'), NEW m \in 1..Len(ingresses'), k <= m,
                      NEW i \in Ingresses
               PROVE  ingresses'[k][i].gen <= ingresses'[m][i].gen
    BY DEF Growing
  <2>1. k + 1 \in 1..Len(ingresses) /\ m + 1 \in 1..Len(ingresses) /\ k + 1 <= m + 1
    BY <1>1, <1>2
  <2> QED
    BY <1>2, <2>1 DEF Growing
<1>4. 1 \in 1..Len(ingresses) /\ 2 \in 1..Len(ingresses) /\ 1 <= 2 /\ ingresses'[1] = ingresses[2]
  BY <1>1, <1>2
<1>5. \A i \in Ingresses : ingresses[1][i].gen <= ingresses[2][i].gen
  BY <1>4 DEF Growing
<1>6. \A i \in Ingresses : Cache(ingresses)[i].gen <= Cache(ingresses')[i].gen
  BY <1>4, <1>5 DEF Cache
<1> QED
  BY <1>3, <1>6

LEMMA FreshGrows ==
  ASSUME IsWindow(ingresses, IngressState, IngressLag), Growing(ingresses),
         ingresses' = <<API(ingresses)>>
  PROVE  /\ Growing(ingresses')
         /\ \A i \in Ingresses : Cache(ingresses)[i].gen <= Cache(ingresses')[i].gen
<1>1. /\ Len(ingresses) \in Nat /\ Len(ingresses) >= 1 /\ API(ingresses) \in IngressState
  BY Bounds, WindowStates DEF IsWindow
<1>2. Len(ingresses') = 1 /\ ingresses'[1] = API(ingresses)
  OBVIOUS
<1>3. ASSUME NEW i \in Ingresses PROVE ingresses'[1][i].gen <= ingresses'[1][i].gen
  BY <1>1, <1>2, GensAreNat
<1>4. Growing(ingresses')
  BY <1>2, <1>3 DEF Growing
<1>5. 1 \in 1..Len(ingresses) /\ Len(ingresses) \in 1..Len(ingresses) /\ 1 <= Len(ingresses)
  BY <1>1
<1>6. \A i \in Ingresses : ingresses[1][i].gen <= ingresses[Len(ingresses)][i].gen
  BY <1>5 DEF Growing
<1>7. \A i \in Ingresses : Cache(ingresses)[i].gen <= Cache(ingresses')[i].gen
  BY <1>2, <1>6 DEF Cache, API
<1> QED
  BY <1>4, <1>7

-----------------------------------------------------------------------------
(* Steps. *)

(* The Ingresses' window only grows, and the cache only gets newer. *)
LEMMA IngressesGrow ==
  ASSUME TypeOK, Growing(ingresses), [Next]_vars
  PROVE  /\ Growing(ingresses')
         /\ \A i \in Ingresses : Cache(ingresses)[i].gen <= Cache(ingresses')[i].gen
<1> DEFINE Goal == /\ Growing(ingresses')
                   /\ \A i \in Ingresses : Cache(ingresses)[i].gen <= Cache(ingresses')[i].gen
<1> SUFFICES Goal
  OBVIOUS
<1>1. /\ IsWindow(ingresses, IngressState, IngressLag)
      /\ API(ingresses) \in IngressState /\ Cache(ingresses) \in IngressState
  BY Bounds, WindowStates DEF TypeOK
<1>2. ASSUME UNCHANGED ingresses PROVE Goal
  BY <1>1, <1>2, GensAreNat DEF Growing, Cache
<1>3. ASSUME NEW i \in Ingresses, NEW o \in IngressRec, WellFormed(i, o),
             API(ingresses)[i].gen <= o.gen, WriteIngress(i, o)
      PROVE  Goal
  <2> DEFINE s == [API(ingresses) EXCEPT ![i] = o]
  <2>1. s \in IngressState
    BY <1>1, <1>3 DEF IngressState
  <2>2. \A j \in Ingresses : API(ingresses)[j].gen <= s[j].gen
    BY <1>1, <1>3, GensAreNat DEF IngressState
  <2>3. Appended(s)
    BY <1>3, <2>1, <2>2 DEF Appended, WriteIngress
  <2> QED
    BY <1>1, <2>3, PushGrows
<1>4. ASSUME AddFinalizer PROVE Goal
  <2>1. /\ key \in Ingresses /\ obj \in IngressRec /\ WellFormed(key, obj) /\ obj.ex
        /\ ~Leaving(obj)
    BY <1>4 DEF AddFinalizer, TypeOK, LocalOK, PhaseOK, ConvertSteps
  <2> DEFINE n == [obj EXCEPT !.fin = TRUE]
  <2>2. n \in IngressRec /\ WellFormed(key, n) /\ n.gen = obj.gen /\ obj.gen \in Nat
    BY <2>1 DEF IngressRec, WellFormed, Leaving
  <2> HIDE DEF n
  <2>3. CASE IngressCurrent /\ WriteIngress(key, n)
    <3>1. API(ingresses)[key].gen <= n.gen
      BY <2>2, <2>3 DEF IngressCurrent
    <3> QED
      BY <1>3, <2>1, <2>2, <2>3, <3>1
  <2> QED
    BY <1>2, <1>4, <2>3 DEF AddFinalizer, n
<1>5. ASSUME RemoveFinalizer PROVE Goal
  <2>1. key \in Ingresses /\ obj \in IngressRec /\ WellFormed(key, obj)
    BY <1>5 DEF RemoveFinalizer, TypeOK, LocalOK
  <2> DEFINE n == IF obj.del THEN Gone(obj) ELSE [obj EXCEPT !.fin = FALSE]
  <2>2. n \in IngressRec /\ WellFormed(key, n) /\ n.gen = obj.gen /\ obj.gen \in Nat
    BY <2>1 DEF IngressRec, WellFormed, Gone
  <2> HIDE DEF n
  <2>3. CASE IngressCurrent /\ WriteIngress(key, n)
    <3>1. API(ingresses)[key].gen <= n.gen
      BY <2>2, <2>3 DEF IngressCurrent
    <3> QED
      BY <1>3, <2>1, <2>2, <2>3, <3>1
  <2> QED
    BY <1>2, <1>5, <2>3 DEF RemoveFinalizer, n
<1>6. ASSUME Work PROVE Goal
  BY <1>2, <1>4, <1>5, <1>6
  DEF Work, Convert, ConvertIn, EnsureGateway, EnsureRoute, Finish, CleanRoutes, ListGateways, Detach, kinds
<1>7. ASSUME Users PROVE Goal
  <2>1. ASSUME NEW i \in Ingresses, NEW s \in Specs[i], CreateIngress(i, s) PROVE Goal
    <3> DEFINE n == [ex |-> TRUE, gen |-> API(ingresses)[i].gen + 1, spec |-> s,
                     fin |-> FALSE, del |-> FALSE]
    <3>1. n \in IngressRec /\ WellFormed(i, n) /\ API(ingresses)[i].gen <= n.gen
      BY <1>1, GensAreNat, SettingsOfSpecs DEF IngressRec, WellFormed
    <3> QED
      BY <1>3, <2>1, <3>1 DEF CreateIngress
  <2>2. ASSUME NEW i \in Ingresses, NEW s \in Specs[i], EditIngress(i, s) PROVE Goal
    <3> DEFINE o == API(ingresses)[i]
               n == [o EXCEPT !.spec = s]
    <3>1. n \in IngressRec /\ WellFormed(i, n) /\ n.gen = o.gen /\ o.gen \in Nat
      BY <1>1, <2>2, SettingsOfSpecs DEF IngressState, IngressRec, WellFormed, EditIngress
    <3> HIDE DEF n
    <3>2. API(ingresses)[i].gen <= n.gen
      BY <3>1
    <3> QED
      BY <1>3, <2>2, <3>1, <3>2 DEF EditIngress, n
  <2>3. ASSUME NEW i \in Ingresses, DeleteIngress(i) PROVE Goal
    <3> DEFINE o == API(ingresses)[i]
               n == IF o.fin THEN [o EXCEPT !.del = TRUE] ELSE Gone(o)
    <3>1. n \in IngressRec /\ WellFormed(i, n) /\ n.gen = o.gen /\ o.gen \in Nat
      BY <1>1, <2>3 DEF IngressState, IngressRec, WellFormed, DeleteIngress, Gone
    <3> HIDE DEF n
    <3>2. API(ingresses)[i].gen <= n.gen
      BY <3>1
    <3> QED
      BY <1>3, <2>3, <3>1, <3>2 DEF DeleteIngress, n
  <2> QED
    BY <1>2, <1>7, <2>1, <2>2, <2>3 DEF Users, ToggleExternalGateway
<1>8. ASSUME Deliver \/ Restart PROVE Goal
  BY <1>1, <1>2, <1>8, TailGrows, FreshGrows
  DEF Deliver, DeliverIngresses, DeliverGateways, DeliverRoutes, Restart
<1>9. ASSUME NEW i \in Ingresses, Fetch(i) PROVE Goal
  BY <1>2, <1>9 DEF Fetch, kinds
<1>10. ASSUME CallFails \/ (\E d \in delayed : TimerFires(d)) \/ Resync \/ Collect PROVE Goal
  BY <1>2, <1>10 DEF CallFails, TimerFires, Resync, Collect, CollectGateway, CollectRoute, kinds
<1>11. CASE UNCHANGED vars
  BY <1>2, <1>11 DEF vars, kinds
<1> QED
  BY <1>6, <1>7, <1>8, <1>9, <1>10, <1>11 DEF Next

(* The request in progress is the one that was fetched, and its copy is of   *)
(* the incarnation that was fetched.                                         *)
LEMMA RequestStays ==
  ASSUME TypeOK, [Next]_vars
  PROVE  \/ pc' = "idle"
         \/ pc = "idle" /\ pc' # "idle" /\ key' \in Ingresses /\ obj' = Cache(ingresses)[key']
            /\ UNCHANGED kinds
         \/ pc # "idle" /\ key' = key /\ obj'.gen = obj.gen
<1> DEFINE Goal ==
         \/ pc' = "idle"
         \/ pc = "idle" /\ pc' # "idle" /\ key' \in Ingresses /\ obj' = Cache(ingresses)[key']
            /\ UNCHANGED kinds
         \/ pc # "idle" /\ key' = key /\ obj'.gen = obj.gen
<1> SUFFICES Goal
  OBVIOUS
<1>1. ASSUME Return PROVE Goal
  BY <1>1 DEF Return
<1>2. ASSUME UNCHANGED <<pc, key, obj>> PROVE Goal
  BY <1>2
<1>3. ASSUME pc # "idle", UNCHANGED <<key, obj>> PROVE Goal
  BY <1>3
<1>4. ASSUME AddFinalizer PROVE Goal
  <2>1. obj \in IngressRec /\ pc # "idle"
    BY <1>4 DEF AddFinalizer, TypeOK, LocalOK
  <2>2. [obj EXCEPT !.fin = TRUE].gen = obj.gen
    BY <2>1 DEF IngressRec
  <2> QED
    BY <1>1, <1>4, <2>1, <2>2 DEF AddFinalizer, Fail, Goto
<1>5. ASSUME Work PROVE Goal
  <2>1. ASSUME NEW id \in DOMAIN todo, EnsureRoute(id) PROVE Goal
    BY <2>1, <1>1, <1>3 DEF EnsureRoute, Fail
  <2>2. ASSUME NEW g \in DOMAIN detach, Detach(g) PROVE Goal
    BY <2>2, <1>1, <1>3 DEF Detach, Fail
  <2>3. CASE Convert \/ EnsureGateway \/ Finish
    BY <2>3, <1>1, <1>3 DEF Convert, ConvertIn, EnsureGateway, Finish, Fail
  <2>4. CASE CleanRoutes \/ ListGateways \/ RemoveFinalizer
    BY <2>4, <1>1, <1>3 DEF CleanRoutes, ListGateways, RemoveFinalizer, Fail, Goto
  <2> QED
    BY <1>4, <1>5, <2>1, <2>2, <2>3, <2>4 DEF Work
<1>6. ASSUME NEW i \in Ingresses, Fetch(i) PROVE Goal
  BY <1>6, <1>2 DEF Fetch, local
<1>7. ASSUME CallFails \/ Restart PROVE Goal
  BY <1>7, <1>1 DEF CallFails, Restart, Fail
<1>8. ASSUME Deliver \/ (\E d \in delayed : TimerFires(d)) \/ Resync \/ Users \/ Collect
      PROVE  Goal
  BY <1>8, <1>2
  DEF Deliver, DeliverIngresses, DeliverGateways, DeliverRoutes, TimerFires, Resync, Users,
      CreateIngress, EditIngress, DeleteIngress, ToggleExternalGateway, Edited,
      Collect, CollectGateway, CollectRoute, local
<1>9. CASE UNCHANGED vars
  BY <1>9, <1>2 DEF vars, local
<1> QED
  BY <1>5, <1>6, <1>7, <1>8, <1>9 DEF Next

-----------------------------------------------------------------------------
(* The invariant. *)

(* A reference to the incarnation a request works on is as new as the cache. *)
LEMMA RequestSeen ==
  ASSUME TypeOK, Incarnations, pc # "idle"
  PROVE  /\ key \in Ingresses /\ obj.gen \in Nat /\ API(ingresses)[key].gen \in Nat
         /\ obj.gen <= API(ingresses)[key].gen
<1>1. /\ key \in Ingresses /\ obj.gen \in Nat
  BY DEF TypeOK, LocalOK, IngressRec
<1>2. /\ API(ingresses) \in IngressState /\ Cache(ingresses) \in IngressState
      /\ Len(ingresses) \in Nat /\ Len(ingresses) >= 1
  BY Bounds, WindowStates DEF TypeOK, IsWindow
<1>3. Cache(ingresses)[key].gen <= API(ingresses)[key].gen
  BY <1>1, <1>2 DEF Incarnations, Growing, Cache, API
<1> QED
  BY <1>1, <1>2, <1>3, GensAreNat DEF Incarnations

(* Which references a step of the worker adds and removes. *)
LEMMA OwnerWrites ==
  ASSUME TypeOK, Work, NEW g \in GatewayKeys
  PROVE  /\ \A u \in API(gateways')[g].owners \ API(gateways)[g].owners :
              pc = "ensureGateway" /\ u = <<key, obj.gen>>
         /\ API(gateways')[g].ex =>
              \A u \in API(gateways)[g].owners \ API(gateways')[g].owners :
                \/ pc = "detach" /\ u = <<key, obj.gen>>
                \/ pc = "ensureGateway" /\ u[1] = key /\ <<key, obj.gen>> \in API(gateways')[g].owners
<1> DEFINE Goal ==
         /\ \A u \in API(gateways')[g].owners \ API(gateways)[g].owners :
              pc = "ensureGateway" /\ u = <<key, obj.gen>>
         /\ API(gateways')[g].ex =>
              \A u \in API(gateways)[g].owners \ API(gateways')[g].owners :
                \/ pc = "detach" /\ u = <<key, obj.gen>>
                \/ pc = "ensureGateway" /\ u[1] = key /\ <<key, obj.gen>> \in API(gateways')[g].owners
<1> SUFFICES Goal
  OBVIOUS
<1>1. API(gateways) \in GatewayState
  BY Bounds, WindowStates DEF TypeOK
<1>2. CASE API(gateways')[g] = API(gateways)[g]
  BY <1>2
<1>3. ASSUME pc = "ensureGateway", g = want.key, NEW n \in GatewayRec,
             API(gateways')[g] = n,
             n.owners = SetOwner(API(gateways)[g].owners, <<key, obj.gen>>, g.ns)
      PROVE  Goal
  BY <1>3 DEF SetOwner
<1>4. ASSUME pc = "detach", g \in DOMAIN detach, NEW n \in GatewayRec, API(gateways')[g] = n,
             n = NoGateway
      PROVE  Goal
  <2>1. ~API(gateways')[g].ex /\ API(gateways')[g].owners = {}
    <3>1. ~NoGateway.ex /\ NoGateway.owners = {}
      BY DEF NoGateway
    <3>2. API(gateways')[g] = NoGateway
      BY <1>4
    <3> QED
      BY <3>1, <3>2
  <2> QED
    BY <1>4, <2>1
<1>5. ASSUME pc = "detach", g \in DOMAIN detach, API(gateways)[g] = detach[g],
             API(gateways')[g] = [detach[g] EXCEPT !.owners = detach[g].owners \ {<<key, obj.gen>>}]
      PROVE  Goal
  <2>1. detach[g] \in GatewayRec
    BY <1>5 DEF TypeOK, LocalOK
  <2>2. API(gateways')[g].owners = API(gateways)[g].owners \ {<<key, obj.gen>>}
    BY <1>5, <2>1 DEF GatewayRec
  <2> QED
    BY <1>5, <2>2
<1> QED
  BY <1>1, <1>2, <1>3, <1>4, <1>5, GatewayWrites DEF GatewayState

LEMMA IncarnationsInit == Init => Incarnations
<1> SUFFICES ASSUME Init PROVE Incarnations
  OBVIOUS
<1>1. \E s : ingresses = <<s>> /\ \A i \in Ingresses : s[i].gen = 1
  <2>1. PICK present, spec :
          ingresses = << [i \in Ingresses |-> [ex |-> i \in present, gen |-> 1, spec |-> spec[i],
                                              fin |-> i \in present \cap Adopted,
                                              del |-> FALSE]] >>
    BY DEF Init
  <2> DEFINE s == [i \in Ingresses |-> [ex |-> i \in present, gen |-> 1, spec |-> spec[i],
                                       fin |-> i \in present \cap Adopted, del |-> FALSE]]
  <2>2. \A i \in Ingresses : s[i].gen = 1
    OBVIOUS
  <2> HIDE DEF s
  <2> QED
    BY <2>1, <2>2 DEF s
<1> PICK s : ingresses = <<s>> /\ \A i \in Ingresses : s[i].gen = 1
  BY <1>1
<1>2. Len(ingresses) = 1 /\ ingresses[1] = s
  OBVIOUS
<1>3. Growing(ingresses)
  BY <1>2 DEF Growing
<1>4. ASSUME NEW g \in GatewayKeys, NEW u \in API(gateways)[g].owners
      PROVE  u[2] <= Cache(ingresses)[u[1]].gen
  <2>1. u \in Ingresses \X {1}
    BY OwnersAtStart
  <2> QED
    BY <1>2, <2>1 DEF Cache
<1> QED
  BY <1>3, <1>4 DEF Init, Incarnations

(* A reference is an old one, or the one the worker has just added. *)
LEMMA OwnersAdded ==
  ASSUME TypeOK, [Next]_vars, NEW g \in GatewayKeys, NEW u \in API(gateways')[g].owners,
         API(gateways') \in GatewayState
  PROVE  u \in API(gateways)[g].owners \/ (pc = "ensureGateway" /\ u = <<key, obj.gen>>)
<1>0. API(gateways) \in GatewayState /\ API(gateways') \in GatewayState
  BY Bounds, WindowStates DEF TypeOK
<1>1. CASE API(gateways') = API(gateways)
  BY <1>1
<1>2. CASE Work
  BY <1>2, OwnerWrites
<1>3. ASSUME NEW h \in GatewayKeys, CollectGateway(h)
      PROVE  u \in API(gateways)[g].owners
  <2> DEFINE o == API(gateways)[h]
             n == IF LivingOwners(o) = {} THEN NoGateway ELSE [o EXCEPT !.owners = LivingOwners(o)]
  <2>1. o \in GatewayRec /\ n \in GatewayRec /\ n.owners \subseteq o.owners
    BY <1>0, EmptyObjects DEF GatewayState, GatewayRec, LivingOwners, NoGateway
  <2>2. API(gateways') = [API(gateways) EXCEPT ![h] = n]
    BY <1>3, <2>1, WriteGatewayType DEF CollectGateway, TypeOK
  <2> QED
    BY <1>0, <2>1, <2>2 DEF GatewayState
<1>4. ASSUME NEW h \in GatewayKeys, ToggleExternalGateway(h)
      PROVE  u \in API(gateways)[g].owners
  <2> DEFINE n == IF API(gateways)[h].ex THEN NoGateway
                  ELSE [NoGateway EXCEPT !.ex = TRUE, !.class = "external"]
  <2>1. n \in GatewayRec /\ n.owners = {}
    BY EmptyObjects DEF NoGateway, GatewayRec, Classes
  <2>2. API(gateways') = [API(gateways) EXCEPT ![h] = n]
    BY <1>4, <2>1, WriteGatewayType DEF ToggleExternalGateway, TypeOK
  <2> QED
    BY <1>0, <2>1, <2>2 DEF GatewayState
<1>5. CASE Deliver \/ Restart
  <2>1. API(gateways') = API(gateways)
    BY <1>5, Bounds, TailWindow, FreshWindow, <1>0
    DEF Deliver, DeliverIngresses, DeliverGateways, DeliverRoutes, Restart, TypeOK
  <2> QED
    BY <1>1, <2>1
<1>6. CASE UNCHANGED gateways
  BY <1>1, <1>6
<1> QED
  BY <1>2, <1>3, <1>4, <1>5, <1>6
  DEF Next, Fetch, CallFails, TimerFires, Resync, Users, CreateIngress, EditIngress,
      DeleteIngress, Collect, CollectRoute, kinds, vars

LEMMA IncarnationsNext ==
  ASSUME TypeOK, TypeOK', Incarnations, [Next]_vars
  PROVE  Incarnations'
<1>1. /\ Growing(ingresses')
      /\ \A i \in Ingresses : Cache(ingresses)[i].gen <= Cache(ingresses')[i].gen
  BY IngressesGrow DEF Incarnations
<1>2. /\ Cache(ingresses) \in IngressState /\ Cache(ingresses') \in IngressState
      /\ API(gateways) \in GatewayState /\ API(gateways') \in GatewayState
  BY Bounds, WindowStates DEF TypeOK
<1>3. \A i \in Ingresses : Cache(ingresses)[i].gen \in Nat /\ Cache(ingresses')[i].gen \in Nat
  BY <1>2, GensAreNat
<1>4. ASSUME pc # "idle"
      PROVE  /\ key \in Ingresses /\ obj.gen \in Nat
             /\ obj.gen <= Cache(ingresses)[key].gen
  BY <1>4 DEF Incarnations, TypeOK, LocalOK, IngressRec
<1>5. pc' # "idle" => obj'.gen <= Cache(ingresses')[key'].gen
  <2>1. CASE pc = "idle" /\ key' \in Ingresses /\ obj' = Cache(ingresses)[key']
    BY <1>1, <2>1
  <2>2. CASE pc # "idle" /\ key' = key /\ obj'.gen = obj.gen
    BY <1>1, <1>3, <1>4, <2>2
  <2> QED
    BY <2>1, <2>2, RequestStays
<1>6. ASSUME NEW g \in GatewayKeys, NEW u \in API(gateways')[g].owners
      PROVE  u \in API(gateways)[g].owners \/ (pc # "idle" /\ u = <<key, obj.gen>>)
  BY <1>2, <1>6, OwnersAdded
<1>7. ASSUME NEW g \in GatewayKeys, NEW u \in API(gateways')[g].owners
      PROVE  /\ u[2] <= Cache(ingresses')[u[1]].gen
             /\ pc' # "idle" /\ key' = u[1] => u[2] <= obj'.gen
  <2>1. u[1] \in Ingresses /\ u[2] \in Nat
    BY <1>2, <1>7 DEF GatewayState, GatewayRec, Uids
  <2>2. /\ u[2] <= Cache(ingresses)[u[1]].gen
        /\ pc # "idle" /\ key = u[1] => u[2] <= obj.gen
    <3>1. CASE u \in API(gateways)[g].owners
      BY <3>1 DEF Incarnations
    <3>2. CASE pc # "idle" /\ u = <<key, obj.gen>>
      BY <1>4, <3>2
    <3> QED
      BY <1>6, <3>1, <3>2
  <2>3. u[2] <= Cache(ingresses')[u[1]].gen
    BY <1>1, <1>3, <2>1, <2>2
  <2>4. pc' # "idle" /\ key' = u[1] => u[2] <= obj'.gen
    BY <2>2, RequestStays
  <2> QED
    BY <2>3, <2>4
<1> QED
  BY <1>1, <1>5, <1>7 DEF Incarnations

-----------------------------------------------------------------------------
(* Whose step takes the reference of a living Ingress from a Gateway that stays. *)
LEMMA OwnersLeave ==
  ASSUME TypeOK, [Next]_vars, edits' = edits, NEW g \in GatewayKeys, API(gateways')[g].ex,
         NEW u \in API(gateways)[g].owners \ API(gateways')[g].owners, Alive(u)
  PROVE  /\ Work
         /\ \/ pc = "detach" /\ u = <<key, obj.gen>>
            \/ pc = "ensureGateway" /\ u[1] = key /\ <<key, obj.gen>> \in API(gateways')[g].owners
<1>1. API(gateways) \in GatewayState /\ edits \in Nat
  BY Bounds, WindowStates DEF TypeOK, GatewayState, GatewayRec
<1>2. API(gateways') # API(gateways)
  OBVIOUS
<1>3. CASE Work
  BY <1>3, OwnerWrites
<1>4. ASSUME NEW h \in GatewayKeys, CollectGateway(h) PROVE FALSE
  <2> DEFINE o == API(gateways)[h]
             n == IF LivingOwners(o) = {} THEN NoGateway ELSE [o EXCEPT !.owners = LivingOwners(o)]
  <2>1. o \in GatewayRec /\ n \in GatewayRec /\ n.owners = LivingOwners(o)
    BY <1>1, EmptyObjects DEF GatewayState, GatewayRec, LivingOwners, NoGateway
  <2>2. API(gateways') = [API(gateways) EXCEPT ![h] = n]
    BY <1>4, <2>1, WriteGatewayType DEF CollectGateway, TypeOK
  <2> QED
    BY <1>1, <2>1, <2>2 DEF GatewayState, LivingOwners
<1>5. CASE Deliver \/ Restart
  BY <1>1, <1>2, <1>5, Bounds, TailWindow, FreshWindow
  DEF Deliver, DeliverIngresses, DeliverGateways, DeliverRoutes, Restart, TypeOK
<1>6. CASE Users
  <2>1. Edited
    BY <1>6 DEF Users, CreateIngress, EditIngress, DeleteIngress, ToggleExternalGateway
  <2> QED
    BY <1>1, <2>1 DEF Edited
<1>7. CASE UNCHANGED gateways
  BY <1>2, <1>7
<1> QED
  BY <1>3, <1>4, <1>5, <1>6, <1>7
  DEF Next, Fetch, CallFails, TimerFires, Resync, Collect, CollectRoute, kinds, vars

(* The step that takes it, of whichever process and whatever others do       *)
(* between this process's steps.                                             *)
LEMMA OwnersTaken ==
  ASSUME TypeOK, [Next]_vars, edits' = edits, NEW g \in GatewayKeys, API(gateways')[g].ex,
         NEW u \in API(gateways)[g].owners \ API(gateways')[g].owners, Alive(u)
  PROVE  LetsGo(g, u) \/ Outlives(g, u)
<1>1. /\ Work
      /\ \/ pc = "detach" /\ u = <<key, obj.gen>>
         \/ pc = "ensureGateway" /\ u[1] = key /\ <<key, obj.gen>> \in API(gateways')[g].owners
  BY OwnersLeave
<1>2. API(gateways) \in GatewayState /\ ~UNCHANGED gateways
  BY Bounds, WindowStates DEF TypeOK
<1>3. CASE pc = "detach" /\ u = <<key, obj.gen>>
  <2>1. Leaving(obj)
    BY <1>3 DEF TypeOK, PhaseOK, CleanUpSteps
  <2>2. PICK h \in DOMAIN detach : Detach(h)
    BY <1>1, <1>2, <1>3
    DEF Work, AddFinalizer, Convert, EnsureGateway, EnsureRoute, Finish, CleanRoutes,
        ListGateways, RemoveFinalizer, kinds
  <2> DEFINE left == detach[h].owners \ {<<key, obj.gen>>}
             new  == IF IsLastOwner(left) THEN NoGateway ELSE [detach[h] EXCEPT !.owners = left]
  <2>3. WriteGateway(h, new) /\ DOMAIN detach' = DOMAIN detach \ {h}
    BY <1>2, <2>2 DEF Detach
  <2>4. h \in GatewayKeys /\ new \in GatewayRec
    BY EmptyObjects DEF TypeOK, LocalOK, GatewayRec
  <2> HIDE DEF new
  <2>5. API(gateways') = [API(gateways) EXCEPT ![h] = new]
    BY <2>3, <2>4, WriteGatewayType DEF TypeOK
  <2>6. g = h
    BY <1>2, <2>5 DEF GatewayState
  <2> QED
    BY <1>3, <2>1, <2>2, <2>3, <2>6 DEF LetsGo
<1>4. CASE pc = "ensureGateway" /\ u[1] = key /\ <<key, obj.gen>> \in API(gateways')[g].owners
  <2>1. u \in Uids
    BY <1>2 DEF GatewayState, GatewayRec
  <2>2. u[2] # obj.gen
    BY <1>4, <2>1 DEF Uids
  <2>3. API(gateways')[g] # API(gateways)[g]
    OBVIOUS
  <2>4. want.key = g
    BY <1>1, <1>2, <1>4, <2>3, GatewayWrites DEF GatewayState
  <2> QED
    BY <1>4, <2>2, <2>4 DEF Outlives
<1> QED
  BY <1>1, <1>3, <1>4

(* The reference of a living Ingress leaves a Gateway that stays only in the *)
(* clean-up of that very Ingress.                                            *)
THEOREM OwnersAreKept == Spec => OwnersKept
<1> DEFINE A == edits' = edits =>
                  \A g \in GatewayKeys :
                    API(gateways')[g].ex =>
                      \A u \in API(gateways)[g].owners \ API(gateways')[g].owners :
                        Alive(u) => u = <<key, obj.gen>> /\ Leaving(obj)
<1>1. ASSUME TypeOK, Incarnations, [Next]_vars PROVE A
  <2> SUFFICES ASSUME edits' = edits, NEW g \in GatewayKeys, API(gateways')[g].ex,
                      NEW u \in API(gateways)[g].owners \ API(gateways')[g].owners,
                      Alive(u)
               PROVE  u = <<key, obj.gen>> /\ Leaving(obj)
    OBVIOUS
  <2>1. CASE pc = "detach" /\ u = <<key, obj.gen>>
    BY <1>1, <2>1 DEF TypeOK, PhaseOK, CleanUpSteps
  <2>2. CASE pc = "ensureGateway" /\ u[1] = key /\ <<key, obj.gen>> \in API(gateways')[g].owners
    <3>1. u \in Uids
      BY <1>1, Bounds, WindowStates DEF TypeOK, GatewayState, GatewayRec
    <3>2. /\ obj.gen \in Nat /\ API(ingresses)[key].gen \in Nat
          /\ obj.gen <= API(ingresses)[key].gen
      BY <1>1, <2>2, RequestSeen
    <3>3. u[2] <= obj.gen
      BY <1>1, <2>2 DEF Incarnations
    <3>4. u[2] = API(ingresses)[key].gen
      BY <2>2 DEF Alive
    <3>5. u = <<key, obj.gen>>
      BY <2>2, <3>1, <3>2, <3>3, <3>4 DEF Uids
    <3> QED
      BY <2>2, <3>5
  <2> QED
    BY <1>1, <2>1, <2>2, OwnersLeave
<1>2. TypeOK /\ TypeOK' /\ Incarnations /\ [Next]_vars => Incarnations'
  BY IncarnationsNext
<1> QED
  BY <1>1, <1>2, IncarnationsInit, TypeCorrect, PTL DEF Spec, OwnersKept

-----------------------------------------------------------------------------
(* Leaving.                                                                  *)

(* With a fresh Gateway cache, the Gateways still to be left have no owner   *)
(* that the list does not show: the worker is the only one to add owners,    *)
(* and it is busy leaving.                                                   *)
Listed ==
  /\ pc # "detach" => DOMAIN detach = {}
  /\ \A g \in DOMAIN detach : API(gateways)[g].owners \subseteq detach[g].owners

LEMMA ListedInit == Init => Listed
<1> SUFFICES ASSUME Init PROVE Listed
  OBVIOUS
<1>1. DOMAIN << >> = {}
  OBVIOUS
<1>2. DOMAIN detach = {}
  BY <1>1 DEF Init
<1> QED
  BY <1>2 DEF Listed

(* What the worker does to the list. *)
LEMMA ListChanges ==
  ASSUME TypeOK, pc # "detach" => DOMAIN detach = {}, [Next]_vars
  PROVE  \/ DOMAIN detach' = {}
         \/ /\ ListGateways /\ pc' = "detach"
            /\ \A g \in DOMAIN detach' : detach'[g] = Cache(gateways)[g]
         \/ /\ pc = "detach" /\ pc' = "detach" /\ DOMAIN detach' \subseteq DOMAIN detach
            /\ \A g \in DOMAIN detach' : detach'[g] = detach[g]
<1> DEFINE Goal ==
         \/ DOMAIN detach' = {}
         \/ /\ ListGateways /\ pc' = "detach"
            /\ \A g \in DOMAIN detach' : detach'[g] = Cache(gateways)[g]
         \/ /\ pc = "detach" /\ pc' = "detach" /\ DOMAIN detach' \subseteq DOMAIN detach
            /\ \A g \in DOMAIN detach' : detach'[g] = detach[g]
<1> SUFFICES Goal
  OBVIOUS
<1>1. ASSUME Return PROVE Goal
  <2>1. DOMAIN << >> = {}
    OBVIOUS
  <2> QED
    BY <1>1, <2>1 DEF Return
<1>2. ASSUME UNCHANGED <<pc, detach>> PROVE Goal
  BY <1>2
<1>3. ASSUME pc # "detach", UNCHANGED detach PROVE Goal
  BY <1>3
<1>4. CASE ListGateways
  <2>2. CASE detach' = [g \in OwnedGateways |-> Cache(gateways)[g]]
    BY <1>4, <2>2 DEF ListGateways
  <2>3. CASE detach' = << >>
    <3>1. DOMAIN detach' = {}
      BY <2>3
    <3> QED
      BY <3>1
  <2> QED
    BY <1>4, <2>2, <2>3 DEF ListGateways
<1>5. ASSUME NEW g \in DOMAIN detach, Detach(g) PROVE Goal
  <2>1. CASE UNCHANGED pc /\ detach' = [h \in DOMAIN detach \ {g} |-> detach[h]]
    BY <1>5, <2>1 DEF Detach
  <2>2. CASE Fail
    BY <1>1, <2>2 DEF Fail
  <2> QED
    BY <1>5, <2>1, <2>2 DEF Detach
<1>6. ASSUME Work PROVE Goal
  <2>1. ASSUME NEW id \in DOMAIN todo, EnsureRoute(id) PROVE Goal
    BY <2>1, <1>1, <1>2 DEF EnsureRoute, Fail
  <2>2. CASE AddFinalizer \/ Convert
    BY <2>2, <1>1, <1>3 DEF AddFinalizer, Convert, ConvertIn, Fail, Goto
  <2>3. CASE EnsureGateway \/ Finish
    BY <2>3, <1>1, <1>3 DEF EnsureGateway, Finish, Fail
  <2>4. CASE CleanRoutes \/ RemoveFinalizer
    BY <2>4, <1>1, <1>3 DEF CleanRoutes, RemoveFinalizer, Fail, Goto
  <2> QED
    BY <1>4, <1>5, <1>6, <2>1, <2>2, <2>3, <2>4 DEF Work
<1>7. ASSUME NEW i \in Ingresses, Fetch(i) PROVE Goal
  BY <1>7, <1>2, <1>3 DEF Fetch, local
<1>8. ASSUME CallFails \/ Restart PROVE Goal
  BY <1>8, <1>1 DEF CallFails, Restart, Fail
<1>9. ASSUME Deliver \/ (\E d \in delayed : TimerFires(d)) \/ Resync \/ Users \/ Collect
      PROVE  Goal
  BY <1>9, <1>2
  DEF Deliver, DeliverIngresses, DeliverGateways, DeliverRoutes, TimerFires, Resync, Users,
      CreateIngress, EditIngress, DeleteIngress, ToggleExternalGateway, Edited,
      Collect, CollectGateway, CollectRoute, local
<1>10. CASE UNCHANGED vars
  BY <1>10, <1>2 DEF vars, local
<1> QED
  BY <1>6, <1>7, <1>8, <1>9, <1>10 DEF Next

LEMMA FreshGateways ==
  ASSUME TypeOK, GatewayLag = 0
  PROVE  Cache(gateways) = API(gateways)
<1>1. Len(gateways) \in 1..1
  BY DEF TypeOK, IsWindow
<1>2. Len(gateways) = 1
  BY <1>1
<1> QED
  BY <1>2 DEF Cache, API

LEMMA ListedNext ==
  ASSUME TypeOK, TypeOK', Listed, [Next]_vars, GatewayLag = 0
  PROVE  Listed'
<1>1. API(gateways') \in GatewayState
  BY Bounds, WindowStates DEF TypeOK
<1>2. CASE DOMAIN detach' = {}
  BY <1>2 DEF Listed
<1>3. CASE /\ ListGateways /\ pc' = "detach"
           /\ \A g \in DOMAIN detach' : detach'[g] = Cache(gateways)[g]
  <2>1. API(gateways') = API(gateways)
    BY <1>3 DEF ListGateways, kinds
  <2> QED
    BY <1>3, <2>1, FreshGateways DEF Listed
<1>4. CASE /\ pc = "detach" /\ pc' = "detach" /\ DOMAIN detach' \subseteq DOMAIN detach
           /\ \A g \in DOMAIN detach' : detach'[g] = detach[g]
  <2> SUFFICES ASSUME NEW g \in DOMAIN detach', NEW u \in API(gateways')[g].owners
               PROVE  u \in detach'[g].owners
    BY <1>4 DEF Listed
  <2>1. g \in GatewayKeys
    BY <1>4 DEF TypeOK, LocalOK
  <2>2. u \in API(gateways)[g].owners
    BY <1>1, <1>4, <2>1, OwnersAdded
  <2> QED
    BY <1>4, <2>2 DEF Listed
<1> QED
  BY <1>2, <1>3, <1>4, ListChanges DEF Listed

(* The finalizer goes in one place only: at the end of the Ingress's clean-up. *)
LEMMA FinalizerGoes ==
  ASSUME TypeOK, [Next]_vars, NEW i \in Ingresses,
         API(ingresses)[i].fin, ~API(ingresses')[i].fin
  PROVE  pc = "detach" /\ DOMAIN detach = {} /\ i = key /\ API(ingresses)[key] = obj
<1>1. API(ingresses) \in IngressState /\ API(ingresses)[i].ex
  BY Bounds, WindowStates DEF TypeOK, IngressState, WellFormed
<1>2. CASE /\ pc = "addFinalizer" /\ API(ingresses)[key] = obj
           /\ API(ingresses') = [API(ingresses) EXCEPT ![key] = [obj EXCEPT !.fin = TRUE]]
  <2>1. obj \in IngressRec /\ [obj EXCEPT !.fin = TRUE].fin = TRUE
    BY <1>2 DEF TypeOK, LocalOK, IngressRec
  <2> QED
    BY <1>1, <1>2, <2>1 DEF IngressState
<1>3. CASE /\ pc = "detach" /\ DOMAIN detach = {} /\ API(ingresses)[key] = obj
           /\ API(ingresses') = [API(ingresses) EXCEPT ![key] =
                                    IF obj.del THEN Gone(obj) ELSE [obj EXCEPT !.fin = FALSE]]
  BY <1>1, <1>3 DEF IngressState
<1>4. ASSUME NEW j \in Ingresses, NEW n \in IngressRec,
             API(ingresses') = [API(ingresses) EXCEPT ![j] = n],
             n.fin = (API(ingresses)[j].ex /\ API(ingresses)[j].fin)
      PROVE  FALSE
  BY <1>1, <1>4 DEF IngressState
<1> QED
  BY <1>2, <1>3, <1>4, IngressWrites

(* How a request comes to list the Gateways, to leave them, and goes on.     *)
LEMMA LeavingMoves ==
  ASSUME TypeOK, [Next]_vars, pc' \in {"listGateways", "detach"}
  PROVE  \/ /\ pc = "cleanRoutes" /\ pc' = "listGateways" /\ UNCHANGED key
            /\ DeleteRoutes(Orphans)
            /\ \A k \in DOMAIN Kinds : Kinds[k] \in ListableKinds
         \/ ListGateways /\ UNCHANGED <<key, obj, gateways, routes>>
         \/ /\ pc = "detach" /\ pc' = "detach" /\ UNCHANGED <<key, obj, faults>>
            /\ \E g \in DOMAIN detach : Detach(g) /\ DOMAIN detach' = DOMAIN detach \ {g}
         \/ UNCHANGED <<pc, key, obj, detach>>
<1> DEFINE Goal ==
         \/ /\ pc = "cleanRoutes" /\ pc' = "listGateways" /\ UNCHANGED key
            /\ DeleteRoutes(Orphans)
            /\ \A k \in DOMAIN Kinds : Kinds[k] \in ListableKinds
         \/ ListGateways /\ UNCHANGED <<key, obj, gateways, routes>>
         \/ /\ pc = "detach" /\ pc' = "detach" /\ UNCHANGED <<key, obj, faults>>
            /\ \E g \in DOMAIN detach : Detach(g) /\ DOMAIN detach' = DOMAIN detach \ {g}
         \/ UNCHANGED <<pc, key, obj, detach>>
<1> SUFFICES Goal
  OBVIOUS
<1>1. ~Return
  BY DEF Return
<1>2. ASSUME UNCHANGED local PROVE Goal
  BY <1>2 DEF local
<1>3. ASSUME Work PROVE Goal
  <2>1. ASSUME NEW id \in DOMAIN todo, EnsureRoute(id) PROVE Goal
    BY <2>1, <1>1 DEF EnsureRoute, Fail
  <2>2. ASSUME NEW g \in DOMAIN detach, Detach(g) PROVE Goal
    BY <2>2, <1>1 DEF Detach, Fail
  <2>3. CASE AddFinalizer \/ Convert \/ EnsureGateway
    BY <2>3, <1>1 DEF AddFinalizer, Convert, ConvertIn, EnsureGateway, Fail, Goto
  <2>4. CASE Finish \/ RemoveFinalizer
    BY <2>4, <1>1 DEF Finish, RemoveFinalizer, Fail
  <2>5. CASE CleanRoutes
    BY <2>5, <1>1 DEF CleanRoutes, Fail, Goto
  <2>6. CASE ListGateways
    BY <2>6 DEF ListGateways, kinds
  <2> QED
    BY <1>3, <2>1, <2>2, <2>3, <2>4, <2>5, <2>6 DEF Work
<1>4. ASSUME NEW i \in Ingresses, Fetch(i) PROVE Goal
  BY <1>4, <1>2 DEF Fetch
<1>5. ASSUME CallFails \/ Restart PROVE Goal
  BY <1>5, <1>1 DEF CallFails, Restart, Fail
<1>6. ASSUME Deliver \/ (\E d \in delayed : TimerFires(d)) \/ Resync \/ Users \/ Collect
      PROVE  Goal
  BY <1>6, <1>2
  DEF Deliver, DeliverIngresses, DeliverGateways, DeliverRoutes, TimerFires, Resync, Users,
      CreateIngress, EditIngress, DeleteIngress, ToggleExternalGateway, Edited,
      Collect, CollectGateway, CollectRoute
<1>7. CASE UNCHANGED vars
  BY <1>7, <1>2 DEF vars
<1> QED
  BY <1>3, <1>4, <1>5, <1>6, <1>7 DEF Next

(* The Gateway that a request has left does not name its Ingress any more.   *)
LEMMA DetachLeaves ==
  ASSUME TypeOK, NEW g \in DOMAIN detach, Detach(g), ~Fail
  PROVE  g \in GatewayKeys /\ <<key, obj.gen>> \notin API(gateways')[g].owners
<1> DEFINE old  == detach[g]
           left == old.owners \ {<<key, obj.gen>>}
           new  == IF IsLastOwner(left) THEN NoGateway ELSE [old EXCEPT !.owners = left]
<1>1. g \in GatewayKeys /\ old \in GatewayRec /\ API(gateways) \in GatewayState
  BY Bounds, WindowStates DEF TypeOK, LocalOK
<1>2. new \in GatewayRec /\ <<key, obj.gen>> \notin new.owners
  BY <1>1, EmptyObjects DEF GatewayRec, NoGateway
<1>3. API(gateways') = [API(gateways) EXCEPT ![g] = new]
  BY <1>1, <1>2, WriteGatewayType DEF Detach, TypeOK
<1>4. API(gateways')[g] = new
  BY <1>1, <1>3 DEF GatewayState
<1> HIDE DEF new
<1> QED
  BY <1>1, <1>2, <1>4

(* Once the routes are cleaned up, none is tracked to the Ingress any more.  *)
Untracked ==
  pc \in {"listGateways", "detach"} =>
    \A id \in RouteIds : NsOf[id.ing] = NsOf[key] => SourceOf(API(routes)[id]) # key

LEMMA FreshRoutes ==
  ASSUME TypeOK, RouteLag = 0
  PROVE  Cache(routes) = API(routes)
<1>1. Len(routes) \in 1..1
  BY DEF TypeOK, IsWindow
<1>2. Len(routes) = 1
  BY <1>1
<1> QED
  BY <1>2 DEF Cache, API

LEMMA KindsKnown ==
  ASSUME NEW id \in RouteIds
  PROVE  \E k \in DOMAIN Kinds : id.kind = Kinds[k]
<1>1. PICK i \in Ingresses : \E r \in UNION {s.rules : s \in Specs[i]} :
        id = [kind |-> r[1], ing |-> i, host |-> r[2]]
  BY DEF RouteIds
<1> QED
  BY <1>1, ConversionAssumption

(* deleteOrphanRoutes, when it comes to its end. *)
LEMMA CleanRoutesCleans ==
  ASSUME TypeOK, RouteLag = 0, pc = "cleanRoutes", DeleteRoutes(Orphans),
         \A k \in DOMAIN Kinds : Kinds[k] \in ListableKinds,
         NEW id \in RouteIds, NsOf[id.ing] = NsOf[key]
  PROVE  SourceOf(API(routes')[id]) # key
<1>1. /\ API(routes) \in RouteState /\ Cache(routes) = API(routes) /\ key \in Ingresses
      /\ key # None
  BY Bounds, WindowStates, FreshRoutes, ConversionAssumption DEF TypeOK, LocalOK
<1>2. id.kind \in ListableKinds
  BY KindsKnown
<1>3. SourceOf(NoRoute) = None
  BY DEF SourceOf, NoRoute
<1>4. CASE id \in Orphans
  <2>1. API(routes)[id].ex
    BY <1>1, <1>4 DEF Orphans, SourceOf
  <2> DEFINE s == [r \in RouteIds |-> IF r \in Orphans THEN NoRoute ELSE API(routes)[r]]
  <2>2. s \in RouteState /\ s[id] = NoRoute
    BY <1>1, <1>4, EmptyObjects DEF RouteState
  <2>3. routes' = Push(routes, s, RouteLag)
    BY <1>4, <2>1 DEF DeleteRoutes
  <2> HIDE DEF s
  <2>4. API(routes') = s
    BY <2>2, <2>3, Bounds, PushWindow DEF TypeOK
  <2> QED
    BY <1>1, <1>3, <2>2, <2>4
<1>5. CASE id \notin Orphans
  <2>1. SourceOf(API(routes)[id]) # key
    BY <1>1, <1>2, <1>5 DEF Orphans
  <2> DEFINE s == [r \in RouteIds |-> IF r \in Orphans THEN NoRoute ELSE API(routes)[r]]
  <2>2. s \in RouteState /\ s[id] = API(routes)[id]
    BY <1>1, <1>5, EmptyObjects DEF RouteState
  <2>3. routes' = Push(routes, s, RouteLag) \/ routes' = routes
    BY DEF DeleteRoutes
  <2> HIDE DEF s
  <2>4. API(routes')[id] = API(routes)[id]
    BY <2>2, <2>3, Bounds, PushWindow DEF TypeOK
  <2> QED
    BY <2>1, <2>4
<1> QED
  BY <1>4, <1>5

(* Only createOrUpdateResource gives a route a source. *)
LEMMA SourcesGiven ==
  ASSUME TypeOK, [Next]_vars, pc \notin {"ensureRoutes", "cleanRoutes"}, NEW id \in RouteIds
  PROVE  SourceOf(API(routes')[id]) \in {SourceOf(API(routes)[id]), None}
<1> DEFINE Goal == SourceOf(API(routes')[id]) \in {SourceOf(API(routes)[id]), None}
<1> SUFFICES Goal
  OBVIOUS
<1>1. API(routes) \in RouteState
  BY Bounds, WindowStates DEF TypeOK
<1>2. CASE API(routes') = API(routes)
  BY <1>2
<1>3. ASSUME NEW r \in RouteIds, CollectRoute(r) PROVE Goal
  <2> DEFINE o == API(routes)[r]
             n == IF LivingOwners(o) = {} THEN NoRoute ELSE [o EXCEPT !.owners = LivingOwners(o)]
  <2>1. n \in RouteRec /\ SourceOf(n) \in {SourceOf(o), None}
    BY <1>1, EmptyObjects DEF RouteState, RouteRec, LivingOwners, SourceOf, NoRoute
  <2> HIDE DEF n
  <2>2. [API(routes) EXCEPT ![r] = n] \in RouteState
    BY <1>1, <2>1 DEF RouteState
  <2>3. API(routes') = [API(routes) EXCEPT ![r] = n]
    BY <1>3, <2>2, Bounds, PushWindow DEF CollectRoute, WriteRoute, TypeOK, n
  <2> QED
    BY <1>1, <2>1, <2>3 DEF RouteState
<1>4. CASE Deliver \/ Restart
  BY <1>1, <1>2, <1>4, Bounds, TailWindow, FreshWindow
  DEF Deliver, DeliverIngresses, DeliverGateways, DeliverRoutes, Restart, TypeOK
<1>5. CASE UNCHANGED routes
  BY <1>2, <1>5
<1> QED
  BY <1>3, <1>4, <1>5
  DEF Next, Fetch, Work, AddFinalizer, Convert, ConvertIn, EnsureGateway, EnsureRoute, Finish,
      CleanRoutes, ListGateways, Detach, RemoveFinalizer, CallFails, TimerFires, Resync, Users,
      CreateIngress, EditIngress, DeleteIngress, ToggleExternalGateway, Collect, CollectGateway,
      kinds, vars

LEMMA UntrackedNext ==
  ASSUME TypeOK, TypeOK', Untracked, [Next]_vars, RouteLag = 0
  PROVE  Untracked'
<1> SUFFICES ASSUME pc' \in {"listGateways", "detach"}, NEW id \in RouteIds,
                    NsOf[id.ing] = NsOf[key']
             PROVE  SourceOf(API(routes')[id]) # key'
  BY DEF Untracked, SourceOf
<1>1. CASE pc \in {"listGateways", "detach"} /\ UNCHANGED key
  <2>1. SourceOf(API(routes)[id]) # key
    BY <1>1 DEF Untracked
  <2>2. key # None
    BY <1>1, ConversionAssumption DEF TypeOK, LocalOK
  <2> QED
    BY <1>1, <2>1, <2>2, SourcesGiven
<1>2. CASE /\ pc = "cleanRoutes" /\ UNCHANGED key /\ DeleteRoutes(Orphans)
           /\ \A k \in DOMAIN Kinds : Kinds[k] \in ListableKinds
  BY <1>2, CleanRoutesCleans
<1> QED
  BY <1>1, <1>2, LeavingMoves DEF ListGateways

(* When an Ingress gives up the finalizer, no route of its namespace is      *)
(* tracked to it, whatever failed on the way: a failure in deleteOrphanRoutes *)
(* starts the clean-up over, and a kind that cannot be listed blocks it.     *)
THEOREM RoutesAreReleased ==
  ASSUME RouteLag = 0
  PROVE  Spec => ReleasedRoutes
<1> DEFINE A == \A i \in Ingresses :
                  API(ingresses)[i].fin /\ ~API(ingresses')[i].fin =>
                    \A id \in RouteIds : NsOf[id.ing] = NsOf[i] => SourceOf(API(routes)[id]) # i
<1>1. ASSUME TypeOK, Untracked, [Next]_vars PROVE A
  BY <1>1, FinalizerGoes DEF Untracked
<1>2. Init => Untracked
  BY DEF Init, Untracked
<1>3. TypeOK /\ TypeOK' /\ Untracked /\ [Next]_vars => Untracked'
  BY UntrackedNext
<1> QED
  BY <1>1, <1>2, <1>3, TypeCorrect, PTL DEF Spec, ReleasedRoutes
=============================================================================

--------------------------- MODULE StaleReadsProofs ---------------------------
(***************************************************************************)
(* What the reconcile loop promises about a shared Gateway and about the   *)
(* routes it makes is broken for what it overlooked and for nothing else.  *)
(* Nothing is assumed here of the age of the caches, of failures, or of    *)
(* the namespaces a Gateway is shared from.                                *)
(***************************************************************************)
EXTENDS RestProofs, StaleReads

(* The history follows the loop and does not hinder it. *)
LEMMA ReadIsNext ==
  ASSUME [ReadNext]_readVars
  PROVE  [Next]_vars
BY DEF ReadNext, readVars

LEMMA ReadIsSpec == ReadSpec => Spec
<1>1. ReadInit => Init
  BY DEF ReadInit
<1>2. [ReadNext]_readVars => [Next]_vars
  BY ReadIsNext
<1> QED
  BY <1>1, <1>2, PTL DEF ReadSpec, Spec

-----------------------------------------------------------------------------
(* Leaving. *)

(* Of the Gateways still to be left, the list shows all owners but those it  *)
(* overlooked: the worker is the only one to add owners, and is busy leaving. *)
Shown ==
  /\ pc # "detach" => DOMAIN detach = {}
  /\ \A g \in DOMAIN detach : \A u \in API(gateways)[g].owners :
       u \in detach[g].owners \/ u = me \/ <<g, u>> \in overlooked

(* The Gateways that still name the Ingress that leaves them are on the      *)
(* list, or have been overlooked.                                            *)
StillListed ==
  pc = "detach" =>
    \A g \in GatewayKeys :
      ~IsExternalGateway(g) /\ me \in API(gateways)[g].owners =>
        g \in DOMAIN detach \/ <<g, me>> \in overlooked

(* The list of Gateways to leave is what the cache shows, or is empty. *)
LEMMA ListSees ==
  ASSUME TypeOK, ListGateways, NEW g \in GatewayKeys
  PROVE  /\ g \in DOMAIN detach' => Seen(g, me) /\ \A u : Seen(g, u) => u \in detach'[g].owners
         /\ Seen(g, me) /\ ~IsExternalGateway(g) => g \in DOMAIN detach'
<1>1. CASE detach' = [h \in OwnedGateways |-> Cache(gateways)[h]] /\ UNCHANGED faults
  BY <1>1 DEF OwnedGateways, Seen, me
<1>2. CASE detach' = << >> /\ faults' = faults + 1
  <2>1. faults' # faults
    BY <1>2, Bounds DEF TypeOK
  <2>2. DOMAIN detach' = {}
    BY <1>2
  <2> QED
    BY <2>1, <2>2 DEF Seen
<1> QED
  BY <1>1, <1>2 DEF ListGateways

(* How a request that leaves its Gateways came to do so. *)
LEMMA LeavingReads ==
  ASSUME TypeOK, [ReadNext]_readVars, pc' = "detach"
  PROVE  \/ ListGateways /\ UNCHANGED <<key, obj, gateways>> /\ overlooked' = overlooked \cup Unlisted
         \/ /\ pc = "detach" /\ UNCHANGED <<key, obj, overlooked>>
            /\ \E h \in DOMAIN detach : Detach(h) /\ ~Fail /\ DOMAIN detach' = DOMAIN detach \ {h}
            /\ \A g \in DOMAIN detach' : detach'[g] = detach[g]
         \/ UNCHANGED <<pc, key, obj, detach, overlooked>>
<1>1. [Next]_vars
  BY ReadIsNext
<1>2. ~Fail
  BY DEF Fail, Return
<1>3. CASE ListGateways /\ UNCHANGED <<key, obj, gateways, routes>>
  BY <1>3 DEF ListGateways, ReadNext, ReadGateways, readVars, vars, local
<1>4. CASE pc = "detach"
  <2>1. UNCHANGED overlooked
    BY <1>4 DEF ReadNext, ReadGateways, readVars, history
  <2>2. ASSUME NEW h \in DOMAIN detach, Detach(h)
        PROVE  \A g \in DOMAIN detach' : detach'[g] = detach[g]
    BY <1>2, <2>2 DEF Detach
  <2>3. ~ListGateways
    BY <1>4 DEF ListGateways
  <2> QED
    BY <1>1, <1>2, <1>4, <2>1, <2>2, <2>3, LeavingMoves
<1> QED
  BY <1>1, <1>3, <1>4, LeavingMoves

LEMMA ShownNext ==
  ASSUME TypeOK, TypeOK', Shown, [ReadNext]_readVars
  PROVE  Shown'
<1>1. pc' # "detach" => DOMAIN detach' = {}
  BY ReadIsNext, ListChanges DEF Shown
<1> SUFFICES ASSUME NEW g \in DOMAIN detach', NEW u \in API(gateways')[g].owners, pc' = "detach"
             PROVE  u \in detach'[g].owners \/ u = me' \/ <<g, u>> \in overlooked'
  BY <1>1 DEF Shown
<1>2. g \in GatewayKeys /\ API(gateways') \in GatewayState
  BY Bounds, WindowStates DEF TypeOK, LocalOK
<1>3. CASE ListGateways /\ UNCHANGED <<key, obj, gateways>> /\ overlooked' = overlooked \cup Unlisted
  <2>1. u \in API(gateways)[g].owners
    BY <1>3
  <2>2. ASSUME u # me, u \notin detach'[g].owners PROVE <<g, u>> \in Unlisted
    BY <1>2, <1>3, <2>1, <2>2, ListSees DEF Unlisted
  <2> QED
    BY <1>3, <2>2 DEF me
<1>4. ASSUME pc = "detach", UNCHANGED <<key, obj, overlooked>>, g \in DOMAIN detach, detach'[g] = detach[g]
      PROVE  u \in detach'[g].owners \/ u = me' \/ <<g, u>> \in overlooked'
  <2>1. u \in API(gateways)[g].owners
    BY <1>2, <1>4, ReadIsNext, OwnersAdded
  <2> QED
    BY <1>4, <2>1 DEF Shown, me
<1>5. ASSUME NEW h \in DOMAIN detach, DOMAIN detach' = DOMAIN detach \ {h}
      PROVE  g \in DOMAIN detach
  BY <1>5
<1> QED
  BY <1>3, <1>4, <1>5, LeavingReads

LEMMA StillListedNext ==
  ASSUME TypeOK, TypeOK', StillListed, [ReadNext]_readVars
  PROVE  StillListed'
<1> SUFFICES ASSUME pc' = "detach", NEW g \in GatewayKeys, ~IsExternalGateway(g),
                    me' \in API(gateways')[g].owners
             PROVE  g \in DOMAIN detach' \/ <<g, me'>> \in overlooked'
  BY DEF StillListed, IsExternalGateway
<1>1. API(gateways') \in GatewayState /\ [Next]_vars
  BY Bounds, WindowStates, ReadIsNext DEF TypeOK
<1>2. ASSUME pc = "detach", UNCHANGED <<key, obj>>
      PROVE  g \in DOMAIN detach \/ <<g, me>> \in overlooked
  <2>1. me \in API(gateways)[g].owners
    BY <1>1, <1>2, OwnersAdded DEF me
  <2> QED
    BY <1>2, <2>1 DEF StillListed
<1>3. CASE ListGateways /\ UNCHANGED <<key, obj, gateways>> /\ overlooked' = overlooked \cup Unlisted
  <2>1. me \in API(gateways)[g].owners /\ me' = me
    BY <1>3 DEF me
  <2>2. g \notin DOMAIN detach' => <<g, me>> \in Unlisted
    BY <1>3, <2>1, ListSees DEF Unlisted
  <2> QED
    BY <1>3, <2>1, <2>2
<1>4. ASSUME pc = "detach", UNCHANGED <<key, obj, overlooked>>,
             NEW h \in DOMAIN detach, Detach(h), ~Fail, DOMAIN detach' = DOMAIN detach \ {h}
      PROVE  g \in DOMAIN detach' \/ <<g, me'>> \in overlooked'
  <2>1. g # h
    BY <1>4, DetachLeaves DEF me
  <2> QED
    BY <1>2, <1>4, <2>1 DEF me
<1>5. CASE UNCHANGED <<pc, key, obj, detach, overlooked>>
  BY <1>2, <1>5 DEF me
<1> QED
  BY <1>3, <1>4, <1>5, LeavingReads

LEMMA ListsInit == ReadInit => Shown /\ StillListed
<1>1. DOMAIN << >> = {}
  OBVIOUS
<1> QED
  BY <1>1 DEF ReadInit, Init, Shown, StillListed

(* A Gateway is deleted over the head of a living owner only if the list     *)
(* that the deletion goes by did not show that owner: the Delete names no    *)
(* version, and so it is the only thing that can go wrong (reconciler.go     *)
(* 414, 516).                                                                *)
THEOREM OnlyTheUnseenSuffer == ReadSpec => LastOwnerShown
<1> DEFINE A == edits' = edits =>
                  \A g \in GatewayKeys :
                    API(gateways)[g].ex /\ ~API(gateways')[g].ex =>
                      \A u \in API(gateways)[g].owners :
                        Alive(u) /\ u # me => <<g, u>> \in overlooked
<1>1. ASSUME TypeOK, Shown, [Next]_vars PROVE A
  <2> SUFFICES ASSUME edits' = edits, NEW g \in GatewayKeys,
                      API(gateways)[g].ex, ~API(gateways')[g].ex,
                      NEW u \in API(gateways)[g].owners, Alive(u), u # me
               PROVE  <<g, u>> \in overlooked
    OBVIOUS
  <2>1. API(gateways) \in GatewayState /\ edits \in Nat
    BY <1>1, Bounds, WindowStates DEF TypeOK
  <2>2. API(gateways') # API(gateways)
    OBVIOUS
  <2>3. CASE Work
    <3>1. ASSUME want.key \in GatewayKeys, NEW n \in GatewayRec, n.ex,
                 API(gateways') = [API(gateways) EXCEPT ![want.key] = n]
          PROVE  FALSE
      BY <2>1, <3>1 DEF GatewayState
    <3>2. ASSUME NEW h \in DOMAIN detach, h \in GatewayKeys, NEW n \in GatewayRec,
                 API(gateways') = [API(gateways) EXCEPT ![h] = n],
                 n = NoGateway /\ detach[h].owners \subseteq {<<key, obj.gen>>}
          PROVE  <<g, u>> \in overlooked
      <4>1. g = h
        BY <2>1, <3>2 DEF GatewayState
      <4> QED
        BY <1>1, <3>2, <4>1 DEF Shown, me
    <3>3. ASSUME NEW h \in DOMAIN detach, h \in GatewayKeys, NEW n \in GatewayRec,
                 API(gateways') = [API(gateways) EXCEPT ![h] = n],
                 API(gateways)[h] = detach[h],
                 n = [detach[h] EXCEPT !.owners = detach[h].owners \ {<<key, obj.gen>>}]
          PROVE  FALSE
      <4>1. API(gateways)[h] \in GatewayRec
        BY <2>1, <3>3 DEF GatewayState
      <4>2. n.ex = API(gateways)[h].ex
        BY <3>3, <4>1 DEF GatewayRec
      <4> QED
        BY <2>1, <3>3, <4>2 DEF GatewayState
    <3> QED
      BY <1>1, <2>2, <2>3, <3>1, <3>2, <3>3, GatewayWrites
  <2>4. ASSUME NEW h \in GatewayKeys, CollectGateway(h) PROVE FALSE
    <3> DEFINE o == API(gateways)[h]
               n == IF LivingOwners(o) = {} THEN NoGateway ELSE [o EXCEPT !.owners = LivingOwners(o)]
    <3>1. /\ o \in GatewayRec /\ n \in GatewayRec
          /\ LivingOwners(o) # {} => n.ex = o.ex
      BY <2>1, EmptyObjects DEF GatewayState, GatewayRec, LivingOwners, NoGateway
    <3>2. API(gateways') = [API(gateways) EXCEPT ![h] = n]
      BY <1>1, <2>4, <3>1, WriteGatewayType DEF CollectGateway, TypeOK
    <3>3. CASE LivingOwners(o) = {}
      BY <2>1, <3>2, <3>3 DEF GatewayState, LivingOwners
    <3>4. CASE LivingOwners(o) # {}
      BY <2>1, <3>1, <3>2, <3>4 DEF GatewayState
    <3> QED
      BY <3>3, <3>4
  <2>5. CASE Deliver \/ Restart
    BY <1>1, <2>1, <2>2, <2>5, Bounds, TailWindow, FreshWindow
    DEF Deliver, DeliverIngresses, DeliverGateways, DeliverRoutes, Restart, TypeOK
  <2>6. CASE Users
    <3>1. Edited
      BY <2>6 DEF Users, CreateIngress, EditIngress, DeleteIngress, ToggleExternalGateway
    <3> QED
      BY <2>1, <3>1 DEF Edited
  <2>7. CASE UNCHANGED gateways
    BY <2>2, <2>7
  <2> QED
    BY <1>1, <2>3, <2>4, <2>5, <2>6, <2>7
    DEF Next, Fetch, CallFails, TimerFires, Resync, Collect, CollectRoute, kinds, vars
<1>2. TypeOK /\ TypeOK' /\ Shown /\ [ReadNext]_readVars => Shown'
  BY ShownNext
<1>3. [ReadNext]_readVars => [Next]_vars
  BY ReadIsNext
<1>4. ASSUME A PROVE [A]_readVars
  BY <1>4
<1> QED
  BY <1>1, <1>2, <1>3, ListsInit, ReadIsSpec, TypeCorrect, PTL DEF ReadSpec, LastOwnerShown

(* When an Ingress loses the finalizer, every managed Gateway that still     *)
(* names it was overlooked: whatever the list showed has been left, and      *)
(* nobody has joined since (reconciler.go 107-108, 394-421).                 *)
THEOREM TheListedAreReleased == ReadSpec => ReleasedWhatIsListed
<1> DEFINE A == \A i \in Ingresses :
                  LET o == API(ingresses)[i] IN
                  o.fin /\ ~API(ingresses')[i].fin =>
                    \A g \in GatewayKeys :
                      ~IsExternalGateway(g) /\ <<i, o.gen>> \in API(gateways)[g].owners =>
                        <<g, <<i, o.gen>>>> \in overlooked
<1>1. ASSUME TypeOK, StillListed, [Next]_vars PROVE A
  BY <1>1, FinalizerGoes DEF StillListed, me
<1>2. TypeOK /\ TypeOK' /\ StillListed /\ [ReadNext]_readVars => StillListed'
  BY StillListedNext
<1>3. [ReadNext]_readVars => [Next]_vars
  BY ReadIsNext
<1> QED
  BY <1>1, <1>2, <1>3, ListsInit, ReadIsSpec, TypeCorrect, PTL DEF ReadSpec, ReleasedWhatIsListed

-----------------------------------------------------------------------------
(* Who holds what: as long as something names an Ingress, the Ingress has    *)
(* the finalizer.                                                            *)

(* An Ingress is born again only after it was gone. *)
LEMMA GenStep ==
  ASSUME TypeOK, TypeOK', [Next]_vars, NEW i \in Ingresses
  PROVE  LET o == API(ingresses)[i]  n == API(ingresses')[i] IN
         /\ o.gen \in Nat /\ n.gen \in Nat /\ o.gen <= n.gen
         /\ o.ex => n.gen = o.gen
         /\ n.ex /\ ~o.ex => o.gen < n.gen
<1>1. API(ingresses) \in IngressState /\ API(ingresses') \in IngressState
  BY Bounds, WindowStates DEF TypeOK
<1>2. /\ API(ingresses)[i] \in IngressRec /\ API(ingresses')[i] \in IngressRec
      /\ pc # "idle" => key \in Ingresses /\ obj \in IngressRec /\ obj.ex
  BY <1>1 DEF IngressState, TypeOK, LocalOK
<1>3. API(ingresses)[i].gen \in Nat /\ API(ingresses')[i].gen \in Nat
  BY <1>2 DEF IngressRec
<1>4. CASE API(ingresses') = API(ingresses)
  BY <1>3, <1>4
<1>5. ASSUME pc # "idle", API(ingresses)[key] = obj, NEW n,
             n.gen = obj.gen, API(ingresses') = [API(ingresses) EXCEPT ![key] = n]
      PROVE  \/ API(ingresses')[i] = API(ingresses)[i]
             \/ API(ingresses)[i].ex /\ API(ingresses')[i].gen = API(ingresses)[i].gen
  <2>1. CASE i = key
    BY <1>1, <1>2, <1>5, <2>1 DEF IngressState
  <2>2. CASE i # key
    BY <1>1, <1>5, <2>2 DEF IngressState
  <2> QED
    BY <2>1, <2>2
<1>6. ASSUME pc = "addFinalizer", API(ingresses)[key] = obj,
             API(ingresses') = [API(ingresses) EXCEPT ![key] = [obj EXCEPT !.fin = TRUE]]
      PROVE  \/ API(ingresses')[i] = API(ingresses)[i]
             \/ API(ingresses)[i].ex /\ API(ingresses')[i].gen = API(ingresses)[i].gen
  <2>1. [obj EXCEPT !.fin = TRUE].gen = obj.gen
    BY <1>2, <1>6 DEF IngressRec
  <2> QED
    BY <1>5, <1>6, <2>1
<1>7. ASSUME pc = "detach", API(ingresses)[key] = obj,
             API(ingresses') = [API(ingresses) EXCEPT ![key] =
                                  IF obj.del THEN Gone(obj) ELSE [obj EXCEPT !.fin = FALSE]]
      PROVE  \/ API(ingresses')[i] = API(ingresses)[i]
             \/ API(ingresses)[i].ex /\ API(ingresses')[i].gen = API(ingresses)[i].gen
  <2>1. (IF obj.del THEN Gone(obj) ELSE [obj EXCEPT !.fin = FALSE]).gen = obj.gen
    BY <1>2, <1>7 DEF IngressRec, Gone
  <2> QED
    BY <1>5, <1>7, <2>1
<1>8. ASSUME NEW j \in Ingresses, NEW n \in IngressRec,
             API(ingresses') = [API(ingresses) EXCEPT ![j] = n],
             n.gen = IF API(ingresses)[j].ex THEN API(ingresses)[j].gen ELSE API(ingresses)[j].gen + 1
      PROVE  \/ API(ingresses')[i] = API(ingresses)[i]
             \/ API(ingresses')[i].gen = IF API(ingresses)[i].ex THEN API(ingresses)[i].gen
                                                                 ELSE API(ingresses)[i].gen + 1
  BY <1>1, <1>8 DEF IngressState
<1> QED
  BY <1>3, <1>4, <1>6, <1>7, <1>8, IngressWrites

(* A UID that has been given out does not come to life again. *)
LEMMA AliveBack ==
  ASSUME TypeOK, TypeOK', [Next]_vars, NEW u \in Uids, u[2] <= API(ingresses)[u[1]].gen, Alive(u)'
  PROVE  Alive(u)
<1> DEFINE o == API(ingresses)[u[1]]
           n == API(ingresses')[u[1]]
<1>1. u[1] \in Ingresses /\ u[2] \in Nat
  BY DEF Uids
<1>2. /\ o.gen \in Nat /\ n.gen \in Nat /\ o.gen <= n.gen
      /\ o.ex => n.gen = o.gen
      /\ n.ex /\ ~o.ex => o.gen < n.gen
  BY <1>1, GenStep
<1>3. n.ex /\ n.gen = u[2]
  BY DEF Alive
<1> HIDE DEF o, n
<1>4. o.ex /\ o.gen = u[2]
  BY <1>1, <1>2, <1>3 DEF o
<1> QED
  BY <1>4 DEF Alive, o

(* A reference that is added is added by createOrUpdateGateway. *)
LEMMA OwnerJoins ==
  ASSUME TypeOK, [Next]_vars, NEW g \in GatewayKeys, NEW u \in API(gateways')[g].owners,
         u \notin API(gateways)[g].owners, API(gateways') \in GatewayState
  PROVE  /\ pc = "ensureGateway" /\ pc' = "ensureRoutes"
         /\ g = want.key /\ u = me /\ UNCHANGED ingresses
<1>1. pc = "ensureGateway" /\ u = me
  BY OwnersAdded DEF me
<1>2. API(gateways) \in GatewayState
  BY Bounds, WindowStates DEF TypeOK
<1>3. Work
  <2>1. ASSUME NEW h \in GatewayKeys, NEW n \in GatewayRec,
               API(gateways') = [API(gateways) EXCEPT ![h] = n],
               n.owners \subseteq API(gateways)[h].owners
        PROVE  FALSE
    BY <1>2, <2>1 DEF GatewayState
  <2>2. ASSUME NEW h \in GatewayKeys, NEW n \in GatewayRec,
               IF LivingOwners(API(gateways)[h]) = {}
                 THEN n = NoGateway
                 ELSE n = [API(gateways)[h] EXCEPT !.owners = LivingOwners(API(gateways)[h])]
        PROVE  n.owners \subseteq API(gateways)[h].owners
    <3>1. NoGateway.owners = {}
      BY DEF NoGateway
    <3>2. API(gateways)[h] \in GatewayRec
      BY <1>2 DEF GatewayState
    <3>3. CASE LivingOwners(API(gateways)[h]) # {}
      BY <2>2, <3>2, <3>3 DEF GatewayRec, LivingOwners
    <3> QED
      BY <2>2, <3>1, <3>3
  <2> QED
    BY <2>1, <2>2, GatewayChanges
<1>4. g = want.key
  <2>1. pc # "detach"
    BY <1>1
  <2>2. ASSUME want.key \in GatewayKeys, want.key # g, NEW n \in GatewayRec,
               API(gateways') = [API(gateways) EXCEPT ![want.key] = n]
        PROVE  FALSE
    BY <1>2, <2>2 DEF GatewayState
  <2> QED
    BY <1>3, <2>1, <2>2, GatewayWrites
<1>5. EnsureGateway
  BY <1>1, <1>3
  DEF Work, AddFinalizer, Convert, EnsureRoute, Finish, CleanRoutes, ListGateways, Detach, RemoveFinalizer
<1>6. pc' = "ensureRoutes" /\ UNCHANGED ingresses
  BY <1>5 DEF EnsureGateway
<1> QED
  BY <1>1, <1>4, <1>6

LEMMA OwnersHeldNext ==
  ASSUME TypeOK, TypeOK', Incarnations, StillListed, OwnersHeld, [ReadNext]_readVars
  PROVE  OwnersHeld'
<1> SUFFICES ASSUME NEW g \in GatewayKeys \ DOMAIN Preexisting, ~IsExternalGateway(g),
                    NEW u \in API(gateways')[g].owners, Alive(u)', ~API(ingresses')[u[1]].fin
             PROVE  <<g, u>> \in overlooked'
  BY DEF OwnersHeld, IsExternalGateway
<1>1. /\ [Next]_vars
      /\ API(gateways') \in GatewayState /\ API(gateways) \in GatewayState
      /\ API(ingresses) \in IngressState /\ Cache(ingresses) \in IngressState
  BY Bounds, WindowStates, ReadIsNext DEF TypeOK
<1>2. u \in Uids /\ u[1] \in Ingresses /\ u[2] \in Nat /\ u = <<u[1], u[2]>>
  BY <1>1 DEF GatewayState, GatewayRec, Uids
<1>3. CASE u \notin API(gateways)[g].owners
  <2>1. /\ pc = "ensureGateway" /\ pc' = "ensureRoutes" /\ g = want.key /\ u = me
        /\ UNCHANGED ingresses
    BY <1>1, <1>3, OwnerJoins
  <2>2. Outdated
    BY <2>1 DEF Outdated, me
  <2>3. ReadGateways
    BY <2>1 DEF ReadNext, readVars, vars, local
  <2> QED
    BY <2>1, <2>2, <2>3 DEF ReadGateways
<1>4. CASE u \in API(gateways)[g].owners
  <2>1. u[2] <= API(ingresses)[u[1]].gen
    <3>1. u[2] <= Cache(ingresses)[u[1]].gen
      BY <1>4 DEF Incarnations
    <3>2. Cache(ingresses)[u[1]].gen <= API(ingresses)[u[1]].gen
      <4>1. 1 \in 1..Len(ingresses) /\ Len(ingresses) \in 1..Len(ingresses) /\ 1 <= Len(ingresses)
        BY DEF TypeOK, IsWindow
      <4> QED
        BY <1>2, <4>1 DEF Incarnations, Growing, Cache, API
    <3>3. Cache(ingresses)[u[1]].gen \in Nat /\ API(ingresses)[u[1]].gen \in Nat
      BY <1>1, <1>2, GensAreNat
    <3> QED
      BY <1>2, <3>1, <3>2, <3>3
  <2>2. Alive(u)
    BY <1>1, <1>2, <2>1, AliveBack
  <2>3. CASE API(ingresses)[u[1]].fin
    <3>1. pc = "detach" /\ DOMAIN detach = {} /\ u[1] = key /\ API(ingresses)[key] = obj
      BY <1>1, <1>2, <2>3, FinalizerGoes
    <3>2. u = me
      BY <1>2, <2>2, <3>1 DEF Alive, me
    <3>3. <<g, u>> \in overlooked
      BY <1>4, <3>1, <3>2 DEF StillListed
    <3>4. overlooked' = overlooked
      BY <3>1 DEF ReadNext, ReadGateways, readVars, history
    <3> QED
      BY <3>3, <3>4
  <2>4. CASE ~API(ingresses)[u[1]].fin
    <3>1. <<g, u>> \in overlooked
      BY <1>4, <2>2, <2>4 DEF OwnersHeld
    <3>2. <<g, u>> = <<want.key, me>> => Outdated
      BY <2>4 DEF Outdated, me
    <3> QED
      BY <3>1, <3>2 DEF ReadNext, ReadGateways, readVars, history
  <2> QED
    BY <2>3, <2>4
<1> QED
  BY <1>3, <1>4

(* A living Ingress that a managed Gateway names as an owner has the         *)
(* finalizer, unless it was overlooked, whatever the age of the caches,      *)
(* whatever fails, and whoever else shares the Gateway: the finalizer comes  *)
(* before the reference and goes after it (reconciler.go 158-166, 277, 375). *)
THEOREM OwnersAreHeld == ReadSpec => []OwnersHeld
<1> DEFINE Inv == Incarnations /\ StillListed /\ OwnersHeld
<1>1. ReadInit => Inv
  <2>1. ASSUME ReadInit, NEW g \in GatewayKeys \ DOMAIN Preexisting PROVE API(gateways)[g].owners = {}
    <3>1. PICK G \in GatewayState : gateways = <<G>> /\ \A h \in GatewayKeys : AtStart(G[h], h)
      BY <2>1, GatewaysAtStart DEF ReadInit
    <3>2. API(gateways) = G /\ AtStart(G[g], g)
      BY <2>1, <3>1 DEF API
    <3>3. NoGateway.owners = {}
      BY DEF NoGateway
    <3> QED
      BY <2>1, <3>2, <3>3 DEF AtStart
  <2>2. ReadInit => OwnersHeld
    BY <2>1 DEF OwnersHeld
  <2> QED
    BY <2>2, IncarnationsInit, ListsInit DEF ReadInit
<1>2. TypeOK /\ TypeOK' /\ Inv /\ [ReadNext]_readVars => Inv'
  BY ReadIsNext, IncarnationsNext, StillListedNext, OwnersHeldNext
<1> QED
  BY <1>1, <1>2, ReadIsSpec, TypeCorrect, PTL DEF ReadSpec

(* Once the routes are cleaned up, those still tracked to the Ingress are    *)
(* the strays.                                                               *)
OnlyStrays ==
  pc \in {"listGateways", "detach"} =>
    \A id \in RouteIds : SourceOf(API(routes)[id]) = key => id \in strays

(* A clean-up that lists its Gateways has come to the end of its routes. *)
LEMMA NothingToDo ==
  ASSUME [Next]_vars, pc \in {"listGateways", "detach"}, pc' \in {"listGateways", "detach"}
  PROVE  UNCHANGED todo
<1>1. ~Return
  BY DEF Return
<1>2. CASE Work
  BY <1>1, <1>2
  DEF Work, AddFinalizer, Convert, EnsureGateway, EnsureRoute, Finish, CleanRoutes, ListGateways,
      Detach, RemoveFinalizer, Fail
<1>3. CASE \E i \in Ingresses : Fetch(i)
  BY <1>3 DEF Fetch
<1>4. CASE CallFails \/ Restart
  BY <1>1, <1>4 DEF CallFails, Restart, Fail
<1>5. CASE Deliver \/ (\E d \in delayed : TimerFires(d)) \/ Resync \/ Users \/ Collect \/ UNCHANGED vars
  BY <1>5
  DEF Deliver, DeliverIngresses, DeliverGateways, DeliverRoutes, TimerFires, Resync, Users,
      CreateIngress, EditIngress, DeleteIngress, ToggleExternalGateway, Edited,
      Collect, CollectGateway, CollectRoute, local, vars
<1> QED
  BY <1>2, <1>3, <1>4, <1>5 DEF Next

(* What the clean-up does not delete, it has not found. *)
LEMMA CleanRoutesLeaves ==
  ASSUME TypeOK, pc = "cleanRoutes", DeleteRoutes(Orphans),
         NEW id \in RouteIds, SourceOf(API(routes')[id]) = key
  PROVE  id \notin Orphans /\ SourceOf(API(routes)[id]) = key
<1> DEFINE s == [r \in RouteIds |-> IF r \in Orphans THEN NoRoute ELSE API(routes)[r]]
<1>1. API(routes) \in RouteState /\ key \in Ingresses /\ key # None
  BY Bounds, WindowStates, ConversionAssumption DEF TypeOK, LocalOK
<1>2. SourceOf(NoRoute) = None
  BY DEF SourceOf, NoRoute
<1>3. s \in RouteState /\ s[id] = IF id \in Orphans THEN NoRoute ELSE API(routes)[id]
  BY <1>1, EmptyObjects DEF RouteState
<1>4. CASE \E r \in Orphans : API(routes)[r].ex
  <2>1. routes' = Push(routes, s, RouteLag)
    BY <1>4 DEF DeleteRoutes
  <2> HIDE DEF s
  <2>2. API(routes') = s
    BY <1>3, <2>1, Bounds, PushWindow DEF TypeOK
  <2> QED
    BY <1>1, <1>2, <1>3, <2>2
<1>5. CASE ~\E r \in Orphans : API(routes)[r].ex
  <2>1. routes' = routes
    BY <1>5 DEF DeleteRoutes
  <2>2. API(routes)[id].ex
    BY <1>1, <2>1 DEF SourceOf
  <2> QED
    BY <1>5, <2>1, <2>2
<1> QED
  BY <1>4, <1>5

LEMMA OnlyStraysNext ==
  ASSUME TypeOK, TypeOK', OnlyStrays, [ReadNext]_readVars
  PROVE  OnlyStrays'
<1> SUFFICES ASSUME pc' \in {"listGateways", "detach"}, NEW id \in RouteIds,
                    SourceOf(API(routes')[id]) = key'
             PROVE  id \in strays'
  BY DEF OnlyStrays, SourceOf
<1>1. [Next]_vars /\ key' # None
  BY ReadIsNext, ConversionAssumption DEF TypeOK, LocalOK
<1>2. CASE pc \in {"listGateways", "detach"} /\ UNCHANGED key
  <2>1. SourceOf(API(routes)[id]) = key
    BY <1>1, <1>2, SourcesGiven
  <2>2. id \in strays
    BY <1>2, <2>1 DEF OnlyStrays
  <2>3. Written = {}
    BY <1>1, <1>2, NothingToDo DEF Written
  <2> QED
    BY <1>2, <2>2, <2>3 DEF ReadNext, ReadRoutes, readVars, history
<1>3. CASE /\ pc = "cleanRoutes" /\ pc' = "listGateways" /\ UNCHANGED key /\ DeleteRoutes(Orphans)
           /\ \A k \in DOMAIN Kinds : Kinds[k] \in ListableKinds
  <2>1. id \notin ShownRoutes /\ SourceOf(API(routes)[id]) = key
    <3>1. id.kind \in ListableKinds
      BY <1>3, KindsKnown
    <3> QED
      BY <1>3, <3>1, CleanRoutesLeaves DEF Orphans, ShownRoutes
  <2>2. ReadRoutes
    BY <1>3 DEF ReadNext, readVars, vars, local
  <2> QED
    BY <1>3, <2>1, <2>2 DEF ReadRoutes
<1> QED
  BY <1>1, <1>2, <1>3, LeavingMoves DEF ListGateways

(* A route that is there was there, or has just been written. *)
LEMMA RouteWrites ==
  ASSUME TypeOK, [Next]_vars, NEW id \in RouteIds, API(routes')[id].ex
  PROVE  \/ API(routes)[id].ex /\ API(routes')[id].body = API(routes)[id].body
         \/ id \in DOMAIN todo \ DOMAIN todo' /\ pc = "ensureRoutes" /\ UNCHANGED ingresses
<1> DEFINE Goal ==
         \/ API(routes)[id].ex /\ API(routes')[id].body = API(routes)[id].body
         \/ id \in DOMAIN todo \ DOMAIN todo' /\ pc = "ensureRoutes" /\ UNCHANGED ingresses
<1> SUFFICES Goal
  OBVIOUS
<1>1. API(routes) \in RouteState /\ Cache(routes) \in RouteState /\ ~NoRoute.ex
  BY Bounds, WindowStates DEF TypeOK, NoRoute
<1>2. CASE API(routes') = API(routes)
  BY <1>2
<1>3. ASSUME NEW r \in RouteIds, NEW n \in RouteRec, WriteRoute(r, n)
      PROVE  API(routes')[id] = IF id = r THEN n ELSE API(routes)[id]
  <2> DEFINE s == [API(routes) EXCEPT ![r] = n]
  <2>1. s \in RouteState /\ s[id] = IF id = r THEN n ELSE API(routes)[id]
    BY <1>1 DEF RouteState
  <2>2. routes' = Push(routes, s, RouteLag)
    BY <1>3 DEF WriteRoute
  <2> HIDE DEF s
  <2> QED
    BY <2>1, <2>2, Bounds, PushWindow DEF TypeOK
<1>4. ASSUME NEW r \in DOMAIN todo, EnsureRoute(r) PROVE Goal
  <2> DEFINE new == [ ex     |-> TRUE,
                      body   |-> todo[r].body,
                      owners |-> SetOwner(KeptOwners(Cache(routes)[r]), todo[r].owner, NsOf[r.ing]) ]
  <2>1. r \in RouteIds /\ todo[r] \in [body : BodyRec, owner : Uids]
    BY DEF TypeOK, LocalOK
  <2>2. KeptOwners(Cache(routes)[r]) \in SUBSET Uids
    BY <1>1, <2>1 DEF RouteState, RouteRec, KeptOwners
  <2>3. new \in RouteRec
    BY <2>1, <2>2, SetOwnerType DEF RouteRec
  <2>4. \/ UNCHANGED routes
        \/ /\ WriteRoute(r, new) /\ pc = "ensureRoutes" /\ UNCHANGED ingresses
           /\ todo' = [q \in DOMAIN todo \ {r} |-> todo[q]]
    BY <1>4 DEF EnsureRoute
  <2> HIDE DEF new
  <2> QED
    BY <1>2, <1>3, <2>1, <2>3, <2>4
<1>5. ASSUME NEW S, DeleteRoutes(S) PROVE Goal
  <2> DEFINE s == [r \in RouteIds |-> IF r \in S THEN NoRoute ELSE API(routes)[r]]
  <2>1. s \in RouteState /\ s[id] = IF id \in S THEN NoRoute ELSE API(routes)[id]
    BY <1>1, EmptyObjects DEF RouteState
  <2>2. routes' = Push(routes, s, RouteLag) \/ routes' = routes
    BY <1>5 DEF DeleteRoutes
  <2> HIDE DEF s
  <2>3. API(routes') = s \/ routes' = routes
    BY <2>1, <2>2, Bounds, PushWindow DEF TypeOK
  <2> QED
    BY <1>1, <1>2, <2>1, <2>3
<1>6. ASSUME NEW r \in RouteIds, CollectRoute(r) PROVE Goal
  <2> DEFINE o == API(routes)[r]
             n == IF LivingOwners(o) = {} THEN NoRoute ELSE [o EXCEPT !.owners = LivingOwners(o)]
  <2>1. n \in RouteRec /\ (n.ex => o.ex /\ n.body = o.body)
    BY <1>1, EmptyObjects DEF RouteState, RouteRec, LivingOwners
  <2>2. WriteRoute(r, n)
    BY <1>6 DEF CollectRoute
  <2> HIDE DEF n
  <2> QED
    BY <1>3, <2>1, <2>2
<1>7. CASE Deliver \/ Restart
  BY <1>1, <1>2, <1>7, Bounds, TailWindow, FreshWindow
  DEF Deliver, DeliverIngresses, DeliverGateways, DeliverRoutes, Restart, TypeOK
<1>8. CASE UNCHANGED routes
  BY <1>2, <1>8
<1> QED
  BY <1>4, <1>5, <1>6, <1>7, <1>8
  DEF Next, Fetch, Work, AddFinalizer, Convert, ConvertIn, EnsureGateway, Finish,
      CleanRoutes, ListGateways, Detach, RemoveFinalizer, CallFails, TimerFires, Resync, Users,
      CreateIngress, EditIngress, DeleteIngress, ToggleExternalGateway, Collect, CollectGateway,
      kinds, vars

LEMMA IngressesOrRoutes ==
  ASSUME TypeOK, [Next]_vars
  PROVE  API(ingresses') = API(ingresses) \/ API(routes') = API(routes)
<1>1. CASE Restart \/ Deliver
  BY <1>1, Bounds, WindowStates, TailWindow, FreshWindow
  DEF Deliver, DeliverIngresses, DeliverGateways, DeliverRoutes, Restart, TypeOK
<1>2. CASE ~(Restart \/ Deliver)
  BY <1>2
  DEF Next, Fetch, Work, AddFinalizer, Convert, ConvertIn, EnsureGateway, EnsureRoute, Finish,
      CleanRoutes, ListGateways, Detach, RemoveFinalizer, CallFails, TimerFires, Resync, Users,
      CreateIngress, EditIngress, DeleteIngress, ToggleExternalGateway, Collect, CollectGateway,
      CollectRoute, kinds, vars
<1> QED
  BY <1>1, <1>2

LEMMA RoutesHeldNext ==
  ASSUME TypeOK, TypeOK', OnlyStrays, RoutesHeld, [ReadNext]_readVars
  PROVE  RoutesHeld'
<1> SUFFICES ASSUME NEW id \in RouteIds, NEW i, API(routes')[id].ex, i = API(routes')[id].body.source,
                    ~(i \in Ingresses /\ API(ingresses')[i].fin)
             PROVE  id \in strays'
  BY DEF RoutesHeld, HasFinalizer
<1>1. [Next]_vars /\ API(routes') \in RouteState /\ API(routes)[id] \in RouteRec
  BY Bounds, WindowStates, ReadIsNext DEF TypeOK, RouteState
<1>2. SourceOf(API(routes')[id]) = i
  BY DEF SourceOf
<1>3. CASE id \in DOMAIN todo \ DOMAIN todo' /\ pc = "ensureRoutes" /\ UNCHANGED ingresses
           /\ API(routes')[id] # API(routes)[id]
  <2>1. id \in Written /\ ~HasFinalizer(i)
    BY <1>3 DEF Written, HasFinalizer
  <2>2. ReadRoutes
    BY <1>3 DEF ReadNext, readVars, vars, local
  <2> QED
    BY <1>2, <1>3, <2>1, <2>2 DEF ReadRoutes
<1>4. CASE API(routes)[id].ex /\ API(routes)[id].body.source = i
  <2>1. CASE ~HasFinalizer(i)
    <3>1. id \in strays
      BY <1>4, <2>1 DEF RoutesHeld
    <3> QED
      BY <1>2, <2>1, <3>1 DEF ReadNext, ReadRoutes, readVars, history
  <2>2. CASE HasFinalizer(i)
    <3>2. i \in Ingresses /\ API(ingresses)[i].fin /\ ~API(ingresses')[i].fin
      BY <2>2 DEF HasFinalizer
    <3>3. pc = "detach" /\ i = key
      BY <1>1, <3>2, FinalizerGoes
    <3>4. id \in strays
      BY <1>4, <3>3 DEF OnlyStrays, SourceOf
    <3>5. id \notin Written
      BY <1>1, <3>2, IngressesOrRoutes DEF Written
    <3> QED
      BY <3>3, <3>4, <3>5 DEF ReadNext, ReadRoutes, readVars, history
  <2> QED
    BY <2>1, <2>2
<1> QED
  BY <1>1, <1>3, <1>4, RouteWrites

(* A route is there only while the Ingress it is tracked to has the          *)
(* finalizer, so that somebody deletes it in the end, unless the history     *)
(* names it: whoever gives up the finalizer has deleted every other one, and *)
(* nobody has made one for him since (reconciler.go 107-108, 299-341,        *)
(* 426-493).                                                                 *)
THEOREM RoutesAreHeld == ReadSpec => []RoutesHeld
<1> DEFINE Inv == OnlyStrays /\ RoutesHeld
<1>1. ReadInit => Inv
  <2>1. ASSUME ReadInit, NEW id \in RouteIds PROVE ~API(routes)[id].ex
    <3>1. API(routes) = [r \in RouteIds |-> NoRoute]
      BY <2>1 DEF ReadInit, Init, API
    <3> QED
      BY <3>1 DEF NoRoute
  <2>2. ReadInit => OnlyStrays
    BY DEF ReadInit, Init, OnlyStrays
  <2> QED
    BY <2>1, <2>2 DEF RoutesHeld
<1>2. TypeOK /\ TypeOK' /\ Inv /\ [ReadNext]_readVars => Inv'
  BY OnlyStraysNext, RoutesHeldNext
<1> QED
  BY <1>1, <1>2, ReadIsSpec, TypeCorrect, PTL DEF ReadSpec

-----------------------------------------------------------------------------
(* The Gateway.  Of an Ingress that has to be served by a managed Gateway of *)
(* its namespace the reference on it stays; and where only Ingresses of that *)
(* namespace share the Gateway its hosts stay listed, for whoever writes the *)
(* Gateway meanwhile converts all of them.                                   *)

(* The Ingress has to be served by a managed Gateway. *)
Wants(o) ==
  /\ o.ex /\ ~Leaving(o) /\ ConfigValid(o.spec)
  /\ ~TargetsExternal(o.spec) /\ o.spec.rules # {}

HostsOf(i, s) == ListenerHosts([j \in {i} |-> s], {i}, NsOf[i])

(* ... by one that is in its namespace, so that the reference is accepted.   *)
Belongs(i, o) ==
  /\ Wants(o) /\ Target(i, o.spec).ns = NsOf[i]
  /\ ~IsExternalGateway(Target(i, o.spec))

(* Its Gateway serves the Ingress as the cache shows it. *)
Joined(i) ==
  LET o == Cache(ingresses)[i]
      t == Target(i, o.spec)
      g == API(gateways)[t]
  IN /\ g.ex /\ <<i, o.gen>> \in g.owners
     /\ Private(t) => HostsOf(i, o.spec) \subseteq g.hosts

Passed(i) ==
  LET o == Cache(ingresses)[i] IN <<Target(i, o.spec), <<i, o.gen>>>> \in overlooked

Joining(i) ==
  /\ pc \in {"addFinalizer", "convert", "ensureGateway"}
  /\ key = i /\ obj = Cache(ingresses)[i]

(* An Ingress that belongs to a Gateway is served by it, is being attended   *)
(* to, or has been overlooked.                                               *)
Fitting ==
  \A i \in Ingresses :
    Belongs(i, Cache(ingresses)[i]) =>
      Stirred(i) \/ <<i, "error">> \in delayed \/ Passed(i) \/ Joined(i) \/ Joining(i)

(* The Gateway about to be written serves every Ingress that targets it. *)
WantFits ==
  pc = "ensureGateway" =>
    /\ want.key = Target(key, obj.spec) /\ ~TargetsExternal(obj.spec)
    /\ Private(want.key) =>
         \A i \in Ingresses :
           LET o == Cache(ingresses)[i] IN
           Wants(o) /\ Target(i, o.spec) = want.key =>
             Stirred(i) \/ HostsOf(i, o.spec) \subseteq want.hosts

LEMMA ListenersOfOne ==
  ASSUME NEW merged, NEW spec, NEW j \in merged
  PROVE  HostsOf(j, spec[j]) \subseteq ListenerHosts(spec, merged, NsOf[j])
<1> SUFFICES ASSUME NEW h \in HostsOf(j, spec[j])
             PROVE  h \in ListenerHosts(spec, merged, NsOf[j])
  OBVIOUS
<1>1. PICK rule \in spec[j].rules : rule[1] # "BackendTLSPolicy" /\ h = rule[2]
  BY DEF HostsOf, ListenerHosts
<1>2. rule \in {r \in spec[j].rules : r[1] # "BackendTLSPolicy"}
  BY <1>1
<1>3. j \in {m \in merged : NsOf[m] = NsOf[j]}
  OBVIOUS
<1>4. rule \in UNION {{r \in spec[m].rules : r[1] # "BackendTLSPolicy"}
                      : m \in {m \in merged : NsOf[m] = NsOf[j]}}
  BY <1>2, <1>3
<1> QED
  BY <1>1, <1>4 DEF ListenerHosts

(* Conversion for a managed Gateway takes in every Ingress that has to be    *)
(* served by it.                                                             *)
LEMMA MergedServes ==
  ASSUME TypeOK, pc = "convert", ~TargetsExternal(obj.spec),
         NEW i \in Ingresses, Wants(Cache(ingresses)[i]),
         Target(i, Cache(ingresses)[i].spec) = Target(key, obj.spec)
  PROVE  /\ i \in Merged /\ Copy(i) = Cache(ingresses)[i]
         /\ Private(Target(key, obj.spec)) => \A j \in Merged : NsOf[j] = NsOf[i]
<1> DEFINE o == Cache(ingresses)[i]
           t == Target(key, obj.spec)
<1>1. \A j \in Ingresses : Cache(ingresses)[j].spec \in Specs[j]
  BY Bounds, WindowStates DEF TypeOK, IngressState, WellFormed
<1>2. i \in Merged /\ Copy(i) = o
  BY DEF Merged, Copy, Wants, Leaving, Selected
<1>3. ASSUME Private(t), NEW j \in Merged PROVE NsOf[j] = NsOf[i]
  <2>1. /\ j \in Ingresses /\ ConfigValid(Cache(ingresses)[j].spec)
        /\ ~TargetsExternal(Cache(ingresses)[j].spec)
        /\ Target(j, Cache(ingresses)[j].spec) = t
    BY <1>3 DEF Merged, Selected
  <2>2. NsOf[j] = t.ns
    BY <1>1, <1>3, <2>1 DEF Private
  <2>3. NsOf[i] = t.ns
    BY <1>1, <1>3 DEF Private, Wants
  <2> QED
    BY <2>2, <2>3
<1> QED
  BY <1>2, <1>3

(* What a conversion that has got through leaves to be done. *)
LEMMA ConvertEnds ==
  ASSUME TypeOK, Convert, ~Fail,
         NEW i \in Ingresses, Wants(Cache(ingresses)[i]), ~TargetsExternal(obj.spec),
         Target(i, Cache(ingresses)[i].spec) = Target(key, obj.spec)
  PROVE  /\ pc' = "ensureGateway" /\ UNCHANGED <<key, obj>>
         /\ Private(Target(key, obj.spec)) =>
              HostsOf(i, Cache(ingresses)[i].spec) \subseteq want'.hosts
<1> DEFINE o       == Cache(ingresses)[i]
           spec    == [j \in Merged |-> Copy(j).spec]
           emitted == GatewayNamespaces(spec, Merged)
<1>1. PICK order \in ListOrders(Merged), unseen \in BOOLEAN : ConvertIn(order, unseen)
  BY DEF Convert
<1>2. /\ i \in Merged /\ Copy(i) = o
      /\ Private(Target(key, obj.spec)) => \A j \in Merged : NsOf[j] = NsOf[i]
  BY MergedServes DEF Convert
<1>3. spec[i] = o.spec /\ spec[i].rules # {}
  BY <1>2 DEF Wants
<1>4. /\ NsOf[i] \in emitted
      /\ (\A j \in Merged : NsOf[j] = NsOf[i]) => emitted = {NsOf[i]}
  BY <1>2, <1>3 DEF GatewayNamespaces
<1>5. /\ \E ns \in emitted : want' = WantedGateway(Merged, ns)
      /\ pc' = "ensureGateway" /\ UNCHANGED <<key, obj>>
  BY <1>1, <1>2, <1>4 DEF ConvertIn
<1>6. \A ns : WantedGateway(Merged, ns).hosts = ListenerHosts(spec, Merged, ns)
  BY DEF WantedGateway
<1> HIDE DEF spec, emitted
<1>7. HostsOf(i, spec[i]) \subseteq ListenerHosts(spec, Merged, NsOf[i])
  BY <1>2, ListenersOfOne
<1>8. ASSUME Private(Target(key, obj.spec))
      PROVE  HostsOf(i, Cache(ingresses)[i].spec) \subseteq want'.hosts
  <2>1. want' = WantedGateway(Merged, NsOf[i])
    BY <1>2, <1>4, <1>5, <1>8
  <2>2. want'.hosts = ListenerHosts(spec, Merged, NsOf[i])
    BY <1>6, <2>1
  <2> QED
    BY <1>3, <1>7, <2>2
<1> QED
  BY <1>5, <1>8

(* Nothing else gives the worker a Gateway to ensure. *)
LEMMA WantComes ==
  ASSUME TypeOK, [Next]_vars, pc' = "ensureGateway"
  PROVE  \/ Convert /\ ~Fail
         \/ pc = "ensureGateway" /\ UNCHANGED <<key, obj, want>>
<1>1. ~Fail /\ ~Return
  BY DEF Fail, Return
<1>2. CASE Work
  <2>1. ~AddFinalizer /\ ~EnsureGateway /\ ~Finish /\ ~RemoveFinalizer
    BY <1>1 DEF AddFinalizer, EnsureGateway, Finish, RemoveFinalizer, Goto
  <2>2. ~CleanRoutes /\ ~ListGateways
    BY <1>1 DEF CleanRoutes, ListGateways, Goto
  <2>3. ASSUME NEW id \in DOMAIN todo, EnsureRoute(id) PROVE FALSE
    BY <1>1, <2>3 DEF EnsureRoute
  <2>4. ASSUME NEW g \in DOMAIN detach, Detach(g) PROVE FALSE
    BY <1>1, <2>4 DEF Detach
  <2> QED
    BY <1>1, <1>2, <2>1, <2>2, <2>3, <2>4 DEF Work, Convert, ConvertIn
<1>3. CASE \E i \in Ingresses : Fetch(i)
  BY <1>3 DEF Fetch, local
<1>4. CASE CallFails \/ Restart
  BY <1>1, <1>4 DEF CallFails, Restart
<1>5. CASE Deliver \/ (\E d \in delayed : TimerFires(d)) \/ Resync \/ Users \/ Collect \/ UNCHANGED vars
  BY <1>5
  DEF Deliver, DeliverIngresses, DeliverGateways, DeliverRoutes, TimerFires, Resync, Users,
      CreateIngress, EditIngress, DeleteIngress, ToggleExternalGateway, Edited,
      Collect, CollectGateway, CollectRoute, local, vars
<1> QED
  BY <1>2, <1>3, <1>4, <1>5 DEF Next

LEMMA WantFitsNext ==
  ASSUME TypeOK, TypeOK', WantFits, [Next]_vars
  PROVE  WantFits'
<1> SUFFICES ASSUME pc' = "ensureGateway"
             PROVE  /\ want'.key = Target(key', obj'.spec) /\ ~TargetsExternal(obj'.spec)
                    /\ Private(want'.key) =>
                         \A i \in Ingresses :
                           LET o == Cache(ingresses')[i] IN
                           Wants(o) /\ Target(i, o.spec) = want'.key =>
                             Stirred(i)' \/ HostsOf(i, o.spec) \subseteq want'.hosts
  BY DEF WantFits, Private
<1>1. CASE Convert /\ ~Fail
  <2>1. PICK order \in ListOrders(Merged), unseen \in BOOLEAN : ConvertIn(order, unseen)
    BY <1>1 DEF Convert
  <2>2. /\ ~TargetsExternal(obj.spec) /\ UNCHANGED <<key, obj, ingresses>>
        /\ \E ns : want' = WantedGateway(Merged, ns)
    BY <1>1, <2>1 DEF ConvertIn, kinds
  <2>3. want'.key = Target(key, obj.spec)
    BY <2>2 DEF WantedGateway
  <2>4. ASSUME Private(want'.key), NEW i \in Ingresses, Wants(Cache(ingresses)[i]),
               Target(i, Cache(ingresses)[i].spec) = want'.key
        PROVE  HostsOf(i, Cache(ingresses)[i].spec) \subseteq want'.hosts
    BY <1>1, <2>2, <2>3, <2>4, ConvertEnds
  <2> QED
    BY <2>2, <2>3, <2>4
<1>2. CASE pc = "ensureGateway" /\ UNCHANGED <<key, obj, want>>
  <2>1. ASSUME NEW i \in Ingresses
        PROVE  /\ Stirred(i) => Stirred(i)'
               /\ Cache(ingresses')[i] # Cache(ingresses)[i] => Stirred(i)'
    <3>1. ~Fetch(i) /\ ~Restart
      BY <1>2 DEF Fetch, Restart, Return
    <3> QED
      BY <3>1, StirKept
  <2>2. ASSUME Private(want'.key), NEW i \in Ingresses, Wants(Cache(ingresses')[i]), ~Stirred(i)',
               Target(i, Cache(ingresses')[i].spec) = want'.key
        PROVE  HostsOf(i, Cache(ingresses')[i].spec) \subseteq want'.hosts
    BY <1>2, <2>1, <2>2 DEF WantFits
  <2> QED
    BY <1>2, <2>2 DEF WantFits
<1> QED
  BY <1>1, <1>2, WantComes

(* createOrUpdateGateway, when it gets through. *)
LEMMA EnsureServes ==
  ASSUME TypeOK, EnsureGateway, ~Fail,
         Cache(gateways)[want.key] = API(gateways)[want.key]
  PROVE  LET g == API(gateways')[want.key] IN
         /\ pc' = "ensureRoutes" /\ g.ex /\ g.hosts = want.hosts
         /\ NsOf[key] = want.key.ns => <<key, obj.gen>> \in g.owners
<1> DEFINE g   == want.key
           old == Cache(gateways)[g]
           new == [ ex |-> TRUE, class |-> want.class,
                    owners |-> SetOwner(KeptOwners(old), <<key, obj.gen>>, g.ns),
                    hosts |-> want.hosts ]
<1>1. /\ want \in [key : GatewayKeys, class : Classes, hosts : SUBSET Hosts]
      /\ key \in Ingresses /\ obj \in IngressRec
  BY DEF EnsureGateway, TypeOK, LocalOK
<1>2. old = API(gateways)[g] /\ API(gateways) \in GatewayState
  BY Bounds, WindowStates DEF TypeOK
<1>3. new \in GatewayRec
  <2>1. <<key, obj.gen>> \in Uids
    BY <1>1 DEF Uids, IngressRec
  <2>2. KeptOwners(old) \in SUBSET Uids
    BY <1>1, <1>2 DEF GatewayState, GatewayRec, KeptOwners
  <2> QED
    BY <1>1, <2>1, <2>2, SetOwnerType DEF GatewayRec
<1>4. pc' = "ensureRoutes" /\ IF old = new THEN UNCHANGED gateways ELSE WriteGateway(g, new)
  BY DEF EnsureGateway
<1> HIDE DEF new
<1>5. API(gateways')[g] = new
  <2>1. CASE old = new
    BY <1>2, <1>4, <2>1
  <2>2. CASE WriteGateway(g, new)
    <3>1. API(gateways') = [API(gateways) EXCEPT ![g] = new]
      BY <1>1, <1>3, <2>2, WriteGatewayType DEF TypeOK
    <3> QED
      BY <1>1, <1>2, <3>1 DEF GatewayState
  <2> QED
    BY <1>4, <2>1, <2>2
<1>6. new.ex /\ new.hosts = want.hosts
  BY DEF new
<1>7. NsOf[key] = g.ns => <<key, obj.gen>> \in new.owners
  BY DEF new, SetOwner
<1> QED
  BY <1>4, <1>5, <1>6, <1>7

(* A Gateway that serves an Ingress goes on serving it. *)
LEMMA JoinedStays ==
  ASSUME TypeOK, TypeOK', Shown, FreshRequest, WantFits, [Next]_vars,
         NEW i \in Ingresses, Belongs(i, Cache(ingresses)[i]), ~Stirred(i), ~Stirred(i)',
         Cache(ingresses')[i] = Cache(ingresses)[i], Joined(i), ~Passed(i)
  PROVE  Joined(i)'
<1> DEFINE o == Cache(ingresses)[i]
           t == Target(i, o.spec)
           S == API(gateways)
           Listening(g) == Private(t) => HostsOf(i, o.spec) \subseteq g.hosts
<1>1. /\ API(ingresses) \in IngressState /\ Cache(ingresses) \in IngressState
      /\ S \in GatewayState /\ API(gateways') \in GatewayState
  BY Bounds, WindowStates DEF TypeOK
<1>2. o \in IngressRec /\ o.spec \in Specs[i] /\ t \in GatewayKeys
  BY <1>1, TargetIsGateway DEF IngressState, WellFormed
<1>3. ~IsExternalGateway(t) /\ Wants(o)
  BY DEF Belongs
<1>4. S[t].ex /\ <<i, o.gen>> \in S[t].owners /\ Listening(S[t])
  BY DEF Joined
<1>5. SUFFICES /\ API(gateways')[t].ex /\ <<i, o.gen>> \in API(gateways')[t].owners
               /\ Listening(API(gateways')[t])
  BY DEF Joined
<1> HIDE DEF o, t, S
<1>6. pc # "idle" /\ key = i => obj = o
  BY DEF FreshRequest, o
<1>7. CASE API(gateways') = S
  BY <1>4, <1>7
<1>8. ASSUME NEW h \in GatewayKeys, NEW n \in GatewayRec,
             API(gateways') = [S EXCEPT ![h] = n],
             h = t => n.ex /\ <<i, o.gen>> \in n.owners /\ Listening(n)
      PROVE  /\ API(gateways')[t].ex /\ <<i, o.gen>> \in API(gateways')[t].owners
             /\ Listening(API(gateways')[t])
  BY <1>1, <1>2, <1>4, <1>8 DEF GatewayState
<1>9. CASE Work
  <2>1. CASE /\ pc = "ensureGateway" /\ want.key \in GatewayKeys
             /\ ~Conflict(API(gateways)[want.key], want.class)
             /\ \E n \in GatewayRec :
                  /\ API(gateways') = [API(gateways) EXCEPT ![want.key] = n]
                  /\ n.ex /\ n.class = want.class
                  /\ n.owners = SetOwner(API(gateways)[want.key].owners, <<key, obj.gen>>, want.key.ns)
                  /\ n.hosts = want.hosts
    <3>1. PICK n \in GatewayRec :
            /\ API(gateways') = [S EXCEPT ![want.key] = n]
            /\ n.ex /\ n.hosts = want.hosts
            /\ n.owners = SetOwner(S[want.key].owners, <<key, obj.gen>>, want.key.ns)
      BY <2>1 DEF S
    <3>2. ASSUME want.key = t PROVE <<i, o.gen>> \in n.owners
      <4>1. CASE key = i
        BY <1>4, <1>6, <2>1, <3>1, <3>2, <4>1 DEF SetOwner
      <4>2. CASE key # i
        BY <1>4, <3>1, <3>2, <4>2 DEF SetOwner
      <4> QED
        BY <4>1, <4>2
    <3>3. ASSUME want.key = t PROVE Listening(want)
      BY <1>3, <2>1, <3>3 DEF WantFits, o, t
    <3> QED
      BY <1>8, <2>1, <3>1, <3>2, <3>3
  <2>2. ASSUME NEW g \in DOMAIN detach, NEW n \in GatewayRec,
               pc = "detach", g \in GatewayKeys,
               API(gateways') = [API(gateways) EXCEPT ![g] = n],
               \/ n = NoGateway /\ detach[g].owners \subseteq {<<key, obj.gen>>}
               \/ /\ API(gateways)[g] = detach[g]
                  /\ detach[g].owners \ {<<key, obj.gen>>} # {}
                  /\ n = [detach[g] EXCEPT !.owners = detach[g].owners \ {<<key, obj.gen>>}]
        PROVE  /\ API(gateways')[t].ex /\ <<i, o.gen>> \in API(gateways')[t].owners
               /\ Listening(API(gateways')[t])
    <3>1. Leaving(obj)
      BY <2>2 DEF TypeOK, PhaseOK, CleanUpSteps
    <3>2. <<i, o.gen>> # <<key, obj.gen>>
      BY <1>3, <1>6, <2>2, <3>1 DEF Wants
    <3>3. g = t => detach[g].owners \ {<<key, obj.gen>>} # {}
      BY <1>4, <2>2, <3>2 DEF Shown, S, Passed, me, o, t
    <3>4. ASSUME g = t
          PROVE  n.ex /\ <<i, o.gen>> \in n.owners /\ Listening(n)
      <4>1. S[t] = detach[g] /\ S[t] \in GatewayRec
            /\ n = [S[t] EXCEPT !.owners = S[t].owners \ {<<key, obj.gen>>}]
        BY <1>1, <1>2, <2>2, <3>3, <3>4 DEF S, GatewayState
      <4>2. n.ex = S[t].ex /\ n.hosts = S[t].hosts /\ n.owners = S[t].owners \ {<<key, obj.gen>>}
        BY <4>1 DEF GatewayRec
      <4> QED
        BY <1>4, <3>2, <4>2
    <3> QED
      BY <1>8, <2>2, <3>4 DEF S
  <2> QED
    BY <1>7, <1>9, <2>1, <2>2, GatewayWrites DEF S
<1>10. ASSUME NEW h \in GatewayKeys, NEW n \in GatewayRec, IsExternalGateway(h),
              API(gateways') = [API(gateways) EXCEPT ![h] = n]
       PROVE  /\ API(gateways')[t].ex /\ <<i, o.gen>> \in API(gateways')[t].owners
              /\ Listening(API(gateways')[t])
  BY <1>3, <1>8, <1>10 DEF S
<1>11. ASSUME NEW h \in GatewayKeys, NEW n \in GatewayRec,
              API(gateways') = [API(gateways) EXCEPT ![h] = n],
              IF LivingOwners(API(gateways)[h]) = {}
                THEN n = NoGateway
                ELSE n = [API(gateways)[h] EXCEPT !.owners = LivingOwners(API(gateways)[h])]
       PROVE  /\ API(gateways')[t].ex /\ <<i, o.gen>> \in API(gateways')[t].owners
              /\ Listening(API(gateways')[t])
  <2>1. API(ingresses)[i] = o
    <3>1. Len(ingresses) \in 1..Len(ingresses)
      BY DEF TypeOK, IsWindow
    <3> QED
      BY <3>1 DEF Stirred, Pending, API, o
  <2>2. <<i, o.gen>> \in LivingOwners(S[t])
    BY <1>3, <1>4, <2>1 DEF LivingOwners, Alive, Wants
  <2>3. ASSUME h = t
        PROVE  n.ex /\ <<i, o.gen>> \in n.owners /\ Listening(n)
    <3>1. S[t] \in GatewayRec /\ n = [S[t] EXCEPT !.owners = LivingOwners(S[t])]
      BY <1>1, <1>2, <1>11, <2>2, <2>3 DEF S, GatewayState
    <3>2. n.ex = S[t].ex /\ n.hosts = S[t].hosts /\ n.owners = LivingOwners(S[t])
      BY <3>1 DEF GatewayRec
    <3> QED
      BY <1>4, <2>2, <3>2
  <2> QED
    BY <1>8, <1>11, <2>3 DEF S
<1> QED
  BY <1>7, <1>9, <1>10, <1>11, GatewayChanges DEF S

(* An Ingress that has been overlooked stays so until it joins. *)
LEMMA PassedStays ==
  ASSUME TypeOK, WantFits, [ReadNext]_readVars,
         NEW i \in Ingresses, Belongs(i, Cache(ingresses)[i]), ~Stirred(i),
         Cache(ingresses')[i] = Cache(ingresses)[i], Passed(i), ~Passed(i)'
  PROVE  Joined(i)'
<1> DEFINE o == Cache(ingresses)[i]
           t == Target(i, o.spec)
<1>1. <<t, <<i, o.gen>>>> \in overlooked /\ <<t, <<i, o.gen>>>> \notin overlooked'
  BY DEF Passed
<1>2. ReadNext
  BY <1>1 DEF readVars, history
<1>3. /\ pc = "ensureGateway" /\ pc' = "ensureRoutes" /\ ~Outdated
      /\ <<t, <<i, o.gen>>>> = <<want.key, me>>
  BY <1>1, <1>2 DEF ReadNext, ReadGateways
<1>4. want.key = t /\ key = i /\ obj.gen = o.gen
  BY <1>3 DEF me
<1>5. EnsureGateway /\ ~Fail
  <2>1. [Next]_vars /\ ~Return
    BY <1>3, ReadIsNext DEF Return
  <2>2. Work
    <3>1. pc' # pc
      BY <1>3
    <3> QED
      BY <1>3, <2>1, <3>1
      DEF Next, Fetch, CallFails, Restart, Fail, Deliver, DeliverIngresses, DeliverGateways,
          DeliverRoutes, TimerFires, Resync, Users, CreateIngress, EditIngress, DeleteIngress,
          ToggleExternalGateway, Edited, Collect, CollectGateway, CollectRoute, local, vars
  <2> QED
    BY <1>3, <2>1, <2>2
    DEF Work, AddFinalizer, Convert, EnsureRoute, Finish, CleanRoutes, ListGateways, Detach,
        RemoveFinalizer, Fail
<1>6. /\ API(gateways')[t].ex /\ API(gateways')[t].hosts = want.hosts
      /\ NsOf[i] = t.ns => <<i, o.gen>> \in API(gateways')[t].owners
  BY <1>3, <1>4, <1>5, EnsureServes DEF Outdated
<1>7. Private(t) => HostsOf(i, o.spec) \subseteq want.hosts
  BY <1>3, <1>4 DEF WantFits, Belongs
<1> QED
  BY <1>6, <1>7 DEF Joined, Belongs

LEMMA FittingNext ==
  ASSUME TypeOK, TypeOK', Shown, FreshRequest, WantFits, Fitting, [ReadNext]_readVars
  PROVE  Fitting'
<1> SUFFICES ASSUME NEW i \in Ingresses, Belongs(i, Cache(ingresses')[i]), ~Stirred(i)',
                    <<i, "error">> \notin delayed'
             PROVE  Passed(i)' \/ Joined(i)' \/ Joining(i)'
  BY DEF Fitting, Belongs, IsExternalGateway, Wants, Leaving
<1> DEFINE o == Cache(ingresses)[i]
<1>0. [Next]_vars /\ Wants(Cache(ingresses')[i])
  BY ReadIsNext DEF Belongs
<1>1. i \notin queue'
  BY DEF Stirred
<1>2. CASE Fetch(i)
  <2>1. Cache(ingresses') = Cache(ingresses)
    BY <1>2 DEF Fetch, kinds
  <2>2. o.ex /\ ~Leaving(o) /\ ConfigValid(o.spec)
    BY <1>0, <2>1 DEF Wants
  <2>3. pc' \in {"addFinalizer", "convert"} /\ key' = i /\ obj' = o
    <3>1. ~MustCleanUp(o)
      BY <2>2 DEF MustCleanUp
    <3> QED
      BY <1>2, <2>2, <3>1 DEF Fetch
  <2> QED
    BY <2>1, <2>3 DEF Joining
<1>3. CASE ~Fetch(i)
  <2>1. ~Restart /\ ~Stirred(i) /\ Cache(ingresses')[i] = o
    <3>1. Cache(ingresses')[i].ex
      BY <1>0 DEF Wants
    <3> QED
      BY <1>0, <1>3, <3>1, StirKept
  <2>2. <<i, "error">> \notin delayed /\ Belongs(i, o) /\ Wants(o)
    BY <1>0, <1>1, <2>1, ErrorStays
  <2>3. CASE Passed(i)
    BY <2>1, <2>2, <2>3, PassedStays
  <2>5. CASE Joined(i) /\ ~Passed(i)
    BY <1>0, <2>1, <2>2, <2>5, JoinedStays
  <2>4. CASE Joining(i)
    <3>1. ~Fail /\ pc # "idle" /\ key = i /\ obj = o
      BY <2>4 DEF Fail, Joining
    <3>2. ~TargetsExternal(obj.spec) /\ o.spec \in Specs[i]
      BY <2>2, <3>1, Bounds, WindowStates DEF Wants, TypeOK, IngressState, WellFormed
    <3>3. CASE Convert
      BY <2>1, <2>2, <3>1, <3>2, <3>3, ConvertEnds DEF Joining
    <3>4. CASE EnsureGateway
      <4>1. /\ pc = "ensureGateway" /\ UNCHANGED ingresses
            /\ want.key = Target(i, o.spec) /\ want.key.ns = NsOf[i]
        BY <2>2, <3>1, <3>2, <3>4 DEF EnsureGateway, WantFits, Belongs
      <4>2. Private(want.key) => HostsOf(i, o.spec) \subseteq want.hosts
        BY <2>1, <2>2, <4>1 DEF WantFits
      <4>3. pc' = "ensureRoutes"
        BY <3>1, <3>4 DEF EnsureGateway
      <4>4. CASE Outdated
        <5>1. <<want.key, me>> \in overlooked'
          <6>1. ReadGateways
            BY <4>1, <4>3 DEF ReadNext, readVars, vars, local
          <6> QED
            BY <4>1, <4>3, <4>4, <6>1 DEF ReadGateways
        <5> QED
          BY <2>1, <3>1, <4>1, <5>1 DEF Passed, me
      <4>5. CASE ~Outdated
        BY <2>1, <3>1, <3>4, <4>1, <4>2, <4>5, EnsureServes DEF Joined, Outdated
      <4> QED
        BY <4>4, <4>5
    <3>5. CASE /\ AddFinalizer /\ WriteIngress(key, [obj EXCEPT !.fin = TRUE])
               /\ pc' = "convert" /\ key' = key /\ obj' = [obj EXCEPT !.fin = TRUE]
      <4>1. obj' \in IngressRec /\ WellFormed(i, obj')
        BY <3>1, <3>5 DEF TypeOK, LocalOK
      <4>2. WriteIngress(i, obj')
        BY <3>1, <3>5
      <4>3. ASSUME NEW n, WriteIngress(i, n), n \in IngressRec, WellFormed(i, n)
            PROVE  Cache(ingresses')[i] = n
        BY <4>3, WriteStirs DEF Stirred
      <4> QED
        BY <3>1, <3>5, <4>1, <4>2, <4>3 DEF Joining
    <3>6. CASE UNCHANGED <<pc, key, obj>>
      BY <2>1, <2>4, <3>6 DEF Joining
    <3>7. CASE AddFinalizer
      BY <3>1, <3>5, <3>7 DEF AddFinalizer, Goto
    <3>8. CASE Work
      BY <2>4, <3>3, <3>4, <3>7, <3>8
      DEF Work, EnsureRoute, Finish, CleanRoutes, ListGateways, Detach, RemoveFinalizer, Joining
    <3>9. CASE ~Work
      <4>1. ASSUME NEW j \in Ingresses, Fetch(j) PROVE FALSE
        BY <3>1, <4>1 DEF Fetch
      <4>2. ~CallFails
        BY <3>1 DEF CallFails
      <4>3. UNCHANGED <<pc, key, obj>>
        BY <1>0, <2>1, <3>9, <4>1, <4>2
        DEF Next, Deliver, DeliverIngresses, DeliverGateways, DeliverRoutes, TimerFires, Resync, Users,
            CreateIngress, EditIngress, DeleteIngress, ToggleExternalGateway, Edited,
            Collect, CollectGateway, CollectRoute, local, vars
      <4> QED
        BY <3>6, <4>3
    <3> QED
      BY <3>8, <3>9
  <2> QED
    BY <2>1, <2>2, <2>3, <2>4, <2>5 DEF Fitting
<1> QED
  BY <1>2, <1>3

LEMMA FittingInit == ReadInit => Fitting /\ WantFits /\ FreshRequest
BY StartStirred DEF ReadInit, Init, Fitting, WantFits, FreshRequest, Belongs, Wants

LEMMA FittingAlways == ReadSpec => []Fitting
<1> DEFINE Inv == Shown /\ FreshRequest /\ WantFits /\ Fitting
<1>1. ReadInit => Inv
  BY ListsInit, FittingInit
<1>2. TypeOK /\ TypeOK' /\ Inv /\ [ReadNext]_readVars => Inv'
  BY ReadIsNext, ShownNext, FreshRequestNext, WantFitsNext, FittingNext
<1> QED
  BY <1>1, <1>2, ReadIsSpec, TypeCorrect, PTL DEF ReadSpec

(* At rest, an Ingress that has to be served is: an error that is left in    *)
(* back-off is of one that cannot be converted.                              *)
LEMMA NeedsServed ==
  ASSUME TypeOK, Fitting, Quiet, NEW i \in Ingresses, NEW g, Needs(i, g),
         NsOf[i] = g.ns, ~IsExternalGateway(g),
         <<g, <<i, API(ingresses)[i].gen>>>> \notin overlooked
  PROVE  /\ API(gateways)[g].ex /\ <<i, API(ingresses)[i].gen>> \in API(gateways)[g].owners
         /\ Private(g) => HostsOf(i, API(ingresses)[i].spec) \subseteq API(gateways)[g].hosts
<1>1. ~Stirred(i) /\ pc = "idle" /\ Cache(ingresses) = API(ingresses)
  BY QuietStill
<1>2. Belongs(i, Cache(ingresses)[i]) /\ Target(i, Cache(ingresses)[i].spec) = g
  BY <1>1 DEF Belongs, Needs, Wants, Serving, Convertible, Selected, Leaving
<1>3. <<i, "error">> \notin delayed
  BY DEF Quiet, Needs
<1>4. ~Joining(i) /\ ~Passed(i)
  BY <1>1, <1>2 DEF Joining, Passed
<1> QED
  BY <1>1, <1>2, <1>3, <1>4 DEF Fitting, Joined

(* At rest, an Ingress finds the managed Gateway of its namespace that it    *)
(* targets there, and is one of its owners, unless it was overlooked:        *)
(* whoever left the Gateway meanwhile, from whatever namespace, has seen it  *)
(* (reconciler.go 213, 395, 553-558).                                        *)
THEOREM OwnGatewaysAreThere == ReadSpec => []OwnGatewayThere
<1>1. TypeOK /\ Fitting => OwnGatewayThere
  BY NeedsServed DEF OwnGatewayThere
<1> QED
  BY <1>1, FittingAlways, ReadIsSpec, TypeCorrect, PTL

(* ... and, where only its own namespace shares the Gateway, the Gateway     *)
(* listens for every host it asks for (reconciler.go 212).                   *)
THEOREM OwnListenersAreServed == ReadSpec => []OwnListenersServe
<1>1. TypeOK /\ Fitting => OwnListenersServe
  <2> SUFFICES ASSUME TypeOK, Fitting, Quiet, NEW i \in Ingresses, NEW g \in GatewayKeys,
                      Needs(i, g), Private(g), ~IsExternalGateway(g),
                      <<g, <<i, API(ingresses)[i].gen>>>> \notin overlooked
               PROVE  HostsOf(i, API(ingresses)[i].spec) \subseteq API(gateways)[g].hosts
    BY DEF OwnListenersServe, HostsOf
  <2>1. API(ingresses)[i].spec \in Specs[i]
    BY Bounds, WindowStates DEF TypeOK, IngressState, WellFormed
  <2>2. NsOf[i] = g.ns
    BY <2>1 DEF Private, Needs, Convertible, Selected
  <2> QED
    BY <2>2, NeedsServed
<1> QED
  BY <1>1, FittingAlways, ReadIsSpec, TypeCorrect, PTL
=============================================================================

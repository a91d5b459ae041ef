------------------------------ MODULE RestProofs ------------------------------
(***************************************************************************)
(* At rest nothing is left to do.  The argument is the same for each thing *)
(* that must have been done for an Ingress: either it has been, for the    *)
(* Ingress as the cache shows it, or somebody will be woken for it: the    *)
(* key is in the queue, a later state of the Ingress is on its way to the  *)
(* cache, an error is in back-off, or the request in progress is about it. *)
(***************************************************************************)
EXTENDS RefinementProofs, FiniteSetTheorems, SequenceTheorems

(* A later state of the Ingress is on its way to the cache. *)
Pending(i) == \E k \in 1..Len(ingresses) : ingresses[k][i] # Cache(ingresses)[i]

Stirred(i) == i \in queue \/ Pending(i)

-----------------------------------------------------------------------------
(* Once an Ingress is stirred it stays so until it is fetched. *)

LEMMA PushStirs ==
  ASSUME IsWindow(ingresses, IngressState, IngressLag), NEW s \in IngressState,
         ingresses' = Push(ingresses, s, IngressLag),
         queue' = queue \cup Noticed(ingresses, ingresses'), NEW i \in Ingresses
  PROVE  /\ Stirred(i) => Stirred(i)'
         /\ Cache(ingresses')[i] # Cache(ingresses)[i] => i \in queue'
         /\ s[i] # Cache(ingresses')[i] => Pending(i)'
<1> DEFINE w == ingresses
           v == IF Len(w) > IngressLag THEN Tail(w) ELSE w
           d == IF Len(w) > IngressLag THEN 1 ELSE 0
<1>1. w \in Seq(IngressState) /\ Len(w) \in Nat /\ Len(w) >= 1
  BY DEF IsWindow
<1>2. /\ v \in Seq(IngressState) /\ Len(v) = Len(w) - d /\ d \in {0, 1}
      /\ \A k \in 1..Len(v) : v[k] = w[k + d]
  BY <1>1
<1>3. /\ w' = Append(v, s) /\ Len(w') = Len(v) + 1 /\ w'[Len(v) + 1] = s
      /\ \A k \in 1..Len(v) : w'[k] = v[k]
  BY <1>2 DEF Push
<1> HIDE DEF v, d
<1>4. w'[1][i] # w[1][i] => i \in queue'
  BY DEF Noticed, Cache
<1>5. s[i] # w'[1][i] => Pending(i)'
  <2>1. Len(v) + 1 \in 1..Len(w')
    BY <1>1, <1>2, <1>3
  <2> QED
    BY <1>3, <2>1 DEF Pending, Cache
<1>6. ASSUME Stirred(i) PROVE Stirred(i)'
  <2>1. CASE i \in queue
    BY <2>1 DEF Stirred
  <2>2. CASE w'[1][i] # w[1][i]
    BY <1>4, <2>2 DEF Stirred
  <2>3. CASE Pending(i) /\ w'[1][i] = w[1][i]
    <3>1. PICK k \in 1..Len(w) : w[k][i] # w[1][i]
      BY <2>3 DEF Pending, Cache
    <3>2. CASE k - d \in 1..Len(v)
      <4>1. k - d \in 1..Len(w') /\ w'[k - d] = w[k]
        BY <1>1, <1>2, <1>3, <3>2
      <4> QED
        BY <2>3, <3>1, <4>1 DEF Pending, Cache, Stirred
    <3>3. k # 1
      BY <3>1
    <3> QED
      BY <1>1, <1>2, <3>2, <3>3
  <2> QED
    BY <1>6, <2>1, <2>2, <2>3 DEF Stirred
<1> QED
  BY <1>4, <1>5, <1>6 DEF Cache

LEMMA TailStirs ==
  ASSUME IsWindow(ingresses, IngressState, IngressLag), Len(ingresses) > 1,
         ingresses' = Tail(ingresses),
         queue' = queue \cup Noticed(ingresses, ingresses'), NEW i \in Ingresses
  PROVE  /\ Stirred(i) => Stirred(i)'
         /\ Cache(ingresses')[i] # Cache(ingresses)[i] => i \in queue'
<1> DEFINE w == ingresses
<1>1. /\ w \in Seq(IngressState) /\ Len(w) \in Nat
      /\ Len(w') = Len(w) - 1 /\ \A k \in 1..Len(w') : w'[k] = w[k + 1]
  BY DEF IsWindow
<1>2. w'[1][i] # w[1][i] => i \in queue'
  BY DEF Noticed, Cache
<1>3. ASSUME Stirred(i) PROVE Stirred(i)'
  <2>1. CASE i \in queue
    BY <2>1 DEF Stirred
  <2>2. CASE w'[1][i] # w[1][i]
    BY <1>2, <2>2 DEF Stirred
  <2>3. CASE Pending(i) /\ w'[1][i] = w[1][i]
    <3>1. PICK k \in 1..Len(w) : w[k][i] # w[1][i]
      BY <2>3 DEF Pending, Cache
    <3>2. k - 1 \in 1..Len(w') /\ w'[k - 1] = w[k]
      BY <1>1, <3>1
    <3> QED
      BY <2>3, <3>1, <3>2 DEF Pending, Cache, Stirred
  <2> QED
    BY <1>3, <2>1, <2>2, <2>3 DEF Stirred
<1> QED
  BY <1>2, <1>3 DEF Cache

(* WriteIngress, seen from one Ingress. *)
LEMMA WriteStirs ==
  ASSUME TypeOK, NEW j \in Ingresses, NEW o \in IngressRec, WellFormed(j, o), WriteIngress(j, o),
         NEW i \in Ingresses
  PROVE  /\ Stirred(i) => Stirred(i)'
         /\ Cache(ingresses')[i] # Cache(ingresses)[i] => i \in queue'
         /\ i = j /\ o # Cache(ingresses')[i] => Pending(i)'
<1> DEFINE s == [API(ingresses) EXCEPT ![j] = o]
<1>1. API(ingresses) \in IngressState /\ IsWindow(ingresses, IngressState, IngressLag)
  BY Bounds, WindowStates DEF TypeOK
<1>2. s \in IngressState /\ s[j] = o
  BY <1>1 DEF IngressState
<1>3. /\ ingresses' = Push(ingresses, s, IngressLag)
      /\ queue' = queue \cup Noticed(ingresses, ingresses')
  BY DEF WriteIngress
<1> HIDE DEF s
<1> QED
  BY <1>1, <1>2, <1>3, PushStirs

(* Every step keeps an Ingress stirred, and stirs one whose cached state it  *)
(* changes, but for the fetch of that Ingress; a new process lists them all. *)
LEMMA StirKept ==
  ASSUME TypeOK, [Next]_vars, NEW i \in Ingresses
  PROVE  /\ Restart /\ Cache(ingresses')[i].ex => Stirred(i)'
         /\ \/ Fetch(i) \/ Restart
            \/ /\ Stirred(i) => Stirred(i)'
               /\ Cache(ingresses')[i] # Cache(ingresses)[i] => Stirred(i)'
<1> DEFINE Kept == /\ Stirred(i) => Stirred(i)'
                   /\ Cache(ingresses')[i] # Cache(ingresses)[i] => Stirred(i)'
           Goal == Fetch(i) \/ Restart \/ Kept
<1>1. API(ingresses) \in IngressState /\ IsWindow(ingresses, IngressState, IngressLag)
  BY Bounds, WindowStates DEF TypeOK
<1>2. ASSUME UNCHANGED ingresses, i \in queue => i \in queue' PROVE Kept
  BY <1>2 DEF Stirred, Pending, Cache
<1>3. ASSUME NEW j \in Ingresses, NEW o \in IngressRec, WellFormed(j, o), WriteIngress(j, o)
      PROVE  Kept
  BY <1>3, WriteStirs DEF Stirred
<1>4. ASSUME AddFinalizer PROVE Kept
  <2>1. /\ key \in Ingresses /\ obj \in IngressRec /\ WellFormed(key, obj) /\ obj.ex
        /\ ~Leaving(obj)
    BY <1>4 DEF AddFinalizer, TypeOK, LocalOK, PhaseOK, ConvertSteps
  <2> DEFINE n == [obj EXCEPT !.fin = TRUE]
  <2>2. n \in IngressRec /\ WellFormed(key, n)
    BY <2>1 DEF IngressRec, WellFormed, Leaving
  <2> HIDE DEF n
  <2>3. CASE WriteIngress(key, n)
    BY <1>3, <2>1, <2>2, <2>3
  <2> QED
    BY <1>2, <1>4, <2>3 DEF AddFinalizer, n
<1>5. ASSUME RemoveFinalizer PROVE Kept
  <2>1. key \in Ingresses /\ obj \in IngressRec /\ WellFormed(key, obj)
    BY <1>5 DEF RemoveFinalizer, TypeOK, LocalOK
  <2> DEFINE n == IF obj.del THEN Gone(obj) ELSE [obj EXCEPT !.fin = FALSE]
  <2>2. n \in IngressRec /\ WellFormed(key, n)
    BY <2>1 DEF IngressRec, WellFormed, Gone
  <2> HIDE DEF n
  <2>3. CASE WriteIngress(key, n)
    BY <1>3, <2>1, <2>2, <2>3
  <2> QED
    BY <1>2, <1>5, <2>3 DEF RemoveFinalizer, n
<1>6. ASSUME Work PROVE Kept
  BY <1>2, <1>4, <1>5, <1>6
  DEF Work, Convert, ConvertIn, EnsureGateway, EnsureRoute, Finish, CleanRoutes, ListGateways, Detach, kinds
<1>7. ASSUME Users PROVE Kept
  <2>1. ASSUME NEW j \in Ingresses, NEW s \in Specs[j], CreateIngress(j, s) PROVE Kept
    <3> DEFINE n == [ex |-> TRUE, gen |-> API(ingresses)[j].gen + 1, spec |-> s,
                     fin |-> FALSE, del |-> FALSE]
    <3>1. n \in IngressRec /\ WellFormed(j, n)
      BY <1>1, GensAreNat, SettingsOfSpecs DEF IngressRec, WellFormed
    <3> QED
      BY <1>3, <2>1, <3>1 DEF CreateIngress
  <2>2. ASSUME NEW j \in Ingresses, NEW s \in Specs[j], EditIngress(j, s) PROVE Kept
    <3> DEFINE n == [API(ingresses)[j] EXCEPT !.spec = s]
    <3>1. n \in IngressRec /\ WellFormed(j, n)
      BY <1>1, <2>2, SettingsOfSpecs DEF IngressState, IngressRec, WellFormed
    <3> QED
      BY <1>3, <2>2, <3>1 DEF EditIngress
  <2>3. ASSUME NEW j \in Ingresses, DeleteIngress(j) PROVE Kept
    <3> DEFINE o == API(ingresses)[j]
               n == IF o.fin THEN [o EXCEPT !.del = TRUE] ELSE Gone(o)
    <3>1. n \in IngressRec /\ WellFormed(j, n)
      BY <1>1, <2>3 DEF IngressState, IngressRec, WellFormed, Gone
    <3> HIDE DEF n
    <3> QED
      BY <1>3, <2>3, <3>1 DEF DeleteIngress, n
  <2> QED
    BY <1>2, <1>7, <2>1, <2>2, <2>3 DEF Users, ToggleExternalGateway
<1>8. ASSUME DeliverIngresses PROVE Kept
  BY <1>1, <1>8, TailStirs DEF DeliverIngresses, Stirred
<1>9. ASSUME Restart, Cache(ingresses')[i].ex PROVE Stirred(i)'
  <2>1. ingresses' = <<API(ingresses)>> /\ queue' = {j \in Ingresses : API(ingresses)[j].ex}
    BY <1>9 DEF Restart
  <2>2. Cache(ingresses') = API(ingresses)
    BY <2>1 DEF Cache
  <2> QED
    BY <1>9, <2>1, <2>2 DEF Stirred
<1>10. ASSUME NEW j \in Ingresses, Fetch(j) PROVE Goal
  <2>1. CASE j = i
    BY <1>10, <2>1
  <2>2. CASE j # i
    BY <1>2, <1>10, <2>2 DEF Fetch, kinds
  <2> QED
    BY <2>1, <2>2
<1>11. ASSUME DeliverGateways \/ DeliverRoutes \/ CallFails \/ Resync \/ Collect
              \/ \E d \in delayed : TimerFires(d)
       PROVE  Kept
  BY <1>2, <1>11 DEF DeliverGateways, DeliverRoutes, CallFails, TimerFires, Resync, Collect,
                     CollectGateway, CollectRoute, kinds
<1>12. ASSUME UNCHANGED vars PROVE Kept
  BY <1>2, <1>12 DEF vars, kinds
<1> QED
  BY <1>6, <1>7, <1>8, <1>9, <1>10, <1>11, <1>12 DEF Next, Deliver

-----------------------------------------------------------------------------
(* How a request goes on or ends. *)

(* An error is kept until its timer fires or the process ends. *)
LEMMA ErrorStays ==
  ASSUME TypeOK, [Next]_vars, NEW i \in Ingresses, <<i, "error">> \in delayed
  PROVE  Restart \/ <<i, "error">> \in delayed' \/ i \in queue'
<1>1. ASSUME Fail PROVE <<i, "error">> \in delayed'
  BY <1>1 DEF Fail
<1>2. ASSUME Work PROVE <<i, "error">> \in delayed'
  <2>1. ASSUME NEW id \in DOMAIN todo, EnsureRoute(id) PROVE <<i, "error">> \in delayed'
    BY <1>1, <2>1 DEF EnsureRoute
  <2>2. ASSUME NEW g \in DOMAIN detach, Detach(g) PROVE <<i, "error">> \in delayed'
    BY <1>1, <2>2 DEF Detach
  <2>3. CASE Convert \/ EnsureGateway \/ AddFinalizer
    BY <1>1, <2>3 DEF Convert, ConvertIn, EnsureGateway, AddFinalizer
  <2>4. CASE CleanRoutes \/ ListGateways \/ RemoveFinalizer \/ Finish
    BY <1>1, <2>4 DEF CleanRoutes, ListGateways, RemoveFinalizer, Finish
  <2> QED
    BY <1>2, <2>1, <2>2, <2>3, <2>4 DEF Work
<1>3. ASSUME NEW j \in Ingresses, Fetch(j) PROVE <<i, "error">> \in delayed'
  BY <1>3 DEF Fetch
<1>4. ASSUME NEW d \in delayed, TimerFires(d) PROVE <<i, "error">> \in delayed' \/ i \in queue'
  <2>1. CASE d = <<i, "error">>
    BY <1>4, <2>1 DEF TimerFires
  <2>2. CASE d # <<i, "error">>
    BY <1>4, <2>2 DEF TimerFires
  <2> QED
    BY <2>1, <2>2
<1>5. CASE CallFails
  BY <1>1, <1>5 DEF CallFails
<1>6. CASE Deliver \/ Resync \/ Users \/ Collect \/ UNCHANGED vars
  BY <1>6
  DEF Deliver, DeliverIngresses, DeliverGateways, DeliverRoutes, Resync, Users, CreateIngress,
      EditIngress, DeleteIngress, ToggleExternalGateway, Edited, Collect, CollectGateway,
      CollectRoute, vars
<1> QED
  BY <1>2, <1>3, <1>4, <1>5, <1>6 DEF Next

LEMMA RequestGoesOn ==
  ASSUME TypeOK, [Next]_vars, pc # "idle"
  PROVE  \/ Restart
         \/ <<key, "error">> \in delayed'
         \/ Finish
         \/ RemoveFinalizer /\ WriteIngress(key, IF obj.del THEN Gone(obj) ELSE [obj EXCEPT !.fin = FALSE])
         \/ /\ AddFinalizer /\ WriteIngress(key, [obj EXCEPT !.fin = TRUE])
            /\ pc' = "convert" /\ key' = key /\ obj' = [obj EXCEPT !.fin = TRUE]
         \/ pc' # "idle" /\ UNCHANGED <<key, obj>>
<1> DEFINE Goal ==
         \/ Restart
         \/ <<key, "error">> \in delayed'
         \/ Finish
         \/ RemoveFinalizer /\ WriteIngress(key, IF obj.del THEN Gone(obj) ELSE [obj EXCEPT !.fin = FALSE])
         \/ /\ AddFinalizer /\ WriteIngress(key, [obj EXCEPT !.fin = TRUE])
            /\ pc' = "convert" /\ key' = key /\ obj' = [obj EXCEPT !.fin = TRUE]
         \/ pc' # "idle" /\ UNCHANGED <<key, obj>>
<1> SUFFICES Goal
  OBVIOUS
<1>1. Fail => <<key, "error">> \in delayed'
  BY DEF Fail
<1>2. ASSUME UNCHANGED local PROVE Goal
  BY <1>2 DEF local
<1>3. CASE Work
  <2>1. CASE AddFinalizer
    <3>1. CASE WriteIngress(key, [obj EXCEPT !.fin = TRUE]) /\ obj' = [obj EXCEPT !.fin = TRUE]
               /\ Goto("convert")
      BY <2>1, <3>1 DEF Goto
    <3> QED
      BY <1>1, <2>1, <3>1 DEF AddFinalizer
  <2>2. CASE RemoveFinalizer
    <3>1. CASE WriteIngress(key, IF obj.del THEN Gone(obj) ELSE [obj EXCEPT !.fin = FALSE])
      BY <2>2, <3>1
    <3> QED
      BY <1>1, <2>2, <3>1 DEF RemoveFinalizer
  <2>3. ASSUME NEW id \in DOMAIN todo, EnsureRoute(id) PROVE Goal
    BY <1>1, <2>3 DEF EnsureRoute
  <2>4. ASSUME NEW g \in DOMAIN detach, Detach(g) PROVE Goal
    BY <1>1, <2>4 DEF Detach
  <2>5. CASE Convert \/ EnsureGateway
    BY <1>1, <2>5 DEF Convert, ConvertIn, EnsureGateway
  <2>6. CASE CleanRoutes \/ ListGateways
    BY <1>1, <2>6 DEF CleanRoutes, ListGateways, Goto
  <2> QED
    BY <1>3, <2>1, <2>2, <2>3, <2>4, <2>5, <2>6 DEF Work
<1>4. CASE CallFails
  BY <1>1, <1>4 DEF CallFails
<1>5. ASSUME Deliver \/ (\E d \in delayed : TimerFires(d)) \/ Resync \/ Users \/ Collect
      PROVE  Goal
  BY <1>5, <1>2
  DEF Deliver, DeliverIngresses, DeliverGateways, DeliverRoutes, TimerFires, Resync, Users,
      CreateIngress, EditIngress, DeleteIngress, ToggleExternalGateway, Edited,
      Collect, CollectGateway, CollectRoute
<1>6. ASSUME NEW i \in Ingresses, Fetch(i) PROVE FALSE
  BY <1>6 DEF Fetch
<1>7. CASE UNCHANGED vars
  BY <1>2, <1>7 DEF vars
<1> QED
  BY <1>3, <1>4, <1>5, <1>6, <1>7 DEF Next

(* The copy of a request is the cached state, or there is a newer one. *)
FreshRequest == pc # "idle" => obj = Cache(ingresses)[key] \/ Stirred(key)

LEMMA FreshRequestNext ==
  ASSUME TypeOK, TypeOK', FreshRequest, [Next]_vars
  PROVE  FreshRequest'
<1> SUFFICES ASSUME pc' # "idle", NEW i \in Ingresses, key' = i, obj' # Cache(ingresses')[i]
             PROVE  Stirred(i)'
  BY DEF FreshRequest, Stirred, Pending, Cache, TypeOK, LocalOK
<1>1. CASE pc = "idle"
  BY <1>1, RequestStays DEF kinds, Cache
<1>2. ~Finish /\ ~RemoveFinalizer /\ ~Restart /\ ~Fail
  BY DEF Finish, RemoveFinalizer, Fail, Restart, Return
<1>3. CASE pc # "idle" /\ UNCHANGED <<key, obj>>
  <2>1. ~Fetch(i)
    BY <1>3 DEF Fetch
  <2>2. /\ Stirred(i) => Stirred(i)'
        /\ Cache(ingresses')[i] # Cache(ingresses)[i] => Stirred(i)'
    BY <1>2, <2>1, StirKept
  <2> QED
    BY <1>3, <2>2 DEF FreshRequest
<1>4. CASE AddFinalizer
  <2>1. /\ WriteIngress(key, [obj EXCEPT !.fin = TRUE])
        /\ key = i /\ obj' = [obj EXCEPT !.fin = TRUE]
    BY <1>2, <1>4 DEF AddFinalizer, Goto
  <2>2. obj' \in IngressRec /\ WellFormed(i, obj')
    BY DEF TypeOK, LocalOK
  <2>3. Pending(i)'
    <3> DEFINE n == [obj EXCEPT !.fin = TRUE]
    <3>1. WriteIngress(i, n) /\ n \in IngressRec /\ WellFormed(i, n) /\ n # Cache(ingresses')[i]
      BY <2>1, <2>2
    <3> QED
      BY <3>1, WriteStirs
  <2> QED
    BY <2>3 DEF Stirred
<1>5. CASE UNCHANGED <<key, obj>> \/ AddFinalizer \/ pc = "idle"
  BY <1>1, <1>3, <1>4, <1>5
<1>6. Work => UNCHANGED <<key, obj>> \/ AddFinalizer
  BY <1>2
  DEF Work, Convert, ConvertIn, EnsureGateway, EnsureRoute, CleanRoutes, ListGateways, Detach, Goto
<1>7. Next => UNCHANGED <<key, obj>> \/ AddFinalizer \/ pc = "idle"
  BY <1>2, <1>6
  DEF Next, Fetch, CallFails, Deliver, DeliverIngresses, DeliverGateways, DeliverRoutes, TimerFires,
      Resync, Users, CreateIngress, EditIngress, DeleteIngress, ToggleExternalGateway, Edited,
      Collect, CollectGateway, CollectRoute, local
<1> QED
  BY <1>5, <1>7 DEF vars, local

-----------------------------------------------------------------------------
(* The finalizer. *)

(* The finalizer of an Ingress is as it should be. *)
FinalizerFits(o) ==
  /\ Leaving(o) => ~o.fin
  /\ ~Leaving(o) /\ ConfigValid(o.spec) => o.fin

AttendedTo(i) ==
  LET o == Cache(ingresses)[i] IN
  o.ex => \/ Stirred(i) \/ <<i, "error">> \in delayed
          \/ pc # "idle" /\ key = i /\ obj = o
          \/ FinalizerFits(o)

(* An Ingress whose finalizer is not as it should be is being attended to. *)
Attended == \A i \in Ingresses : AttendedTo(i)

LEMMA StartStirred ==
  ASSUME Init, NEW i \in Ingresses
  PROVE  Cache(ingresses)[i].ex => Stirred(i)
<1>1. PICK present \in SUBSET Ingresses :
        /\ \E spec : ingresses = << [j \in Ingresses |-> [ex |-> j \in present, gen |-> 1,
                                                        spec |-> spec[j],
                                                        fin |-> j \in present \cap Adopted,
                                                        del |-> FALSE]] >>
        /\ queue = present
  BY DEF Init
<1>2. PICK spec : ingresses = << [j \in Ingresses |-> [ex |-> j \in present, gen |-> 1,
                                                     spec |-> spec[j],
                                                     fin |-> j \in present \cap Adopted,
                                                     del |-> FALSE]] >>
  BY <1>1
<1>3. Cache(ingresses)[i].ex => i \in present
  BY <1>2 DEF Cache
<1> QED
  BY <1>1, <1>3 DEF Stirred

LEMMA AttendedNext ==
  ASSUME TypeOK, TypeOK', Attended, [Next]_vars
  PROVE  Attended'
<1> SUFFICES ASSUME NEW i \in Ingresses, Cache(ingresses')[i].ex, ~Stirred(i)',
                    <<i, "error">> \notin delayed'
             PROVE  \/ pc' # "idle" /\ key' = i /\ obj' = Cache(ingresses')[i]
                    \/ FinalizerFits(Cache(ingresses')[i])
  BY DEF Attended, AttendedTo, FinalizerFits, Leaving
<1>1. i \notin queue'
  BY DEF Stirred
<1>2. CASE Fetch(i)
  <2>1. Cache(ingresses') = Cache(ingresses)
    BY <1>2 DEF Fetch, kinds
  <2>2. \/ pc' # "idle" /\ key' = i /\ obj' = Cache(ingresses)[i]
        \/ Leaving(Cache(ingresses)[i]) /\ ~MustCleanUp(Cache(ingresses)[i])
    BY <1>2, <2>1 DEF Fetch
  <2> QED
    BY <2>1, <2>2 DEF MustCleanUp, FinalizerFits
<1>3. CASE ~Fetch(i)
  <2>1. ~Restart /\ ~Stirred(i) /\ Cache(ingresses')[i] = Cache(ingresses)[i]
    BY <1>3, StirKept
  <2>2. <<i, "error">> \notin delayed
    BY <1>1, <2>1, ErrorStays
  <2>3. CASE FinalizerFits(Cache(ingresses)[i])
    BY <2>1, <2>3
  <2>4. CASE pc # "idle" /\ key = i /\ obj = Cache(ingresses)[i]
    <3>1. CASE Finish
      <4>1. ~Leaving(obj) /\ obj.fin
        BY <3>1 DEF Finish, TypeOK, PhaseOK, ConvertSteps
      <4> QED
        BY <2>1, <2>4, <4>1 DEF FinalizerFits
    <3>2. ASSUME NEW n, WriteIngress(i, n), n \in IngressRec /\ WellFormed(i, n)
          PROVE  Cache(ingresses')[i] = n
      BY <3>2, WriteStirs DEF Stirred
    <3>3. CASE RemoveFinalizer
               /\ WriteIngress(key, IF obj.del THEN Gone(obj) ELSE [obj EXCEPT !.fin = FALSE])
      <4> DEFINE n == IF obj.del THEN Gone(obj) ELSE [obj EXCEPT !.fin = FALSE]
      <4>1. obj \in IngressRec /\ WellFormed(i, obj) /\ obj.fin
        BY <2>4, <3>3 DEF RemoveFinalizer, TypeOK, LocalOK, PhaseOK, CleanUpSteps
      <4>2. n \in IngressRec /\ WellFormed(i, n) /\ ~n.fin
        BY <4>1 DEF IngressRec, WellFormed, Gone
      <4>3. Cache(ingresses')[i] = n
        BY <2>4, <3>2, <3>3, <4>2
      <4> QED
        BY <2>1, <2>4, <4>1, <4>2, <4>3
    <3>4. CASE /\ AddFinalizer /\ WriteIngress(key, [obj EXCEPT !.fin = TRUE])
               /\ pc' = "convert" /\ key' = key /\ obj' = [obj EXCEPT !.fin = TRUE]
      <4>1. obj' \in IngressRec /\ WellFormed(i, obj')
        BY <2>4, <3>4 DEF TypeOK, LocalOK
      <4>2. Cache(ingresses')[i] = obj'
        BY <2>4, <3>2, <3>4, <4>1
      <4> QED
        BY <2>4, <3>4, <4>2
    <3>5. CASE pc' # "idle" /\ UNCHANGED <<key, obj>>
      BY <2>1, <2>4, <3>5
    <3> QED
      BY <2>1, <2>4, <3>1, <3>3, <3>4, <3>5, RequestGoesOn
  <2> QED
    BY <2>1, <2>2, <2>3, <2>4 DEF Attended, AttendedTo
<1> QED
  BY <1>2, <1>3

(* With a window of one state, nothing is on its way. *)
LEMMA QuietStill ==
  ASSUME TypeOK, Quiet, NEW i \in Ingresses
  PROVE  ~Stirred(i) /\ pc = "idle" /\ Cache(ingresses) = API(ingresses)
BY DEF Quiet, Stirred, Pending, Cache, API

LEMMA SettledAtRest ==
  ASSUME TypeOK, Attended
  PROVE  SettledFinalizers
<1> SUFFICES ASSUME Quiet, NEW i \in Ingresses
             PROVE  LET o == API(ingresses)[i] IN
                    /\ ~o.del
                    /\ o.ex /\ ~IsEnabled(o.spec) => ~o.fin
                    /\ Serving(i) /\ ConfigValid(o.spec) => o.fin
  BY DEF SettledFinalizers
<1>1. API(ingresses) \in IngressState
  BY Bounds, WindowStates DEF TypeOK
<1>2. LET o == API(ingresses)[i] IN (o.del => o.fin) /\ (o.fin => o.ex)
  BY <1>1 DEF IngressState, WellFormed
<1>3. CASE <<i, "error">> \in delayed
  <2>1. Serving(i) /\ (ConfigValid(API(ingresses)[i].spec) => API(ingresses)[i].fin)
    BY <1>3 DEF Quiet
  <2> QED
    BY <2>1 DEF Serving
<1>4. CASE API(ingresses)[i].ex => FinalizerFits(API(ingresses)[i])
  BY <1>2, <1>4 DEF FinalizerFits, Leaving, Serving
<1> QED
  BY <1>3, <1>4, QuietStill DEF Attended, AttendedTo

(* When the controller has come to rest, the finalizer is on exactly the     *)
(* selected Ingresses, whatever the age of the caches, however many calls    *)
(* have failed and whenever the process was restarted.                       *)
THEOREM FinalizersSettle == Spec => []SettledFinalizers
<1>1. TypeOK /\ Attended => SettledFinalizers
  BY SettledAtRest
<1>2. Init => Attended
  BY StartStirred DEF Attended, AttendedTo
<1>3. TypeOK /\ TypeOK' /\ Attended /\ [Next]_vars => Attended'
  BY AttendedNext
<1> QED
  BY <1>1, <1>2, <1>3, TypeCorrect, PTL DEF Spec

-----------------------------------------------------------------------------
(* Attribution.  A rule of an Ingress makes a resource of its own when no    *)
(* other Ingress of its namespace has the rule, and the resource is          *)
(* attributed to the Ingress when no name as long stands in its name.        *)

OwnRules ==
  \A i, j \in Ingresses : i # j /\ NsOf[i] = NsOf[j] =>
    \A s \in Specs[i], t \in Specs[j] :
      \A r \in s.rules \cap t.rules : r[1] = "BackendTLSPolicy"

Attributable ==
  \A id \in RouteIds : \A j \in Ingresses \ {id.ing} :
    NameMatches(j, ResourceName(id)) => NameLen[j] < NameLen[id.ing]

LEMMA RouteOfRule ==
  ASSUME NEW id \in RouteIds
  PROVE  /\ id.ing \in Ingresses /\ id.host \in Seq(STRING)
         /\ \E s \in Specs[id.ing] : <<id.kind, id.host>> \in s.rules
<1>1. PICK i \in Ingresses : \E s \in Specs[i] : \E r \in s.rules :
        id = [kind |-> r[1], ing |-> i, host |-> r[2]]
  BY DEF RouteIds
<1>2. PICK s \in Specs[i] : \E r \in s.rules : id = [kind |-> r[1], ing |-> i, host |-> r[2]]
  BY <1>1
<1>3. PICK r \in s.rules : id = [kind |-> r[1], ing |-> i, host |-> r[2]]
  BY <1>2
<1>4. r \in STRING \X Seq(STRING)
  BY ConversionAssumption
<1>5. r = <<r[1], r[2]>> /\ r[2] \in Seq(STRING)
  BY <1>4
<1> QED
  BY <1>3, <1>5

(* The settings of an Ingress name only rules there can be routes of. *)
LEMMA RuleIsRoute ==
  ASSUME NEW i \in Ingresses, NEW s \in Specs[i], NEW rule \in s.rules
  PROVE  \E id \in RouteIds : id.ing = i /\ <<id.kind, id.host>> = rule
<1> DEFINE id == [kind |-> rule[1], ing |-> i, host |-> rule[2]]
<1>1. rule \in STRING \X Seq(STRING)
  BY ConversionAssumption
<1>2. rule = <<rule[1], rule[2]>>
  BY <1>1
<1>3. id \in RouteIds
  BY DEF RouteIds
<1>4. id.ing = i /\ <<id.kind, id.host>> = rule
  BY <1>2
<1> QED
  BY <1>3, <1>4

LEMMA StandsAt ==
  ASSUME NEW S, NEW s \in Seq(S), NEW u \in Seq(S), NEW k \in Nat, k + Len(s) <= Len(u),
         \A m \in 1..Len(s) : u[k + m] = s[m]
  PROVE  SubSeq(u, k + 1, k + Len(s)) = s
<1> DEFINE v == SubSeq(u, k + 1, k + Len(s))
<1>1. Len(s) \in Nat /\ Len(u) \in Nat
  OBVIOUS
<1>2. \A m \in (k + 1)..(k + Len(s)) : u[m] \in S
  BY <1>1
<1>3. /\ v \in Seq(S)
      /\ Len(v) = IF k + 1 <= k + Len(s) THEN k + Len(s) - (k + 1) + 1 ELSE 0
      /\ \A m \in 1..(k + Len(s) - (k + 1) + 1) : v[m] = u[k + 1 + m - 1]
  BY <1>1, <1>2, SubSeqProperties
<1> HIDE DEF v
<1>4. Len(v) = Len(s)
  BY <1>1, <1>3
<1>5. \A m \in 1..Len(s) : v[m] = u[k + m]
  BY <1>1, <1>3
<1>6. v = s
  BY <1>3, <1>4, <1>5, SeqEqual
<1> QED
  BY <1>6 DEF v

(* The elements of a concatenation. *)
LEMMA ConcatAt ==
  ASSUME NEW S, NEW s \in Seq(S), NEW t \in Seq(S)
  PROVE  /\ s \o t \in Seq(S) /\ Len(s \o t) = Len(s) + Len(t)
         /\ \A m \in 1..Len(s) : (s \o t)[0 + m] = s[m]
         /\ \A m \in 1..Len(t) : (s \o t)[Len(s) + m] = t[m]
<1>1. Len(s) \in Nat /\ Len(t) \in Nat
  OBVIOUS
<1>2. /\ s \o t \in Seq(S) /\ Len(s \o t) = Len(s) + Len(t)
      /\ \A m \in 1..Len(s) + Len(t) :
           (s \o t)[m] = IF m <= Len(s) THEN s[m] ELSE t[m - Len(s)]
  BY ConcatProperties
<1>3. ASSUME NEW m \in 1..Len(s) PROVE (s \o t)[0 + m] = s[m]
  BY <1>1, <1>2
<1>4. ASSUME NEW m \in 1..Len(t) PROVE (s \o t)[Len(s) + m] = t[m]
  <2>1. Len(s) + m \in 1..Len(s) + Len(t) /\ ~(Len(s) + m <= Len(s)) /\ Len(s) + m - Len(s) = m
    BY <1>1
  <2> QED
    BY <1>2, <2>1
<1> QED
  BY <1>2, <1>3, <1>4

(* The name of the Ingress stands in the name of each of its resources. *)
LEMMA NameStands ==
  ASSUME NEW id \in RouteIds
  PROVE  NameMatches(id.ing, ResourceName(id))
<1> DEFINE s == NameOf[id.ing]
           h == id.host
           t == <<"tls", "passthrough">>
           S == STRING \cup {"tls", "passthrough"}
<1>1. id.ing \in Ingresses /\ NameOf \in [Ingresses -> Seq(STRING)]
  BY RouteOfRule, ConversionAssumption
<1>2. s \in Seq(S) /\ h \in Seq(S)
  <2>1. s \in Seq(STRING) /\ h \in Seq(STRING)
    BY <1>1, RouteOfRule
  <2>2. \A q \in Seq(STRING) : q \in Seq(S)
    OBVIOUS
  <2> QED
    BY <2>1, <2>2
<1>3. t \in Seq(S)
  OBVIOUS
<1>4. \/ ResourceName(id) = h \o s
      \/ ResourceName(id) = s \o h
      \/ ResourceName(id) = (s \o h) \o t
  BY DEF ResourceName
<1>5. NameMatches(id.ing, ResourceName(id)) <=>
        \E k \in 0..(Len(ResourceName(id)) - Len(s)) : SubSeq(ResourceName(id), k + 1, k + Len(s)) = s
  BY DEF NameMatches
<1> HIDE DEF s, h, t, S
<1>6. Len(s) \in Nat /\ Len(h) \in Nat /\ Len(t) \in Nat
  BY <1>2, <1>3
<1>7. ASSUME NEW u \in Seq(S), NEW k \in Nat, k + Len(s) <= Len(u),
             \A m \in 1..Len(s) : u[k + m] = s[m], u = ResourceName(id)
      PROVE  NameMatches(id.ing, ResourceName(id))
  <2>1. SubSeq(u, k + 1, k + Len(s)) = s
    BY <1>2, <1>7, StandsAt
  <2>2. Len(u) \in Nat
    OBVIOUS
  <2>3. k \in 0..(Len(u) - Len(s))
    BY <1>6, <1>7, <2>2
  <2> QED
    BY <1>5, <1>7, <2>1, <2>3
<1>8. CASE ResourceName(id) = h \o s
  <2>1. /\ h \o s \in Seq(S) /\ Len(h \o s) = Len(h) + Len(s)
        /\ \A m \in 1..Len(s) : (h \o s)[Len(h) + m] = s[m]
    BY <1>2, ConcatAt
  <2>2. Len(h) + Len(s) <= Len(h \o s)
    BY <1>6, <2>1
  <2> QED
    BY <1>6, <1>7, <1>8, <2>1, <2>2
<1>9. CASE ResourceName(id) = s \o h
  <2>1. /\ s \o h \in Seq(S) /\ Len(s \o h) = Len(s) + Len(h)
        /\ \A m \in 1..Len(s) : (s \o h)[0 + m] = s[m]
    BY <1>2, ConcatAt
  <2>2. 0 + Len(s) <= Len(s \o h)
    BY <1>6, <2>1
  <2> QED
    BY <1>7, <1>9, <2>1, <2>2
<1>10. CASE ResourceName(id) = (s \o h) \o t
  <2> DEFINE u == s \o h
  <2>1. /\ u \in Seq(S) /\ Len(u) = Len(s) + Len(h)
        /\ \A m \in 1..Len(s) : u[0 + m] = s[m]
    BY <1>2, ConcatAt
  <2> HIDE DEF u
  <2>2. /\ u \o t \in Seq(S) /\ Len(u \o t) = Len(u) + Len(t)
        /\ \A m \in 1..Len(u) : (u \o t)[0 + m] = u[m]
    <3>1. u \in Seq(S) /\ t \in Seq(S)
      BY <1>3, <2>1
    <3> QED
      BY <3>1, ConcatAt
  <2>3. \A m \in 1..Len(s) : (u \o t)[0 + m] = s[m]
    BY <1>6, <2>1, <2>2
  <2>4. 0 + Len(s) <= Len(u \o t)
    BY <1>6, <2>1, <2>2
  <2>5. ResourceName(id) = u \o t
    BY <1>10 DEF u
  <2> QED
    BY <1>7, <2>2, <2>3, <2>4, <2>5
<1> QED
  BY <1>4, <1>8, <1>9, <1>10

(* A list of a set has each of its elements in one place. *)
LEMMA ListedOnce ==
  ASSUME NEW S, IsFiniteSet(S), NEW order \in ListOrders(S), NEW i \in S
  PROVE  /\ \E k \in DOMAIN order : order[k] = i
         /\ \A j, k \in DOMAIN order : order[j] = order[k] => j = k
         /\ \A k \in DOMAIN order : order[k] \in S /\ k \in Nat
<1> DEFINE n == Cardinality(S)
<1>1. n \in Nat
  BY FS_CardinalityType
<1>2. IsFiniteSet(1..n) /\ Cardinality(1..n) = n
  BY <1>1, FS_Interval
<1>3. order \in [1..n -> S] /\ \A j, k \in DOMAIN order : order[j] = order[k] => j = k
  BY DEF ListOrders
<1>4. order \in Injection(1..n, S)
  BY <1>3 DEF Injection, IsInjective
<1>5. order \in Surjection(1..n, S)
  BY <1>2, <1>4, FS_Injection
<1> QED
  BY <1>1, <1>3, <1>5 DEF Surjection

(* findSourceIngress finds the Ingress the resource was made for. *)
LEMMA SourceIsOwn ==
  ASSUME Attributable, NEW S \in SUBSET Ingresses, NEW order \in ListOrders(S),
         NEW id \in RouteIds, id.ing \in S
  PROVE  FindSourceIngress(order, ResourceName(id)) = id.ing
<1> DEFINE res == ResourceName(id)
<1>0. IsFiniteSet(S)
  BY ConversionAssumption, FS_Subset
<1>1. /\ \A j, k \in DOMAIN order : order[j] = order[k] => j = k
      /\ \A k \in DOMAIN order : order[k] \in Ingresses /\ k \in Nat
  BY <1>0, ListedOnce
<1>2. PICK k \in DOMAIN order : order[k] = id.ing
  BY <1>0, ListedOnce
<1>3. NameMatches(id.ing, res)
  BY NameStands
<1> HIDE DEF res
<1>4. \A j \in Ingresses : NameMatches(j, res) => j = id.ing \/ NameLen[j] < NameLen[id.ing]
  BY DEF Attributable, res
<1>5. \A j \in Ingresses : NameLen[j] \in Nat
  BY ConversionAssumption
<1>6. IsBestMatch(order, res, k)
  <2> SUFFICES ASSUME NEW m \in DOMAIN order, NameMatches(order[m], res)
               PROVE  \/ NameLen[order[m]] < NameLen[order[k]]
                      \/ NameLen[order[m]] = NameLen[order[k]] /\ k <= m
    BY <1>2, <1>3 DEF IsBestMatch
  <2>1. CASE order[m] = id.ing
    BY <1>1, <1>2, <2>1
  <2>2. CASE order[m] # id.ing
    BY <1>1, <1>2, <1>4, <2>2
  <2> QED
    BY <2>1, <2>2
<1>7. ASSUME NEW m \in DOMAIN order, IsBestMatch(order, res, m) PROVE order[m] = id.ing
  <2>1. NameMatches(order[m], res) /\ order[m] \in Ingresses
    BY <1>1, <1>7 DEF IsBestMatch
  <2>2. NameLen[id.ing] < NameLen[order[m]] \/ NameLen[id.ing] = NameLen[order[m]]
    BY <1>2, <1>3, <1>7 DEF IsBestMatch
  <2>3. NameLen[id.ing] \in Nat /\ NameLen[order[m]] \in Nat
    BY <1>1, <1>2, <1>5
  <2> QED
    BY <1>4, <2>1, <2>2, <2>3
<1> QED
  BY <1>6, <1>7 DEF FindSourceIngress, res

(* No other Ingress is in the group of a rule. *)
LEMMA GroupAlone ==
  ASSUME OwnRules, NEW merged \in SUBSET Ingresses, NEW spec,
         \A j \in merged : spec[j] \in Specs[j],
         NEW i \in merged, NEW rule \in spec[i].rules
  PROVE  Group(spec, merged, i, rule) = {i}
<1>1. CASE rule[1] = "BackendTLSPolicy"
  BY <1>1 DEF Group
<1>2. CASE rule[1] # "BackendTLSPolicy"
  <2>1. ASSUME NEW j \in merged, NsOf[j] = NsOf[i], rule \in spec[j].rules PROVE j = i
    BY <1>2, <2>1 DEF OwnRules
  <2> QED
    BY <1>2, <2>1 DEF Group
<1> QED
  BY <1>1, <1>2

-----------------------------------------------------------------------------
(* The routes.  A route of an Ingress that has to be served carries the rule *)
(* for the Ingress as the cache shows it, or somebody will be woken for it,  *)
(* or the request in progress still has the route to ensure.                 *)

EnsureSteps == {"ensureGateway", "ensureRoutes"}

(* The route is of its Ingress alone, hangs on its Gateway and is owned by   *)
(* it, so that only the clean-up of that Ingress takes it away.              *)
Carries(id) ==
  LET r == API(routes)[id]
      o == Cache(ingresses)[id.ing]
  IN /\ r.ex /\ r.body.source = id.ing /\ r.body.members = {id.ing}
     /\ r.body.parent \in {None, Target(id.ing, o.spec)}
     /\ <<id.ing, o.gen>> \in r.owners

(* The route still to be ensured will carry the rule. *)
WillCarry(id) ==
  LET t == todo[id]
      o == Cache(ingresses)[id.ing]
  IN /\ t.body.source = id.ing /\ t.body.members = {id.ing}
     /\ t.body.parent \in {None, Target(id.ing, o.spec)}
     /\ t.owner = <<id.ing, o.gen>>

TodoFits ==
  /\ pc \notin EnsureSteps => DOMAIN todo = {}
  /\ \A id \in DOMAIN todo : Stirred(id.ing) \/ WillCarry(id)

(* The request in progress comes to the route yet. *)
Carrying(id) ==
  /\ key = id.ing /\ obj = Cache(ingresses)[id.ing]
  /\ \/ pc \in {"addFinalizer", "convert"}
     \/ pc \in EnsureSteps /\ id \in DOMAIN todo

(* The Ingress asks for the route. *)
AsksFor(id, o) ==
  o.ex /\ ~Leaving(o) /\ Convertible(o.spec) /\ <<id.kind, id.host>> \in o.spec.rules

(* A route that is asked for carries its rule, or is being attended to. *)
RouteFits(id) ==
  AsksFor(id, Cache(ingresses)[id.ing]) =>
    \/ Stirred(id.ing) \/ <<id.ing, "error">> \in delayed
    \/ Carries(id) \/ Carrying(id)

RoutesFit == \A id \in RouteIds : RouteFits(id)

(* What is merged is copied from the cache and targets the same Gateway. *)
LEMMA MergedCopies ==
  ASSUME TypeOK, FreshRequest, pc = "convert"
  PROVE  /\ obj = Cache(ingresses)[key] => key \in Merged /\ Copy(key) = obj
         /\ \A j \in Merged :
              \/ Stirred(j)
              \/ /\ Copy(j) = Cache(ingresses)[j]
                 /\ Target(j, Cache(ingresses)[j].spec) = Target(key, obj.spec)
<1>1. /\ key \in Ingresses /\ obj.ex /\ ~Leaving(obj) /\ ConfigValid(obj.spec)
  BY DEF TypeOK, LocalOK, PhaseOK, ConvertSteps
<1>2. obj = Cache(ingresses)[key] \/ Stirred(key)
  BY DEF FreshRequest
<1>3. CASE TargetsExternal(obj.spec)
  <2>1. Merged = {key} /\ Copy(key) = obj
    BY <1>3 DEF Merged, Copy
  <2> QED
    BY <1>2, <2>1
<1>4. CASE ~TargetsExternal(obj.spec)
  <2>1. \A j \in Merged : /\ Copy(j) = Cache(ingresses)[j]
                          /\ Target(j, Cache(ingresses)[j].spec) = Target(key, obj.spec)
    BY <1>4 DEF Merged, Copy
  <2>2. obj = Cache(ingresses)[key] => key \in Merged /\ Copy(key) = obj
    BY <1>1, <1>4 DEF Merged, Copy, Selected, Leaving
  <2> QED
    BY <2>1, <2>2
<1> QED
  BY <1>3, <1>4

(* What a conversion that has got through leaves to be done. *)
LEMMA ConvertMakes ==
  ASSUME TypeOK, FreshRequest, OwnRules, Attributable, Convert, ~Fail
  PROVE  /\ pc' \in EnsureSteps /\ UNCHANGED <<ingresses, queue, key, obj>>
         /\ \A id \in DOMAIN todo' : Stirred(id.ing) \/
              /\ todo'[id].body.source = id.ing /\ todo'[id].body.members = {id.ing}
              /\ todo'[id].body.parent \in {None, Target(id.ing, Cache(ingresses)[id.ing].spec)}
              /\ todo'[id].owner = <<id.ing, Cache(ingresses)[id.ing].gen>>
         /\ \A id \in RouteIds :
              /\ id.ing = key /\ obj = Cache(ingresses)[key] /\ <<id.kind, id.host>> \in obj.spec.rules
              => id \in DOMAIN todo'
<1>1. PICK order \in ListOrders(Merged), unseen \in BOOLEAN : ConvertIn(order, unseen)
  BY DEF Convert
<1> DEFINE g    == Target(key, obj.spec)
           spec == [j \in Merged |-> Copy(j).spec]
           made == ConvertedRoutes(spec, Merged, order, ProviderOf(obj.spec), g)
<1>2. /\ todo' = WithOwners(made)
      /\ pc' \in EnsureSteps /\ UNCHANGED <<ingresses, queue, key, obj>>
  BY <1>1 DEF ConvertIn, kinds, EnsureSteps
<1>3. Merged \in SUBSET Ingresses /\ \A j \in Merged : spec[j] \in Specs[j]
  BY MergedType DEF Convert
<1>4. key \in Ingresses /\ key # None
  BY ConversionAssumption DEF Convert, TypeOK, LocalOK
<1>5. ASSUME NEW id \in DOMAIN todo'
      PROVE  Stirred(id.ing) \/
               /\ todo'[id].body.source = id.ing /\ todo'[id].body.members = {id.ing}
               /\ todo'[id].body.parent \in {None, Target(id.ing, Cache(ingresses)[id.ing].spec)}
               /\ todo'[id].owner = <<id.ing, Cache(ingresses)[id.ing].gen>>
  <2>1. id \in ConvertedIds(spec, Merged) /\ id \in DOMAIN made
    BY <1>2 DEF WithOwners, ConvertedRoutes
  <2>2. id \in RouteIds /\ id.ing \in Merged /\ <<id.kind, id.host>> \in spec[id.ing].rules
    BY <2>1 DEF ConvertedIds
  <2>3. FindSourceIngress(order, ResourceName(id)) = id.ing
    BY <1>3, <2>2, SourceIsOwn
  <2>4. Group(spec, Merged, id.ing, <<id.kind, id.host>>) = {id.ing}
    BY <1>3, <2>2, GroupAlone
  <2>5. made[id].source = id.ing /\ made[id].members = {id.ing} /\ made[id].parent \in {None, g}
    BY <2>1, <2>3, <2>4 DEF ConvertedRoutes
  <2>6. todo'[id].body = made[id] /\ todo'[id].owner = OwnerOf(made[id].source)
    BY <1>2, <2>1 DEF WithOwners
  <2>7. id.ing # None
    BY <1>3, <2>2, ConversionAssumption
  <2>8. todo'[id].owner = <<id.ing, Copy(id.ing).gen>>
    BY <2>5, <2>6, <2>7 DEF OwnerOf
  <2>9. \/ Stirred(id.ing)
        \/ /\ Copy(id.ing) = Cache(ingresses)[id.ing]
           /\ Target(id.ing, Cache(ingresses)[id.ing].spec) = g
    BY <2>2, MergedCopies DEF Convert
  <2> HIDE DEF made, g, spec
  <2> QED
    BY <2>5, <2>6, <2>8, <2>9
<1>6. ASSUME NEW id \in RouteIds, id.ing = key, obj = Cache(ingresses)[key],
             <<id.kind, id.host>> \in obj.spec.rules
      PROVE  id \in DOMAIN todo'
  <2>1. key \in Merged /\ Copy(key) = obj
    BY <1>6, MergedCopies DEF Convert
  <2>2. spec[key] = obj.spec
    BY <2>1
  <2>3. Group(spec, Merged, id.ing, <<id.kind, id.host>>) = {id.ing}
    BY <1>3, <1>6, <2>1, <2>2, GroupAlone
  <2>4. Rank[id.ing] \in Nat
    BY <1>4, <1>6, ConversionAssumption
  <2>5. id \in ConvertedIds(spec, Merged)
    BY <1>6, <2>1, <2>2, <2>3, <2>4 DEF ConvertedIds
  <2> QED
    BY <1>2, <2>5 DEF WithOwners, ConvertedRoutes
<1> QED
  BY <1>2, <1>5, <1>6

(* Routes are added to the list by conversion only, and taken off it as they *)
(* are ensured.                                                              *)
LEMMA TodoStep ==
  ASSUME TypeOK, pc \notin EnsureSteps => DOMAIN todo = {}, [Next]_vars
  PROVE  \/ DOMAIN todo' = {}
         \/ Convert /\ ~Fail
         \/ /\ pc \in EnsureSteps /\ pc' \in EnsureSteps /\ UNCHANGED <<key, obj>>
            /\ \A id \in DOMAIN todo' : id \in DOMAIN todo /\ todo'[id] = todo[id]
<1> DEFINE Goal ==
         \/ DOMAIN todo' = {}
         \/ Convert /\ ~Fail
         \/ /\ pc \in EnsureSteps /\ pc' \in EnsureSteps /\ UNCHANGED <<key, obj>>
            /\ \A id \in DOMAIN todo' : id \in DOMAIN todo /\ todo'[id] = todo[id]
<1> SUFFICES Goal
  OBVIOUS
<1>1. ASSUME Return PROVE Goal
  <2>1. DOMAIN << >> = {}
    OBVIOUS
  <2> QED
    BY <1>1, <2>1 DEF Return
<1>2. ASSUME UNCHANGED todo, pc \notin EnsureSteps PROVE Goal
  BY <1>2
<1>3. ASSUME UNCHANGED <<key, obj, todo>>, pc \in EnsureSteps, pc' \in EnsureSteps PROVE Goal
  BY <1>3
<1>4. CASE Work
  <2>1. CASE AddFinalizer
    BY <1>1, <1>2, <2>1 DEF AddFinalizer, Goto, Fail, EnsureSteps
  <2>2. CASE Convert
    BY <1>1, <2>2 DEF Fail
  <2>3. CASE EnsureGateway
    BY <1>1, <1>3, <2>3 DEF EnsureGateway, Fail, EnsureSteps
  <2>4. ASSUME NEW id \in DOMAIN todo, EnsureRoute(id) PROVE Goal
    <3>1. CASE /\ todo' = [r \in DOMAIN todo \ {id} |-> todo[r]]
               /\ UNCHANGED <<pc, key, obj, want, detach, requeueAfter, delayed>>
      BY <2>4, <3>1 DEF EnsureRoute, EnsureSteps
    <3> QED
      BY <1>1, <2>4, <3>1 DEF EnsureRoute, Fail
  <2>5. CASE Finish \/ RemoveFinalizer
    BY <1>1, <2>5 DEF Finish, RemoveFinalizer, Fail
  <2>6. CASE CleanRoutes \/ ListGateways
    BY <1>1, <1>2, <2>6 DEF CleanRoutes, ListGateways, Goto, Fail, EnsureSteps
  <2>7. ASSUME NEW g \in DOMAIN detach, Detach(g) PROVE Goal
    BY <1>1, <1>2, <2>7 DEF Detach, Fail, EnsureSteps
  <2> QED
    BY <1>4, <2>1, <2>2, <2>3, <2>4, <2>5, <2>6, <2>7 DEF Work
<1>5. CASE CallFails \/ Restart
  BY <1>1, <1>5 DEF CallFails, Restart, Fail
<1>6. ASSUME NEW i \in Ingresses, Fetch(i) PROVE Goal
  BY <1>2, <1>6 DEF Fetch, EnsureSteps, local
<1>7. ASSUME UNCHANGED local PROVE Goal
  BY <1>2, <1>3, <1>7 DEF local
<1>8. CASE Deliver \/ (\E d \in delayed : TimerFires(d)) \/ Resync \/ Users \/ Collect \/ UNCHANGED vars
  BY <1>7, <1>8
  DEF Deliver, DeliverIngresses, DeliverGateways, DeliverRoutes, TimerFires, Resync, Users,
      CreateIngress, EditIngress, DeleteIngress, ToggleExternalGateway, Edited,
      Collect, CollectGateway, CollectRoute, vars
<1> QED
  BY <1>4, <1>5, <1>6, <1>8 DEF Next

LEMMA TodoFitsNext ==
  ASSUME TypeOK, TypeOK', FreshRequest, TodoFits, [Next]_vars, OwnRules, Attributable
  PROVE  TodoFits'
<1>1. CASE DOMAIN todo' = {}
  BY <1>1 DEF TodoFits
<1>2. CASE Convert /\ ~Fail
  <2>1. pc' \in EnsureSteps /\ UNCHANGED <<ingresses, queue, key, obj>>
    BY <1>2, ConvertMakes
  <2>2. ASSUME NEW id \in DOMAIN todo' PROVE Stirred(id.ing)' \/ WillCarry(id)'
    <3>1. Stirred(id.ing) => Stirred(id.ing)'
      BY <2>1 DEF Stirred, Pending, Cache
    <3>2. Cache(ingresses') = Cache(ingresses)
      BY <2>1
    <3>3. Stirred(id.ing) \/
              /\ todo'[id].body.source = id.ing /\ todo'[id].body.members = {id.ing}
              /\ todo'[id].body.parent \in {None, Target(id.ing, Cache(ingresses)[id.ing].spec)}
              /\ todo'[id].owner = <<id.ing, Cache(ingresses)[id.ing].gen>>
      BY <1>2, ConvertMakes
    <3> QED
      BY <3>1, <3>2, <3>3 DEF WillCarry
  <2> QED
    BY <2>1, <2>2 DEF TodoFits, EnsureSteps
<1>3. CASE /\ pc \in EnsureSteps /\ pc' \in EnsureSteps
           /\ \A id \in DOMAIN todo' : id \in DOMAIN todo /\ todo'[id] = todo[id]
  <2>1. ASSUME NEW id \in DOMAIN todo' PROVE Stirred(id.ing)' \/ WillCarry(id)'
    <3>1. id \in RouteIds /\ id.ing \in Ingresses
      BY RouteOfRule DEF TypeOK, LocalOK
    <3>2. ~Fetch(id.ing) /\ ~Restart
      BY <1>3 DEF Fetch, Restart, Return, EnsureSteps
    <3>3. /\ Stirred(id.ing) => Stirred(id.ing)'
          /\ Cache(ingresses')[id.ing] # Cache(ingresses)[id.ing] => Stirred(id.ing)'
      BY <3>1, <3>2, StirKept
    <3>4. Stirred(id.ing) \/ WillCarry(id)
      BY <1>3 DEF TodoFits
    <3> QED
      BY <1>3, <3>3, <3>4 DEF WillCarry
  <2> QED
    BY <1>3, <2>1 DEF TodoFits, EnsureSteps
<1> QED
  BY <1>1, <1>2, <1>3, TodoStep DEF TodoFits

(* createOrUpdateResource, when it gets through. *)
LEMMA EnsureRouteEnds ==
  ASSUME TypeOK, RouteLag = 0, NEW id \in DOMAIN todo, EnsureRoute(id), ~Fail
  PROVE  /\ API(routes')[id].ex /\ API(routes')[id].body = todo[id].body
         /\ API(routes')[id].owners = SetOwner(API(routes)[id].owners, todo[id].owner, NsOf[id.ing])
         /\ todo[id].owner[1] = id.ing => todo[id].owner \in API(routes')[id].owners
         /\ \A r \in RouteIds : r # id => API(routes')[r] = API(routes)[r]
         /\ DOMAIN todo' = DOMAIN todo \ {id} /\ UNCHANGED <<ingresses, queue, delayed, pc, key, obj>>
<1> DEFINE old == Cache(routes)[id]
           new == [ ex     |-> TRUE,
                    body   |-> todo[id].body,
                    owners |-> SetOwner(KeptOwners(old), todo[id].owner, NsOf[id.ing]) ]
<1>1. id \in RouteIds /\ todo[id] \in [body : BodyRec, owner : Uids]
  BY DEF TypeOK, LocalOK
<1>2. Cache(routes) = API(routes) /\ API(routes) \in RouteState
  BY FreshRoutes, Bounds, WindowStates DEF TypeOK
<1>3. new \in RouteRec
  <2>1. KeptOwners(old) \in SUBSET Uids
    BY <1>1, <1>2 DEF RouteState, RouteRec, KeptOwners
  <2> QED
    BY <1>1, <2>1, SetOwnerType DEF RouteRec
<1>4. /\ todo' = [r \in DOMAIN todo \ {id} |-> todo[r]]
      /\ IF old = new THEN UNCHANGED routes ELSE WriteRoute(id, new)
      /\ UNCHANGED <<ingresses, queue, delayed, pc, key, obj>>
  BY DEF EnsureRoute, UpToDate
<1>5. /\ new.ex /\ new.body = todo[id].body
      /\ new.owners = SetOwner(API(routes)[id].owners, todo[id].owner, NsOf[id.ing])
  BY <1>2 DEF KeptOwners
<1>6. todo[id].owner[1] = id.ing => todo[id].owner \in new.owners
  BY DEF SetOwner
<1> HIDE DEF new
<1>7. API(routes') = [API(routes) EXCEPT ![id] = new]
  <2> DEFINE s == [API(routes) EXCEPT ![id] = new]
  <2>1. s \in RouteState
    BY <1>1, <1>2, <1>3 DEF RouteState
  <2>2. CASE old = new
    BY <1>1, <1>2, <1>4, <2>2 DEF RouteState
  <2>3. CASE WriteRoute(id, new)
    <3>1. routes' = Push(routes, s, RouteLag)
      BY <2>3 DEF WriteRoute
    <3> HIDE DEF s
    <3>2. API(routes') = s
      BY <2>1, <3>1, Bounds, PushWindow DEF TypeOK
    <3> QED
      BY <3>2 DEF s
  <2> QED
    BY <1>4, <2>2, <2>3
<1> QED
  BY <1>1, <1>2, <1>4, <1>5, <1>6, <1>7 DEF RouteState

(* Whatever changes a route is createOrUpdateResource, the clean-up of the   *)
(* Ingress it is tracked to, or the garbage collector.                       *)
LEMMA RouteChanges ==
  ASSUME TypeOK, RouteLag = 0, [Next]_vars, NEW id \in RouteIds
  PROVE  \/ API(routes')[id] = API(routes)[id]
         \/ id \in DOMAIN todo /\ EnsureRoute(id) /\ ~Fail
         \/ /\ pc = "cleanRoutes" /\ SourceOf(API(routes)[id]) = key
            /\ API(routes')[id] = NoRoute
         \/ /\ UNCHANGED ingresses
            /\ IF LivingOwners(API(routes)[id]) = {}
                 THEN API(routes')[id] = NoRoute
                 ELSE API(routes')[id] = [API(routes)[id] EXCEPT !.owners = LivingOwners(API(routes)[id])]
<1> DEFINE Goal ==
         \/ API(routes')[id] = API(routes)[id]
         \/ id \in DOMAIN todo /\ EnsureRoute(id) /\ ~Fail
         \/ /\ pc = "cleanRoutes" /\ SourceOf(API(routes)[id]) = key
            /\ API(routes')[id] = NoRoute
         \/ /\ UNCHANGED ingresses
            /\ IF LivingOwners(API(routes)[id]) = {}
                 THEN API(routes')[id] = NoRoute
                 ELSE API(routes')[id] = [API(routes)[id] EXCEPT !.owners = LivingOwners(API(routes)[id])]
<1> SUFFICES Goal
  OBVIOUS
<1>1. API(routes) \in RouteState /\ Cache(routes) = API(routes)
  BY FreshRoutes, Bounds, WindowStates DEF TypeOK
<1>2. CASE UNCHANGED routes
  BY <1>2
<1>3. ASSUME NEW r \in DOMAIN todo, EnsureRoute(r) PROVE Goal
  <2>1. r \in RouteIds
    BY DEF TypeOK, LocalOK
  <2>2. CASE Fail
    <3>1. pc' # pc
      BY <1>3, <2>2 DEF EnsureRoute, Fail, Return
    <3>2. UNCHANGED routes
      BY <1>3, <3>1 DEF EnsureRoute
    <3> QED
      BY <3>2
  <2>3. CASE ~Fail /\ r # id
    BY <1>3, <2>3, EnsureRouteEnds
  <2> QED
    BY <1>3, <2>2, <2>3
<1>4. ASSUME NEW S \in SUBSET Orphans, DeleteRoutes(S), pc = "cleanRoutes" PROVE Goal
  <2> DEFINE s == [r \in RouteIds |-> IF r \in S THEN NoRoute ELSE API(routes)[r]]
  <2>1. s \in RouteState /\ s[id] = IF id \in S THEN NoRoute ELSE API(routes)[id]
    BY <1>1, EmptyObjects DEF RouteState
  <2>2. id \in S => SourceOf(API(routes)[id]) = key
    BY <1>1 DEF Orphans
  <2>3. routes' = Push(routes, s, RouteLag) \/ routes' = routes
    BY <1>4 DEF DeleteRoutes
  <2> HIDE DEF s
  <2>4. API(routes')[id] = s[id] \/ API(routes')[id] = API(routes)[id]
    BY <2>1, <2>3, Bounds, PushWindow DEF TypeOK
  <2> QED
    BY <1>4, <2>1, <2>2, <2>4
<1>5. CASE CleanRoutes
  BY <1>4, <1>5 DEF CleanRoutes
<1>6. ASSUME NEW r \in RouteIds, CollectRoute(r) PROVE Goal
  <2> DEFINE o == API(routes)[r]
             n == IF LivingOwners(o) = {} THEN NoRoute ELSE [o EXCEPT !.owners = LivingOwners(o)]
             s == [API(routes) EXCEPT ![r] = n]
  <2>1. n \in RouteRec
    BY <1>1, EmptyObjects DEF RouteState, RouteRec, LivingOwners
  <2>2. s \in RouteState
    BY <1>1, <2>1 DEF RouteState
  <2>3. routes' = Push(routes, s, RouteLag) /\ UNCHANGED ingresses
    BY <1>6 DEF CollectRoute, WriteRoute
  <2> HIDE DEF s
  <2>4. API(routes') = s
    BY <2>2, <2>3, Bounds, PushWindow DEF TypeOK
  <2>5. CASE r = id
    <3>1. API(routes')[id] = n
      BY <1>1, <2>4, <2>5 DEF s, RouteState
    <3> QED
      BY <2>3, <2>5, <3>1
  <2>6. CASE r # id
    BY <1>1, <2>4, <2>6 DEF s, RouteState
  <2> QED
    BY <2>5, <2>6
<1>7. CASE Deliver \/ Restart
  BY <1>2, <1>7, Bounds, TailWindow, FreshWindow
  DEF Deliver, DeliverIngresses, DeliverGateways, DeliverRoutes, Restart, TypeOK, API
<1> QED
  BY <1>2, <1>3, <1>5, <1>6, <1>7
  DEF Next, Fetch, Work, AddFinalizer, Convert, ConvertIn, EnsureGateway, Finish,
      ListGateways, Detach, RemoveFinalizer, CallFails, TimerFires, Resync, Users,
      CreateIngress, EditIngress, DeleteIngress, ToggleExternalGateway, Collect, CollectGateway,
      kinds, vars

(* A route that carries its rule goes on carrying it: whoever writes it      *)
(* meanwhile converts the Ingress as the cache shows it, nobody else's       *)
(* clean-up takes it away, and its owner lives.                              *)
LEMMA CarriesStays ==
  ASSUME TypeOK, FreshRequest, TodoFits, [Next]_vars, RouteLag = 0,
         NEW id \in RouteIds, AsksFor(id, Cache(ingresses)[id.ing]),
         ~Stirred(id.ing), ~Stirred(id.ing)',
         Cache(ingresses')[id.ing] = Cache(ingresses)[id.ing], Carries(id)
  PROVE  Carries(id)'
<1> DEFINE o == Cache(ingresses)[id.ing]
           r == API(routes)[id]
<1>1. API(routes) \in RouteState /\ id.ing \in Ingresses
  BY RouteOfRule, Bounds, WindowStates DEF TypeOK
<1>2. CASE API(routes')[id] = r
  BY <1>2 DEF Carries
<1>3. CASE id \in DOMAIN todo /\ EnsureRoute(id) /\ ~Fail
  <2>1. WillCarry(id)
    BY <1>3 DEF TodoFits
  <2>2. /\ API(routes')[id].ex /\ API(routes')[id].body = todo[id].body
        /\ todo[id].owner[1] = id.ing => todo[id].owner \in API(routes')[id].owners
    BY <1>3, EnsureRouteEnds
  <2> QED
    BY <2>1, <2>2 DEF WillCarry, Carries
<1>4. CASE pc = "cleanRoutes" /\ SourceOf(r) = key
  <2>1. Leaving(obj) /\ key = id.ing
    BY <1>4 DEF TypeOK, PhaseOK, CleanUpSteps, Carries, SourceOf
  <2>2. obj = o
    BY <1>4, <2>1 DEF FreshRequest
  <2> QED
    BY <2>1, <2>2 DEF AsksFor
<1>5. CASE /\ UNCHANGED ingresses
           /\ IF LivingOwners(r) = {} THEN API(routes')[id] = NoRoute
                ELSE API(routes')[id] = [r EXCEPT !.owners = LivingOwners(r)]
  <2>1. API(ingresses)[id.ing] = o
    <3>1. Len(ingresses) \in 1..Len(ingresses)
      BY DEF TypeOK, IsWindow
    <3> QED
      BY <3>1 DEF Stirred, Pending, API, o
  <2>2. <<id.ing, o.gen>> \in LivingOwners(r)
    BY <2>1 DEF LivingOwners, Alive, AsksFor, Carries
  <2>3. r \in RouteRec /\ API(routes')[id] = [r EXCEPT !.owners = LivingOwners(r)]
    BY <1>1, <1>5, <2>2 DEF RouteState
  <2> HIDE DEF r
  <2>4. /\ API(routes')[id].ex = r.ex /\ API(routes')[id].body = r.body
        /\ API(routes')[id].owners = LivingOwners(r)
    BY <2>3 DEF RouteRec
  <2> QED
    BY <2>2, <2>4 DEF Carries, r
<1> QED
  BY <1>2, <1>3, <1>4, <1>5, RouteChanges

LEMMA RouteFitsNext ==
  ASSUME TypeOK, TypeOK', FreshRequest, TodoFits, [Next]_vars,
         OwnRules, Attributable, RouteLag = 0,
         NEW id \in RouteIds, RouteFits(id)
  PROVE  RouteFits(id)'
<1> SUFFICES ASSUME AsksFor(id, Cache(ingresses')[id.ing]),
                    ~Stirred(id.ing)', <<id.ing, "error">> \notin delayed'
             PROVE  Carries(id)' \/ Carrying(id)'
  BY DEF RouteFits
<1> DEFINE i == id.ing
           o == Cache(ingresses)[i]
<1>0. i \in Ingresses
  BY RouteOfRule
<1>1. i \notin queue'
  BY DEF Stirred
<1>2. CASE Fetch(i)
  <2>1. Cache(ingresses') = Cache(ingresses)
    BY <1>2 DEF Fetch, kinds
  <2>2. o.ex /\ ~Leaving(o) /\ ConfigValid(o.spec)
    BY <2>1 DEF AsksFor, Convertible, Selected
  <2>3. pc' \in {"addFinalizer", "convert"} /\ key' = i /\ obj' = o
    <3>1. ~MustCleanUp(o)
      BY <2>2 DEF MustCleanUp
    <3> QED
      BY <1>2, <2>2, <3>1 DEF Fetch
  <2> QED
    BY <2>1, <2>3 DEF Carrying
<1>3. CASE ~Fetch(i)
  <2>1. ~Restart /\ ~Stirred(i) /\ Cache(ingresses')[i] = o
    <3>1. Cache(ingresses')[i].ex
      BY DEF AsksFor
    <3> QED
      BY <1>0, <1>3, <3>1, StirKept
  <2>2. <<i, "error">> \notin delayed /\ AsksFor(id, o)
    BY <1>0, <1>1, <2>1, ErrorStays
  <2>3. CASE Carries(id)
    BY <2>1, <2>2, <2>3, CarriesStays
  <2>4. CASE Carrying(id)
    <3>1. ~Fail /\ pc # "idle" /\ key = i /\ obj = o
      BY <2>4 DEF Fail, Carrying, EnsureSteps
    <3>2. <<id.kind, id.host>> \in obj.spec.rules
      BY <2>2, <3>1 DEF AsksFor
    <3>3. CASE Convert
      <4>1. /\ pc' \in EnsureSteps /\ UNCHANGED <<ingresses, queue, key, obj>>
            /\ id \in DOMAIN todo'
        BY <3>1, <3>2, <3>3, ConvertMakes
      <4> QED
        BY <3>1, <4>1 DEF Carrying
    <3>4. CASE EnsureGateway
      <4>1. pc = "ensureGateway" /\ pc' = "ensureRoutes" /\ UNCHANGED <<ingresses, key, obj, todo>>
        BY <3>1, <3>4 DEF EnsureGateway
      <4> QED
        BY <2>4, <4>1 DEF Carrying, EnsureSteps
    <3>5. ASSUME NEW r \in DOMAIN todo, EnsureRoute(r) PROVE Carries(id)' \/ Carrying(id)'
      <4>1. pc = "ensureRoutes" /\ id \in DOMAIN todo
        BY <2>4, <3>5 DEF EnsureRoute, Carrying
      <4>2. DOMAIN todo' = DOMAIN todo \ {r} /\ UNCHANGED <<ingresses, pc, key, obj>>
        BY <3>1, <3>5, EnsureRouteEnds
      <4>3. CASE r # id
        BY <2>4, <4>1, <4>2, <4>3 DEF Carrying
      <4>4. CASE r = id
        <5>1. WillCarry(id)
          BY <2>1, <4>1 DEF TodoFits
        <5>2. /\ API(routes')[id].ex /\ API(routes')[id].body = todo[id].body
              /\ todo[id].owner[1] = id.ing => todo[id].owner \in API(routes')[id].owners
          BY <3>1, <3>5, <4>4, EnsureRouteEnds
        <5> QED
          BY <2>1, <5>1, <5>2 DEF WillCarry, Carries
      <4> QED
        BY <4>3, <4>4
    <3>6. CASE /\ AddFinalizer /\ WriteIngress(key, [obj EXCEPT !.fin = TRUE])
               /\ pc' = "convert" /\ key' = key /\ obj' = [obj EXCEPT !.fin = TRUE]
      <4>1. obj' \in IngressRec /\ WellFormed(i, obj')
        BY <3>1, <3>6 DEF TypeOK, LocalOK
      <4>2. WriteIngress(i, obj')
        BY <3>1, <3>6
      <4>3. ASSUME NEW n, WriteIngress(i, n), n \in IngressRec, WellFormed(i, n)
            PROVE  Cache(ingresses')[i] = n
        BY <1>0, <4>3, WriteStirs DEF Stirred
      <4> QED
        BY <3>1, <3>6, <4>1, <4>2, <4>3 DEF Carrying
    <3>7. CASE AddFinalizer
      BY <3>1, <3>6, <3>7 DEF AddFinalizer, Goto
    <3>8. CASE Finish
      BY <2>4, <3>8 DEF Finish, Carrying, EnsureSteps
    <3>9. CASE Work
      BY <2>4, <3>3, <3>4, <3>5, <3>7, <3>8, <3>9
      DEF Work, CleanRoutes, ListGateways, Detach, RemoveFinalizer, Carrying, EnsureSteps
    <3>10. CASE ~Work
      <4>1. ASSUME NEW j \in Ingresses, Fetch(j) PROVE FALSE
        BY <3>1, <4>1 DEF Fetch
      <4>2. ~CallFails
        BY <3>1 DEF CallFails
      <4>3. UNCHANGED <<pc, key, obj, todo>>
        BY <2>1, <3>10, <4>1, <4>2
        DEF Next, Deliver, DeliverIngresses, DeliverGateways, DeliverRoutes, TimerFires, Resync, Users,
            CreateIngress, EditIngress, DeleteIngress, ToggleExternalGateway, Edited,
            Collect, CollectGateway, CollectRoute, local, vars
      <4> QED
        BY <2>1, <2>4, <4>3 DEF Carrying
    <3> QED
      BY <3>9, <3>10
  <2> QED
    BY <2>1, <2>2, <2>3, <2>4 DEF RouteFits
<1> QED
  BY <1>2, <1>3

LEMMA RoutesFitInit == Init => TodoFits /\ RoutesFit /\ FreshRequest
<1> SUFFICES ASSUME Init PROVE TodoFits /\ RoutesFit /\ FreshRequest
  OBVIOUS
<1>1. DOMAIN << >> = {}
  OBVIOUS
<1>2. DOMAIN todo = {} /\ pc = "idle"
  BY <1>1 DEF Init
<1> QED
  BY <1>2, StartStirred, RouteOfRule DEF TodoFits, RoutesFit, RouteFits, FreshRequest, AsksFor

(* At rest, a route that is asked for carries its rule: an error that is     *)
(* left in back-off is of an Ingress that cannot be converted.               *)
LEMMA CarriesAtRest ==
  ASSUME TypeOK, Quiet, NEW id \in RouteIds, RouteFits(id),
         Serving(id.ing), Convertible(API(ingresses)[id.ing].spec),
         <<id.kind, id.host>> \in API(ingresses)[id.ing].spec.rules
  PROVE  Carries(id)
<1>1. id.ing \in Ingresses
  BY RouteOfRule
<1>2. ~Stirred(id.ing) /\ pc = "idle" /\ Cache(ingresses) = API(ingresses)
  BY <1>1, QuietStill
<1>3. AsksFor(id, Cache(ingresses)[id.ing])
  BY <1>2 DEF AsksFor, Serving, Leaving
<1>4. <<id.ing, "error">> \notin delayed
  BY DEF Quiet
<1>5. ~Carrying(id)
  BY <1>2 DEF Carrying, EnsureSteps
<1> QED
  BY <1>2, <1>3, <1>4, <1>5 DEF RouteFits

LEMMA ServedAtRest ==
  ASSUME TypeOK, Quiet,
         \A id \in RouteIds :
           /\ Serving(id.ing) /\ Convertible(API(ingresses)[id.ing].spec)
           /\ <<id.kind, id.host>> \in API(ingresses)[id.ing].spec.rules
           => Carries(id)
  PROVE  RoutesServe
<1> SUFFICES ASSUME NEW i \in Ingresses, Serving(i), Convertible(API(ingresses)[i].spec),
                    NEW rule \in API(ingresses)[i].spec.rules
             PROVE  \E id \in RouteIds :
                      /\ <<id.kind, id.host>> = rule /\ NsOf[id.ing] = NsOf[i]
                      /\ LET r == API(routes)[id] IN
                         /\ r.ex /\ i \in r.body.members
                         /\ r.body.parent \in {None, Target(i, API(ingresses)[i].spec)}
  BY DEF RoutesServe
<1>1. Cache(ingresses) = API(ingresses)
  BY QuietStill
<1>2. API(ingresses)[i].spec \in Specs[i]
  BY Bounds, WindowStates DEF TypeOK, IngressState, WellFormed
<1>3. PICK id \in RouteIds : id.ing = i /\ <<id.kind, id.host>> = rule
  BY <1>2, RuleIsRoute
<1>4. Carries(id)
  BY <1>3
<1> QED
  BY <1>1, <1>3, <1>4 DEF Carries

(* At rest every rule of every selected Ingress is carried by a route that   *)
(* includes the Ingress and hangs on its Gateway, on a managed Gateway or an *)
(* external one, whatever failed and whoever else was converted or cleaned   *)
(* up meanwhile: where no two Ingresses of a namespace share a rule and no   *)
(* resource can be attributed to another Ingress.                            *)
THEOREM RulesAreCarried ==
  ASSUME RouteLag = 0, OwnRules, Attributable
  PROVE  Spec => []RoutesServe
<1> DEFINE Inv == FreshRequest /\ TodoFits /\ RoutesFit
<1>1. Init => Inv
  BY RoutesFitInit
<1>2. TypeOK /\ TypeOK' /\ Inv /\ [Next]_vars => Inv'
  <2>1. RouteLag = 0 /\ OwnRules /\ Attributable
    OBVIOUS
  <2> SUFFICES ASSUME TypeOK, TypeOK', Inv, [Next]_vars PROVE Inv'
    OBVIOUS
  <2>2. FreshRequest' /\ TodoFits'
    BY <2>1, FreshRequestNext, TodoFitsNext
  <2>3. ASSUME NEW id \in RouteIds PROVE RouteFits(id)'
    <3>1. RouteFits(id)
      BY DEF RoutesFit
    <3> QED
      BY <2>1, <3>1, RouteFitsNext
  <2> QED
    BY <2>2, <2>3 DEF RoutesFit
<1>3. TypeOK /\ RoutesFit => RoutesServe
  BY CarriesAtRest, ServedAtRest DEF RoutesFit, RoutesServe
<1> QED
  BY <1>1, <1>2, <1>3, TypeCorrect, PTL DEF Spec

-----------------------------------------------------------------------------
(* A step of somebody else, another process that writes the same objects:    *)
(* this one's watches receive what it has made of them, and for the rest     *)
(* this one goes on where it was.                                            *)
Heard(s, g, r) ==
  /\ ingresses' \in {ingresses, Push(ingresses, s, IngressLag)}
  /\ gateways' \in {gateways, Push(gateways, g, GatewayLag)}
  /\ routes' \in {routes, Push(routes, r, RouteLag)}
  /\ queue' = queue \cup Noticed(ingresses, ingresses')
  /\ UNCHANGED <<delayed, local>>

LEMMA HeardType ==
  ASSUME TypeOK, NEW s \in IngressState, NEW g \in GatewayState, NEW r \in RouteState,
         Heard(s, g, r), edits' \in 0..MaxEdits, faults' \in 0..MaxFaults
  PROVE  TypeOK'
<1>1. /\ IsWindow(ingresses', IngressState, IngressLag)
      /\ IsWindow(gateways', GatewayState, GatewayLag)
      /\ IsWindow(routes', RouteState, RouteLag)
  BY Bounds, PushWindow DEF TypeOK, Heard
<1>2. queue' \in SUBSET Ingresses
  BY DEF TypeOK, Heard, Noticed
<1>3. UNCHANGED <<delayed, pc, key, obj, want, todo, detach, requeueAfter>>
  BY DEF Heard, local
<1>4. LocalOK' /\ PhaseOK'
  BY <1>3 DEF TypeOK, LocalOK, PhaseOK
<1> QED
  BY <1>1, <1>2, <1>3, <1>4 DEF TypeOK

(* What this one has been woken for it is still woken for, and the writes of *)
(* the other wake it.                                                        *)
LEMMA HeardAttended ==
  ASSUME TypeOK, NEW s \in IngressState, NEW g, NEW r, Heard(s, g, r), Attended
  PROVE  Attended'
<1>1. UNCHANGED <<delayed, pc, key, obj>>
  BY DEF Heard, local
<1>2. ASSUME NEW i \in Ingresses PROVE AttendedTo(i)'
  <2>1. /\ Stirred(i) => Stirred(i)'
        /\ Cache(ingresses')[i] # Cache(ingresses)[i] => Stirred(i)'
    <3>1. CASE UNCHANGED ingresses
      BY <3>1 DEF Heard, Stirred, Pending, Cache
    <3>2. CASE ingresses' = Push(ingresses, s, IngressLag)
      <4>1. /\ Stirred(i) => Stirred(i)'
            /\ Cache(ingresses')[i] # Cache(ingresses)[i] => i \in queue'
        BY <3>2, PushStirs DEF TypeOK, Heard
      <4> QED
        BY <4>1 DEF Stirred
    <3> QED
      BY <3>1, <3>2 DEF Heard
  <2>2. AttendedTo(i)
    BY DEF Attended
  <2> QED
    BY <1>1, <2>1, <2>2 DEF AttendedTo, FinalizerFits, Leaving
<1> QED
  BY <1>2 DEF Attended

(* A write that the cache is at most one behind. *)
LEMMA WindowStep ==
  ASSUME TypeOK, [Next]_vars, IngressLag <= 1
  PROVE  \/ UNCHANGED ingresses
         \/ /\ Cache(ingresses') = API(ingresses')
            /\ API(ingresses') = API(ingresses) \/ Cache(ingresses) = API(ingresses)
         \/ Cache(ingresses') = API(ingresses)
<1> DEFINE Goal == \/ UNCHANGED ingresses
                   \/ /\ Cache(ingresses') = API(ingresses')
                      /\ API(ingresses') = API(ingresses) \/ Cache(ingresses) = API(ingresses)
                   \/ Cache(ingresses') = API(ingresses)
<1> SUFFICES Goal
  OBVIOUS
<1> DEFINE n == Len(ingresses)
<1>1. /\ ingresses \in Seq(IngressState)
      /\ \/ IngressLag = 0 /\ n = 1
         \/ IngressLag = 1 /\ (n = 1 \/ n = 2)
  <2>1. ingresses \in Seq(IngressState) /\ n \in 1..(IngressLag + 1) /\ IngressLag \in Nat
    BY Bounds DEF TypeOK, IsWindow
  <2> HIDE DEF n
  <2> QED
    BY <2>1
<1>2. ASSUME NEW s, ingresses' = Push(ingresses, s, IngressLag) PROVE Goal
  <2> DEFINE w == ingresses
             T == IngressState \cup {s}
             v == IF Len(w) > IngressLag THEN Tail(w) ELSE w
  <2>1. w \in Seq(T)
    BY <1>1
  <2> HIDE DEF T
  <2>2. v \in Seq(T) /\ ((Len(v) = 0 /\ n = 1) \/ (Len(v) = 1 /\ v[1] = w[Len(w)]))
    <3>1. CASE n = IngressLag + 1
      <4>1. w # << >> /\ v = Tail(w)
        BY <1>1, <2>1, <3>1
      <4>2. v \in Seq(T) /\ Len(v) = n - 1 /\ \A k \in 1..Len(v) : v[k] = w[k + 1]
        BY <2>1, <4>1
      <4> HIDE DEF v
      <4> QED
        BY <1>1, <4>2
    <3>2. CASE n = 1 /\ IngressLag = 1
      <4>1. v = w /\ Len(v) = 1 /\ v[1] = w[Len(w)]
        BY <3>2
      <4> HIDE DEF v
      <4> QED
        BY <2>1, <4>1
    <3> HIDE DEF v, n
    <3>3. n = IngressLag + 1 \/ (n = 1 /\ IngressLag = 1)
      BY <1>1
    <3> QED
      BY <3>1, <3>2, <3>3
  <2>3. w' = Append(v, s)
    BY <1>2 DEF Push
  <2> HIDE DEF v
  <2>4. s \in T
    BY DEF T
  <2>5. /\ Len(w') = Len(v) + 1 /\ w'[Len(v) + 1] = s
        /\ Len(v) = 1 => w'[1] = v[1]
    BY <2>2, <2>3, <2>4
  <2> QED
    BY <2>2, <2>5 DEF Cache, API
<1>3. ASSUME NEW i, NEW o, WriteIngress(i, o) PROVE Goal
  BY <1>2, <1>3 DEF WriteIngress
<1>4. CASE DeliverIngresses
  <2>1. ingresses' = Tail(ingresses) /\ Len(ingresses) > 1
    BY <1>4 DEF DeliverIngresses
  <2>2. Len(ingresses) = 2
    BY <1>1, <2>1
  <2>3. Len(ingresses') = 1
    BY <1>1, <2>1, <2>2
  <2>4. API(ingresses') = API(ingresses)
    BY <2>1, TailWindow, Bounds DEF TypeOK
  <2> QED
    BY <2>3, <2>4 DEF Cache, API
<1>5. CASE Restart
  BY <1>5 DEF Restart, Cache, API
<1>6. CASE AddFinalizer \/ RemoveFinalizer
  BY <1>3, <1>6 DEF AddFinalizer, RemoveFinalizer
<1>7. CASE Users
  BY <1>3, <1>7 DEF Users, CreateIngress, EditIngress, DeleteIngress, ToggleExternalGateway
<1> QED
  BY <1>4, <1>5, <1>6, <1>7
  DEF Next, Fetch, Work, Convert, ConvertIn, EnsureGateway, EnsureRoute, Finish, CleanRoutes,
      ListGateways, Detach, CallFails, Deliver, DeliverGateways, DeliverRoutes, TimerFires,
      Resync, Collect, CollectGateway, CollectRoute, kinds, vars
=============================================================================

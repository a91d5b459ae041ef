-------------------------- MODULE NotificationsProofs --------------------------
(***************************************************************************)
(* What the four maps remember, once the controller has come to rest, and  *)
(* how often an Ingress is told the same thing.                            *)
(*                                                                         *)
(* Again each entry is right for the Ingress as the cache shows it, or     *)
(* somebody will be woken who puts it right (Stirred, RestProofs).  From   *)
(* "How often" on, the messages an Ingress may still be sent are counted   *)
(* as a debt that only users and failures add to (EventsArePaid).          *)
(***************************************************************************)
EXTENDS RestProofs, Notifications

(* Every Ingress has an entry, if an empty one, for each topic. *)
EntryOK(n) == DOMAIN n = Topics /\ \A t \in Topics : DOMAIN n[t] = {"last", "events"}

NotesOK == DOMAIN notes = Ingresses /\ \A i \in Ingresses : EntryOK(notes[i])

(* o is converted rather than cleaned up. *)
Stays(o) == o.ex /\ ~Leaving(o)

Awaited(i) == Stirred(i) \/ <<i, "error">> \in delayed

RequestedIn(i, steps) == pc \in steps /\ key = i /\ obj = Cache(ingresses)[i]

(* The two entries that are right for o. *)
MutedFits(n, o) ==
  /\ \A t \in Topics \ {"unmapped"} : n[t].last = Nothing
  /\ n["unmapped"].last = IF o.ex /\ Unmapped(o.spec) THEN {GetIngressClass(o.spec)} ELSE Nothing

ExternalFits(i, n, o) ==
  n["external"].last = IF TargetsExternal(o.spec) THEN {Target(i, o.spec)} ELSE Nothing

(* An entry that is not right is about to be looked at. *)
Muted(i) ==
  LET o == Cache(ingresses)[i] IN
  ~Stays(o) => Awaited(i) \/ RequestedIn(i, CleanUpSteps) \/ MutedFits(notes[i], o)

Unwarned(i) ==
  Stays(Cache(ingresses)[i]) => Stirred(i) \/ notes[i]["unmapped"].last = Nothing

Pointed(i) ==
  LET o == Cache(ingresses)[i] IN
  Stays(o) /\ ConfigValid(o.spec) =>
    \/ Awaited(i) \/ RequestedIn(i, {"addFinalizer", "convert"})
    \/ ExternalFits(i, notes[i], o)

Remembered == \A i \in Ingresses : Muted(i) /\ Unwarned(i) /\ Pointed(i)

-----------------------------------------------------------------------------
(* The maps' operations. *)

LEMMA TopicsDiffer ==
  /\ {"report", "external", "notFound", "unmapped"} = Topics
  /\ "external" # "unmapped" /\ "notFound" # "unmapped" /\ "report" # "unmapped"
  /\ "external" # "notFound" /\ "external" # "report" /\ "report" # "notFound"
BY DEF Topics

(* One topic of an entry overwritten. *)
LEMMA TopicSet ==
  ASSUME NEW n, EntryOK(n), NEW t \in Topics, NEW m, DOMAIN m = {"last", "events"}
  PROVE  /\ EntryOK([n EXCEPT ![t] = m])
         /\ [n EXCEPT ![t] = m][t] = m
         /\ \A u \in Topics \ {t} : [n EXCEPT ![t] = m][u] = n[u]
BY DEF EntryOK

LEMMA ToldLast ==
  ASSUME NEW m, DOMAIN m = {"last", "events"}, NEW msg
  PROVE  Told(m, msg).last = msg /\ DOMAIN Told(m, msg) = {"last", "events"}
BY DEF Told

LEMMA ForgotLast ==
  ASSUME NEW m, DOMAIN m = {"last", "events"}
  PROVE  Forgot(m).last = Nothing /\ DOMAIN Forgot(m) = {"last", "events"}
BY DEF Forgot

LEMMA ForgotAllLast ==
  ASSUME NEW n, EntryOK(n)
  PROVE  EntryOK(ForgotAll(n)) /\ \A t \in Topics : ForgotAll(n)[t].last = Nothing
BY ForgotLast DEF EntryOK, ForgotAll

(* A fetch leaves the entry right for what it fetched, but for the external  *)
(* Gateway, which waits for the conversion.                                  *)
LEMMA FetchNotesFit ==
  ASSUME NEW n, EntryOK(n), NEW o, o.del => o.fin
  PROVE  /\ EntryOK(FetchNotes(n, o))
         /\ ~Stays(o) /\ ~(o.ex /\ MustCleanUp(o)) => MutedFits(FetchNotes(n, o), o)
         /\ Stays(o) => FetchNotes(n, o)["unmapped"].last = Nothing
<1> DEFINE f == ForgotAll(n)
           told == Told(n["unmapped"], {GetIngressClass(o.spec)})
           quiet == Forgot(n["unmapped"])
<1>1. EntryOK(f) /\ \A t \in Topics : f[t].last = Nothing
  BY ForgotAllLast
<1>2. "unmapped" \in Topics /\ DOMAIN n["unmapped"] = {"last", "events"}
  BY DEF Topics, EntryOK
<1>3. DOMAIN told = {"last", "events"} /\ told.last = {GetIngressClass(o.spec)}
  BY <1>2, ToldLast
<1>4. DOMAIN quiet = {"last", "events"} /\ quiet.last = Nothing
  BY <1>2, ForgotLast
<1> HIDE DEF f, told, quiet
<1>5. CASE ~o.ex
  <2>1. FetchNotes(n, o) = f
    BY <1>5 DEF FetchNotes, f
  <2> QED
    BY <1>1, <1>2, <1>5, <2>1 DEF MutedFits, Stays
<1>6. CASE o.ex /\ (o.del \/ MustCleanUp(o))
  <2>1. FetchNotes(n, o) = n
    BY <1>6 DEF FetchNotes
  <2> QED
    BY <1>6, <2>1 DEF Stays, MustCleanUp, Leaving
<1>7. CASE o.ex /\ ~o.del /\ ~MustCleanUp(o) /\ IsEnabled(o.spec)
  <2>1. FetchNotes(n, o) = [n EXCEPT !["unmapped"] = quiet]
    BY <1>7 DEF FetchNotes, quiet
  <2>2. Stays(o)
    BY <1>7 DEF Stays, Leaving
  <2>3. /\ EntryOK([n EXCEPT !["unmapped"] = quiet])
        /\ [n EXCEPT !["unmapped"] = quiet]["unmapped"] = quiet
    BY <1>2, <1>4, TopicSet
  <2> QED
    BY <1>4, <2>1, <2>2, <2>3
<1>8. CASE o.ex /\ ~o.del /\ ~MustCleanUp(o) /\ ~IsEnabled(o.spec)
  <2>1. ~Stays(o)
    BY <1>8 DEF Stays, Leaving
  <2>2. CASE Unmapped(o.spec)
    <3>1. FetchNotes(n, o) = [f EXCEPT !["unmapped"] = told]
      BY <1>8, <2>2 DEF FetchNotes, f, told
    <3>2. /\ EntryOK([f EXCEPT !["unmapped"] = told])
          /\ [f EXCEPT !["unmapped"] = told]["unmapped"] = told
          /\ \A t \in Topics \ {"unmapped"} : [f EXCEPT !["unmapped"] = told][t] = f[t]
      BY <1>1, <1>2, <1>3, TopicSet
    <3> QED
      BY <1>1, <1>3, <1>8, <2>1, <2>2, <3>1, <3>2 DEF MutedFits
  <2>3. CASE ~Unmapped(o.spec)
    <3>1. FetchNotes(n, o) = f
      BY <1>8, <2>3 DEF FetchNotes, f
    <3> QED
      BY <1>1, <1>2, <2>1, <2>3, <3>1 DEF MutedFits
  <2> QED
    BY <2>2, <2>3
<1> QED
  BY <1>5, <1>6, <1>7, <1>8

LEMMA TargetNotesFit ==
  ASSUME NEW n, EntryOK(n), NEW unseen
  PROVE  /\ EntryOK(TargetNotes(n, unseen))
         /\ TargetNotes(n, unseen)["unmapped"] = n["unmapped"]
         /\ ExternalFits(key, TargetNotes(n, unseen), obj)
<1> DEFINE g == Target(key, obj.spec)
           told == Told(n["external"], {g})
           quiet == Forgot(n["external"])
           m == [n EXCEPT !["external"] = told]
           missed == Told(m["notFound"], {g})
           found == Forgot(m["notFound"])
<1>1. /\ {"external", "notFound", "unmapped"} \subseteq Topics
      /\ \A t \in Topics : DOMAIN n[t] = {"last", "events"}
  BY DEF Topics, EntryOK
<1>2. /\ DOMAIN told = {"last", "events"} /\ told.last = {g}
      /\ DOMAIN quiet = {"last", "events"} /\ quiet.last = Nothing
  BY <1>1, ToldLast, ForgotLast
<1> HIDE DEF told, quiet
<1>3. EntryOK(m) /\ m["external"] = told /\ \A u \in Topics \ {"external"} : m[u] = n[u]
  BY <1>1, <1>2, TopicSet
<1>4. /\ EntryOK([n EXCEPT !["external"] = quiet]) /\ [n EXCEPT !["external"] = quiet]["external"] = quiet
      /\ \A u \in Topics \ {"external"} : [n EXCEPT !["external"] = quiet][u] = n[u]
  BY <1>1, <1>2, TopicSet
<1> HIDE DEF m
<1>5. DOMAIN m["notFound"] = {"last", "events"}
  BY <1>1, <1>3
<1>6. DOMAIN missed = {"last", "events"} /\ DOMAIN found = {"last", "events"}
  BY <1>5, ToldLast, ForgotLast
<1> HIDE DEF missed, found
<1>7. /\ EntryOK([m EXCEPT !["notFound"] = missed])
      /\ \A u \in Topics \ {"notFound"} : [m EXCEPT !["notFound"] = missed][u] = m[u]
  BY <1>1, <1>3, <1>6, TopicSet
<1>8. /\ EntryOK([m EXCEPT !["notFound"] = found])
      /\ \A u \in Topics \ {"notFound"} : [m EXCEPT !["notFound"] = found][u] = m[u]
  BY <1>1, <1>3, <1>6, TopicSet
<1>9. CASE ~TargetsExternal(obj.spec)
  <2>1. TargetNotes(n, unseen) = [n EXCEPT !["external"] = quiet]
    BY <1>9 DEF TargetNotes, quiet
  <2> QED
    BY <1>1, <1>2, <1>4, <1>9, <2>1, TopicsDiffer DEF ExternalFits
<1>10. CASE TargetsExternal(obj.spec)
  <2>1. \/ TargetNotes(n, unseen) = m
        \/ TargetNotes(n, unseen) = [m EXCEPT !["notFound"] = found]
        \/ TargetNotes(n, unseen) = [m EXCEPT !["notFound"] = missed]
    BY <1>10 DEF TargetNotes, m, told, found, missed
  <2>2. /\ EntryOK(TargetNotes(n, unseen))
        /\ \A u \in Topics \ {"notFound"} : TargetNotes(n, unseen)[u] = m[u]
    BY <1>3, <1>7, <1>8, <2>1
  <2> QED
    BY <1>1, <1>2, <1>3, <1>10, <2>2, TopicsDiffer DEF ExternalFits
<1> QED
  BY <1>9, <1>10

LEMMA ConvertNotesFit ==
  ASSUME NEW n, EntryOK(n), NEW order, NEW unseen, NEW failed
  PROVE  /\ EntryOK(ConvertNotes(n, order, unseen, failed))
         /\ ConvertNotes(n, order, unseen, failed)["unmapped"] = n["unmapped"]
         /\ ExternalFits(key, ConvertNotes(n, order, unseen, failed), obj)
<1> DEFINE m == TargetNotes(n, unseen)
           told == Told(m["report"], Report(order))
           quiet == Forgot(m["report"])
<1>1. EntryOK(m) /\ m["unmapped"] = n["unmapped"] /\ ExternalFits(key, m, obj)
  BY TargetNotesFit
<1> HIDE DEF m
<1>2. "report" \in Topics /\ DOMAIN m["report"] = {"last", "events"}
  BY <1>1 DEF Topics, EntryOK
<1>3. DOMAIN told = {"last", "events"} /\ DOMAIN quiet = {"last", "events"}
  BY <1>2, ToldLast, ForgotLast
<1> HIDE DEF told, quiet
<1>4. /\ EntryOK([m EXCEPT !["report"] = told])
      /\ \A u \in Topics \ {"report"} : [m EXCEPT !["report"] = told][u] = m[u]
  BY <1>1, <1>2, <1>3, TopicSet
<1>5. /\ EntryOK([m EXCEPT !["report"] = quiet])
      /\ \A u \in Topics \ {"report"} : [m EXCEPT !["report"] = quiet][u] = m[u]
  BY <1>1, <1>2, <1>3, TopicSet
<1>6. \/ ConvertNotes(n, order, unseen, failed) = m
      \/ ConvertNotes(n, order, unseen, failed) = [m EXCEPT !["report"] = quiet]
      \/ ConvertNotes(n, order, unseen, failed) = [m EXCEPT !["report"] = told]
  BY DEF ConvertNotes, m, told, quiet
<1>7. /\ EntryOK(ConvertNotes(n, order, unseen, failed))
      /\ \A u \in Topics \ {"report"} : ConvertNotes(n, order, unseen, failed)[u] = m[u]
  BY <1>1, <1>4, <1>5, <1>6
<1> QED
  BY <1>1, <1>7, TopicsDiffer DEF ExternalFits

-----------------------------------------------------------------------------
(* What a step does to the entry of one Ingress. *)

(* A restart is no other step, and a fetch only a fetch. *)
LEMMA RestartAlone ==
  ASSUME TypeOK, Restart
  PROVE  /\ \A i \in Ingresses : ~Fetch(i)
         /\ ~Work /\ ~CallFails /\ ~Deliver /\ ~Resync /\ ~Users /\ ~Collect
         /\ \A d \in delayed : ~TimerFires(d)
<1>1. faults' = faults + 1 /\ faults' # faults /\ delayed' = {} /\ pc' = "idle"
  BY Bounds DEF Restart, Return, TypeOK
<1>2. ~Fail
  BY <1>1 DEF Fail
<1>3. ~Work
  BY <1>1, <1>2
  DEF Work, AddFinalizer, Convert, ConvertIn, EnsureGateway, EnsureRoute, Finish, CleanRoutes,
      ListGateways, Detach, RemoveFinalizer
<1> QED
  BY <1>1, <1>2, <1>3
  DEF Fetch, CallFails, Deliver, DeliverIngresses, DeliverGateways, DeliverRoutes, TimerFires,
      Resync, Users, CreateIngress, EditIngress, DeleteIngress, ToggleExternalGateway, Edited,
      Collect, CollectGateway, CollectRoute

LEMMA FetchAlone ==
  ASSUME TypeOK, NEW i \in Ingresses, Fetch(i)
  PROVE  /\ \A j \in Ingresses \ {i} : ~Fetch(j)
         /\ ~Work /\ ~CallFails /\ ~Deliver /\ ~Resync /\ ~Users /\ ~Collect
         /\ \A d \in delayed : ~TimerFires(d)
<1>1. pc = "idle" /\ i \in queue /\ i \notin queue' /\ queue' = queue \ {i} /\ UNCHANGED kinds
  BY DEF Fetch
<1>2. ~Work
  BY <1>1
  DEF Work, AddFinalizer, Convert, ConvertIn, EnsureGateway, EnsureRoute, Finish, CleanRoutes,
      ListGateways, Detach, RemoveFinalizer
<1>3. ~Users
  BY <1>1
  DEF Users, CreateIngress, EditIngress, DeleteIngress, ToggleExternalGateway, WriteIngress
<1> QED
  BY <1>1, <1>2, <1>3
  DEF Fetch, CallFails, Deliver, DeliverIngresses, DeliverGateways, DeliverRoutes, TimerFires,
      Resync, Collect, CollectGateway, CollectRoute

(* Along with the entries the reconciler takes a step of its own, or a Secret *)
(* comes or goes.                                                             *)
LEMMA NotedIsStep ==
  ASSUME [NotedNext]_allVars
  PROVE  [Next]_vars \/ \E k \in SecretKeys : ToggleSecret(k)
<1>1. NotedConvert => Work
  BY DEF NotedConvert, Work, Convert
<1>2. NotedRemoveFinalizer \/ SilentWork => Work
  BY DEF NotedRemoveFinalizer, SilentWork, Work
<1> QED
  BY <1>1, <1>2
  DEF NotedNext, NotedFetch, NotedCallFails, NotedRestart, Silent, Next, allVars

LEMMA NotedType == TypeOK /\ [NotedNext]_allVars => TypeOK'
<1> SUFFICES ASSUME TypeOK, [NotedNext]_allVars PROVE TypeOK'
  OBVIOUS
<1>1. ASSUME NEW k \in SecretKeys, ToggleSecret(k) PROVE TypeOK'
  <2>1. UNCHANGED <<kinds, queue, delayed, local, faults>> /\ edits < MaxEdits /\ edits' = edits + 1
    BY <1>1 DEF ToggleSecret, Edited
  <2>2. edits' \in 0..MaxEdits
    BY <2>1, Bounds DEF TypeOK
  <2> QED
    BY <2>1, <2>2 DEF TypeOK, LocalOK, PhaseOK, kinds, local
<1> QED
  BY <1>1, NextType, NotedIsStep

(* The entry of i after a step, by what the step is to i. *)
LEMMA EntryStep ==
  ASSUME TypeOK, NotesOK, [NotedNext]_allVars, NEW i \in Ingresses
  PROVE  /\ EntryOK(notes'[i])
         /\ \/ Fetch(i) /\ notes'[i] = FetchNotes(notes[i], Cache(ingresses)[i])
            \/ Restart /\ notes'[i] = ForgotAll(notes[i])
            \/ /\ ~Fetch(i) /\ ~Restart
               /\ \/ notes'[i] = notes[i] /\ (pc = "convert" /\ key = i => pc' = pc)
                  \/ /\ key = i /\ pc = "convert" /\ notes'[i]["unmapped"] = notes[i]["unmapped"]
                     /\ ExternalFits(i, notes'[i], obj)
                  \/ key = i /\ RemoveFinalizer /\ notes'[i] = ForgotAll(notes[i])
                  \/ /\ key = i /\ <<i, "error">> \in delayed'
                     /\ notes'[i]["unmapped"].last \in {Nothing, notes[i]["unmapped"].last}
<1> DEFINE Goal ==
         /\ EntryOK(notes'[i])
         /\ \/ Fetch(i) /\ notes'[i] = FetchNotes(notes[i], Cache(ingresses)[i])
            \/ Restart /\ notes'[i] = ForgotAll(notes[i])
            \/ /\ ~Fetch(i) /\ ~Restart
               /\ \/ notes'[i] = notes[i] /\ (pc = "convert" /\ key = i => pc' = pc)
                  \/ /\ key = i /\ pc = "convert" /\ notes'[i]["unmapped"] = notes[i]["unmapped"]
                     /\ ExternalFits(i, notes'[i], obj)
                  \/ key = i /\ RemoveFinalizer /\ notes'[i] = ForgotAll(notes[i])
                  \/ /\ key = i /\ <<i, "error">> \in delayed'
                     /\ notes'[i]["unmapped"].last \in {Nothing, notes[i]["unmapped"].last}
<1> SUFFICES Goal
  OBVIOUS
<1>1. DOMAIN notes = Ingresses /\ EntryOK(notes[i])
  BY DEF NotesOK
<1>2. ASSUME NEW j, NEW n, Note(j, n)
      PROVE  (j = i => notes'[i] = n) /\ (j # i => notes'[i] = notes[i])
  BY <1>1, <1>2 DEF Note
<1>3. /\ EntryOK(ForgotAll(notes[i]))
      /\ \A t \in Topics : ForgotAll(notes[i])[t].last = Nothing
  BY <1>1, ForgotAllLast
<1>4. "unmapped" \in Topics
  BY DEF Topics
<1>5. ASSUME NEW j \in Ingresses, NotedFetch(j) PROVE Goal
  <2>1. Fetch(j) /\ Note(j, FetchNotes(notes[j], Cache(ingresses)[j]))
    BY <1>5 DEF NotedFetch
  <2>2. CASE j = i
    <3>1. notes'[i] = FetchNotes(notes[i], Cache(ingresses)[i])
      BY <1>2, <2>1, <2>2
    <3>2. Cache(ingresses)[i].del => Cache(ingresses)[i].fin
      BY Bounds, WindowStates DEF TypeOK, IngressState, WellFormed, Cache
    <3>3. EntryOK(FetchNotes(notes[i], Cache(ingresses)[i]))
      BY <1>1, <3>2, FetchNotesFit
    <3> QED
      BY <2>1, <2>2, <3>1, <3>3
  <2>3. CASE j # i
    <3>1. notes'[i] = notes[i]
      BY <1>2, <2>1, <2>3
    <3>2. ~Fetch(i) /\ ~Restart
      BY <2>1, <2>3, FetchAlone, RestartAlone
    <3>3. pc # "convert"
      BY <2>1 DEF Fetch
    <3> QED
      BY <1>1, <3>1, <3>2, <3>3
  <2> QED
    BY <2>2, <2>3
<1>6. CASE NotedRestart
  BY <1>1, <1>3, <1>6 DEF NotedRestart
<1>7. CASE NotedConvert
  <2>1. PICK order \in ListOrders(Merged), unseen \in BOOLEAN :
          /\ ConvertIn(order, unseen)
          /\ Note(key, ConvertNotes(notes[key], order, unseen, pc' = "idle"))
    BY <1>7 DEF NotedConvert
  <2>2. pc = "convert"
    BY <1>7 DEF NotedConvert
  <2>3. Work
    BY <2>1, <2>2 DEF Work, Convert
  <2>4. ~Fetch(i) /\ ~Restart
    BY <2>3, FetchAlone, RestartAlone
  <2>5. CASE key = i
    <3> DEFINE n == ConvertNotes(notes[i], order, unseen, pc' = "idle")
    <3>1. notes'[i] = n
      BY <1>2, <2>1, <2>5
    <3>2. /\ EntryOK(n) /\ n["unmapped"] = notes[i]["unmapped"]
          /\ ExternalFits(key, n, obj)
      BY <1>1, ConvertNotesFit
    <3> HIDE DEF n
    <3> QED
      BY <2>2, <2>4, <2>5, <3>1, <3>2
  <2>6. CASE key # i
    <3>1. notes'[i] = notes[i]
      BY <1>2, <2>1, <2>6
    <3> QED
      BY <1>1, <2>4, <2>6, <3>1
  <2> QED
    BY <2>5, <2>6
<1>8. CASE NotedRemoveFinalizer
  <2>1. RemoveFinalizer /\ Note(key, ForgotAll(notes[key])) /\ Work
    BY <1>8 DEF NotedRemoveFinalizer, Work
  <2>2. ~Fetch(i) /\ ~Restart /\ pc # "convert"
    BY <2>1, FetchAlone, RestartAlone DEF RemoveFinalizer
  <2> QED
    BY <1>1, <1>2, <1>3, <2>1, <2>2
<1>9. CASE NotedCallFails
  <2>1. /\ CallFails /\ <<key, "error">> \in delayed'
        /\ \/ UNCHANGED notes
           \/ Note(key, TargetNotes(notes[key], FALSE))
           \/ Note(key, ForgotAll(notes[key]))
    BY <1>9 DEF NotedCallFails, CallFails, Fail
  <2>2. ~Fetch(i) /\ ~Restart
    BY <2>1, FetchAlone, RestartAlone
  <2>3. CASE key # i
    <3>1. notes'[i] = notes[i]
      BY <1>1, <2>1, <2>3 DEF Note
    <3> QED
      BY <1>1, <2>2, <2>3, <3>1
  <2>4. ASSUME key = i, Note(i, TargetNotes(notes[i], FALSE)) PROVE Goal
    <3>1. /\ EntryOK(TargetNotes(notes[i], FALSE))
          /\ TargetNotes(notes[i], FALSE)["unmapped"] = notes[i]["unmapped"]
      BY <1>1, TargetNotesFit
    <3> QED
      BY <1>2, <2>1, <2>2, <2>4, <3>1
  <2>5. ASSUME key = i, Note(i, ForgotAll(notes[i])) PROVE Goal
    BY <1>2, <1>3, <1>4, <2>1, <2>2, <2>5
  <2>6. ASSUME key = i, UNCHANGED notes PROVE Goal
    BY <1>1, <2>1, <2>2, <2>6
  <2> QED
    BY <2>1, <2>3, <2>4, <2>5, <2>6
<1>10. ASSUME NEW k \in SecretKeys, ToggleSecret(k) PROVE Goal
  <2>1. UNCHANGED <<kinds, queue, local, faults, notes>>
    BY <1>10 DEF ToggleSecret, Edited
  <2>2. ~Fetch(i) /\ ~Restart
    <3>1. Fetch(i) => i \in queue /\ i \notin queue'
      BY DEF Fetch
    <3>2. Restart => faults' # faults
      BY Bounds DEF Restart, TypeOK
    <3> QED
      BY <2>1, <3>1, <3>2
  <2> QED
    BY <1>1, <2>1, <2>2 DEF local
<1>11. CASE Silent
  <2>1. UNCHANGED notes
    BY <1>11 DEF Silent
  <2>2. ~Fetch(i) /\ ~Restart
    BY <1>11, FetchAlone, RestartAlone DEF Silent, SilentWork, Work
  <2>3. pc = "convert" => pc' = pc
    BY <1>11
    DEF Silent, SilentWork, AddFinalizer, EnsureGateway, EnsureRoute, Finish, CleanRoutes,
        ListGateways, Detach, Deliver, DeliverIngresses, DeliverGateways, DeliverRoutes, TimerFires,
        Resync, Users, CreateIngress, EditIngress, DeleteIngress, ToggleExternalGateway, Edited,
        Collect, CollectGateway, CollectRoute, local
  <2> QED
    BY <1>1, <2>1, <2>2, <2>3
<1>12. CASE UNCHANGED allVars
  <2>1. UNCHANGED <<queue, pc, faults, notes>>
    BY <1>12 DEF allVars, vars, local
  <2>2. ~Fetch(i) /\ ~Restart
    <3>1. Fetch(i) => i \in queue /\ i \notin queue'
      BY DEF Fetch
    <3>2. Restart => faults' # faults
      BY Bounds DEF Restart, TypeOK
    <3> QED
      BY <2>1, <3>1, <3>2
  <2> QED
    BY <1>1, <2>1, <2>2
<1> QED
  BY <1>5, <1>6, <1>7, <1>8, <1>9, <1>10, <1>11, <1>12 DEF NotedNext

LEMMA NotesNext == TypeOK /\ NotesOK /\ [NotedNext]_allVars => NotesOK'
<1> SUFFICES ASSUME TypeOK, NotesOK, [NotedNext]_allVars PROVE NotesOK'
  OBVIOUS
<1>1. \A i \in Ingresses : EntryOK(notes'[i])
  BY EntryStep
<1>2. DOMAIN notes' = Ingresses
  BY DEF NotesOK, NotedNext, NotedFetch, NotedConvert, NotedRemoveFinalizer, NotedCallFails,
         NotedRestart, ToggleSecret, Silent, allVars, Note
<1> QED
  BY <1>1, <1>2 DEF NotesOK

-----------------------------------------------------------------------------
(* The memory. *)

(* What a request writes about its Ingress, the cache has yet to show. *)
LEMMA WrittenStirs ==
  ASSUME TypeOK, NEW i \in Ingresses, key = i, obj = Cache(ingresses)[i],
         \/ /\ RemoveFinalizer
            /\ WriteIngress(key, IF obj.del THEN Gone(obj) ELSE [obj EXCEPT !.fin = FALSE])
         \/ AddFinalizer /\ WriteIngress(key, [obj EXCEPT !.fin = TRUE])
  PROVE  Stirred(i)'
<1>1. ASSUME NEW n \in IngressRec, WellFormed(i, n), WriteIngress(i, n), n # obj
      PROVE  Stirred(i)'
  BY <1>1, WriteStirs DEF Stirred
<1>2. CASE RemoveFinalizer
           /\ WriteIngress(key, IF obj.del THEN Gone(obj) ELSE [obj EXCEPT !.fin = FALSE])
  <2> DEFINE n == IF obj.del THEN Gone(obj) ELSE [obj EXCEPT !.fin = FALSE]
  <2>1. obj \in IngressRec /\ WellFormed(i, obj) /\ obj.fin
    BY <1>2 DEF RemoveFinalizer, TypeOK, LocalOK, PhaseOK, CleanUpSteps
  <2>2. n \in IngressRec /\ WellFormed(i, n) /\ ~n.fin
    BY <2>1 DEF IngressRec, WellFormed, Gone
  <2> QED
    BY <1>1, <1>2, <2>1, <2>2
<1>3. CASE AddFinalizer /\ WriteIngress(key, [obj EXCEPT !.fin = TRUE])
  <2> DEFINE n == [obj EXCEPT !.fin = TRUE]
  <2>1. obj \in IngressRec /\ WellFormed(i, obj) /\ ~obj.fin /\ obj.ex /\ ~Leaving(obj)
    BY <1>3 DEF AddFinalizer, TypeOK, LocalOK, PhaseOK, ConvertSteps
  <2>2. n \in IngressRec /\ WellFormed(i, n) /\ n.fin
    BY <2>1 DEF IngressRec, WellFormed, Leaving
  <2> QED
    BY <1>1, <1>3, <2>1, <2>2
<1> QED
  BY <1>2, <1>3

LEMMA FreshNoted ==
  ASSUME TypeOK, FreshRequest, [NotedNext]_allVars
  PROVE  FreshRequest'
<1>1. TypeOK'
  BY NotedType
<1>2. ASSUME NEW k \in SecretKeys, ToggleSecret(k) PROVE FreshRequest'
  BY <1>2 DEF ToggleSecret, Edited, kinds, local, FreshRequest, Stirred, Pending, Cache
<1> QED
  BY <1>1, <1>2, FreshRequestNext, NotedIsStep

(* An Ingress the cache shows as it did, of which nobody will be woken. *)
LEMMA RememberedStep ==
  ASSUME TypeOK, TypeOK', NotesOK, FreshRequest, Remembered, [NotedNext]_allVars,
         NEW i \in Ingresses, NEW o, o = Cache(ingresses)[i], o = Cache(ingresses')[i],
         ~Fetch(i), ~Restart, ~Stirred(i), ~Stirred(i)', [Next]_vars
  PROVE  LET n == notes'[i] IN
         /\ ~Stays(o) => <<i, "error">> \in delayed' \/ RequestedIn(i, CleanUpSteps)' \/ MutedFits(n, o)
         /\ Stays(o) => n["unmapped"].last = Nothing
         /\ Stays(o) /\ ConfigValid(o.spec) =>
              \/ <<i, "error">> \in delayed' \/ RequestedIn(i, {"addFinalizer", "convert"})'
              \/ ExternalFits(i, n, o)
<1> DEFINE n == notes'[i]
<1>1. /\ Muted(i) /\ Unwarned(i) /\ Pointed(i)
      /\ \A t \in Topics : ForgotAll(notes[i])[t].last = Nothing
      /\ "unmapped" \in Topics
  BY ForgotAllLast DEF Remembered, NotesOK, Topics
<1>2. SUFFICES ASSUME <<i, "error">> \notin delayed'
               PROVE  /\ ~Stays(o) => RequestedIn(i, CleanUpSteps)' \/ MutedFits(n, o)
                      /\ Stays(o) => n["unmapped"].last = Nothing
                      /\ Stays(o) /\ ConfigValid(o.spec) =>
                           \/ RequestedIn(i, {"addFinalizer", "convert"})'
                           \/ ExternalFits(i, n, o)
  <2>1. Stays(o) => n["unmapped"].last = Nothing
    BY <1>1, EntryStep DEF Unwarned
  <2> QED
    BY <1>2, <2>1
<1>3. <<i, "error">> \notin delayed /\ ~Awaited(i)
  BY <1>2, ErrorStays DEF Stirred, Awaited
(* A request for i goes on. *)
<1>4. ASSUME pc # "idle", key = i
      PROVE  /\ obj = o /\ obj.ex
             /\ pc \in CleanUpSteps => Leaving(obj)
             /\ pc \in ConvertSteps => ~Leaving(obj)
             /\ Finish \/ (pc' # "idle" /\ key' = i /\ obj' = o)
  <2>1. obj = o
    BY <1>4 DEF FreshRequest
  <2>2. /\ obj.ex
        /\ pc \in CleanUpSteps => Leaving(obj)
        /\ pc \in ConvertSteps => ~Leaving(obj)
    BY <1>4 DEF TypeOK, LocalOK, PhaseOK
  <2>3. /\ ~(RemoveFinalizer
               /\ WriteIngress(key, IF obj.del THEN Gone(obj) ELSE [obj EXCEPT !.fin = FALSE]))
        /\ ~(AddFinalizer /\ WriteIngress(key, [obj EXCEPT !.fin = TRUE]))
    BY <1>4, <2>1, WrittenStirs
  <2> QED
    BY <1>2, <1>4, <2>1, <2>2, <2>3, RequestGoesOn
<1>5. \/ n = notes[i] /\ (pc = "convert" /\ key = i => pc' = pc)
      \/ key = i /\ pc = "convert" /\ n["unmapped"] = notes[i]["unmapped"] /\ ExternalFits(i, n, obj)
      \/ key = i /\ pc = "detach" /\ n = ForgotAll(notes[i])
  BY <1>2, EntryStep DEF RemoveFinalizer
<1>6. ASSUME ~Stays(o) PROVE RequestedIn(i, CleanUpSteps)' \/ MutedFits(n, o)
  <2>1. CASE RequestedIn(i, CleanUpSteps)
    <3>1. pc # "idle" /\ key = i /\ pc \in CleanUpSteps /\ ~Finish
      BY <2>1 DEF RequestedIn, CleanUpSteps, Finish
    <3>2. Leaving(o) /\ pc' # "idle" /\ key' = i /\ obj' = o
      BY <1>4, <3>1
    <3>3. pc' \in CleanUpSteps
      BY <3>2 DEF TypeOK, LocalOK, PhaseOK
    <3> QED
      BY <3>2, <3>3 DEF RequestedIn
  <2>2. CASE MutedFits(notes[i], o)
    <3>1. CASE n = notes[i]
      BY <2>2, <3>1
    <3>2. CASE key = i /\ pc = "convert"
      BY <1>4, <1>6, <3>2 DEF Stays, ConvertSteps
    <3>3. CASE key = i /\ pc = "detach" /\ n = ForgotAll(notes[i])
      <4>1. pc' # "idle" /\ key' = i /\ obj' = o /\ Leaving(o)
        BY <1>4, <3>3 DEF CleanUpSteps, Finish
      <4>2. pc' \in CleanUpSteps
        BY <4>1 DEF TypeOK, LocalOK, PhaseOK
      <4> QED
        BY <4>1, <4>2 DEF RequestedIn
    <3> QED
      BY <1>5, <3>1, <3>2, <3>3
  <2> QED
    BY <1>1, <1>3, <1>6, <2>1, <2>2 DEF Muted
<1>7. ASSUME Stays(o) PROVE n["unmapped"].last = Nothing
  BY <1>1, <1>5, <1>7 DEF Unwarned
<1>8. ASSUME Stays(o), ConfigValid(o.spec)
      PROVE  RequestedIn(i, {"addFinalizer", "convert"})' \/ ExternalFits(i, n, o)
  <2>1. CASE key = i /\ pc = "convert" /\ ExternalFits(i, n, obj)
    BY <1>4, <2>1
  <2>2. CASE key = i /\ pc = "detach"
    BY <1>4, <1>8, <2>2 DEF Stays, CleanUpSteps
  <2>3. CASE n = notes[i] /\ (pc = "convert" /\ key = i => pc' = pc)
    <3>1. CASE ExternalFits(i, notes[i], o)
      BY <2>3, <3>1
    <3>2. CASE RequestedIn(i, {"addFinalizer", "convert"})
      <4>1. pc \in {"addFinalizer", "convert"} /\ key = i /\ pc' # "idle" /\ key' = i /\ obj' = o
        BY <1>4, <3>2 DEF RequestedIn, Finish
      <4>2. pc' = pc
        <5>1. CASE pc = "addFinalizer"
          <6>1. ~obj.fin /\ obj' = obj
            BY <1>4, <4>1, <5>1 DEF TypeOK, PhaseOK
          <6>2. pc' \in ConvertSteps
            BY <1>4, <4>1, <5>1 DEF TypeOK, LocalOK, PhaseOK, ConvertSteps
          <6> QED
            BY <4>1, <5>1, <6>1, <6>2 DEF TypeOK, PhaseOK
        <5> QED
          BY <2>3, <4>1, <5>1
      <4> QED
        BY <4>1, <4>2 DEF RequestedIn
    <3> QED
      BY <1>1, <1>3, <1>8, <3>1, <3>2 DEF Pointed
  <2> QED
    BY <1>5, <2>1, <2>2, <2>3
<1> QED
  BY <1>6, <1>7, <1>8

LEMMA RememberedNext ==
  ASSUME TypeOK, NotesOK, FreshRequest, Remembered, [NotedNext]_allVars
  PROVE  Remembered'
<1> SUFFICES ASSUME NEW i \in Ingresses PROVE Muted(i)' /\ Unwarned(i)' /\ Pointed(i)'
  BY DEF Remembered
<1>1. TypeOK'
  BY NotedType
<1>2. Muted(i) /\ Unwarned(i) /\ Pointed(i)
  BY DEF Remembered
<1>3. CASE Stirred(i)'
  BY <1>3 DEF Muted, Unwarned, Pointed, Awaited
<1>4. ASSUME NEW k \in SecretKeys, ToggleSecret(k) PROVE Muted(i)' /\ Unwarned(i)' /\ Pointed(i)'
  <2>1. UNCHANGED <<ingresses, queue, delayed, pc, key, obj, notes>>
    BY <1>4 DEF ToggleSecret, Edited, kinds, local
  <2> QED
    BY <1>2, <2>1
    DEF Muted, Unwarned, Pointed, Awaited, RequestedIn, Stirred, Pending, Cache
<1>5. ASSUME Fetch(i), ~Stirred(i)' PROVE Muted(i)' /\ Unwarned(i)' /\ Pointed(i)'
  <2> DEFINE o == Cache(ingresses)[i]
             n == notes'[i]
  <2>1. n = FetchNotes(notes[i], o)
    <3>1. ~Restart /\ ~CallFails /\ ~RemoveFinalizer /\ pc = "idle"
      BY <1>5, RestartAlone, FetchAlone DEF Fetch, Work
    <3> QED
      BY <1>5, <3>1, EntryStep, RestartAlone
  <2>2. Cache(ingresses') = Cache(ingresses)
    BY <1>5 DEF Fetch, kinds
  <2>3. /\ ~Stays(o) /\ ~(o.ex /\ MustCleanUp(o)) => MutedFits(n, o)
        /\ Stays(o) => n["unmapped"].last = Nothing
    <3>1. o.del => o.fin
      BY Bounds, WindowStates DEF TypeOK, IngressState, WellFormed, Cache
    <3> QED
      BY <2>1, <3>1, FetchNotesFit DEF NotesOK
  <2>4. o.ex /\ MustCleanUp(o) => pc' = "cleanRoutes" /\ key' = i /\ obj' = o
    BY <1>5 DEF Fetch, MustCleanUp
  <2>5. Stays(o) /\ ConfigValid(o.spec) =>
          pc' \in {"convert", "addFinalizer"} /\ key' = i /\ obj' = o
    BY <1>5 DEF Fetch, MustCleanUp, Stays
  <2> HIDE DEF o, n
  <2>6. Cache(ingresses')[i] = o /\ notes'[i] = n
    BY <2>2 DEF o, n
  <2>7. Muted(i)'
    BY <2>3, <2>4, <2>6 DEF Muted, RequestedIn, CleanUpSteps
  <2>8. Unwarned(i)'
    BY <2>3, <2>6 DEF Unwarned
  <2>9. Pointed(i)'
    BY <2>5, <2>6 DEF Pointed, RequestedIn
  <2> QED
    BY <2>7, <2>8, <2>9
<1>6. ASSUME Restart, ~Stirred(i)' PROVE Muted(i)' /\ Unwarned(i)' /\ Pointed(i)'
  <2>1. notes'[i] = ForgotAll(notes[i])
    BY <1>6, EntryStep, RestartAlone DEF Work
  <2>2. ~Cache(ingresses')[i].ex
    BY <1>6, StirKept DEF Next
  <2>3. \A t \in Topics : notes'[i][t].last = Nothing
    BY <2>1, ForgotAllLast DEF NotesOK
  <2> QED
    BY <2>2, <2>3, TopicsDiffer DEF Muted, Unwarned, Pointed, Stays, MutedFits
<1>7. ASSUME ~Fetch(i), ~Restart, ~Stirred(i)', [Next]_vars
      PROVE  Muted(i)' /\ Unwarned(i)' /\ Pointed(i)'
  <2>1. ~Stirred(i) /\ Cache(ingresses')[i] = Cache(ingresses)[i]
    BY <1>7, StirKept
  <2> DEFINE o == Cache(ingresses)[i]
             n == notes'[i]
  <2>2. /\ ~Stays(o) => <<i, "error">> \in delayed' \/ RequestedIn(i, CleanUpSteps)' \/ MutedFits(n, o)
        /\ Stays(o) => n["unmapped"].last = Nothing
        /\ Stays(o) /\ ConfigValid(o.spec) =>
             \/ <<i, "error">> \in delayed' \/ RequestedIn(i, {"addFinalizer", "convert"})'
             \/ ExternalFits(i, n, o)
    BY <1>1, <1>7, <2>1, RememberedStep
  <2> HIDE DEF o, n
  <2>3. Cache(ingresses')[i] = o /\ notes'[i] = n
    BY <2>1 DEF o, n
  <2> QED
    BY <2>2, <2>3 DEF Muted, Unwarned, Pointed, Awaited
<1> QED
  BY <1>3, <1>4, <1>5, <1>6, <1>7, NotedIsStep

(* All that the theorem rests on. *)
NotedInv == TypeOK /\ NotesOK /\ FreshRequest /\ Remembered

LEMMA NotedInvInit == NotedInit => NotedInv
<1> SUFFICES ASSUME NotedInit PROVE NotedInv
  OBVIOUS
<1>1. TypeOK /\ FreshRequest
  BY InitType DEF NotedInit, FreshRequest, Init
<1>2. NotesOK /\ \A i \in Ingresses : \A t \in Topics : notes[i][t].last = Nothing
  BY DEF NotedInit, NotesOK, EntryOK, NoNotes
<1>3. ASSUME NEW i \in Ingresses PROVE Muted(i) /\ Unwarned(i) /\ Pointed(i)
  <2>1. CASE Stirred(i)
    BY <2>1 DEF Muted, Unwarned, Pointed, Awaited
  <2>2. CASE ~Cache(ingresses)[i].ex
    BY <1>2, <2>2, TopicsDiffer DEF Muted, Unwarned, Pointed, Stays, MutedFits
  <2> QED
    BY <2>1, <2>2, StartStirred DEF NotedInit
<1> QED
  BY <1>1, <1>2, <1>3 DEF NotedInv, Remembered

(* At rest the maps hold what is the case, whatever the age of the caches,   *)
(* however many calls have failed and whenever the process was restarted     *)
(* (reconciler.go 84-88, 113-143, 210, 371-374).                             *)
THEOREM MemoryIsRight == NotedSpec => []MemoryFits
<1>1. NotedInv /\ [NotedNext]_allVars => NotedInv'
  BY NotedType, NotesNext, FreshNoted, RememberedNext DEF NotedInv
<1>2. ASSUME NotedInv PROVE MemoryFits
  <2> SUFFICES ASSUME Quiet, NEW i \in Ingresses
               PROVE  LET o == API(ingresses)[i]  n == notes[i] IN
                      /\ ~Serving(i) => MutedFits(n, o)
                      /\ Serving(i) => n["unmapped"].last = Nothing
                      /\ Serving(i) /\ Convertible(o.spec) => ExternalFits(i, n, o)
    BY DEF MemoryFits, MutedFits, ExternalFits
  <2>1. ~Stirred(i) /\ pc = "idle" /\ Cache(ingresses) = API(ingresses)
    BY <1>2, QuietStill DEF NotedInv
  <2>2. <<i, "error">> \in delayed =>
          Serving(i) /\ ~Convertible(API(ingresses)[i].spec)
    BY DEF Quiet
  <2>3. Serving(i) <=> Stays(Cache(ingresses)[i])
    BY <2>1 DEF Serving, Stays, Leaving
  <2>4. ~RequestedIn(i, CleanUpSteps) /\ ~RequestedIn(i, {"addFinalizer", "convert"})
    BY <2>1 DEF RequestedIn, CleanUpSteps
  <2>5. Convertible(API(ingresses)[i].spec) => ConfigValid(API(ingresses)[i].spec)
    BY DEF Convertible, Selected
  <2>6. Muted(i) /\ Unwarned(i) /\ Pointed(i)
    BY <1>2 DEF NotedInv, Remembered
  <2> QED
    BY <2>1, <2>2, <2>3, <2>4, <2>5, <2>6 DEF Muted, Unwarned, Pointed, Awaited
<1> QED
  BY <1>1, <1>2, NotedInvInit, PTL DEF NotedSpec

-----------------------------------------------------------------------------
(* How often.  What an Ingress may still be told without anything changing   *)
(* is a debt, of one message at most or, while a request works on settings   *)
(* the cache no longer shows, of two: every event is paid from it, and only  *)
(* users and failures add to it.                                             *)

Live(o) == o.ex /\ ~o.del

SameChoice(o, p) == (Live(o) <=> Live(p)) /\ (Live(o) => o.spec = p.spec)

(* The warnings of a conversion of i alone, with the Secrets of S. *)
Misses(i, provider, s, S) ==
  IF provider = "ingress-nginx" /\ NamesSecret(s) /\ SecretKey(i, s) \notin S
    THEN {<<i, SecretKey(i, s)>>}
    ELSE Nothing

(* The message of a topic that the settings of an Ingress call for. *)
Says(i, t, o, S) ==
  IF ~Live(o) THEN Nothing
  ELSE IF t = "unmapped"
    THEN IF ~IsEnabled(o.spec) /\ Unmapped(o.spec) THEN {GetIngressClass(o.spec)} ELSE Nothing
  ELSE IF ~Selected(o.spec) THEN Nothing
  ELSE IF t = "report" THEN Misses(i, ProviderOf(o.spec), o.spec, S)
  ELSE IF TargetsExternal(o.spec) THEN {Target(i, o.spec)} ELSE Nothing

(* It is yet to be told, or will be when the external Gateway goes. *)
Owes(i, t, o, last, S, G) ==
  /\ Says(i, t, o, S) # Nothing
  /\ \/ last # Says(i, t, o, S)
     \/ t = "notFound" /\ G[Target(i, o.spec)].ex

Unit(p) == IF p THEN 1 ELSE 0

(* The debt, where c is what the cache shows: of an Ingress nobody is about, *)
(* of one about to be converted, of one being cleaned up, which will have    *)
(* its memory erased.                                                        *)
Resting(i, t, c, last, S, G) ==
  Unit(Owes(i, t, c, last, S, G) \/ (MustCleanUp(c) /\ Says(i, t, c, S) # Nothing))

Converting(i, t, o, c, last, S, G) == Unit(Owes(i, t, o, last, S, G)) + Unit(~SameChoice(o, c))

Cleaning(i, t, o, c, S) == Unit(~SameChoice(o, c) \/ Says(i, t, o, S) # Nothing)

Debt(i, t) ==
  LET c    == Cache(ingresses)[i]
      last == notes[i][t].last
  IN IF key = i /\ pc \in {"addFinalizer", "convert"}
       THEN Converting(i, t, obj, c, last, secrets, API(gateways))
     ELSE IF key = i /\ pc \in CleanUpSteps THEN Cleaning(i, t, obj, c, secrets)
     ELSE Resting(i, t, c, last, secrets, API(gateways))

(* A change the cache has yet to show. *)
Pend(i) == Unit(~SameChoice(Cache(ingresses)[i], API(ingresses)[i]))

Solvent ==
  \A i \in Ingresses : \A t \in Topics :
    /\ notes[i][t].events \in Nat
    /\ notes[i][t].events + Debt(i, t) + Pend(i) <= 1 + edits + faults

(* The cache shows the finalizer of an Ingress that is leaving. *)
FinShown(c, o) == Live(c) /\ Leaving(c) /\ SameChoice(c, o) /\ o.fin => c.fin

Shown == \A i \in Ingresses : FinShown(Cache(ingresses)[i], API(ingresses)[i])

-----------------------------------------------------------------------------
LEMMA UnitRange == \A p : Unit(p) \in {0, 1}
BY DEF Unit

LEMMA Choices ==
  ASSUME NEW o, NEW p
  PROVE  /\ SameChoice(o, o)
         /\ SameChoice(o, p) => SameChoice(p, o)
         /\ \A q : SameChoice(o, p) /\ SameChoice(p, q) => SameChoice(o, q)
BY DEF SameChoice

LEMMA SaysSame ==
  ASSUME NEW i, NEW t, NEW o, NEW p, SameChoice(o, p), NEW S
  PROVE  /\ Says(i, t, o, S) = Says(i, t, p, S)
         /\ \A last, G : Owes(i, t, o, last, S, G) <=> Owes(i, t, p, last, S, G)
<1>1. CASE ~Live(o)
  BY <1>1 DEF SameChoice, Says, Owes
<1>2. CASE Live(o)
  BY <1>2 DEF SameChoice, Says, Owes
<1> QED
  BY <1>1, <1>2

(* The cache moves on, and nobody is about the Ingress. *)
LEMMA RestingMoves ==
  ASSUME NEW i, NEW t, NEW c, NEW d, NEW last, NEW S, NEW G, NEW H, FinShown(c, d),
         t = "notFound" /\ Says(i, t, c, S) # Nothing /\ H[Target(i, c.spec)].ex =>
           G[Target(i, c.spec)].ex
  PROVE  Resting(i, t, d, last, S, H) <= Resting(i, t, c, last, S, G) + Unit(~SameChoice(c, d))
<1>1. CASE ~SameChoice(c, d)
  BY <1>1 DEF Resting, Unit
<1>2. CASE SameChoice(c, d)
  <2>1. /\ Says(i, t, c, S) = Says(i, t, d, S)
        /\ Owes(i, t, c, last, S, H) <=> Owes(i, t, d, last, S, H)
    BY <1>2, SaysSame
  <2>2. Owes(i, t, c, last, S, H) => Owes(i, t, c, last, S, G)
    BY DEF Owes
  <2>3. Says(i, t, c, S) # Nothing => Live(c)
    BY DEF Says
  <2>4. Live(c) /\ MustCleanUp(d) => MustCleanUp(c)
    BY <1>2 DEF MustCleanUp, FinShown, SameChoice, Live, Leaving
  <2> QED
    BY <2>1, <2>2, <2>3, <2>4 DEF Resting, Unit
<1> QED
  BY <1>1, <1>2

(* The cache moves on behind the back of a request. *)
LEMMA ConvertingMoves ==
  ASSUME NEW i, NEW t, NEW o, NEW p, NEW c, NEW d, NEW last, NEW S, NEW G, NEW H,
         SameChoice(o, p),
         t = "notFound" /\ Says(i, t, o, S) # Nothing /\ H[Target(i, o.spec)].ex =>
           G[Target(i, o.spec)].ex
  PROVE  Converting(i, t, p, d, last, S, H) <=
           Converting(i, t, o, c, last, S, G) + Unit(~SameChoice(c, d))
<1>1. Owes(i, t, p, last, S, H) => Owes(i, t, o, last, S, H)
  BY SaysSame
<1>2. Owes(i, t, o, last, S, H) => Owes(i, t, o, last, S, G)
  BY DEF Owes
<1>3. ~SameChoice(p, d) => ~SameChoice(o, c) \/ ~SameChoice(c, d)
  BY Choices
<1> QED
  BY <1>1, <1>2, <1>3 DEF Converting, Unit

LEMMA CleaningMoves ==
  ASSUME NEW i, NEW t, NEW o, NEW c, NEW d, NEW S
  PROVE  Cleaning(i, t, o, d, S) <= Cleaning(i, t, o, c, S) + Unit(~SameChoice(c, d))
<1>1. ~SameChoice(o, d) => ~SameChoice(o, c) \/ ~SameChoice(c, d)
  BY Choices
<1> QED
  BY <1>1 DEF Cleaning, Unit

(* A request ends. *)
LEMMA ConvertingEnds ==
  ASSUME NEW i, NEW t, NEW o, NEW c, NEW last, NEW S, NEW G, o.ex, ~Leaving(o)
  PROVE  Resting(i, t, c, last, S, G) <= Converting(i, t, o, c, last, S, G)
<1>1. CASE ~SameChoice(o, c)
  BY <1>1 DEF Resting, Converting, Unit
<1>2. CASE SameChoice(o, c)
  <2>1. Owes(i, t, c, last, S, G) <=> Owes(i, t, o, last, S, G)
    BY <1>2, SaysSame
  <2>2. ~MustCleanUp(c)
    BY <1>2 DEF MustCleanUp, SameChoice, Live, Leaving
  <2> QED
    BY <2>1, <2>2 DEF Resting, Converting, Unit
<1> QED
  BY <1>1, <1>2

LEMMA CleaningEnds ==
  ASSUME NEW i, NEW t, NEW o, NEW c, NEW last, NEW S, NEW G
  PROVE  Resting(i, t, c, last, S, G) <= Cleaning(i, t, o, c, S)
<1>1. CASE SameChoice(o, c) /\ Says(i, t, o, S) = Nothing
  <2>1. Says(i, t, c, S) = Nothing
    BY <1>1, SaysSame
  <2> QED
    BY <2>1 DEF Resting, Cleaning, Unit, Owes
<1>2. CASE ~(SameChoice(o, c) /\ Says(i, t, o, S) = Nothing)
  BY <1>2 DEF Resting, Cleaning, Unit
<1> QED
  BY <1>1, <1>2

(* A request begins. *)
LEMMA RequestBegins ==
  ASSUME NEW i, NEW t, NEW c, NEW last, NEW S, NEW G
  PROVE  /\ Converting(i, t, c, c, last, S, G) <= Resting(i, t, c, last, S, G)
         /\ MustCleanUp(c) => Cleaning(i, t, c, c, S) <= Resting(i, t, c, last, S, G)
BY Choices DEF Resting, Converting, Cleaning, Unit

-----------------------------------------------------------------------------
(* What the maps' operations emit.                                           *)

LEMMA ToldCount ==
  ASSUME NEW m, DOMAIN m = {"last", "events"}, m.events \in Nat, NEW msg
  PROVE  Told(m, msg).last = msg /\ Told(m, msg).events = m.events + Unit(m.last # msg)
<1>1. CASE m.last = msg
  BY <1>1 DEF Told, Unit
<1>2. CASE m.last # msg
  BY <1>2 DEF Told, Unit
<1> QED
  BY <1>1, <1>2

LEMMA ForgotCount ==
  ASSUME NEW m, DOMAIN m = {"last", "events"}
  PROVE  Forgot(m).last = Nothing /\ Forgot(m).events = m.events
BY DEF Forgot

LEMMA TargetNotesAre ==
  ASSUME NEW n, EntryOK(n), NEW unseen
  PROVE  LET m == TargetNotes(n, unseen)
             g == Target(key, obj.spec)
         IN /\ EntryOK(m) /\ m["unmapped"] = n["unmapped"] /\ m["report"] = n["report"]
            /\ m["external"] = IF TargetsExternal(obj.spec) THEN Told(n["external"], {g})
                                                           ELSE Forgot(n["external"])
            /\ m["notFound"] = IF ~TargetsExternal(obj.spec) \/ unseen THEN n["notFound"]
                               ELSE IF Cache(gateways)[g].ex THEN Forgot(n["notFound"])
                               ELSE Told(n["notFound"], {g})
<1> DEFINE g == Target(key, obj.spec)
           told == Told(n["external"], {g})
           quiet == Forgot(n["external"])
           m == [n EXCEPT !["external"] = told]
           missed == Told(n["notFound"], {g})
           found == Forgot(n["notFound"])
           r == TargetNotes(n, unseen)
<1> SUFFICES /\ EntryOK(r) /\ r["unmapped"] = n["unmapped"] /\ r["report"] = n["report"]
             /\ r["external"] = IF TargetsExternal(obj.spec) THEN told ELSE quiet
             /\ r["notFound"] = IF ~TargetsExternal(obj.spec) \/ unseen THEN n["notFound"]
                                ELSE IF Cache(gateways)[g].ex THEN found ELSE missed
  OBVIOUS
<1>1. /\ {"external", "notFound", "unmapped", "report"} \subseteq Topics
      /\ \A t \in Topics : DOMAIN n[t] = {"last", "events"}
  BY DEF Topics, EntryOK
<1>2. /\ DOMAIN told = {"last", "events"} /\ DOMAIN quiet = {"last", "events"}
      /\ DOMAIN missed = {"last", "events"} /\ DOMAIN found = {"last", "events"}
  BY <1>1, ToldLast, ForgotLast
<1>3. /\ m = [n EXCEPT !["external"] = told]
      /\ \/ r = [n EXCEPT !["external"] = quiet] /\ ~TargetsExternal(obj.spec)
         \/ r = m /\ TargetsExternal(obj.spec) /\ unseen
         \/ r = [m EXCEPT !["notFound"] = Forgot(m["notFound"])] /\ TargetsExternal(obj.spec) /\ ~unseen
            /\ Cache(gateways)[g].ex
         \/ r = [m EXCEPT !["notFound"] = Told(m["notFound"], {g})] /\ TargetsExternal(obj.spec)
            /\ ~unseen /\ ~Cache(gateways)[g].ex
  <2>1. CASE ~TargetsExternal(obj.spec)
    BY <2>1 DEF TargetNotes
  <2>2. CASE TargetsExternal(obj.spec)
    BY <2>2 DEF TargetNotes
  <2> QED
    BY <2>1, <2>2
<1> HIDE DEF r, m
<1> HIDE DEF told, quiet, missed, found, g
<1>10. "external" \in Topics /\ "notFound" \in Topics
  BY <1>1
<1>4. EntryOK(m) /\ m["external"] = told /\ \A u \in Topics \ {"external"} : m[u] = n[u]
  <2>1. /\ EntryOK([n EXCEPT !["external"] = told])
        /\ [n EXCEPT !["external"] = told]["external"] = told
        /\ \A u \in Topics \ {"external"} : [n EXCEPT !["external"] = told][u] = n[u]
    BY <1>2, <1>10, TopicSet
  <2> QED
    BY <1>3, <2>1
<1>5. m["notFound"] = n["notFound"]
  BY <1>1, <1>4, TopicsDiffer
<1>6. /\ \/ r = [n EXCEPT !["external"] = quiet] /\ ~TargetsExternal(obj.spec)
         \/ r = m /\ TargetsExternal(obj.spec) /\ unseen
         \/ r = [m EXCEPT !["notFound"] = found] /\ TargetsExternal(obj.spec) /\ ~unseen
            /\ Cache(gateways)[g].ex
         \/ r = [m EXCEPT !["notFound"] = missed] /\ TargetsExternal(obj.spec)
            /\ ~unseen /\ ~Cache(gateways)[g].ex
  BY <1>3, <1>5 DEF missed, found
<1>7. CASE r = [n EXCEPT !["external"] = quiet] /\ ~TargetsExternal(obj.spec)
  <2>2. /\ EntryOK([n EXCEPT !["external"] = quiet])
        /\ [n EXCEPT !["external"] = quiet]["external"] = quiet
        /\ \A u \in Topics \ {"external"} : [n EXCEPT !["external"] = quiet][u] = n[u]
    BY <1>2, <1>10, TopicSet
  <2>1. /\ EntryOK(r) /\ r["external"] = quiet
        /\ \A u \in Topics \ {"external"} : r[u] = n[u]
    BY <1>7, <2>2
  <2> QED
    BY <1>1, <1>7, <2>1, TopicsDiffer
<1>8. CASE r = m /\ TargetsExternal(obj.spec) /\ unseen
  BY <1>1, <1>4, <1>8, TopicsDiffer
<1>9. ASSUME NEW x \in {found, missed}, r = [m EXCEPT !["notFound"] = x]
      PROVE  /\ EntryOK(r) /\ r["unmapped"] = n["unmapped"] /\ r["report"] = n["report"]
             /\ r["external"] = told /\ r["notFound"] = x
  <2>2. /\ EntryOK([m EXCEPT !["notFound"] = x]) /\ [m EXCEPT !["notFound"] = x]["notFound"] = x
        /\ \A u \in Topics \ {"notFound"} : [m EXCEPT !["notFound"] = x][u] = m[u]
    BY <1>2, <1>4, <1>10, TopicSet
  <2>1. /\ EntryOK(r) /\ r["notFound"] = x
        /\ \A u \in Topics \ {"notFound"} : r[u] = m[u]
    BY <1>9, <2>2
  <2> QED
    BY <1>1, <1>4, <2>1, TopicsDiffer
<1> QED
  BY <1>6, <1>7, <1>8, <1>9

LEMMA ConvertNotesAre ==
  ASSUME NEW n, EntryOK(n), NEW order, NEW unseen, NEW failed
  PROVE  LET m == ConvertNotes(n, order, unseen, failed) IN
         /\ \A t \in Topics \ {"report"} : m[t] = TargetNotes(n, unseen)[t]
         /\ m["report"] = IF failed THEN n["report"]
                          ELSE IF Report(order) = Nothing THEN Forgot(n["report"])
                          ELSE Told(n["report"], Report(order))
<1> DEFINE m == TargetNotes(n, unseen)
           told == Told(n["report"], Report(order))
           quiet == Forgot(n["report"])
           r == ConvertNotes(n, order, unseen, failed)
<1>1. EntryOK(m) /\ m["report"] = n["report"]
  BY TargetNotesAre
<1>2. "report" \in Topics /\ DOMAIN told = {"last", "events"} /\ DOMAIN quiet = {"last", "events"}
  BY ToldLast, ForgotLast DEF Topics, EntryOK
<1>3. \/ failed /\ r = m
      \/ ~failed /\ Report(order) = Nothing /\ r = [m EXCEPT !["report"] = Forgot(m["report"])]
      \/ ~failed /\ Report(order) # Nothing /\ r = [m EXCEPT !["report"] = Told(m["report"], Report(order))]
  BY DEF ConvertNotes
<1>4. \/ failed /\ r = m
      \/ ~failed /\ Report(order) = Nothing /\ r = [m EXCEPT !["report"] = quiet]
      \/ ~failed /\ Report(order) # Nothing /\ r = [m EXCEPT !["report"] = told]
  BY <1>1, <1>3
<1> HIDE DEF told, quiet, m, r
<1>5. ASSUME NEW x \in {quiet, told}, r = [m EXCEPT !["report"] = x]
      PROVE  r["report"] = x /\ \A t \in Topics \ {"report"} : r[t] = m[t]
  BY <1>1, <1>2, <1>5, TopicSet
<1>6. /\ \A t \in Topics \ {"report"} : r[t] = m[t]
      /\ r["report"] = IF failed THEN n["report"] ELSE IF Report(order) = Nothing THEN quiet ELSE told
  BY <1>1, <1>4, <1>5
<1> QED
  BY <1>6 DEF r, m, told, quiet

LEMMA FetchNotesAre ==
  ASSUME NEW n, EntryOK(n), NEW o
  PROVE  LET m == FetchNotes(n, o) IN
         \/ m = ForgotAll(n) /\ (~o.ex \/ (~o.del /\ ~MustCleanUp(o) /\ ~IsEnabled(o.spec) /\ ~Unmapped(o.spec)))
         \/ m = n /\ (o.del \/ MustCleanUp(o))
         \/ /\ ~o.del /\ IsEnabled(o.spec)
            /\ m["unmapped"] = Forgot(n["unmapped"])
            /\ \A t \in Topics \ {"unmapped"} : m[t] = n[t]
         \/ /\ o.ex /\ ~o.del /\ ~MustCleanUp(o) /\ ~IsEnabled(o.spec) /\ Unmapped(o.spec)
            /\ m["unmapped"] = Told(n["unmapped"], {GetIngressClass(o.spec)})
            /\ \A t \in Topics \ {"unmapped"} : m[t] = Forgot(n[t])
<1> DEFINE told == Told(n["unmapped"], {GetIngressClass(o.spec)})
           quiet == Forgot(n["unmapped"])
           r == FetchNotes(n, o)
<1>1. /\ "unmapped" \in Topics /\ DOMAIN told = {"last", "events"} /\ DOMAIN quiet = {"last", "events"}
      /\ EntryOK(ForgotAll(n))
  BY ToldLast, ForgotLast, ForgotAllLast DEF Topics, EntryOK
<1>2. \A t \in Topics : ForgotAll(n)[t] = Forgot(n[t])
  BY DEF ForgotAll
<1>3. \/ r = ForgotAll(n) /\ (~o.ex \/ (~o.del /\ ~MustCleanUp(o) /\ ~IsEnabled(o.spec) /\ ~Unmapped(o.spec)))
      \/ r = n /\ (o.del \/ MustCleanUp(o))
      \/ ~o.del /\ IsEnabled(o.spec) /\ r = [n EXCEPT !["unmapped"] = quiet]
      \/ /\ o.ex /\ ~o.del /\ ~MustCleanUp(o) /\ ~IsEnabled(o.spec) /\ Unmapped(o.spec)
         /\ r = [ForgotAll(n) EXCEPT !["unmapped"] = told]
  BY DEF FetchNotes
<1> HIDE DEF told, quiet, r
<1>4. ASSUME r = [n EXCEPT !["unmapped"] = quiet]
      PROVE  r["unmapped"] = quiet /\ \A t \in Topics \ {"unmapped"} : r[t] = n[t]
  BY <1>1, <1>4, TopicSet
<1>5. ASSUME r = [ForgotAll(n) EXCEPT !["unmapped"] = told]
      PROVE  r["unmapped"] = told /\ \A t \in Topics \ {"unmapped"} : r[t] = ForgotAll(n)[t]
  BY <1>1, <1>5, TopicSet
<1> QED
  BY <1>2, <1>3, <1>4, <1>5 DEF r, told, quiet

-----------------------------------------------------------------------------
(* What the steps do to an Ingress and to the external Gateways.             *)

(* Only users change what an Ingress asks for. *)
LEMMA ChoiceStays ==
  ASSUME TypeOK, [Next]_vars, edits' = edits, NEW i \in Ingresses
  PROVE  SameChoice(API(ingresses)[i], API(ingresses')[i])
<1> DEFINE a == API(ingresses)[i]  b == API(ingresses')[i]
<1>1. API(ingresses) \in IngressState /\ edits \in Nat
  BY Bounds, WindowStates DEF TypeOK
<1>2. a \in IngressRec /\ SameChoice(a, a)
  BY <1>1, Choices DEF IngressState
<1>3. SameChoice(a, [a EXCEPT !.fin = TRUE]) /\ SameChoice(a, [a EXCEPT !.fin = FALSE])
  BY <1>2 DEF SameChoice, Live, IngressRec
<1>4. a.del => SameChoice(a, Gone(a))
  BY <1>2 DEF SameChoice, Live, IngressRec, Gone
<1>5. \A n : [API(ingresses) EXCEPT ![key] = n][i] = IF i = key THEN n ELSE a
  BY <1>1 DEF IngressState
<1>6. CASE API(ingresses') = API(ingresses)
  BY <1>2, <1>6
<1>7. CASE /\ API(ingresses)[key] = obj
           /\ API(ingresses') = [API(ingresses) EXCEPT ![key] = [obj EXCEPT !.fin = TRUE]]
  BY <1>2, <1>3, <1>5, <1>7
<1>8. CASE /\ API(ingresses)[key] = obj
           /\ API(ingresses') = [API(ingresses) EXCEPT ![key] =
                                    IF obj.del THEN Gone(obj) ELSE [obj EXCEPT !.fin = FALSE]]
  BY <1>2, <1>3, <1>4, <1>5, <1>8
<1>9. edits' # edits + 1
  BY <1>1
<1> QED
  BY <1>6, <1>7, <1>8, <1>9, IngressWrites

(* What the cache is shown was pending or is the user's edit. *)
LEMMA IngressPays ==
  ASSUME TypeOK, [Next]_vars, IngressLag <= 1, NEW i \in Ingresses
  PROVE  Unit(~SameChoice(Cache(ingresses)[i], Cache(ingresses')[i]))
           + Unit(~SameChoice(Cache(ingresses')[i], API(ingresses')[i])) + edits
         <= Unit(~SameChoice(Cache(ingresses)[i], API(ingresses)[i])) + edits'
<1> DEFINE c == Cache(ingresses)[i]   d == Cache(ingresses')[i]
           a == API(ingresses)[i]     b == API(ingresses')[i]
<1>1. edits \in Nat /\ edits' \in {edits, edits + 1}
  BY EditsCount
<1>2. SameChoice(a, b) \/ edits' = edits + 1
  BY <1>1, ChoiceStays
<1>3. \/ d = c /\ b = a
      \/ d = b /\ (b = a \/ c = a)
      \/ d = a
  BY WindowStep
<1> HIDE DEF a, b, c, d
<1>4. SameChoice(a, a) /\ SameChoice(b, b) /\ SameChoice(c, c)
  BY Choices
<1> QED
  BY <1>1, <1>2, <1>3, <1>4 DEF Unit, a, b, c, d

LEMMA FinIsShown ==
  ASSUME TypeOK, [Next]_vars, IngressLag <= 1, NEW i \in Ingresses,
         FinShown(Cache(ingresses)[i], API(ingresses)[i])
  PROVE  /\ FinShown(Cache(ingresses')[i], API(ingresses')[i])
         /\ FinShown(Cache(ingresses)[i], Cache(ingresses')[i])
<1> DEFINE c == Cache(ingresses)[i]   d == Cache(ingresses')[i]
           a == API(ingresses)[i]     b == API(ingresses')[i]
<1>1. b.fin /\ ~a.fin => ~Leaving(a)
  BY FinalizerStep
<1>2. \/ d = c /\ b = a
      \/ d = b /\ (b = a \/ c = a)
      \/ d = a
  BY WindowStep
<1> QED
  BY <1>1, <1>2 DEF FinShown

(* External Gateways come by an administrator's hand only. *)
LEMMA ExternalsStay ==
  ASSUME TypeOK, ManagedOnly, [Next]_vars, \A h \in GatewayKeys : ~ToggleExternalGateway(h),
         NEW g \in GatewayKeys, IsExternalGateway(g), API(gateways')[g].ex
  PROVE  API(gateways)[g].ex
<1>1. API(gateways) \in GatewayState
  BY Bounds, WindowStates DEF TypeOK
<1>2. CASE API(gateways') = API(gateways)
  BY <1>2
<1>3. CASE Work
  BY <1>1, <1>3, GatewayWrites DEF GatewayState, ManagedOnly
<1>4. ASSUME NEW h \in GatewayKeys, CollectGateway(h) PROVE API(gateways)[g].ex
  <2> DEFINE o == API(gateways)[h]
             n == IF LivingOwners(o) = {} THEN NoGateway ELSE [o EXCEPT !.owners = LivingOwners(o)]
  <2>1. o \in GatewayRec /\ n \in GatewayRec /\ (n.ex => o.ex)
    BY <1>1, EmptyObjects DEF GatewayState, GatewayRec, LivingOwners, NoGateway
  <2>2. API(gateways') = [API(gateways) EXCEPT ![h] = n]
    BY <1>4, <2>1, WriteGatewayType DEF CollectGateway, TypeOK
  <2> HIDE DEF n
  <2> QED
    BY <1>1, <2>1, <2>2 DEF GatewayState
<1>5. CASE Deliver \/ Restart
  BY <1>1, <1>2, <1>5, Bounds, TailWindow, FreshWindow
  DEF Deliver, DeliverIngresses, DeliverGateways, DeliverRoutes, Restart, TypeOK
<1> QED
  BY <1>2, <1>3, <1>4, <1>5
  DEF Next, Fetch, CallFails, TimerFires, Resync, Users, CreateIngress, EditIngress,
      DeleteIngress, Collect, CollectRoute, kinds, vars

(* A conversion or a clean-up in progress was in progress before. *)
LEMMA RequestWas ==
  ASSUME TypeOK, [Next]_vars, NEW i \in Ingresses, ~Fetch(i), key' = i
  PROVE  /\ pc' \in {"addFinalizer", "convert"} =>
              /\ key = i /\ pc \in {"addFinalizer", "convert"} /\ SameChoice(obj, obj')
         /\ pc' \in CleanUpSteps => key = i /\ pc \in CleanUpSteps /\ obj' = obj
<1> DEFINE Goal ==
         /\ pc' \in {"addFinalizer", "convert"} =>
              /\ key = i /\ pc \in {"addFinalizer", "convert"} /\ SameChoice(obj, obj')
         /\ pc' \in CleanUpSteps => key = i /\ pc \in CleanUpSteps /\ obj' = obj
<1> SUFFICES Goal
  OBVIOUS
<1>1. ASSUME Return PROVE Goal
  BY <1>1 DEF Return, CleanUpSteps
<1>2. ASSUME UNCHANGED <<pc, key, obj>> PROVE Goal
  BY <1>2, Choices
<1>3. ASSUME pc' \in {"ensureGateway", "ensureRoutes"} PROVE Goal
  BY <1>3 DEF CleanUpSteps
<1>4. ASSUME AddFinalizer PROVE Goal
  <2>1. CASE Fail
    BY <1>1, <2>1 DEF Fail
  <2>2. ASSUME obj' = [obj EXCEPT !.fin = TRUE], Goto("convert") PROVE Goal
    <3>1. obj \in IngressRec
      BY <1>4 DEF AddFinalizer, TypeOK, LocalOK
    <3>2. SameChoice(obj, obj')
      BY <2>2, <3>1 DEF SameChoice, Live, IngressRec
    <3> QED
      BY <1>4, <2>2, <3>2 DEF AddFinalizer, Goto, CleanUpSteps
  <2> QED
    BY <1>4, <2>1, <2>2 DEF AddFinalizer
<1>5. CASE Convert
  BY <1>1, <1>3, <1>5 DEF Convert, ConvertIn, Fail
<1>6. CASE CleanRoutes
  BY <1>1, <1>6 DEF CleanRoutes, Fail, Goto, CleanUpSteps
<1>7. CASE ListGateways
  BY <1>7 DEF ListGateways, CleanUpSteps
<1>8. ASSUME Work PROVE Goal
  <2>1. ASSUME NEW id \in DOMAIN todo, EnsureRoute(id) PROVE Goal
    BY <2>1, <1>1, <1>2 DEF EnsureRoute, Fail
  <2>2. ASSUME NEW g \in DOMAIN detach, Detach(g) PROVE Goal
    BY <2>2, <1>1, <1>2 DEF Detach, Fail
  <2>3. CASE EnsureGateway \/ Finish \/ RemoveFinalizer
    BY <2>3, <1>1, <1>3 DEF EnsureGateway, Finish, RemoveFinalizer, Fail
  <2> QED
    BY <1>4, <1>5, <1>6, <1>7, <1>8, <2>1, <2>2, <2>3 DEF Work
<1>9. ASSUME NEW j \in Ingresses, j # i, Fetch(j) PROVE Goal
  BY <1>9, <1>2 DEF Fetch, local
<1>10. ASSUME CallFails \/ Restart PROVE Goal
  BY <1>10, <1>1 DEF CallFails, Restart, Fail
<1>11. ASSUME Deliver \/ (\E d \in delayed : TimerFires(d)) \/ Resync \/ Users \/ Collect
      PROVE  Goal
  BY <1>11, <1>2
  DEF Deliver, DeliverIngresses, DeliverGateways, DeliverRoutes, TimerFires, Resync, Users,
      CreateIngress, EditIngress, DeleteIngress, ToggleExternalGateway, Edited,
      Collect, CollectGateway, CollectRoute, local
<1>12. CASE UNCHANGED vars
  BY <1>12, <1>2 DEF vars, local
<1> QED
  BY <1>8, <1>9, <1>10, <1>11, <1>12 DEF Next

-----------------------------------------------------------------------------
(* The debt after a step. *)

LEMMA ExternalTarget ==
  ASSUME NEW i \in Ingresses, NEW o, NEW S, o.spec \in Specs[i], Says(i, "notFound", o, S) # Nothing
  PROVE  Target(i, o.spec) \in GatewayKeys /\ IsExternalGateway(Target(i, o.spec))
<1>1. TargetsExternal(o.spec)
  BY DEF Says
<1>2. Target(i, o.spec) \in GatewayKeys
  BY TargetIsGateway
<1> QED
  BY <1>1, <1>2 DEF Target, TargetGateway, TargetsExternal, IsExternalGateway

LEMMA DebtMoves ==
  ASSUME TypeOK, TypeOK', ManagedOnly, Shown, IngressLag <= 1, [Next]_vars, UNCHANGED secrets,
         \A h \in GatewayKeys : ~ToggleExternalGateway(h),
         NEW i \in Ingresses, NEW t \in Topics, ~Fetch(i),
         \/ notes'[i][t].last = notes[i][t].last
         \/ key = i /\ pc \in CleanUpSteps /\ pc' = "idle"
  PROVE  Debt(i, t)' <= Debt(i, t) + Unit(~SameChoice(Cache(ingresses)[i], Cache(ingresses')[i]))
<1> DEFINE c == Cache(ingresses)[i]
           d == Cache(ingresses')[i]
           last == notes[i][t].last
           new == notes'[i][t].last
           G == API(gateways)
           H == API(gateways')
           converting == key = i /\ pc \in {"addFinalizer", "convert"}
           cleaning == key = i /\ pc \in CleanUpSteps
           after == key' = i /\ pc' \in {"addFinalizer", "convert"}
           leaving == key' = i /\ pc' \in CleanUpSteps
<1> SUFFICES Debt(i, t)' <= Debt(i, t) + Unit(~SameChoice(c, d))
  OBVIOUS
<1>1. FinShown(c, d)
  BY FinIsShown DEF Shown
<1>2. ASSUME NEW o, o.spec \in Specs[i]
      PROVE  t = "notFound" /\ Says(i, t, o, secrets) # Nothing /\ H[Target(i, o.spec)].ex =>
               G[Target(i, o.spec)].ex
  BY <1>2, ExternalTarget, ExternalsStay
<1>3. c.spec \in Specs[i]
  BY Bounds, WindowStates DEF TypeOK, IngressState, WellFormed
<1>4. converting => obj.spec \in Specs[i] /\ obj.ex /\ ~Leaving(obj)
  BY DEF TypeOK, LocalOK, PhaseOK, WellFormed, ConvertSteps
<1>5. /\ after => converting /\ SameChoice(obj, obj')
      /\ leaving => cleaning /\ obj' = obj
  BY RequestWas
<1>6. converting => ~cleaning
  BY DEF CleanUpSteps
<1>7. after => ~leaving
  BY DEF CleanUpSteps
<1>8. Debt(i, t) = IF converting THEN Converting(i, t, obj, c, last, secrets, G)
                   ELSE IF cleaning THEN Cleaning(i, t, obj, c, secrets)
                   ELSE Resting(i, t, c, last, secrets, G)
  BY DEF Debt
<1>9. Debt(i, t)' = IF after THEN Converting(i, t, obj', d, new, secrets, H)
                    ELSE IF leaving THEN Cleaning(i, t, obj', d, secrets)
                    ELSE Resting(i, t, d, new, secrets, H)
  BY DEF Debt
<1>10. /\ after \/ leaving => pc' # "idle"
       /\ new = last \/ (cleaning /\ pc' = "idle")
  BY DEF CleanUpSteps
<1>11. /\ Unit(~SameChoice(c, d)) \in Nat
       /\ \A l : /\ Resting(i, t, c, l, secrets, G) \in Nat
                 /\ Resting(i, t, d, l, secrets, H) \in Nat
       /\ Cleaning(i, t, obj, c, secrets) \in Nat
       /\ Converting(i, t, obj, c, last, secrets, G) \in Nat
  BY DEF Unit, Resting, Cleaning, Converting
<1>12. \A l : Resting(i, t, d, l, secrets, H) <= Resting(i, t, c, l, secrets, G) + Unit(~SameChoice(c, d))
  BY <1>1, <1>2, <1>3, RestingMoves
<1>13. ASSUME after
       PROVE  Converting(i, t, obj', d, new, secrets, H) <=
                Converting(i, t, obj, c, last, secrets, G) + Unit(~SameChoice(c, d))
  <2>1. SameChoice(obj, obj') /\ new = last
    BY <1>5, <1>6, <1>10, <1>13
  <2>2. t = "notFound" /\ Says(i, t, obj, secrets) # Nothing /\ H[Target(i, obj.spec)].ex =>
          G[Target(i, obj.spec)].ex
    BY <1>2, <1>4, <1>5, <1>13
  <2> HIDE DEF c, d, G, H, last, new
  <2> QED
    BY <2>1, <2>2, ConvertingMoves
<1>14. ASSUME leaving
       PROVE  Cleaning(i, t, obj', d, secrets) <= Cleaning(i, t, obj, c, secrets) + Unit(~SameChoice(c, d))
  BY <1>5, <1>14, CleaningMoves
<1>15. converting =>
         Resting(i, t, c, last, secrets, G) <= Converting(i, t, obj, c, last, secrets, G)
  BY <1>4, ConvertingEnds
<1>16. Resting(i, t, c, new, secrets, G) <= Cleaning(i, t, obj, c, secrets)
  BY CleaningEnds
<1> HIDE DEF converting, cleaning, after, leaving, c, d, G, H, last, new
<1>17. CASE after
  BY <1>5, <1>8, <1>9, <1>13, <1>17
<1>18. CASE leaving
  BY <1>5, <1>6, <1>7, <1>8, <1>9, <1>14, <1>18
<1>19. CASE ~after /\ ~leaving /\ converting
  BY <1>6, <1>8, <1>9, <1>10, <1>11, <1>12, <1>15, <1>19
<1>20. CASE ~after /\ ~leaving /\ cleaning
  BY <1>6, <1>8, <1>9, <1>11, <1>12, <1>16, <1>20
<1>21. CASE ~after /\ ~leaving /\ ~converting /\ ~cleaning
  BY <1>8, <1>9, <1>10, <1>12, <1>21
<1> QED
  BY <1>17, <1>18, <1>19, <1>20, <1>21

(* Whatever happens to the external Gateways and to the Secrets, one more is owed at most. *)
LEMMA WorldMoves ==
  ASSUME NEW i \in Ingresses, NEW t \in Topics,
         UNCHANGED <<ingresses, pc, key, obj>>, notes'[i][t].last = notes[i][t].last
  PROVE  Debt(i, t)' <= Debt(i, t) + 1
<1> DEFINE c == Cache(ingresses)[i]
           last == notes[i][t].last
           G == API(gateways)
           H == API(gateways')
           converting == key = i /\ pc \in {"addFinalizer", "convert"}
           cleaning == key = i /\ pc \in CleanUpSteps
<1>1. Debt(i, t) = IF converting THEN Converting(i, t, obj, c, last, secrets, G)
                   ELSE IF cleaning THEN Cleaning(i, t, obj, c, secrets)
                   ELSE Resting(i, t, c, last, secrets, G)
  BY DEF Debt
<1>2. Debt(i, t)' = IF converting THEN Converting(i, t, obj, c, last, secrets', H)
                    ELSE IF cleaning THEN Cleaning(i, t, obj, c, secrets')
                    ELSE Resting(i, t, c, last, secrets', H)
  BY DEF Debt
<1> HIDE DEF c, last, G, H, converting, cleaning
<1> QED
  BY <1>1, <1>2 DEF Converting, Cleaning, Resting, Unit

LEMMA DebtRange ==
  ASSUME NEW i, NEW t
  PROVE  /\ Debt(i, t) \in {0, 1, 2}
         /\ pc \notin {"addFinalizer", "convert"} => Debt(i, t) \in {0, 1}
BY DEF Debt, Converting, Cleaning, Resting, Unit

-----------------------------------------------------------------------------
(* What a request emits is paid. *)

(* The class is found wanting, or all is well so far. *)
LEMMA FetchPays ==
  ASSUME NEW n, EntryOK(n), NEW t \in Topics, n[t].events \in Nat, NEW i, NEW c, NEW S, NEW G
  PROVE  LET m == FetchNotes(n, c) IN
         /\ m[t].events \in Nat
         /\ m[t].events + Resting(i, t, c, m[t].last, S, G) <=
              n[t].events + Resting(i, t, c, n[t].last, S, G)
<1> DEFINE m == FetchNotes(n, c)
           quiet == Forgot(n[t])
           told == Told(n["unmapped"], {GetIngressClass(c.spec)})
           silent == Says(i, t, c, S) = Nothing
<1> SUFFICES /\ m[t].events \in Nat
             /\ m[t].events + Resting(i, t, c, m[t].last, S, G) <=
                  n[t].events + Resting(i, t, c, n[t].last, S, G)
  OBVIOUS
<1>1. DOMAIN n[t] = {"last", "events"} /\ DOMAIN n["unmapped"] = {"last", "events"}
  BY TopicsDiffer DEF EntryOK
<1>2. quiet.last = Nothing /\ quiet.events = n[t].events
  BY <1>1, ForgotCount
<1>3. ForgotAll(n)[t] = quiet
  BY DEF ForgotAll
<1>4. \A l : Resting(i, t, c, l, S, G) \in {0, 1} /\ (silent => Resting(i, t, c, l, S, G) = 0)
  BY DEF Resting, Owes, Unit
<1>5. ASSUME m[t] = quiet, silent
      PROVE  /\ m[t].events \in Nat
             /\ m[t].events + Resting(i, t, c, m[t].last, S, G) <=
                  n[t].events + Resting(i, t, c, n[t].last, S, G)
  BY <1>2, <1>4, <1>5
<1>6. ASSUME m[t] = n[t]
      PROVE  /\ m[t].events \in Nat
             /\ m[t].events + Resting(i, t, c, m[t].last, S, G) <=
                  n[t].events + Resting(i, t, c, n[t].last, S, G)
  BY <1>4, <1>6
<1>7. \/ m = ForgotAll(n) /\ (~c.ex \/ (~c.del /\ ~MustCleanUp(c) /\ ~IsEnabled(c.spec) /\ ~Unmapped(c.spec)))
      \/ m = n /\ (c.del \/ MustCleanUp(c))
      \/ /\ ~c.del /\ IsEnabled(c.spec)
         /\ m["unmapped"] = Forgot(n["unmapped"])
         /\ \A u \in Topics \ {"unmapped"} : m[u] = n[u]
      \/ /\ c.ex /\ ~c.del /\ ~MustCleanUp(c) /\ ~IsEnabled(c.spec) /\ Unmapped(c.spec)
         /\ m["unmapped"] = told
         /\ \A u \in Topics \ {"unmapped"} : m[u] = Forgot(n[u])
  BY FetchNotesAre
<1> HIDE DEF m, told
<1>8. CASE m = ForgotAll(n) /\ (~c.ex \/ (~c.del /\ ~MustCleanUp(c) /\ ~IsEnabled(c.spec) /\ ~Unmapped(c.spec)))
  <2>1. silent
    BY <1>8 DEF Says, Live, Selected
  <2> QED
    BY <1>3, <1>5, <1>8, <2>1
<1>9. CASE /\ ~c.del /\ IsEnabled(c.spec)
           /\ m["unmapped"] = Forgot(n["unmapped"])
           /\ \A u \in Topics \ {"unmapped"} : m[u] = n[u]
  <2>1. CASE t = "unmapped"
    <3>1. silent
      BY <1>9, <2>1 DEF Says
    <3> QED
      BY <1>5, <1>9, <2>1, <3>1
  <2> QED
    BY <1>6, <1>9, <2>1
<1>10. CASE /\ c.ex /\ ~c.del /\ ~MustCleanUp(c) /\ ~IsEnabled(c.spec) /\ Unmapped(c.spec)
            /\ m["unmapped"] = told
            /\ \A u \in Topics \ {"unmapped"} : m[u] = Forgot(n[u])
  <2>1. CASE t # "unmapped"
    <3>1. silent
      BY <1>10, <2>1 DEF Says, Selected
    <3> QED
      BY <1>5, <1>10, <2>1, <3>1
  <2>2. CASE t = "unmapped"
    <3> DEFINE says == {GetIngressClass(c.spec)}
    <3>1. Says(i, t, c, S) = says /\ says # Nothing /\ t # "notFound"
      BY <1>10, <2>2, TopicsDiffer DEF Says, Live, Nothing
    <3>2. told.last = says /\ told.events = n[t].events + Unit(n[t].last # says)
      BY <1>1, <2>2, ToldCount DEF told
    <3>3. \A l : Resting(i, t, c, l, S, G) = Unit(l # says)
      BY <1>10, <3>1 DEF Resting, Owes, Unit
    <3>4. m[t] = told
      BY <1>10, <2>2
    <3> HIDE DEF says
    <3> QED
      BY <3>2, <3>3, <3>4 DEF Unit
  <2> QED
    BY <2>1, <2>2
<1> QED
  BY <1>6, <1>7, <1>8, <1>9, <1>10

LEMMA FetchDebt ==
  ASSUME TypeOK, NotesOK, UNCHANGED secrets, NEW i \in Ingresses, Fetch(i),
         notes'[i] = FetchNotes(notes[i], Cache(ingresses)[i]),
         NEW t \in Topics, notes[i][t].events \in Nat
  PROVE  /\ notes'[i][t].events \in Nat
         /\ notes'[i][t].events + Debt(i, t)' <= notes[i][t].events + Debt(i, t)
<1> DEFINE c == Cache(ingresses)[i]
           last == notes[i][t].last
           new == notes'[i][t].last
           G == API(gateways)
<1>1. pc = "idle" /\ UNCHANGED <<ingresses, gateways>>
  BY DEF Fetch, kinds
<1>2. Debt(i, t) = Resting(i, t, c, last, secrets, G)
  BY <1>1 DEF Debt, CleanUpSteps
<1>3. \/ pc' = "idle"
      \/ MustCleanUp(c) /\ key' = i /\ obj' = c /\ pc' = "cleanRoutes"
      \/ key' = i /\ obj' = c /\ pc' \in {"addFinalizer", "convert"}
  BY <1>1 DEF Fetch, local
<1>4. \/ Debt(i, t)' = Resting(i, t, c, new, secrets, G)
      \/ MustCleanUp(c) /\ Debt(i, t)' = Cleaning(i, t, c, c, secrets)
      \/ Debt(i, t)' = Converting(i, t, c, c, new, secrets, G)
  BY <1>1, <1>3 DEF Debt, CleanUpSteps
<1>5. /\ Converting(i, t, c, c, new, secrets, G) <= Resting(i, t, c, new, secrets, G)
      /\ MustCleanUp(c) => Cleaning(i, t, c, c, secrets) <= Resting(i, t, c, new, secrets, G)
  BY RequestBegins
<1>6. EntryOK(notes[i])
  BY DEF NotesOK
<1>7. /\ notes'[i][t].events \in Nat
      /\ notes'[i][t].events + Resting(i, t, c, new, secrets, G) <=
           notes[i][t].events + Resting(i, t, c, last, secrets, G)
  BY <1>6, FetchPays
<1>8. Debt(i, t)' \in Nat /\ Debt(i, t) \in Nat /\ Resting(i, t, c, new, secrets, G) \in Nat
  BY <1>2, <1>4 DEF Resting, Cleaning, Converting, Unit
<1> HIDE DEF c, last, new, G
<1> QED
  BY <1>2, <1>4, <1>5, <1>7, <1>8

(* A message that the settings call for, told or remembered. *)
LEMMA ToldPays ==
  ASSUME NEW m, DOMAIN m = {"last", "events"}, m.events \in Nat,
         NEW i, NEW t, NEW o, NEW c, NEW S, NEW G, ~Leaving(o),
         Says(i, t, o, S) # Nothing, t = "notFound" => ~G[Target(i, o.spec)].ex
  PROVE  LET k == Told(m, Says(i, t, o, S)) IN
         /\ k.events \in Nat
         /\ k.events + Resting(i, t, c, k.last, S, G) <= m.events + Converting(i, t, o, c, m.last, S, G)
<1> DEFINE says == Says(i, t, o, S)
           k == Told(m, says)
<1>1. k.last = says /\ k.events = m.events + Unit(m.last # says)
  BY ToldCount
<1>2. Owes(i, t, o, m.last, S, G) <=> m.last # says
  BY DEF Owes
<1>3. Converting(i, t, o, c, m.last, S, G) = Unit(m.last # says) + Unit(~SameChoice(o, c))
  BY <1>2 DEF Converting, Unit
<1>4. Resting(i, t, c, says, S, G) <= Unit(~SameChoice(o, c))
  <2>1. CASE SameChoice(o, c)
    <3>1. Says(i, t, c, S) = says /\ (Owes(i, t, c, says, S, G) <=> Owes(i, t, o, says, S, G))
      BY <2>1, SaysSame
    <3>2. ~MustCleanUp(c)
      <4>1. Live(o)
        BY DEF Says
      <4> QED
        BY <2>1, <4>1 DEF SameChoice, Live, MustCleanUp, Leaving
    <3>3. ~Owes(i, t, o, says, S, G)
      BY DEF Owes
    <3> QED
      BY <2>1, <3>1, <3>2, <3>3 DEF Resting, Unit
  <2>2. CASE ~SameChoice(o, c)
    BY <2>2 DEF Resting, Unit
  <2> QED
    BY <2>1, <2>2
<1>5. /\ Unit(m.last # says) \in Nat /\ Unit(~SameChoice(o, c)) \in Nat
      /\ Resting(i, t, c, says, S, G) \in Nat
  BY DEF Unit, Resting
<1> HIDE DEF says, k
<1>6. k.events \in Nat /\ k.events + Resting(i, t, c, k.last, S, G) <= m.events + Converting(i, t, o, c, m.last, S, G)
  BY <1>1, <1>3, <1>4, <1>5
<1> QED
  BY <1>6 DEF says, k

LEMMA ForgotPays ==
  ASSUME NEW m, DOMAIN m = {"last", "events"}, m.events \in Nat,
         NEW i, NEW t, NEW o, NEW c, NEW S, NEW G,
         Says(i, t, o, S) = Nothing \/ Owes(i, t, o, m.last, S, G)
  PROVE  LET k == Forgot(m) IN
         /\ k.events \in Nat
         /\ k.events + Resting(i, t, c, k.last, S, G) <= m.events + Converting(i, t, o, c, m.last, S, G)
<1> DEFINE k == Forgot(m)
           r == Resting(i, t, c, k.last, S, G)
           v == Converting(i, t, o, c, m.last, S, G)
<1>1. k.events = m.events
  BY ForgotCount
<1>2. r \in {0, 1} /\ v \in {0, 1, 2}
  BY DEF Resting, Converting, Unit
<1>3. CASE Owes(i, t, o, m.last, S, G) \/ ~SameChoice(o, c)
  <2>1. v # 0
    BY <1>3 DEF Converting, Unit
  <2> HIDE DEF k, r, v
  <2>2. k.events \in Nat /\ k.events + r <= m.events + v
    BY <1>1, <1>2, <2>1
  <2> QED
    BY <2>2 DEF k, r, v
<1>4. CASE Says(i, t, o, S) = Nothing /\ SameChoice(o, c)
  <2>1. Says(i, t, c, S) = Nothing
    BY <1>4, SaysSame
  <2>2. r = 0
    BY <2>1 DEF Resting, Owes, Unit
  <2> HIDE DEF k, r, v
  <2>3. k.events \in Nat /\ k.events + r <= m.events + v
    BY <1>1, <1>2, <2>2
  <2> QED
    BY <2>3 DEF k, r, v
<1> QED
  BY <1>3, <1>4

(* The look at the external Gateway. *)
LEMMA TargetPays ==
  ASSUME TypeOK, GatewayLag = 0, pc = "convert", NEW n, EntryOK(n),
         NEW t \in Topics, n[t].events \in Nat, NEW unseen, NEW c, NEW S
  PROVE  LET m == TargetNotes(n, unseen)
             G == API(gateways)
         IN /\ m[t].events \in Nat
            /\ m[t].events + Resting(key, t, c, m[t].last, S, G) <=
                 n[t].events + Converting(key, t, obj, c, n[t].last, S, G)
<1> DEFINE G == API(gateways)
           g == Target(key, obj.spec)
           m == TargetNotes(n, unseen)
           Paid(k) == /\ k.events \in Nat
                      /\ k.events + Resting(key, t, c, k.last, S, G) <=
                           n[t].events + Converting(key, t, obj, c, n[t].last, S, G)
<1> SUFFICES Paid(m[t])
  OBVIOUS
<1>1. key \in Ingresses /\ obj.ex /\ ~Leaving(obj) /\ ConfigValid(obj.spec)
  BY DEF TypeOK, LocalOK, PhaseOK, ConvertSteps
<1>2. Live(obj) /\ Selected(obj.spec) /\ IsEnabled(obj.spec)
  BY <1>1 DEF Live, Leaving, Selected
<1>3. DOMAIN n[t] = {"last", "events"}
  BY DEF EntryOK
<1>4. Cache(gateways) = G
  BY FreshGateways
<1>5. /\ m["unmapped"] = n["unmapped"] /\ m["report"] = n["report"]
      /\ m["external"] = IF TargetsExternal(obj.spec) THEN Told(n["external"], {g})
                                                      ELSE Forgot(n["external"])
      /\ m["notFound"] = IF ~TargetsExternal(obj.spec) \/ unseen THEN n["notFound"]
                         ELSE IF G[g].ex THEN Forgot(n["notFound"])
                         ELSE Told(n["notFound"], {g})
  BY <1>4, TargetNotesAre
<1>6. t \in {"external", "notFound"} =>
        Says(key, t, obj, S) = IF TargetsExternal(obj.spec) THEN {g} ELSE Nothing
  BY <1>2, TopicsDiffer DEF Says
<1>7. {g} # Nothing
  BY DEF Nothing
<1>8. Paid(n[t])
  <2>1. Resting(key, t, c, n[t].last, S, G) <= Converting(key, t, obj, c, n[t].last, S, G)
    BY <1>1, ConvertingEnds
  <2>2. /\ Resting(key, t, c, n[t].last, S, G) \in Nat
        /\ Converting(key, t, obj, c, n[t].last, S, G) \in Nat
    BY DEF Resting, Converting, Unit
  <2> QED
    BY <2>1, <2>2
<1>9. ASSUME Says(key, t, obj, S) # Nothing, t = "notFound" => ~G[g].ex
      PROVE  Paid(Told(n[t], Says(key, t, obj, S)))
  BY <1>1, <1>3, <1>9, ToldPays
<1>10. ASSUME Says(key, t, obj, S) = Nothing \/ Owes(key, t, obj, n[t].last, S, G)
       PROVE  Paid(Forgot(n[t]))
  BY <1>3, <1>10, ForgotPays
<1>11. t = "notFound" /\ Says(key, t, obj, S) # Nothing /\ G[g].ex =>
         Owes(key, t, obj, n[t].last, S, G)
  BY DEF Owes
<1> HIDE DEF m, G, g, Paid
<1>12. CASE t \in {"unmapped", "report"}
  BY <1>5, <1>8, <1>12
<1>13. CASE t = "external"
  <2>1. CASE TargetsExternal(obj.spec)
    BY <1>5, <1>6, <1>7, <1>9, <1>13, <2>1, TopicsDiffer
  <2>2. CASE ~TargetsExternal(obj.spec)
    BY <1>5, <1>6, <1>10, <1>13, <2>2
  <2> QED
    BY <2>1, <2>2
<1>14. CASE t = "notFound"
  <2>1. CASE ~TargetsExternal(obj.spec) \/ unseen
    BY <1>5, <1>8, <1>14, <2>1
  <2>2. CASE TargetsExternal(obj.spec) /\ ~unseen /\ G[g].ex
    BY <1>5, <1>6, <1>7, <1>10, <1>11, <1>14, <2>2
  <2>3. CASE TargetsExternal(obj.spec) /\ ~unseen /\ ~G[g].ex
    BY <1>5, <1>6, <1>7, <1>9, <1>14, <2>3
  <2> QED
    BY <2>1, <2>2, <2>3
<1> QED
  BY <1>12, <1>13, <1>14 DEF Topics

(* Ingresses that share a managed Gateway, and so a conversion, name no      *)
(* Secrets: a report is about the Ingress it is made for.                    *)
OwnSecrets ==
  \A i, j \in Ingresses : i # j =>
    \A s \in Specs[i], u \in Specs[j] :
      Selected(s) /\ Selected(u) /\ ~TargetsExternal(s) /\ ~TargetsExternal(u)
        /\ Target(i, s) = Target(j, u) => ~NamesSecret(s) /\ ~NamesSecret(u)

LEMMA ReportIs ==
  ASSUME TypeOK, OwnSecrets, pc = "convert", Merged # {}, NEW order \in ListOrders(Merged)
  PROVE  IF key \in Merged
           THEN Report(order) = Misses(key, ProviderOf(obj.spec), Copy(key).spec, secrets)
           ELSE Report(order) = Nothing
<1> DEFINE spec == [j \in Merged |-> Copy(j).spec]
           provider == ProviderOf(obj.spec)
<1>1. /\ key \in Ingresses /\ obj.spec \in Specs[key] /\ Selected(obj.spec)
  BY DEF TypeOK, LocalOK, PhaseOK, ConvertSteps, WellFormed, Selected, Leaving
<1>2. Merged \in SUBSET Ingresses /\ \A j \in Merged : Copy(j).spec \in Specs[j]
  BY MergedType
<1>3. order \in [1..Cardinality(Merged) -> Merged]
  BY DEF ListOrders
<1>4. CASE Merged = {key}
  <2>1. Cardinality({key}) = 1
    BY FS_Singleton
  <2>2. DOMAIN order = {1} /\ order[1] = key /\ spec[order[1]] = Copy(key).spec
    BY <1>3, <1>4, <2>1
  <2>3. FirstToName(order, spec, 1)
    BY DEF FirstToName
  <2>4. Report(order) = Misses(key, provider, Copy(key).spec, secrets)
    BY <2>2, <2>3 DEF Report, MissingSecrets, Misses, Nothing
  <2> QED
    BY <1>4, <2>4
<1>5. ASSUME NEW j \in Merged, j # key
      PROVE  \A l \in Merged : ~NamesSecret(Copy(l).spec)
  <2>1. ~TargetsExternal(obj.spec)
    BY <1>5 DEF Merged
  <2>2. \A l \in Merged : /\ Copy(l) = Cache(ingresses)[l] /\ Selected(Copy(l).spec)
                          /\ ~TargetsExternal(Copy(l).spec)
                          /\ Target(l, Copy(l).spec) = Target(key, obj.spec)
    BY <2>1 DEF Merged, Copy
  <2>3. ~NamesSecret(Copy(j).spec)
    BY <1>1, <1>2, <1>5, <2>1, <2>2 DEF OwnSecrets
  <2>4. ASSUME NEW l \in Merged, l # j PROVE ~NamesSecret(Copy(l).spec)
    BY <1>2, <1>5, <2>2, <2>4 DEF OwnSecrets
  <2> QED
    BY <2>3, <2>4
<1>6. ASSUME NEW j \in Merged, j # key
      PROVE  /\ Report(order) = Nothing
             /\ key \in Merged => Misses(key, provider, Copy(key).spec, secrets) = Nothing
  <2>1. \A l \in Merged : ~NamesSecret(spec[l])
    BY <1>5, <1>6
  <2>2. \A k \in DOMAIN order : order[k] \in Merged
    BY <1>3
  <2>3. Report(order) = Nothing
    <3> HIDE DEF spec
    <3>1. {k \in DOMAIN order : /\ provider = "ingress-nginx"
                               /\ NamesSecret(spec[order[k]])
                               /\ FirstToName(order, spec, k)
                               /\ SecretKey(order[k], spec[order[k]]) \notin secrets} = {}
      BY <2>1, <2>2
    <3> QED
      BY <3>1 DEF Report, MissingSecrets, Nothing, spec
  <2> QED
    BY <1>5, <1>6, <2>3 DEF Misses
<1> QED
  BY <1>4, <1>6

LEMMA ReportPays ==
  ASSUME TypeOK, OwnSecrets, pc = "convert", Merged # {}, NEW order \in ListOrders(Merged),
         NEW m, DOMAIN m = {"last", "events"}, m.events \in Nat, NEW G
  PROVE  LET k == IF Report(order) = Nothing THEN Forgot(m) ELSE Told(m, Report(order))
             c == Cache(ingresses)[key]
         IN /\ k.events \in Nat
            /\ k.events + Resting(key, "report", c, k.last, secrets, G) <=
                 m.events + Converting(key, "report", obj, c, m.last, secrets, G)
<1> DEFINE c == Cache(ingresses)[key]
           mix == Report(order)
           says == Says(key, "report", obj, secrets)
           Paid(k) == /\ k.events \in Nat
                      /\ k.events + Resting(key, "report", c, k.last, secrets, G) <=
                           m.events + Converting(key, "report", obj, c, m.last, secrets, G)
<1> SUFFICES Paid(IF mix = Nothing THEN Forgot(m) ELSE Told(m, mix))
  OBVIOUS
<1>1. key \in Ingresses /\ obj.ex /\ ~Leaving(obj) /\ ConfigValid(obj.spec)
  BY DEF TypeOK, LocalOK, PhaseOK, ConvertSteps
<1>2. Live(obj) /\ Selected(obj.spec) /\ "report" # "notFound" /\ "report" # "unmapped"
  BY <1>1 DEF Live, Leaving, Selected
<1>3. says = Misses(key, ProviderOf(obj.spec), obj.spec, secrets)
  BY <1>2 DEF Says
<1>4. IF key \in Merged THEN mix = Misses(key, ProviderOf(obj.spec), Copy(key).spec, secrets)
                        ELSE mix = Nothing
  BY ReportIs
<1>5. CASE mix = says
  <2>1. CASE mix = Nothing
    <3>1. Paid(Forgot(m))
      BY <1>5, <2>1, ForgotPays
    <3> QED
      BY <2>1, <3>1
  <2>2. CASE mix # Nothing
    <3>1. Paid(Told(m, says))
      BY <1>1, <1>2, <1>5, <2>2, ToldPays
    <3> QED
      BY <1>5, <2>2, <3>1
  <2> QED
    BY <2>1, <2>2
<1>6. CASE mix # says
  <2>1. ~SameChoice(obj, c) /\ ~TargetsExternal(obj.spec)
    <3>1. CASE TargetsExternal(obj.spec)
      BY <1>3, <1>4, <1>6, <3>1 DEF Merged, Copy
    <3>2. CASE ~TargetsExternal(obj.spec) /\ SameChoice(obj, c)
      <4>1. c.ex /\ c.spec = obj.spec
        BY <1>2, <3>2 DEF SameChoice, Live
      <4>2. key \in Merged /\ Copy(key) = c
        BY <1>1, <1>2, <3>2, <4>1 DEF Merged, Copy
      <4> QED
        BY <1>3, <1>4, <1>6, <4>1, <4>2
    <3> QED
      BY <3>1, <3>2
  <2> DEFINE v == Converting(key, "report", obj, c, m.last, secrets, G)
  <2>2. v \in {1, 2}
    BY <2>1 DEF Converting, Unit
  <2>3. \A l : Resting(key, "report", c, l, secrets, G) \in {0, 1}
    BY DEF Resting, Unit
  <2>4. CASE mix = Nothing
    <3>1. Forgot(m).events = m.events
      BY ForgotCount
    <3> HIDE DEF v
    <3>2. Paid(Forgot(m))
      BY <2>2, <2>3, <3>1 DEF v
    <3> QED
      BY <2>4, <3>2
  <2>5. CASE mix # Nothing
    <3>1. Told(m, mix).last = mix /\ Told(m, mix).events \in {m.events, m.events + 1}
      BY ToldCount DEF Unit
    <3>2. Resting(key, "report", c, mix, secrets, G) = 0
      <4>1. key \in Merged /\ Copy(key) = c /\ Selected(c.spec) /\ IsEnabled(c.spec)
        BY <1>4, <2>1, <2>5 DEF Merged, Copy, Selected
      <4>2. mix = {<<key, SecretKey(key, c.spec)>>}
        BY <1>4, <2>5, <4>1 DEF Misses
      <4>3. Says(key, "report", c, secrets) \in {Nothing, mix}
        BY <1>2, <4>1, <4>2 DEF Says, Misses
      <4>4. Live(c) => ~MustCleanUp(c)
        BY <4>1 DEF Live, MustCleanUp, Leaving
      <4>5. Says(key, "report", c, secrets) # Nothing => Live(c)
        BY DEF Says
      <4> QED
        BY <1>2, <4>3, <4>4, <4>5 DEF Resting, Owes, Unit
    <3> HIDE DEF v, mix
    <3>3. Paid(Told(m, mix))
      BY <2>2, <3>1, <3>2 DEF v
    <3> QED
      BY <2>5, <3>3
  <2> QED
    BY <2>4, <2>5
<1> QED
  BY <1>5, <1>6

-----------------------------------------------------------------------------
(* Every step is paid. *)

Settled(i, t) ==
  /\ notes'[i][t].events \in Nat
  /\ notes'[i][t].events + Debt(i, t)' + Pend(i)' + edits + faults <=
       notes[i][t].events + Debt(i, t) + Pend(i) + edits' + faults'

LEMMA FaultsGrow ==
  ASSUME TypeOK, [Next]_vars
  PROVE  faults \in Nat /\ faults' \in {faults, faults + 1}
<1>1. faults \in Nat
  BY Bounds DEF TypeOK
<1> QED
  BY <1>1
  DEF Next, Fetch, Work, AddFinalizer, Convert, ConvertIn, EnsureGateway, EnsureRoute, Finish,
      CleanRoutes, ListGateways, Detach, RemoveFinalizer, CallFails, Restart, Deliver,
      DeliverIngresses, DeliverGateways, DeliverRoutes, TimerFires, Resync, Users, CreateIngress,
      EditIngress, DeleteIngress, ToggleExternalGateway, Edited, Collect, CollectGateway,
      CollectRoute, local, vars

LEMMA SumsUp ==
  ASSUME NEW e \in Nat, NEW f \in Nat, NEW d \in Nat, NEW dd \in Nat, NEW p \in Nat, NEW pp \in Nat,
         NEW u \in Nat, NEW w \in Nat, NEW ww \in Nat, NEW x \in Nat, NEW xx \in Nat,
         f + dd <= e + d + u, u + pp + w <= p + ww, x <= xx
  PROVE  f + dd + pp + w + x <= e + d + p + ww + xx
OBVIOUS

LEMMA SumsStill ==
  ASSUME NEW e \in Nat, NEW f \in Nat, NEW d \in Nat, NEW dd \in Nat, NEW p \in Nat, NEW w \in Nat,
         NEW x \in Nat, NEW pp, NEW ww, NEW xx \in {x, x + 1}, f + dd <= e + d, pp = p, ww = w
  PROVE  f + dd + pp + w + x <= e + d + p + ww + xx
OBVIOUS

LEMMA SumsHold ==
  ASSUME NEW s \in Nat, NEW n \in Nat, NEW w \in Nat, NEW ww \in Nat, NEW x \in Nat, NEW xx \in Nat,
         s <= 1 + w + x, n + w + x <= s + ww + xx
  PROVE  n <= 1 + ww + xx
OBVIOUS

LEMMA SumsForget ==
  ASSUME NEW e \in Nat, NEW d \in {0, 1}, NEW w \in Nat, NEW x \in Nat, e <= 1 + w + x,
         NEW f, NEW p, NEW ww, NEW xx, f = e, p = 0, ww = w, xx = x + 1
  PROVE  f + d + p <= 1 + ww + xx
OBVIOUS

LEMMA OneMore ==
  ASSUME NEW e \in Nat, NEW d \in Nat, NEW dd \in Nat, NEW u \in Nat, dd <= d + u
  PROVE  e + dd <= e + d + u
OBVIOUS

(* Nothing is told. *)
LEMMA SettledMoving ==
  ASSUME TypeOK, TypeOK', ManagedOnly, Shown, IngressLag <= 1, [Next]_vars, UNCHANGED secrets,
         \A h \in GatewayKeys : ~ToggleExternalGateway(h),
         NEW i \in Ingresses, NEW t \in Topics, ~Fetch(i),
         \/ notes'[i][t].last = notes[i][t].last
         \/ key = i /\ pc \in CleanUpSteps /\ pc' = "idle",
         notes'[i][t].events = notes[i][t].events, notes[i][t].events \in Nat
  PROVE  Settled(i, t)
<1> DEFINE e == notes[i][t].events
           f == notes'[i][t].events
           D == Debt(i, t)
           P == Pend(i)
           E == Debt(i, t)'
           Q == Pend(i)'
           u == Unit(~SameChoice(Cache(ingresses)[i], Cache(ingresses')[i]))
<1>1. f = e /\ e \in Nat
  OBVIOUS
<1>2. E <= D + u
  BY DebtMoves
<1>3. u + Q + edits <= P + edits'
  BY IngressPays DEF Pend
<1>4. D \in Nat /\ E \in Nat
  BY DEF Debt, Converting, Cleaning, Resting, Unit
<1>5. P \in Nat /\ Q \in Nat /\ u \in Nat
  BY DEF Pend, Unit
<1>6. faults \in Nat /\ faults' \in Nat /\ faults <= faults'
  <2>1. faults \in Nat /\ faults' \in {faults, faults + 1}
    BY FaultsGrow
  <2> QED
    BY <2>1
<1>7. edits \in Nat /\ edits' \in Nat
  <2>1. edits \in Nat /\ edits' \in {edits, edits + 1}
    BY EditsCount
  <2> QED
    BY <2>1
<1> HIDE DEF e, f, D, P, E, Q, u
<1>8. f + E <= e + D + u
  BY <1>1, <1>2, <1>4, <1>5
<1>9. f + E + Q + edits + faults <= e + D + P + edits' + faults'
  BY <1>1, <1>3, <1>4, <1>5, <1>6, <1>7, <1>8, SumsUp
<1> QED
  BY <1>1, <1>9 DEF Settled, e, f, D, P, E, Q

(* An administrator is at work. *)
LEMMA SettledWorld ==
  ASSUME TypeOK, UNCHANGED <<ingresses, local, notes, faults>>, edits' = edits + 1,
         NEW i \in Ingresses, NEW t \in Topics, notes[i][t].events \in Nat
  PROVE  Settled(i, t)
<1> DEFINE e == notes[i][t].events
           D == Debt(i, t)
           P == Pend(i)
<1>1. D' <= D + 1
  BY WorldMoves DEF local
<1>2. P' = P /\ P \in Nat
  BY DEF Pend, Unit
<1>3. D \in Nat /\ D' \in Nat
  BY DEF Debt, Converting, Cleaning, Resting, Unit
<1>4. edits \in Nat /\ faults \in Nat /\ faults' = faults /\ e \in Nat
  BY Bounds DEF TypeOK
<1> HIDE DEF e, D, P
<1>6. /\ e + D' <= e + D + 1 /\ 1 + P' + edits <= P + edits' /\ faults <= faults'
      /\ edits' \in Nat /\ faults' \in Nat /\ P' \in Nat /\ 1 \in Nat
  <2>1. e + D' <= e + D + 1
    BY <1>1, <1>3, <1>4, OneMore
  <2>2. edits' \in Nat
    BY <1>4
  <2>3. faults <= faults' /\ faults' \in Nat
    BY <1>4
  <2>4. P' \in Nat
    BY <1>2
  <2>5. 1 + P' + edits <= P + edits'
    BY <1>2, <1>4
  <2> QED
    BY <2>1, <2>2, <2>3, <2>4, <2>5
<1>5. e + D' + P' + edits + faults <= e + D + P + edits' + faults'
  BY <1>2, <1>3, <1>4, <1>6, SumsUp
<1> QED
  BY <1>4, <1>5 DEF Settled, e, D, P

(* A conversion ends, or fails after its look at the Gateway. *)
LEMMA SettledConverting ==
  ASSUME TypeOK, NEW i \in Ingresses, NEW t \in Topics, key = i, pc = "convert",
         UNCHANGED <<ingresses, gateways, secrets, edits>>, faults' \in {faults, faults + 1},
         pc' \in {"idle", "ensureGateway", "ensureRoutes"}, notes[i][t].events \in Nat,
         notes'[i][t].events \in Nat,
         notes'[i][t].events + Resting(i, t, Cache(ingresses)[i], notes'[i][t].last, secrets, API(gateways)) <=
           notes[i][t].events + Converting(i, t, obj, Cache(ingresses)[i], notes[i][t].last, secrets, API(gateways))
  PROVE  Settled(i, t)
<1> DEFINE e == notes[i][t].events
           f == notes'[i][t].events
           D == Debt(i, t)
           P == Pend(i)
<1>1. D = Converting(i, t, obj, Cache(ingresses)[i], notes[i][t].last, secrets, API(gateways))
  BY DEF Debt
<1>2. D' = Resting(i, t, Cache(ingresses)[i], notes'[i][t].last, secrets, API(gateways))
  BY DEF Debt, CleanUpSteps
<1>3. f + D' <= e + D /\ e \in Nat /\ f \in Nat
  BY <1>1, <1>2
<1>4. D \in Nat /\ D' \in Nat
  BY DEF Debt, Converting, Cleaning, Resting, Unit
<1>5. P' = P /\ P \in Nat
  BY DEF Pend, Unit
<1>6. edits \in Nat /\ faults \in Nat /\ faults' \in {faults, faults + 1} /\ edits' = edits
  BY Bounds DEF TypeOK
<1> HIDE DEF e, f, D, P
<1>7. f + D' + P' + edits + faults <= e + D + P + edits' + faults'
  BY <1>3, <1>4, <1>5, <1>6, SumsStill
<1> QED
  BY <1>3, <1>7 DEF Settled, e, f, D, P

LEMMA SettledStep ==
  ASSUME TypeOK, TypeOK', NotesOK, ManagedOnly, Shown, OwnSecrets, GatewayLag = 0, IngressLag <= 1,
         [NotedNext]_allVars, ~NotedRestart,
         NEW i \in Ingresses, NEW t \in Topics, notes[i][t].events \in Nat
  PROVE  Settled(i, t)
<1>1. /\ DOMAIN notes = Ingresses /\ EntryOK(notes[i]) /\ DOMAIN notes[i][t] = {"last", "events"}
      /\ edits \in Nat
  BY Bounds DEF NotesOK, EntryOK, TypeOK
<1>2. ASSUME NEW j, NEW n, Note(j, n)
      PROVE  (j = i => notes'[i] = n) /\ (j # i => notes'[i] = notes[i])
  BY <1>1, <1>2 DEF Note
<1>3. edits' = edits => \A h \in GatewayKeys : ~ToggleExternalGateway(h)
  BY <1>1 DEF ToggleExternalGateway, Edited
<1>4. /\ ForgotAll(notes[i])[t].last = Nothing
      /\ ForgotAll(notes[i])[t].events = notes[i][t].events
  BY <1>1, ForgotCount DEF ForgotAll
<1>5. ASSUME [Next]_vars, UNCHANGED secrets, ~Fetch(i), notes'[i] = notes[i],
             \A h \in GatewayKeys : ~ToggleExternalGateway(h)
      PROVE  Settled(i, t)
  BY <1>5, SettledMoving
<1>6. ASSUME [Next]_vars, UNCHANGED secrets, ~Fetch(i), notes'[i] = ForgotAll(notes[i]),
             key = i, pc = "detach", pc' = "idle",
             \A h \in GatewayKeys : ~ToggleExternalGateway(h)
      PROVE  Settled(i, t)
  <2>1. notes'[i][t].events = notes[i][t].events /\ pc \in CleanUpSteps
    BY <1>4, <1>6 DEF CleanUpSteps
  <2> QED
    BY <1>6, <2>1, SettledMoving
<1>7. ASSUME NEW j \in Ingresses, NotedFetch(j) PROVE Settled(i, t)
  <2>1. /\ Fetch(j) /\ Note(j, FetchNotes(notes[j], Cache(ingresses)[j])) /\ UNCHANGED secrets
        /\ UNCHANGED <<ingresses, edits, faults>> /\ [Next]_vars
    BY <1>7 DEF NotedFetch, Fetch, kinds, Next
  <2>2. CASE j # i
    <3>1. notes'[i] = notes[i]
      BY <1>2, <2>1, <2>2
    <3>2. ~Fetch(i)
      BY <2>1, <2>2, FetchAlone
    <3> QED
      BY <1>3, <1>5, <2>1, <3>1, <3>2
  <2>3. CASE j = i
    <3>1. notes'[i] = FetchNotes(notes[i], Cache(ingresses)[i])
      BY <1>2, <2>1, <2>3
    <3>2. /\ notes'[i][t].events \in Nat
          /\ notes'[i][t].events + Debt(i, t)' <= notes[i][t].events + Debt(i, t)
      BY <2>1, <2>3, <3>1, FetchDebt
    <3> DEFINE e == notes[i][t].events
               f == notes'[i][t].events
               D == Debt(i, t)
               P == Pend(i)
    <3>3. f \in Nat /\ e \in Nat /\ f + D' <= e + D
      BY <3>2
    <3>4. D \in Nat /\ D' \in Nat
      BY DEF Debt, Converting, Cleaning, Resting, Unit
    <3>5. P' = P /\ P \in Nat
      BY <2>1 DEF Pend, Unit
    <3>6. edits \in Nat /\ faults \in Nat /\ faults' = faults /\ edits' = edits
      BY <2>1, Bounds DEF TypeOK
    <3> HIDE DEF e, f, D, P
    <3>8. faults' \in {faults, faults + 1}
      BY <3>6
    <3>7. f + D' + P' + edits + faults <= e + D + P + edits' + faults'
      BY <3>3, <3>4, <3>5, <3>6, <3>8, SumsStill
    <3> QED
      BY <3>3, <3>7 DEF Settled, e, f, D, P
  <2> QED
    BY <2>2, <2>3
<1>8. ASSUME NotedConvert PROVE Settled(i, t)
  <2>1. PICK order \in ListOrders(Merged), unseen \in BOOLEAN :
          /\ ConvertIn(order, unseen)
          /\ Note(key, ConvertNotes(notes[key], order, unseen, pc' = "idle"))
    BY <1>8 DEF NotedConvert
  <2>2. pc = "convert" /\ UNCHANGED secrets /\ [Next]_vars
    BY <1>8, <2>1 DEF NotedConvert, Next, Work, Convert
  <2>3. UNCHANGED <<ingresses, gateways, edits>> /\ faults' \in {faults, faults + 1}
    BY <2>1 DEF ConvertIn, kinds
  <2>4. ~Fetch(i)
    BY <2>2 DEF Fetch
  <2>5. CASE key # i
    BY <1>2, <1>3, <1>5, <2>1, <2>2, <2>3, <2>4, <2>5
  <2>6. CASE key = i
    <3>0. PICK failed \in BOOLEAN : failed = (pc' = "idle")
      OBVIOUS
    <3> DEFINE n == ConvertNotes(notes[i], order, unseen, failed)
               c == Cache(ingresses)[i]
               G == API(gateways)
               Paid(m) == /\ m.events \in Nat
                          /\ m.events + Resting(i, t, c, m.last, secrets, G) <=
                               notes[i][t].events + Converting(i, t, obj, c, notes[i][t].last, secrets, G)
    <3>1. notes'[i] = n
      BY <1>2, <2>1, <2>6, <3>0
    <3>2. pc' = "idle" \/ (Merged # {} /\ pc' \in {"ensureGateway", "ensureRoutes"})
      BY <2>1 DEF ConvertIn, Fail, Return
    <3>3. Paid(TargetNotes(notes[i], unseen)[t])
      BY <1>1, <2>2, <2>6, TargetPays
    <3>4. /\ \A u \in Topics \ {"report"} : n[u] = TargetNotes(notes[i], unseen)[u]
          /\ n["report"] = IF failed THEN notes[i]["report"]
                           ELSE IF Report(order) = Nothing THEN Forgot(notes[i]["report"])
                           ELSE Told(notes[i]["report"], Report(order))
      BY <1>1, ConvertNotesAre
    <3>5. TargetNotes(notes[i], unseen)["report"] = notes[i]["report"]
      BY <1>1, TargetNotesAre
    <3>6. t = "report" /\ ~failed =>
            Paid(IF Report(order) = Nothing THEN Forgot(notes[i][t]) ELSE Told(notes[i][t], Report(order)))
      BY <1>1, <2>1, <2>2, <2>6, <3>0, <3>2, ReportPays
    <3> HIDE DEF n, Paid, c, G
    <3>7. Paid(n[t])
      BY <3>3, <3>4, <3>5, <3>6
    <3> QED
      BY <2>2, <2>3, <2>6, <3>1, <3>2, <3>7, SettledConverting DEF Paid, c, G
  <2> QED
    BY <2>5, <2>6
<1>9. ASSUME NotedRemoveFinalizer PROVE Settled(i, t)
  <2>1. /\ RemoveFinalizer /\ Note(key, ForgotAll(notes[key])) /\ UNCHANGED <<secrets, edits>>
        /\ pc = "detach" /\ pc' = "idle" /\ [Next]_vars
    BY <1>9 DEF NotedRemoveFinalizer, RemoveFinalizer, Fail, Return, Next, Work
  <2>2. ~Fetch(i)
    BY <2>1 DEF Fetch
  <2> QED
    BY <1>2, <1>3, <1>5, <1>6, <2>1, <2>2
<1>10. ASSUME NotedCallFails PROVE Settled(i, t)
  <2>1. /\ CallFails /\ UNCHANGED <<secrets, edits, kinds>> /\ pc # "idle" /\ pc' = "idle" /\ [Next]_vars
        /\ faults' = faults + 1
        /\ \/ UNCHANGED notes
           \/ pc = "convert" /\ Note(key, TargetNotes(notes[key], FALSE))
           \/ pc = "detach" /\ Note(key, ForgotAll(notes[key]))
    BY <1>10 DEF NotedCallFails, CallFails, Fail, Return, Next
  <2>2. ~Fetch(i)
    BY <2>1 DEF Fetch
  <2>3. CASE notes'[i] = notes[i]
    BY <1>3, <1>5, <2>1, <2>2, <2>3
  <2>4. ASSUME key = i, pc = "convert", notes'[i] = TargetNotes(notes[i], FALSE) PROVE Settled(i, t)
    <3> DEFINE m == TargetNotes(notes[i], FALSE)
    <3>1. /\ m[t].events \in Nat
          /\ m[t].events + Resting(i, t, Cache(ingresses)[i], m[t].last, secrets, API(gateways)) <=
               notes[i][t].events + Converting(i, t, obj, Cache(ingresses)[i], notes[i][t].last, secrets, API(gateways))
      BY <1>1, <2>4, TargetPays
    <3> HIDE DEF m
    <3>2. notes'[i] = m
      BY <2>4 DEF m
    <3> QED
      BY <2>1, <2>4, <3>1, <3>2, SettledConverting DEF kinds
  <2>5. ASSUME key = i, pc = "detach", notes'[i] = ForgotAll(notes[i]) PROVE Settled(i, t)
    BY <1>3, <1>6, <2>1, <2>2, <2>5
  <2> QED
    BY <1>2, <2>1, <2>3, <2>4, <2>5
<1>11. ASSUME NEW k \in SecretKeys, ToggleSecret(k) PROVE Settled(i, t)
  BY <1>11, SettledWorld DEF ToggleSecret, Edited, kinds
<1>12. ASSUME Silent PROVE Settled(i, t)
  <2>1. CASE \E h \in GatewayKeys : ToggleExternalGateway(h)
    BY <1>12, <2>1, SettledWorld DEF Silent, ToggleExternalGateway, Edited
  <2>2. ASSUME \A h \in GatewayKeys : ~ToggleExternalGateway(h) PROVE Settled(i, t)
    <3>1. [Next]_vars /\ UNCHANGED <<secrets, notes>>
      BY <1>12 DEF Silent, SilentWork, Next, Work
    <3>2. ~Fetch(i)
      BY <1>12, FetchAlone DEF Silent, SilentWork, Work
    <3> QED
      BY <1>5, <2>2, <3>1, <3>2
  <2> QED
    BY <2>1, <2>2
<1>13. CASE UNCHANGED allVars
  <2>1. [Next]_vars /\ UNCHANGED <<secrets, notes>> /\ edits' = edits
    BY <1>13 DEF allVars, vars
  <2>2. ~Fetch(i)
    <3>1. Fetch(i) => queue' # queue
      BY DEF Fetch
    <3> QED
      BY <1>13, <3>1 DEF allVars, vars
  <2> QED
    BY <1>3, <1>5, <2>1, <2>2
<1> QED
  BY <1>7, <1>8, <1>9, <1>10, <1>11, <1>12, <1>13 DEF NotedNext

(* All that the bound rests on. *)
PaidInv == TypeOK /\ NotesOK /\ ManagedOnly /\ Shown /\ Solvent

LEMMA PaidInit == NotedInit => PaidInv
<1> SUFFICES ASSUME NotedInit PROVE PaidInv
  OBVIOUS
<1>1. TypeOK /\ ManagedOnly
  BY InitType, ManagedInit DEF NotedInit
<1>2. NotesOK /\ \A i \in Ingresses : \A t \in Topics : notes[i][t].events = 0
  BY DEF NotedInit, NotesOK, EntryOK, NoNotes
<1>3. Cache(ingresses) = API(ingresses)
  BY DEF NotedInit, Init, Cache, API
<1>4. Shown
  BY <1>3 DEF Shown, FinShown
<1>5. edits = 0 /\ faults = 0 /\ pc = "idle"
  BY DEF NotedInit, Init
<1>6. ASSUME NEW i \in Ingresses, NEW t \in Topics
      PROVE  /\ notes[i][t].events \in Nat
             /\ notes[i][t].events + Debt(i, t) + Pend(i) <= 1 + edits + faults
  <2>1. Debt(i, t) \in {0, 1}
    BY <1>5, DebtRange
  <2>2. Pend(i) = 0
    BY <1>3, Choices DEF Pend, Unit
  <2> QED
    BY <1>2, <1>5, <2>1, <2>2
<1> QED
  BY <1>1, <1>2, <1>4, <1>6 DEF PaidInv, Solvent

LEMMA PaidNext ==
  ASSUME GatewayLag = 0, IngressLag <= 1, NoClash, OwnSecrets, PaidInv, [NotedNext]_allVars
  PROVE  PaidInv'
<1>1. TypeOK /\ NotesOK /\ ManagedOnly /\ Shown /\ Solvent
  BY DEF PaidInv
<1>2. TypeOK' /\ NotesOK'
  BY <1>1, NotedType, NotesNext
<1>3. ManagedOnly' /\ Shown'
  <2>1. CASE [Next]_vars
    BY <1>1, <2>1, ManagedNext, FinIsShown DEF Shown
  <2>2. ASSUME NEW k \in SecretKeys, ToggleSecret(k) PROVE ManagedOnly' /\ Shown'
    BY <1>1, <2>2 DEF ToggleSecret, Edited, kinds, local, ManagedOnly, Shown
  <2> QED
    BY <2>1, <2>2, NotedIsStep
<1>4. ASSUME NEW i \in Ingresses, NEW t \in Topics
      PROVE  /\ notes'[i][t].events \in Nat
             /\ notes'[i][t].events + Debt(i, t)' + Pend(i)' <= 1 + edits' + faults'
  <2> DEFINE e == notes[i][t].events
             f == notes'[i][t].events
             D == Debt(i, t)
             P == Pend(i)
             E == Debt(i, t)'
             Q == Pend(i)'
  <2>1. e \in Nat /\ e + D + P <= 1 + edits + faults
    BY <1>1 DEF Solvent
  <2>2. D \in Nat /\ P \in Nat /\ E \in Nat /\ Q \in Nat
    BY DEF Debt, Pend, Converting, Cleaning, Resting, Unit
  <2>3. edits \in Nat /\ faults \in Nat
    BY <1>1, Bounds DEF TypeOK
  <2>4. CASE NotedRestart
    <3>1. /\ notes' = [j \in Ingresses |-> ForgotAll(notes[j])] /\ pc' = "idle"
          /\ ingresses' = <<API(ingresses)>> /\ edits' = edits /\ faults' = faults + 1
      BY <2>4 DEF NotedRestart, Restart, Return
    <3>2. EntryOK(notes[i]) /\ DOMAIN notes[i][t] = {"last", "events"}
      BY <1>1 DEF NotesOK, EntryOK
    <3>3. f = e
      BY <3>1, <3>2, ForgotCount DEF ForgotAll
    <3>4. E \in {0, 1}
      BY <3>1 DEF Debt, Resting, Unit, CleanUpSteps
    <3>5. Q = 0
      BY <3>1, Choices DEF Pend, Unit, Cache, API
    <3> HIDE DEF e, f, D, P, E, Q
    <3>6. e <= 1 + edits + faults
      BY <2>1, <2>2, <2>3
    <3>7. f \in Nat /\ f + E + Q <= 1 + edits' + faults'
      BY <2>1, <2>3, <3>1, <3>3, <3>4, <3>5, <3>6, SumsForget
    <3> QED
      BY <3>7 DEF e, f, D, P, E, Q
  <2>5. CASE ~NotedRestart
    <3>1. Settled(i, t)
      BY <1>1, <1>2, <2>1, <2>5, SettledStep
    <3>2. f \in Nat /\ f + E + Q + edits + faults <= e + D + P + edits' + faults'
      BY <3>1 DEF Settled
    <3>3. edits' \in Nat /\ faults' \in Nat
      BY <1>2, Bounds DEF TypeOK
    <3> DEFINE s == e + D + P
               n == f + E + Q
    <3>4. /\ s \in Nat /\ n \in Nat
          /\ s <= 1 + edits + faults /\ n + edits + faults <= s + edits' + faults'
      <4> HIDE DEF e, f, D, P, E, Q
      <4> QED
        BY <2>1, <2>2, <3>2
    <3> HIDE DEF s, n
    <3>5. n <= 1 + edits' + faults'
      BY <2>3, <3>3, <3>4, SumsHold
    <3> QED
      BY <3>2, <3>5 DEF n
  <2> QED
    BY <2>4, <2>5
<1> QED
  BY <1>2, <1>3, <1>4 DEF PaidInv, Solvent

(* Of one topic an Ingress is told at most once, and once more for every     *)
(* change and every failure, whatever the requests in progress have read and *)
(* whatever call of theirs fails ("periodic resync should deduplicate and    *)
(* not re-emit duplicate events", reconciler_test.go 389), if the cache of   *)
(* Gateways is not behind, the one of Ingresses by one write at most, and    *)
(* Ingresses converted together name no Secrets.                             *)
THEOREM EventsArePaid ==
  ASSUME GatewayLag = 0, IngressLag <= 1, NoClash, OwnSecrets
  PROVE  NotedSpec => []EventsBounded
<1>1. PaidInv /\ [NotedNext]_allVars => PaidInv'
  BY PaidNext
<1>2. ASSUME PaidInv PROVE EventsBounded
  <2> SUFFICES ASSUME NEW i \in Ingresses, NEW t \in Topics
               PROVE  notes[i][t].events <= 1 + edits + faults
    BY DEF EventsBounded
  <2>1. /\ notes[i][t].events \in Nat
        /\ notes[i][t].events + Debt(i, t) + Pend(i) <= 1 + edits + faults
    BY <1>2 DEF PaidInv, Solvent
  <2>2. Debt(i, t) \in Nat /\ Pend(i) \in Nat
    BY DEF Debt, Pend, Converting, Cleaning, Resting, Unit
  <2>3. edits \in Nat /\ faults \in Nat
    BY <1>2, Bounds DEF PaidInv, TypeOK
  <2> QED
    BY <2>1, <2>2, <2>3
<1> QED
  BY <1>1, <1>2, PaidInit, PTL DEF NotedSpec
=============================================================================

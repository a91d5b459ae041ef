---------------------------- MODULE Notifications ----------------------------
(***************************************************************************)
(* The events the reconcile loop emits, and the four maps by which it      *)
(* avoids to repeat them (lastReport, lastExternalGatewayMsg,              *)
(* lastExternalGatewayNotFoundMsg and lastUnmappedWarningMsg of            *)
(* pkg/controller/reconciler.go): one module along the actions of          *)
(* Reconciler.                                                             *)
(*                                                                         *)
(* A message stands for the part of its text that varies: the Gateway, the *)
(* class, the set of warnings in the report.  What the library reports     *)
(* about other annotations goes the way of the Secrets and is left out.    *)
(***************************************************************************)
EXTENDS ReconcilerProperties, NginxIngress

VARIABLES
  notes,    \* per Ingress and topic: the message remembered, events emitted so far
  secrets   \* the Secrets that are there

allVars == <<vars, notes, secrets>>

Topics == {"report", "external", "notFound", "unmapped"}

(* Nothing in the map; a report without warnings is not kept either.         *)
Nothing == {}

NoNotes == [t \in Topics |-> [last |-> Nothing, events |-> 0]]

-----------------------------------------------------------------------------
(* "if lastMsg != msg { Store; Event }", and Delete. *)
ToldMutant(n, msg) == [last |-> msg, events |-> n.events + 1]
Told(n, msg) == IF n.last = msg THEN n ELSE [last |-> msg, events |-> n.events + 1]

Forgot(n) == [n EXCEPT !.last = Nothing]

ForgotAll(n) == [t \in Topics |-> Forgot(n[t])]

Note(i, n) == notes' = [notes EXCEPT ![i] = n]

(* Enabled by annotation, but its class is in neither mapping: not selected. *)
Unmapped(s) == Mode = "ingressclass" /\ s.enabled = "true"

(* Reconcile up to the first write. *)
FetchNotesMutant(n, o) ==
  IF ~o.ex THEN ForgotAll(n)
  ELSE IF o.del \/ MustCleanUp(o) THEN n
  ELSE IF IsEnabled(o.spec) THEN n
  ELSE IF Unmapped(o.spec)
    THEN [ForgotAll(n) EXCEPT !["unmapped"] = Told(n["unmapped"], {GetIngressClass(o.spec)})]
  ELSE ForgotAll(n)
FetchNotes(n, o) ==
  IF ~o.ex THEN ForgotAll(n)
  ELSE IF o.del \/ MustCleanUp(o) THEN n
  ELSE IF IsEnabled(o.spec) THEN [n EXCEPT !["unmapped"] = Forgot(@)]
  ELSE IF Unmapped(o.spec)
    THEN [ForgotAll(n) EXCEPT !["unmapped"] = Told(n["unmapped"], {GetIngressClass(o.spec)})]
  ELSE ForgotAll(n)

(* On the way to the conversion: is the Gateway external, and is it there?   *)
TargetNotes(n, unseen) ==
  LET g == Target(key, obj.spec)
      m == [n EXCEPT !["external"] = Told(@, {g})]
  IN IF ~TargetsExternal(obj.spec) THEN [n EXCEPT !["external"] = Forgot(@)]
     ELSE IF unseen THEN m
     ELSE IF Cache(gateways)[g].ex THEN [m EXCEPT !["notFound"] = Forgot(@)]
     ELSE [m EXCEPT !["notFound"] = Told(@, {g})]

Report(order) ==
  MissingSecrets(order, [j \in Merged |-> Copy(j).spec], ProviderOf(obj.spec), secrets)

(* A failed conversion has no report. *)
ConvertNotes(n, order, unseen, failed) ==
  LET m == TargetNotes(n, unseen)
  IN IF failed THEN m
     ELSE IF Report(order) = Nothing THEN [m EXCEPT !["report"] = Forgot(@)]
     ELSE [m EXCEPT !["report"] = Told(@, Report(order))]

-----------------------------------------------------------------------------
NotedFetch(i) ==
  /\ Fetch(i) /\ Note(i, FetchNotes(notes[i], Cache(ingresses)[i]))
  /\ UNCHANGED secrets

NotedConvert ==
  /\ pc = "convert"
  /\ \E order \in ListOrders(Merged), unseen \in BOOLEAN :
       /\ ConvertIn(order, unseen)
       /\ Note(key, ConvertNotes(notes[key], order, unseen, pc' = "idle"))
  /\ UNCHANGED secrets

(* Before the Update, whether or not it is accepted. *)
NotedRemoveFinalizer ==
  /\ RemoveFinalizer /\ Note(key, ForgotAll(notes[key]))
  /\ UNCHANGED secrets

(* What fails may come after the maps have been touched: the List of the     *)
(* merge or the conversion, the Update of the finalizer.                     *)
NotedCallFails ==
  /\ CallFails
  /\ \/ UNCHANGED notes
     \/ pc = "convert" /\ Note(key, TargetNotes(notes[key], FALSE))
     \/ pc = "detach" /\ DOMAIN detach = {} /\ Note(key, ForgotAll(notes[key]))
  /\ UNCHANGED secrets

(* The maps are memory of the process; the events are not. *)
NotedRestart ==
  /\ Restart /\ notes' = [i \in Ingresses |-> ForgotAll(notes[i])]
  /\ UNCHANGED secrets

ToggleSecret(k) ==
  /\ secrets' = IF k \in secrets THEN secrets \ {k} ELSE secrets \cup {k}
  /\ Edited /\ UNCHANGED <<kinds, queue, notes>>

SilentWork ==
  \/ AddFinalizer \/ EnsureGateway
  \/ \E id \in DOMAIN todo : EnsureRoute(id)
  \/ Finish \/ CleanRoutes \/ ListGateways
  \/ \E g \in DOMAIN detach : Detach(g)

Silent ==
  /\ \/ SilentWork
     \/ Deliver \/ \E d \in delayed : TimerFires(d)
     \/ Resync \/ Users \/ Collect
  /\ UNCHANGED <<notes, secrets>>

NotedInit == Init /\ notes = [i \in Ingresses |-> NoNotes] /\ secrets \in SUBSET SecretKeys

NotedNext ==
  \/ \E i \in Ingresses : NotedFetch(i)
  \/ NotedConvert \/ NotedRemoveFinalizer \/ NotedCallFails \/ NotedRestart
  \/ \E k \in SecretKeys : ToggleSecret(k)
  \/ Silent

NotedSpec == NotedInit /\ [][NotedNext]_allVars

-----------------------------------------------------------------------------
(* A message is repeated only if the world has changed or the process has    *)
(* lost its memory: of one topic an Ingress is told at most once, and once   *)
(* more for every change and every failure ("periodic resync should          *)
(* deduplicate and not re-emit duplicate events", reconciler_test.go 389).   *)
EventsBounded ==
  \A i \in Ingresses, t \in Topics : notes[i][t].events <= 1 + edits + faults

(* At rest the maps hold what is the case: nothing of an Ingress that is     *)
(* gone or not converted, the warning about the class exactly for those it   *)
(* is true of, the external Gateway exactly of those that target one         *)
(* (reconciler.go 84-88, 113-143, 210, 371-374).                             *)
MemoryFits ==
  Quiet => \A i \in Ingresses :
    LET o == API(ingresses)[i]
        n == notes[i]
    IN /\ ~Serving(i) =>
            /\ \A t \in Topics \ {"unmapped"} : n[t].last = Nothing
            /\ n["unmapped"].last =
                 IF o.ex /\ Unmapped(o.spec) THEN {GetIngressClass(o.spec)} ELSE Nothing
       /\ Serving(i) => n["unmapped"].last = Nothing
       /\ Serving(i) /\ Convertible(o.spec) =>
            n["external"].last = IF TargetsExternal(o.spec) THEN {Target(i, o.spec)} ELSE Nothing

(* At rest the warning that an external Gateway is missing is remembered     *)
(* only of Ingresses that target it: whoever comes to target it again is     *)
(* warned again ("if not found, it emits a Warning event", README.md 94).    *)
NoStaleWarning ==
  Quiet => \A i \in Ingresses :
    LET o == API(ingresses)[i] IN
    Serving(i) /\ ConfigValid(o.spec) =>
      notes[i]["notFound"].last \subseteq {g \in {Target(i, o.spec)} : TargetsExternal(o.spec)}
=============================================================================

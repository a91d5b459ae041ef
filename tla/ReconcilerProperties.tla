------------------------- MODULE ReconcilerProperties -------------------------
(***************************************************************************)
(* What the reconcile loop of Reconciler must never do, and what it must   *)
(* have achieved when it comes to rest.                                    *)
(***************************************************************************)
EXTENDS Reconciler

Uids     == Ingresses \X Nat
Settings == UNION {Specs[i] : i \in Ingresses}
Hosts    == {r[2] : r \in UNION {s.rules : s \in Settings}}
              \cup UNION {Preexisting[g].hosts : g \in DOMAIN Preexisting}
Classes  == {"", "external"} \cup {GatewayClassFor[c] : c \in DOMAIN GatewayClassFor}
              \cup {Preexisting[g].class : g \in DOMAIN Preexisting}

IngressRec == [ex : BOOLEAN, gen : Nat, spec : Settings, fin : BOOLEAN, del : BOOLEAN]
GatewayRec == [ex : BOOLEAN, class : Classes, owners : SUBSET Uids, hosts : SUBSET Hosts]
BodyRec    == [source : Ingresses \cup {None}, provider : SupportedProviders,
               parent : GatewayKeys \cup {None}, members : SUBSET Ingresses]
RouteRec   == [ex : BOOLEAN, body : BodyRec \cup {None}, owners : SUBSET Uids]

(* Only an Ingress that is there has a finalizer, and only an Ingress that   *)
(* has one is still there when it is deleted.                                *)
WellFormed(i, o) == o.spec \in Specs[i] /\ (o.fin => o.ex) /\ (o.del => o.fin)

IngressState == {f \in [Ingresses -> IngressRec] : \A i \in Ingresses : WellFormed(i, f[i])}
GatewayState == [GatewayKeys -> GatewayRec]
RouteState   == [RouteIds -> RouteRec]

CleanUpSteps == {"cleanRoutes", "listGateways", "detach"}
ConvertSteps == {"addFinalizer", "convert", "ensureGateway", "ensureRoutes"}

IsWindow(w, State, lag) == w \in Seq(State) /\ Len(w) \in 1..(lag + 1)

(* The variables of one request. *)
LocalOK ==
  /\ pc \in {"idle"} \cup ConvertSteps \cup CleanUpSteps
  /\ pc = "idle" => key = None /\ obj = None
  /\ pc # "idle" => /\ key \in Ingresses
                    /\ obj \in IngressRec /\ WellFormed(key, obj) /\ obj.ex
  /\ IF pc = "ensureGateway"
       THEN want \in [key : GatewayKeys, class : Classes, hosts : SUBSET Hosts]
       ELSE want = None
  /\ DOMAIN todo \subseteq RouteIds
  /\ \A id \in DOMAIN todo : todo[id] \in [body : BodyRec, owner : Uids]
  /\ DOMAIN detach \subseteq GatewayKeys
  /\ \A g \in DOMAIN detach : detach[g] \in GatewayRec
  /\ requeueAfter \in BOOLEAN

(* The copy of the Ingress fits the place: clean-up runs on one that has the *)
(* finalizer and is leaving, conversion on one that stays.                   *)
PhaseOK ==
  /\ pc \in CleanUpSteps => Leaving(obj) /\ obj.fin
  /\ pc \in ConvertSteps => ~Leaving(obj) /\ ConfigValid(obj.spec)
  /\ pc = "addFinalizer" => ~obj.fin
  /\ pc \in ConvertSteps \ {"addFinalizer"} => obj.fin

(* Types, and the early returns of Reconcile and handleDeletion: what runs   *)
(* past them works on an Ingress they were meant to let through.             *)
TypeOK ==
  /\ IsWindow(ingresses, IngressState, IngressLag)
  /\ IsWindow(gateways, GatewayState, GatewayLag)
  /\ IsWindow(routes, RouteState, RouteLag)
  /\ queue \in SUBSET Ingresses
  /\ delayed \in SUBSET (Ingresses \X {"error", "requeueAfter"})
  /\ edits \in 0..MaxEdits /\ faults \in 0..MaxFaults
  /\ LocalOK /\ PhaseOK

-----------------------------------------------------------------------------
(* Steps. *)

(* The finalizer is put only on an Ingress that users have at that moment    *)
(* selected, validly configured and not deleted, and taken only off one that *)
(* is deleted or not selected at that moment: the copy Reconcile decided on  *)
(* is never outdated when it is written back (reconciler.go 160-166, 375).   *)
FinalizerFollowsSelection ==
  [][ \A i \in Ingresses :
        LET o == API(ingresses)[i]  n == API(ingresses')[i] IN
        /\ n.fin /\ ~o.fin => o.ex /\ ~Leaving(o) /\ ConfigValid(o.spec)
        /\ o.fin /\ ~n.fin => Leaving(o) ]_vars

(* Only users change what an Ingress asks for or delete it: the whole-object *)
(* Updates of the finalizer never write an old copy over a user's change.    *)
NoLostUserUpdate ==
  [][ edits' = edits =>
        \A i \in Ingresses :
          LET o == API(ingresses)[i]  n == API(ingresses')[i] IN
          /\ n.spec = o.spec /\ n.gen = o.gen
          /\ n.ex => n.del = o.del ]_vars

(* A Gateway is deleted only when nobody else owns it (the comments at       *)
(* reconciler.go 395 and 414: "we might break other Ingresses", "only delete *)
(* the Gateway if no other owners (Ingresses) are left").                    *)
LastOwnerOnly ==
  [][ edits' = edits =>
        \A g \in GatewayKeys :
          LET o == API(gateways)[g]  n == API(gateways')[g] IN
          o.ex /\ ~n.ex => \A u \in o.owners : ~Alive(u) \/ u = <<key, obj.gen>> ]_vars

(* From a Gateway that stays, the owner reference of a living Ingress goes   *)
(* only in that Ingress's own clean-up: two Ingresses that share a Gateway   *)
(* never clobber each other (reconciler.go 501-507 and 553-558).             *)
OwnersKept ==
  [][ edits' = edits =>
        \A g \in GatewayKeys :
          API(gateways')[g].ex =>
            \A u \in API(gateways)[g].owners \ API(gateways')[g].owners :
              Alive(u) => u = <<key, obj.gen>> /\ Leaving(obj) ]_vars

(* A step that lets Gateway g go for the Ingress its request cleans up, and  *)
(* one that joins for an Ingress deleted since: the reference it sets        *)
(* replaces the one that the Ingress re-created under that name has.         *)
LetsGo(g, u)   == /\ pc = "detach" /\ g \in DOMAIN detach \ DOMAIN detach'
                  /\ u = <<key, obj.gen>> /\ Leaving(obj)
Outlives(g, u) == pc = "ensureGateway" /\ want.key = g /\ u[1] = key /\ u[2] # obj.gen

(* An external Gateway changes only by its administrators' hand, never by a  *)
(* step of the controller ("a pre-existing Gateway that the controller must  *)
(* not manage", config.go 37).                                               *)
ExternalUntouched ==
  [][ Work => \A g \in GatewayKeys :
                IsExternalGateway(g) => API(gateways')[g] = API(gateways)[g] ]_vars

(* The controller never turns a Gateway of one class into one of another,    *)
(* however old the copy is that it compared ("conflict: Gateway already      *)
(* exists but is using a different GatewayClassName", reconciler.go 547).    *)
ClassKept ==
  [][ Work => \A g \in GatewayKeys :
        API(gateways)[g].ex /\ API(gateways')[g].ex =>
          API(gateways')[g].class = API(gateways)[g].class ]_vars

(* When an Ingress loses the finalizer, no route is tracked to it any more:  *)
(* deleteOrphanRoutes went through every kind, a failure on the way started  *)
(* all over (reconciler.go 107-108, 365-375).                                *)
ReleasedRoutes ==
  [][ \A i \in Ingresses :
        API(ingresses)[i].fin /\ ~API(ingresses')[i].fin =>
          \A id \in RouteIds : NsOf[id.ing] = NsOf[i] => SourceOf(API(routes)[id]) # i ]_vars

(* When an Ingress loses the finalizer, no managed Gateway names it as an    *)
(* owner any more, whatever failed: the finalizer waits for the clean-up     *)
(* ("We should clean up resources before removing the finalizer",            *)
(* reconciler.go 108).                                                       *)
CleanedUpBefore ==
  [][ \A i \in Ingresses :
        LET o == API(ingresses)[i] IN
        o.fin /\ ~API(ingresses')[i].fin =>
          \A g \in GatewayKeys :
            ~IsExternalGateway(g) => <<i, o.gen>> \notin API(gateways)[g].owners ]_vars

(* An external Gateway is not deleted in consequence of what the controller  *)
(* does or omits ("the controller must not modify or delete", README.md 87). *)
ExternalSurvives ==
  [][ edits' = edits => \A g \in GatewayKeys :
        IsExternalGateway(g) /\ API(gateways)[g].ex => API(gateways')[g].ex ]_vars

-----------------------------------------------------------------------------
(* Rest: the worker idle, the queue empty, the caches fresh, no garbage, and *)
(* nothing in back-off but what cannot succeed and has got as far as it can. *)

Convertible(s) == Selected(s) /\ ProviderOf(s) \in RegisteredProviders

Serving(i) == LET o == API(ingresses)[i] IN o.ex /\ ~o.del /\ IsEnabled(o.spec)

Quiet ==
  /\ pc = "idle" /\ queue = {}
  /\ Len(ingresses) = 1 /\ Len(gateways) = 1 /\ Len(routes) = 1
  /\ \A g \in GatewayKeys : ~Collectable(API(gateways)[g])
  /\ \A id \in RouteIds : ~Collectable(API(routes)[id])
  /\ \A d \in delayed : d[2] = "error" =>
       LET o == API(ingresses)[d[1]] IN
       Serving(d[1]) /\ ~Convertible(o.spec) /\ (ConfigValid(o.spec) => o.fin)

(* At rest the finalizer is on exactly the Ingresses that are selected, and  *)
(* none is left waiting for it to be deleted.                                *)
SettledFinalizers ==
  Quiet => \A i \in Ingresses :
    LET o == API(ingresses)[i] IN
    /\ ~o.del
    /\ o.ex /\ ~IsEnabled(o.spec) => ~o.fin
    /\ Serving(i) /\ ConfigValid(o.spec) => o.fin

(* The Ingresses a managed Gateway has to serve. *)
Needs(i, g) ==
  LET o == API(ingresses)[i] IN
  /\ Serving(i) /\ Convertible(o.spec) /\ ~TargetsExternal(o.spec) /\ o.spec.rules # {}
  /\ Target(i, o.spec) = g

(* At rest every selected Ingress with rules finds its managed Gateway there *)
(* ("a shared Gateway can be targeted by Ingresses in multiple namespaces",  *)
(* "If we just delete it [...] we might break other Ingresses",              *)
(* reconciler.go 213, 395).                                                  *)
GatewayThere ==
  Quiet => \A g \in GatewayKeys : (\E i \in Ingresses : Needs(i, g)) => API(gateways)[g].ex

(* At rest a Gateway listens for every host of the Ingresses it serves       *)
(* ("Find all Ingresses that target the SAME Gateway (merged conversion)",   *)
(* reconciler.go 212).                                                       *)
ListenersServe ==
  Quiet => \A g \in GatewayKeys : \A i \in Ingresses :
    Needs(i, g) /\ API(gateways)[g].ex =>
      ListenerHosts([j \in {i} |-> API(ingresses)[i].spec], {i}, NsOf[i]) \subseteq API(gateways)[g].hosts

(* At rest a Gateway the controller made is there for a selected Ingress     *)
(* that targets it: the last one to leave has taken it along, unless the     *)
(* List that it goes by has failed.                                          *)
NoGatewayLeft ==
  Quiet /\ faults = 0 => \A g \in GatewayKeys \ DOMAIN Preexisting :
    API(gateways)[g].ex /\ ~IsExternalGateway(g) =>
      \E i \in Ingresses : Serving(i) /\ Target(i, API(ingresses)[i].spec) = g

(* At rest every rule of a selected Ingress is carried by a route of its     *)
(* namespace that includes that Ingress and hangs on its Gateway.            *)
RoutesServe ==
  Quiet => \A i \in Ingresses :
    LET s == API(ingresses)[i].spec IN
    Serving(i) /\ Convertible(s) => \A rule \in s.rules :
      \E id \in RouteIds :
        /\ <<id.kind, id.host>> = rule /\ NsOf[id.ing] = NsOf[i]
        /\ LET r == API(routes)[id] IN
           /\ r.ex /\ i \in r.body.members
           /\ r.body.parent \in {None, Target(i, s)}

(* At rest no route is left of a rule that nobody asks for any more.         *)
NoRouteLeft ==
  Quiet => \A id \in RouteIds :
    API(routes)[id].ex =>
      \E i \in Ingresses :
        /\ Serving(i) /\ NsOf[i] = NsOf[id.ing]
        /\ <<id.kind, id.host>> \in API(ingresses)[i].spec.rules

(* A route is tracked to an Ingress whose rules it carries ("the Ingress     *)
(* that generated a specific route or policy", converter.go 294): clean-up   *)
(* deletes by this mark.                                                     *)
TrackedToMember ==
  \A id \in RouteIds : LET r == API(routes)[id] IN r.ex => r.body.source \in r.body.members

-----------------------------------------------------------------------------
(* Liveness. *)

(* A user's deletion of an Ingress is not held up for ever by the finalizer. *)
DeletionCompletes ==
  \A i \in Ingresses : API(ingresses)[i].del ~> ~API(ingresses)[i].del
=============================================================================

-------------------------------- MODULE Drift --------------------------------
(***************************************************************************)
(* Administrators who delete or change by hand what the controller wrote.  *)
(* No event of theirs reaches the worker: Owns() follows controller        *)
(* references, the code sets plain ones (reconciler.go 525-643, 684).      *)
(* What brings the cluster back is the next event of the Ingress, a        *)
(* pending retry, or in the end the informer's resync.                     *)
(***************************************************************************)
EXTENDS ReconcilerProperties

DeleteRouteByHand(id) ==
  /\ API(routes)[id].ex
  /\ WriteRoute(id, NoRoute)
  /\ Edited /\ UNCHANGED <<ingresses, gateways, queue>>

(* Its rules are rewritten; the tracking annotation is left alone. *)
SpoilRoute(id) ==
  /\ API(routes)[id].ex /\ API(routes)[id].body.members # {}
  /\ WriteRoute(id, [API(routes)[id] EXCEPT !.body.members = {}])
  /\ Edited /\ UNCHANGED <<ingresses, gateways, queue>>

DeleteGatewayByHand(g) ==
  /\ API(gateways)[g].ex
  /\ WriteGateway(g, NoGateway)
  /\ Edited /\ UNCHANGED <<ingresses, routes, queue>>

(* It is handed to another of the classes that are in use. *)
ReclassGatewayByHand(g) ==
  /\ API(gateways)[g].ex
  /\ \E p \in DOMAIN Preexisting :
       WriteGateway(g, [API(gateways)[g] EXCEPT !.class = Preexisting[p].class])
  /\ Edited /\ UNCHANGED <<ingresses, routes, queue>>

Tamper ==
  \/ \E id \in RouteIds : DeleteRouteByHand(id) \/ SpoilRoute(id)
  \/ \E g \in GatewayKeys : DeleteGatewayByHand(g) \/ ReclassGatewayByHand(g)

DriftSpec ==
  /\ Init /\ [][Next \/ Tamper]_vars
  /\ Fairness
  /\ SF_vars(Resync)

-----------------------------------------------------------------------------
(* The managed Gateway of i has another class than i asks for.               *)
ForeignTarget(i, s) ==
  /\ ~TargetsExternal(s)
  /\ LET g == API(gateways)[Target(i, s)] IN g.ex /\ g.class # GatewayClassFor[GetIngressClass(s)]

(* Its Gateway, if it is the controller's, and all its routes are there.     *)
Served(i) ==
  LET s == API(ingresses)[i].spec IN
  /\ s.rules # {} /\ ~TargetsExternal(s) => API(gateways)[Target(i, s)].ex
  /\ \A rule \in s.rules : \E id \in RouteIds :
       /\ <<id.kind, id.host>> = rule /\ NsOf[id.ing] = NsOf[i]
       /\ LET r == API(routes)[id] IN
          r.ex /\ i \in r.body.members /\ r.body.parent \in {None, Target(i, s)}

(* Once nobody changes anything by hand any more, every selected Ingress is  *)
(* served in the end and stays so, whatever was deleted, overwritten, stale  *)
(* or refused before: the reconcile is written to be repeated.               *)
Converges ==
  <>[]( \A i \in Ingresses :
          LET s == API(ingresses)[i].spec IN
          Serving(i) /\ Convertible(s) /\ ~ForeignTarget(i, s) => Served(i) )
=============================================================================

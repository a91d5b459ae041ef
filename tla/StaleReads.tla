------------------------------ MODULE StaleReads ------------------------------
(***************************************************************************)
(* The reconcile loop of Reconciler with a history of what it was not      *)
(* shown: the owner references a List of Gateways lacked, the Gateways it  *)
(* left alone on the word of an outdated copy, and the routes its clean-up *)
(* could not find.  The history restricts nothing.  It serves to say that  *)
(* what the loop promises about shared Gateways is broken for those it     *)
(* overlooked and for no others, whatever the age of the caches, whatever  *)
(* call fails, and from whatever namespaces a Gateway is shared.           *)
(***************************************************************************)
EXTENDS ReconcilerProperties

VARIABLES
  overlooked,   \* <<g, u>>: that u owns, or should own, Gateway g was not seen
  strays        \* routes that the clean-up of their Ingress will not find

history  == <<overlooked, strays>>
readVars == <<vars, history>>

(* The UID this request works for. *)
me == <<key, obj.gen>>

-----------------------------------------------------------------------------
(* A clean-up has listed the Gateways: it was not shown that Gateways name   *)
(* its Ingress, or who else owns those that do.  A List that fails shows     *)
(* nothing.                                                                  *)
Seen(g, u) == faults' = faults /\ u \in Cache(gateways)[g].owners

Unlisted ==
  UNION { { <<g, u>> : u \in { v \in API(gateways)[g].owners :
              ~Seen(g, v) /\ (v = me \/ Seen(g, me)) } }
          : g \in GatewayKeys }

(* A Gateway is ensured, on a copy that is not, or for an Ingress that has   *)
(* not, what the API server holds.                                           *)
Outdated == Cache(gateways)[want.key] # API(gateways)[want.key] \/ ~API(ingresses)[key].fin

ReadGateways ==
  overlooked' =
    IF pc = "listGateways" /\ pc' = "detach" THEN overlooked \cup Unlisted
    ELSE IF pc = "ensureGateway" /\ pc' = "ensureRoutes"
      THEN IF Outdated THEN overlooked \cup {<<want.key, me>>} ELSE overlooked \ {<<want.key, me>>}
    ELSE overlooked

HasFinalizer(i) == i \in Ingresses /\ API(ingresses)[i].fin

(* The route that has just been written. *)
Written == {id \in DOMAIN todo \ DOMAIN todo' : API(routes')[id] # API(routes)[id]}

(* The routes of its namespace that the caches show as made for the Ingress. *)
ShownRoutes == {id \in RouteIds : NsOf[id.ing] = NsOf[key] /\ SourceOf(Cache(routes)[id]) = key}

ReadRoutes ==
  strays' =
    IF pc = "cleanRoutes" /\ pc' = "listGateways"
      THEN strays \cup {id \in RouteIds \ ShownRoutes : SourceOf(API(routes)[id]) = key}
      ELSE {id \in strays \cup Written : id \in Written => ~HasFinalizer(SourceOf(API(routes')[id]))}

ReadInit == Init /\ overlooked = {} /\ strays = {}
ReadNext == Next /\ ReadGateways /\ ReadRoutes
ReadSpec == ReadInit /\ [][ReadNext]_readVars

-----------------------------------------------------------------------------
(* A Gateway is deleted over the head of a living owner only if the list     *)
(* that the deletion goes by did not show that owner ("only delete the       *)
(* Gateway if no other owners (Ingresses) are left", reconciler.go 414).     *)
LastOwnerShown ==
  [][ edits' = edits =>
        \A g \in GatewayKeys :
          API(gateways)[g].ex /\ ~API(gateways')[g].ex =>
            \A u \in API(gateways)[g].owners :
              Alive(u) /\ u # me => <<g, u>> \in overlooked ]_readVars

(* When an Ingress loses the finalizer, the managed Gateways that still name *)
(* it are those its clean-up did not list (reconciler.go 107-108, 394-421).  *)
ReleasedWhatIsListed ==
  [][ \A i \in Ingresses :
        LET o == API(ingresses)[i] IN
        o.fin /\ ~API(ingresses')[i].fin =>
          \A g \in GatewayKeys :
            ~IsExternalGateway(g) /\ <<i, o.gen>> \in API(gateways)[g].owners =>
              <<g, <<i, o.gen>>>> \in overlooked ]_readVars

(* A living Ingress that a managed Gateway names as an owner has the         *)
(* finalizer, so that its leaving is noticed, unless it was overlooked       *)
(* (reconciler.go 158-166 before 277; 394-421 before 375).                   *)
OwnersHeld ==
  \A g \in GatewayKeys \ DOMAIN Preexisting :
    ~IsExternalGateway(g) =>
      \A u \in API(gateways)[g].owners :
        Alive(u) /\ ~API(ingresses)[u[1]].fin => <<g, u>> \in overlooked

(* A route is there only while the Ingress it is tracked to has the          *)
(* finalizer, so that somebody deletes it in the end, unless it was made for *)
(* an Ingress that had none or its clean-up was not shown it (reconciler.go  *)
(* 107-108, 299-341, 426-493).                                               *)
RoutesHeld ==
  \A id \in RouteIds :
    LET r == API(routes)[id] IN r.ex /\ ~HasFinalizer(r.body.source) => id \in strays

(* At rest an Ingress of the Gateway's namespace finds its Gateway there and *)
(* is one of its owners, unless it was overlooked, whoever else shares the   *)
(* Gateway and from wherever (reconciler.go 213, 395).                       *)
OwnGatewayThere ==
  Quiet => \A i \in Ingresses, g \in GatewayKeys :
    LET u == <<i, API(ingresses)[i].gen>> IN
    Needs(i, g) /\ NsOf[i] = g.ns /\ ~IsExternalGateway(g) /\ <<g, u>> \notin overlooked =>
      API(gateways)[g].ex /\ u \in API(gateways)[g].owners

(* Only Ingresses of its own namespace can target the Gateway.               *)
Private(g) ==
  \A i \in Ingresses : \A s \in Specs[i] :
    ConfigValid(s) /\ ~TargetsExternal(s) /\ Target(i, s) = g => NsOf[i] = g.ns

(* At rest a Gateway that is shared within a namespace listens for every     *)
(* host of every Ingress it serves and has not overlooked, in whatever order *)
(* the merges ran (reconciler.go 212).                                       *)
OwnListenersServe ==
  Quiet => \A i \in Ingresses, g \in GatewayKeys :
    LET o == API(ingresses)[i] IN
    Needs(i, g) /\ Private(g) /\ ~IsExternalGateway(g) /\ <<g, <<i, o.gen>>>> \notin overlooked =>
      ListenerHosts([j \in {i} |-> o.spec], {i}, NsOf[i]) \subseteq API(gateways)[g].hosts
=============================================================================

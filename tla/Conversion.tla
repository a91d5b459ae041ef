------------------------------ MODULE Conversion ------------------------------
(***************************************************************************)
(* What one conversion produces (pkg/converter/converter.go): at most one  *)
(* Gateway, and the routes and policies of the merged Ingresses, each      *)
(* attributed to one source Ingress.  A name is a sequence of the words a  *)
(* "-" separates; the upstream ingress2gateway library is external and is  *)
(* modelled by the grouping and the naming the converter's tests rely on.  *)
(***************************************************************************)
EXTENDS IngressConfig, Naturals, Sequences, FiniteSets

CONSTANTS
  Ingresses,            \* the Ingress keys (namespace/name)
  NsOf,                 \* the namespace of each
  NameOf,               \* the words of the name of each
  NameLen,              \* the number of characters of the name of each
  Rank,                 \* the library's order of the Ingresses of a namespace
  Specs,                \* Specs[i]: the settings users may give Ingress i
  RegisteredProviders,  \* the providers linked into the binary
  None                  \* no Ingress, no Gateway

Kinds == <<"HTTPRoute", "GRPCRoute", "TLSRoute", "BackendTLSPolicy">>

ASSUME ConversionAssumption ==
  /\ IsFiniteSet(Ingresses)
  /\ NsOf \in [Ingresses -> STRING]
  /\ NameOf \in [Ingresses -> Seq(STRING)]
  /\ NameLen \in [Ingresses -> Nat]
  /\ Rank \in [Ingresses -> Nat]
  /\ None \notin Ingresses
  /\ \A i \in Ingresses : \A s \in Specs[i] : \A r \in s.rules :
       r \in STRING \X Seq(STRING) /\ \E k \in DOMAIN Kinds : r[1] = Kinds[k]

(* Everything a conversion could ever name. *)
RouteIds ==
  UNION { { [kind |-> r[1], ing |-> i, host |-> r[2]] : r \in UNION {s.rules : s \in Specs[i]} }
          : i \in Ingresses }

GatewayKeys ==
  (UNION { {TargetGateway(NsOf[i], s) : s \in Specs[i]} : i \in Ingresses })
    \cup {ExternalFor[c] : c \in DOMAIN ExternalFor}

-----------------------------------------------------------------------------
(* findSourceIngress: the longest Ingress name standing between separators   *)
(* in the resource name, the first of the list among names of one length.    *)

ResourceName(id) ==
  CASE id.kind = "BackendTLSPolicy" -> id.host \o NameOf[id.ing]
    [] id.kind = "TLSRoute"         -> NameOf[id.ing] \o id.host \o <<"tls", "passthrough">>
    [] OTHER                        -> NameOf[id.ing] \o id.host

NameMatches(i, res) ==
  \E k \in 0..(Len(res) - Len(NameOf[i])) :
     SubSeq(res, k + 1, k + Len(NameOf[i])) = NameOf[i]

IsBestMatch(order, res, k) ==
  /\ NameMatches(order[k], res)
  /\ \A m \in DOMAIN order :
        NameMatches(order[m], res) =>
          \/ NameLen[order[m]] < NameLen[order[k]]
          \/ NameLen[order[m]] = NameLen[order[k]] /\ k <= m

FindSourceIngress(order, res) ==
  IF \E k \in DOMAIN order : IsBestMatch(order, res, k)
    THEN order[CHOOSE k \in DOMAIN order : IsBestMatch(order, res, k)]
    ELSE None

(* The order in which the cache lists a set of Ingresses is not determined. *)
ListOrders(S) ==
  { f \in [1..Cardinality(S) -> S] : \A j, k \in DOMAIN f : f[j] = f[k] => j = k }

-----------------------------------------------------------------------------
(* The library: rules of one namespace, kind and host make one resource,     *)
(* named after the first Ingress of the group; a policy is per Ingress.      *)

Group(spec, merged, i, rule) ==
  IF rule[1] = "BackendTLSPolicy"
    THEN {i}
    ELSE {j \in merged : NsOf[j] = NsOf[i] /\ rule \in spec[j].rules}

ConvertedIds(spec, merged) ==
  { id \in RouteIds :
      /\ id.ing \in merged
      /\ <<id.kind, id.host>> \in spec[id.ing].rules
      /\ \A j \in Group(spec, merged, id.ing, <<id.kind, id.host>>) : Rank[id.ing] <= Rank[j] }

(* Namespaces for which the library emits a Gateway. *)
GatewayNamespaces(spec, merged) == {NsOf[j] : j \in {m \in merged : spec[m].rules # {}}}

ListenerHosts(spec, merged, ns) ==
  { rule[2] : rule \in UNION { {r \in spec[j].rules : r[1] # "BackendTLSPolicy"}
                               : j \in {m \in merged : NsOf[m] = ns} } }

-----------------------------------------------------------------------------
(* Step 8 of Convert: each resource gets the target Gateway as its parent    *)
(* and the source annotations.                                               *)
ConvertedRoutes(spec, merged, order, provider, gateway) ==
  [ id \in ConvertedIds(spec, merged) |->
      [ source   |-> FindSourceIngress(order, ResourceName(id)),
        provider |-> provider,
        parent   |-> IF id.kind = "BackendTLSPolicy" THEN None ELSE gateway,
        members  |-> Group(spec, merged, id.ing, <<id.kind, id.host>>) ] ]
=============================================================================

----------------------------- MODULE MCReconciler -----------------------------
(***************************************************************************)
(* Values for the constants of Reconciler: two Ingresses and what is asked *)
(* of them, one definition per scenario.                                   *)
(***************************************************************************)
EXTENDS GatewayRefinement, Drift

CONSTANTS a, b

OneIngress   == {a}
TwoIngresses == {a, b}

SameNs  == [i \in Ingresses |-> "x"]
OtherNs == [i \in Ingresses |-> IF i = a THEN "x" ELSE "y"]

ShortNames    == [i \in Ingresses |-> IF i = a THEN <<"a">> ELSE <<"b">>]
ShortLen      == [i \in Ingresses |-> 1]
(* "app" with a host that begins with the name of the other, "frontend". *)
OverlapNames  == [i \in Ingresses |-> IF i = a THEN <<"app">> ELSE <<"frontend">>]
OverlapLen    == [i \in Ingresses |-> IF i = a THEN 3 ELSE 8]

AFirst == [i \in Ingresses |-> IF i = a THEN 1 ELSE 2]

Registered == {"ingress-nginx"}
AllKinds   == {"HTTPRoute", "GRPCRoute", "TLSRoute", "BackendTLSPolicy"}
CoreKinds  == {"HTTPRoute", "GRPCRoute"}

WebClass   == [c \in {"web"} |-> "gc"]
NoExternal == [c \in {} |-> [ns |-> "", name |-> ""]]
(* Class "shared" was a managed class once: its Gateway carries its name. *)
SharedExternal == [c \in {"shared"} |-> [ns |-> "x", name |-> "shared"]]
(* Class "ext" is served by an external Gateway that is called "web". *)
ClashExternal  == [c \in {"ext"} |-> [ns |-> "x", name |-> "web"]]

NothingThere  == [g \in {} |-> [class |-> "", owners |-> {}, hosts |-> {}]]
SharedThere   == [g \in {[ns |-> "x", name |-> "shared"]} |-> [class |-> "gc", owners |-> {<<a, 1>>}, hosts |-> {<<"h1">>}]]
ClashThere    == [g \in {[ns |-> "x", name |-> "web"]} |-> [class |-> "gc", owners |-> {}, hosts |-> {}]]
(* Of another class, and of the right one but not made by the controller. *)
ForeignThere  == [g \in [ns : {"x", "infra"}, name : {"web"}] |->
                    [class |-> IF g.ns = "x" THEN "other" ELSE "gc", owners |-> {}, hosts |-> {}]]
JointThere    == [g \in {[ns |-> "x", name |-> "web"]} |->
                    [class |-> "gc", owners |-> {<<b, 1>>}, hosts |-> {<<"h2">>}]]
OnlyA         == {a}

-----------------------------------------------------------------------------
Asks(enabled, class, gwns, rules) ==
  [ enabled |-> enabled, class |-> class, legacy |-> "", provider |-> "", gwns |-> gwns,
    rules |-> rules, secret |-> << >> ]

Http(h) == {<<"HTTPRoute", <<h>>>>}
Own(i)  == Http(IF i = a THEN "h1" ELSE "h2")

(* Both always selected, each with a host of its own. *)
On    == [i \in Ingresses |-> {Asks("true", "web", "", Own(i))}]
(* Both may be opted out and in. *)
OnOff == [i \in Ingresses |-> {Asks("true", "web", "", Own(i)), Asks("false", "web", "", Own(i))}]
(* One host, both Ingresses. *)
OneHost == [i \in Ingresses |-> {Asks("true", "web", "", Http("h1"))}]
(* The host may be changed. *)
TwoHosts == [i \in Ingresses |-> {Asks("true", "web", "", Http("h1")), Asks("true", "web", "", Http("h2"))}]
(* One Gateway, in the namespace of the first, for both. *)
OneGateway == [i \in Ingresses |-> {Asks("true", "web", "x", Own(i))}]
(* The Gateway of a second namespace. *)
Moving == [i \in Ingresses |-> {Asks("true", "web", "", Own(a)), Asks("true", "web", "infra", Own(a))}]
(* The first on an external Gateway, the second on a managed one, and a kind *)
(* of route each that the other does not have.                               *)
External ==
  LET rules(i) == {<<k, <<"h1">>>> : k \in IF i = a THEN {"TLSRoute"}
                                                   ELSE {"GRPCRoute", "BackendTLSPolicy"}}
  IN [i \in Ingresses |->
        IF i = a THEN {Asks("none", "shared", "", rules(a)), Asks("false", "shared", "", rules(a))}
                 ELSE {[Asks("none", "web", "", rules(b)) EXCEPT !.secret = <<"tls">>],
                       Asks("true", "unmapped", "", rules(b))}]
Clash == [i \in Ingresses |-> {Asks("true", "web", "", Own(a))}]
(* The first names the second in its host. *)
Overlap == [i \in Ingresses |-> {Asks("true", "web", "", IF i = a
                                        THEN {<<"HTTPRoute", <<"frontend", "x">>>>}
                                        ELSE Http("h2"))}]
(* On a sound Gateway, on one of another class, opted out, on an external    *)
(* Gateway, with a provider the binary does not know and one nobody knows.   *)
Troubled ==
  [i \in Ingresses |->
     {Asks("true", "web", "infra", Own(a)), Asks("true", "web", "", Own(a)), Asks("false", "web", "", Own(a)),
      Asks("true", "shared", "", Own(a)),
      [Asks("true", "web", "", Own(a)) EXCEPT !.provider = "nginx"],
      [Asks("true", "web", "", Own(a)) EXCEPT !.provider = "haproxy"]}]
=============================================================================

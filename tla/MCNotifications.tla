--------------------------- MODULE MCNotifications ---------------------------
(***************************************************************************)
(* Scenarios for the events: who is told of what, and how often.           *)
(***************************************************************************)
EXTENDS MCReconciler, Notifications

(* Both Ingresses name the same Secret, one by its full name. *)
OneSecret ==
  [i \in Ingresses |->
     {[Asks("true", "web", "", Own(i)) EXCEPT !.secret = IF i = a THEN <<"tls">> ELSE <<"x", "tls">>]}]

(* From an external Gateway to a managed one and back. *)
ThereAndBack == [i \in Ingresses |-> {Asks("none", "shared", "", Own(a)), Asks("none", "web", "", Own(a))}]
=============================================================================

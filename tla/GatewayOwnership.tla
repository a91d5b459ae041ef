-------------------------- MODULE GatewayOwnership --------------------------
(***************************************************************************)
(* What the controller promises about the Gateways that Ingresses share,   *)
(* whatever it takes to get there: Ingresses join a Gateway and leave it,  *)
(* nobody is pushed out, a Gateway keeps its class, and it goes when its   *)
(* last owner leaves or has died.  It says nothing of caches, calls,       *)
(* failures or the order of work.                                          *)
(***************************************************************************)
EXTENDS Naturals

CONSTANTS
  Gateways,   \* the Gateways the controller manages
  Keys,       \* the Ingresses that may own them,
  Ages,       \* and the incarnations an Ingress may have, positive numbers
  Classes     \* the classes a Gateway may have

VARIABLES
  held,       \* Gateway -> is it there, its class, its owners
  living      \* Ingress -> the incarnation that is there, or 0

vars == <<held, living>>

(* An owner is one incarnation of an Ingress. *)
Owners == Keys \X Ages

Lives(u) == living[u[1]] = u[2]

Absent == [ex |-> FALSE, class |-> "", owners |-> {}]

-----------------------------------------------------------------------------
(* The first to join makes the Gateway; an Ingress of another namespace      *)
(* makes one that it cannot own.                                             *)
Make(g, c, S) ==
  /\ ~held[g].ex
  /\ held' = [held EXCEPT ![g] = [ex |-> TRUE, class |-> c, owners |-> S]]
  /\ UNCHANGED living

(* A later incarnation takes the place of an earlier one, never of a later.  *)
Superseded(S, u) == {v \in S : v[1] = u[1] /\ v[2] <= u[2]}

Join(g, u) ==
  /\ held[g].ex
  /\ held' = [held EXCEPT ![g].owners = (@ \ Superseded(@, u)) \cup {u}]
  /\ UNCHANGED living

Without(o, S) == IF o.owners \subseteq S THEN Absent ELSE [o EXCEPT !.owners = @ \ S]

Leave(g, u) ==
  /\ u \in held[g].owners
  /\ held' = [held EXCEPT ![g] = Without(@, {u})]
  /\ UNCHANGED living

(* The garbage collector. *)
Reap(g) ==
  /\ \E u \in held[g].owners : ~Lives(u)
  /\ held' = [held EXCEPT ![g] = Without(@, {u \in @.owners : ~Lives(u)})]
  /\ UNCHANGED living

Born(i, n) ==
  /\ living[i] = 0
  /\ living' = [living EXCEPT ![i] = n]
  /\ UNCHANGED held

Dies(i) ==
  /\ living[i] # 0
  /\ living' = [living EXCEPT ![i] = 0]
  /\ UNCHANGED held

-----------------------------------------------------------------------------
Init ==
  /\ held \in [Gateways -> [ex : BOOLEAN, class : Classes, owners : SUBSET Owners]]
  /\ \A g \in Gateways : ~held[g].ex => held[g] = Absent
  /\ living \in [Keys -> Ages \cup {0}]

Next ==
  \/ \E g \in Gateways :
       \/ \E u \in Owners : Join(g, u) \/ Leave(g, u)
       \/ \E c \in Classes, S \in {{}} \cup {{u} : u \in Owners} : Make(g, c, S)
       \/ Reap(g)
  \/ \E i \in Keys : Dies(i) \/ \E n \in Ages : Born(i, n)

Spec == Init /\ [][Next]_vars
=============================================================================

-------------------------- MODULE GatewayRefinement --------------------------
(***************************************************************************)
(* The reconcile loop implements GatewayOwnership, provided that the       *)
(* cache of Gateways is never behind: a cached copy decides whether a      *)
(* Gateway is deleted, and Delete names no version (reconciler.go 516).    *)
(***************************************************************************)
EXTENDS ReconcilerProperties

Managed == {g \in GatewayKeys : ~IsExternalGateway(g)}

HeldGateways ==
  [ g \in Managed |->
      LET o == API(gateways)[g] IN [ex |-> o.ex, class |-> o.class, owners |-> o.owners] ]

LivingIngresses ==
  [ i \in Ingresses |-> IF API(ingresses)[i].ex THEN API(ingresses)[i].gen ELSE 0 ]

(* A key is created once at the start and once per edit at most.             *)
Ownership == INSTANCE GatewayOwnership WITH
  Gateways <- Managed,
  Keys     <- Ingresses,
  Ages     <- 1..(MaxEdits + 1),
  Classes  <- Classes,
  held     <- HeldGateways,
  living   <- LivingIngresses

(* Every write of the controller to a Gateway it manages is somebody joining *)
(* or leaving it, on the Gateway as it is and not as it was when the worker  *)
(* looked: createOrUpdateGateway and removeOwnerReference (reconciler.go     *)
(* 495-567) taken together implement shared ownership.                       *)
SharedOwnership == Ownership!Spec
=============================================================================

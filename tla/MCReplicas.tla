----------------------------- MODULE MCReplicas -----------------------------
(***************************************************************************)
(* Two processes, two Ingresses, one Gateway.                              *)
(***************************************************************************)
EXTENDS MCReconciler, Replicas
=============================================================================

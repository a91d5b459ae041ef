----------------------------- MODULE MCStaleReads -----------------------------
(***************************************************************************)
(* Two Ingresses of one Gateway, all caches behind.                        *)
(***************************************************************************)
EXTENDS MCReconciler, StaleReads
=============================================================================

----------------------------- MODULE MCLifecycle -----------------------------
(* Lifecycle for TLC. *)
EXTENDS Lifecycle

CONSTANTS t1, t2
=============================================================================

----------------------------- MODULE MCTelemetry -----------------------------
(* Telemetry for TLC. *)
EXTENDS Telemetry

CONSTANTS k1, k2

=============================================================================

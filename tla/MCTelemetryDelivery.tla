------------------------ MODULE MCTelemetryDelivery ------------------------
(* TelemetryDelivery on small instances. *)
EXTENDS TelemetryDelivery, TLC
=============================================================================

-------------------------- MODULE MCSaObservation --------------------------
(* SaObservation on small instances. *)
EXTENDS SaObservation, TLC
=============================================================================

------------------------- MODULE MCTelemetryStorage -------------------------
(***************************************************************************)
(* TelemetryStorage with two nodes of one run that report different modes: *)
(* ric sends its metadata and a metric; gnb sends the metadata of a first  *)
(* start without --mode and those of a second one with another mode.       *)
(***************************************************************************)
EXTENDS TelemetryStorage, TLC

CONSTANTS ric, gnb, M2, M3

Modes == ric :> <<M3, NoMode>> @@ gnb :> <<Unknown, M2>>
=============================================================================

---------------------------- MODULE AtomicIngest ----------------------------
(***************************************************************************)
(* TelemetryStorage.ingest as TelemetryDelivery uses it: one step that     *)
(* indexes an event and updates the manifest, or does nothing; and a crash *)
(* that may leave the manifest changed, or destroyed, without its event.   *)
(***************************************************************************)
EXTENDS StorageIndex

CONSTANTS
  Node, Sequence,
  Reported   \* Reported[n][s]: the mode event s of n reports, NoMode if none

CONSTANTS Mode, NoMode

VARIABLES received, manifest

vars == <<received, manifest>>

Init ==
  /\ received = [n \in Node |-> {}]
  /\ manifest = Unknown

New(n, s) ==
  /\ s \notin received[n]
  /\ ~ ManifestRejects(manifest, Reported[n][s] # NoMode, Reported[n][s])

Updated(n, s) == ManifestAfter(manifest, Reported[n][s] # NoMode, Reported[n][s])

Ingest(n, s) ==
  /\ New(n, s)
  /\ received' = [received EXCEPT ![n] = @ \cup {s}]
  /\ manifest' = Updated(n, s)

Cut(n, s) ==
  /\ New(n, s)
  /\ manifest' \in {Torn, Updated(n, s)}
  /\ UNCHANGED received

Next == \E n \in Node, s \in Sequence : Ingest(n, s) \/ Cut(n, s)

Spec == Init /\ [][Next]_vars
=============================================================================

---------------------------- MODULE StorageIndex ----------------------------
(***************************************************************************)
(* What TelemetryStorage (collector/src/pqc_collector/storage.py) computes *)
(* from its index of received (run, node, sequence) keys and from the      *)
(* central manifest, as operators on the set of sequences received from    *)
(* one node of one run and on the manifest's mode.                         *)
(***************************************************************************)
EXTENDS Integers, FiniteSets, FiniteSetsExt

CONSTANTS
  Unknown,   \* the mode a manifest is created with, and an agent's default
  Torn       \* a manifest.json whose rewriting was cut short: not JSON

\* ingest's `last`: the largest sequence received, 0 when there is none.
Last(received) == Max(received \cup {0})

\* ingest's `missing`: the holes below `last`.
Missing(received) == (1 .. Last(received)) \ received

\* summary.json's has_gaps, from COUNT, MIN and MAX of the received rows.
HasGaps(received) ==
  Cardinality(received) # Max(received) - Min(received) + 1

(***************************************************************************)
(* _update_manifest, which every event that was inserted runs: it raises   *)
(* when the file is not JSON, or when NODE_METADATA reports a mode and the *)
(* manifest already has another one.                                       *)
(***************************************************************************)
\* Mutants of ManifestRejects: without one of its two reasons.
ManifestRejectsTorn(manifest, reports, mode) == manifest = Torn

ManifestRejectsMode(manifest, reports, mode) ==
  reports /\ manifest \notin {Unknown, mode, Torn}

ManifestRejects(manifest, reports, mode) ==
  \/ manifest = Torn
  \/ reports /\ manifest \notin {Unknown, mode}

\* Mutant of ManifestAfter: events that report no mode update it too.
ManifestAfterEvent(manifest, reports, mode) == mode

ManifestAfter(manifest, reports, mode) ==
  IF reports THEN mode ELSE manifest
=============================================================================

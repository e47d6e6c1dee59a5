-------------------------- MODULE TelemetryStorage --------------------------
(***************************************************************************)
(* TelemetryStorage.ingest (collector/src/pqc_collector/storage.py) write  *)
(* by write: the SQLite transaction on the index, the lines appended to    *)
(* telemetry.jsonl and to events.jsonl or metrics.csv, and manifest.json   *)
(* and summary.json, which are truncated and then written.  Only the index *)
(* rolls back when ingest raises or the collector is killed.  The storage  *)
(* lock lets one ingestion at a time through.                              *)
(***************************************************************************)
EXTENDS StorageIndex

CONSTANTS
  Node,      \* the nodes of one run
  Sequence,  \* the sequence numbers their events have
  Reported,  \* Reported[n][s]: the mode event s of n reports, NoMode if it
             \* is not NODE_METADATA
  Mode, NoMode,
  MaxLines   \* bound of the model: how often an event is written

ASSUME StorageConstantsOK ==
  /\ Sequence \subseteq Nat \ {0}
  /\ Reported \in [Node -> [Sequence -> Mode \cup {NoMode}]]
  /\ Unknown \in Mode
  /\ NoMode \notin Mode
  /\ Torn \notin Mode
  /\ MaxLines \in Nat

VARIABLES
  index,     \* index[n]: the committed rows of n in index.db
  lines,     \* lines[n][s]: the lines of event s in telemetry.jsonl
  targets,   \* targets[n][s]: its lines in events.jsonl or metrics.csv
  manifest,  \* the mode in manifest.json, Unknown without the file, or Torn
  listed,    \* the nodes that manifest.json lists
  summary,   \* summary[n]: the rows summary.json counts for n, or Torn
  work       \* the ingestion that holds the lock

vars == <<index, lines, targets, manifest, listed, summary, work>>

Steps == {"inserted", "lined", "targeted", "truncated", "updated", "emptied", "written"}

\* `mode` is the mode in the manifest as _update_manifest has read it.
Work == [node : Node, seq : Sequence, step : Steps, mode : Mode]

Idle == [step |-> "idle"]

At(step) == work.step = step

\* The index as the transaction sees it.
Seen ==
  [n \in Node |-> IF ~ At("idle") /\ n = work.node THEN index[n] \cup {work.seq}
                  ELSE index[n]]

IsMetadata(n, s) == Reported[n][s] # NoMode

Rejected == ManifestRejects(manifest, IsMetadata(work.node, work.seq),
                            Reported[work.node][work.seq])

\* target: NODE_METADATA has no file besides telemetry.jsonl.
HasTarget(n, s) == ~ IsMetadata(n, s)

-----------------------------------------------------------------------------
Init ==
  /\ index = [n \in Node |-> {}]
  /\ lines = [n \in Node |-> [s \in Sequence |-> 0]]
  /\ targets = [n \in Node |-> [s \in Sequence |-> 0]]
  /\ manifest = Unknown
  /\ listed = {}
  /\ summary = [n \in Node |-> {}]
  /\ work = Idle

\* Mutant of Insert: the row is committed before the files are written.
InsertCommitted(n, s) ==
  /\ At("idle")
  /\ s \in index[n] \/ lines[n][s] < MaxLines
  /\ index' = [index EXCEPT ![n] = @ \cup {s}]
  /\ work' = [node |-> n, seq |-> s, mode |-> Unknown,
              step |-> IF s \in index[n] THEN "updated" ELSE "inserted"]
  /\ UNCHANGED <<lines, targets, manifest, listed, summary>>

\* INSERT OR IGNORE; an event that is in the index is only counted again.
Insert(n, s) ==
  /\ At("idle")
  /\ s \in index[n] \/ lines[n][s] < MaxLines
  /\ work' = [node |-> n, seq |-> s, mode |-> Unknown,
              step |-> IF s \in index[n] THEN "updated" ELSE "inserted"]
  /\ UNCHANGED <<index, lines, targets, manifest, listed, summary>>

WriteLine ==
  /\ At("inserted")
  /\ lines' = [lines EXCEPT ![work.node][work.seq] = @ + 1]
  /\ work' = [work EXCEPT !.step = "lined"]
  /\ UNCHANGED <<index, targets, manifest, listed, summary>>

WriteTarget ==
  /\ At("lined")
  /\ targets' = IF HasTarget(work.node, work.seq)
                THEN [targets EXCEPT ![work.node][work.seq] = @ + 1]
                ELSE targets
  /\ work' = [work EXCEPT !.step = "targeted"]
  /\ UNCHANGED <<index, lines, manifest, listed, summary>>

\* _update_manifest raises; the transaction rolls back.
Raise ==
  /\ At("targeted")
  /\ Rejected
  /\ work' = Idle
  /\ UNCHANGED <<index, lines, targets, manifest, listed, summary>>

\* _update_manifest has read the file; write_text opens it for writing.
TruncateManifest ==
  /\ At("targeted")
  /\ ~ Rejected
  /\ manifest' = Torn
  /\ work' = [work EXCEPT !.step = "truncated", !.mode = manifest]
  /\ UNCHANGED <<index, lines, targets, listed, summary>>

WriteManifest ==
  /\ At("truncated")
  /\ manifest' = ManifestAfter(work.mode, IsMetadata(work.node, work.seq),
                               Reported[work.node][work.seq])
  /\ listed' = listed \cup {work.node}
  /\ work' = [work EXCEPT !.step = "updated"]
  /\ UNCHANGED <<index, lines, targets, summary>>

TruncateSummary ==
  /\ At("updated")
  /\ summary' = [n \in Node |-> Torn]
  /\ work' = [work EXCEPT !.step = "emptied"]
  /\ UNCHANGED <<index, lines, targets, manifest, listed>>

\* Mutant of WriteSummary: the row of the open transaction is not counted.
WriteSummaryCommitted ==
  /\ At("emptied")
  /\ summary' = index
  /\ work' = [work EXCEPT !.step = "written"]
  /\ UNCHANGED <<index, lines, targets, manifest, listed>>

WriteSummary ==
  /\ At("emptied")
  /\ summary' = Seen
  /\ work' = [work EXCEPT !.step = "written"]
  /\ UNCHANGED <<index, lines, targets, manifest, listed>>

Commit ==
  /\ At("written")
  /\ index' = Seen
  /\ work' = Idle
  /\ UNCHANGED <<lines, targets, manifest, listed, summary>>

\* Mutant of Crash: every statement commits by itself.
CrashCommits ==
  /\ ~ At("idle")
  /\ index' = Seen
  /\ work' = Idle
  /\ UNCHANGED <<lines, targets, manifest, listed, summary>>

\* The collector is killed and started again.
Crash ==
  /\ ~ At("idle")
  /\ work' = Idle
  /\ UNCHANGED <<index, lines, targets, manifest, listed, summary>>

Next ==
  \/ \E n \in Node, s \in Sequence : Insert(n, s)
  \/ WriteLine
  \/ WriteTarget
  \/ Raise
  \/ TruncateManifest
  \/ WriteManifest
  \/ TruncateSummary
  \/ WriteSummary
  \/ Commit
  \/ Crash

Spec == Init /\ [][Next]_vars

-----------------------------------------------------------------------------
TypeOK ==
  /\ index \in [Node -> SUBSET Sequence]
  /\ lines \in [Node -> [Sequence -> 0 .. MaxLines]]
  /\ targets \in [Node -> [Sequence -> 0 .. MaxLines]]
  /\ manifest \in Mode \cup {Torn}
  /\ listed \subseteq Node
  /\ summary \in [Node -> (SUBSET Sequence) \cup {Torn}]
  /\ work \in Work \cup {Idle}

(***************************************************************************)
(* The files hold whatever the index claims, and events.jsonl and          *)
(* metrics.csv hold nothing telemetry.jsonl lacks: an acknowledged event   *)
(* is readable in every file it belongs to, whatever was cut short.        *)
(* (ingest writes the files before its transaction commits)                *)
(***************************************************************************)
IndexedIsWritten ==
  \A n \in Node, s \in Sequence :
    /\ targets[n][s] <= lines[n][s]
    /\ s \in index[n] => lines[n][s] > 0 /\ (HasTarget(n, s) => targets[n][s] > 0)

(***************************************************************************)
(* A summary.json that can be read counts every committed row, and at most *)
(* one row of one node beyond them, whose line is in telemetry.jsonl.      *)
(* (_update_summary runs inside the transaction, before its commit)        *)
(***************************************************************************)
SummaryCoversIndex ==
  (\A n \in Node : summary[n] # Torn) =>
    LET extra == {e \in Node \X Sequence : e[2] \in summary[e[1]] \ index[e[1]]}
    IN  /\ \A n \in Node : index[n] \subseteq summary[n]
        /\ Cardinality(extra) <= 1
        /\ \A e \in extra : lines[e[1]][e[2]] > 0

\* The modes that the committed NODE_METADATA events of a run report.
CommittedModes ==
  (UNION {{Reported[n][s] : s \in index[n]} : n \in Node}) \ {NoMode, Unknown}

(***************************************************************************)
(* The nodes of a run that were indexed agree on the mode, and a manifest  *)
(* that can be read names that mode and every one of those nodes.          *)
(* (_update_manifest's check, made before the row is committed)            *)
(***************************************************************************)
ManifestCoversIndex ==
  /\ Cardinality(CommittedModes) <= 1
  /\ manifest # Torn =>
       /\ CommittedModes \subseteq {manifest}
       /\ \A n \in Node : index[n] # {} => n \in listed

(***************************************************************************)
(* A manifest that was cut short is never written again and lets no new    *)
(* event of the run in: only the ingestion that is rewriting it heals it.  *)
(* (_update_manifest parses the file before every insertion is committed)  *)
(***************************************************************************)
TornManifestStopsRun ==
  [][manifest = Torn /\ ~ At("truncated") =>
       manifest' = Torn /\ index' = index]_vars

(***************************************************************************)
(* Write by write, ingest is the one step that TelemetryDelivery takes it  *)
(* for.  While an insertion is between the manifest and its commit, the    *)
(* manifest still counts as what it was: a crash then leaves it changed.   *)
(***************************************************************************)
Uncommitted ==
  /\ work.step \in {"truncated", "updated", "emptied", "written"}
  /\ work.seq \notin index[work.node]

Atomic == INSTANCE AtomicIngest WITH
  received <- index,
  manifest <- IF Uncommitted THEN work.mode ELSE manifest

IngestIsAtomic == Atomic!Spec

(***************************************************************************)
(* "The Collector deduplicates by run_id + node_id + sequence_number and   *)
(* saves data in runs/<run_id>/<node_id>/": no event has two lines there.  *)
(* The index deduplicates, but a rolled back row leaves its lines behind.  *)
(***************************************************************************)
SavedOnce == \A n \in Node, s \in Sequence : lines[n][s] <= 1
=============================================================================

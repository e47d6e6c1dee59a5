------------------------ MODULE TelemetryStorageProofs ------------------------
(***************************************************************************)
(* Theorems about TelemetryStorage for any nodes, sequence numbers and     *)
(* modes: what ingest may leave behind, cut between any two writes.        *)
(***************************************************************************)
EXTENDS TelemetryStorage, FiniteSetTheorems, TLAPS

-----------------------------------------------------------------------------
(***************************************************************************)
(* The inductive invariant: what the ingestion that holds the lock has     *)
(* done to the files and the manifest, by the step it is at.               *)
(***************************************************************************)

\* Steps at which an event that was inserted is certainly not in the index.
Unindexed == {"inserted", "lined", "targeted", "truncated"}

\* Steps at which the manifest has been seen to.
Late == {"updated", "emptied", "written"}

\* The files of event s of n are there.
Written(n, s) == lines[n][s] > 0 /\ (HasTarget(n, s) => targets[n][s] > 0)

FilesOK ==
  /\ \A n \in Node, s \in Sequence :
       /\ targets[n][s] <= lines[n][s]
       /\ s \in index[n] => Written(n, s)
  /\ work.step \in Unindexed => work.seq \notin index[work.node]
  /\ At("inserted") => lines[work.node][work.seq] < MaxLines
  /\ At("lined") => targets[work.node][work.seq] < lines[work.node][work.seq]
  /\ work.step \in {"targeted", "truncated"} \cup Late => Written(work.node, work.seq)

\* Event s of n is counted by summary.json and not in the index.
Extra(n, s) == s \in summary[n] \ index[n]

Readable == \A n \in Node : summary[n] # Torn

SummaryOK ==
  /\ Readable =>
       /\ \A n \in Node : index[n] \subseteq summary[n]
       /\ \A n, m \in Node : \A s, r \in Sequence :
            Extra(n, s) /\ Extra(m, r) => n = m /\ s = r
       /\ \A n \in Node, s \in Sequence : Extra(n, s) => lines[n][s] > 0
  /\ At("written") => summary = Seen

\* A mode that tells anything, reported by an event of the index.
Committed(mode) ==
  /\ mode \notin {NoMode, Unknown}
  /\ \E n \in Node : \E s \in index[n] : mode = Reported[n][s]

\* _update_manifest accepts the event at work in a manifest of this mode.
Accepts(mode) ==
  ~ ManifestRejects(mode, IsMetadata(work.node, work.seq),
                    Reported[work.node][work.seq])

Updated(mode) ==
  ManifestAfter(mode, IsMetadata(work.node, work.seq),
                Reported[work.node][work.seq])

ManifestOK ==
  /\ \A a, b \in Mode : Committed(a) /\ Committed(b) => a = b
  /\ manifest # Torn => \A a \in Mode : Committed(a) => a = manifest
  /\ \A n \in Node : index[n] # {} => n \in listed
  /\ At("truncated") =>
       /\ manifest = Torn
       /\ Accepts(work.mode)
       /\ \A a \in Mode : Committed(a) => a = work.mode
  /\ work.step \in Late =>
       /\ work.node \in listed
       /\ work.seq \notin index[work.node] =>
            manifest = Updated(work.mode) /\ Accepts(work.mode)

IInv == TypeOK /\ FilesOK /\ SummaryOK /\ ManifestOK

-----------------------------------------------------------------------------
\* While the lock is held, `work` is an event of a node of the run.
LEMMA Holder ==
  ASSUME TypeOK, ~ At("idle")
  PROVE  /\ work \in Work
         /\ work.node \in Node /\ work.seq \in Sequence
         /\ work.step \in Steps /\ work.mode \in Mode
BY DEF TypeOK, Work, Idle, At

\* Going on to another step changes nothing else about the ingestion.
LEMMA NextStep ==
  ASSUME work \in Work, NEW step \in Steps, work' = [work EXCEPT !.step = step]
  PROVE  /\ work' \in Work
         /\ work'.node = work.node /\ work'.seq = work.seq
         /\ work'.mode = work.mode /\ work'.step = step
BY DEF Work

\* The mode that ManifestAfter writes is one, unless the manifest was torn.
LEMMA UpdatedMode ==
  ASSUME TypeOK, ~ At("idle")
  PROVE  Updated(work.mode) \in Mode /\ Updated(work.mode) # Torn
<1>1. work.node \in Node /\ work.seq \in Sequence /\ work.mode \in Mode
  BY Holder
<1>2. Reported[work.node][work.seq] \in Mode \cup {NoMode}
  BY <1>1, StorageConstantsOK
<1>. QED
  BY <1>1, <1>2, StorageConstantsOK DEF Updated, ManifestAfter, IsMetadata

LEMMA InitInvariant == Init => IInv
<1>. SUFFICES ASSUME Init PROVE IInv
  OBVIOUS
<1>. USE DEF Init
<1>1. work = Idle /\ At("idle") /\ work.step = "idle"
  BY DEF Idle, At
<1>2. TypeOK
  BY StorageConstantsOK DEF TypeOK
<1>3. FilesOK
  BY <1>1 DEF FilesOK, Unindexed, Late, At
<1>4. SummaryOK
  BY <1>1 DEF SummaryOK, Extra, At
<1>5. ManifestOK
  BY <1>1 DEF ManifestOK, Committed, Late, At
<1>. QED  BY <1>2, <1>3, <1>4, <1>5 DEF IInv

-----------------------------------------------------------------------------
(***************************************************************************)
(* Each part of the invariant is kept by every step.                       *)
(***************************************************************************)

LEMMA TypeStep == IInv /\ [Next]_vars => TypeOK'
<1>. SUFFICES ASSUME IInv, [Next]_vars PROVE TypeOK'
  OBVIOUS
<1>0. TypeOK /\ FilesOK
  BY DEF IInv
<1>. USE DEF TypeOK
<1>1. ASSUME NEW n \in Node, NEW s \in Sequence, Insert(n, s)
      PROVE  TypeOK'
  BY <1>0, <1>1, StorageConstantsOK DEF Insert, Work, Steps
<1>2. CASE WriteLine
  <2>1. work \in Work /\ work.node \in Node /\ work.seq \in Sequence
    BY <1>0, <1>2, Holder DEF WriteLine, At
  <2>2. work' \in Work
    BY <1>2, <2>1, NextStep DEF WriteLine, Steps
  <2>3. lines[work.node][work.seq] \in 0 .. MaxLines
    BY <1>0, <2>1
  <2>4. lines[work.node][work.seq] + 1 \in 0 .. MaxLines
    BY <1>0, <1>2, <2>3, StorageConstantsOK DEF WriteLine, FilesOK
  <2>5. lines' = [lines EXCEPT ![work.node] =
                    [lines[work.node] EXCEPT ![work.seq] = lines[work.node][work.seq] + 1]]
    BY <1>2 DEF WriteLine
  <2>6. [lines[work.node] EXCEPT ![work.seq] = lines[work.node][work.seq] + 1]
          \in [Sequence -> 0 .. MaxLines]
    BY <1>0, <2>1, <2>4
  <2>7. lines' \in [Node -> [Sequence -> 0 .. MaxLines]]
    BY <1>0, <2>5, <2>6
  <2>. QED  BY <1>0, <1>2, <2>2, <2>7 DEF WriteLine
<1>3. CASE WriteTarget
  <2>1. work \in Work /\ work.node \in Node /\ work.seq \in Sequence
    BY <1>0, <1>3, Holder DEF WriteTarget, At
  <2>2. work' \in Work
    BY <1>3, <2>1, NextStep DEF WriteTarget, Steps
  <2>3. /\ lines[work.node][work.seq] \in 0 .. MaxLines
        /\ targets[work.node][work.seq] \in 0 .. MaxLines
    BY <1>0, <2>1
  <2>4. targets[work.node][work.seq] + 1 \in 0 .. MaxLines
    BY <1>0, <1>3, <2>3, StorageConstantsOK DEF WriteTarget, FilesOK
  <2>5. [targets[work.node] EXCEPT ![work.seq] = targets[work.node][work.seq] + 1]
          \in [Sequence -> 0 .. MaxLines]
    BY <1>0, <2>1, <2>4
  <2>6. targets' \in [Node -> [Sequence -> 0 .. MaxLines]]
    BY <1>0, <1>3, <2>5 DEF WriteTarget
  <2>. QED  BY <1>0, <1>3, <2>2, <2>6 DEF WriteTarget
<1>4. CASE Raise
  BY <1>0, <1>4 DEF Raise
<1>5. CASE TruncateManifest
  <2>1. work \in Work /\ manifest \in Mode
    BY <1>0, <1>5, Holder DEF TruncateManifest, At, Rejected, ManifestRejects
  <2>2. work' \in Work
    BY <1>5, <2>1 DEF TruncateManifest, Work, Steps
  <2>. QED  BY <1>0, <1>5, <2>2 DEF TruncateManifest
<1>6. CASE WriteManifest
  <2>1. work \in Work /\ work.node \in Node
    BY <1>0, <1>6, Holder DEF WriteManifest, At
  <2>2. work' \in Work
    BY <1>6, <2>1, NextStep DEF WriteManifest, Steps
  <2>3. manifest' \in Mode
    BY <1>0, <1>6, UpdatedMode DEF WriteManifest, At, Updated
  <2>. QED  BY <1>0, <1>6, <2>1, <2>2, <2>3 DEF WriteManifest
<1>7. CASE TruncateSummary
  <2>1. work' \in Work
    BY <1>0, <1>7, Holder, NextStep DEF TruncateSummary, At, Steps
  <2>. QED  BY <1>0, <1>7, <2>1 DEF TruncateSummary
<1>8. CASE WriteSummary
  <2>1. work \in Work /\ work.seq \in Sequence
    BY <1>0, <1>8, Holder DEF WriteSummary, At
  <2>2. work' \in Work
    BY <1>8, <2>1, NextStep DEF WriteSummary, Steps
  <2>3. Seen \in [Node -> SUBSET Sequence]
    BY <1>0, <2>1 DEF Seen
  <2>. QED  BY <1>0, <1>8, <2>2, <2>3 DEF WriteSummary
<1>9. CASE Commit
  <2>1. work.seq \in Sequence
    BY <1>0, <1>9, Holder DEF Commit, At
  <2>2. Seen \in [Node -> SUBSET Sequence]
    BY <1>0, <2>1 DEF Seen
  <2>. QED  BY <1>0, <1>9, <2>2 DEF Commit
<1>10. CASE Crash
  BY <1>0, <1>10 DEF Crash
<1>11. CASE UNCHANGED vars
  BY <1>0, <1>11 DEF vars
<1>. QED
  BY <1>1, <1>2, <1>3, <1>4, <1>5, <1>6, <1>7, <1>8, <1>9, <1>10, <1>11 DEF Next

\* One more line of event s of n, and no other line.
LEMMA OneMore ==
  ASSUME NEW f \in [Node -> [Sequence -> 0 .. MaxLines]],
         NEW n \in Node, NEW s \in Sequence
  PROVE  LET g == [f EXCEPT ![n][s] = @ + 1]
         IN  /\ g[n][s] = f[n][s] + 1
             /\ \A m \in Node, r \in Sequence : <<m, r>> # <<n, s>> => g[m][r] = f[m][r]
<1>. DEFINE g == [f EXCEPT ![n][s] = @ + 1]
            h == [f[n] EXCEPT ![s] = f[n][s] + 1]
<1>1. g = [f EXCEPT ![n] = h]
  OBVIOUS
<1>2. f[n] \in [Sequence -> 0 .. MaxLines]
  OBVIOUS
<1>3. h[s] = f[n][s] + 1 /\ \A r \in Sequence : r # s => h[r] = f[n][r]
  BY <1>2
<1>. HIDE DEF h
<1>4. g[n] = h /\ \A m \in Node : m # n => g[m] = f[m]
  BY <1>1
<1>. QED  BY <1>3, <1>4

LEMMA FilesStep == IInv /\ [Next]_vars => FilesOK'
<1>. SUFFICES ASSUME IInv, [Next]_vars PROVE FilesOK'
  OBVIOUS
<1>0. TypeOK /\ FilesOK
  BY DEF IInv
<1>. USE DEF FilesOK, Unindexed, Late, At, Written
<1>1. ASSUME NEW n \in Node, NEW s \in Sequence, Insert(n, s)
      PROVE  FilesOK'
  <2>1. work' = [node |-> n, seq |-> s, mode |-> Unknown,
                 step |-> IF s \in index[n] THEN "updated" ELSE "inserted"]
    BY <1>1 DEF Insert
  <2>2. /\ work'.node = n /\ work'.seq = s
        /\ work'.step = IF s \in index[n] THEN "updated" ELSE "inserted"
    BY <2>1
  <2>. QED  BY <1>0, <1>1, <2>2 DEF Insert
<1>2. CASE WriteLine
  <2>. DEFINE n == work.node  s == work.seq
  <2>1. /\ work \in Work /\ n \in Node /\ s \in Sequence
        /\ work'.node = n /\ work'.seq = s /\ work'.step = "lined"
    BY <1>0, <1>2, Holder, NextStep DEF WriteLine, Steps
  <2>2. lines' = [lines EXCEPT ![n][s] = @ + 1]
    BY <1>2 DEF WriteLine
  <2>3. /\ lines'[n][s] = lines[n][s] + 1
        /\ \A m \in Node, r \in Sequence : <<m, r>> # <<n, s>> => lines'[m][r] = lines[m][r]
    BY <1>0, <2>1, <2>2, OneMore DEF TypeOK
  <2>4. targets' = targets /\ index' = index /\ work.step = "inserted"
    BY <1>2 DEF WriteLine
  <2>. HIDE DEF n, s
  <2>5. \A m \in Node, r \in Sequence :
          /\ lines[m][r] \in Nat /\ targets[m][r] \in Nat
          /\ lines'[m][r] \in Nat /\ lines[m][r] <= lines'[m][r]
    BY <1>0, <2>1, <2>3, StorageConstantsOK DEF TypeOK
  <2>6. targets[n][s] <= lines[n][s] /\ s \notin index[n]
    BY <1>0, <2>1, <2>4 DEF n, s
  <2>7. targets'[n][s] < lines'[n][s]
    BY <2>1, <2>3, <2>4, <2>5, <2>6
  <2>8. \A m \in Node, r \in Sequence :
          /\ targets'[m][r] <= lines'[m][r]
          /\ r \in index'[m] => Written(m, r)'
    BY <1>0, <2>4, <2>5 DEF HasTarget, IsMetadata
  <2>. QED  BY <2>1, <2>4, <2>6, <2>7, <2>8
<1>3. CASE WriteTarget
  <2>. DEFINE n == work.node  s == work.seq
  <2>1. /\ work \in Work /\ n \in Node /\ s \in Sequence
        /\ work'.node = n /\ work'.seq = s /\ work'.step = "targeted"
    BY <1>0, <1>3, Holder, NextStep DEF WriteTarget, Steps
  <2>2. lines' = lines /\ index' = index /\ work.step = "lined"
    BY <1>3 DEF WriteTarget
  <2>3. \A m \in Node, r \in Sequence :
          lines[m][r] \in Nat /\ targets[m][r] \in Nat
    BY <1>0, StorageConstantsOK DEF TypeOK
  <2>4. /\ HasTarget(n, s) => targets'[n][s] = targets[n][s] + 1
        /\ ~ HasTarget(n, s) => targets'[n][s] = targets[n][s]
        /\ \A m \in Node, r \in Sequence : <<m, r>> # <<n, s>> => targets'[m][r] = targets[m][r]
    <3>1. CASE HasTarget(n, s)
      <4>1. targets' = [targets EXCEPT ![n][s] = @ + 1]
        BY <1>3, <3>1 DEF WriteTarget
      <4>. QED  BY <1>0, <2>1, <3>1, <4>1, OneMore DEF TypeOK
    <3>2. CASE ~ HasTarget(n, s)
      BY <1>3, <3>2 DEF WriteTarget
    <3>. QED  BY <3>1, <3>2
  <2>. HIDE DEF n, s
  <2>5. targets[n][s] < lines[n][s] /\ s \notin index[n]
    BY <1>0, <2>1, <2>2 DEF n, s
  <2>6. \A m \in Node, r \in Sequence :
          targets[m][r] <= targets'[m][r] /\ targets'[m][r] <= lines'[m][r]
    BY <1>0, <2>1, <2>2, <2>3, <2>4, <2>5
  <2>7. lines'[n][s] > 0 /\ (HasTarget(n, s) => targets'[n][s] > 0)
    BY <2>1, <2>2, <2>3, <2>4, <2>5
  <2>8. \A m \in Node, r \in Sequence : r \in index'[m] => Written(m, r)'
    BY <1>0, <2>1, <2>2, <2>3, <2>4, <2>6 DEF HasTarget, IsMetadata
  <2>. QED
    BY <2>1, <2>2, <2>5, <2>6, <2>7, <2>8 DEF n, s, HasTarget, IsMetadata
<1>4. CASE Raise
  BY <1>0, <1>4 DEF Raise, Idle, HasTarget, IsMetadata
<1>5. CASE TruncateManifest
  <2>1. /\ work'.node = work.node /\ work'.seq = work.seq /\ work'.step = "truncated"
    BY <1>0, <1>5, Holder DEF TruncateManifest, Work
  <2>. QED  BY <1>0, <1>5, <2>1 DEF TruncateManifest, HasTarget, IsMetadata
<1>6. CASE WriteManifest
  <2>1. /\ work'.node = work.node /\ work'.seq = work.seq /\ work'.step = "updated"
    BY <1>0, <1>6, Holder, NextStep DEF WriteManifest, Steps
  <2>. QED  BY <1>0, <1>6, <2>1 DEF WriteManifest, HasTarget, IsMetadata
<1>7. CASE TruncateSummary
  <2>1. /\ work'.node = work.node /\ work'.seq = work.seq /\ work'.step = "emptied"
    BY <1>0, <1>7, Holder, NextStep DEF TruncateSummary, Steps
  <2>. QED  BY <1>0, <1>7, <2>1 DEF TruncateSummary, HasTarget, IsMetadata
<1>8. CASE WriteSummary
  <2>1. /\ work'.node = work.node /\ work'.seq = work.seq /\ work'.step = "written"
    BY <1>0, <1>8, Holder, NextStep DEF WriteSummary, Steps
  <2>. QED  BY <1>0, <1>8, <2>1 DEF WriteSummary, HasTarget, IsMetadata
<1>9. CASE Commit
  <2>1. work'.step = "idle" /\ work.step = "written"
    BY <1>9 DEF Commit, Idle
  <2>2. \A m \in Node, r \in Sequence :
          r \in index'[m] => r \in index[m] \/ (m = work.node /\ r = work.seq)
    BY <1>9 DEF Commit, Seen
  <2>3. \A m \in Node, r \in Sequence :
          /\ targets'[m][r] <= lines'[m][r]
          /\ r \in index'[m] => Written(m, r)'
    BY <1>0, <1>9, <2>1, <2>2 DEF Commit, HasTarget, IsMetadata
  <2>. QED  BY <2>1, <2>3
<1>10. CASE Crash
  BY <1>0, <1>10 DEF Crash, Idle, HasTarget, IsMetadata
<1>11. CASE UNCHANGED vars
  BY <1>0, <1>11 DEF vars, HasTarget, IsMetadata
<1>. QED
  BY <1>1, <1>2, <1>3, <1>4, <1>5, <1>6, <1>7, <1>8, <1>9, <1>10, <1>11 DEF Next

LEMMA SummaryStep == IInv /\ [Next]_vars => SummaryOK'
<1>. SUFFICES ASSUME IInv, [Next]_vars PROVE SummaryOK'
  OBVIOUS
<1>0. TypeOK /\ FilesOK /\ SummaryOK
  BY DEF IInv
<1>. USE DEF SummaryOK, Readable, Extra, At
<1>1. ASSUME NEW n \in Node, NEW s \in Sequence, Insert(n, s)
      PROVE  SummaryOK'
  <2>1. work'.step # "written"
    BY <1>1 DEF Insert
  <2>. QED  BY <1>0, <1>1, <2>1 DEF Insert
<1>2. CASE WriteLine
  <2>1. /\ work.node \in Node /\ work.seq \in Sequence /\ work'.step = "lined"
    BY <1>0, <1>2, Holder, NextStep DEF WriteLine, Steps
  <2>2. lines' = [lines EXCEPT ![work.node][work.seq] = @ + 1]
    BY <1>2 DEF WriteLine
  <2>3. \A m \in Node, r \in Sequence :
          lines[m][r] \in Nat /\ lines'[m][r] \in Nat /\ lines[m][r] <= lines'[m][r]
    BY <1>0, <2>1, <2>2, OneMore, StorageConstantsOK DEF TypeOK
  <2>. QED  BY <1>0, <1>2, <2>1, <2>3 DEF WriteLine
<1>3. CASE WriteTarget
  <2>1. work'.step = "targeted"
    BY <1>0, <1>3, Holder, NextStep DEF WriteTarget, Steps
  <2>. QED  BY <1>0, <1>3, <2>1 DEF WriteTarget
<1>4. CASE Raise
  BY <1>0, <1>4 DEF Raise, Idle
<1>5. CASE TruncateManifest
  <2>1. work'.step = "truncated"
    BY <1>0, <1>5, Holder DEF TruncateManifest, Work
  <2>. QED  BY <1>0, <1>5, <2>1 DEF TruncateManifest
<1>6. CASE WriteManifest
  <2>1. work'.step = "updated"
    BY <1>0, <1>6, Holder, NextStep DEF WriteManifest, Steps
  <2>. QED  BY <1>0, <1>6, <2>1 DEF WriteManifest
<1>7. CASE TruncateSummary
  <2>1. work'.step = "emptied"
    BY <1>0, <1>7, Holder, NextStep DEF TruncateSummary, Steps
  <2>2. \A n \in Node : summary'[n] = Torn
    BY <1>7 DEF TruncateSummary
  <2>. QED  BY <2>1, <2>2
<1>8. CASE WriteSummary
  <2>1. /\ work.node \in Node /\ work.seq \in Sequence
        /\ work'.node = work.node /\ work'.seq = work.seq /\ work'.step = "written"
    BY <1>0, <1>8, Holder, NextStep DEF WriteSummary, Steps
  <2>2. lines[work.node][work.seq] > 0
    BY <1>0, <1>8 DEF WriteSummary, FilesOK, Late, Written
  <2>3. /\ index' = index /\ lines' = lines
        /\ summary' = [n \in Node |-> IF n = work.node THEN index[n] \cup {work.seq}
                                      ELSE index[n]]
    BY <1>8 DEF WriteSummary, Seen
  <2>4. summary' = Seen'
    BY <1>8, <2>1, <2>3 DEF Seen
  <2>5. \A n \in Node, s \in Sequence :
          Extra(n, s)' => n = work.node /\ s = work.seq
    BY <2>3
  <2>. QED  BY <2>2, <2>3, <2>4, <2>5
<1>9. CASE Commit
  <2>1. work'.step = "idle" /\ index' = summary' /\ lines' = lines
    BY <1>0, <1>9 DEF Commit, Idle
  <2>. QED  BY <2>1
<1>10. CASE Crash
  BY <1>0, <1>10 DEF Crash, Idle
<1>11. CASE UNCHANGED vars
  BY <1>0, <1>11 DEF vars, Seen
<1>. QED
  BY <1>1, <1>2, <1>3, <1>4, <1>5, <1>6, <1>7, <1>8, <1>9, <1>10, <1>11 DEF Next

\* What was committed is what an accepted manifest becomes.
LEMMA CommittedIsUpdated ==
  ASSUME NEW mode \in Mode, Accepts(mode), NEW a \in Mode, Committed(a), a = mode
  PROVE  a = Updated(mode)
BY DEF Accepts, Updated, Committed, ManifestRejects, ManifestAfter

LEMMA ManifestStep == IInv /\ [Next]_vars => ManifestOK'
<1>. SUFFICES ASSUME IInv, [Next]_vars PROVE ManifestOK'
  OBVIOUS
<1>0. TypeOK /\ FilesOK /\ ManifestOK
  BY DEF IInv
<1>. USE DEF ManifestOK, Late, At
<1>1. ASSUME NEW n \in Node, NEW s \in Sequence, Insert(n, s)
      PROVE  ManifestOK'
  <2>1. /\ work'.node = n /\ work'.seq = s
        /\ work'.step = IF s \in index[n] THEN "updated" ELSE "inserted"
    BY <1>1 DEF Insert
  <2>2. UNCHANGED <<index, manifest, listed>>
    BY <1>1 DEF Insert
  <2>. QED  BY <1>0, <2>1, <2>2 DEF Committed
<1>2. CASE WriteLine
  <2>1. work'.step = "lined"
    BY <1>0, <1>2, Holder, NextStep DEF WriteLine, Steps
  <2>. QED  BY <1>0, <1>2, <2>1 DEF WriteLine, Committed
<1>3. CASE WriteTarget
  <2>1. work'.step = "targeted"
    BY <1>0, <1>3, Holder, NextStep DEF WriteTarget, Steps
  <2>. QED  BY <1>0, <1>3, <2>1 DEF WriteTarget, Committed
<1>4. CASE Raise
  BY <1>0, <1>4 DEF Raise, Idle, Committed
<1>5. CASE TruncateManifest
  <2>1. /\ work'.node = work.node /\ work'.seq = work.seq
        /\ work'.mode = manifest /\ work'.step = "truncated"
    BY <1>0, <1>5, Holder DEF TruncateManifest, Work
  <2>2. manifest # Torn /\ Accepts(work.mode)'
    BY <1>5, <2>1
       DEF TruncateManifest, Rejected, Accepts, ManifestRejects, IsMetadata
  <2>3. UNCHANGED <<index, listed>> /\ manifest' = Torn
    BY <1>5 DEF TruncateManifest
  <2>. QED  BY <1>0, <2>1, <2>2, <2>3 DEF Committed
<1>6. CASE WriteManifest
  <2>1. /\ work.node \in Node /\ work.mode \in Mode
        /\ work'.node = work.node /\ work'.seq = work.seq
        /\ work'.mode = work.mode /\ work'.step = "updated"
    BY <1>0, <1>6, Holder, NextStep DEF WriteManifest, Steps
  <2>2. index' = index /\ listed' = listed \cup {work.node}
    BY <1>6 DEF WriteManifest
  <2>3. manifest' = Updated(work.mode) /\ Accepts(work.mode)
    BY <1>0, <1>6 DEF WriteManifest, Updated
  <2>4. (manifest = Updated(work.mode) /\ Accepts(work.mode))'
    BY <2>1, <2>3 DEF Updated, Accepts, IsMetadata
  <2>5. \A a \in Mode : Committed(a)' => Committed(a)
    BY <2>2 DEF Committed
  <2>6. \A a \in Mode : Committed(a)' => a = manifest'
    BY <1>0, <1>6, <2>1, <2>3, <2>5, CommittedIsUpdated DEF WriteManifest
  <2>. QED  BY <1>0, <2>1, <2>2, <2>4, <2>5, <2>6
<1>7. CASE TruncateSummary
  <2>1. /\ work'.node = work.node /\ work'.seq = work.seq
        /\ work'.mode = work.mode /\ work'.step = "emptied"
    BY <1>0, <1>7, Holder, NextStep DEF TruncateSummary, Steps
  <2>. QED
    BY <1>0, <1>7, <2>1 DEF TruncateSummary, Committed, Updated, Accepts, IsMetadata
<1>8. CASE WriteSummary
  <2>1. /\ work'.node = work.node /\ work'.seq = work.seq
        /\ work'.mode = work.mode /\ work'.step = "written"
    BY <1>0, <1>8, Holder, NextStep DEF WriteSummary, Steps
  <2>. QED
    BY <1>0, <1>8, <2>1 DEF WriteSummary, Committed, Updated, Accepts, IsMetadata
<1>9. CASE Commit
  <2>. DEFINE n == work.node  s == work.seq
  <2>1. n \in Node /\ s \in Sequence /\ work.mode \in Mode /\ n \in listed
    BY <1>0, <1>9, Holder DEF Commit
  <2>2. /\ work'.step = "idle" /\ UNCHANGED <<manifest, listed>>
        /\ index' = [m \in Node |-> IF m = n THEN index[m] \cup {s} ELSE index[m]]
    BY <1>9 DEF Commit, Idle, Seen
  <2>3. ASSUME NEW a \in Mode, Committed(a)', s \notin index[n]
        PROVE  a = manifest
    <3>1. manifest = Updated(work.mode) /\ manifest # Torn
      BY <1>0, <1>9, <2>3, UpdatedMode DEF Commit
    <3>2. Committed(a) \/ (a = Reported[n][s] /\ a \notin {NoMode, Unknown})
      BY <2>2, <2>3 DEF Committed
    <3>3. CASE Committed(a)
      BY <1>0, <3>1, <3>3
    <3>4. CASE a = Reported[n][s] /\ a \notin {NoMode, Unknown}
      BY <3>1, <3>4 DEF Updated, ManifestAfter, IsMetadata
    <3>. QED  BY <3>2, <3>3, <3>4
  <2>4. ASSUME NEW a \in Mode, s \in index[n]
        PROVE  Committed(a)' => Committed(a)
    BY <2>2, <2>4 DEF Committed
  <2>5. \A m \in Node : index'[m] # {} => m \in listed'
    BY <1>0, <2>1, <2>2
  <2>6. CASE s \in index[n]
    BY <1>0, <2>2, <2>4, <2>5, <2>6
  <2>7. CASE s \notin index[n]
    BY <2>2, <2>3, <2>5, <2>7
  <2>. QED  BY <2>6, <2>7
<1>10. CASE Crash
  BY <1>0, <1>10 DEF Crash, Idle, Committed
<1>11. CASE UNCHANGED vars
  BY <1>0, <1>11 DEF vars, Committed, Updated, Accepts, IsMetadata
<1>. QED
  BY <1>1, <1>2, <1>3, <1>4, <1>5, <1>6, <1>7, <1>8, <1>9, <1>10, <1>11 DEF Next

LEMMA NextInvariant == IInv /\ [Next]_vars => IInv'
BY TypeStep, FilesStep, SummaryStep, ManifestStep DEF IInv

(***************************************************************************)
(* However ingestions are cut, the files, summary.json, manifest.json and  *)
(* the index stand to each other as IInv says.                             *)
(* (TelemetryStorage.ingest, one at a time under its lock)                 *)
(***************************************************************************)
THEOREM StorageInvariant == Spec => []IInv
BY InitInvariant, NextInvariant, PTL DEF Spec

(***************************************************************************)
(* Type correctness: among the rest, no event is written more than         *)
(* MaxLines times to either of its files.                                  *)
(***************************************************************************)
THEOREM StorageTypes == Spec => []TypeOK
<1>1. IInv => TypeOK
  BY DEF IInv
<1>. QED  BY <1>1, StorageInvariant, PTL

(***************************************************************************)
(* Whatever is in the index is in every file it belongs to.                *)
(* (ingest appends to the files before its transaction commits)            *)
(***************************************************************************)
THEOREM IndexNeverAhead == Spec => []IndexedIsWritten
<1>1. IInv => IndexedIsWritten
  BY DEF IInv, FilesOK, Written, IndexedIsWritten
<1>. QED  BY <1>1, StorageInvariant, PTL

-----------------------------------------------------------------------------
\* A set without two different elements has at most one.
LEMMA AtMostOne ==
  ASSUME NEW S, \A x, y \in S : x = y
  PROVE  Cardinality(S) <= 1
<1>1. CASE S = {}
  BY <1>1, FS_EmptySet
<1>2. CASE S # {}
  <2>1. PICK x \in S : TRUE
    BY <1>2
  <2>2. S = {x}
    BY <2>1
  <2>. QED  BY <2>2, FS_Singleton
<1>. QED  BY <1>1, <1>2

(***************************************************************************)
(* A summary.json that can be read counts the index and at most one event  *)
(* that was rolled back, whose line is there.                              *)
(* (_update_summary, inside the transaction)                               *)
(***************************************************************************)
THEOREM SummaryNeverBehind == Spec => []SummaryCoversIndex
<1>1. IInv => SummaryCoversIndex
  <2>. SUFFICES ASSUME IInv, Readable PROVE
         LET extra == {e \in Node \X Sequence : e[2] \in summary[e[1]] \ index[e[1]]}
         IN  /\ \A n \in Node : index[n] \subseteq summary[n]
             /\ Cardinality(extra) <= 1
             /\ \A e \in extra : lines[e[1]][e[2]] > 0
    BY DEF SummaryCoversIndex, Readable
  <2>. DEFINE extra == {e \in Node \X Sequence : e[2] \in summary[e[1]] \ index[e[1]]}
  <2>1. \A e \in extra : e[1] \in Node /\ e[2] \in Sequence /\ Extra(e[1], e[2])
    BY DEF Extra
  <2>2. \A e, f \in extra : e = f
    <3>1. ASSUME NEW e \in extra, NEW f \in extra
          PROVE  e[1] = f[1] /\ e[2] = f[2]
      BY <2>1 DEF IInv, SummaryOK
    <3>. QED  BY <3>1
  <2>3. Cardinality(extra) <= 1
    BY <2>2, AtMostOne
  <2>4. \A e \in extra : lines[e[1]][e[2]] > 0
    BY <2>1 DEF IInv, SummaryOK
  <2>. QED  BY <2>3, <2>4 DEF IInv, SummaryOK
<1>. QED  BY <1>1, StorageInvariant, PTL

(***************************************************************************)
(* Nodes that were indexed agree on the mode, and a manifest that can be   *)
(* read names it and lists them.                                           *)
(* (_update_manifest, before the row is committed)                         *)
(***************************************************************************)
THEOREM ManifestNeverBehind == Spec => []ManifestCoversIndex
<1>1. IInv => ManifestCoversIndex
  <2>. SUFFICES ASSUME IInv PROVE ManifestCoversIndex
    OBVIOUS
  <2>1. \A a \in CommittedModes : a \in Mode /\ Committed(a)
    <3>1. ASSUME NEW n \in Node, NEW s \in index[n]
          PROVE  Reported[n][s] \in Mode \cup {NoMode}
      BY StorageConstantsOK DEF IInv, TypeOK
    <3>2. ASSUME NEW a \in CommittedModes
          PROVE  \E n \in Node : \E s \in index[n] : a = Reported[n][s]
      BY Zenon DEF CommittedModes
    <3>3. ASSUME NEW a \in CommittedModes
          PROVE  a # NoMode /\ a # Unknown
      BY Zenon DEF CommittedModes
    <3>. QED  BY <3>1, <3>2, <3>3 DEF Committed
  <2>2. Cardinality(CommittedModes) <= 1
    <3>1. \A a, b \in CommittedModes : a = b
      BY <2>1 DEF IInv, ManifestOK
    <3>. QED  BY <3>1, AtMostOne
  <2>3. ASSUME manifest # Torn
        PROVE  CommittedModes \subseteq {manifest}
    BY <2>1, <2>3 DEF IInv, ManifestOK
  <2>. QED  BY <2>2, <2>3 DEF IInv, ManifestOK, ManifestCoversIndex
<1>. QED  BY <1>1, StorageInvariant, PTL

(***************************************************************************)
(* A torn manifest that nobody is rewriting stays torn, and the index of   *)
(* the run as it is.                                                       *)
(* (_update_manifest's json.loads)                                         *)
(***************************************************************************)
THEOREM TornStopsRun == Spec => TornManifestStopsRun
<1>1. ASSUME IInv, [Next]_vars, manifest = Torn, ~ At("truncated")
      PROVE  manifest' = Torn /\ index' = index
  <2>1. CASE Commit
    <3>1. ~ At("idle") /\ work.step \in Late
      BY <2>1 DEF Commit, At, Late
    <3>2. work.node \in Node /\ Updated(work.mode) # Torn
      BY <1>1, <3>1, Holder, UpdatedMode DEF IInv
    <3>3. work.seq \in index[work.node]
      BY <1>1, <3>1, <3>2 DEF IInv, ManifestOK
    <3>4. index \in [Node -> SUBSET Sequence]
      BY <1>1 DEF IInv, TypeOK
    <3>5. Seen = index
      BY <3>3, <3>4 DEF Seen
    <3>. QED  BY <1>1, <2>1, <3>5 DEF Commit
  <2>2. ~ TruncateManifest /\ ~ WriteManifest
    BY <1>1 DEF TruncateManifest, WriteManifest, Rejected, ManifestRejects
  <2>. QED
    BY <1>1, <2>1, <2>2 DEF Next, vars, Insert, WriteLine, WriteTarget, Raise,
       TruncateSummary, WriteSummary, Crash
<1>2. IInv /\ [Next]_vars =>
        [manifest = Torn /\ ~ At("truncated") => manifest' = Torn /\ index' = index]_vars
  BY <1>1
<1>. QED  BY <1>2, StorageInvariant, PTL DEF Spec, TornManifestStopsRun

-----------------------------------------------------------------------------
(***************************************************************************)
(* The refinement: a commit of a new event is the abstract ingestion, a    *)
(* crash between manifest and commit the abstract cut, every other write   *)
(* a stutter.                                                              *)
(***************************************************************************)
\* The manifest as AtomicIngest sees it.
Settled == IF Uncommitted THEN work.mode ELSE manifest

\* What an insertion past the manifest still has to do is acceptable.
LEMMA UncommittedIsNew ==
  ASSUME IInv, Uncommitted
  PROVE  /\ work.node \in Node /\ work.seq \in Sequence
         /\ Atomic!New(work.node, work.seq)
         /\ manifest \in {Torn, Atomic!Updated(work.node, work.seq)}
         /\ ~ At("truncated") => manifest = Atomic!Updated(work.node, work.seq)
<1>1. ~ At("idle") /\ (At("truncated") \/ work.step \in Late)
  BY DEF Uncommitted, At, Late
<1>2. work.node \in Node /\ work.seq \in Sequence
  BY <1>1, Holder DEF IInv
<1>3. Accepts(work.mode)
  BY <1>1 DEF IInv, ManifestOK, Uncommitted
<1>4. Atomic!New(work.node, work.seq)
  BY <1>3 DEF Atomic!New, Accepts, IsMetadata, Uncommitted, ManifestRejects,
     Atomic!ManifestRejects
<1>5. Updated(work.mode) = Atomic!Updated(work.node, work.seq)
  BY DEF Updated, Atomic!Updated, IsMetadata, Uncommitted, ManifestAfter,
     Atomic!ManifestAfter
<1>6. At("truncated") => manifest = Torn
  BY DEF IInv, ManifestOK
<1>7. ~ At("truncated") => manifest = Updated(work.mode)
  BY <1>1 DEF IInv, ManifestOK, Uncommitted
<1>. QED  BY <1>2, <1>4, <1>5, <1>6, <1>7

LEMMA StepIsAtomic ==
  ASSUME IInv, IInv', [Next]_vars
  PROVE  [Atomic!Next]_(Atomic!vars)
<1>0. TypeOK /\ FilesOK
  BY DEF IInv
<1>. USE DEF Uncommitted, At
<1>s. SUFFICES ASSUME ~ (index' = index /\ Settled' = Settled)
               PROVE  Atomic!Next
  BY DEF Settled, Atomic!vars
<1>1. ASSUME NEW n \in Node, NEW s \in Sequence, Insert(n, s)
      PROVE  Atomic!Next
  <2>1. /\ work'.node = n /\ work'.seq = s
        /\ work'.step = IF s \in index[n] THEN "updated" ELSE "inserted"
    BY <1>1 DEF Insert
  <2>2. ~ Uncommitted /\ ~ Uncommitted'
    BY <1>1, <2>1 DEF Insert
  <2>. QED  BY <1>1, <1>s, <2>2 DEF Insert, Settled
<1>2. CASE WriteLine
  <2>1. work'.step = "lined"
    BY <1>0, <1>2, Holder, NextStep DEF WriteLine, Steps
  <2>. QED  BY <1>2, <1>s, <2>1 DEF WriteLine, Settled
<1>3. CASE WriteTarget
  <2>1. work'.step = "targeted"
    BY <1>0, <1>3, Holder, NextStep DEF WriteTarget, Steps
  <2>. QED  BY <1>3, <1>s, <2>1 DEF WriteTarget, Settled
<1>4. CASE Raise
  BY <1>4, <1>s DEF Raise, Idle, Settled
<1>5. CASE TruncateManifest
  <2>1. work'.mode = manifest
    BY <1>0, <1>5, Holder DEF TruncateManifest, Work
  <2>2. work'.node = work.node /\ work'.seq = work.seq /\ work'.step = "truncated"
    BY <1>0, <1>5, Holder DEF TruncateManifest, Work
  <2>3. Uncommitted' /\ ~ Uncommitted
    BY <1>0, <1>5, <2>2 DEF TruncateManifest, FilesOK, Unindexed
  <2>. QED  BY <1>5, <1>s, <2>1, <2>3 DEF TruncateManifest, Settled
<1>6. CASE WriteManifest
  <2>1. /\ work'.node = work.node /\ work'.seq = work.seq
        /\ work'.mode = work.mode /\ work'.step = "updated"
    BY <1>0, <1>6, Holder, NextStep DEF WriteManifest, Steps
  <2>2. Uncommitted /\ Uncommitted'
    BY <1>0, <1>6, <2>1 DEF WriteManifest, FilesOK, Unindexed
  <2>. QED  BY <1>6, <1>s, <2>1, <2>2 DEF WriteManifest, Settled
<1>7. CASE TruncateSummary
  <2>1. /\ work'.node = work.node /\ work'.seq = work.seq
        /\ work'.mode = work.mode /\ work'.step = "emptied"
    BY <1>0, <1>7, Holder, NextStep DEF TruncateSummary, Steps
  <2>2. Uncommitted' = Uncommitted
    BY <1>7, <2>1 DEF TruncateSummary
  <2>. QED  BY <1>7, <1>s, <2>1, <2>2 DEF TruncateSummary, Settled
<1>8. CASE WriteSummary
  <2>1. /\ work'.node = work.node /\ work'.seq = work.seq
        /\ work'.mode = work.mode /\ work'.step = "written"
    BY <1>0, <1>8, Holder, NextStep DEF WriteSummary, Steps
  <2>2. Uncommitted' = Uncommitted
    BY <1>8, <2>1 DEF WriteSummary
  <2>. QED  BY <1>8, <1>s, <2>1, <2>2 DEF WriteSummary, Settled
<1>9. CASE Commit
  <2>1. work.node \in Node /\ work.seq \in Sequence
    BY <1>0, <1>9, Holder DEF Commit
  <2>2. ~ Uncommitted' /\ manifest' = manifest /\ work.step = "written"
    BY <1>9 DEF Commit, Idle
  <2>3. index' = [index EXCEPT ![work.node] = @ \cup {work.seq}]
    BY <1>0, <1>9, <2>1 DEF Commit, Seen, TypeOK
  <2>4. CASE Uncommitted
    <3>1. Atomic!New(work.node, work.seq) /\ manifest = Atomic!Updated(work.node, work.seq)
      BY <2>2, <2>4, UncommittedIsNew
    <3>2. Settled' = Atomic!Updated(work.node, work.seq)
      BY <2>2, <3>1 DEF Settled
    <3>3. Atomic!Ingest(work.node, work.seq)
      BY <2>3, <3>1, <3>2 DEF Atomic!Ingest, Settled
    <3>. QED  BY <2>1, <3>3 DEF Atomic!Next
  <2>5. CASE ~ Uncommitted
    <3>1. index' = index
      BY <1>0, <2>1, <2>2, <2>3, <2>5 DEF TypeOK
    <3>. QED  BY <1>s, <2>2, <2>5, <3>1 DEF Settled
  <2>. QED  BY <2>4, <2>5
<1>10. CASE Crash
  <2>1. ~ Uncommitted' /\ manifest' = manifest /\ index' = index
    BY <1>10 DEF Crash, Idle
  <2>2. CASE Uncommitted
    <3>1. /\ work.node \in Node /\ work.seq \in Sequence
          /\ Atomic!New(work.node, work.seq)
          /\ Settled' \in {Torn, Atomic!Updated(work.node, work.seq)}
      BY <2>1, <2>2, UncommittedIsNew DEF Settled
    <3>2. Atomic!Cut(work.node, work.seq)
      BY <2>1, <3>1 DEF Atomic!Cut, Settled
    <3>. QED  BY <3>1, <3>2 DEF Atomic!Next
  <2>3. CASE ~ Uncommitted
    BY <1>s, <2>1, <2>3 DEF Settled
  <2>. QED  BY <2>2, <2>3
<1>11. CASE UNCHANGED vars
  BY <1>11, <1>s DEF vars, Settled
<1>. QED
  BY <1>1, <1>2, <1>3, <1>4, <1>5, <1>6, <1>7, <1>8, <1>9, <1>10, <1>11 DEF Next

(***************************************************************************)
(* ingest, cut anywhere, is the one step that TelemetryDelivery takes it   *)
(* for.  (TelemetryStorage.ingest)                                         *)
(***************************************************************************)
THEOREM IngestImplementsAtomic == Spec => IngestIsAtomic
<1>1. Init => Atomic!Init
  BY DEF Init, Atomic!Init, Uncommitted, Idle
<1>. QED
  BY <1>1, StepIsAtomic, StorageInvariant, PTL DEF Spec, IngestIsAtomic, Atomic!Spec
=============================================================================

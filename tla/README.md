# Verification of the OpenRAN/PQC experiment platform

TLA+ models of the program's telemetry path (agent, spool, gRPC client,
collector, storage), of the observation of security associations, of the life of
one experiment with its traffic, and of measurement campaigns; TLC
configurations that check them on small instances, and TLAPS proofs, for every
instance, of all safety properties that hold.

    tlc -workers 2 -config delivery_safety.cfg MCTelemetryDelivery.tla
    tlapm TelemetryDeliveryProofs.tla

`PROJECT.json` lists the runs, the lines each definition stands for, the
mutants every property is known to catch, the findings and the hazards.

## 1. The system

A laboratory of containers (RIC, DU, router) runs an experiment in mode M1
(clear text), M2 (IPsec) or M3 (IPsec with ML-KEM). On RIC and DU an *agent*
observes IKE, XFRM and the machine, and streams telemetry to a *collector*.
`run.sh` drives one experiment; `campaign.py` a randomised series of them.

| Component | State | Operations | Interacts with |
|---|---|---|---|
| `LocalSpool` | SQLite table of `sequence, payload, acked` per run and node | `append`, `replace`, `pending`, `acknowledge` | both threads of the agent, under one lock |
| `EventCollector` | last observations of the collectors | `_persist` (append, then replace), `collect_events`, `collect_metrics` | writes the spool |
| `PQCExperimentAgent` | stop event, loop | `run`: metadata, sender thread, poll loop, final flush, join | signals; spool; client |
| `GrpcTelemetryClient` | none | `flush_once`, `flush_with_retry` | reads the spool, calls the collector, applies the ack |
| `TelemetryService` | none; up to 16 handlers at a time | `StreamTelemetry` | calls `ingest` for each event, returns one cumulative ack |
| `TelemetryStorage` | `index.db`, `telemetry.jsonl`, `events.jsonl`, `metrics.csv`, `manifest.json`, `summary.json` | `ingest`, `_update_manifest`, `_update_summary` | one ingestion at a time, under a lock |
| `run.sh`, `artifacts.py` | result directory of a run, `events.jsonl`, `summary.json`, the laboratory | laboratory, agents, capture, IPsec, traffic, rekeys, summary, `finalize`, `validate`, the EXIT trap | starts and stops agents, reads the collector's `summary.json` |
| SCTP client and server | one association, one message in flight | connect, send, receive with a timeout; listen, echo | each other; started by `run.sh` |
| `ViciCollector` | the IKE and CHILD SAs of the last listing | one listing, read with regular expressions | `swanctl`; its events are stored by `EventCollector` |
| `campaign.py` | `schedule.json`, the campaign's manifest and report | schedule, loop, resume, `aggregate` | starts `run.sh`, reads the runs' `summary.json` |
| XFRM and system collectors | none | one observation | the kernel |

What is hard here: the sender thread and the main thread share the spool, and
both may be in a call when the agent stops; a call may end at any point, with
the collector still reading it, while the same rows are sent again; agent and
collector are killed and started again between any two writes; the storage
writes four files inside a transaction that rolls back only one of them; a
campaign is interrupted and resumed on the evidence of a single JSON file, which
a run.sh that outlived its campaign may still be writing; an attempt of an
experiment finds the containers, events and telemetry of an earlier one under
the same name; the state of charon changes between two listings and its text is
read without regard to its structure.

What makes the components correct:

- spool, client, service: an event is forgotten only when the collector has
  it; it arrives once, in order, and in the end; an ack is never taken back;
- agent: it ends when told to; if its final flush fails it says that telemetry is
  pending, and if it does not, all that is left is what a full batch had no room
  for (of that the log says nothing);
- storage: what the index claims is in the files; the files agree with each
  other after a crash; `ingest` is as good as one step;
- campaign: runs are executed in order, one at a time; validated evidence is
  never written over (both but for runs whose run.sh was left alone by a
  campaign.py that was killed); a report is complete; a campaign that stops can
  be resumed;
- experiment: the durations measured are an attempt's own (its telemetry may be
  an earlier attempt's); nothing of an earlier one runs beside it, nothing is
  left behind; traffic is complete; it ends;
- observation: the events of one agent process are transitions of what it knows,
  all events are in an order that shows no outage that was not there, and in the
  end they show the association there is (and perhaps one that ended unseen by
  any agent).

`PROJECT.json` "hazards" lists what can go wrong, line by line, with the
properties aimed at it.

## 2. The modules

| Module | What it is |
|---|---|
| `LocalSpool` | The spool's table and its operations as operators. Rows are only added, at `MAX+1`, so the table is a sequence and a row's position is its number. |
| `StorageIndex` | What `storage.py` computes from the received keys and the manifest's mode: `last`, `missing`, `has_gaps`, the manifest's rejection and update. |
| `TelemetryDelivery` | The telemetry path: per node a main and a sender thread, calls in progress, the collector; crashes of both ends. Composes the two modules above. |
| `StoreAndForward` | What the path promises: one queue per node, delivered one by one, confirmed only when across. |
| `TelemetryStorage` | `ingest` write by write, with the transaction, the exception and crashes between any two writes. |
| `AtomicIngest` | The single step `TelemetryDelivery` takes `ingest` for, and what a crash may leave of it. |
| `Campaign` | `campaign.py`'s main, resumed any number of times, and the stages of `run.sh` that touch `summary.json`. |
| `SctpEcho` | The numbered traffic: client, server and what is on its way between them. |
| `Experiment` | `run.sh` started again and again under one `RUN_ID`, its EXIT trap, and `artifacts.py` on what it collected. Composes `SctpEcho`. |
| `SaObservation` | The listing of charon's associations as tokens, the two regular expressions, the differences between listings, the events. |
| `TelemetryDeliveryProofs`, `StoreAndForwardProofs`, `ShutdownProofs` | Theorems about the telemetry path, its refinement of the queue, the end of an agent. |
| `TelemetryStorageProofs`, `CampaignProofs` | Theorems about `TelemetryStorage` and `Campaign`. |
| `SctpEchoProofs`, `ExperimentProofs` | Lemmas about the traffic; theorems about `Experiment` with it. |
| `SaObservationProofs` | Theorems about the regular expressions and the events. |
| `MC*` | The instances for TLC. |

### TelemetryDelivery

Atomic steps are the code's: a spool transaction, the ingestion of one event
under the storage lock, the outcome of a call.

- `Start` is `run()` up to the first transaction of the metadata event,
  `Number` the second one of any event; `Emit` is a poll that observed
  something. `persisting` is the gap between the two transactions.
- `LeaveLoop`, `FlushNothing`, `OpenCall`/`TakeAck`/`FailCall` with thread
  `main`, and `Exit` are the end of `run()`; `phase` keeps whether the final
  flush succeeded (`flushed`) or was caught and logged (`warned`).
- `OpenCall` reads the batch and starts the RPC. `batch` keeps what was read (for
  the properties only), `todo` is what the collector
  has not yet gone through, `raw` the rows that were read before they had their
  number, `ack` the value of the handler's variables when it ends.
- A client that gives up leaves a call with caller `nobody`: the handler may
  go on ingesting it (`Ingest`), or notice (`NoticeCancelled`).
- `Refuse` is an abort (identifier, missing sequence number) or the exception
  of `_update_manifest`. `CollectorCrash` may cut one ingestion: the index rolls
  back, `manifest.json` may be new or torn (`ManifestCut`, justified by
  `TelemetryStorage` implementing `AtomicIngest`).
- `FairOpenSpec` adds an operator: `CollectorStartElsewhere` brings the collector
  back on another data directory, with an empty index. The safety properties
  are stated of `Spec`, where the index is kept.

### TelemetryStorage

`Insert`, `WriteLine`, `WriteTarget`, `Raise`, `TruncateManifest`,
`WriteManifest`, `TruncateSummary`, `WriteSummary` and `Commit` are the writes
of `ingest` in their order; a duplicate goes from `Insert` to the summary.
`work` is the ingestion that holds the lock, `Seen` the index as its transaction
sees it. `write_text` is two steps, since it truncates before it writes.

### Campaign

`summary[i]` is `empty` between truncation and writing, `bare` when run.sh's `jq`
has written status "pass", `final` when `finalize` has extended it, `torn` when
two processes wrote into it. `stage[p]` is where the run.sh process `p` is, by its
item and attempt: `subprocess.run` starts it as a process of its own, so it need
not end with main. `Interrupt` is Ctrl-C at the terminal, which reaches both, or
`--plan-only`; `KillMain` ends campaign.py alone, whose run.sh goes on beside the
one that the next campaign.py starts for the same `RUN_ID`. `validated` (some
run.sh ended with 0 for the run) and `orphaned` (a run.sh of it was ever left
alone) are history variables. All of run.sh before the summary is one stage that
succeeds or fails; `Experiment` is its inside. One campaign.py at a time works on
a campaign.

### Experiment and SctpEcho

`Script` is the order of the steps that change something outside of run.sh, for
every mode and kind; `todo` is what is left of it. `Do(s)` runs step `s`. The
commands between them (health checks, negotiation, packet counts, the
no-downgrade test, the scan for secrets) have no effect that is kept: each is one
more way in which a step may fail (`StepFails`), as are the commands of the
steps themselves. `Interrupt` is a signal that lets the trap run, `Kill` one
that does not or cuts it short. `inLab` holds what runs or lies in the containers
with the attempt that put it there; it goes with them. `secretFile`, `events`
and `telemetry` are on the host and stay. An agent that did not come up, which
`docker exec --detach` hides, is one whose `Deliver` never happens. `observed` is
what `finalize` took over from the collector's summary, the nodes and their
`has_gaps`, and `Validate` wants both nodes and no gap. A `RUN_ID` stands for one
mode and kind, as campaign.py forms it from them (run.sh does not enforce it), and
one run.sh of a `RUN_ID` runs at a time. The `unlink` of the trap succeeds in the
model; run.sh:66 ignores its failure.

The steps `client_ends` and `server_ends` wait for the two programs of
`SctpEcho` and fail only when those have failed. A message is its sequence
number; its delay is unbounded, so `ClientTimeout` may come before, after or
instead of the echo.

### SaObservation

`Listing` is the text of `swanctl --list-sas --pretty`, reduced to the places
the regular expressions look for, in its order: an IKE SA's `uniqueid`, its
`state` if established, `child-sas`, then the same for its children. `IkeFound` and
`ChildFound` follow `re.findall`: leftmost match, shortest gap, on from its end.
`Poll` is one call of `collect_events`, which takes what it found for known at
once; `Persist` stores one event. `Restart` is a new agent process: `known` and
`pending` are gone, the events stored stay. `seenIke` and `seenChild` are what all
events say; `ownIke` and `ownChild` what those of the running process say, history
variables that only the properties use. charon is external: it establishes,
rekeys and deletes, an old SA staying listed beside the new one, and may be
started again, with ids from 1.

## 3. The runs

| Run | Shows |
|---|---|
| `delivery_safety` (pass) | No event is lost, reordered, falsely confirmed or un-confirmed; a final flush without warning leaves only rows behind a full batch it sent; the path implements `StoreAndForward`. |
| `delivery_liveness` (pass) | A stopped agent ends; a running one gets everything acknowledged once failures cease, unless its batch holds a row the collector refuses; a collector without its index gets every row before the last one it has. |
| `storage_ingest` (pass) | Files, summary, manifest and index agree after any interruption; `ingest` implements `AtomicIngest`. |
| `campaign_resume` (pass) | Order, evidence and report of a campaign under interruptions and kills, for all runs whose run.sh was never left alone; it ends unless a file was left torn. |
| `experiment_life` (pass) | Through failures, interruptions and kills: durations are of one attempt, the laboratory holds one attempt, nothing is left behind, traffic is complete and in order, run.sh ends. |
| `observation` (pass) | What the regular expressions can tell; the events of a process are transitions, all of them show no false outage, and in the end the SA there is. |
| `delivery_tail` (violation) | Missing last events are not seen as gaps (artifacts.py:101-102). |
| `delivery_blocked` (violation) | A torn `manifest.json` blocks a run's telemetry for ever (README.md:180-181). |
| `storage_duplicates` (violation) | An event may have two lines in `telemetry.jsonl` (README.md:182-183). |
| `campaign_unvalidated` (violation) | What is reported need not be what was validated: a run that failed or was interrupted in `finalize` or `validate` is reported as passed (experiments/README.md:67-68). |
| `campaign_stuck` (violation) | An interruption while `schedule.json` is written makes every resumption raise (experiments/README.md:67-68). |
| `experiment_unobserved` (violation) | A run passes without telemetry of its own from one of the agents (README.md:218, experiments/README.md:37-38). |

### Bounds

- `MaxEvents = 3`, `BatchLimit = 2` (1000 in the code): the backlog exceeds a
  batch, two overlapping batches of the two threads differ, and there is a row
  behind a row that is refused. The liveness run has `BatchLimit = 2` too: a row that
  is refused shares its call with one that is not.
- `MaxStale = 1` abandoned call beside the two live ones: three streams of one
  node are ingested in turns. Liveness is checked without abandoned calls that
  are still read, for they change only what the safety run shows harmless.
- One node: nodes share nothing but the manifest's mode, and the effect of
  another node on it is had by starting the agent again with another mode.
  `storage_ingest` has two nodes; the theorems hold for any number.
- `Sequence = {1, 2}`, `MaxLines = 2`: an event is written, rolled back and
  written again on two nodes that report three modes.
- Two attempts, each cut after any step; `Count = 2` messages, the least with a
  late echo of an earlier one. Four treatments (`Tested`), which take and leave
  every alternative of the script; the other four run the same alternatives.
- `MaxId = 2`: an SA of either kind and the one that replaces it, two IKE SAs
  with two children each, in every life of charon; there is no bound on lives.
- `Runs = 2`, `MaxAttempts = 3`, `MaxAlone = 1`: a run that has passed before the
  one that fails; each is tried while a run.sh left alone is still at it, and
  once more after that. The runs that find a violation do with fewer attempts.

Deadlock is not checked where a bound ends the model's behaviours
(`MaxEvents`, `MaxLines`, `MaxAttempts`), or a campaign is complete. It is
checked in `observation`.

### Fairness

`Fairness` of `TelemetryDelivery` says that threads run: the second
transaction of `_persist`, the final flush, the exit and a new flush of the
sender's loop happen once they can; the collector reads a stream it is sent;
a call ends, since it has a deadline of 10 s; and a turn of the poll loop ends,
although vici.py:25 runs `swanctl` without a timeout. `LeaveLoop` is strongly fair when
`stop` is set: the loop tests it every turn, but in the model a turn may begin
again and again by observing something. The collector is assumed to be started
again. Nothing is assumed about starts of an agent, events, or the success of
a call; `Calm`, in which failures cease, is a hypothesis of the property that
needs it. In `Campaign`, main goes on and the operator starts a campaign that has
stopped again, and each run.sh ends, with no assumption that it succeeds;
`Undisturbed`, a hypothesis of the property, is a future without failures,
interruptions and kills.

In `Experiment`, commands of run.sh end, in success or failure, but the two steps
that wait for the SCTP programs are enabled only by them. The client's steps are
fair, its timeout among them; the server's and the link's are not. In
`SaObservation` the agent polls and stores; charon owes nothing.

## 4. The proofs

Every invariant, action property and refinement that a passing run checks is
a theorem: `THEOREM Spec => []P` (or the action property itself) for every value
of the constants that satisfies the module's ASSUME. Those are weak: `Accepted`
is some of the nodes, bounds and counts are naturals (a batch holds a row, a
campaign has a run, `MaxId` and `Count` are at least 1), sequences start at 1,
each event reports a mode or none. None of the properties is inductive by
itself; each module states what has to be added and proves that initial states
have it and that steps keep it. Each of these inductive invariants also holds in
all states of the runs' instances when TLC is given it as INVARIANT.

**The telemetry path** (`TelemetryDeliveryProofs`, `StoreAndForwardProofs`).
`IInv` joins the types with what ties a node's spool, streams and index
together: acknowledged rows are in the index, the index is a prefix of the
spool, and whatever a stream still carries is preceded only by rows it also
carries or that are in the index. The last part is what makes the rest
inductive: an ingestion takes the smallest row of `todo`, so the index stays a
prefix whichever of several streams, live or abandoned, is read; a new batch
starts with the first unacknowledged row, and all rows before it are
acknowledged, hence in the index. From a prefix follow that `missing` is empty and
`COUNT = MAX - MIN + 1` (`GapsAreNeverReported`, over the cardinality of
intervals), that an ack covers exactly `1 .. last`, and that acknowledging with
an older ack takes nothing back (`AcksAreStable`). `PathImplementsQueue`: initial
states map to initial states of `StoreAndForward`, and every step is a step of
the queue or a stutter. One consequence is worth a reader's attention: as long
as neither spool nor index is lost, the retransmission of missing sequences is
never used and the gap check of `validate` never fires.

**The agent's end** (`ShutdownProofs`, `FlushLeavesOnlyRest`). While the main
thread waits for its last call, the sender thread acknowledges and the collector
ingests, so the batch alone says too little. `AllShutdownOK` adds to `IInv` that of
the rows still unacknowledged each one is behind a full batch (`Beyond`), or still
to be read from that call, or in the index and, when all is read, covered by the
ack's `last`; and that the main thread has one call at most. `PendingIsFull` is why
a row that was not read is behind a full batch: `Pending` takes the least ones.

**Storage** (`TelemetryStorageProofs`). `FilesOK`, `SummaryOK` and `ManifestOK`
say, by the write the ingestion in progress is at, what it has done: which files
have its event, that an event which was inserted is not in the index yet, that a
readable summary exceeds the index by at most one event, and that once the manifest
was seen to, the mode of the event at work is the manifest's.
`ManifestNeverBehind` needs the last part: the index admits a second mode
only if a commit could follow a manifest that rejects it.
`IngestImplementsAtomic` maps each write to a step of `AtomicIngest` or a stutter,
and is what entitles `TelemetryDelivery` to take `ingest` for one step.

**Campaign** (`CampaignProofs`). `RunsOK` (who works on a run that was never left
alone is the process main waits for, the run is not validated and there is no
report yet) and `LoopOK` (every run main has got past has a summary, one that
passes unless the run was left alone) are what the loop has learned and the
properties do not say. A run left alone is not just exempted: what its two
processes do must leave the summaries of the others, and main's place in the
schedule, as they were.

**Experiment** (`ExperimentProofs`, `SctpEchoProofs`). `Rank` is a step's place in
the longest script; the script of each treatment is sorted by it (`Part`,
`PartsAppend`), and what is left to do is an end of it. So "this step is past"
implies that all before it are, for all eight treatments at once. With this the
invariant says of what each past step left behind: the PSK on the host implies
that the step unlinking it is to come, a past `client_ends` that the client is
done, and the running attempt's events are those of its past steps, in their
order. `DurationsAreOwn` follows from the order of `events` by attempt and
rank. `EchoOK` says where the one message is (on its way, on its way back,
or nowhere) by the states of the two programs: a client whose wait timed out
ends, so none sends while there is still something on its way, and a late echo
finds no later message to be mistaken for.

**Observation** (`SaObservationProofs`). What `re.findall` gives is a recursive
function on the places of the text, and a listing a concatenation of as many
parts as there are SAs. The proofs go through induction on those: since the
library's induction theorems take an operator, `LeastNat` is used instead (of
the numbers at which a fact fails there would be a least one), first to show
that the recursive functions exist (`DownwardFunction`, `FlattenFunction`), then
for what they return (`IkeFoundIs`, `ChildFoundIs`). `Understood` is about any
listing, reachable or not. `EventsTellTheStory`, about one process of the agent,
needs that nothing is twice in
`pending` (`Distinct`), or the second of two equal deletions would report an SA
that is no longer seen; `OutagesAreReal` that deletions are its last
(`DeletionsLast`). The order of observations of one kind does not matter: the
code sorts the ids as text, the model takes any fixed order.

**Only model-checked** are the liveness properties: `StopEndsProcess`,
`EventuallyDelivered`, `GapsAreRepaired`, `CampaignEnds`, `RunEnds` and
`SettledIsReported`. They rest on fairness, and thereby on ENABLED, which this
prover does not reason about.

## 5. What the checks taught

- Under one `RUN_ID`, `validate` cannot tell an attempt's telemetry from an
  earlier one's: an attempt whose agents never came up passes on what an earlier,
  failed one delivered (`experiment_unobserved`).
- The sender may read a row between the two transactions of `_persist` and send a
  message without its sequence number, which README.md:173 says every message
  has. The collector aborts the call; by the next one the number is there. But
  when the agent is killed between the two, the row never gets its number, and
  every batch from then on fails at it. This is the second way to break
  `PendingIsDelivered`, beside the torn manifest that `delivery_blocked` shows.
- A batch is acknowledged as a whole or not at all. A row that cannot be accepted
  therefore also keeps rows before it pending although they are in the index, so
  that "everything up to the first refused row is acknowledged" would be wrong;
  `EventuallyDelivered` says what is right.
- All a resumed campaign knows of a run is its summary. It can neither see that it
  failed after `jq` had written status "pass" (the behaviour `campaign_unvalidated`
  ends with) nor that a run.sh left by a killed campaign.py is still at work on
  it: that one may rewrite the summary of a run that was validated since. Hence
  the runs in `orphaned` are exempted from `ScheduleIsFollowed`, `EvidenceIsKept`
  and the second half of `ReportIsComplete`, which are false of them.
- A restarted agent reports what it finds as established anew, whether or not the
  process before has, and cannot report the end of what it never found: an SA that
  is deleted while the agent is down, or whose deletion was still to be stored when
  it was killed, stays established in `events.jsonl` for ever, although the
  collector "detects state transitions" (vici.py:18). That is why
  `EventsAreTransitions` and `SettledIsReported` are stated of the events of one
  process; of all events `seenIke = Established` does not come true. A reader of
  `events.jsonl` has to take an agent's restart (a second `NODE_METADATA` in
  `telemetry.jsonl`) into account.
- After the loss of the collector's index, an agent learns of it only with the
  ack of a later event, and only of the rows before that event. If the index
  is lost again before all is repaired, rows behind the last one received stay
  lost until the agent has a newer one (`GapsAreRepaired` allows for it).
- With two IKE SAs listed, the regular expressions may report the `uniqueid` of a
  child, or of an SA that is being replaced, as established
  (`ListingIsUnderstood` says what they do tell). With one there is no doubt.
- A failing listing changes nothing: the SAs of a charon that died stay known, and
  one of the next charon with the same id is not reported again, nor is the end
  of the old one. The properties compare ids, so they do not see this either.
- `tests/integration/run-agent.sh` expects `agent_schema_version` 1 in
  `summary.json`; `finalize` writes 2 (artifacts.py:86).

## 6. Not modelled

- What the XFRM and system collectors parse, and the values of metrics.
- Timestamps, payloads, all of the manifests but mode and nodes.
- TLS set-up, argument parsing, logging, the generated gRPC code.
- The image, the topology, the strongSwan configuration, and what run.sh checks
  of them: each check is a way to fail.
- The statistics of a campaign (floating point on measured data).
- Loss of `spool.db`: `CREATE TABLE IF NOT EXISTS` would start an empty one, whose
  rows the collector takes for duplicates of those it has.
- A listing that changes while charon prints it.

## 7. Plan

Modelled, checked and proved as planned. What is left:

1. The hazards without a property, where a state can be found that tells: the
   campaign's manifest that a resumption never writes, `finalize` reading a
   `summary.json` that is being rewritten, the identifier taken from a listing of
   two SAs.
2. The safety half of what `GapsAreRepaired` says (under `CollectorStartElsewhere`
   the index is no prefix): an acknowledged row that the index lost is, after
   the next ack, acknowledged no longer, in the index, or behind the last row
   that was received.

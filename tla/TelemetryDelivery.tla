-------------------------- MODULE TelemetryDelivery --------------------------
(***************************************************************************)
(* The telemetry path of one run: on every node an agent process, whose    *)
(* main thread fills the local spool and whose sender thread streams it to *)
(* the collector, and the collector process that indexes what it gets.     *)
(* Both ends may be killed and started again; the spool, the index and the *)
(* central manifest are on disk and survive.                               *)
(*                                                                         *)
(* Processes and threads interleave at the grain of the code's own atomic  *)
(* steps: a spool transaction, the ingestion of one event under the        *)
(* storage lock, the arrival of an RPC's outcome.                          *)
(***************************************************************************)
EXTENDS LocalSpool, StorageIndex

CONSTANTS
  Node,        \* the nodes of the run that have an agent
  Accepted,    \* those whose names the collector's IDENTIFIER_RE matches
  BatchLimit,  \* rows one flush reads: pending()'s limit, 1000 in the code
  MaxEvents,   \* bound of the model: rows an agent ever writes
  MaxStale     \* bound of the model: streams given up but still being read

ASSUME ConstantsOK ==
  /\ Accepted \subseteq Node
  /\ BatchLimit \in Nat \ {0}
  /\ MaxEvents \in Nat
  /\ MaxStale \in Nat
  /\ Unknown \in Mode
  /\ NoMode \notin Mode
  /\ Torn \notin Mode

VARIABLES
  rows,        \* rows[n]: the events table of n's spool.db
  phase,       \* phase[n]: where run() of n's main thread is
  persisting,  \* persisting[n]: _persist is between append and replace
  online,      \* online[n]: the agent has a client (--collector was given)
  stop,        \* stop[n]: the stop event of the process
  streams,     \* streams[n]: the StreamTelemetry calls that carry n's rows
  up,          \* the collector process runs
  received,    \* received[n]: the committed index rows of n
  manifest     \* the mode in the run's manifest.json, or Torn

agentVars == <<rows, phase, persisting, online, stop>>
collectorVars == <<up, received, manifest>>
vars == <<agentVars, streams, collectorVars>>

-----------------------------------------------------------------------------
(***************************************************************************)
(* A call in progress.  batch: the rows flush_once has read for it; todo:  *)
(* those the collector has not gone through; raw: those whose payload,     *)
(* when it was read, had no number yet; ack: what the handler will return. *)
(* A call whose client gave up on it stays, without a caller, until its    *)
(* handler notices.                                                        *)
(***************************************************************************)
Thread == {"main", "sender"}

Phases == {"off", "booting", "running", "flushing", "flushed", "warned", "done"}

Call ==
  [caller : Thread \cup {"nobody"},
   batch  : SUBSET Nat,
   todo   : SUBSET Nat,
   raw    : SUBSET Nat,
   ack    : [last : Nat, missing : SUBSET Nat]]

EmptyAck == [last |-> 0, missing |-> {}]

Stream(t, batch, raw) ==
  [caller |-> t, batch |-> batch, todo |-> batch, raw |-> raw, ack |-> EmptyAck]

InCall(n, t) == \E c \in streams[n] : c.caller = t

Stale(n) == {c \in streams[n] : c.caller = "nobody"}

Pend(n) == Pending(rows[n], BatchLimit)

\* The payload of row s, as read into c, makes the handler abort.
Invalid(n, c, s) == n \notin Accepted \/ s \in c.raw

\* storage.ingest raises on row s: only an event that was inserted gets there.
Raises(n, s) ==
  /\ s \notin received[n]
  /\ ManifestRejects(manifest, rows[n][s].mode # NoMode, rows[n][s].mode)

\* What is left of calls cs when their clients are gone: streams that the
\* collector has not noticed to be cancelled, at most MaxStale of them.
Abandon(n, cs) ==
  LET orphans == {[c EXCEPT !.caller = "nobody"] :
                    c \in {d \in cs : d.todo # {}}}
  IN  \E kept \in SUBSET orphans :
        /\ Cardinality(Stale(n) \cup kept) <= MaxStale
        /\ streams' = [streams EXCEPT ![n] = (@ \ cs) \cup kept]

-----------------------------------------------------------------------------
Init ==
  /\ rows = [n \in Node |-> <<>>]
  /\ phase = [n \in Node |-> "off"]
  /\ persisting = [n \in Node |-> FALSE]
  /\ online = [n \in Node |-> FALSE]
  /\ stop = [n \in Node |-> FALSE]
  /\ streams = [n \in Node |-> {}]
  /\ up = FALSE
  /\ received = [n \in Node |-> {}]
  /\ manifest = Unknown

(***************************************************************************)
(* The main thread of the agent.                                           *)
(***************************************************************************)

\* A new process opens the spool and appends its NODE_METADATA event.
Start(n, mode, withCollector) ==
  /\ phase[n] = "off"
  /\ Len(rows[n]) < MaxEvents
  /\ rows' = [rows EXCEPT ![n] = AppendRow(@, mode)]
  /\ phase' = [phase EXCEPT ![n] = "booting"]
  /\ persisting' = [persisting EXCEPT ![n] = TRUE]
  /\ online' = [online EXCEPT ![n] = withCollector]
  /\ UNCHANGED <<stop, streams, collectorVars>>

\* A poll of run()'s loop observes something: the first half of _persist.
Emit(n) ==
  /\ phase[n] = "running"
  /\ ~ persisting[n]
  /\ Len(rows[n]) < MaxEvents
  /\ rows' = [rows EXCEPT ![n] = AppendRow(@, NoMode)]
  /\ persisting' = [persisting EXCEPT ![n] = TRUE]
  /\ UNCHANGED <<phase, online, stop, streams, collectorVars>>

\* The second half of _persist.  Once NODE_METADATA is there, run() installs
\* its signal handlers, starts the sender and enters its loop.
Number(n) ==
  /\ persisting[n]
  /\ rows' = [rows EXCEPT ![n] = ReplaceRow(@, Len(@))]
  /\ persisting' = [persisting EXCEPT ![n] = FALSE]
  /\ phase' = [phase EXCEPT ![n] = "running"]
  /\ UNCHANGED <<online, stop, streams, collectorVars>>

\* SIGINT or SIGTERM, once the handlers are installed.
RequestStop(n) ==
  /\ phase[n] \in {"running", "flushing"}
  /\ ~ stop[n]
  /\ stop' = [stop EXCEPT ![n] = TRUE]
  /\ UNCHANGED <<rows, phase, persisting, online, streams, collectorVars>>

\* The loop ends: stop is set, or the --duration has passed.
LeaveLoop(n) ==
  /\ phase[n] = "running"
  /\ ~ persisting[n]
  /\ phase' = [phase EXCEPT ![n] = IF online[n] THEN "flushing" ELSE "done"]
  /\ UNCHANGED <<rows, persisting, online, stop, streams, collectorVars>>

\* The final flush_once finds nothing pending.
FlushNothing(n) ==
  /\ phase[n] = "flushing"
  /\ ~ InCall(n, "main")
  /\ Pend(n) = {}
  /\ phase' = [phase EXCEPT ![n] = "flushed"]
  /\ UNCHANGED <<rows, persisting, online, stop, streams, collectorVars>>

\* stop.set, the join with its timeout, close; the process is gone, and with
\* it a call the daemon sender thread may still be in.
Exit(n) ==
  /\ phase[n] \in {"flushed", "warned", "done"}
  /\ phase' = [phase EXCEPT ![n] = "off"]
  /\ stop' = [stop EXCEPT ![n] = FALSE]
  /\ online' = [online EXCEPT ![n] = FALSE]
  /\ Abandon(n, streams[n] \ Stale(n))
  /\ UNCHANGED <<rows, persisting, collectorVars>>

\* The process is killed, or its container is destroyed.
Crash(n) ==
  /\ phase[n] # "off"
  /\ phase' = [phase EXCEPT ![n] = "off"]
  /\ persisting' = [persisting EXCEPT ![n] = FALSE]
  /\ stop' = [stop EXCEPT ![n] = FALSE]
  /\ online' = [online EXCEPT ![n] = FALSE]
  /\ Abandon(n, streams[n] \ Stale(n))
  /\ UNCHANGED <<rows, collectorVars>>

(***************************************************************************)
(* flush_once: the sender repeats it while stop is not set, the main       *)
(* thread runs it once at the end.                                         *)
(***************************************************************************)
MayFlush(n, t) ==
  \/ /\ t = "sender"
     /\ online[n]
     /\ ~ stop[n]
     /\ phase[n] \in {"running", "flushing"}
  \/ /\ t = "main"
     /\ phase[n] = "flushing"

\* The batch is read from the spool and the RPC begins.
OpenCall(n, t) ==
  /\ MayFlush(n, t)
  /\ ~ InCall(n, t)
  /\ Pend(n) # {}
  /\ LET raw == {s \in Pend(n) : ~ rows[n][s].numbered}
     IN  streams' = [streams EXCEPT ![n] = @ \cup {Stream(t, Pend(n), raw)}]
  /\ UNCHANGED <<agentVars, collectorVars>>

\* Mutants of AfterFlush: a failure of the final flush passes unnoticed, or
\* the final flush is tried again.
AfterFlushSilently(n, t, outcome) ==
  phase' = IF t = "main" THEN [phase EXCEPT ![n] = "flushed"] ELSE phase

AfterFlushRetries(n, t, outcome) ==
  phase' = IF t = "main" /\ outcome = "flushed"
           THEN [phase EXCEPT ![n] = outcome] ELSE phase

\* Where the main thread goes when its flush ends; the sender loops.
AfterFlush(n, t, outcome) ==
  phase' = IF t = "main" THEN [phase EXCEPT ![n] = outcome] ELSE phase

\* The StreamAck arrives and is applied to the spool.
TakeAck(n, t) ==
  /\ \E c \in streams[n] :
       /\ c.caller = t
       /\ c.todo = {}
       /\ rows' = [rows EXCEPT ![n] = Acknowledge(@, c.ack.last, c.ack.missing)]
       /\ streams' = [streams EXCEPT ![n] = @ \ {c}]
  /\ AfterFlush(n, t, "flushed")
  /\ UNCHANGED <<persisting, online, stop, collectorVars>>

\* The RPC ends without an ack: its deadline passed, the connection or the
\* collector is gone, or the ack was lost.
FailCall(n, t) ==
  /\ \E c \in streams[n] : c.caller = t /\ Abandon(n, {c})
  /\ AfterFlush(n, t, "warned")
  /\ UNCHANGED <<rows, persisting, online, stop, collectorVars>>

(***************************************************************************)
(* The collector: StreamTelemetry reads a stream event by event, in the    *)
(* order it was sent, and calls storage.ingest for each.                   *)
(***************************************************************************)

\* The next event of c is ingested; a duplicate changes nothing but c.  A
\* stream nobody waits for disappears when it is finished.
Ingest(n, t) ==
  /\ up
  /\ \E c \in streams[n] :
       LET s    == Min(c.todo)
           rest == c.todo \ {s}
           now  == received[n] \cup {s}
           ack  == IF rest = {}
                   THEN [last |-> Last(now), missing |-> Missing(now)]
                   ELSE c.ack
           next == [c EXCEPT !.todo = rest, !.ack = ack]
           left == IF t = "nobody" /\ rest = {} THEN {} ELSE {next}
       IN  /\ c.caller = t
           /\ c.todo # {}
           /\ ~ Invalid(n, c, s)
           /\ ~ Raises(n, s)
           /\ received' = [received EXCEPT ![n] = now]
           /\ manifest' = IF s \in received[n] THEN manifest
                          ELSE ManifestAfter(manifest, rows[n][s].mode # NoMode,
                                             rows[n][s].mode)
           /\ streams' = [streams EXCEPT ![n] = (@ \ {c}) \cup left]
  /\ UNCHANGED <<agentVars, up>>

\* The next event of c makes the handler abort or raise; the call fails.
Refuse(n, t) ==
  /\ up
  /\ \E c \in streams[n] :
       /\ c.caller = t
       /\ c.todo # {}
       /\ Invalid(n, c, Min(c.todo)) \/ Raises(n, Min(c.todo))
       /\ streams' = [streams EXCEPT ![n] = @ \ {c}]
  /\ AfterFlush(n, t, "warned")
  /\ UNCHANGED <<rows, persisting, online, stop, collectorVars>>

\* The handler of a stream without caller learns that it was cancelled.
NoticeCancelled(n) ==
  /\ \E c \in Stale(n) : streams' = [streams EXCEPT ![n] = @ \ {c}]
  /\ UNCHANGED <<agentVars, collectorVars>>

CollectorStart ==
  /\ ~ up
  /\ up' = TRUE
  /\ UNCHANGED <<agentVars, streams, received, manifest>>

\* A crash may cut the ingestion of one event: the index rolls back, but
\* manifest.json may have been rewritten already, or only truncated.
ManifestCut(n) ==
  UNION {LET s       == Min(c.todo)
             reports == rows[n][s].mode # NoMode
         IN  IF s \in received[n] \/ Invalid(n, c, s) \/ Raises(n, s)
             THEN {}
             ELSE {Torn, ManifestAfter(manifest, reports, rows[n][s].mode)} :
           c \in {d \in streams[n] : d.todo # {}}}

\* Handlers die with the collector; acks that were sent may still arrive.
CollectorCrash ==
  /\ up
  /\ up' = FALSE
  /\ manifest' \in {manifest} \cup UNION {ManifestCut(n) : n \in Node}
  /\ streams' = [n \in Node |->
                   {c \in streams[n] : c.todo = {} /\ c.caller \in Thread}]
  /\ phase' = [n \in Node |->
                 IF \E c \in streams[n] : c.caller = "main" /\ c.todo # {}
                 THEN "warned" ELSE phase[n]]
  /\ UNCHANGED <<rows, persisting, online, stop, received>>

-----------------------------------------------------------------------------
AgentNext(n) ==
  \/ \E mode \in Mode, withCollector \in BOOLEAN : Start(n, mode, withCollector)
  \/ Emit(n)
  \/ Number(n)
  \/ RequestStop(n)
  \/ LeaveLoop(n)
  \/ FlushNothing(n)
  \/ Exit(n)
  \/ \E t \in Thread : OpenCall(n, t) \/ TakeAck(n, t)

CollectorNext ==
  \/ \E n \in Node, t \in Thread \cup {"nobody"} : Ingest(n, t) \/ Refuse(n, t)
  \/ \E n \in Node : NoticeCancelled(n)
  \/ CollectorStart

Failure ==
  \/ \E n \in Node : Crash(n)
  \/ \E n \in Node, t \in Thread : FailCall(n, t)
  \/ CollectorCrash

Next == (\E n \in Node : AgentNext(n)) \/ CollectorNext \/ Failure

Spec == Init /\ [][Next]_vars

(***************************************************************************)
(* Threads that can run do run; a call ends, at the latest by its deadline *)
(* of 10 s; a loop that is told to stop tests the event after every turn,  *)
(* however many events its turns emit; a collector that is down is started *)
(* again.  Nothing makes a process start, an event happen, or a call       *)
(* succeed.                                                                *)
(***************************************************************************)
Fairness ==
  /\ WF_vars(CollectorStart)
  /\ \A n \in Node :
       /\ WF_vars(Number(n))
       /\ SF_vars(stop[n] /\ LeaveLoop(n))
       /\ WF_vars(FlushNothing(n))
       /\ WF_vars(Exit(n))
       /\ \A t \in Thread :
            /\ WF_vars(OpenCall(n, t))
            /\ WF_vars(Ingest(n, t) \/ Refuse(n, t))
            /\ WF_vars(TakeAck(n, t) \/ FailCall(n, t))

FairSpec == Spec /\ Fairness

\* The collector is started on another --data-dir, or without the index it
\* had: it knows nothing of what the agents believe to be across.
CollectorStartElsewhere ==
  /\ ~ up
  /\ up' = TRUE
  /\ received' = [n \in Node |-> {}]
  /\ manifest' = Unknown
  /\ UNCHANGED <<agentVars, streams>>

\* The path under an operator who may do that, any number of times.
OpenNext == Next \/ CollectorStartElsewhere

FairOpenSpec == Init /\ [][OpenNext]_vars /\ Fairness

-----------------------------------------------------------------------------
TypeOK ==
  /\ rows \in [Node -> Seq(Row)]
  /\ phase \in [Node -> Phases]
  /\ persisting \in [Node -> BOOLEAN]
  /\ online \in [Node -> BOOLEAN]
  /\ stop \in [Node -> BOOLEAN]
  /\ streams \in [Node -> SUBSET Call]
  /\ up \in BOOLEAN
  /\ received \in [Node -> SUBSET Nat]
  /\ manifest \in Mode \cup {Torn}

(***************************************************************************)
(* A row the agent has marked acknowledged, and will never send again, is  *)
(* in the collector's committed index: whatever is killed, lost, repeated  *)
(* or late, the spool forgets no event the collector has not got.          *)
(* (spool.acknowledge, server.StreamTelemetry, storage.ingest)             *)
(***************************************************************************)
AckedIsReceived == \A n \in Node : Acked(rows[n]) \subseteq received[n]

(***************************************************************************)
(* What the collector has received of a node is always a prefix of what    *)
(* the node's spool numbered, although several streams of the node, some   *)
(* of them given up by their client, may be ingested in turns.             *)
(* (spool.pending's order, StreamTelemetry's loop)                         *)
(***************************************************************************)
ReceivedIsPrefix ==
  \A n \in Node : /\ received[n] \subseteq Sequences(rows[n])
                  /\ \A s \in received[n] : 1 .. s \subseteq received[n]

(***************************************************************************)
(* Whatever a stream still carries is preceded only by rows that it also   *)
(* carries or that have arrived, so a stream can never run ahead of a hole *)
(* another one left; and what an ack claims has been committed before.     *)
(* (spool.pending's order, ingest's `last`, computed under the lock)       *)
(***************************************************************************)
StreamsInOrder ==
  \A n \in Node : \A c \in streams[n] :
    /\ c.todo \subseteq Sequences(rows[n])
    /\ \A s \in c.todo : 1 .. s \subseteq c.todo \cup received[n]
    /\ 1 .. c.ack.last \subseteq received[n]

(***************************************************************************)
(* Hence no ack reports a missing sequence and no summary has a gap: the   *)
(* retransmission of missing rows is never used, and neither the ack nor   *)
(* has_gaps can tell that the tail of a node's events never arrived.       *)
(* (storage.ingest, _update_summary)                                       *)
(***************************************************************************)
NoGapReported ==
  \A n \in Node :
    /\ \A c \in streams[n] : c.ack.missing = {}
    /\ received[n] # {} => ~ HasGaps(received[n])

(***************************************************************************)
(* A final flush that does not warn leaves nothing behind, but for what is *)
(* after a full batch that it sent: the log line "shutdown with pending    *)
(* telemetry" is missing for that reason only, whatever the sender's call  *)
(* and the collector did while it was under way.                           *)
(* (distributed.run, flush_once, pending's limit)                          *)
(***************************************************************************)
SilentFlushLeavesOnlyRest ==
  [][\A n \in Node :
       phase[n] = "flushing" /\ phase'[n] = "flushed" =>
         \A s \in Unacked(rows'[n]) : \E c \in streams[n] :
           /\ c.caller = "main"
           /\ Cardinality(c.batch) = BatchLimit
           /\ \A b \in c.batch : b < s]_vars

(***************************************************************************)
(* Acknowledged rows stay acknowledged, even when acks of overlapping      *)
(* batches are applied in the opposite order of their computation.         *)
(* (spool.acknowledge, called by both threads)                             *)
(***************************************************************************)
AckedIsStable ==
  [][\A n \in Node : Acked(rows[n]) \subseteq Acked(rows'[n])]_rows

(***************************************************************************)
(* The telemetry path implements the queue it stands for: a stored row is  *)
(* produced, a committed index row is delivered, an acked row confirmed.   *)
(***************************************************************************)
Queue == INSTANCE StoreAndForward WITH
  produced  <- [n \in Node |-> Len(rows[n])],
  delivered <- [n \in Node |-> Last(received[n])],
  confirmed <- [n \in Node |-> Acked(rows[n])]

ImplementsQueue == Queue!Spec

(***************************************************************************)
(* A process asked to stop ends, whatever the collector does.              *)
(* (distributed.run: signal handler, final flush, join with a timeout)     *)
(***************************************************************************)
StopEndsProcess == \A n \in Node : stop[n] ~> phase[n] = "off"

\* The collector refuses row r of n whenever it is sent as it is stored.
Refused(n, r) == n \notin Accepted \/ ~ rows[n][r].numbered \/ Raises(n, r)

SenderRuns(n) == phase[n] = "running" /\ online[n] /\ ~ stop[n]

(***************************************************************************)
(* If from some time on n's agent runs, no call is cut short and the       *)
(* collector stays, then every row it ever wrote is acknowledged in the    *)
(* end, unless a row of the batch is refused, which holds up all others of *)
(* the batch: those before it arrive, but no ack ever says so.             *)
(* (client.flush_with_retry: store and forward)                            *)
(***************************************************************************)
Calm == [][(\E n \in Node : AgentNext(n)) \/ CollectorNext]_vars

Delivered(n) ==
  (<>[]SenderRuns(n) /\ <>Calm) =>
    \A s \in 1 .. MaxEvents :
      <>[](s \in Unacked(rows[n]) =>
             \E r \in Pend(n) : Refused(n, r) /\ (s < r => s \in received[n]))

EventuallyDelivered == \A n \in Node : Delivered(n)

(***************************************************************************)
(* A collector that has lost its index tells an agent, in the ack of the   *)
(* next event, what it misses before it: the agent takes back what it      *)
(* believed acknowledged and sends it again, until the index has no hole,  *)
(* unless a row of the batch is refused.  Rows behind the last one         *)
(* received stay lost until there is a newer one.                          *)
(* (storage.ingest's `missing`, spool.acknowledge's second UPDATE)         *)
(***************************************************************************)
GapsAreRepaired ==
  \A n \in Node :
    (<>[]SenderRuns(n) /\ <>Calm) =>
      <>[](Missing(received[n]) # {} => \E r \in Pend(n) : Refused(n, r))

-----------------------------------------------------------------------------
(***************************************************************************)
(* What the repository says of the path and the code does not do.          *)
(***************************************************************************)

(***************************************************************************)
(* artifacts.validate fails with "distributed telemetry is incomplete or   *)
(* has sequence gaps": once an agent has made its final flush, a node      *)
(* whose summary shows no gap is complete.  The rows after the last one    *)
(* received are not seen by has_gaps.                                      *)
(***************************************************************************)
IncompleteShowsGaps ==
  \A n \in Node :
    phase[n] \in {"flushed", "warned"} /\ received[n] # {} /\ ~ HasGaps(received[n]) =>
      received[n] = Sequences(rows[n])

(***************************************************************************)
(* "Collector outages do not interrupt the experiment and the pending      *)
(* items are resent after reconnection": with the collector back for good, *)
(* an agent that keeps running gets rid of everything it stored.  Two      *)
(* things keep it from that for ever: a manifest.json that is torn, and a  *)
(* row that a kill has left without its number.                            *)
(***************************************************************************)
PendingIsDelivered ==
  \A n \in Accepted :
    (<>[]SenderRuns(n) /\ <>Calm) => <>[](Unacked(rows[n]) = {})
=============================================================================

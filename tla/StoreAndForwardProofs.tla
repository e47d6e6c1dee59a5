------------------------ MODULE StoreAndForwardProofs ------------------------
(***************************************************************************)
(* TelemetryDelivery implements StoreAndForward: an action of the agents   *)
(* or of the collector produces, delivers or confirms events of one node,  *)
(* or leaves the queue as it is.                                           *)
(***************************************************************************)
EXTENDS TelemetryDeliveryProofs

\* A step that changes neither the rows nor the index.
LEMMA QueueStutters ==
  ASSUME UNCHANGED <<rows, received>>
  PROVE  UNCHANGED Queue!vars
BY DEF Queue!vars

\* Appending a row produces an event.
LEMMA AppendProduces ==
  ASSUME IInv, NEW n \in Node, NEW mode \in Mode \cup {NoMode},
         rows' = [rows EXCEPT ![n] = AppendRow(@, mode)], UNCHANGED received
  PROVE  Queue!Next
<1>1. rows \in [Node -> Seq(Row)] /\ rows[n] \in Seq(Row)
  BY DEF IInv, TypeOK
<1>2. /\ Len(AppendRow(rows[n], mode)) = Len(rows[n]) + 1
      /\ Acked(AppendRow(rows[n], mode)) = Acked(rows[n])
  BY <1>1, AppendRowFacts
<1>3. rows'[n] = AppendRow(rows[n], mode) /\ \A m \in Node : m # n => rows'[m] = rows[m]
  BY <1>1
<1>4. \A m \in Node : /\ Len(rows'[m]) = IF m = n THEN Len(rows[m]) + 1 ELSE Len(rows[m])
                      /\ Acked(rows'[m]) = Acked(rows[m])
  BY <1>2, <1>3
<1>5. Queue!Produce(n)
  BY <1>4 DEF Queue!Produce
<1>. QED  BY <1>5 DEF Queue!Next

\* Ingesting an event delivers it, or finds that it was delivered before.
LEMMA IngestDelivers ==
  ASSUME IInv, NEW n \in Node, NEW t \in Thread \cup {"nobody"}, Ingest(n, t)
  PROVE  Queue!Next \/ UNCHANGED Queue!vars
<1>1. UNCHANGED rows
  BY DEF Ingest, agentVars
<1>2. PICK c \in streams[n] :
        /\ c.todo # {}
        /\ received' = [received EXCEPT ![n] = @ \cup {Min(c.todo)}]
  BY DEF Ingest
<1>. DEFINE s == Min(c.todo)
            now == received[n] \cup {s}
<1>3. /\ rows[n] \in Seq(Row) /\ received \in [Node -> SUBSET Nat] /\ c \in Call
      /\ Arrived(rows[n], received[n]) /\ Carries(c, rows[n], received[n])
  BY DEF IInv, TypeOK, PathOK
<1>4. received'[n] = now /\ \A m \in Node : m # n => received'[m] = received[m]
  BY <1>2, <1>3
<1>5. CASE s \in received[n]
  <2>1. received' = received
    BY <1>2, <1>3, <1>4, <1>5
  <2>. QED  BY <1>1, <2>1, QueueStutters
<1>6. CASE s \notin received[n]
  <2>1. PICK k \in 0 .. Len(rows[n]) : now = 1 .. k
    BY <1>2, <1>3, NextArrival
  <2>2. PICK j \in 0 .. Len(rows[n]) : received[n] = 1 .. j
    BY <1>3 DEF Arrived
  <2>3. k \in Nat /\ j \in Nat /\ Len(rows[n]) \in Nat /\ k <= Len(rows[n])
    BY <1>3, LenProperties
  <2>4. now = 1 .. Last(received[n]) + 1
    BY <1>2, <1>3, <1>6, NextArrival
  <2>5. Last(received[n]) = j /\ Last(now) = k
    BY <2>1, <2>2, <2>3, LastOfPrefix
  <2>6. Last(1 .. j + 1) = j + 1
    BY <2>3, LastOfPrefix
  <2>7. k = j + 1
    BY <2>4, <2>5, <2>6
  <2>8. \A m \in Node :
          Last(received'[m]) = IF m = n THEN Last(received[m]) + 1 ELSE Last(received[m])
    BY <1>4, <2>5, <2>7
  <2>9. Last(received[n]) < Len(rows[n])
    BY <2>3, <2>5, <2>7
  <2>10. Queue!Deliver(n)
    BY <1>1, <2>8, <2>9 DEF Queue!Deliver
  <2>. QED  BY <2>10 DEF Queue!Next
<1>. QED  BY <1>5, <1>6

\* Applying an ack confirms events that were delivered.
LEMMA AckConfirms ==
  ASSUME IInv, NEW n \in Node, NEW t \in Thread, TakeAck(n, t)
  PROVE  Queue!Next \/ UNCHANGED Queue!vars
<1>1. PICK c \in streams[n] :
        rows' = [rows EXCEPT ![n] = Acknowledge(@, c.ack.last, c.ack.missing)]
  BY DEF TakeAck
<1>2. UNCHANGED received
  BY DEF TakeAck, collectorVars
<1>3. /\ rows \in [Node -> Seq(Row)] /\ rows[n] \in Seq(Row)
      /\ Len(rows[n]) \in Nat /\ c.ack.last \in Nat
      /\ Arrived(rows[n], received[n]) /\ Carries(c, rows[n], received[n])
  BY AckTypes, LenProperties DEF IInv, TypeOK, PathOK
<1>. DEFINE last == c.ack.last
            new == Acknowledge(rows[n], last, c.ack.missing)
<1>4. /\ Len(new) = Len(rows[n])
      /\ Acked(new) = Acked(rows[n]) \cup (Sequences(rows[n]) \cap 1 .. last)
  BY <1>3, AcknowledgeFacts DEF Carries
<1>5. rows'[n] = new /\ \A m \in Node : m # n => rows'[m] = rows[m]
  BY <1>1, <1>3
<1>. HIDE DEF new
<1>6. PICK k \in 0 .. Len(rows[n]) : received[n] = 1 .. k
  BY <1>3 DEF Arrived
<1>7. k \in Nat /\ k <= Len(rows[n]) /\ Last(received[n]) = k
  BY <1>3, <1>6, LastOfPrefix
<1>8. last = 0 \/ last \in 1 .. k
  BY <1>3, <1>6, <1>7 DEF Carries
<1>9. Sequences(rows[n]) \cap 1 .. last = 1 .. last
  BY <1>3, <1>7, <1>8 DEF Sequences
<1>10. \A m \in Node :
         /\ Len(rows'[m]) = Len(rows[m])
         /\ Acked(rows'[m]) = IF m = n THEN Acked(rows[m]) \cup 1 .. last
                              ELSE Acked(rows[m])
  BY <1>4, <1>5, <1>9
<1>. HIDE DEF last
<1>11. CASE last = 0
  <2>1. \A m \in Node : Acked(rows'[m]) = Acked(rows[m])
    BY <1>10, <1>11
  <2>. QED  BY <1>2, <1>10, <2>1 DEF Queue!vars
<1>12. CASE last \in 1 .. k
  <2>1. Queue!Confirm(n)
    BY <1>2, <1>7, <1>10, <1>12 DEF Queue!Confirm
  <2>. QED  BY <2>1 DEF Queue!Next
<1>. QED  BY <1>8, <1>11, <1>12

LEMMA QueueStep ==
  ASSUME IInv, [Next]_vars
  PROVE  [Queue!Next]_(Queue!vars)
<1>1. ASSUME NEW n \in Node, NEW mode \in Mode, NEW withCollector \in BOOLEAN,
             Start(n, mode, withCollector)
      PROVE  Queue!Next
  BY <1>1, AppendProduces DEF Start, collectorVars
<1>2. ASSUME NEW n \in Node, Emit(n)
      PROVE  Queue!Next
  BY <1>2, AppendProduces DEF Emit, collectorVars
<1>3. ASSUME NEW n \in Node, Number(n)
      PROVE  UNCHANGED Queue!vars
  <2>1. rows \in [Node -> Seq(Row)] /\ rows[n] \in Seq(Row) /\ Len(rows[n]) \in Nat
    BY LenProperties DEF IInv, TypeOK
  <2>2. /\ Len(ReplaceRow(rows[n], Len(rows[n]))) = Len(rows[n])
        /\ Acked(ReplaceRow(rows[n], Len(rows[n]))) = Acked(rows[n])
    BY <2>1, ReplaceRowFacts
  <2>3. /\ rows' = [rows EXCEPT ![n] = ReplaceRow(rows[n], Len(rows[n]))]
        /\ UNCHANGED received
    BY <1>3 DEF Number, collectorVars
  <2>4. /\ rows'[n] = ReplaceRow(rows[n], Len(rows[n]))
        /\ \A m \in Node : m # n => rows'[m] = rows[m]
    BY <2>1, <2>3
  <2>5. \A m \in Node : Len(rows'[m]) = Len(rows[m]) /\ Acked(rows'[m]) = Acked(rows[m])
    BY <2>2, <2>4
  <2>. QED  BY <2>3, <2>5 DEF Queue!vars
<1>4. ASSUME NEW n \in Node, NEW t \in Thread,
             RequestStop(n) \/ LeaveLoop(n) \/ FlushNothing(n) \/ Exit(n)
               \/ OpenCall(n, t)
      PROVE  UNCHANGED Queue!vars
  <2>1. UNCHANGED <<rows, received>>
    BY <1>4 DEF RequestStop, LeaveLoop, FlushNothing, Exit, OpenCall,
                agentVars, collectorVars
  <2>. QED  BY <2>1, QueueStutters
<1>5. ASSUME NEW n \in Node, NEW t \in Thread \cup {"nobody"}, Refuse(n, t)
      PROVE  UNCHANGED Queue!vars
  <2>1. UNCHANGED <<rows, received>>
    BY <1>5 DEF Refuse, collectorVars
  <2>. QED  BY <2>1, QueueStutters
<1>6. ASSUME NEW n \in Node, AgentNext(n)
      PROVE  Queue!Next \/ UNCHANGED Queue!vars
  <2>1. "sender" \in Thread
    BY DEF Thread
  <2>. QED  BY <1>1, <1>2, <1>3, <1>4, <1>6, <2>1, AckConfirms DEF AgentNext
<1>7. ASSUME CollectorNext
      PROVE  Queue!Next \/ UNCHANGED Queue!vars
  <2>1. CASE CollectorStart
    <3>1. UNCHANGED <<rows, received>>
      BY <2>1 DEF CollectorStart, agentVars
    <3>. QED  BY <3>1, QueueStutters
  <2>2. CASE \E n \in Node : NoticeCancelled(n)
    <3>1. UNCHANGED <<rows, received>>
      BY <2>2 DEF NoticeCancelled, agentVars, collectorVars
    <3>. QED  BY <3>1, QueueStutters
  <2>3. ASSUME NEW n \in Node, NEW t \in Thread \cup {"nobody"},
               Ingest(n, t) \/ Refuse(n, t)
        PROVE  Queue!Next \/ UNCHANGED Queue!vars
    BY <1>5, <2>3, IngestDelivers
  <2>. QED  BY <1>7, <2>1, <2>2, <2>3 DEF CollectorNext
<1>8. CASE Failure
  <2>1. UNCHANGED <<rows, received>>
    BY <1>8 DEF Failure, Crash, FailCall, CollectorCrash, collectorVars
  <2>. QED  BY <2>1, QueueStutters
<1>9. CASE UNCHANGED vars
  <2>1. UNCHANGED <<rows, received>>
    BY <1>9 DEF vars, agentVars, collectorVars
  <2>. QED  BY <2>1, QueueStutters
<1>. QED  BY <1>6, <1>7, <1>8, <1>9 DEF Next

LEMMA QueueInit == Init => Queue!Init
<1>. SUFFICES ASSUME Init PROVE Queue!Init
  OBVIOUS
<1>1. \A n \in Node : rows[n] = <<>> /\ received[n] = {}
  BY DEF Init
<1>2. Last({}) = 0
  <2>1. 1 .. 0 = {}
    OBVIOUS
  <2>. QED  BY <2>1, LastOfPrefix
<1>3. Len(<<>>) = 0 /\ Acked(<<>>) = {}
  BY DEF Acked, Sequences
<1>. QED  BY <1>1, <1>2, <1>3 DEF Queue!Init

(***************************************************************************)
(* For any number of nodes, events, batches and crashes, the agents, the   *)
(* network and the collector's index together behave as one queue a node:  *)
(* in order, nothing lost, nothing indexed twice, and confirmed only when  *)
(* indexed.                                                                *)
(***************************************************************************)
THEOREM PathImplementsQueue == Spec => ImplementsQueue
<1>. QED  BY InvariantHolds, QueueInit, QueueStep, PTL
          DEF Spec, ImplementsQueue, Queue!Spec
=============================================================================

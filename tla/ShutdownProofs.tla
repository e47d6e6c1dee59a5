---------------------------- MODULE ShutdownProofs ----------------------------
(***************************************************************************)
(* The end of an agent's process: a final flush that did not fail leaves   *)
(* only rows behind a full batch, for any number of nodes, events, batch   *)
(* sizes and overlapping calls of the sender thread.                       *)
(***************************************************************************)
EXTENDS TelemetryDeliveryProofs

-----------------------------------------------------------------------------
(***************************************************************************)
(* The strengthening.  The sender thread acknowledges, and the collector   *)
(* ingests, while the main thread's last call is under way; so the ack the *)
(* main thread waits for has to cover what is unacknowledged by then.      *)
(***************************************************************************)
MainCalls(n) == {c \in streams[n] : c.caller = "main"}

\* Row s is behind what a full batch had room for.
Beyond(c, s) == Cardinality(c.batch) = BatchLimit /\ \A b \in c.batch : b < s

\* What a call c is to get acknowledged: all there is to send, up to its limit.
Due(c, rs) == {s \in Unacked(rs) : ~ Beyond(c, s)}

\* Call c takes care of what is due.
Covers(c, rs, got) ==
  /\ Due(c, rs) \subseteq c.todo \cup got
  /\ c.todo = {} => Due(c, rs) \subseteq 1 .. c.ack.last

ShutdownOK(n) ==
  /\ persisting[n] => phase[n] \in {"booting", "running"}
  /\ MainCalls(n) # {} => phase[n] = "flushing"
  /\ \A c, d \in MainCalls(n) : c = d
  /\ \A c \in MainCalls(n) : Covers(c, rows[n], received[n])

AllShutdownOK == \A n \in Node : ShutdownOK(n)

-----------------------------------------------------------------------------
LEMMA UnackedIsRest ==
  ASSUME NEW rs
  PROVE  Unacked(rs) = Sequences(rs) \ Acked(rs)
BY DEF Unacked, Acked

\* A finite set of naturals that is not empty has a greatest element.
LEMMA GreatestOf ==
  ASSUME NEW k \in Nat, NEW S \in SUBSET (1 .. k), S # {}
  PROVE  \E m \in S : \A x \in S : x <= m
<1>. DEFINE mirror == {k - x : x \in S}
<1>1. mirror \in SUBSET Nat /\ mirror # {}
  <2>1. \A x \in S : k - x \in Nat
    BY SMT
  <2>2. mirror # {}
    BY Zenon
  <2>. QED  BY <2>1, <2>2
<1>2. Min(mirror) \in mirror /\ \A y \in mirror : Min(mirror) <= y
  BY <1>1, MinIsLeast
<1>3. PICK m \in S : Min(mirror) = k - m
  BY <1>2
<1>4. \A x \in S : k - m <= k - x
  BY <1>2, <1>3
<1>. QED  BY <1>4

\* A row that is not acknowledged and not read is behind `limit` rows that are.
LEMMA PendingIsFull ==
  ASSUME NEW rs \in Seq(Row), NEW limit \in Nat \ {0},
         NEW s \in Unacked(rs), s \notin Pending(rs, limit)
  PROVE  /\ Cardinality(Pending(rs, limit)) = limit
         /\ \A b \in Pending(rs, limit) : b < s
<1>. DEFINE U == Unacked(rs)
            P == Pending(rs, limit)
            below(r) == {x \in U : x < r}
<1>1. /\ Len(rs) \in Nat /\ U \subseteq 1 .. Len(rs) /\ IsFiniteSet(U)
  <2>1. Len(rs) \in Nat /\ IsFiniteSet(1 .. Len(rs))
    BY LenProperties, FS_Interval
  <2>2. U \in SUBSET (1 .. Len(rs))
    BY DEF Unacked, Sequences
  <2>. QED  BY <2>1, <2>2, FS_Subset
<1>2. P \subseteq U /\ \A r \in P : \A x \in U : x < r => x \in P
  BY PendingFacts
<1>3. \A r \in U : r \in P <=> Cardinality(below(r)) < limit
  BY DEF Pending
<1>4. \A r \in U : IsFiniteSet(below(r)) /\ Cardinality(below(r)) \in Nat
  <2>1. \A r \in U : below(r) \in SUBSET U
    OBVIOUS
  <2>. QED  BY <1>1, <2>1, FS_Subset, FS_CardinalityType
<1>. HIDE DEF P
<1>5. \A b \in P : b < s
  <2>1. s \notin P
    BY DEF P
  <2>. QED  BY <1>1, <1>2, <2>1
<1>6. PICK m \in U \ P : \A x \in U \ P : m <= x
  <2>1. s \in U \ P /\ (U \ P) \in SUBSET Nat
    BY <1>1 DEF P
  <2>. QED  BY <2>1, MinIsLeast
<1>7. P = below(m)
  BY <1>1, <1>2, <1>6
<1>8. Cardinality(P) >= limit /\ IsFiniteSet(P) /\ Cardinality(P) \in Nat
  BY <1>3, <1>4, <1>6, <1>7
<1>9. Cardinality(P) <= limit
  <2>1. P # {}
    BY <1>8, FS_EmptySet
  <2>2. PICK g \in P : \A x \in P : x <= g
    BY <1>1, <1>2, <2>1, GreatestOf
  <2>3. P \ {g} = below(g) /\ g \in U
    BY <1>1, <1>2, <2>2
  <2>4. Cardinality(below(g)) < limit /\ Cardinality(below(g)) \in Nat
    BY <1>3, <1>4, <2>2, <2>3
  <2>5. Cardinality(P \ {g}) = Cardinality(P) - 1
    BY <1>8, <2>2, FS_RemoveElement, Zenon
  <2>6. limit \in Nat /\ Cardinality(P) - 1 < limit
    BY <2>3, <2>4, <2>5
  <2>. QED  BY <1>8, <2>6
<1>. QED  BY <1>5, <1>8, <1>9 DEF P

\* Whoever gives up on calls cs, no call of the main thread but these is gone.
LEMMA AbandonedMainCalls ==
  ASSUME streams \in [Node -> SUBSET Call], NEW n \in Node,
         NEW cs \in SUBSET streams[n], Abandon(n, cs)
  PROVE  /\ MainCalls(n)' = MainCalls(n) \ cs
         /\ \A m \in Node : m # n => streams'[m] = streams[m]
<1>. DEFINE orphan(c) == [c EXCEPT !.caller = "nobody"]
            orphans == {orphan(c) : c \in {d \in cs : d.todo # {}}}
<1>1. \A c \in Call : orphan(c).caller = "nobody"
  BY DEF Call
<1>2. streams[n] \in SUBSET Call
  OBVIOUS
<1>3. PICK kept \in SUBSET orphans :
        streams' = [streams EXCEPT ![n] = (@ \ cs) \cup kept]
  BY Zenon DEF Abandon
<1>. HIDE DEF orphan
<1>4. \A c \in kept : c.caller # "main"
  BY <1>1, <1>2
<1>5. /\ streams'[n] = (streams[n] \ cs) \cup kept
      /\ \A m \in Node : m # n => streams'[m] = streams[m]
  BY <1>3
<1>. QED  BY <1>4, <1>5 DEF MainCalls

-----------------------------------------------------------------------------
(***************************************************************************)
(* Two kinds of steps that most actions are, seen from a node.             *)
(***************************************************************************)

\* No row is added, and what is acknowledged or received stays so; the main
\* thread has no new call, and no event half stored.
Quiet(n) ==
  /\ Len(rows'[n]) = Len(rows[n])
  /\ Acked(rows[n]) \subseteq Acked(rows'[n])
  /\ received[n] \subseteq received'[n]
  /\ MainCalls(n)' \subseteq MainCalls(n)
  /\ persisting'[n] => persisting[n]

LEMMA QuietUnacked ==
  ASSUME NEW n \in Node, Quiet(n)
  PROVE  Unacked(rows'[n]) \subseteq Unacked(rows[n])
BY UnackedIsRest DEF Quiet, Sequences

LEMMA QuietStep ==
  ASSUME NEW n \in Node, ShutdownOK(n), Quiet(n), phase'[n] = phase[n]
  PROVE  ShutdownOK(n)'
<1>1. Unacked(rows'[n]) \subseteq Unacked(rows[n])
  BY QuietUnacked
<1>2. \A c : Covers(c, rows[n], received[n]) => Covers(c, rows'[n], received'[n])
  BY <1>1 DEF Covers, Due, Quiet
<1>. QED  BY <1>1, <1>2 DEF ShutdownOK, Quiet

\* The main thread is in no call, and has stored its events whole.
LEMMA FreeStep ==
  ASSUME NEW n \in Node, MainCalls(n)' = {},
         persisting'[n] => phase'[n] \in {"booting", "running"}
  PROVE  ShutdownOK(n)'
BY DEF ShutdownOK

\* A node the step is not about.
LEMMA OtherNode ==
  ASSUME NEW n \in Node, ShutdownOK(n),
         rows'[n] = rows[n], phase'[n] = phase[n], persisting'[n] = persisting[n],
         streams'[n] = streams[n], received'[n] = received[n]
  PROVE  ShutdownOK(n)'
BY QuietStep DEF Quiet, MainCalls

-----------------------------------------------------------------------------
(***************************************************************************)
(* The agent's actions.                                                    *)
(***************************************************************************)

\* What a step does to a call's rows and acks is known already.
Before == IInv /\ AllShutdownOK /\ IInv' /\ \A n \in Node : Acked(rows[n]) \subseteq Acked(rows'[n])

\* A new row is only stored while the main thread is in no call.
LEMMA MainThreadStep ==
  ASSUME Before, NEW n \in Node,
         \/ \E mode \in Mode, withCollector \in BOOLEAN : Start(n, mode, withCollector)
         \/ Emit(n)
         \/ Number(n)
         \/ RequestStop(n)
         \/ LeaveLoop(n)
         \/ FlushNothing(n)
  PROVE  AllShutdownOK'
<1>1. /\ TypeOK /\ \A m \in Node : ShutdownOK(m)
      /\ UNCHANGED <<streams, received>>
  BY DEF Before, AllShutdownOK, IInv, Start, Emit, Number, RequestStop, LeaveLoop,
     FlushNothing, collectorVars
<1>2. \A m \in Node : MainCalls(m)' = MainCalls(m)
  BY <1>1 DEF MainCalls
<1>3. \A m \in Node : m # n => ShutdownOK(m)'
  <2>1. \A m \in Node : m # n => /\ rows'[m] = rows[m] /\ phase'[m] = phase[m]
                                 /\ persisting'[m] = persisting[m]
    BY <1>1 DEF TypeOK, Start, Emit, Number, RequestStop, LeaveLoop, FlushNothing
  <2>. QED  BY <1>1, <2>1, OtherNode
<1>. SUFFICES ShutdownOK(n)'
  BY <1>3 DEF AllShutdownOK
<1>4. /\ rows[n] \in Seq(Row) /\ ShutdownOK(n)
      /\ phase[n] # "flushing" => MainCalls(n)' = {}
  BY <1>1, <1>2 DEF TypeOK, ShutdownOK
<1>5. ASSUME NEW mode \in Mode, NEW withCollector \in BOOLEAN,
             Start(n, mode, withCollector)
      PROVE  ShutdownOK(n)'
  <2>1. phase[n] = "off" /\ phase'[n] = "booting"
    BY <1>1, <1>5 DEF Start, TypeOK
  <2>. QED  BY <1>4, <2>1, FreeStep
<1>6. CASE Emit(n)
  <2>1. phase[n] = "running" /\ phase'[n] = "running"
    BY <1>6 DEF Emit
  <2>. QED  BY <1>4, <2>1, FreeStep
<1>7. CASE Number(n)
  <2>1. phase[n] \in {"booting", "running"} /\ phase'[n] = "running"
    BY <1>1, <1>4, <1>7 DEF Number, ShutdownOK, TypeOK
  <2>. QED  BY <1>4, <2>1, FreeStep
<1>8. CASE RequestStop(n)
  <2>1. /\ rows'[n] = rows[n] /\ phase'[n] = phase[n] /\ persisting'[n] = persisting[n]
        /\ streams'[n] = streams[n] /\ received'[n] = received[n]
    BY <1>1, <1>8 DEF RequestStop
  <2>. QED  BY <1>4, <2>1, OtherNode
<1>9. CASE LeaveLoop(n)
  <2>1. /\ phase[n] = "running" /\ phase'[n] \in {"flushing", "done"}
        /\ ~ persisting'[n]
    BY <1>1, <1>9 DEF LeaveLoop, TypeOK
  <2>. QED  BY <1>4, <2>1, FreeStep
<1>10. CASE FlushNothing(n)
  <2>1. /\ MainCalls(n) = {} /\ phase'[n] = "flushed"
        /\ phase[n] = "flushing" /\ persisting' = persisting
    BY <1>1, <1>10 DEF FlushNothing, InCall, MainCalls, TypeOK
  <2>2. ~ persisting'[n] /\ MainCalls(n)' = {}
    BY <1>2, <1>4, <2>1 DEF ShutdownOK
  <2>. QED  BY <2>1, <2>2, FreeStep
<1>. QED  BY <1>5, <1>6, <1>7, <1>8, <1>9, <1>10, Zenon

\* The process ends, and its calls with it.
LEMMA ProcessEnds ==
  ASSUME Before, NEW n \in Node, Exit(n) \/ Crash(n)
  PROVE  AllShutdownOK'
<1>1. /\ TypeOK /\ \A m \in Node : ShutdownOK(m)
      /\ rows' = rows /\ received' = received
      /\ Abandon(n, streams[n] \ Stale(n))
      /\ phase' = [phase EXCEPT ![n] = "off"]
      /\ \A m \in Node : m # n => persisting'[m] = persisting[m]
  BY DEF Before, AllShutdownOK, IInv, TypeOK, Exit, Crash, collectorVars
<1>2. /\ MainCalls(n)' = MainCalls(n) \ (streams[n] \ Stale(n))
      /\ \A m \in Node : m # n => streams'[m] = streams[m]
  BY <1>1, AbandonedMainCalls DEF TypeOK
<1>3. MainCalls(n)' = {}
  BY <1>2 DEF MainCalls, Stale
<1>4. ~ persisting'[n] /\ phase'[n] = "off"
  <2>1. CASE Exit(n)
    BY <1>1, <2>1 DEF Exit, ShutdownOK, TypeOK
  <2>2. CASE Crash(n)
    BY <1>1, <2>2 DEF Crash, TypeOK
  <2>. QED  BY <2>1, <2>2
<1>5. ShutdownOK(n)'
  BY <1>3, <1>4 DEF ShutdownOK
<1>6. \A m \in Node : m # n => ShutdownOK(m)'
  BY <1>1, <1>2, OtherNode DEF TypeOK
<1>. QED  BY <1>5, <1>6 DEF AllShutdownOK

\* A call begins; what the main thread's does not read is behind a full batch.
LEMMA CallBegins ==
  ASSUME Before, NEW n \in Node, NEW t \in Thread, OpenCall(n, t)
  PROVE  AllShutdownOK'
<1>1. /\ TypeOK /\ \A m \in Node : ShutdownOK(m)
      /\ UNCHANGED <<rows, phase, persisting, received>>
  BY DEF Before, AllShutdownOK, IInv, OpenCall, agentVars, collectorVars
<1>. DEFINE raw == {s \in Pend(n) : ~ rows[n][s].numbered}
            c   == Stream(t, Pend(n), raw)
<1>2. /\ streams' = [streams EXCEPT ![n] = @ \cup {c}]
      /\ c.caller = t /\ c.todo = Pend(n) /\ c.batch = Pend(n) /\ Pend(n) # {}
  BY DEF OpenCall, Stream
<1>. HIDE DEF c
<1>3. /\ streams'[n] = streams[n] \cup {c}
      /\ \A m \in Node : m # n => streams'[m] = streams[m]
  BY <1>1, <1>2 DEF TypeOK
<1>4. \A m \in Node : m # n => ShutdownOK(m)'
  BY <1>1, <1>3, OtherNode
<1>5. CASE t = "sender"
  <2>1. MainCalls(n)' = MainCalls(n)
    BY <1>2, <1>3, <1>5 DEF MainCalls
  <2>2. Quiet(n)
    BY <1>1, <2>1 DEF Quiet, TypeOK
  <2>. QED  BY <1>1, <1>4, <2>2, QuietStep DEF AllShutdownOK
<1>6. CASE t = "main"
  <2>1. MainCalls(n)' = {c} /\ phase[n] = "flushing"
    BY <1>2, <1>3, <1>6 DEF MainCalls, OpenCall, InCall, MayFlush
  <2>2. Covers(c, rows[n], received[n])
    <3>1. rows[n] \in Seq(Row)
      BY <1>1 DEF TypeOK
    <3>2. \A s \in Unacked(rows[n]) : s \notin Pend(n) => Beyond(c, s)
      BY <1>2, <3>1, PendingIsFull, ConstantsOK DEF Pend, Beyond
    <3>. QED  BY <1>2, <3>2 DEF Covers, Due
  <2>3. ~ persisting[n] /\ phase'[n] = phase[n] /\ persisting'[n] = persisting[n]
    BY <1>1, <2>1 DEF ShutdownOK
  <2>4. ShutdownOK(n)'
    BY <1>1, <2>1, <2>2, <2>3 DEF ShutdownOK
  <2>. QED  BY <1>4, <2>4 DEF AllShutdownOK
<1>. QED  BY <1>5, <1>6 DEF Thread

\* An ack arrives: the calls that go on have no more to take care of.
LEMMA AckArrives ==
  ASSUME Before, NEW n \in Node, NEW t \in Thread, TakeAck(n, t)
  PROVE  AllShutdownOK'
<1>1. /\ TypeOK /\ \A m \in Node : ShutdownOK(m)
      /\ \A m \in Node : Acked(rows[m]) \subseteq Acked(rows'[m])
      /\ UNCHANGED <<persisting, received>>
      /\ phase' = IF t = "main" THEN [phase EXCEPT ![n] = "flushed"] ELSE phase
  BY DEF Before, AllShutdownOK, IInv, TakeAck, AfterFlush, collectorVars
<1>2. PICK c \in streams[n] :
        /\ c.caller = t /\ c.todo = {}
        /\ rows' = [rows EXCEPT ![n] = Acknowledge(@, c.ack.last, c.ack.missing)]
        /\ streams' = [streams EXCEPT ![n] = @ \ {c}]
  BY DEF TakeAck
<1>3. /\ rows'[n] = Acknowledge(rows[n], c.ack.last, c.ack.missing)
      /\ streams'[n] = streams[n] \ {c}
      /\ \A m \in Node : m # n => rows'[m] = rows[m] /\ streams'[m] = streams[m]
  BY <1>1, <1>2 DEF TypeOK
<1>4. /\ rows[n] \in Seq(Row) /\ c.ack.last \in Nat /\ c.ack.missing = {}
  BY <1>1, AckTypes DEF Before, IInv, PathOK, Carries, TypeOK
<1>5. /\ Len(rows'[n]) = Len(rows[n])
      /\ Acked(rows'[n]) = Acked(rows[n]) \cup (Sequences(rows[n]) \cap 1 .. c.ack.last)
  BY <1>3, <1>4, AcknowledgeFacts
<1>6. MainCalls(n)' = MainCalls(n) \ {c}
  BY <1>3 DEF MainCalls
<1>7. \A m \in Node : m # n => ShutdownOK(m)'
  BY <1>1, <1>3, OtherNode DEF TypeOK
<1>8. Quiet(n)
  BY <1>1, <1>5, <1>6 DEF Quiet
<1>9. CASE t = "sender"
  BY <1>1, <1>7, <1>8, <1>9, QuietStep DEF AllShutdownOK
<1>10. CASE t = "main"
  <2>1. c \in MainCalls(n) /\ phase'[n] = "flushed" /\ phase[n] = "flushing"
    BY <1>1, <1>2, <1>10 DEF MainCalls, ShutdownOK, TypeOK
  <2>2. MainCalls(n)' = {}
    BY <1>1, <1>6, <2>1 DEF ShutdownOK
  <2>3. ~ persisting'[n]
    BY <1>1, <2>1 DEF ShutdownOK
  <2>5. ShutdownOK(n)'
    BY <1>5, <2>2, <2>3, FreeStep
  <2>. QED  BY <1>7, <2>5 DEF AllShutdownOK
<1>. QED  BY <1>9, <1>10 DEF Thread

\* The flush of thread t ends without an ack, and only its call may be gone.
LEMMA FlushFails ==
  ASSUME Before, NEW n \in Node, NEW t \in Thread \cup {"nobody"}, NEW c \in streams[n],
         c.caller = t, AfterFlush(n, t, "warned"),
         UNCHANGED <<rows, persisting, received>>,
         MainCalls(n)' = MainCalls(n) \ {c},
         \A m \in Node : m # n => streams'[m] = streams[m]
  PROVE  AllShutdownOK'
<1>1. /\ TypeOK /\ \A m \in Node : ShutdownOK(m)
      /\ phase' = IF t = "main" THEN [phase EXCEPT ![n] = "warned"] ELSE phase
  BY DEF Before, AllShutdownOK, IInv, AfterFlush
<1>2. \A m \in Node : m # n => ShutdownOK(m)'
  BY <1>1, OtherNode DEF TypeOK
<1>. SUFFICES ShutdownOK(n)'
  BY <1>2 DEF AllShutdownOK
<1>3. CASE t = "main"
  <2>1. c \in MainCalls(n) /\ phase'[n] = "warned" /\ phase[n] = "flushing"
    BY <1>1, <1>3 DEF MainCalls, ShutdownOK, TypeOK
  <2>2. MainCalls(n)' = {} /\ ~ persisting'[n]
    BY <1>1, <2>1 DEF ShutdownOK
  <2>. QED  BY <2>1, <2>2, FreeStep
<1>4. CASE t # "main"
  <2>1. Quiet(n) /\ phase'[n] = phase[n]
    BY <1>1, <1>4 DEF Quiet, Before
  <2>. QED  BY <1>1, <2>1, QuietStep
<1>. QED  BY <1>3, <1>4

-----------------------------------------------------------------------------
(***************************************************************************)
(* The collector's actions.                                                *)
(***************************************************************************)

\* The next event of a call arrives: the call still takes care of what is not
\* acknowledged, and with its last event its ack does.
LEMMA EventArrives ==
  ASSUME Before, NEW n \in Node, NEW t \in Thread \cup {"nobody"}, Ingest(n, t)
  PROVE  AllShutdownOK'
<1>1. PICK c \in streams[n] :
        LET s    == Min(c.todo)
            rest == c.todo \ {s}
            now  == received[n] \cup {s}
            ack  == IF rest = {}
                    THEN [last |-> Last(now), missing |-> Missing(now)]
                    ELSE c.ack
            next == [c EXCEPT !.todo = rest, !.ack = ack]
            left == IF t = "nobody" /\ rest = {} THEN {} ELSE {next}
        IN  /\ c.caller = t
            /\ c.todo # {}
            /\ received' = [received EXCEPT ![n] = now]
            /\ streams' = [streams EXCEPT ![n] = (@ \ {c}) \cup left]
  BY DEF Ingest
<1>. DEFINE s    == Min(c.todo)
            rest == c.todo \ {s}
            now  == received[n] \cup {s}
            ack  == IF rest = {}
                    THEN [last |-> Last(now), missing |-> Missing(now)]
                    ELSE c.ack
            next == [c EXCEPT !.todo = rest, !.ack = ack]
            left == IF t = "nobody" /\ rest = {} THEN {} ELSE {next}
<1>2. /\ TypeOK /\ \A m \in Node : ShutdownOK(m)
      /\ UNCHANGED <<rows, phase, persisting>>
      /\ c \in Call /\ rows[n] \in Seq(Row)
      /\ Arrived(rows[n], received[n]) /\ Carries(c, rows[n], received[n])
  BY DEF Before, AllShutdownOK, IInv, PathOK, TypeOK, Ingest, agentVars
<1>3. /\ c.caller = t /\ c.todo # {}
      /\ received'[n] = now
      /\ streams'[n] = (streams[n] \ {c}) \cup left
      /\ \A m \in Node : m # n => received'[m] = received[m] /\ streams'[m] = streams[m]
  BY <1>1, <1>2 DEF TypeOK
<1>4. \A m \in Node : m # n => ShutdownOK(m)'
  BY <1>2, <1>3, OtherNode
<1>. SUFFICES ShutdownOK(n)'
  BY <1>4 DEF AllShutdownOK
<1>5. PICK k \in 0 .. Len(rows[n]) : now = 1 .. k
  <2>1. c.todo # {} /\ rows[n] \in Seq(Row) /\ c \in Call
    BY <1>2, <1>3
  <2>2. Arrived(rows[n], received[n]) /\ Carries(c, rows[n], received[n])
    BY <1>2
  <2>. QED  BY <2>1, <2>2, NextArrival
<1>6. rest = {} => now = 1 .. ack.last
  <2>1. k \in Nat
    BY <1>2, <1>5, LenProperties
  <2>2. Last(now) = k
    BY <1>5, <2>1, LastOfPrefix
  <2>. QED  BY <1>5, <2>2
<1>7. next.caller = t /\ next.todo = rest /\ next.ack = ack /\ next.batch = c.batch
  BY <1>2, <1>3 DEF Call
<1>. HIDE DEF s, ack, next
<1>8. CASE t # "main"
  <2>1. MainCalls(n)' = MainCalls(n)
    BY <1>3, <1>7, <1>8 DEF MainCalls
  <2>2. Quiet(n)
    BY <1>2, <1>3, <2>1 DEF Quiet
  <2>. QED  BY <1>2, <2>2, QuietStep
<1>9. CASE t = "main"
  <2>1. MainCalls(n) = {c} /\ MainCalls(n)' = {next} /\ phase[n] = "flushing"
    <3>1. c \in MainCalls(n) /\ phase[n] = "flushing" /\ MainCalls(n) = {c}
      BY <1>2, <1>3, <1>9 DEF MainCalls, ShutdownOK
    <3>2. left = {next}
      BY <1>9
    <3>3. MainCalls(n)' = (MainCalls(n) \ {c}) \cup {next}
      BY <1>3, <1>7, <1>9, <3>2 DEF MainCalls
    <3>. QED  BY <3>1, <3>3
  <2>2. Covers(next, rows[n], now)
    <3>1. Due(c, rows[n]) \subseteq c.todo \cup received[n]
      BY <1>2, <2>1 DEF ShutdownOK, Covers
    <3>2. Due(next, rows[n]) = Due(c, rows[n])
      BY <1>7 DEF Due, Beyond
    <3>3. Due(c, rows[n]) \subseteq rest \cup now
      BY <3>1
    <3>. QED  BY <1>6, <1>7, <3>2, <3>3 DEF Covers
  <2>3. ~ persisting[n]
    BY <1>2, <2>1 DEF ShutdownOK
  <2>. QED  BY <1>2, <1>3, <2>1, <2>2, <2>3 DEF ShutdownOK
<1>. QED  BY <1>8, <1>9

LEMMA RefusedCall ==
  ASSUME Before, NEW n \in Node, NEW t \in Thread \cup {"nobody"}, Refuse(n, t)
  PROVE  AllShutdownOK'
<1>1. PICK c \in streams[n] :
        c.caller = t /\ streams' = [streams EXCEPT ![n] = @ \ {c}]
  BY DEF Refuse
<1>2. /\ streams'[n] = streams[n] \ {c}
      /\ \A m \in Node : m # n => streams'[m] = streams[m]
  BY <1>1 DEF Before, IInv, TypeOK
<1>3. MainCalls(n)' = MainCalls(n) \ {c}
  BY <1>2 DEF MainCalls
<1>. QED  BY <1>1, <1>2, <1>3, FlushFails DEF Refuse, collectorVars

LEMMA FailedCall ==
  ASSUME Before, NEW n \in Node, NEW t \in Thread, FailCall(n, t)
  PROVE  AllShutdownOK'
<1>1. PICK c \in streams[n] : c.caller = t /\ Abandon(n, {c})
  BY DEF FailCall
<1>2. /\ MainCalls(n)' = MainCalls(n) \ {c}
      /\ \A m \in Node : m # n => streams'[m] = streams[m]
  BY <1>1, AbandonedMainCalls DEF Before, IInv, TypeOK
<1>. QED  BY <1>1, <1>2, FlushFails DEF FailCall, collectorVars

\* The collector drops the calls it was reading; those that have their ack
\* stay as they are.
LEMMA CollectorDies ==
  ASSUME Before, CollectorCrash
  PROVE  AllShutdownOK'
<1>1. /\ TypeOK /\ \A n \in Node : ShutdownOK(n)
      /\ UNCHANGED <<rows, persisting, received>>
      /\ streams' = [n \in Node |->
                       {c \in streams[n] : c.todo = {} /\ c.caller \in Thread}]
      /\ phase' = [n \in Node |->
                     IF \E c \in streams[n] : c.caller = "main" /\ c.todo # {}
                     THEN "warned" ELSE phase[n]]
  BY DEF Before, AllShutdownOK, IInv, CollectorCrash
<1>. SUFFICES ASSUME NEW n \in Node PROVE ShutdownOK(n)'
  BY DEF AllShutdownOK
<1>2. MainCalls(n)' = {c \in MainCalls(n) : c.todo = {}}
  BY <1>1 DEF MainCalls, Thread
<1>3. CASE \E c \in MainCalls(n) : c.todo # {}
  <2>1. phase'[n] = "warned" /\ phase[n] = "flushing"
    BY <1>1, <1>3 DEF MainCalls, ShutdownOK
  <2>2. MainCalls(n)' = {}
    BY <1>1, <1>2, <1>3 DEF ShutdownOK
  <2>3. ~ persisting'[n]
    BY <1>1, <2>1 DEF ShutdownOK
  <2>. QED  BY <2>1, <2>2, <2>3, FreeStep
<1>4. CASE ~ \E c \in MainCalls(n) : c.todo # {}
  <2>1. phase'[n] = phase[n] /\ Quiet(n)
    BY <1>1, <1>2, <1>4 DEF MainCalls, Quiet
  <2>. QED  BY <1>1, <2>1, QuietStep
<1>. QED  BY <1>3, <1>4

\* A step that concerns no call of the main thread.
LEMMA OtherSteps ==
  ASSUME Before,
         \/ \E n \in Node : NoticeCancelled(n)
         \/ CollectorStart
         \/ UNCHANGED vars
  PROVE  AllShutdownOK'
<1>1. /\ TypeOK /\ \A n \in Node : ShutdownOK(n)
      /\ UNCHANGED <<rows, phase, persisting, received>>
  BY DEF Before, AllShutdownOK, IInv, NoticeCancelled, CollectorStart, vars, agentVars,
     collectorVars
<1>2. \A n \in Node : MainCalls(n)' \subseteq MainCalls(n)
  BY <1>1 DEF TypeOK, MainCalls, NoticeCancelled, CollectorStart, vars
<1>3. \A n \in Node : Quiet(n)
  BY <1>1, <1>2 DEF Quiet
<1>. QED  BY <1>1, <1>3, QuietStep DEF AllShutdownOK

-----------------------------------------------------------------------------
(***************************************************************************)
(* Every step keeps the strengthening, under the invariant of the path.    *)
(***************************************************************************)
LEMMA ShutdownStep ==
  ASSUME IInv, AllShutdownOK, [Next]_vars
  PROVE  AllShutdownOK'
<1>1. Before
  BY InvariantStep DEF Before
<1>2. ASSUME NEW n \in Node, AgentNext(n)
      PROVE  AllShutdownOK'
  <2>1. CASE \/ \E mode \in Mode, withCollector \in BOOLEAN : Start(n, mode, withCollector)
             \/ Emit(n)
             \/ Number(n)
             \/ RequestStop(n)
             \/ LeaveLoop(n)
             \/ FlushNothing(n)
    BY <1>1, <2>1, MainThreadStep
  <2>2. CASE Exit(n)
    BY <1>1, <2>2, ProcessEnds
  <2>3. CASE \E t \in Thread : OpenCall(n, t) \/ TakeAck(n, t)
    BY <1>1, <2>3, CallBegins, AckArrives
  <2>. QED  BY <1>2, <2>1, <2>2, <2>3 DEF AgentNext
<1>3. CASE CollectorNext
  BY <1>1, <1>3, EventArrives, RefusedCall, OtherSteps DEF CollectorNext
<1>4. CASE Failure
  BY <1>1, <1>4, ProcessEnds, FailedCall, CollectorDies DEF Failure
<1>5. CASE UNCHANGED vars
  BY <1>1, <1>5, OtherSteps
<1>. QED  BY <1>2, <1>3, <1>4, <1>5 DEF Next

\* The final flush finds nothing to send, or its ack acknowledges what is due.
LEMMA SilentFlush ==
  ASSUME IInv, AllShutdownOK, NEW n \in Node,
         FlushNothing(n) \/ TakeAck(n, "main"), NEW s \in Unacked(rows'[n])
  PROVE  \E c \in streams[n] : c.caller = "main" /\ Beyond(c, s)
<1>1. /\ TypeOK /\ ShutdownOK(n) /\ rows[n] \in Seq(Row)
  BY DEF IInv, AllShutdownOK, TypeOK
<1>2. CASE FlushNothing(n)
  <2>1. s \in Unacked(rows[n]) /\ Pend(n) = {}
    BY <1>2 DEF FlushNothing
  <2>2. Cardinality(Pend(n)) = BatchLimit
    BY <1>1, <2>1, PendingIsFull, ConstantsOK DEF Pend
  <2>. QED  BY <2>1, <2>2, FS_EmptySet, ConstantsOK
<1>3. CASE TakeAck(n, "main")
  <2>1. PICK c \in streams[n] :
          /\ c.caller = "main" /\ c.todo = {}
          /\ rows' = [rows EXCEPT ![n] = Acknowledge(@, c.ack.last, c.ack.missing)]
    BY <1>3 DEF TakeAck
  <2>2. /\ rows'[n] = Acknowledge(rows[n], c.ack.last, c.ack.missing)
        /\ c.ack.last \in Nat /\ c.ack.missing = {}
    BY <1>1, <2>1, AckTypes DEF IInv, PathOK, Carries, TypeOK
  <2>3. /\ Len(rows'[n]) = Len(rows[n])
        /\ Acked(rows'[n]) = Acked(rows[n]) \cup (Sequences(rows[n]) \cap 1 .. c.ack.last)
    BY <1>1, <2>2, AcknowledgeFacts
  <2>4. Due(c, rows[n]) \subseteq 1 .. c.ack.last
    BY <1>1, <2>1 DEF ShutdownOK, MainCalls, Covers
  <2>5. s \in Unacked(rows[n]) /\ s \notin 1 .. c.ack.last
    BY <2>3, UnackedIsRest DEF Sequences
  <2>. QED  BY <2>1, <2>4, <2>5 DEF Due
<1>. QED  BY <1>2, <1>3

\* Only these two steps end the final flush without a warning.
LEMMA FlushedBy ==
  ASSUME TypeOK, [Next]_vars, NEW n \in Node,
         phase[n] = "flushing", phase'[n] = "flushed"
  PROVE  FlushNothing(n) \/ TakeAck(n, "main")
<1>1. ASSUME NEW m \in Node, AgentNext(m)
      PROVE  FlushNothing(n) \/ TakeAck(n, "main")
  <2>1. ASSUME NEW mode \in Mode, NEW withCollector \in BOOLEAN,
               Start(m, mode, withCollector)
        PROVE  FALSE
    BY <2>1 DEF Start, TypeOK
  <2>2. CASE Emit(m) \/ RequestStop(m)
    BY <2>2 DEF Emit, RequestStop
  <2>3. CASE Number(m) \/ LeaveLoop(m) \/ Exit(m)
    BY <2>3 DEF Number, LeaveLoop, Exit, TypeOK
  <2>4. CASE FlushNothing(m)
    BY <2>4 DEF FlushNothing, TypeOK
  <2>5. ASSUME NEW t \in Thread, OpenCall(m, t)
        PROVE  FALSE
    BY <2>5 DEF OpenCall, agentVars
  <2>6. ASSUME NEW t \in Thread, TakeAck(m, t)
        PROVE  m = n /\ t = "main"
    BY <2>6 DEF TakeAck, AfterFlush, TypeOK
  <2>. QED  BY <1>1, <2>1, <2>2, <2>3, <2>4, <2>5, <2>6 DEF AgentNext
<1>2. CASE CollectorNext
  <2>1. ASSUME NEW m \in Node, NEW t \in Thread \cup {"nobody"}, Ingest(m, t)
        PROVE  FALSE
    BY <2>1 DEF Ingest, agentVars
  <2>2. ASSUME NEW m \in Node, NEW t \in Thread \cup {"nobody"}, Refuse(m, t)
        PROVE  FALSE
    BY <2>2 DEF Refuse, AfterFlush, TypeOK
  <2>3. CASE CollectorStart \/ \E m \in Node : NoticeCancelled(m)
    BY <2>3 DEF CollectorStart, NoticeCancelled, agentVars
  <2>. QED  BY <1>2, <2>1, <2>2, <2>3 DEF CollectorNext
<1>3. CASE Failure
  <2>1. ASSUME NEW m \in Node, Crash(m)
        PROVE  FALSE
    BY <2>1 DEF Crash, TypeOK
  <2>2. ASSUME NEW m \in Node, NEW t \in Thread, FailCall(m, t)
        PROVE  FALSE
    BY <2>2 DEF FailCall, AfterFlush, TypeOK
  <2>3. CASE CollectorCrash
    BY <2>3 DEF CollectorCrash
  <2>. QED  BY <1>3, <2>1, <2>2, <2>3 DEF Failure
<1>4. CASE UNCHANGED vars
  BY <1>4 DEF vars, agentVars
<1>. QED  BY <1>1, <1>2, <1>3, <1>4 DEF Next

(***************************************************************************)
(* Whatever a final flush that did not warn leaves unacknowledged is       *)
(* behind a full batch that it sent: whatever the sender thread's call,    *)
(* given up streams and the collector's restarts did meanwhile.            *)
(***************************************************************************)
THEOREM FlushLeavesOnlyRest == Spec => SilentFlushLeavesOnlyRest
<1>1. Init => AllShutdownOK
  BY DEF Init, AllShutdownOK, ShutdownOK, MainCalls
<1>2. IInv /\ AllShutdownOK /\ [Next]_vars => AllShutdownOK'
  BY ShutdownStep
<1>3. IInv /\ AllShutdownOK /\ [Next]_vars =>
        [\A n \in Node :
           phase[n] = "flushing" /\ phase'[n] = "flushed" =>
             \A s \in Unacked(rows'[n]) : \E c \in streams[n] :
               /\ c.caller = "main"
               /\ Cardinality(c.batch) = BatchLimit
               /\ \A b \in c.batch : b < s]_vars
  <2>. SUFFICES ASSUME IInv, AllShutdownOK, [Next]_vars, NEW n \in Node,
                       phase[n] = "flushing", phase'[n] = "flushed",
                       NEW s \in Unacked(rows'[n])
                PROVE  \E c \in streams[n] : /\ c.caller = "main"
                                             /\ Cardinality(c.batch) = BatchLimit
                                             /\ \A b \in c.batch : b < s
    OBVIOUS
  <2>1. FlushNothing(n) \/ TakeAck(n, "main")
    BY FlushedBy DEF IInv
  <2>2. \E c \in streams[n] : c.caller = "main" /\ Beyond(c, s)
    BY <2>1, SilentFlush
  <2>. QED  BY <2>2 DEF Beyond
<1>. QED  BY InvariantHolds, <1>1, <1>2, <1>3, PTL DEF Spec, SilentFlushLeavesOnlyRest
=============================================================================

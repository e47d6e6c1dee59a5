----------------------- MODULE TelemetryDeliveryProofs -----------------------
(***************************************************************************)
(* Theorems about TelemetryDelivery for any number of nodes, modes, events,*)
(* batch sizes and abandoned streams.                                      *)
(***************************************************************************)
EXTENDS TelemetryDelivery, FiniteSetTheorems, SequenceTheorems, TLAPS

-----------------------------------------------------------------------------
(***************************************************************************)
(* Lemmas about the operators of StorageIndex.                             *)
(***************************************************************************)

\* A set of naturals that is not empty has a least element, and Min picks it.
LEMMA MinIsLeast ==
  ASSUME NEW S \in SUBSET Nat, S # {}
  PROVE  Min(S) \in S /\ \A x \in S : Min(S) <= x
<1>1. PICK m \in S : \A x \in S : ~ (<<x, m>> \in OpToRel(<, Nat))
  BY NatLessThanWellFounded, WFMin
<1>2. \A x \in S : ~ (x < m)
  BY <1>1, Zenon DEF OpToRel
<1>3. \A x \in S : m <= x
  BY <1>2
<1>. QED  BY <1>3 DEF Min

\* The last sequence of an initial segment is its length.
LEMMA LastOfPrefix ==
  ASSUME NEW k \in Nat
  PROVE  Last(1 .. k) = k
<1>1. k \in (1 .. k) \cup {0} /\ \A x \in (1 .. k) \cup {0} : k >= x
  OBVIOUS
<1>2. \A y \in (1 .. k) \cup {0} :
        (\A x \in (1 .. k) \cup {0} : y >= x) => y = k
  OBVIOUS
<1>. QED  BY <1>1, <1>2 DEF Last, Max

\* An initial segment has no holes.
LEMMA NothingMissing ==
  ASSUME NEW k \in Nat
  PROVE  Missing(1 .. k) = {}
BY LastOfPrefix DEF Missing

\* has_gaps is false of an initial segment that is not empty.
LEMMA NoGapInPrefix ==
  ASSUME NEW k \in Nat, k # 0
  PROVE  ~ HasGaps(1 .. k)
<1>1. Max(1 .. k) = k
  <2>1. k \in 1 .. k /\ \A x \in 1 .. k : k >= x
    OBVIOUS
  <2>2. \A y \in 1 .. k : (\A x \in 1 .. k : y >= x) => y = k
    OBVIOUS
  <2>. QED  BY <2>1, <2>2 DEF Max
<1>2. Min(1 .. k) = 1
  <2>1. 1 \in 1 .. k /\ \A x \in 1 .. k : 1 <= x
    OBVIOUS
  <2>2. \A y \in 1 .. k : (\A x \in 1 .. k : y <= x) => y = 1
    OBVIOUS
  <2>. QED  BY <2>1, <2>2 DEF Min
<1>3. Cardinality(1 .. k) = k
  BY FS_Interval
<1>. QED  BY <1>1, <1>2, <1>3 DEF HasGaps

-----------------------------------------------------------------------------
(***************************************************************************)
(* Lemmas about the operators of LocalSpool.                               *)
(***************************************************************************)

\* append adds one row at the end, not acknowledged, and changes no other.
LEMMA AppendRowFacts ==
  ASSUME NEW rs \in Seq(Row), NEW mode \in Mode \cup {NoMode}
  PROVE  /\ AppendRow(rs, mode) \in Seq(Row)
         /\ Len(AppendRow(rs, mode)) = Len(rs) + 1
         /\ Acked(AppendRow(rs, mode)) = Acked(rs)
<1>. DEFINE new == [numbered |-> FALSE, mode |-> mode, acked |-> FALSE]
<1>1. new \in Row
  BY DEF Row
<1>2. /\ Append(rs, new) \in Seq(Row)
      /\ Len(Append(rs, new)) = Len(rs) + 1
      /\ \A i \in 1 .. Len(rs) : Append(rs, new)[i] = rs[i]
      /\ Append(rs, new)[Len(rs) + 1] = new
  BY <1>1
<1>3. ~ new.acked
  OBVIOUS
<1>. QED  BY <1>2, <1>3, LenProperties DEF AppendRow, Acked, Sequences

\* replace changes the payload of a row and nothing else.
LEMMA ReplaceRowFacts ==
  ASSUME NEW rs \in Seq(Row), NEW s \in Nat
  PROVE  /\ ReplaceRow(rs, s) \in Seq(Row)
         /\ Len(ReplaceRow(rs, s)) = Len(rs)
         /\ Acked(ReplaceRow(rs, s)) = Acked(rs)
<1>1. CASE s \in 1 .. Len(rs)
  <2>1. rs[s] \in Row
    BY <1>1, ElementOfSeq
  <2>2. [rs[s] EXCEPT !.numbered = TRUE] \in Row
    BY <2>1 DEF Row
  <2>3. [rs[s] EXCEPT !.numbered = TRUE].acked = rs[s].acked
    BY <2>1 DEF Row
  <2>4. ReplaceRow(rs, s) = [rs EXCEPT ![s] = [rs[s] EXCEPT !.numbered = TRUE]]
    BY DEF ReplaceRow
  <2>. QED  BY <1>1, <2>2, <2>3, <2>4, ExceptSeq DEF Acked, Sequences
<1>2. CASE s \notin 1 .. Len(rs)
  BY <1>2, LenProperties DEF ReplaceRow
<1>. QED  BY <1>1, <1>2

\* acknowledge keeps the rows; without missing ones it marks those up to
\* `last`, and no other.
LEMMA AcknowledgeFacts ==
  ASSUME NEW rs \in Seq(Row), NEW last \in Nat, NEW missing
  PROVE  /\ Acknowledge(rs, last, missing) \in Seq(Row)
         /\ Len(Acknowledge(rs, last, missing)) = Len(rs)
         /\ missing = {} => Acked(Acknowledge(rs, last, missing))
                              = Acked(rs) \cup (Sequences(rs) \cap 1 .. last)
<1>. DEFINE marked(s) == [rs[s] EXCEPT !.acked = IF s \in missing THEN FALSE
                                                 ELSE s <= last \/ @]
            new == Acknowledge(rs, last, missing)
<1>1. Len(rs) \in Nat /\ \A s \in 1 .. Len(rs) : rs[s] \in Row
  BY LenProperties, ElementOfSeq
<1>2. \A s \in 1 .. Len(rs) : marked(s) \in Row
  BY <1>1 DEF Row
<1>3. missing = {} => \A s \in 1 .. Len(rs) :
                        marked(s).acked = (s <= last \/ rs[s].acked)
  BY <1>1 DEF Row
<1>4. new = [s \in 1 .. Len(rs) |-> marked(s)]
  BY DEF Acknowledge, Sequences
<1>. HIDE DEF marked, new
<1>5. new \in Seq(Row) /\ Len(new) = Len(rs)
  <2>1. new \in [1 .. Len(rs) -> Row]
    BY <1>2, <1>4
  <2>. QED  BY <1>1, <2>1
<1>6. ASSUME missing = {}
      PROVE  Acked(new) = Acked(rs) \cup (Sequences(rs) \cap 1 .. last)
  <2>1. \A s \in 1 .. Len(rs) : s <= last <=> s \in 1 .. last
    BY <1>1
  <2>2. \A s \in 1 .. Len(rs) : new[s].acked = (s <= last \/ rs[s].acked)
    BY <1>3, <1>4, <1>6
  <2>. QED  BY <1>5, <2>1, <2>2, Zenon DEF Acked, Sequences
<1>. QED  BY <1>5, <1>6 DEF new

\* pending reads unacknowledged rows only, and no row before a smaller one.
LEMMA PendingFacts ==
  ASSUME NEW rs \in Seq(Row), NEW limit \in Nat
  PROVE  /\ Pending(rs, limit) \subseteq Unacked(rs)
         /\ \A s \in Pending(rs, limit) : \A r \in Unacked(rs) :
              r < s => r \in Pending(rs, limit)
<1>. DEFINE below(s) == {r \in Unacked(rs) : r < s}
<1>1. IsFiniteSet(Unacked(rs)) /\ Unacked(rs) \subseteq Nat
  <2>1. Len(rs) \in Nat /\ IsFiniteSet(1 .. Len(rs))
    BY LenProperties, FS_Interval
  <2>2. Unacked(rs) \in SUBSET (1 .. Len(rs))
    BY DEF Unacked, Sequences
  <2>. QED  BY <2>1, <2>2, FS_Subset
<1>2. ASSUME NEW s \in Pending(rs, limit), NEW r \in Unacked(rs), r < s
      PROVE  r \in Pending(rs, limit)
  <2>1. s \in Nat /\ Cardinality(below(s)) < limit
    BY <1>1 DEF Pending
  <2>2. below(r) \subseteq below(s) /\ IsFiniteSet(below(s)) /\ IsFiniteSet(below(r))
    BY <1>1, <1>2, <2>1, FS_Subset
  <2>3. Cardinality(below(r)) <= Cardinality(below(s))
    BY <2>2, FS_Subset
  <2>4. Cardinality(below(r)) \in Nat /\ Cardinality(below(s)) \in Nat
    BY <2>2, FS_CardinalityType
  <2>. QED  BY <2>1, <2>3, <2>4 DEF Pending
<1>. QED  BY <1>2 DEF Pending
-----------------------------------------------------------------------------
(***************************************************************************)
(* What Abandon leaves of a node's calls are calls it had, with no caller. *)
(***************************************************************************)
LEMMA AbandonFacts ==
  ASSUME streams \in [Node -> SUBSET Call], NEW n \in Node,
         NEW cs \in SUBSET streams[n], Abandon(n, cs)
  PROVE  /\ streams' \in [Node -> SUBSET Call]
         /\ \A m \in Node : \A c \in streams'[m] : \E d \in streams[m] :
              d.todo = c.todo /\ d.ack = c.ack
<1>. DEFINE orphan(c) == [c EXCEPT !.caller = "nobody"]
            orphans == {orphan(c) : c \in {d \in cs : d.todo # {}}}
<1>1. \A c \in Call : /\ orphan(c) \in Call
                      /\ orphan(c).todo = c.todo
                      /\ orphan(c).ack = c.ack
  BY DEF Call
<1>2. streams[n] \in SUBSET Call
  OBVIOUS
<1>3. PICK kept \in SUBSET orphans :
        streams' = [streams EXCEPT ![n] = (@ \ cs) \cup kept]
  BY Zenon DEF Abandon
<1>. HIDE DEF orphan
<1>4. \A c \in kept : c \in Call /\ \E d \in streams[n] :
                        d.todo = c.todo /\ d.ack = c.ack
  BY <1>1, <1>2
<1>5. streams' \in [Node -> SUBSET Call]
  BY <1>2, <1>3, <1>4
<1>6. \A m \in Node : m # n => streams'[m] = streams[m]
  BY <1>3
<1>7. streams'[n] = (streams[n] \ cs) \cup kept
  BY <1>3
<1>. QED  BY <1>4, <1>5, <1>6, <1>7

-----------------------------------------------------------------------------
(***************************************************************************)
(* Type correctness.                                                       *)
(***************************************************************************)

\* The actions that write rows: Start, Emit, Number, TakeAck.
LEMMA AckTypes ==
  ASSUME TypeOK, NEW n \in Node, NEW c \in streams[n]
  PROVE  c.ack.last \in Nat /\ c.todo \in SUBSET Nat
BY DEF TypeOK, Call

LEMMA AgentTypes ==
  ASSUME TypeOK, NEW n \in Node, AgentNext(n)
  PROVE  TypeOK'
<1>. USE DEF TypeOK, Phases
<1>1. rows[n] \in Seq(Row) /\ Len(rows[n]) \in Nat
  BY LenProperties
<1>2. ASSUME NEW mode \in Mode, NEW withCollector \in BOOLEAN,
             Start(n, mode, withCollector)
      PROVE  TypeOK'
  BY <1>1, <1>2, AppendRowFacts DEF Start, collectorVars
<1>3. CASE Emit(n)
  BY <1>1, <1>3, AppendRowFacts DEF Emit, collectorVars
<1>4. CASE Number(n)
  BY <1>1, <1>4, ReplaceRowFacts DEF Number, collectorVars
<1>5. CASE RequestStop(n)
  BY <1>5 DEF RequestStop, collectorVars
<1>6. CASE LeaveLoop(n)
  BY <1>6 DEF LeaveLoop, collectorVars
<1>7. CASE FlushNothing(n)
  BY <1>7 DEF FlushNothing, collectorVars
<1>8. CASE Exit(n)
  <2>1. streams' \in [Node -> SUBSET Call]
    BY <1>8, AbandonFacts DEF Exit
  <2>. QED  BY <1>8, <2>1 DEF Exit, collectorVars
<1>9. ASSUME NEW t \in Thread, OpenCall(n, t)
       PROVE  TypeOK'
  <2>1. Pend(n) \in SUBSET Nat
    BY <1>1, PendingFacts, ConstantsOK DEF Pend, Unacked, Sequences
  <2>2. \A raw \in SUBSET Nat : Stream(t, Pend(n), raw) \in Call
    BY <2>1 DEF Stream, Call, EmptyAck
  <2>. QED  BY <1>9, <2>1, <2>2 DEF OpenCall, agentVars, collectorVars
<1>10. ASSUME NEW t \in Thread, TakeAck(n, t)
       PROVE  TypeOK'
  <2>1. PICK c \in streams[n] :
          /\ rows' = [rows EXCEPT ![n] = Acknowledge(@, c.ack.last, c.ack.missing)]
          /\ streams' = [streams EXCEPT ![n] = @ \ {c}]
    BY <1>10 DEF TakeAck
  <2>2. Acknowledge(rows[n], c.ack.last, c.ack.missing) \in Seq(Row)
    BY <1>1, AckTypes, AcknowledgeFacts
  <2>. QED  BY <1>10, <2>1, <2>2 DEF TakeAck, AfterFlush, collectorVars
<1>. QED  BY <1>2, <1>3, <1>4, <1>5, <1>6, <1>7, <1>8, <1>9, <1>10 DEF AgentNext

-----------------------------------------------------------------------------
(***************************************************************************)
(* The inductive invariant.  That an acknowledged row is received is not   *)
(* inductive: an ack must not claim more than is committed, which holds    *)
(* because a stream is ingested in order and starts where nothing before   *)
(* it is left out, which holds because what pending() skips is received.   *)
(***************************************************************************)

\* got is what has arrived of the rows rs: a first part of them.
Arrived(rs, got) == \E k \in 0 .. Len(rs) : got = 1 .. k

\* c is a stream of rows rs of which got has arrived.
Carries(c, rs, got) ==
  /\ c.todo \subseteq Sequences(rs)
  /\ \A s \in c.todo : 1 .. s \subseteq c.todo \cup got
  /\ 1 .. c.ack.last \subseteq got
  /\ c.ack.missing = {}

PathOK ==
  \A n \in Node : /\ Arrived(rows[n], received[n])
                  /\ Acked(rows[n]) \subseteq received[n]
                  /\ \A c \in streams[n] : Carries(c, rows[n], received[n])

IInv == TypeOK /\ PathOK

\* Rows that are added do not disturb what has arrived or is carried.
LEMMA MoreRows ==
  ASSUME NEW rs \in Seq(Row), NEW more \in Seq(Row), Len(rs) <= Len(more),
         NEW got
  PROVE  /\ Arrived(rs, got) => Arrived(more, got)
         /\ \A c : Carries(c, rs, got) => Carries(c, more, got)
<1>1. 0 .. Len(rs) \subseteq 0 .. Len(more) /\ 1 .. Len(rs) \subseteq 1 .. Len(more)
  BY LenProperties
<1>. QED  BY <1>1 DEF Arrived, Carries, Sequences

\* The next event of a stream has arrived or is the next one to arrive.
LEMMA NextArrival ==
  ASSUME NEW rs \in Seq(Row), NEW got, Arrived(rs, got),
         NEW c \in Call, Carries(c, rs, got), c.todo # {}
  PROVE  LET s == Min(c.todo)
         IN  /\ s \in c.todo
             /\ \E k \in 0 .. Len(rs) : got \cup {s} = 1 .. k
             /\ s \notin got => got \cup {s} = 1 .. Last(got) + 1
<1>. DEFINE s == Min(c.todo)
<1>1. PICK k \in 0 .. Len(rs) : got = 1 .. k
  BY DEF Arrived
<1>2. Len(rs) \in Nat /\ k \in Nat
  BY LenProperties
<1>3. c.todo \in SUBSET Nat
  BY DEF Call
<1>4. s \in c.todo /\ \A x \in c.todo : s <= x
  BY <1>3, MinIsLeast
<1>5. s \in 1 .. Len(rs) /\ 1 .. s \subseteq c.todo \cup got
  BY <1>4 DEF Carries, Sequences
<1>. HIDE DEF s
<1>6. \A r \in 1 .. s : r = s \/ r <= k
  BY <1>1, <1>2, <1>3, <1>4, <1>5
<1>7. CASE s <= k
  <2>1. got \cup {s} = 1 .. k
    BY <1>1, <1>2, <1>5, <1>7
  <2>. QED  BY <1>1, <1>4, <1>5, <1>7, <2>1 DEF s
<1>8. CASE s > k
  <2>1. s = k + 1
    BY <1>2, <1>5, <1>6, <1>8
  <2>2. got \cup {s} = 1 .. k + 1
    BY <1>1, <1>2, <2>1
  <2>3. k + 1 \in 0 .. Len(rs)
    BY <1>2, <1>5, <2>1
  <2>. QED  BY <1>1, <1>2, <1>4, <2>2, <2>3, LastOfPrefix DEF s
<1>. QED  BY <1>2, <1>5, <1>7, <1>8

LEMMA InitInvariant == Init => IInv
<1>. SUFFICES ASSUME Init PROVE IInv
  OBVIOUS
<1>1. TypeOK
  BY EmptySeq, ConstantsOK DEF Init, TypeOK, Phases
<1>2. ASSUME NEW n \in Node
      PROVE  /\ rows[n] = <<>> /\ received[n] = {} /\ streams[n] = {}
             /\ Arrived(rows[n], received[n]) /\ Acked(rows[n]) = {}
  <2>1. rows[n] = <<>> /\ received[n] = {} /\ streams[n] = {}
    BY DEF Init
  <2>2. {} = 1 .. 0
    OBVIOUS
  <2>. QED  BY <2>1, <2>2 DEF Arrived, Acked, Sequences
<1>. QED  BY <1>1, <1>2 DEF IInv, PathOK

-----------------------------------------------------------------------------
(***************************************************************************)
(* The agent's actions keep PathOK.                                        *)
(***************************************************************************)

\* A step that adds rows to n, or rewrites them, and touches no call.
LEMMA RowsStep ==
  ASSUME IInv, NEW n \in Node, NEW more \in Seq(Row),
         rows' = [rows EXCEPT ![n] = more], UNCHANGED <<streams, received>>,
         Len(rows[n]) <= Len(more), Acked(more) = Acked(rows[n])
  PROVE  PathOK' /\ \A m \in Node : Acked(rows'[m]) = Acked(rows[m])
<1>1. rows \in [Node -> Seq(Row)] /\ rows[n] \in Seq(Row)
  BY DEF IInv, TypeOK
<1>2. ASSUME NEW m \in Node
      PROVE  /\ Arrived(rows'[m], received'[m])
             /\ Acked(rows'[m]) \subseteq received'[m]
             /\ \A c \in streams'[m] : Carries(c, rows'[m], received'[m])
             /\ Acked(rows'[m]) = Acked(rows[m])
  <2>1. CASE m = n
    <3>1. rows'[m] = more /\ streams'[m] = streams[n] /\ received'[m] = received[n]
      BY <1>1, <2>1
    <3>2. /\ Arrived(rows[n], received[n])
          /\ Acked(rows[n]) \subseteq received[n]
          /\ \A c \in streams[n] : Carries(c, rows[n], received[n])
      BY DEF IInv, PathOK
    <3>. QED  BY <1>1, <3>1, <3>2, MoreRows
  <2>2. CASE m # n
    BY <1>1, <2>2 DEF IInv, PathOK
  <2>. QED  BY <2>1, <2>2
<1>. QED  BY <1>2 DEF PathOK

\* A step after which every call carries what some call carried before.
LEMMA FewerCalls ==
  ASSUME IInv, UNCHANGED <<rows, received>>,
         \A m \in Node : \A c \in streams'[m] : \E d \in streams[m] :
           d.todo = c.todo /\ d.ack = c.ack
  PROVE  PathOK'
<1>1. ASSUME NEW m \in Node, NEW c \in streams'[m]
      PROVE  Carries(c, rows[m], received[m])
  <2>1. PICK d \in streams[m] : d.todo = c.todo /\ d.ack = c.ack
    OBVIOUS
  <2>2. Carries(d, rows[m], received[m])
    BY DEF IInv, PathOK
  <2>. QED  BY <2>1, <2>2 DEF Carries
<1>. QED  BY <1>1 DEF IInv, PathOK

\* A batch read from the spool leaves out only rows that have arrived.
LEMMA BatchCarries ==
  ASSUME IInv, NEW n \in Node, NEW t, NEW raw
  PROVE  Carries(Stream(t, Pend(n), raw), rows[n], received[n])
<1>. DEFINE c == Stream(t, Pend(n), raw)
<1>1. c.todo = Pend(n) /\ c.ack.last = 0 /\ c.ack.missing = {}
  BY DEF Stream, EmptyAck
<1>2. rows[n] \in Seq(Row) /\ Len(rows[n]) \in Nat
  BY LenProperties DEF IInv, TypeOK
<1>3. /\ Pend(n) \subseteq Unacked(rows[n])
      /\ \A s \in Pend(n) : \A r \in Unacked(rows[n]) : r < s => r \in Pend(n)
  BY <1>2, PendingFacts, ConstantsOK DEF Pend
<1>4. Acked(rows[n]) \subseteq received[n]
  BY DEF IInv, PathOK
<1>5. ASSUME NEW s \in Pend(n), NEW r \in 1 .. s
      PROVE  r \in Pend(n) \cup received[n]
  <2>1. s \in 1 .. Len(rows[n]) /\ r \in 1 .. Len(rows[n]) /\ (r = s \/ r < s)
    BY <1>2, <1>3 DEF Unacked, Sequences
  <2>2. r \in Unacked(rows[n]) \/ r \in Acked(rows[n])
    BY <2>1 DEF Unacked, Acked, Sequences
  <2>. QED  BY <1>3, <1>4, <2>1, <2>2
<1>6. Pend(n) \subseteq Sequences(rows[n])
  BY <1>3 DEF Unacked
<1>7. 1 .. 0 \subseteq received[n]
  OBVIOUS
<1>. QED  BY <1>1, <1>5, <1>6, <1>7 DEF Carries

\* What an ack of one of n's calls marks has been received.
LEMMA AckStep ==
  ASSUME IInv, NEW n \in Node, NEW c \in streams[n],
         rows' = [rows EXCEPT ![n] = Acknowledge(@, c.ack.last, c.ack.missing)],
         streams' = [streams EXCEPT ![n] = @ \ {c}], UNCHANGED received
  PROVE  PathOK' /\ Acked(rows[n]) \subseteq Acked(rows'[n])
<1>. DEFINE new == Acknowledge(rows[n], c.ack.last, c.ack.missing)
<1>1. /\ rows \in [Node -> Seq(Row)] /\ rows[n] \in Seq(Row)
      /\ streams \in [Node -> SUBSET Call]
      /\ c.ack.last \in Nat
  BY AckTypes DEF IInv, TypeOK
<1>2. Carries(c, rows[n], received[n]) /\ Acked(rows[n]) \subseteq received[n]
  BY DEF IInv, PathOK
<1>3. /\ new \in Seq(Row) /\ Len(new) = Len(rows[n])
      /\ Acked(new) = Acked(rows[n]) \cup (Sequences(rows[n]) \cap 1 .. c.ack.last)
  BY <1>1, <1>2, AcknowledgeFacts DEF Carries
<1>. HIDE DEF new
<1>4. rows'[n] = new /\ \A m \in Node : m # n => rows'[m] = rows[m]
  BY <1>1 DEF new
<1>5. \A m \in Node : streams'[m] \subseteq streams[m]
  BY <1>1
<1>6. Acked(new) \subseteq received[n]
  BY <1>2, <1>3 DEF Carries
<1>7. Len(rows[n]) <= Len(new)
  BY <1>1, <1>3, LenProperties
<1>8. ASSUME NEW m \in Node
      PROVE  /\ Arrived(rows'[m], received[m])
             /\ Acked(rows'[m]) \subseteq received[m]
             /\ \A d \in streams'[m] : Carries(d, rows'[m], received[m])
  <2>1. /\ Arrived(rows[m], received[m])
        /\ Acked(rows[m]) \subseteq received[m]
        /\ \A d \in streams'[m] : Carries(d, rows[m], received[m])
    BY <1>5 DEF IInv, PathOK
  <2>2. CASE m = n
    BY <1>1, <1>3, <1>4, <1>6, <1>7, <2>1, <2>2, MoreRows
  <2>3. CASE m # n
    BY <1>4, <2>1, <2>3
  <2>. QED  BY <2>2, <2>3
<1>. QED  BY <1>3, <1>4, <1>8 DEF PathOK

LEMMA AgentPath ==
  ASSUME IInv, NEW n \in Node, AgentNext(n)
  PROVE  PathOK' /\ \A m \in Node : Acked(rows[m]) \subseteq Acked(rows'[m])
<1>1. /\ rows \in [Node -> Seq(Row)] /\ rows[n] \in Seq(Row)
      /\ Len(rows[n]) \in Nat /\ streams \in [Node -> SUBSET Call]
  BY LenProperties DEF IInv, TypeOK
<1>2. ASSUME NEW mode \in Mode \cup {NoMode},
             rows' = [rows EXCEPT ![n] = AppendRow(@, mode)],
             UNCHANGED <<streams, received>>
      PROVE  PathOK' /\ \A m \in Node : Acked(rows[m]) \subseteq Acked(rows'[m])
  <2>1. /\ AppendRow(rows[n], mode) \in Seq(Row)
        /\ Len(rows[n]) <= Len(AppendRow(rows[n], mode))
        /\ Acked(AppendRow(rows[n], mode)) = Acked(rows[n])
    BY <1>1, AppendRowFacts
  <2>. QED  BY <1>2, <2>1, RowsStep
<1>3. ASSUME NEW mode \in Mode, NEW withCollector \in BOOLEAN,
             Start(n, mode, withCollector)
      PROVE  PathOK' /\ \A m \in Node : Acked(rows[m]) \subseteq Acked(rows'[m])
  BY <1>2, <1>3 DEF Start, collectorVars
<1>4. CASE Emit(n)
  BY <1>2, <1>4 DEF Emit, collectorVars
<1>5. CASE Number(n)
  <2>1. /\ ReplaceRow(rows[n], Len(rows[n])) \in Seq(Row)
        /\ Len(rows[n]) <= Len(ReplaceRow(rows[n], Len(rows[n])))
        /\ Acked(ReplaceRow(rows[n], Len(rows[n]))) = Acked(rows[n])
    BY <1>1, ReplaceRowFacts
  <2>2. /\ rows' = [rows EXCEPT ![n] = ReplaceRow(rows[n], Len(rows[n]))]
        /\ UNCHANGED <<streams, received>>
    BY <1>5 DEF Number, collectorVars
  <2>. QED  BY <2>1, <2>2, RowsStep
<1>6. ASSUME UNCHANGED <<rows, received>>,
             \A m \in Node : \A c \in streams'[m] : \E d \in streams[m] :
               d.todo = c.todo /\ d.ack = c.ack
      PROVE  PathOK' /\ \A m \in Node : Acked(rows[m]) \subseteq Acked(rows'[m])
  BY <1>6, FewerCalls
<1>7. CASE RequestStop(n) \/ LeaveLoop(n) \/ FlushNothing(n)
  BY <1>6, <1>7 DEF RequestStop, LeaveLoop, FlushNothing, collectorVars
<1>8. CASE Exit(n)
  <2>1. Abandon(n, streams[n] \ Stale(n)) /\ UNCHANGED <<rows, received>>
    BY <1>8 DEF Exit, collectorVars
  <2>. QED  BY <1>1, <1>6, <2>1, AbandonFacts
<1>9. ASSUME NEW t \in Thread, OpenCall(n, t)
       PROVE  PathOK' /\ \A m \in Node : Acked(rows[m]) \subseteq Acked(rows'[m])
  <2>1. PICK raw : streams' = [streams EXCEPT ![n] = @ \cup {Stream(t, Pend(n), raw)}]
    BY <1>9 DEF OpenCall
  <2>2. Carries(Stream(t, Pend(n), raw), rows[n], received[n])
    BY BatchCarries
  <2>3. ASSUME NEW m \in Node, NEW c \in streams'[m]
        PROVE  c \in streams[m] \/ (m = n /\ c = Stream(t, Pend(n), raw))
    <3>1. m # n => streams'[m] = streams[m]
      BY <1>1, <2>1
    <3>2. m = n => streams'[m] = streams[m] \cup {Stream(t, Pend(n), raw)}
      BY <1>1, <2>1
    <3>. QED  BY <3>1, <3>2
  <2>4. UNCHANGED <<rows, received>>
    BY <1>9 DEF OpenCall, agentVars, collectorVars
  <2>. QED  BY <2>2, <2>3, <2>4 DEF IInv, PathOK
<1>10. ASSUME NEW t \in Thread, TakeAck(n, t)
       PROVE  PathOK' /\ \A m \in Node : Acked(rows[m]) \subseteq Acked(rows'[m])
  <2>1. PICK c \in streams[n] :
          /\ rows' = [rows EXCEPT ![n] = Acknowledge(@, c.ack.last, c.ack.missing)]
          /\ streams' = [streams EXCEPT ![n] = @ \ {c}]
    BY <1>10 DEF TakeAck
  <2>2. UNCHANGED received
    BY <1>10 DEF TakeAck, collectorVars
  <2>3. \A m \in Node : m # n => rows'[m] = rows[m]
    BY <1>1, <2>1
  <2>. QED  BY <2>1, <2>2, <2>3, AckStep
<1>. QED  BY <1>3, <1>4, <1>5, <1>7, <1>8, <1>9, <1>10 DEF AgentNext

-----------------------------------------------------------------------------
(***************************************************************************)
(* The collector's actions keep the invariant.                             *)
(***************************************************************************)

\* A step after which there are no new calls, and nothing arrives.
LEMMA CallsEnd ==
  ASSUME IInv, UNCHANGED <<rows, received>>, streams' \in [Node -> SUBSET Call],
         \A m \in Node : streams'[m] \subseteq streams[m]
  PROVE  PathOK'
<1>1. \A m \in Node : \A c \in streams'[m] : \E d \in streams[m] :
        d.todo = c.todo /\ d.ack = c.ack
  OBVIOUS
<1>. QED  BY <1>1, FewerCalls

LEMMA IngestStep ==
  ASSUME IInv, NEW n \in Node, NEW t \in Thread \cup {"nobody"}, Ingest(n, t)
  PROVE  IInv'
<1>1. PICK c \in streams[n] :
        LET s    == Min(c.todo)
            rest == c.todo \ {s}
            now  == received[n] \cup {s}
            ack  == IF rest = {}
                    THEN [last |-> Last(now), missing |-> Missing(now)]
                    ELSE c.ack
            next == [c EXCEPT !.todo = rest, !.ack = ack]
            left == IF t = "nobody" /\ rest = {} THEN {} ELSE {next}
        IN  /\ c.todo # {}
            /\ received' = [received EXCEPT ![n] = now]
            /\ manifest' = IF s \in received[n] THEN manifest
                           ELSE ManifestAfter(manifest, rows[n][s].mode # NoMode,
                                              rows[n][s].mode)
            /\ streams' = [streams EXCEPT ![n] = (@ \ {c}) \cup left]
  BY DEF Ingest
<1>. DEFINE s    == Min(c.todo)
            rest == c.todo \ {s}
            now  == received[n] \cup {s}
            ack  == IF rest = {}
                    THEN [last |-> Last(now), missing |-> Missing(now)]
                    ELSE c.ack
            next == [c EXCEPT !.todo = rest, !.ack = ack]
<1>2. /\ received' = [received EXCEPT ![n] = now]
      /\ \A m \in Node : m # n => streams'[m] = streams[m]
      /\ \A d \in streams'[n] : d \in streams[n] \/ d = next
      /\ UNCHANGED agentVars
  BY <1>1 DEF Ingest, IInv, TypeOK
<1>3. /\ rows \in [Node -> Seq(Row)] /\ rows[n] \in Seq(Row)
      /\ c \in Call /\ c.todo # {} /\ Len(rows[n]) \in Nat
      /\ received \in [Node -> SUBSET Nat]
  BY <1>1, LenProperties DEF IInv, TypeOK
<1>4. Arrived(rows[n], received[n]) /\ Carries(c, rows[n], received[n])
  BY DEF IInv, PathOK
<1>5. PICK k \in 0 .. Len(rows[n]) : now = 1 .. k
  BY <1>3, <1>4, NextArrival
<1>6. s \in c.todo /\ s \in Nat /\ s \in Sequences(rows[n])
  BY <1>3, <1>4, NextArrival DEF Call, Carries
<1>. HIDE DEF s
<1>7. ack \in [last : Nat, missing : SUBSET Nat] /\ ack.missing = {}
      /\ 1 .. ack.last \subseteq now
  <2>1. CASE rest = {}
    <3>1. k \in Nat
      BY <1>3
    <3>2. Last(now) = k /\ Missing(now) = {}
      BY <1>5, <3>1, LastOfPrefix, NothingMissing
    <3>3. ack = [last |-> k, missing |-> {}]
      BY <2>1, <3>2
    <3>. HIDE DEF ack, now, rest
    <3>. QED  BY <1>5, <3>1, <3>3
  <2>2. CASE rest # {}
    BY <1>3, <1>4, <2>2 DEF Call, Carries
  <2>. QED  BY <2>1, <2>2
<1>. HIDE DEF ack
<1>8. next \in Call /\ next.todo = rest /\ next.ack = ack
  BY <1>3, <1>7 DEF Call
<1>. HIDE DEF next
<1>9. Carries(next, rows[n], now)
  <2>1. rest \subseteq Sequences(rows[n])
    BY <1>4 DEF Carries
  <2>2. \A r \in rest : 1 .. r \subseteq rest \cup now
    BY <1>4 DEF Carries
  <2>. QED  BY <1>7, <1>8, <2>1, <2>2 DEF Carries
<1>10. PathOK'
  <2>1. ASSUME NEW m \in Node
        PROVE  /\ Arrived(rows[m], received'[m])
               /\ Acked(rows[m]) \subseteq received'[m]
               /\ \A d \in streams'[m] : Carries(d, rows[m], received'[m])
    <3>1. /\ Arrived(rows[m], received[m])
          /\ Acked(rows[m]) \subseteq received[m]
          /\ \A d \in streams[m] : Carries(d, rows[m], received[m])
      BY DEF IInv, PathOK
    <3>2. CASE m = n
      <4>1. received'[m] = now /\ received[m] \subseteq now
        BY <1>2, <1>3, <3>2
      <4>2. \A d \in streams[m] : Carries(d, rows[m], now)
        BY <3>1, <4>1 DEF Carries
      <4>. QED  BY <1>2, <1>5, <1>9, <3>1, <3>2, <4>1, <4>2 DEF Arrived
    <3>3. CASE m # n
      BY <1>2, <1>3, <3>1, <3>3
    <3>. QED  BY <3>2, <3>3
  <2>. QED  BY <1>2, <2>1 DEF PathOK, agentVars
<1>11. TypeOK'
  <2>1. received' \in [Node -> SUBSET Nat]
    BY <1>2, <1>3, <1>6
  <2>2. streams' \in [Node -> SUBSET Call]
    BY <1>1, <1>8 DEF IInv, TypeOK, next, ack, s
  <2>3. rows[n][s] \in Row
    BY <1>3, <1>6, ElementOfSeq DEF Sequences
  <2>4. manifest' \in Mode \cup {Torn}
    BY <1>1, <2>3 DEF IInv, TypeOK, ManifestAfter, Row, s
  <2>. QED  BY <1>2, <2>1, <2>2, <2>4 DEF Ingest, IInv, TypeOK, agentVars
<1>. QED  BY <1>10, <1>11 DEF IInv

LEMMA CollectorStep ==
  ASSUME IInv, CollectorNext
  PROVE  /\ IInv'
         /\ UNCHANGED rows
<1>1. streams \in [Node -> SUBSET Call] /\ TypeOK
  BY DEF IInv, TypeOK
<1>2. ASSUME NEW n \in Node, NEW t \in Thread \cup {"nobody"}, Ingest(n, t)
      PROVE  IInv' /\ UNCHANGED rows
  BY <1>2, IngestStep DEF Ingest, agentVars
<1>3. ASSUME NEW n \in Node, NEW t \in Thread \cup {"nobody"}, Refuse(n, t)
      PROVE  IInv' /\ UNCHANGED rows
  <2>1. PICK c \in streams[n] : streams' = [streams EXCEPT ![n] = @ \ {c}]
    BY <1>3 DEF Refuse
  <2>2. /\ streams' \in [Node -> SUBSET Call]
        /\ \A m \in Node : streams'[m] \subseteq streams[m]
    BY <1>1, <2>1
  <2>3. TypeOK'
    BY <1>1, <1>3, <2>2 DEF Refuse, AfterFlush, collectorVars, TypeOK, Phases
  <2>. QED  BY <1>3, <2>2, <2>3, CallsEnd DEF Refuse, collectorVars, IInv
<1>4. ASSUME NEW n \in Node, NoticeCancelled(n)
      PROVE  IInv' /\ UNCHANGED rows
  <2>1. PICK c \in Stale(n) : streams' = [streams EXCEPT ![n] = @ \ {c}]
    BY <1>4 DEF NoticeCancelled
  <2>2. /\ streams' \in [Node -> SUBSET Call]
        /\ \A m \in Node : streams'[m] \subseteq streams[m]
    BY <1>1, <2>1
  <2>3. TypeOK'
    BY <1>1, <1>4, <2>2 DEF NoticeCancelled, agentVars, collectorVars, TypeOK
  <2>. QED  BY <1>4, <2>2, <2>3, CallsEnd
            DEF NoticeCancelled, agentVars, collectorVars, IInv
<1>5. CASE CollectorStart
  <2>1. TypeOK'
    BY <1>1, <1>5 DEF CollectorStart, agentVars, TypeOK
  <2>. QED  BY <1>1, <1>5, <2>1, CallsEnd DEF CollectorStart, agentVars, IInv
<1>. QED  BY <1>2, <1>3, <1>4, <1>5 DEF CollectorNext

-----------------------------------------------------------------------------
(***************************************************************************)
(* Crashes and failed calls keep the invariant.                            *)
(***************************************************************************)
LEMMA FailureStep ==
  ASSUME IInv, Failure
  PROVE  IInv' /\ UNCHANGED rows
<1>1. streams \in [Node -> SUBSET Call] /\ TypeOK
  BY DEF IInv, TypeOK
<1>2. ASSUME NEW n \in Node, NEW cs \in SUBSET streams[n], Abandon(n, cs),
             UNCHANGED <<rows, received>>
      PROVE  PathOK' /\ streams' \in [Node -> SUBSET Call]
  BY <1>1, <1>2, AbandonFacts, FewerCalls
<1>3. ASSUME NEW n \in Node, Crash(n)
      PROVE  IInv' /\ UNCHANGED rows
  <2>1. PathOK' /\ streams' \in [Node -> SUBSET Call]
    BY <1>2, <1>3 DEF Crash, collectorVars
  <2>2. TypeOK'
    BY <1>1, <1>3, <2>1 DEF Crash, collectorVars, TypeOK, Phases
  <2>. QED  BY <1>3, <2>1, <2>2 DEF Crash, IInv
<1>4. ASSUME NEW n \in Node, NEW t \in Thread, FailCall(n, t)
      PROVE  IInv' /\ UNCHANGED rows
  <2>1. PICK c \in streams[n] : Abandon(n, {c})
    BY <1>4 DEF FailCall
  <2>2. PathOK' /\ streams' \in [Node -> SUBSET Call]
    BY <1>2, <1>4, <2>1 DEF FailCall, collectorVars
  <2>3. TypeOK'
    BY <1>1, <1>4, <2>2 DEF FailCall, AfterFlush, collectorVars, TypeOK, Phases
  <2>. QED  BY <1>4, <2>2, <2>3 DEF FailCall, IInv
<1>5. CASE CollectorCrash
  <2>1. /\ streams' \in [Node -> SUBSET Call]
        /\ \A m \in Node : streams'[m] \subseteq streams[m]
    BY <1>1, <1>5 DEF CollectorCrash
  <2>2. ASSUME NEW n \in Node, NEW cut \in ManifestCut(n)
        PROVE  cut \in Mode \cup {Torn}
    <3>1. PICK c \in streams[n] :
            /\ c.todo # {}
            /\ ~ Invalid(n, c, Min(c.todo))
            /\ cut \in {Torn, ManifestAfter(manifest, rows[n][Min(c.todo)].mode # NoMode,
                                           rows[n][Min(c.todo)].mode)}
      BY <2>2, Zenon DEF ManifestCut
    <3>2. /\ rows[n] \in Seq(Row) /\ Carries(c, rows[n], received[n])
          /\ Arrived(rows[n], received[n]) /\ c \in Call
      BY DEF IInv, PathOK, TypeOK
    <3>3. Min(c.todo) \in 1 .. Len(rows[n])
      BY <3>1, <3>2, NextArrival DEF Carries, Sequences
    <3>4. rows[n][Min(c.todo)] \in Row
      BY <3>2, <3>3, ElementOfSeq
    <3>. QED  BY <1>1, <3>1, <3>4 DEF ManifestAfter, Row, TypeOK
  <2>3. manifest' \in Mode \cup {Torn}
    BY <1>1, <1>5, <2>2 DEF CollectorCrash, TypeOK
  <2>4. phase' \in [Node -> Phases]
    BY <1>1, <1>5 DEF CollectorCrash, TypeOK, Phases
  <2>5. TypeOK'
    BY <1>1, <1>5, <2>1, <2>3, <2>4 DEF CollectorCrash, TypeOK
  <2>. QED  BY <1>5, <2>1, <2>5, CallsEnd DEF CollectorCrash, IInv
<1>. QED  BY <1>3, <1>4, <1>5 DEF Failure

LEMMA InvariantStep ==
  ASSUME IInv, [Next]_vars
  PROVE  /\ IInv'
         /\ \A n \in Node : Acked(rows[n]) \subseteq Acked(rows'[n])
<1>1. ASSUME NEW n \in Node, AgentNext(n)
      PROVE  IInv' /\ \A m \in Node : Acked(rows[m]) \subseteq Acked(rows'[m])
  BY <1>1, AgentTypes, AgentPath DEF IInv
<1>2. CASE CollectorNext
  BY <1>2, CollectorStep
<1>3. CASE Failure
  BY <1>3, FailureStep
<1>4. CASE UNCHANGED vars
  BY <1>4 DEF vars, agentVars, collectorVars, IInv, TypeOK, PathOK, Call
<1>. QED  BY <1>1, <1>2, <1>3, <1>4 DEF Next

-----------------------------------------------------------------------------
(***************************************************************************)
(* The invariant holds, and with it what TelemetryDelivery states.         *)
(***************************************************************************)

(***************************************************************************)
(* Every state the path reaches satisfies the inductive invariant.         *)
(***************************************************************************)
THEOREM InvariantHolds == Spec => []IInv
<1>1. IInv /\ [Next]_vars => IInv'
  BY InvariantStep
<1>. QED  BY InitInvariant, <1>1, PTL DEF Spec

(***************************************************************************)
(* Every variable keeps its type: in particular the row an ingestion looks *)
(* at exists, and an ack's last sequence is a number.                      *)
(***************************************************************************)
THEOREM TypeCorrect == Spec => []TypeOK
<1>1. IInv => TypeOK
  BY DEF IInv
<1>. QED  BY InvariantHolds, <1>1, PTL

(***************************************************************************)
(* No event is lost: what an agent has marked acknowledged, and will never *)
(* send again, is in the collector's index, whatever crashed or was late.  *)
(***************************************************************************)
THEOREM NothingAckedIsLost == Spec => []AckedIsReceived
<1>1. IInv => AckedIsReceived
  BY DEF IInv, PathOK, AckedIsReceived
<1>. QED  BY InvariantHolds, <1>1, PTL

(***************************************************************************)
(* The index of a node is a first part of what its spool numbered.         *)
(***************************************************************************)
THEOREM IndexIsPrefix == Spec => []ReceivedIsPrefix
<1>1. ASSUME IInv, NEW n \in Node
      PROVE  /\ received[n] \subseteq Sequences(rows[n])
             /\ \A s \in received[n] : 1 .. s \subseteq received[n]
  <2>1. PICK k \in 0 .. Len(rows[n]) : received[n] = 1 .. k
    BY <1>1 DEF IInv, PathOK, Arrived
  <2>2. Len(rows[n]) \in Nat
    BY <1>1, LenProperties DEF IInv, TypeOK
  <2>. QED  BY <2>1, <2>2 DEF Sequences
<1>2. IInv => ReceivedIsPrefix
  BY <1>1 DEF ReceivedIsPrefix
<1>. QED  BY InvariantHolds, <1>2, PTL

(***************************************************************************)
(* Streams overlap, are given up and repeated, but none runs ahead of a    *)
(* hole, and no ack claims what is not committed.                          *)
(***************************************************************************)
THEOREM StreamsKeepOrder == Spec => []StreamsInOrder
<1>1. IInv => StreamsInOrder
  BY DEF IInv, PathOK, Carries, StreamsInOrder
<1>. QED  BY InvariantHolds, <1>1, PTL

(***************************************************************************)
(* No ack reports a missing sequence and no summary a gap, so neither can  *)
(* show that the end of a node's telemetry never arrived.                  *)
(***************************************************************************)
THEOREM GapsAreNeverReported == Spec => []NoGapReported
<1>1. ASSUME IInv, NEW n \in Node
      PROVE  /\ \A c \in streams[n] : c.ack.missing = {}
             /\ received[n] # {} => ~ HasGaps(received[n])
  <2>1. \A c \in streams[n] : c.ack.missing = {}
    BY <1>1 DEF IInv, PathOK, Carries
  <2>2. PICK k \in 0 .. Len(rows[n]) : received[n] = 1 .. k
    BY <1>1 DEF IInv, PathOK, Arrived
  <2>3. k \in Nat
    BY <1>1, <2>2, LenProperties DEF IInv, TypeOK
  <2>4. k = 0 => 1 .. k = {}
    BY <2>3
  <2>. QED  BY <2>1, <2>2, <2>3, <2>4, NoGapInPrefix
<1>2. IInv => NoGapReported
  BY <1>1 DEF NoGapReported
<1>. QED  BY InvariantHolds, <1>2, PTL

(***************************************************************************)
(* An acknowledged row is never sent again, in whatever order the acks of  *)
(* overlapping batches are applied.                                        *)
(***************************************************************************)
THEOREM AcksAreStable == Spec => AckedIsStable
<1>1. IInv /\ [Next]_vars =>
        [\A n \in Node : Acked(rows[n]) \subseteq Acked(rows'[n])]_rows
  BY InvariantStep
<1>. QED  BY InvariantHolds, <1>1, PTL DEF Spec, AckedIsStable
=============================================================================

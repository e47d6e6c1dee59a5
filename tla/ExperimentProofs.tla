-------------------------- MODULE ExperimentProofs --------------------------
(***************************************************************************)
(* Theorems about Experiment for any treatments, number of attempts of a   *)
(* RUN_ID and --count of the SCTP programs.                                *)
(***************************************************************************)
EXTENDS Experiment, SctpEchoProofs, SequenceTheorems

-----------------------------------------------------------------------------
(***************************************************************************)
(* The script.  Every treatment leaves out some steps, none changes their  *)
(* order: the rank of a step is its place in the longest script.           *)
(***************************************************************************)
Rank ==
  [deploy |-> 1, agents |-> 2, lab_deployed |-> 3, capture |-> 4, capture_started |-> 5,
   secret_file |-> 6, secret_copies |-> 7, secret_loaded |-> 8, ike_start |-> 9,
   child_sa_installed |-> 10, traffic_start |-> 11, serve |-> 12, send |-> 13,
   client_ends |-> 14, server_ends |-> 15, traffic_end |-> 16, ike_rekey_start |-> 17,
   ike_rekey_end |-> 18, child_rekey_start |-> 19, child_rekey_end |-> 20,
   end_capture |-> 21, capture_stopped |-> 22, ike_intermediate_observed |-> 23,
   run_complete |-> 24, stop |-> 25, finalize |-> 26, validate |-> 27]

Steps == DOMAIN Rank

Sorted(q) == \A i, j \in 1 .. Len(q) : i < j => Rank[q[i]] < Rank[q[j]]

\* q is a part of a script: steps in their order, with ranks in lo + 1 .. hi.
Part(q, lo, hi) ==
  /\ q \in Seq(Steps)
  /\ Sorted(q)
  /\ \A s \in ToSet(q) : lo < Rank[s] /\ Rank[s] <= hi

LEMMA RankIsNat == \A s \in Steps : Rank[s] \in Nat
BY DEF Steps, Rank

LEMMA PartsAppend ==
  ASSUME NEW lo \in Nat, NEW mid \in Nat, NEW hi \in Nat, lo <= mid, mid <= hi,
         NEW a, NEW b, Part(a, lo, mid), Part(b, mid, hi)
  PROVE  Part(a \o b, lo, hi) /\ ToSet(a \o b) = ToSet(a) \cup ToSet(b)
<1>1. a \in Seq(Steps) /\ b \in Seq(Steps) /\ Len(a) \in Nat /\ Len(b) \in Nat
  BY LenProperties DEF Part
<1>2. /\ a \o b \in Seq(Steps)
      /\ Len(a \o b) = Len(a) + Len(b)
      /\ \A i \in 1 .. Len(a) + Len(b) :
           (a \o b)[i] = IF i <= Len(a) THEN a[i] ELSE b[i - Len(a)]
  BY <1>1, ConcatProperties
<1>. DEFINE c == a \o b
<1>. HIDE DEF c
<1>3. /\ \A i \in 1 .. Len(a) : c[i] = a[i]
      /\ \A i \in 1 .. Len(b) : c[i + Len(a)] = b[i]
      /\ \A i \in 1 .. Len(c) : i - Len(a) \in 1 .. Len(b) => c[i] = b[i - Len(a)]
      /\ \A i \in 1 .. Len(c) : i \in 1 .. Len(a) \/ i - Len(a) \in 1 .. Len(b)
      /\ c \in Seq(Steps) /\ Len(c) = Len(a) + Len(b)
  BY <1>1, <1>2 DEF c
<1>4. /\ ToSet(a) = {a[i] : i \in 1 .. Len(a)}
      /\ ToSet(b) = {b[i] : i \in 1 .. Len(b)}
      /\ ToSet(c) = {c[i] : i \in 1 .. Len(c)}
  BY <1>1, <1>3, LenProperties DEF ToSet
<1>5. ToSet(c) = ToSet(a) \cup ToSet(b)
  <2>1. ASSUME NEW i \in 1 .. Len(c)
        PROVE  c[i] \in ToSet(a) \cup ToSet(b)
    <3>1. CASE i \in 1 .. Len(a)
      BY <1>3, <1>4, <3>1
    <3>2. CASE i - Len(a) \in 1 .. Len(b)
      <4>1. c[i] = b[i - Len(a)]
        BY <1>1, <1>3, <3>2
      <4>. QED  BY <1>4, <3>2, <4>1
    <3>. QED  BY <1>3, <3>1, <3>2
  <2>2. ASSUME NEW i \in 1 .. Len(a)
        PROVE  a[i] \in ToSet(c)
    BY <1>1, <1>3, <1>4
  <2>3. ASSUME NEW i \in 1 .. Len(b)
        PROVE  b[i] \in ToSet(c)
    <3>1. i + Len(a) \in 1 .. Len(c)
      BY <1>1, <1>3
    <3>. QED  BY <1>3, <1>4, <3>1
  <2>. QED  BY <1>4, <2>1, <2>2, <2>3
<1>6. \A s \in ToSet(c) : lo < Rank[s] /\ Rank[s] <= hi
  <2>1. \A s \in ToSet(a) \cup ToSet(b) : Rank[s] \in Nat
    <3>1. ToSet(a) \cup ToSet(b) \subseteq Steps
      BY <1>1, <1>4, ElementOfSeq
    <3>. QED  BY <3>1, RankIsNat
  <2>. QED  BY <1>5, <2>1 DEF Part
<1>7. Sorted(c)
  <2>. SUFFICES ASSUME NEW i \in 1 .. Len(c), NEW j \in 1 .. Len(c), i < j
                PROVE  Rank[c[i]] < Rank[c[j]]
    BY DEF Sorted
  <2>1. CASE j \in 1 .. Len(a)
    <3>1. i \in 1 .. Len(a)
      BY <1>1, <2>1
    <3>. QED  BY <1>3, <2>1, <3>1 DEF Part, Sorted
  <2>2. CASE i \in 1 .. Len(a) /\ j - Len(a) \in 1 .. Len(b)
    <3>1. c[i] \in ToSet(a) /\ c[j] = b[j - Len(a)] /\ c[j] \in ToSet(b)
      BY <1>1, <1>3, <1>4, <2>2
    <3>2. Rank[c[i]] <= mid /\ mid < Rank[c[j]]
      BY <3>1 DEF Part
    <3>3. Rank[c[i]] \in Nat /\ Rank[c[j]] \in Nat
      BY <1>3, ElementOfSeq, RankIsNat
    <3>. QED  BY <3>2, <3>3
  <2>3. CASE i - Len(a) \in 1 .. Len(b)
    <3>1. j - Len(a) \in 1 .. Len(b) /\ i - Len(a) < j - Len(a)
      BY <1>1, <1>3, <2>3
    <3>2. c[i] = b[i - Len(a)] /\ c[j] = b[j - Len(a)]
      BY <1>1, <1>3, <2>3, <3>1
    <3>. QED  BY <2>3, <3>1, <3>2 DEF Part, Sorted
  <2>. QED  BY <1>3, <2>1, <2>2, <2>3
<1>. QED  BY <1>3, <1>5, <1>6, <1>7 DEF Part, c

\* The steps a treatment does.
ScriptSet ==
  {"deploy", "agents", "lab_deployed", "capture", "capture_started", "traffic_start",
   "traffic_end", "end_capture", "capture_stopped", "run_complete", "stop", "finalize",
   "validate"}
    \cup (IF mode = "M1" THEN {}
          ELSE {"secret_file", "secret_copies", "secret_loaded", "ike_start",
                "child_sa_installed"})
    \cup (IF kind = "establishment" THEN {}
          ELSE {"serve", "send", "client_ends", "server_ends"})
    \cup (IF mode = "M1" \/ kind = "steady" THEN {}
          ELSE {"ike_rekey_start", "ike_rekey_end", "child_rekey_start", "child_rekey_end"})
    \cup (IF mode = "M3" THEN {"ike_intermediate_observed"} ELSE {})

LEMMA ScriptParts == Part(Script, 0, 27) /\ ToSet(Script) = ScriptSet
<1>. DEFINE When(condition, steps) == IF condition THEN steps ELSE <<>>
            p1 == <<"deploy", "agents", "lab_deployed", "capture", "capture_started">>
            p2 == When(mode # "M1", Establishment)
            p3 == <<"traffic_start">>
            p4 == When(kind # "establishment", Traffic)
            p5 == <<"traffic_end">>
            p6 == When(mode # "M1" /\ kind # "steady", Rekeys)
            p7 == <<"end_capture", "capture_stopped">>
            p8 == When(mode = "M3", <<"ike_intermediate_observed">>)
            p9 == <<"run_complete", "stop", "finalize", "validate">>
<1>. USE DEF Part, Sorted, ToSet, Steps
<1>1. Part(p1, 0, 5) /\ ToSet(p1) = {"deploy", "agents", "lab_deployed", "capture", "capture_started"}
  BY DEF Rank
<1>2. /\ Part(Establishment, 5, 10)
      /\ ToSet(Establishment) = {"secret_file", "secret_copies", "secret_loaded", "ike_start",
                                 "child_sa_installed"}
  BY DEF Rank, Establishment
<1>3. Part(p3, 10, 11) /\ ToSet(p3) = {"traffic_start"}
  BY DEF Rank
<1>4. /\ Part(Traffic, 11, 15)
      /\ ToSet(Traffic) = {"serve", "send", "client_ends", "server_ends"}
  BY DEF Rank, Traffic
<1>5. Part(p5, 15, 16) /\ ToSet(p5) = {"traffic_end"}
  BY DEF Rank
<1>6. /\ Part(Rekeys, 16, 20)
      /\ ToSet(Rekeys) = {"ike_rekey_start", "ike_rekey_end", "child_rekey_start", "child_rekey_end"}
  BY DEF Rank, Rekeys
<1>7. Part(p7, 20, 22) /\ ToSet(p7) = {"end_capture", "capture_stopped"}
  BY DEF Rank
<1>8. /\ Part(<<"ike_intermediate_observed">>, 22, 23)
      /\ ToSet(<<"ike_intermediate_observed">>) = {"ike_intermediate_observed"}
  BY DEF Rank
<1>9. Part(p9, 23, 27) /\ ToSet(p9) = {"run_complete", "stop", "finalize", "validate"}
  BY DEF Rank
<1>10. ToSet(<<>>) = {} /\ \A lo, hi : Part(<<>>, lo, hi)
  OBVIOUS
<1>. HIDE DEF Part, Sorted, ToSet, Steps
<1>11. /\ Part(p2, 5, 10)
       /\ ToSet(p2) = IF mode = "M1" THEN {}
                      ELSE {"secret_file", "secret_copies", "secret_loaded", "ike_start",
                            "child_sa_installed"}
  BY <1>2, <1>10
<1>12. /\ Part(p4, 11, 15)
       /\ ToSet(p4) = IF kind = "establishment" THEN {}
                      ELSE {"serve", "send", "client_ends", "server_ends"}
  BY <1>4, <1>10
<1>13. /\ Part(p6, 16, 20)
       /\ ToSet(p6) = IF mode = "M1" \/ kind = "steady" THEN {}
                      ELSE {"ike_rekey_start", "ike_rekey_end", "child_rekey_start",
                            "child_rekey_end"}
  BY <1>6, <1>10
<1>14. /\ Part(p8, 22, 23)
       /\ ToSet(p8) = IF mode = "M3" THEN {"ike_intermediate_observed"} ELSE {}
  BY <1>8, <1>10
<1>15. Script = p1 \o p2 \o p3 \o p4 \o p5 \o p6 \o p7 \o p8 \o p9
  BY DEF Script
<1>. DEFINE q2 == p1 \o p2
            q3 == q2 \o p3
            q4 == q3 \o p4
            q5 == q4 \o p5
            q6 == q5 \o p6
            q7 == q6 \o p7
            q8 == q7 \o p8
            q9 == q8 \o p9
<1>16. Script = q9
  BY <1>15
<1>. HIDE DEF p1, p2, p3, p4, p5, p6, p7, p8, p9
<1>17. Part(q2, 0, 10) /\ ToSet(q2) = ToSet(p1) \cup ToSet(p2)
  BY <1>1, <1>11, PartsAppend
<1>. HIDE DEF q2
<1>18. Part(q3, 0, 11) /\ ToSet(q3) = ToSet(q2) \cup ToSet(p3)
  BY <1>17, <1>3, PartsAppend
<1>. HIDE DEF q3
<1>19. Part(q4, 0, 15) /\ ToSet(q4) = ToSet(q3) \cup ToSet(p4)
  BY <1>18, <1>12, PartsAppend
<1>. HIDE DEF q4
<1>20. Part(q5, 0, 16) /\ ToSet(q5) = ToSet(q4) \cup ToSet(p5)
  BY <1>19, <1>5, PartsAppend
<1>. HIDE DEF q5
<1>21. Part(q6, 0, 20) /\ ToSet(q6) = ToSet(q5) \cup ToSet(p6)
  BY <1>20, <1>13, PartsAppend
<1>. HIDE DEF q6
<1>22. Part(q7, 0, 22) /\ ToSet(q7) = ToSet(q6) \cup ToSet(p7)
  BY <1>21, <1>7, PartsAppend
<1>. HIDE DEF q7
<1>23. Part(q8, 0, 23) /\ ToSet(q8) = ToSet(q7) \cup ToSet(p8)
  BY <1>22, <1>14, PartsAppend
<1>. HIDE DEF q8
<1>24. Part(q9, 0, 27) /\ ToSet(q9) = ToSet(q8) \cup ToSet(p9)
  BY <1>23, <1>9, PartsAppend
<1>. HIDE DEF q9
<1>25. ToSet(q9) = ScriptSet
  <2>1. ToSet(q9) = ToSet(p1) \cup ToSet(p2) \cup ToSet(p3) \cup ToSet(p4) \cup ToSet(p5)
                    \cup ToSet(p6) \cup ToSet(p7) \cup ToSet(p8) \cup ToSet(p9)
    BY <1>17, <1>18, <1>19, <1>20, <1>21, <1>22, <1>23, <1>24
  <2>2. ToSet(p1) \cup ToSet(p3) \cup ToSet(p5) \cup ToSet(p7) \cup ToSet(p9) =
          {"deploy", "agents", "lab_deployed", "capture", "capture_started", "traffic_start",
           "traffic_end", "end_capture", "capture_stopped", "run_complete", "stop",
           "finalize", "validate"}
    BY <1>1, <1>3, <1>5, <1>7, <1>9
  <2>. QED  BY <1>11, <1>12, <1>13, <1>14, <2>1, <2>2 DEF ScriptSet
<1>. QED  BY <1>16, <1>24, <1>25
-----------------------------------------------------------------------------
(***************************************************************************)
(* The inductive invariant, part by part.                                  *)
(***************************************************************************)
Due(s) == s \in ToSet(todo)

\* What the running attempt has behind it.
Done == IF stage = "steps" THEN ToSet(Script) \ ToSet(todo) ELSE {}

\* What is left to do is a last part of the script.
ScriptOK ==
  /\ todo \in Seq(Steps)
  /\ Sorted(todo)
  /\ IsSuffix(todo, Script)
  /\ ToSet(todo) \subseteq ToSet(Script)
  /\ \A s \in ToSet(todo), r \in ToSet(Script) : Rank[s] < Rank[r] => Due(r)

ControlOK ==
  /\ <<mode, kind>> \in Treatment
  /\ attempt \in 0 .. MaxAttempts
  /\ stage \in {"off", "steps", "cleanup", "destroying"}
  /\ stage # "off" => attempt # 0
  /\ left \in {"clean", "lab", "all"}
  /\ ScriptOK

\* Whatever is in the laboratory or on the host is of an attempt there was.
LabOK ==
  /\ lab \in BOOLEAN
  /\ inLab \subseteq (Node \cup {"capture", "secret"}) \X (1 .. attempt)
  /\ OneAttemptInLab

\* A PSK of this attempt is there only if the step that unlinks it is to come.
SecretOK ==
  /\ secretFile \subseteq 1 .. attempt
  /\ stage = "steps" /\ attempt \in secretFile => Due("secret_copies")
  /\ stage = "steps" /\ <<"secret", attempt>> \in inLab => Due("secret_loaded")
  /\ stage = "destroying" => attempt \notin secretFile
  /\ stage = "off" /\ left # "all" => attempt \notin secretFile
  /\ stage = "off" /\ left = "clean" => ~ lab /\ inLab = {} /\ server = "absent"

\* A step that waited for a program saw it end well, and so it remains.
TrafficOK ==
  /\ Past("client_ends") => client = "done"
  /\ Past("server_ends") => server = "done"

\* What summary.json can say of the nodes.
Verdicts == UNION {[S -> BOOLEAN] : S \in SUBSET Node}

\* Telemetry is of an attempt there was, and so is what has passed.
TelemetryOK ==
  /\ telemetry \in [Node -> SUBSET (1 .. attempt)]
  /\ observed \in Verdicts
  /\ passed \subseteq 1 .. attempt

\* events.jsonl is in the order of the attempts, and of an attempt's steps; of
\* the running attempt it has the steps that are past.
EventsOK ==
  /\ events \in Seq(EventNames \X (1 .. attempt))
  /\ \A i \in 1 .. Len(events) : events[i][1] \in ToSet(Script)
  /\ \A i, j \in 1 .. Len(events) :
       i < j => \/ events[i][2] < events[j][2]
                \/ events[i][2] = events[j][2] /\ Rank[events[i][1]] < Rank[events[j][1]]
  /\ stage = "steps" =>
       \A i \in 1 .. Len(events) : events[i][2] = attempt => events[i][1] \in Done
  /\ \A e \in EventNames \cap Done : \E i \in 1 .. Len(events) : events[i] = <<e, attempt>>

ExperimentOK ==
  ControlOK /\ EchoOK /\ LabOK /\ SecretOK /\ TrafficOK /\ TelemetryOK /\ EventsOK
    /\ DurationsAreOfThisAttempt

-----------------------------------------------------------------------------
(***************************************************************************)
(* How the steps of the script follow each other.                          *)
(***************************************************************************)
LEMMA SuffixMeans ==
  ASSUME NEW q \in Seq(Steps), NEW s \in Seq(Steps)
  PROVE  IsSuffix(q, s) <=>
           /\ Len(q) <= Len(s)
           /\ \A i \in 1 .. Len(q) : q[i] = s[i + (Len(s) - Len(q))]
<1>. DEFINE rq == Reverse(q)
            rs == Reverse(s)
<1>1. Len(q) \in Nat /\ Len(s) \in Nat
  BY LenProperties
<1>2. /\ rq \in Seq(Steps) /\ Len(rq) = Len(q)
      /\ rs \in Seq(Steps) /\ Len(rs) = Len(s)
      /\ \A i \in 1 .. Len(q) : rq[i] = q[(Len(q) - i) + 1]
      /\ \A i \in 1 .. Len(s) : rs[i] = s[(Len(s) - i) + 1]
  <2>1. /\ rq = [i \in 1 .. Len(q) |-> q[(Len(q) - i) + 1]]
        /\ rs = [i \in 1 .. Len(s) |-> s[(Len(s) - i) + 1]]
    BY DEF Reverse
  <2>2. /\ \A i \in 1 .. Len(q) : q[(Len(q) - i) + 1] \in Steps
        /\ \A i \in 1 .. Len(s) : s[(Len(s) - i) + 1] \in Steps
    <3>1. /\ \A i \in 1 .. Len(q) : (Len(q) - i) + 1 \in 1 .. Len(q)
          /\ \A i \in 1 .. Len(s) : (Len(s) - i) + 1 \in 1 .. Len(s)
      BY <1>1
    <3>. QED  BY <3>1, ElementOfSeq
  <2>3. rq \in [1 .. Len(q) -> Steps] /\ rs \in [1 .. Len(s) -> Steps]
    BY <2>1, <2>2
  <2>. QED  BY <1>1, <2>1, <2>3
<1>. HIDE DEF rq, rs
<1>3. IsSuffix(q, s) <=> Len(rq) <= Len(rs) /\ SubSeq(rq, 1, Len(rq)) = SubSeq(rs, 1, Len(rq))
  BY DEF IsSuffix, IsPrefix, rq, rs
<1>4. ASSUME Len(q) <= Len(s)
      PROVE  SubSeq(rq, 1, Len(q)) = SubSeq(rs, 1, Len(q)) <=>
               \A i \in 1 .. Len(q) : rq[i] = rs[i]
  <2>. DEFINE a == SubSeq(rq, 1, Len(q))
              b == SubSeq(rs, 1, Len(q))
  <2>1. /\ \A i \in 1 .. Len(q) : rq[i] \in Steps /\ rs[i] \in Steps
    BY <1>1, <1>2, <1>4, ElementOfSeq
  <2>2. /\ a \in Seq(Steps) /\ Len(a) = Len(q) /\ \A i \in 1 .. Len(q) : a[i] = rq[i]
        /\ b \in Seq(Steps) /\ Len(b) = Len(q) /\ \A i \in 1 .. Len(q) : b[i] = rs[i]
    BY <1>1, <2>1, SubSeqProperties
  <2>. HIDE DEF a, b
  <2>3. a = b <=> \A i \in 1 .. Len(q) : a[i] = b[i]
    BY <2>2, SeqEqual
  <2>. QED  BY <2>2, <2>3 DEF a, b
<1>5. ASSUME Len(q) <= Len(s)
      PROVE  (\A i \in 1 .. Len(q) : rq[i] = rs[i]) <=>
               \A i \in 1 .. Len(q) : q[i] = s[i + (Len(s) - Len(q))]
  <2>1. ASSUME NEW i \in 1 .. Len(q)
        PROVE  /\ (Len(q) - i) + 1 \in 1 .. Len(q) /\ i \in 1 .. Len(s)
               /\ (Len(q) - ((Len(q) - i) + 1)) + 1 = i
               /\ ((Len(q) - i) + 1) + (Len(s) - Len(q)) = (Len(s) - i) + 1
               /\ (Len(s) - ((Len(q) - i) + 1)) + 1 = i + (Len(s) - Len(q))
    BY <1>1, <1>5
  <2>2. ASSUME \A i \in 1 .. Len(q) : rq[i] = rs[i], NEW i \in 1 .. Len(q)
        PROVE  q[i] = s[i + (Len(s) - Len(q))]
    <3>1. rq[(Len(q) - i) + 1] = rs[(Len(q) - i) + 1]
      BY <2>1, <2>2
    <3>2. rq[(Len(q) - i) + 1] = q[i]
      BY <1>2, <2>1
    <3>3. (Len(q) - i) + 1 \in 1 .. Len(s)
      BY <2>1
    <3>4. rs[(Len(q) - i) + 1] = s[(Len(s) - ((Len(q) - i) + 1)) + 1]
      BY <1>2, <3>3
    <3>. QED  BY <2>1, <3>1, <3>2, <3>4
  <2>3. ASSUME \A i \in 1 .. Len(q) : q[i] = s[i + (Len(s) - Len(q))], NEW i \in 1 .. Len(q)
        PROVE  rq[i] = rs[i]
    <3>1. q[(Len(q) - i) + 1] = s[((Len(q) - i) + 1) + (Len(s) - Len(q))]
      BY <2>1, <2>3
    <3>. QED  BY <1>2, <2>1, <3>1
  <2>. QED  BY <2>2, <2>3
<1>. QED  BY <1>2, <1>3, <1>4, <1>5

LEMMA TailIsSuffix ==
  ASSUME NEW q \in Seq(Steps), NEW s \in Seq(Steps), q # <<>>, IsSuffix(q, s)
  PROVE  IsSuffix(Tail(q), s)
<1>1. /\ Tail(q) \in Seq(Steps) /\ Len(Tail(q)) = Len(q) - 1
      /\ \A i \in 1 .. Len(Tail(q)) : Tail(q)[i] = q[i + 1]
      /\ Len(q) \in Nat /\ Len(s) \in Nat /\ Len(q) # 0
  BY HeadTailProperties, EmptySeq, LenProperties
<1>2. Len(q) <= Len(s) /\ \A i \in 1 .. Len(q) : q[i] = s[i + (Len(s) - Len(q))]
  BY SuffixMeans
<1>. DEFINE w == Tail(q)
<1>3. ASSUME NEW i \in 1 .. Len(w)
      PROVE  w[i] = s[i + (Len(s) - Len(w))]
  <2>1. i + 1 \in 1 .. Len(q) /\ (i + 1) + (Len(s) - Len(q)) = i + (Len(s) - Len(w))
    BY <1>1
  <2>. QED  BY <1>1, <1>2, <2>1
<1>4. w \in Seq(Steps) /\ Len(w) <= Len(s)
  BY <1>1, <1>2
<1>. HIDE DEF w
<1>5. IsSuffix(w, s)
  BY <1>3, <1>4, SuffixMeans
<1>. QED  BY <1>5 DEF w

LEMMA WholeAndNothing ==
  ASSUME NEW s \in Seq(Steps)
  PROVE  IsSuffix(s, s) /\ IsSuffix(<<>>, s)
<1>1. <<>> \in Seq(Steps) /\ Len(<<>>) = 0 /\ Len(s) \in Nat
  BY LenProperties
<1>2. IsSuffix(s, s) <=> \A i \in 1 .. Len(s) : s[i] = s[i + (Len(s) - Len(s))]
  BY <1>1, SuffixMeans
<1>3. ASSUME NEW e \in Seq(Steps), Len(e) = 0
      PROVE  IsSuffix(e, s)
  <2>1. /\ Len(e) <= Len(s)
        /\ \A i \in 1 .. Len(e) : e[i] = s[i + (Len(s) - Len(e))]
    BY <1>1, <1>3
  <2>2. e \in Seq(Steps) /\ s \in Seq(Steps)
    BY <1>3
  <2>. QED  BY ONLY <2>1, <2>2, SuffixMeans
<1>. HIDE DEF Steps
<1>4. IsSuffix(<<>>, s)
  BY ONLY <1>1, <1>3
<1>. QED  BY <1>1, <1>2, <1>4

LEMMA ScriptIsSorted ==
  /\ Script \in Seq(Steps) /\ Sorted(Script)
  /\ ToSet(Script) = ScriptSet
  /\ ScriptSet \subseteq Steps
  /\ \A s \in Steps : Rank[s] \in Nat
<1>1. Script \in Seq(Steps) /\ Sorted(Script) /\ ToSet(Script) = ScriptSet
  BY ScriptParts DEF Part
<1>2. ScriptSet \subseteq Steps
  BY DEF ScriptSet, Steps, Rank
<1>. QED  BY <1>1, <1>2, RankIsNat

\* The steps of a sorted sequence behind its head are the others.
LEMMA TailOfSorted ==
  ASSUME NEW q \in Seq(Steps), Sorted(q), q # <<>>
  PROVE  /\ Tail(q) \in Seq(Steps) /\ Sorted(Tail(q))
         /\ Head(q) \in ToSet(q)
         /\ ToSet(Tail(q)) = ToSet(q) \ {Head(q)}
         /\ \A s \in ToSet(Tail(q)) : Rank[Head(q)] < Rank[s]
         /\ \A s \in ToSet(q) : s \in Steps
<1>. DEFINE w == Tail(q)
<1>1. /\ w \in Seq(Steps) /\ Len(w) = Len(q) - 1
      /\ \A i \in 1 .. Len(w) : w[i] = q[i + 1]
      /\ Len(q) \in Nat /\ Len(q) # 0
      /\ Head(q) = q[1]
  BY HeadTailProperties, EmptySeq, LenProperties
<1>. HIDE DEF w
<1>2. ToSet(q) = {q[i] : i \in 1 .. Len(q)} /\ ToSet(w) = {w[i] : i \in 1 .. Len(w)}
  BY <1>1, LenProperties DEF ToSet
<1>3. \A i \in 1 .. Len(q) : q[i] \in Steps /\ Rank[q[i]] \in Nat
  BY ElementOfSeq, RankIsNat
<1>4. \A i \in 1 .. Len(w) : i + 1 \in 1 .. Len(q) /\ 1 < i + 1 /\ 1 \in 1 .. Len(q)
  BY <1>1
<1>5. \A i \in 1 .. Len(w) : Rank[q[1]] < Rank[w[i]]
  BY <1>1, <1>4 DEF Sorted
<1>6. \A i \in 1 .. Len(w) : w[i] \in ToSet(q) /\ w[i] # q[1]
  <2>1. \A i \in 1 .. Len(w) : w[i] \in ToSet(q)
    BY <1>1, <1>2, <1>4
  <2>2. 1 \in 1 .. Len(q)
    BY <1>1
  <2>. QED  BY <1>3, <1>5, <2>1, <2>2
<1>7. \A i \in 1 .. Len(q) : i = 1 \/ q[i] \in ToSet(w)
  <2>1. \A i \in 1 .. Len(q) : i # 1 => i - 1 \in 1 .. Len(w) /\ (i - 1) + 1 = i
    BY <1>1
  <2>2. ASSUME NEW i \in 1 .. Len(q), i # 1
        PROVE  q[i] \in ToSet(w)
    <3>1. w[i - 1] = q[i]
      BY <1>1, <2>1, <2>2
    <3>. QED  BY <1>2, <2>1, <2>2, <3>1
  <2>. QED  BY <2>2
<1>8. Sorted(w)
  <2>1. ASSUME NEW i \in 1 .. Len(w), NEW j \in 1 .. Len(w), i < j
        PROVE  Rank[w[i]] < Rank[w[j]]
    <3>1. i + 1 \in 1 .. Len(q) /\ j + 1 \in 1 .. Len(q) /\ i + 1 < j + 1
      BY <1>4, <2>1
    <3>. QED  BY <1>1, <3>1 DEF Sorted
  <2>. QED  BY <2>1 DEF Sorted
<1>9. Head(q) \in ToSet(q)
  <2>1. 1 \in 1 .. Len(q)
    BY <1>1
  <2>. QED  BY <1>1, <1>2, <2>1
<1>10. ToSet(w) = ToSet(q) \ {Head(q)}
  <2>1. \A x \in ToSet(w) : x \in ToSet(q) /\ x # q[1]
    BY <1>2, <1>6
  <2>2. \A x \in ToSet(q) : x = q[1] \/ x \in ToSet(w)
    BY <1>2, <1>7
  <2>. QED  BY <1>1, <2>1, <2>2
<1>. QED  BY <1>1, <1>2, <1>3, <1>5, <1>8, <1>9, <1>10 DEF w

\* A step of the script is done.
LEMMA StepDone ==
  ASSUME ControlOK, NEW s, Do(s)
  PROVE  /\ ControlOK'
         /\ stage = "steps" /\ stage' = "steps" /\ attempt # 0
         /\ UNCHANGED <<mode, kind, attempt, left>>
         /\ Script' = Script
         /\ s \in ScriptSet /\ Due(s)
         /\ \A r : Due(r)' <=> Due(r) /\ r # s
         /\ \A r : Past(r)' <=> Past(r) \/ r = s
         /\ \A r \in ScriptSet : Past(r) <=> Rank[r] < Rank[s]
         /\ \A r : Past(r) => r \in ScriptSet
         /\ \A r \in ScriptSet : Due(r) \/ Past(r)
<1>1. /\ stage = "steps" /\ stage' = "steps" /\ todo # <<>> /\ Head(todo) = s
      /\ todo' = Tail(todo) /\ UNCHANGED <<mode, kind, attempt, left>>
  BY DEF Do, At
<1>2. Script' = Script
  BY <1>1 DEF Script
<1>3. /\ todo \in Seq(Steps) /\ Sorted(todo) /\ IsSuffix(todo, Script)
      /\ ToSet(todo) \subseteq ScriptSet
      /\ \A x \in ToSet(todo), r \in ScriptSet : Rank[x] < Rank[r] => r \in ToSet(todo)
  BY ScriptIsSorted DEF ControlOK, ScriptOK, Due
<1>4. /\ todo' \in Seq(Steps) /\ Sorted(todo') /\ IsSuffix(todo', Script)
      /\ s \in ToSet(todo) /\ ToSet(todo') = ToSet(todo) \ {s}
      /\ \A x \in ToSet(todo') : Rank[s] < Rank[x]
  BY <1>1, <1>3, TailOfSorted, TailIsSuffix, ScriptIsSorted
<1>5. \A r \in ScriptSet : r \in ToSet(todo) <=> ~ (Rank[r] < Rank[s])
  <2>1. \A r \in ScriptSet : Rank[r] \in Nat
    BY ScriptIsSorted
  <2>2. ASSUME NEW r \in ScriptSet, Rank[r] < Rank[s], r \in ToSet(todo)
        PROVE  FALSE
    <3>1. CASE r = s
      BY <1>3, <1>4, <2>1, <2>2, <3>1
    <3>2. CASE r # s
      BY <1>3, <1>4, <2>1, <2>2, <3>2
    <3>. QED  BY <3>1, <3>2
  <2>3. ASSUME NEW r \in ScriptSet, ~ (Rank[r] < Rank[s])
        PROVE  r \in ToSet(todo)
    <3>1. r = s \/ Rank[s] < Rank[r]
      <4>1. s \in Steps /\ r \in Steps
        BY <1>3, <1>4, ScriptIsSorted
      <4>2. \A x, y \in Steps : Rank[x] = Rank[y] => x = y
        BY DEF Rank, Steps
      <4>3. Rank[r] \in Nat /\ Rank[s] \in Nat
        BY <4>1, ScriptIsSorted
      <4>. QED  BY <2>3, <4>1, <4>2, <4>3
    <3>. QED  BY <1>3, <1>4, <3>1
  <2>. QED  BY <2>2, <2>3
<1>6. /\ \A r : Due(r) <=> r \in ToSet(todo)
      /\ \A r : Due(r)' <=> r \in ToSet(todo')
      /\ \A r : Past(r) <=> r \in ScriptSet /\ r \notin ToSet(todo)
      /\ \A r : Past(r)' <=> r \in ScriptSet /\ r \notin ToSet(todo')
  BY <1>1, <1>2, ScriptIsSorted DEF Due, Past
<1>7. ControlOK'
  <2>1. ScriptOK'
    <3>1. ToSet(todo') \subseteq ScriptSet
      BY <1>3, <1>4
    <3>2. \A x \in ToSet(todo'), r \in ScriptSet : Rank[x] < Rank[r] => r \in ToSet(todo')
      <4>1. \A x \in ScriptSet : Rank[x] \in Nat
        BY ScriptIsSorted
      <4>. QED  BY <1>3, <1>4, <4>1
    <3>. QED  BY <1>2, <1>4, <3>1, <3>2, ScriptIsSorted DEF ScriptOK, Due
  <2>. QED  BY <1>1, <2>1 DEF ControlOK
<1>8. attempt # 0 /\ s \in ScriptSet
  BY <1>1, <1>3, <1>4 DEF ControlOK
<1>. QED  BY <1>1, <1>2, <1>4, <1>5, <1>6, <1>7, <1>8

LEMMA DoneIsPast == \A r : Past(r) <=> r \in Done
BY DEF Past, Done

LEMMA StepIsDone ==
  ASSUME ControlOK, NEW s, Do(s)
  PROVE  /\ Done' = Done \cup {s}
         /\ Done \subseteq ScriptSet
         /\ \A r \in ScriptSet : r \in Done <=> Rank[r] < Rank[s]
<1>1. /\ \A r : Past(r)' <=> Past(r) \/ r = s
      /\ \A r \in ScriptSet : Past(r) <=> Rank[r] < Rank[s]
      /\ \A r : Past(r) => r \in ScriptSet
  BY StepDone
<1>2. (\A r : Past(r) <=> r \in Done) /\ (\A r : Past(r)' <=> r \in Done')
  BY DEF Past, Done
<1>. QED  BY <1>1, <1>2

\* run.sh is started.
LEMMA Launched ==
  ASSUME ControlOK, Launch
  PROVE  /\ ControlOK'
         /\ stage' = "steps" /\ attempt' = attempt + 1 /\ attempt \in Nat
         /\ Script' = Script
         /\ \A r : ~ Past(r)'
<1>1. /\ attempt \in 0 .. MaxAttempts /\ attempt < MaxAttempts /\ attempt' = attempt + 1
      /\ stage' = "steps" /\ todo' = Script /\ UNCHANGED <<mode, kind, left>>
  BY DEF Launch, ControlOK
<1>2. Script' = Script
  BY <1>1 DEF Script
<1>3. ScriptOK'
  BY <1>1, <1>2, ScriptIsSorted, WholeAndNothing DEF ScriptOK, Due
<1>4. attempt' \in 0 .. MaxAttempts /\ attempt' # 0 /\ attempt \in Nat
  BY <1>1, ExperimentConstantsOK
<1>5. \A r : ~ Past(r)'
  BY <1>1, <1>2 DEF Past
<1>. QED  BY <1>1, <1>2, <1>3, <1>4, <1>5 DEF ControlOK

\* The script is over, or was not running.
Ends ==
  \/ StepFails \/ Interrupt \/ CleanUp \/ DestroyLab \/ DestroyFails \/ Kill \/ Validate

LEMMA Ended ==
  ASSUME ControlOK, Ends
  PROVE  /\ ControlOK'
         /\ stage' # "steps" /\ UNCHANGED <<mode, kind, attempt>> /\ attempt # 0
         /\ Script' = Script
         /\ \A r : ~ Past(r)'
<1>. USE DEF StepFails, Interrupt, CleanUp, DestroyLab, DestroyFails, Kill, Validate
<1>1. /\ stage' # "steps" /\ stage # "off" /\ UNCHANGED <<mode, kind, attempt>>
      /\ stage' \in {"off", "cleanup", "destroying"}
      /\ todo' = todo \/ todo' = <<>>
      /\ left' = left \/ left' \in {"clean", "lab", "all"}
  BY DEF Ends, At
<1>2. Script' = Script
  BY <1>1 DEF Script
<1>3. ScriptOK'
  <2>1. CASE todo' = todo
    BY <1>2, <2>1 DEF ScriptOK, ControlOK, Due
  <2>2. CASE todo' = <<>>
    <3>1. IsSuffix(<<>>, Script)
      BY ScriptIsSorted, WholeAndNothing
    <3>2. ToSet(<<>>) = {} /\ Sorted(<<>>) /\ <<>> \in Seq(Steps)
      BY DEF ToSet, Sorted
    <3>. QED  BY <1>2, <2>2, <3>1, <3>2 DEF ScriptOK, Due
  <2>. QED  BY <1>1, <2>1, <2>2
<1>4. \A r : ~ Past(r)'
  BY <1>1 DEF Past
<1>. QED  BY <1>1, <1>2, <1>3, <1>4 DEF ControlOK

\* The script stays where it is.
LEMMA Waits ==
  ASSUME ControlOK, UNCHANGED control
  PROVE  /\ ControlOK'
         /\ Script' = Script
         /\ \A r : (Past(r)' <=> Past(r)) /\ (Due(r)' <=> Due(r))
         /\ UNCHANGED <<mode, kind, attempt, stage, left>>
<1>1. Script' = Script /\ UNCHANGED <<mode, kind, attempt, stage, todo, left>>
  BY DEF Script, control
<1>. QED  BY <1>1 DEF ControlOK, ScriptOK, Past, Due

LEMMA NamesOfEvents ==
  EventNames = {"lab_deployed", "capture_started", "ike_start", "child_sa_installed",
                "traffic_start", "traffic_end", "capture_stopped",
                "ike_intermediate_observed", "run_complete", "ike_rekey_start",
                "ike_rekey_end", "child_rekey_start", "child_rekey_end"}
<1>1. ToSet(Rekeys) =
        {"ike_rekey_start", "ike_rekey_end", "child_rekey_start", "child_rekey_end"}
  BY DEF ToSet, Rekeys
<1>. QED  BY <1>1 DEF EventNames

(***************************************************************************)
(* What a step of the script does, by its name.                            *)
(***************************************************************************)
Effect(s) ==
  /\ UNCHANGED <<telemetry, passed>>
  /\ IF s \in EventNames THEN events' = Append(events, <<s, attempt>>)
                         ELSE events' = events
  /\ IF s = "finalize" THEN durations' = Durations /\ observed' \in Verdicts
                       ELSE UNCHANGED <<durations, observed>>
  /\ s \notin {"deploy", "serve", "send"} => UNCHANGED echo
  /\ s = "serve" => ServerStart
  /\ s = "send" => ClientStart
  /\ s = "client_ends" => client = "done"
  /\ s = "server_ends" => server = "done"
  /\ IF s = "deploy" THEN lab' = TRUE /\ inLab' = {} /\ EchoGone ELSE lab' = lab
  /\ inLab' \subseteq
       inLab \cup (IF s \in {"agents", "capture"} THEN (Node \cup {"capture"}) \X {attempt}
                   ELSE IF s = "secret_copies" THEN {<<"secret", attempt>>} ELSE {})
  /\ s = "secret_loaded" => <<"secret", attempt>> \notin inLab'
  /\ secretFile' \subseteq secretFile \cup (IF s = "secret_file" THEN {attempt} ELSE {})
  /\ s = "secret_copies" => attempt \notin secretFile'

LEMMA StepEffect ==
  ASSUME RunStep, ~ Validate
  PROVE  \E s : Do(s) /\ Effect(s)
<1>. USE NamesOfEvents DEF files
<1>1. CASE Deploy
  <2>1. Do("deploy") /\ Effect("deploy")
    BY <1>1 DEF Deploy, Effect
  <2>. QED  BY <2>1
<1>2. CASE StartAgents
  <2>1. Do("agents") /\ Effect("agents")
    BY <1>2 DEF StartAgents, Effect
  <2>. QED  BY <2>1
<1>3. CASE LogEvent
  <2>1. PICK e \in EventNames : Do(e) /\ events' = Append(events, <<e, attempt>>)
    BY <1>3 DEF LogEvent
  <2>2. Effect(e)
    BY <1>3, <2>1 DEF LogEvent, Effect
  <2>. QED  BY <2>1, <2>2
<1>4. CASE StartCapture
  <2>1. Do("capture") /\ Effect("capture")
    BY <1>4 DEF StartCapture, Effect
  <2>. QED  BY <2>1
<1>5. CASE StopCapture
  <2>1. Do("end_capture") /\ Effect("end_capture")
    BY <1>5 DEF StopCapture, Signalled, Effect
  <2>. QED  BY <2>1
<1>6. CASE WriteSecret
  <2>1. Do("secret_file") /\ Effect("secret_file")
    BY <1>6 DEF WriteSecret, Effect
  <2>. QED  BY <2>1
<1>7. CASE CopySecret
  <2>1. Do("secret_copies") /\ Effect("secret_copies")
    BY <1>7 DEF CopySecret, Effect
  <2>. QED  BY <2>1
<1>8. CASE UnlinkCopies
  <2>1. Do("secret_loaded") /\ Effect("secret_loaded")
    BY <1>8 DEF UnlinkCopies, Effect
  <2>. QED  BY <2>1
<1>9. CASE Serve
  <2>1. Do("serve") /\ Effect("serve")
    BY <1>9 DEF Serve, Effect
  <2>. QED  BY <2>1
<1>10. CASE SendTraffic
  <2>1. Do("send") /\ Effect("send")
    BY <1>10 DEF SendTraffic, Effect
  <2>. QED  BY <2>1
<1>11. CASE ClientEnds
  <2>1. Do("client_ends") /\ Effect("client_ends")
    BY <1>11 DEF ClientEnds, Effect
  <2>. QED  BY <2>1
<1>12. CASE ServerEnds
  <2>1. Do("server_ends") /\ Effect("server_ends")
    BY <1>12 DEF ServerEnds, Effect
  <2>. QED  BY <2>1
<1>13. CASE StopAgents
  <2>1. Do("stop") /\ Effect("stop")
    BY <1>13 DEF StopAgents, Signalled, Effect
  <2>. QED  BY <2>1
<1>14. CASE Finalize
  <2>1. Do("finalize") /\ Effect("finalize")
    BY <1>14 DEF Finalize, Effect, Verdicts
  <2>. QED  BY <2>1
<1>. QED  BY <1>1, <1>2, <1>3, <1>4, <1>5, <1>6, <1>7, <1>8, <1>9, <1>10, <1>11, <1>12,
             <1>13, <1>14 DEF RunStep

-----------------------------------------------------------------------------
(***************************************************************************)
(* A step of the script keeps each part of the invariant.                  *)
(***************************************************************************)
LEMMA EchoSame ==
  ASSUME EchoOK, UNCHANGED echo
  PROVE  EchoOK'
BY DEF echo, EchoOK, OnItsWay, OnItsWayBack, Nowhere, Message

LEMMA EchoByScript ==
  ASSUME ExperimentOK, NEW s, Do(s), Effect(s)
  PROVE  EchoOK'
<1>1. ControlOK /\ EchoOK /\ OneAttemptInLab
  BY DEF ExperimentOK, LabOK
<1>2. \A r \in ScriptSet : Past(r) <=> Rank[r] < Rank[s]
  BY <1>1, StepDone
<1>3. CASE s = "deploy"
  BY <1>1, <1>3, EchoEnds DEF Effect
<1>4. CASE s \in {"serve", "send"}
  <2>1. ~ Past("send") /\ Past("deploy")
    BY <1>1, <1>2, <1>4, StepDone DEF ScriptSet, Rank
  <2>2. client = "absent"
    BY <1>1, <2>1 DEF OneAttemptInLab
  <2>. QED  BY <1>1, <1>4, <2>2, ServerBegins, ClientBegins DEF Effect
<1>5. CASE s \notin {"deploy", "serve", "send"}
  BY <1>1, <1>5, EchoSame DEF Effect
<1>. QED  BY <1>3, <1>4, <1>5

LEMMA LabByScript ==
  ASSUME ExperimentOK, NEW s, Do(s), Effect(s)
  PROVE  LabOK'
<1>1. /\ ControlOK /\ OneAttemptInLab /\ lab \in BOOLEAN /\ attempt \in Nat
      /\ inLab \subseteq (Node \cup {"capture", "secret"}) \X (1 .. attempt)
  BY DEF ExperimentOK, LabOK, ControlOK
<1>2. /\ attempt' = attempt /\ attempt \in 1 .. attempt
      /\ \A r : Past(r)' <=> Past(r) \/ r = s
  BY <1>1, StepDone
<1>3. CASE s = "deploy"
  BY <1>2, <1>3 DEF Effect, EchoGone, LabOK, OneAttemptInLab
<1>4. CASE s # "deploy"
  <2>1. /\ lab' = lab
        /\ inLab' \subseteq inLab \cup (Node \cup {"capture", "secret"}) \X {attempt}
    BY <1>4 DEF Effect
  <2>2. inLab' \subseteq (Node \cup {"capture", "secret"}) \X (1 .. attempt')
    BY <1>1, <1>2, <2>1
  <2>3. /\ client' # client => s = "send"
        /\ server' # server => s = "serve"
    BY <1>4 DEF Effect, echo, ServerStart, ClientStart
  <2>4. ASSUME Past("deploy")'
        PROVE  /\ lab'
               /\ inLab' \subseteq (Node \cup {"capture", "secret"}) \X {attempt'}
               /\ client' # "absent" => Past("send")'
               /\ server' # "absent" => Past("serve")'
    BY <1>1, <1>2, <1>4, <2>1, <2>3, <2>4 DEF OneAttemptInLab
  <2>. QED  BY <1>1, <2>1, <2>2, <2>4 DEF LabOK, OneAttemptInLab
<1>. QED  BY <1>3, <1>4

LEMMA SecretByScript ==
  ASSUME ExperimentOK, NEW s, Do(s), Effect(s)
  PROVE  SecretOK'
<1>1. ControlOK /\ SecretOK /\ attempt \in Nat
  BY DEF ExperimentOK, ControlOK
<1>2. /\ stage = "steps" /\ stage' = "steps" /\ attempt' = attempt /\ attempt # 0
      /\ s \in ScriptSet
      /\ \A r : Due(r)' <=> Due(r) /\ r # s
      /\ \A r \in ScriptSet : Due(r) \/ Past(r)
      /\ \A r \in ScriptSet : Past(r) <=> Rank[r] < Rank[s]
  BY <1>1, StepDone
<1>3. secretFile' \subseteq 1 .. attempt'
  BY <1>1, <1>2 DEF Effect, SecretOK
<1>4. ASSUME attempt' \in secretFile'
      PROVE  Due("secret_copies")'
  <2>1. CASE s = "secret_file"
    <3>1. "secret_copies" \in ScriptSet /\ ~ (Rank["secret_copies"] < Rank[s])
      BY <1>2, <2>1 DEF ScriptSet, Rank
    <3>. QED  BY <1>2, <2>1, <3>1
  <2>2. CASE s # "secret_file"
    <3>1. Due("secret_copies")
      BY <1>1, <1>2, <1>4, <2>2 DEF Effect, SecretOK
    <3>2. s # "secret_copies"
      BY <1>2, <1>4 DEF Effect
    <3>. QED  BY <1>2, <3>1, <3>2
  <2>. QED  BY <2>1, <2>2
<1>5. ASSUME <<"secret", attempt'>> \in inLab'
      PROVE  Due("secret_loaded")'
  <2>1. CASE s = "secret_copies"
    <3>1. "secret_loaded" \in ScriptSet /\ ~ (Rank["secret_loaded"] < Rank[s])
      BY <1>2, <2>1 DEF ScriptSet, Rank
    <3>. QED  BY <1>2, <2>1, <3>1
  <2>2. CASE s # "secret_copies"
    <3>1. inLab' \subseteq inLab \cup (Node \cup {"capture"}) \X {attempt}
      BY <2>2 DEF Effect
    <3>2. <<"secret", attempt>> \in inLab
      BY <1>2, <1>5, <3>1 DEF Node
    <3>3. s # "secret_loaded"
      BY <1>2, <1>5 DEF Effect
    <3>. QED  BY <1>1, <1>2, <3>2, <3>3 DEF SecretOK
  <2>. QED  BY <2>1, <2>2
<1>. QED  BY <1>2, <1>3, <1>4, <1>5 DEF SecretOK

LEMMA TrafficByScript ==
  ASSUME ExperimentOK, NEW s, Do(s), Effect(s)
  PROVE  TrafficOK'
<1>1. ControlOK /\ TrafficOK
  BY DEF ExperimentOK
<1>2. /\ \A r : Past(r)' <=> Past(r) \/ r = s
      /\ \A r : Past(r) => r \in ScriptSet
      /\ \A r \in ScriptSet : Past(r) <=> Rank[r] < Rank[s]
  BY <1>1, StepDone
<1>3. CASE s \in {"deploy", "serve", "send"}
  <2>1. ~ Past("client_ends")' /\ ~ Past("server_ends")'
    BY <1>2, <1>3 DEF Rank
  <2>. QED  BY <2>1 DEF TrafficOK
<1>4. CASE s \notin {"deploy", "serve", "send"}
  <2>1. client' = client /\ server' = server
    BY <1>4 DEF Effect, echo
  <2>. QED  BY <1>1, <1>2, <2>1 DEF TrafficOK, Effect
<1>. QED  BY <1>3, <1>4

LEMMA TelemetryByScript ==
  ASSUME ExperimentOK, NEW s, Do(s), Effect(s)
  PROVE  TelemetryOK'
<1>1. ControlOK /\ TelemetryOK
  BY DEF ExperimentOK
<1>2. attempt' = attempt
  BY <1>1, StepDone
<1>3. telemetry' = telemetry /\ passed' = passed /\ observed' \in Verdicts
  BY <1>1 DEF Effect, TelemetryOK
<1>. QED  BY <1>1, <1>2, <1>3 DEF TelemetryOK, Verdicts

LEMMA EventsByScript ==
  ASSUME ExperimentOK, NEW s, Do(s), Effect(s)
  PROVE  EventsOK'
<1>1. ControlOK /\ EventsOK /\ attempt \in Nat
  BY DEF ExperimentOK, ControlOK
<1>2. /\ stage = "steps" /\ attempt' = attempt /\ attempt # 0
      /\ ToSet(Script) = ScriptSet /\ ToSet(Script)' = ScriptSet
      /\ s \in ScriptSet /\ Done' = Done \cup {s} /\ Done \subseteq ScriptSet
      /\ \A r \in ScriptSet : r \in Done <=> Rank[r] < Rank[s]
  BY <1>1, StepDone, StepIsDone, ScriptIsSorted
<1>. DEFINE n == Len(events)
<1>3. /\ events \in Seq(EventNames \X (1 .. attempt)) /\ n \in Nat
      /\ \A i \in 1 .. n : events[i][1] \in ScriptSet /\ events[i][2] \in 1 .. attempt
      /\ \A i, j \in 1 .. n :
           i < j => \/ events[i][2] < events[j][2]
                    \/ events[i][2] = events[j][2] /\ Rank[events[i][1]] < Rank[events[j][1]]
      /\ \A i \in 1 .. n : events[i][2] = attempt => events[i][1] \in Done
      /\ \A e \in EventNames \cap Done : \E i \in 1 .. n : events[i] = <<e, attempt>>
  <2>1. events \in Seq(EventNames \X (1 .. attempt)) /\ n \in Nat
    BY <1>1, LenProperties DEF EventsOK
  <2>2. \A i \in 1 .. n : events[i] \in EventNames \X (1 .. attempt)
    BY <2>1, ElementOfSeq
  <2>. QED  BY <1>1, <1>2, <2>1, <2>2 DEF EventsOK
<1>4. CASE s \notin EventNames
  <2>1. events' = events
    BY <1>4 DEF Effect
  <2>2. EventNames \cap Done' = EventNames \cap Done
    BY <1>2, <1>4
  <2>. QED  BY <1>2, <1>3, <2>1, <2>2 DEF EventsOK
<1>5. CASE s \in EventNames
  <2>. DEFINE ev == <<s, attempt>>
              more == Append(events, ev)
  <2>1. events' = more
    BY <1>5 DEF Effect
  <2>2. ev \in EventNames \X (1 .. attempt) /\ ev[1] = s /\ ev[2] = attempt
    BY <1>1, <1>2, <1>5
  <2>. HIDE DEF ev, n
  <2>3. /\ more \in Seq(EventNames \X (1 .. attempt)) /\ Len(more) = n + 1
        /\ \A i \in 1 .. n : more[i] = events[i]
        /\ more[n + 1] = ev
    BY <1>3, <2>2 DEF n
  <2>. HIDE DEF more
  <2>4. \A i \in 1 .. n + 1 : i \in 1 .. n \/ i = n + 1
    BY <1>3
  <2>5. \A i \in 1 .. n + 1 : more[i][1] \in ScriptSet
    BY <1>2, <1>3, <2>2, <2>3, <2>4
  <2>6. \A i \in 1 .. n + 1 : more[i][2] = attempt => more[i][1] \in Done'
    BY <1>2, <1>3, <2>2, <2>3, <2>4
  <2>7. ASSUME NEW i \in 1 .. n + 1, NEW j \in 1 .. n + 1, i < j
        PROVE  \/ more[i][2] < more[j][2]
               \/ more[i][2] = more[j][2] /\ Rank[more[i][1]] < Rank[more[j][1]]
    <3>1. i \in 1 .. n
      BY <1>3, <2>7
    <3>2. CASE j \in 1 .. n
      <4>1. more[i] = events[i] /\ more[j] = events[j]
        BY <2>3, <3>1, <3>2
      <4>. QED  BY <1>3, <2>7, <3>1, <3>2, <4>1
    <3>3. CASE j = n + 1
      <4>1. more[j][2] = attempt /\ more[j][1] = s /\ more[i] = events[i]
        BY <2>2, <2>3, <3>1, <3>3
      <4>2. events[i][2] \in 1 .. attempt /\ events[i][1] \in ScriptSet
        BY <1>3, <3>1
      <4>3. CASE events[i][2] = attempt
        <5>1. Rank[events[i][1]] < Rank[s]
          BY <1>2, <1>3, <3>1, <4>2, <4>3
        <5>. QED  BY <4>1, <4>3, <5>1
      <4>4. CASE events[i][2] # attempt
        BY <1>1, <4>1, <4>2, <4>4
      <4>. QED  BY <4>3, <4>4
    <3>. QED  BY <2>4, <3>2, <3>3
  <2>8. ASSUME NEW e \in EventNames \cap Done'
        PROVE  \E i \in 1 .. n + 1 : more[i] = <<e, attempt>>
    <3>1. CASE e = s
      <4>1. n + 1 \in 1 .. n + 1
        BY <1>3
      <4>. QED  BY <2>3, <3>1, <4>1 DEF ev
    <3>2. CASE e \in Done
      <4>1. PICK i \in 1 .. n : events[i] = <<e, attempt>>
        BY <1>3, <3>2
      <4>2. i \in 1 .. n + 1
        BY <1>3
      <4>. QED  BY <2>3, <4>1, <4>2
    <3>. QED  BY <1>2, <3>1, <3>2
  <2>. QED  BY <1>2, <2>1, <2>3, <2>5, <2>6, <2>7, <2>8 DEF EventsOK
<1>. QED  BY <1>4, <1>5
\* The last line of an event that the running attempt has behind it is its own.
LEMMA LastLine ==
  ASSUME EventsOK, attempt \in Nat, NEW e \in EventNames \cap Done, Rank[e] \in Nat
  PROVE  /\ ByName(e) \in 1 .. Len(events)
         /\ events[ByName(e)] = <<e, attempt>>
         /\ Lines(e) # {}
<1>. DEFINE n == Len(events)
<1>1. /\ events \in Seq(EventNames \X (1 .. attempt)) /\ n \in Nat
      /\ \A i \in 1 .. n : events[i][2] \in 1 .. attempt
  <2>1. events \in Seq(EventNames \X (1 .. attempt)) /\ n \in Nat
    BY LenProperties DEF EventsOK
  <2>2. \A i \in 1 .. n : events[i] \in EventNames \X (1 .. attempt)
    BY <2>1, ElementOfSeq
  <2>. QED  BY <2>1, <2>2
<1>2. PICK last \in 1 .. n : events[last] = <<e, attempt>>
  BY DEF EventsOK
<1>3. last \in Lines(e) /\ \A i \in Lines(e) : i \in 1 .. n /\ events[i][1] = e
  BY <1>2 DEF Lines
<1>4. ASSUME NEW i \in Lines(e)
      PROVE  last >= i
  <2>1. i \in 1 .. n /\ events[i][1] = e /\ events[i][2] \in 1 .. attempt
    BY <1>1, <1>3
  <2>2. events[last][1] = e /\ events[last][2] = attempt
    BY <1>2
  <2>3. ~ (last < i)
    <3>. SUFFICES ASSUME last < i PROVE FALSE
      OBVIOUS
    <3>1. \/ attempt < events[i][2]
          \/ Rank[e] < Rank[e]
      BY <2>1, <2>2 DEF EventsOK
    <3>. QED  BY <2>1, <3>1
  <2>. QED  BY <1>1, <2>1, <2>3
<1>5. ByName(e) = last
  <2>1. \A x \in Lines(e) : (\A y \in Lines(e) : x >= y) => x = last
    BY <1>1, <1>3, <1>4
  <2>. QED  BY <1>3, <1>4, <2>1 DEF ByName, Max
<1>. QED  BY <1>2, <1>3, <1>5

\* What finalize needs to know of its labels.
LEMMA LabelsAre ==
  ASSUME NEW l \in DOMAIN Labels
  PROVE  /\ Labels[l][1] \in EventNames /\ Labels[l][2] \in EventNames
         /\ Rank[Labels[l][1]] < Rank[Labels[l][2]]
         /\ Rank[Labels[l][2]] < Rank["finalize"]
         /\ Rank[Labels[l][1]] \in Nat /\ Rank[Labels[l][2]] \in Nat
         /\ Labels[l][1] # Labels[l][2]
         /\ l \in Measured <=> Labels[l][1] \in ScriptSet
         /\ l \in Measured <=> Labels[l][2] \in ScriptSet
<1>1. l \in {"ike_establishment", "ike_rekey", "child_rekey", "traffic"}
  BY DEF Labels
<1>2. Labels["ike_establishment"] = <<"ike_start", "child_sa_installed">>
      /\ Labels["ike_rekey"] = <<"ike_rekey_start", "ike_rekey_end">>
      /\ Labels["child_rekey"] = <<"child_rekey_start", "child_rekey_end">>
      /\ Labels["traffic"] = <<"traffic_start", "traffic_end">>
  BY DEF Labels
<1>3. CASE l = "ike_establishment"
  BY <1>2, <1>3, NamesOfEvents DEF Rank, Measured, ScriptSet
<1>4. CASE l = "ike_rekey"
  BY <1>2, <1>4, NamesOfEvents DEF Rank, Measured, ScriptSet
<1>5. CASE l = "child_rekey"
  BY <1>2, <1>5, NamesOfEvents DEF Rank, Measured, ScriptSet
<1>6. CASE l = "traffic"
  BY <1>2, <1>6, NamesOfEvents DEF Rank, Measured, ScriptSet
<1>. QED  BY <1>1, <1>3, <1>4, <1>5, <1>6

LEMMA DurationsByScript ==
  ASSUME ExperimentOK, NEW s, Do(s), Effect(s)
  PROVE  DurationsAreOfThisAttempt'
<1>1. ControlOK /\ EventsOK /\ attempt \in Nat /\ DurationsAreOfThisAttempt
  BY DEF ExperimentOK, ControlOK
<1>2. /\ UNCHANGED <<mode, kind, attempt>>
      /\ s \in ScriptSet
      /\ \A r : Past(r)' <=> Past(r) \/ r = s
      /\ \A r \in ScriptSet : Past(r) <=> Rank[r] < Rank[s]
      /\ \A r : Past(r) => r \in ScriptSet
      /\ \A r \in ScriptSet : r \in Done <=> Rank[r] < Rank[s]
      /\ ToSet(Script) = ScriptSet
  BY <1>1, StepDone, StepIsDone, ScriptIsSorted
<1>3. Measured' = Measured
  BY <1>2 DEF Measured
<1>4. CASE s = "finalize"
  <2>1. durations' = Durations /\ events' = events
    BY <1>4, NamesOfEvents DEF Effect
  <2>2. ASSUME NEW l \in DOMAIN Labels, l \in Measured
        PROVE  /\ Lines(Labels[l][1]) # {} /\ Lines(Labels[l][2]) # {}
               /\ ByName(Labels[l][1]) < ByName(Labels[l][2])
               /\ events[ByName(Labels[l][1])][2] = attempt
               /\ events[ByName(Labels[l][2])][2] = attempt
    <3>. DEFINE a == Labels[l][1]
                b == Labels[l][2]
    <3>1. /\ a \in EventNames \cap Done /\ b \in EventNames \cap Done
          /\ Rank[a] \in Nat /\ Rank[b] \in Nat /\ Rank[a] < Rank[b]
      <4>1. /\ a \in EventNames /\ b \in EventNames /\ a \in ScriptSet /\ b \in ScriptSet
            /\ Rank[a] < Rank[b] /\ Rank[b] < Rank["finalize"]
            /\ Rank[a] \in Nat /\ Rank[b] \in Nat
        BY <2>2, LabelsAre
      <4>2. Rank["finalize"] \in Nat
        BY DEF Rank
      <4>. HIDE DEF a, b
      <4>3. Rank[a] < Rank["finalize"]
        BY <4>1, <4>2
      <4>4. a \in Done /\ b \in Done
        BY <1>2, <1>4, <4>1, <4>3
      <4>. QED  BY <4>1, <4>4
    <3>. HIDE DEF a, b
    <3>2. /\ ByName(a) \in 1 .. Len(events) /\ events[ByName(a)] = <<a, attempt>>
          /\ ByName(b) \in 1 .. Len(events) /\ events[ByName(b)] = <<b, attempt>>
          /\ Lines(a) # {} /\ Lines(b) # {}
      BY <1>1, <3>1, LastLine
    <3>3. ByName(a) < ByName(b)
      <4>. DEFINE i == ByName(a)
                  j == ByName(b)
      <4>1. /\ i \in 1 .. Len(events) /\ events[i][1] = a /\ events[i][2] = attempt
            /\ j \in 1 .. Len(events) /\ events[j][1] = b /\ events[j][2] = attempt
            /\ Len(events) \in Nat
        BY <1>1, <3>2, LenProperties DEF EventsOK
      <4>. HIDE DEF i, j
      <4>2. i # j
        BY <3>1, <4>1
      <4>3. ~ (j < i)
        <5>. SUFFICES ASSUME j < i PROVE FALSE
          OBVIOUS
        <5>1. \/ events[j][2] < events[i][2]
              \/ events[j][2] = events[i][2] /\ Rank[events[j][1]] < Rank[events[i][1]]
          BY <1>1, <4>1 DEF EventsOK
        <5>2. Rank[b] < Rank[a]
          BY <1>1, <4>1, <5>1
        <5>. QED  BY <3>1, <5>2
      <4>4. i < j
        BY <4>1, <4>2, <4>3
      <4>. QED  BY <4>4 DEF i, j
    <3>. QED  BY <3>2, <3>3 DEF a, b
  <2>3. ASSUME NEW l \in DOMAIN Labels, l \notin Measured
        PROVE  Lines(Labels[l][1]) = {}
    <3>1. Labels[l][1] \notin ScriptSet
      BY <2>3, LabelsAre
    <3>. QED  BY <1>1, <1>2, <3>1 DEF Lines, EventsOK
  <2>4. Measured \subseteq DOMAIN Labels
    BY DEF Measured, Labels
  <2>. DEFINE dur(l) ==
         [label |-> l, start |-> ByName(Labels[l][1]), end |-> ByName(Labels[l][2])]
  <2>5. Durations = {dur(l) : l \in Measured}
    BY <2>2, <2>3, <2>4 DEF Durations
  <2>6. \A l : /\ dur(l).label = l
               /\ dur(l).start = ByName(Labels[l][1])
               /\ dur(l).end = ByName(Labels[l][2])
    OBVIOUS
  <2>. HIDE DEF dur
  <2>7. {d.label : d \in Durations} = Measured
    <3>1. \A d \in Durations : d.label \in Measured
      BY <2>5, <2>6
    <3>2. \A l \in Measured : dur(l) \in Durations /\ dur(l).label = l
      BY <2>5, <2>6
    <3>. QED  BY <3>1, <3>2
  <2>8. \A d \in Durations : /\ d.start < d.end
                             /\ events[d.start][2] = attempt
                             /\ events[d.end][2] = attempt
    BY <2>2, <2>4, <2>5, <2>6
  <2>. QED  BY <1>2, <1>3, <2>1, <2>7, <2>8 DEF DurationsAreOfThisAttempt
<1>5. CASE s # "finalize"
  <2>. SUFFICES ASSUME Past("finalize")'
                PROVE  DurationsAreOfThisAttempt'
    BY DEF DurationsAreOfThisAttempt
  <2>1. Past("finalize") /\ Rank["finalize"] < Rank[s]
    BY <1>2, <1>5
  <2>2. s \notin EventNames
    BY <2>1, NamesOfEvents DEF Rank
  <2>3. events' = events /\ durations' = durations
    BY <1>5, <2>2 DEF Effect
  <2>. QED  BY <1>1, <1>2, <1>3, <2>1, <2>3 DEF DurationsAreOfThisAttempt
<1>. QED  BY <1>4, <1>5

-----------------------------------------------------------------------------
(***************************************************************************)
(* Every step keeps the invariant.                                         *)
(***************************************************************************)
LEMMA ScriptStep ==
  ASSUME ExperimentOK, RunStep, ~ Validate
  PROVE  ExperimentOK'
<1>1. PICK s : Do(s) /\ Effect(s)
  BY StepEffect
<1>2. ControlOK'
  BY <1>1, StepDone DEF ExperimentOK
<1>3. EchoOK' /\ LabOK' /\ SecretOK'
  BY <1>1, EchoByScript, LabByScript, SecretByScript
<1>4. TrafficOK' /\ TelemetryOK' /\ EventsOK' /\ DurationsAreOfThisAttempt'
  BY <1>1, TrafficByScript, TelemetryByScript, EventsByScript, DurationsByScript
<1>. QED  BY <1>2, <1>3, <1>4 DEF ExperimentOK

\* Where the running attempt has nothing behind it, events stay as they are.
LEMMA EventsOfOthers ==
  ASSUME EventsOK, attempt \in Nat, events' = events, Script' = Script,
         \A r : ~ Past(r)', attempt' \in Nat, attempt <= attempt',
         stage' = "steps" => attempt' = attempt + 1
  PROVE  EventsOK'
<1>. DEFINE n == Len(events)
<1>1. events \in Seq(EventNames \X (1 .. attempt)) /\ n \in Nat
  BY LenProperties DEF EventsOK
<1>2. \A i \in 1 .. n : events[i] \in EventNames \X (1 .. attempt)
  BY <1>1, ElementOfSeq
<1>3. events \in Seq(EventNames \X (1 .. attempt'))
  <2>1. EventNames \X (1 .. attempt) \subseteq EventNames \X (1 .. attempt')
    OBVIOUS
  <2>. QED  BY <1>1, <2>1, SeqMonotonic
<1>4. Done' = {}
  BY DEF Past, Done
<1>5. stage' = "steps" => \A i \in 1 .. n : events[i][2] # attempt'
  BY <1>2
<1>6. /\ \A i \in 1 .. n : events[i][1] \in ToSet(Script)
      /\ \A i, j \in 1 .. n :
           i < j => \/ events[i][2] < events[j][2]
                    \/ events[i][2] = events[j][2] /\ Rank[events[i][1]] < Rank[events[j][1]]
  BY DEF EventsOK
<1>. QED  BY <1>3, <1>4, <1>5, <1>6 DEF EventsOK

LEMMA LaunchStep ==
  ASSUME ExperimentOK, Launch
  PROVE  ExperimentOK'
<1>1. /\ ControlOK /\ EchoOK /\ LabOK /\ SecretOK /\ TelemetryOK /\ EventsOK
      /\ attempt \in Nat
  BY DEF ExperimentOK, ControlOK
<1>2. /\ ControlOK' /\ stage' = "steps" /\ attempt' = attempt + 1 /\ Script' = Script
      /\ \A r : ~ Past(r)'
  BY <1>1, Launched
<1>3. /\ lab' = lab /\ inLab' = inLab /\ secretFile' = secretFile /\ events' = events
      /\ telemetry' = telemetry /\ observed' = observed /\ passed' = passed
      /\ UNCHANGED echo
  BY DEF Launch, files
<1>4. EchoOK'
  BY <1>1, <1>3, EchoSame
<1>5. 1 .. attempt \subseteq 1 .. attempt' /\ attempt' \notin 1 .. attempt
  BY <1>1, <1>2
<1>6. LabOK'
  BY <1>1, <1>2, <1>3, <1>5 DEF LabOK, OneAttemptInLab
<1>7. SecretOK'
  <2>1. attempt' \notin secretFile'
    BY <1>1, <1>3, <1>5 DEF SecretOK
  <2>2. <<"secret", attempt'>> \notin inLab'
    BY <1>1, <1>3, <1>5 DEF LabOK
  <2>. QED  BY <1>1, <1>2, <1>3, <1>5, <2>1, <2>2 DEF SecretOK
<1>8. TelemetryOK'
  BY <1>1, <1>3, <1>5 DEF TelemetryOK, Verdicts
<1>9. EventsOK'
  BY <1>1, <1>2, <1>3, EventsOfOthers
<1>10. TrafficOK' /\ DurationsAreOfThisAttempt'
  BY <1>2 DEF TrafficOK, DurationsAreOfThisAttempt
<1>. QED  BY <1>2, <1>4, <1>6, <1>7, <1>8, <1>9, <1>10 DEF ExperimentOK

\* The script ends, or what comes after it.
LEMMA EndsStep ==
  ASSUME ExperimentOK, Ends
  PROVE  ExperimentOK'
<1>1. /\ ControlOK /\ EchoOK /\ LabOK /\ SecretOK /\ TelemetryOK /\ EventsOK
      /\ attempt \in Nat
  BY DEF ExperimentOK, ControlOK
<1>2. /\ ControlOK' /\ stage' # "steps" /\ attempt' = attempt /\ attempt # 0
      /\ Script' = Script /\ \A r : ~ Past(r)'
  BY <1>1, Ended
<1>. USE DEF StepFails, Interrupt, CleanUp, DestroyLab, DestroyFails, Kill, Validate
<1>3. /\ events' = events /\ telemetry' = telemetry /\ inLab' \subseteq inLab
      /\ secretFile' \subseteq secretFile
      /\ lab' \in {lab, FALSE}
      /\ UNCHANGED echo \/ EchoGone
  BY DEF Ends, Signalled, files
<1>4. EchoOK'
  BY <1>1, <1>3, EchoSame, EchoEnds
<1>5. LabOK'
  BY <1>1, <1>2, <1>3 DEF LabOK, OneAttemptInLab
<1>6. SecretOK'
  <2>1. secretFile' \subseteq 1 .. attempt'
    BY <1>1, <1>2, <1>3 DEF SecretOK
  <2>2. stage' = "destroying" => attempt' \notin secretFile'
    BY <1>1, <1>2 DEF Ends
  <2>3. stage' = "off" /\ left' # "all" => attempt' \notin secretFile'
    BY <1>1, <1>2 DEF Ends, SecretOK, files
  <2>4. stage' = "off" /\ left' = "clean" => ~ lab' /\ inLab' = {} /\ server' = "absent"
    BY <1>1, <1>2 DEF Ends, EchoGone
  <2>. QED  BY <1>2, <2>1, <2>2, <2>3, <2>4 DEF SecretOK
<1>7. TelemetryOK'
  <2>1. observed' = observed /\ (passed' = passed \/ passed' = passed \cup {attempt})
    BY DEF Ends, files
  <2>2. attempt \in 1 .. attempt
    BY <1>1, <1>2
  <2>. QED  BY <1>1, <1>2, <1>3, <2>1, <2>2 DEF TelemetryOK, Verdicts
<1>8. EventsOK'
  BY <1>1, <1>2, <1>3, EventsOfOthers
<1>9. TrafficOK' /\ DurationsAreOfThisAttempt'
  BY <1>2 DEF TrafficOK, DurationsAreOfThisAttempt
<1>. QED  BY <1>2, <1>4, <1>5, <1>6, <1>7, <1>8, <1>9 DEF ExperimentOK

\* What goes on beside the script, or nothing.
LEMMA BesideStep ==
  ASSUME ExperimentOK, Deliver \/ EchoStep \/ UNCHANGED vars
  PROVE  ExperimentOK'
<1>1. /\ ControlOK /\ EchoOK /\ LabOK /\ SecretOK /\ TrafficOK /\ TelemetryOK /\ EventsOK
      /\ DurationsAreOfThisAttempt
  BY DEF ExperimentOK
<1>2. /\ UNCHANGED control
      /\ lab' = lab /\ inLab' = inLab /\ secretFile' = secretFile /\ events' = events
      /\ durations' = durations /\ observed' = observed /\ passed' = passed
      /\ EchoNext \/ UNCHANGED echo
      /\ telemetry' = telemetry \/ Deliver
  BY DEF Deliver, EchoStep, vars, files
<1>3. /\ ControlOK' /\ Script' = Script /\ UNCHANGED <<mode, kind, attempt, stage, left>>
      /\ \A r : (Past(r)' <=> Past(r)) /\ (Due(r)' <=> Due(r))
  BY <1>1, <1>2, Waits
<1>4. /\ EchoOK'
      /\ client' = "absent" <=> client = "absent"
      /\ server' = "absent" <=> server = "absent"
      /\ client = "done" => client' = "done"
      /\ server = "done" => server' = "done"
  BY <1>1, <1>2, EchoGoesOn, EchoStable, EchoSame DEF echo
<1>5. LabOK'
  BY <1>1, <1>2, <1>3, <1>4 DEF LabOK, OneAttemptInLab
<1>6. SecretOK'
  BY <1>1, <1>2, <1>3, <1>4 DEF SecretOK
<1>7. TrafficOK'
  BY <1>1, <1>3, <1>4 DEF TrafficOK
<1>8. EventsOK'
  <2>1. Done' = Done
    BY <1>2 DEF control, Done, Script
  <2>. QED  BY <1>1, <1>2, <1>3, <2>1 DEF EventsOK
<1>9. DurationsAreOfThisAttempt'
  BY <1>1, <1>2, <1>3 DEF DurationsAreOfThisAttempt, Measured
<1>10. TelemetryOK'
  <2>1. \A n \in Node : /\ telemetry[n] \subseteq telemetry'[n]
                        /\ telemetry'[n] \subseteq 1 .. attempt
    BY <1>1, <1>2 DEF Deliver, TelemetryOK, LabOK
  <2>2. telemetry' \in [Node -> SUBSET (1 .. attempt')]
    BY <1>1, <1>2, <1>3, <2>1 DEF Deliver, TelemetryOK
  <2>. QED  BY <1>1, <1>2, <1>3, <2>2 DEF TelemetryOK, Verdicts
<1>. QED  BY <1>3, <1>4, <1>5, <1>6, <1>7, <1>8, <1>9, <1>10 DEF ExperimentOK

LEMMA ExperimentBegins == Init => ExperimentOK
<1>. SUFFICES ASSUME Init PROVE ExperimentOK
  OBVIOUS
<1>1. /\ attempt = 0 /\ stage = "off" /\ todo = <<>> /\ left = "clean" /\ lab = FALSE
      /\ inLab = {} /\ secretFile = {} /\ events = <<>> /\ durations = {} /\ passed = {}
      /\ telemetry = [n \in Node |-> {}] /\ server = "absent"
  BY DEF Init, EchoInit
<1>2. ControlOK
  <2>1. ScriptOK
    <3>1. IsSuffix(<<>>, Script)
      BY ScriptIsSorted, WholeAndNothing
    <3>2. ToSet(<<>>) = {} /\ Sorted(<<>>) /\ <<>> \in Seq(Steps)
      BY DEF ToSet, Sorted
    <3>. QED  BY <1>1, <3>1, <3>2 DEF ScriptOK, Due
  <2>2. <<mode, kind>> \in Treatment
    BY ExperimentConstantsOK DEF Init, Treatments
  <2>. QED  BY <1>1, <2>1, <2>2, ExperimentConstantsOK DEF ControlOK
<1>3. EchoOK
  BY EchoBegins DEF Init
<1>4. \A r : ~ Past(r)
  BY <1>1 DEF Past
<1>5. EventsOK
  BY <1>1 DEF EventsOK, Done
<1>6. observed \in Verdicts
  BY DEF Init, Verdicts
<1>. QED  BY <1>1, <1>2, <1>3, <1>4, <1>5, <1>6 DEF ExperimentOK, LabOK, OneAttemptInLab,
          SecretOK, TrafficOK, TelemetryOK, DurationsAreOfThisAttempt

LEMMA ExperimentStep ==
  ASSUME ExperimentOK, [Next]_vars
  PROVE  ExperimentOK'
BY ScriptStep, LaunchStep, EndsStep, BesideStep DEF Next, Ends, RunStep

-----------------------------------------------------------------------------
(***************************************************************************)
(* Every state an experiment reaches satisfies the invariant.              *)
(***************************************************************************)
THEOREM ExperimentInvariant == Spec => []ExperimentOK
<1>1. ExperimentOK /\ [Next]_vars => ExperimentOK'
  BY ExperimentStep
<1>. QED  BY ExperimentBegins, <1>1, PTL DEF Spec

(***************************************************************************)
(* Every variable keeps its type: what is left of the script is an end of  *)
(* it, and the messages of the SCTP programs are those of their traffic.   *)
(***************************************************************************)
THEOREM ExperimentTypes == Spec => []TypeOK
<1>1. ASSUME ExperimentOK
      PROVE  TypeOK
  <2>1. attempt \in Nat /\ 1 .. attempt \subseteq Attempt
    BY <1>1, ExperimentConstantsOK DEF ExperimentOK, ControlOK, Attempt
  <2>2. events \in Seq(EventNames \X Attempt)
    <3>1. EventNames \X (1 .. attempt) \subseteq EventNames \X Attempt
      BY <2>1
    <3>2. events \in Seq(EventNames \X (1 .. attempt))
      BY <1>1 DEF ExperimentOK, EventsOK
    <3>. QED  BY <3>1, <3>2, SeqMonotonic
  <2>3. /\ telemetry \in [Node -> SUBSET Attempt]
        /\ observed \in UNION {[S -> BOOLEAN] : S \in SUBSET Node}
    BY <1>1, <2>1 DEF ExperimentOK, TelemetryOK, Verdicts
  <2>4. EchoTypeOK
    BY <1>1, EchoSafe DEF ExperimentOK
  <2>5. /\ inLab \subseteq (Node \cup {"capture", "secret"}) \X Attempt
        /\ secretFile \subseteq Attempt /\ passed \subseteq Attempt
    BY <1>1, <2>1 DEF ExperimentOK, LabOK, SecretOK, TelemetryOK
  <2>. QED  BY <1>1, <2>2, <2>3, <2>4, <2>5
            DEF ExperimentOK, ControlOK, ScriptOK, LabOK, TypeOK
<1>. QED  BY <1>1, ExperimentInvariant, PTL

(***************************************************************************)
(* However many attempts of a RUN_ID were cut short, and wherever, what a  *)
(* finalized one measures is its own, from a start to a later end.         *)
(***************************************************************************)
THEOREM DurationsAreOwn == Spec => []DurationsAreOfThisAttempt
<1>1. ExperimentOK => DurationsAreOfThisAttempt
  BY DEF ExperimentOK
<1>. QED  BY <1>1, ExperimentInvariant, PTL

(***************************************************************************)
(* No agent, capture, PSK or SCTP program of an earlier attempt is in the  *)
(* laboratory of a later one.                                              *)
(***************************************************************************)
THEOREM LabIsOwn == Spec => []OneAttemptInLab
<1>1. ExperimentOK => OneAttemptInLab
  BY DEF ExperimentOK, LabOK
<1>. QED  BY <1>1, ExperimentInvariant, PTL

(***************************************************************************)
(* Without a kill no PSK stays on the host, and nothing in a laboratory    *)
(* that could be destroyed; none is left when evidence is collected.       *)
(***************************************************************************)
THEOREM NothingStays == Spec => []NothingIsLeftBehind
<1>1. ASSUME ExperimentOK
      PROVE  NothingIsLeftBehind
  <2>1. ASSUME Past("end_capture")
        PROVE  ~ Due("secret_copies") /\ ~ Due("secret_loaded")
    <3>1. /\ \A x \in ToSet(todo), r \in ScriptSet : Rank[x] < Rank[r] => Due(r)
          /\ "end_capture" \in ScriptSet /\ ~ Due("end_capture")
      BY <1>1, <2>1, ScriptIsSorted DEF ExperimentOK, ControlOK, ScriptOK, Past, Due
    <3>. QED  BY <3>1 DEF Due, Rank
  <2>2. Past("end_capture") => stage = "steps"
    BY DEF Past
  <2>. QED  BY <1>1, <2>1, <2>2 DEF ExperimentOK, SecretOK, NothingIsLeftBehind
<1>. QED  BY <1>1, ExperimentInvariant, PTL

(***************************************************************************)
(* The client never reads an echo of another message than its last one.    *)
(***************************************************************************)
THEOREM EchoesKeepOrder == Spec => []EchoesInOrder
<1>1. ExperimentOK => EchoesInOrder
  BY EchoSafe DEF ExperimentOK
<1>. QED  BY <1>1, ExperimentInvariant, PTL

(***************************************************************************)
(* Evidence with a traffic_end is evidence of traffic without loss.        *)
(***************************************************************************)
THEOREM TrafficWasEchoed == Spec => []TrafficIsComplete
<1>1. ASSUME ExperimentOK, Past("traffic_end"), kind # "establishment"
      PROVE  client = "done" /\ server = "done" /\ echoed = Count
  <2>1. /\ \A x \in ToSet(todo), r \in ScriptSet : Rank[x] < Rank[r] => Due(r)
        /\ "traffic_end" \in ScriptSet /\ ~ Due("traffic_end") /\ stage = "steps"
    BY <1>1, ScriptIsSorted DEF ExperimentOK, ControlOK, ScriptOK, Past, Due
  <2>2. ~ Due("client_ends") /\ ~ Due("server_ends")
    BY <2>1 DEF Due, Rank
  <2>3. Past("client_ends") /\ Past("server_ends")
    BY <1>1, <2>1, <2>2, ScriptIsSorted DEF Past, Due, ScriptSet
  <2>. QED  BY <1>1, <2>3 DEF ExperimentOK, TrafficOK, EchoOK
<1>2. ExperimentOK => TrafficIsComplete
  BY <1>1 DEF TrafficIsComplete
<1>. QED  BY <1>2, ExperimentInvariant, PTL
=============================================================================

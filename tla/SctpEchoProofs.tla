--------------------------- MODULE SctpEchoProofs ---------------------------
(***************************************************************************)
(* What the two SCTP programs keep true between them, for any --count.     *)
(***************************************************************************)
EXTENDS SctpEcho, TLAPS

(***************************************************************************)
(* The strengthening: at most one message is on its way, and the two       *)
(* programs' counts differ by it.                                          *)
(***************************************************************************)
Message == <<sent>>

\* Where the messages 1 .. sent are, when the client has sent one at least.
OnItsWay == toServer = Message /\ toClient = <<>> /\ echoed + 1 = sent
OnItsWayBack == toServer = <<>> /\ toClient = Message /\ echoed = sent
Nowhere == toServer = <<>> /\ toClient = <<>> /\ echoed = sent

EchoOK ==
  /\ client \in ClientStates
  /\ server \in ServerStates
  /\ sent \in 0 .. Count
  /\ echoed \in 0 .. Count
  /\ OnItsWay \/ OnItsWayBack \/ Nowhere
  /\ sent = 0 => Nowhere
  /\ client \in {"absent", "connecting"} =>
       sent = 0 /\ server \in {"absent", "starting", "listening", "failed"}
  /\ client = "sending" => Nowhere /\ server = "serving" /\ sent < Count
  /\ client = "waiting" => (OnItsWay \/ OnItsWayBack) /\ server \in {"serving", "done"}
  /\ client = "done" => Nowhere /\ sent = Count
  /\ server \in {"absent", "starting", "listening"} => sent = 0
  /\ server = "serving" => echoed < Count
  /\ server = "done" <=> echoed = Count

\* The echo types, and the mismatch that cannot be seen.
LEMMA EchoSafe ==
  ASSUME EchoOK
  PROVE  EchoTypeOK /\ EchoesInOrder
<1>1. sent # 0 => Message \in Seq(1 .. Count)
  BY DEF EchoOK, Message
<1>2. <<>> \in Seq(1 .. Count)
  OBVIOUS
<1>. QED  BY <1>1, <1>2 DEF EchoOK, EchoTypeOK, EchoesInOrder, OnItsWay, OnItsWayBack,
              Nowhere, Message

LEMMA EchoBegins ==
  ASSUME EchoInit
  PROVE  EchoOK
BY CountOK DEF EchoInit, EchoOK, Nowhere, ClientStates, ServerStates

LEMMA EchoEnds ==
  ASSUME EchoGone
  PROVE  EchoOK'
BY CountOK DEF EchoGone, EchoOK, Nowhere, ClientStates, ServerStates

\* run.sh starts the server first, and each program once in a laboratory.
LEMMA ServerBegins ==
  ASSUME EchoOK, client = "absent", ServerStart
  PROVE  EchoOK'
BY CountOK DEF ServerStart, EchoOK, Nowhere, OnItsWay, OnItsWayBack, Message, ServerStates

LEMMA ClientBegins ==
  ASSUME EchoOK, client = "absent", ClientStart
  PROVE  EchoOK'
BY DEF ClientStart, EchoOK, Nowhere, OnItsWay, OnItsWayBack, Message, ClientStates
\* Every step of the two programs.
LEMMA EchoGoesOn ==
  ASSUME EchoOK, EchoNext
  PROVE  EchoOK'
<1>. USE CountOK DEF EchoOK, Nowhere, OnItsWay, OnItsWayBack, Message
<1>1. CASE Connect
  BY <1>1 DEF Connect, ClientStates, ServerStates
<1>2. CASE Refused
  BY <1>2 DEF Refused, ClientStates
<1>3. CASE Send
  <2>1. Append(<<>>, sent + 1) = <<sent + 1>>
    OBVIOUS
  <2>2. /\ client' = "waiting" /\ server' = "serving"
        /\ sent' = sent + 1 /\ echoed' = sent /\ sent + 1 <= Count
        /\ toServer' = <<sent + 1>> /\ toClient' = <<>>
    BY <1>3, <2>1 DEF Send
  <2>. QED  BY <1>3, <2>2 DEF Send, ClientStates, ServerStates
<1>4. CASE Receive
  <2>1. OnItsWayBack
    BY <1>4 DEF Receive
  <2>2. Head(toClient) = sent /\ Tail(toClient) = <<>>
    BY <2>1
  <2>3. /\ toClient' = <<>> /\ client' = IF sent = Count THEN "done" ELSE "sending"
        /\ UNCHANGED <<server, sent, echoed, toServer>>
    BY <1>4, <2>2 DEF Receive
  <2>. QED  BY <1>4, <2>1, <2>3 DEF Receive, ClientStates
<1>5. CASE ClientTimeout
  BY <1>5 DEF ClientTimeout, ClientStates
<1>6. CASE ServerListen
  BY <1>6 DEF ServerListen, ServerStates
<1>7. CASE ServerFails
  BY <1>7 DEF ServerFails, ServerStates
<1>8. CASE Echo
  <2>1. OnItsWay
    BY <1>8 DEF Echo
  <2>2. /\ Head(toServer) = sent /\ Tail(toServer) = <<>>
        /\ Append(toClient, sent) = <<sent>>
    BY <2>1
  <2>3. /\ toServer' = <<>> /\ toClient' = <<sent>> /\ echoed' = sent /\ echoed + 1 = sent
        /\ server' = IF sent = Count THEN "done" ELSE "serving"
        /\ UNCHANGED <<client, sent>>
    BY <1>8, <2>1, <2>2 DEF Echo
  <2>. QED  BY <1>8, <2>1, <2>3 DEF Echo, ServerStates
<1>. QED  BY <1>1, <1>2, <1>3, <1>4, <1>5, <1>6, <1>7, <1>8 DEF EchoNext, ClientStep

\* A program that was not started does not come up, and one that has ended
\* well stays so.
LEMMA EchoStable ==
  ASSUME EchoOK, EchoNext
  PROVE  /\ client' = "absent" <=> client = "absent"
         /\ server' = "absent" <=> server = "absent"
         /\ client = "done" => client' = "done"
         /\ server = "done" => server' = "done"
BY DEF EchoNext, ClientStep, Connect, Refused, Send, Receive, ClientTimeout, ServerListen,
   ServerFails, Echo, EchoOK
=============================================================================

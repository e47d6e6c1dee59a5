------------------------------ MODULE SctpEcho ------------------------------
(***************************************************************************)
(* The numbered traffic of one experiment: traffic/sctp_client.py sends    *)
(* Count messages, each after the echo of the one before, and              *)
(* traffic/sctp_server.py sends them back.  An association delivers in     *)
(* order but takes as long as it likes; the client waits 3 s for anything, *)
(* the server for ever, and neither tries again.                           *)
(***************************************************************************)
EXTENDS Naturals, Sequences

CONSTANT Count   \* --count of both programs: SCTP_COUNT of the profile

ASSUME CountOK == Count \in Nat \ {0}

VARIABLES
  client,    \* where the client is
  server,    \* where the server is
  sent,      \* the sequence number of the client's last message
  echoed,    \* how many messages the server has sent back
  toServer,  \* messages on their way, by sequence number, either direction
  toClient

echo == <<client, server, sent, echoed, toServer, toClient>>

ClientStates == {"absent", "connecting", "sending", "waiting", "done", "failed"}
ServerStates == {"absent", "starting", "listening", "serving", "done", "failed"}

EchoInit ==
  /\ client = "absent"
  /\ server = "absent"
  /\ sent = 0
  /\ echoed = 0
  /\ toServer = <<>>
  /\ toClient = <<>>

\* Both are gone with the containers they ran in.
EchoGone ==
  /\ client' = "absent"
  /\ server' = "absent"
  /\ sent' = 0
  /\ echoed' = 0
  /\ toServer' = <<>>
  /\ toClient' = <<>>

ServerStart == server' = "starting" /\ UNCHANGED <<client, sent, echoed, toServer, toClient>>
ClientStart == client' = "connecting" /\ UNCHANGED <<server, sent, echoed, toServer, toClient>>

-----------------------------------------------------------------------------
ServerListen ==
  /\ server = "starting"
  /\ server' = "listening"
  /\ UNCHANGED <<client, sent, echoed, toServer, toClient>>

\* The address cannot be bound, or the client has closed the association.
ServerFails ==
  /\ server = "starting" \/ (server = "serving" /\ client = "failed")
  /\ server' = "failed"
  /\ UNCHANGED <<client, sent, echoed, toServer, toClient>>

\* The server accepts one association.
Connect ==
  /\ client = "connecting"
  /\ server = "listening"
  /\ client' = "sending"
  /\ server' = "serving"
  /\ UNCHANGED <<sent, echoed, toServer, toClient>>

\* Nobody listens yet, or no more.
Refused ==
  /\ client = "connecting"
  /\ server # "listening"
  /\ client' = "failed"
  /\ UNCHANGED <<server, sent, echoed, toServer, toClient>>

Send ==
  /\ client = "sending"
  /\ client' = "waiting"
  /\ sent' = sent + 1
  /\ toServer' = Append(toServer, sent + 1)
  /\ UNCHANGED <<server, echoed, toClient>>

\* One turn of the server's loop; after the last it closes and ends.
Echo ==
  /\ server = "serving"
  /\ toServer # <<>>
  /\ toServer' = Tail(toServer)
  /\ toClient' = Append(toClient, Head(toServer))
  /\ echoed' = echoed + 1
  /\ server' = IF echoed + 1 = Count THEN "done" ELSE "serving"
  /\ UNCHANGED <<client, sent>>

\* Mutant of Receive: one message more than --count.
ReceiveOneMore ==
  /\ client = "waiting"
  /\ toClient # <<>>
  /\ toClient' = Tail(toClient)
  /\ client' = IF sent > Count THEN "done" ELSE "sending"
  /\ UNCHANGED <<server, sent, echoed, toServer>>

\* An echo of another message than the last one ends the client.
Receive ==
  /\ client = "waiting"
  /\ toClient # <<>>
  /\ toClient' = Tail(toClient)
  /\ client' = IF Head(toClient) # sent THEN "failed"
               ELSE IF sent = Count THEN "done" ELSE "sending"
  /\ UNCHANGED <<server, sent, echoed, toServer>>

\* Mutants of ClientTimeout: the client goes on with the next message, or has
\* no timeout at all.
ClientTimeoutGoesOn ==
  /\ client \in {"connecting", "waiting"}
  /\ client' = IF client = "waiting" /\ sent < Count THEN "sending" ELSE "failed"
  /\ UNCHANGED <<server, sent, echoed, toServer, toClient>>

ClientTimeoutNever == FALSE /\ UNCHANGED echo

\* 3 s have passed in connect or readline, whatever is still on its way.
ClientTimeout ==
  /\ client \in {"connecting", "waiting"}
  /\ client' = "failed"
  /\ UNCHANGED <<server, sent, echoed, toServer, toClient>>

ClientStep == Connect \/ Refused \/ Send \/ Receive \/ ClientTimeout

EchoNext == ClientStep \/ ServerListen \/ ServerFails \/ Echo

-----------------------------------------------------------------------------
EchoTypeOK ==
  /\ client \in ClientStates
  /\ server \in ServerStates
  /\ sent \in 0 .. Count
  /\ echoed \in 0 .. Count
  /\ toServer \in Seq(1 .. Count)
  /\ toClient \in Seq(1 .. Count)

(***************************************************************************)
(* An echo the client has not given up on is the one it waits for: the     *)
(* "sequence mismatch" of sctp_client.py cannot happen, however late       *)
(* echoes are, because a timeout ends the client.                          *)
(***************************************************************************)
EchoesInOrder == client = "waiting" /\ toClient # <<>> => toClient = <<sent>>
=============================================================================

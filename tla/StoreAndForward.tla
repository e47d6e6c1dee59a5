-------------------------- MODULE StoreAndForward --------------------------
(***************************************************************************)
(* What the telemetry path promises, without processes, calls or crashes:  *)
(* every node has a queue; its events reach the other end one by one, in   *)
(* order, none twice and none left out, and only what is there is ever     *)
(* confirmed to the node.                                                  *)
(***************************************************************************)
EXTENDS Naturals

CONSTANT Node

VARIABLES
  produced,   \* produced[n]: how many events n has queued
  delivered,  \* delivered[n]: how many of them, the first ones, are across
  confirmed   \* confirmed[n]: those n knows to be across

vars == <<produced, delivered, confirmed>>

Init ==
  /\ produced = [n \in Node |-> 0]
  /\ delivered = [n \in Node |-> 0]
  /\ confirmed = [n \in Node |-> {}]

Produce(n) ==
  /\ produced' = [produced EXCEPT ![n] = @ + 1]
  /\ UNCHANGED <<delivered, confirmed>>

Deliver(n) ==
  /\ delivered[n] < produced[n]
  /\ delivered' = [delivered EXCEPT ![n] = @ + 1]
  /\ UNCHANGED <<produced, confirmed>>

\* An acknowledgement is cumulative, and may be older than what is across.
Confirm(n) ==
  /\ \E k \in 1 .. delivered[n] :
       confirmed' = [confirmed EXCEPT ![n] = @ \cup 1 .. k]
  /\ UNCHANGED <<produced, delivered>>

Next == \E n \in Node : Produce(n) \/ Deliver(n) \/ Confirm(n)

Spec == Init /\ [][Next]_vars
=============================================================================

--------------------------- MODULE SaObservation ---------------------------
(***************************************************************************)
(* How an agent learns of security associations: ViciCollector lists them  *)
(* with `swanctl --list-sas --pretty`, picks identifiers out of the text   *)
(* with two regular expressions, compares them with those of the listing   *)
(* before, and EventCollector stores an event for every difference.  The   *)
(* charon daemon, whose associations they are, is outside of this program. *)
(***************************************************************************)
EXTENDS Naturals, Sequences, FiniteSets, SequencesExt

CONSTANT MaxId   \* bound of the model: SAs, of either kind, in one charon's life

ASSUME MaxIdOK == MaxId \in Nat \ {0}

Id == 1 .. MaxId
Event == {"IKE_SA_ESTABLISHED", "CHILD_SA_INSTALLED", "SA_DELETED"}

VARIABLES
  up,          \* charon runs
  sas,         \* its IKE SAs, in the order they are listed, with their children
  ikeIds,      \* how many ids of either kind charon has given away
  childIds,
  knownIke,    \* _known_ike and _known_child of the agent's process
  knownChild,
  pending,     \* observations of the last poll that are not stored yet
  seenIke,     \* the IKE SAs which, by all events stored, are established
  seenChild,   \* the CHILD SAs of which there is an event
  ownIke,      \* what the running process itself has added to these two:
  ownChild     \* history variables, which no action reads

charonVars == <<up, sas, ikeIds, childIds>>
eventVars == <<seenIke, seenChild, ownIke, ownChild>>
agentVars == <<knownIke, knownChild, pending, eventVars>>
vars == <<charonVars, agentVars>>

Child == [id : Id, installed : BOOLEAN]
Sa == [id : Id, established : BOOLEAN, children : Seq(Child)]

-----------------------------------------------------------------------------
(***************************************************************************)
(* The listing, as the sequence of those places in its text that the       *)
(* regular expressions look for.                                           *)
(***************************************************************************)
If(condition, token) == IF condition THEN <<token>> ELSE <<>>

ChildText(c) == <<<<"uniqueid", c.id>>>> \o If(c.installed, <<"INSTALLED", 0>>)

SaText(sa) ==
  <<<<"uniqueid", sa.id>>>>
  \o If(sa.established, <<"ESTABLISHED", 0>>)
  \o <<<<"child-sas", 0>>>>
  \o FlattenSeq([i \in 1 .. Len(sa.children) |-> ChildText(sa.children[i])])

Listing(list) == FlattenSeq([i \in 1 .. Len(list) |-> SaText(list[i])])

\* The first such place at p or after it; behind the end if there is none.
Find(text, p, place) ==
  Min({q \in p .. Len(text) : text[q][1] = place} \cup {Len(text) + 1})

\* findall "uniqueid = ([0-9]+).*?state = ESTABLISHED": an identifier, the
\* nearest ESTABLISHED behind it, and on from there.
IkeFound(text) ==
  LET from[p \in 1 .. Len(text) + 1] ==
        LET i == Find(text, p, "uniqueid")
            e == Find(text, i, "ESTABLISHED")
        IN  IF e > Len(text) THEN {} ELSE {text[i][2]} \cup from[e + 1]
  IN  from[1]

\* Mutant of ChildFound: not anchored at a list of children.
ChildFoundAnywhere(text) ==
  LET from[p \in 1 .. Len(text) + 1] ==
        LET i == Find(text, p, "uniqueid")
            e == Find(text, i, "INSTALLED")
        IN  IF e > Len(text) THEN {} ELSE {text[i][2]} \cup from[e + 1]
  IN  from[1]

\* Mutant of ChildFound: another group of the expression is taken.
ChildFoundOtherGroup(text) ==
  LET from[p \in 1 .. Len(text) + 1] ==
        LET c == Find(text, p, "child-sas")
            i == Find(text, c, "uniqueid")
            e == Find(text, i, "INSTALLED")
        IN  IF e > Len(text) THEN {} ELSE {text[c][2]} \cup from[e + 1]
  IN  from[1]

\* findall "child-sas \{.*?uniqueid = ([0-9]+).*?state = INSTALLED".
ChildFound(text) ==
  LET from[p \in 1 .. Len(text) + 1] ==
        LET c == Find(text, p, "child-sas")
            i == Find(text, c, "uniqueid")
            e == Find(text, i, "INSTALLED")
        IN  IF e > Len(text) THEN {} ELSE {text[i][2]} \cup from[e + 1]
  IN  from[1]

\* The observations of one kind.  The code sorts their identifiers as text;
\* the model takes some order, always the same for the same identifiers.
Reports(event, ids) ==
  LET inOrder == SetToSeq(ids)
  IN  [i \in 1 .. Len(inOrder) |-> <<event, inOrder[i]>>]

\* Mutants of Observations: deletions first; or deleted and new SAs mixed up.
ObservationsGoneFirst(ike, child) ==
  Reports("SA_DELETED", knownIke \ ike)
  \o Reports("IKE_SA_ESTABLISHED", ike \ knownIke)
  \o Reports("CHILD_SA_INSTALLED", child \ knownChild)

ObservationsMixedUp(ike, child) ==
  Reports("IKE_SA_ESTABLISHED", ike \ knownIke)
  \o Reports("CHILD_SA_INSTALLED", child \ knownChild)
  \o Reports("SA_DELETED", ike \ knownIke)

Observations(ike, child) ==
  Reports("IKE_SA_ESTABLISHED", ike \ knownIke)
  \o Reports("CHILD_SA_INSTALLED", child \ knownChild)
  \o Reports("SA_DELETED", knownIke \ ike)

-----------------------------------------------------------------------------
Init ==
  /\ up = FALSE
  /\ sas = <<>>
  /\ ikeIds = 0
  /\ childIds = 0
  /\ knownIke = {}
  /\ knownChild = {}
  /\ pending = <<>>
  /\ seenIke = {}
  /\ seenChild = {}
  /\ ownIke = {}
  /\ ownChild = {}

(***************************************************************************)
(* The agent.                                                              *)
(***************************************************************************)

\* collect_events lists the SAs and takes the sets it found for known, before
\* the first of the differences is stored.  A swanctl that fails, for charon
\* does not run, changes nothing.
Poll ==
  /\ pending = <<>>
  /\ up
  /\ \E text \in {Listing(sas)} :
       /\ knownIke' = IkeFound(text)
       /\ knownChild' = ChildFound(text)
  /\ pending' = Observations(knownIke', knownChild')
  /\ UNCHANGED <<charonVars, eventVars>>

\* What an event makes of the set of IKE SAs, or of CHILD SAs, it adds to.
IkeAfter(ids, event, id) ==
  CASE event = "IKE_SA_ESTABLISHED" -> ids \cup {id}
    [] event = "SA_DELETED"         -> ids \ {id}
    [] OTHER                        -> ids

ChildAfter(ids, event, id) == IF event = "CHILD_SA_INSTALLED" THEN ids \cup {id} ELSE ids

\* emit_ike: the next observation is stored in the spool.
Persist ==
  /\ pending # <<>>
  /\ LET event == Head(pending)[1]
         id    == Head(pending)[2]
     IN  /\ seenIke' = IkeAfter(seenIke, event, id)
         /\ ownIke' = IkeAfter(ownIke, event, id)
         /\ seenChild' = ChildAfter(seenChild, event, id)
         /\ ownChild' = ChildAfter(ownChild, event, id)
  /\ pending' = Tail(pending)
  /\ UNCHANGED <<charonVars, knownIke, knownChild>>

\* The agent is killed and started again: what it knew is gone, and so is what
\* it had not stored.  The events stored stay, in its spool and on their way
\* to the collector, which appends those of the new process to them.
Restart ==
  /\ knownIke' = {}
  /\ knownChild' = {}
  /\ pending' = <<>>
  /\ ownIke' = {}
  /\ ownChild' = {}
  /\ UNCHANGED <<charonVars, seenIke, seenChild>>

(***************************************************************************)
(* charon.                                                                 *)
(***************************************************************************)
CharonStart ==
  /\ ~ up
  /\ up' = TRUE
  /\ UNCHANGED <<sas, ikeIds, childIds, agentVars>>

\* It is gone with its SAs; the next one counts from 1 again.
CharonStop ==
  /\ up
  /\ up' = FALSE
  /\ sas' = <<>>
  /\ ikeIds' = 0
  /\ childIds' = 0
  /\ UNCHANGED agentVars

Initiate ==
  /\ up
  /\ Len(sas) < 2
  /\ ikeIds < MaxId
  /\ ikeIds' = ikeIds + 1
  /\ sas' = Append(sas, [id |-> ikeIds + 1, established |-> FALSE, children |-> <<>>])
  /\ UNCHANGED <<up, childIds, agentVars>>

Establish ==
  /\ \E i \in 1 .. Len(sas) :
       /\ ~ sas[i].established
       /\ sas' = [sas EXCEPT ![i].established = TRUE]
  /\ UNCHANGED <<up, ikeIds, childIds, agentVars>>

\* The first child of an IKE SA, or the one that replaces it in a rekey.
InstallChild ==
  /\ childIds < MaxId
  /\ \E i \in 1 .. Len(sas) :
       /\ sas[i].established
       /\ Len(sas[i].children) < 2
       /\ sas' = [sas EXCEPT ![i].children =
                    Append(@, [id |-> childIds + 1, installed |-> TRUE])]
  /\ childIds' = childIds + 1
  /\ UNCHANGED <<up, ikeIds, agentVars>>

\* A rekeyed child is listed until it is deleted.
RetireChild ==
  /\ \E i \in 1 .. Len(sas) : \E j \in 1 .. Len(sas[i].children) :
       \/ /\ sas[i].children[j].installed
          /\ sas' = [sas EXCEPT ![i].children[j].installed = FALSE]
       \/ sas' = [sas EXCEPT ![i].children = RemoveAt(@, j)]
  /\ UNCHANGED <<up, ikeIds, childIds, agentVars>>

\* A new IKE SA takes over the children of an old one, which is listed until
\* it is deleted.
RekeyIke ==
  /\ Len(sas) = 1
  /\ sas[1].established
  /\ ikeIds < MaxId
  /\ ikeIds' = ikeIds + 1
  /\ sas' = <<[sas[1] EXCEPT !.established = FALSE, !.children = <<>>],
              [sas[1] EXCEPT !.id = ikeIds + 1]>>
  /\ UNCHANGED <<up, childIds, agentVars>>

DeleteIke ==
  /\ \E i \in 1 .. Len(sas) : sas' = RemoveAt(sas, i)
  /\ UNCHANGED <<up, ikeIds, childIds, agentVars>>

Agent == Poll \/ Persist

Charon ==
  \/ CharonStart
  \/ CharonStop
  \/ Initiate
  \/ Establish
  \/ InstallChild
  \/ RetireChild
  \/ RekeyIke
  \/ DeleteIke

Next == Agent \/ Restart \/ Charon

Spec == Init /\ [][Next]_vars

\* run()'s loop polls again and again, and stores what it observed.
Fairness == WF_vars(Poll) /\ WF_vars(Persist)

FairSpec == Spec /\ Fairness

-----------------------------------------------------------------------------
TypeOK ==
  /\ up \in BOOLEAN
  /\ sas \in Seq(Sa)
  /\ ikeIds \in 0 .. MaxId
  /\ childIds \in 0 .. MaxId
  /\ knownIke \subseteq Id
  /\ knownChild \subseteq Id
  /\ pending \in Seq(Event \X Id)
  /\ seenIke \subseteq Id
  /\ seenChild \subseteq Id
  /\ ownIke \subseteq seenIke
  /\ ownChild \subseteq seenChild

Established == {sas[i].id : i \in {j \in 1 .. Len(sas) : sas[j].established}}

Installed ==
  UNION {{c.id : c \in {d \in ToSet(sas[i].children) : d.installed}} :
           i \in 1 .. Len(sas)}

Children == UNION {{c.id : c \in ToSet(sas[i].children)} : i \in 1 .. Len(sas)}

(***************************************************************************)
(* The regular expressions, which know nothing of the listing's nesting,   *)
(* read it right when there is one IKE SA with at most one child; and      *)
(* however SAs overlap in a rekey, one that is established (installed) is  *)
(* found if and only if there is one.                                      *)
(* (ViciCollector.collect_events: re.findall)                              *)
(***************************************************************************)
ListingIsUnderstood ==
  \A text \in {Listing(sas)} :
    /\ IkeFound(text) # {} <=> Established # {}
    /\ ChildFound(text) # {} <=> Installed # {}
    /\ Len(sas) = 1 => IkeFound(text) = Established
    /\ Len(sas) = 1 /\ Cardinality(Children) = 1 => ChildFound(text) = Installed

(***************************************************************************)
(* The events that one process of the agent has stored and is about to     *)
(* store tell the story of what it knows: it establishes no SA twice       *)
(* without a deletion in between, and deletes none that it has not         *)
(* established, although a state is taken for known before its events are  *)
(* stored.  Of the events as a whole this is not so: after a restart they  *)
(* establish once more what outlived it.                                   *)
(* (ViciCollector._known_ike, EventCollector.collect_events)               *)
(***************************************************************************)
EventsAreTransitions ==
  LET Ids(event) == {p[2] : p \in {q \in ToSet(pending) : q[1] = event}}
  IN  /\ Ids("IKE_SA_ESTABLISHED") \cap ownIke = {}
      /\ Ids("SA_DELETED") \subseteq ownIke
      /\ knownIke = (ownIke \cup Ids("IKE_SA_ESTABLISHED")) \ Ids("SA_DELETED")
      /\ knownChild \subseteq ownChild \cup Ids("CHILD_SA_INSTALLED")

(***************************************************************************)
(* The events never show an endpoint without IKE SA, not even for the time *)
(* between two of them, unless the last listing showed none established: a *)
(* rekey is seen as the new SA first and the deletion of the old one then. *)
(* (ViciCollector.collect_events: the order of `events`)                   *)
(***************************************************************************)
OutageIsReal == [][Persist /\ seenIke # {} /\ seenIke' = {} => knownIke = {}]_vars

(***************************************************************************)
(* Once charon runs, the agent is not restarted any more and the SAs do    *)
(* not change, one IKE SA with at most one child, the events of the agent  *)
(* come to show that SA and no other, and this child.  What an earlier     *)
(* process of the agent reported and did not take back is not undone.      *)
(* (distributed.run's loop over collect_events)                            *)
(***************************************************************************)
Settled == up /\ Len(sas) <= 1 /\ Cardinality(Children) <= 1

SettledIsReported ==
  <>[]Settled /\ <>[][Agent]_vars => <>[](ownIke = Established /\ Installed \subseteq ownChild)
=============================================================================

----------------------------- MODULE Experiment -----------------------------
(***************************************************************************)
(* The life of one experiment: experiments/run.sh started any number of    *)
(* times for one RUN_ID, each time in a laboratory of its own, with the    *)
(* agents, the capture and the SCTP traffic it starts there.  The events,  *)
(* the spools and the collector's data are in directories of the host that *)
(* a later attempt finds again; artifacts.py reads them at the end.        *)
(***************************************************************************)
EXTENDS SctpEcho, FiniteSets, SequencesExt

CONSTANTS
  Treatment,   \* the pairs of MODE and EXPERIMENT_KIND that are looked at
  MaxAttempts  \* bound of the model: how often run.sh is started

\* What run.sh accepts.
Treatments ==
  {t \in {"M1", "M2", "M3"} \X {"combined", "steady", "establishment"} :
     t # <<"M1", "establishment">>}

ASSUME ExperimentConstantsOK ==
  /\ Treatment \subseteq Treatments
  /\ MaxAttempts \in Nat

Node == {"ric", "du"}
Attempt == 1 .. MaxAttempts

VARIABLES
  mode, kind,   \* MODE and EXPERIMENT_KIND, which a RUN_ID stands for
  attempt,      \* how often run.sh was started
  stage,        \* "off", "steps", or a half of the EXIT trap
  todo,         \* the steps of the script that are still to come
  left,         \* how the last attempt ended, as to what it left behind
  lab,          \* the laboratory's containers exist
  inLab,        \* <<what, attempt>>: what runs or lies in them, by whom
  secretFile,   \* the attempts whose temporary PSK file is on the host
  events,       \* events.jsonl: <<name, attempt>> in the order of time
  telemetry,    \* telemetry[n]: attempts whose events of n the index has
  durations,    \* summary.json's durations, as last written
  observed,     \* and its telemetry: the nodes, each with its has_gaps
  passed        \* the attempts that ended with exit code 0

control == <<mode, kind, attempt, stage, todo, left>>
files == <<secretFile, events, telemetry, durations, observed, passed>>
vars == <<control, lab, inLab, files, echo>>

-----------------------------------------------------------------------------
(***************************************************************************)
(* The script: its steps with an effect outside of run.sh.  Every other    *)
(* command (health, negotiation, packet counts, secret scan, jq) is one    *)
(* more way in which the step it precedes may fail.                        *)
(***************************************************************************)
Establishment ==
  <<"secret_file", "secret_copies", "secret_loaded", "ike_start", "child_sa_installed">>

Traffic == <<"serve", "send", "client_ends", "server_ends">>

Rekeys == <<"ike_rekey_start", "ike_rekey_end", "child_rekey_start", "child_rekey_end">>

EventNames ==
  {"lab_deployed", "capture_started", "ike_start", "child_sa_installed",
   "traffic_start", "traffic_end", "capture_stopped",
   "ike_intermediate_observed", "run_complete"} \cup ToSet(Rekeys)

Script ==
  LET When(condition, steps) == IF condition THEN steps ELSE <<>>
  IN  <<"deploy", "agents", "lab_deployed", "capture", "capture_started">>
      \o When(mode # "M1", Establishment)
      \o <<"traffic_start">>
      \o When(kind # "establishment", Traffic)
      \o <<"traffic_end">>
      \o When(mode # "M1" /\ kind # "steady", Rekeys)
      \o <<"end_capture", "capture_stopped">>
      \o When(mode = "M3", <<"ike_intermediate_observed">>)
      \o <<"run_complete", "stop", "finalize", "validate">>

\* run.sh is at step s.
At(s) == stage = "steps" /\ todo # <<>> /\ Head(todo) = s

\* It has step s behind it.
Past(s) == stage = "steps" /\ s \notin ToSet(todo) /\ s \in ToSet(Script)

Do(s) == At(s) /\ todo' = Tail(todo) /\ UNCHANGED <<mode, kind, attempt, stage, left>>

Init ==
  /\ \E t \in Treatment : mode = t[1] /\ kind = t[2]
  /\ attempt = 0
  /\ stage = "off"
  /\ todo = <<>>
  /\ left = "clean"
  /\ lab = FALSE
  /\ inLab = {}
  /\ secretFile = {}
  /\ events = <<>>
  /\ telemetry = [n \in Node |-> {}]
  /\ durations = {}
  /\ observed = [n \in {} |-> FALSE]
  /\ passed = {}
  /\ EchoInit

\* run.sh is started; whatever an earlier attempt left is still there.
Launch ==
  /\ stage = "off"
  /\ attempt < MaxAttempts
  /\ attempt' = attempt + 1
  /\ stage' = "steps"
  /\ todo' = Script
  /\ UNCHANGED <<mode, kind, left, lab, inLab, files, echo>>

\* Mutant of Deploy: containers that are there are used again.
DeployBeside ==
  /\ Do("deploy")
  /\ lab' = TRUE
  /\ UNCHANGED <<inLab, files, echo>>

\* containerlab_cleanup, and a deploy that replaces what is left of a lab.
Deploy ==
  /\ Do("deploy")
  /\ lab' = TRUE
  /\ inLab' = {}
  /\ EchoGone
  /\ UNCHANGED files

\* docker exec --detach: nothing tells run.sh whether an agent came up, or
\* lives; one that does not is an agent that delivers nothing.
StartAgents ==
  /\ Do("agents")
  /\ inLab' = inLab \cup Node \X {attempt}
  /\ UNCHANGED <<lab, files, echo>>

\* agent_event: a line is appended to events.jsonl.
LogEvent ==
  /\ \E e \in EventNames : Do(e) /\ events' = Append(events, <<e, attempt>>)
  /\ UNCHANGED <<lab, inLab, secretFile, telemetry, durations, observed, passed, echo>>

StartCapture ==
  /\ Do("capture")
  /\ inLab' = inLab \cup {<<"capture", attempt>>}
  /\ UNCHANGED <<lab, files, echo>>

\* What runs in the lab, without those that a signal made end: all or none.
Signalled(whom) == {inLab, inLab \ (whom \X Attempt)}

StopCapture ==
  /\ Do("end_capture")
  /\ inLab' \in Signalled({"capture"})
  /\ UNCHANGED <<lab, files, echo>>

WriteSecret ==
  /\ Do("secret_file")
  /\ secretFile' = secretFile \cup {attempt}
  /\ UNCHANGED <<lab, inLab, events, telemetry, durations, observed, passed, echo>>

\* The PSK is copied to the endpoints, and the file on the host unlinked.
CopySecret ==
  /\ Do("secret_copies")
  /\ secretFile' = secretFile \ {attempt}
  /\ inLab' = inLab \cup {<<"secret", attempt>>}
  /\ UNCHANGED <<lab, events, telemetry, durations, observed, passed, echo>>

\* The daemons have loaded it; the endpoints' copies are unlinked.
UnlinkCopies ==
  /\ Do("secret_loaded")
  /\ inLab' = inLab \ {<<"secret", attempt>>}
  /\ UNCHANGED <<lab, files, echo>>

\* The server in the background, the client half a second later.
Serve == Do("serve") /\ ServerStart /\ UNCHANGED <<lab, inLab, files>>
SendTraffic == Do("send") /\ ClientStart /\ UNCHANGED <<lab, inLab, files>>

\* Mutant of ClientEnds: without pipefail, the status is tee's.
ClientEndsAnyhow ==
  /\ Do("client_ends")
  /\ client \in {"done", "failed"}
  /\ UNCHANGED <<lab, inLab, files, echo>>

ClientEnds == Do("client_ends") /\ client = "done" /\ UNCHANGED <<lab, inLab, files, echo>>
ServerEnds == Do("server_ends") /\ server = "done" /\ UNCHANGED <<lab, inLab, files, echo>>

\* The agents are told to stop and have a second to do so.
StopAgents ==
  /\ Do("stop")
  /\ inLab' \in Signalled(Node)
  /\ UNCHANGED <<lab, files, echo>>

(***************************************************************************)
(* artifacts.py finalize: the difference of two events' times for every    *)
(* label that has both, taken from a dictionary of the events by name, in  *)
(* which the last line of a name counts.                                   *)
(***************************************************************************)
Labels ==
  [ike_establishment |-> <<"ike_start", "child_sa_installed">>,
   ike_rekey         |-> <<"ike_rekey_start", "ike_rekey_end">>,
   child_rekey       |-> <<"child_rekey_start", "child_rekey_end">>,
   traffic           |-> <<"traffic_start", "traffic_end">>]

Lines(name) == {i \in 1 .. Len(events) : events[i][1] = name}

\* Mutant of ByName: the first line of a name counts.
ByNameFirst(name) == Min(Lines(name))

ByName(name) == Max(Lines(name))

Durations ==
  {[label |-> l, start |-> ByName(Labels[l][1]), end |-> ByName(Labels[l][2])] :
     l \in {k \in DOMAIN Labels : Lines(Labels[k][1]) # {} /\ Lines(Labels[k][2]) # {}}}

\* finalize opens the metrics of both nodes, and raises without them; of the
\* collector's summary it keeps what that says of each node.  Which node has
\* gaps is TelemetryDelivery's subject: here any may.
Finalize ==
  /\ Do("finalize")
  /\ \A n \in Node : telemetry[n] # {}
  /\ durations' = Durations
  /\ observed' \in [{n \in Node : telemetry[n] # {}} -> BOOLEAN]
  /\ UNCHANGED <<lab, inLab, secretFile, events, telemetry, passed, echo>>

\* artifacts.py validate finds both nodes and no gaps, and nothing else wrong
\* (which is one more way in which the step may fail): the script has ended.
Validate ==
  /\ At("validate")
  /\ DOMAIN observed = Node
  /\ \A n \in Node : ~ observed[n]
  /\ todo' = <<>>
  /\ stage' = "cleanup"
  /\ passed' = passed \cup {attempt}
  /\ UNCHANGED <<mode, kind, attempt, left, lab, inLab, secretFile, events, telemetry,
                 durations, observed, echo>>

RunStep ==
  \/ Deploy
  \/ StartAgents
  \/ LogEvent
  \/ StartCapture
  \/ StopCapture
  \/ WriteSecret
  \/ CopySecret
  \/ UnlinkCopies
  \/ Serve
  \/ SendTraffic
  \/ ClientEnds
  \/ ServerEnds
  \/ StopAgents
  \/ Finalize
  \/ Validate

\* A command of the step fails, and set -e ends the script; the two steps that
\* wait for a program fail only when that has failed.
StepFails ==
  /\ stage = "steps"
  /\ At("client_ends") => client = "failed"
  /\ At("server_ends") => server = "failed"
  /\ stage' = "cleanup"
  /\ UNCHANGED <<mode, kind, attempt, todo, left, lab, inLab, files, echo>>

\* SIGINT or SIGTERM at any point: the trap runs.
Interrupt ==
  /\ stage = "steps"
  /\ stage' = "cleanup"
  /\ UNCHANGED <<mode, kind, attempt, todo, left, lab, inLab, files, echo>>

\* Mutant of CleanUp: the PSK file is not unlinked.
CleanUpKeepsSecret ==
  /\ stage = "cleanup"
  /\ stage' = "destroying"
  /\ inLab' \in Signalled(Node \cup {"capture"})
  /\ UNCHANGED <<mode, kind, attempt, todo, left, lab, files, echo>>

\* The first half of cleanup: capture and agents are signalled, and the PSK
\* file is unlinked if SECRET_FILE still names it.
CleanUp ==
  /\ stage = "cleanup"
  /\ stage' = "destroying"
  /\ secretFile' = secretFile \ {attempt}
  /\ inLab' \in Signalled(Node \cup {"capture"})
  /\ UNCHANGED <<mode, kind, attempt, todo, left, lab, events, telemetry, durations,
                 observed, passed, echo>>

\* The second half: containerlab destroy.
DestroyLab ==
  /\ stage = "destroying"
  /\ stage' = "off"
  /\ todo' = <<>>
  /\ left' = "clean"
  /\ lab' = FALSE
  /\ inLab' = {}
  /\ EchoGone
  /\ UNCHANGED <<mode, kind, attempt, files>>

\* A destroy that fails is ignored, and the containers stay.
DestroyFails ==
  /\ stage = "destroying"
  /\ stage' = "off"
  /\ todo' = <<>>
  /\ left' = "lab"
  /\ UNCHANGED <<mode, kind, attempt, lab, inLab, files, echo>>

\* run.sh is killed, in its trap or before: no trap runs to its end.
Kill ==
  /\ stage # "off"
  /\ stage' = "off"
  /\ todo' = <<>>
  /\ left' = "all"
  /\ UNCHANGED <<mode, kind, attempt, lab, inLab, files, echo>>

\* Telemetry of an agent gets to the collector.  Nothing makes it do so.
Deliver ==
  /\ \E x \in inLab :
       /\ x[1] \in Node
       /\ x[2] \notin telemetry[x[1]]
       /\ telemetry' = [telemetry EXCEPT ![x[1]] = @ \cup {x[2]}]
  /\ UNCHANGED <<control, lab, inLab, secretFile, events, durations, observed, passed, echo>>

EchoStep == EchoNext /\ UNCHANGED <<control, lab, inLab, files>>

Next ==
  \/ Launch
  \/ RunStep
  \/ StepFails
  \/ Interrupt
  \/ CleanUp
  \/ DestroyLab
  \/ DestroyFails
  \/ Kill
  \/ Deliver
  \/ EchoStep

Spec == Init /\ [][Next]_vars

(***************************************************************************)
(* run.sh goes on: every command it waits for ends, but the SCTP programs  *)
(* only as their own code makes them.  The client's steps include its      *)
(* timeout; neither the server nor the link is assumed to do anything.     *)
(***************************************************************************)
Fairness ==
  /\ WF_vars(RunStep \/ StepFails \/ CleanUp \/ DestroyLab \/ DestroyFails)
  /\ WF_vars(ClientStep /\ UNCHANGED <<control, lab, inLab, files>>)

FairSpec == Spec /\ Fairness

-----------------------------------------------------------------------------
TypeOK ==
  /\ <<mode, kind>> \in Treatment
  /\ attempt \in 0 .. MaxAttempts
  /\ stage \in {"off", "steps", "cleanup", "destroying"}
  /\ IsSuffix(todo, Script)
  /\ left \in {"clean", "lab", "all"}
  /\ lab \in BOOLEAN
  /\ inLab \subseteq (Node \cup {"capture", "secret"}) \X Attempt
  /\ secretFile \subseteq Attempt
  /\ events \in Seq(EventNames \X Attempt)
  /\ telemetry \in [Node -> SUBSET Attempt]
  /\ observed \in UNION {[S -> BOOLEAN] : S \in SUBSET Node}
  /\ passed \subseteq Attempt
  /\ EchoTypeOK

\* The durations a treatment is measured by.
Measured ==
  {"traffic"}
    \cup (IF mode = "M1" THEN {} ELSE {"ike_establishment"})
    \cup (IF mode = "M1" \/ kind = "steady" THEN {} ELSE {"ike_rekey", "child_rekey"})

(***************************************************************************)
(* events.jsonl grows over all attempts of a RUN_ID, some of them cut      *)
(* between a start and its end.  Still every duration of a finalized run   *)
(* is from a start to a later end of the attempt that is finalized, and    *)
(* exactly the labels of its treatment are there.                          *)
(* (artifacts.event appends, artifacts.finalize's by_name)                 *)
(***************************************************************************)
DurationsAreOfThisAttempt ==
  Past("finalize") =>
    /\ {d.label : d \in durations} = Measured
    /\ \A d \in durations : /\ d.start < d.end
                            /\ events[d.start][2] = attempt
                            /\ events[d.end][2] = attempt

(***************************************************************************)
(* Once an attempt has its laboratory, nothing of an earlier attempt runs  *)
(* beside it, however that one ended: no second agent process writes the   *)
(* same spool, no old capture or PSK is there, no old server answers.      *)
(* (run.sh: containerlab_cleanup and --reconfigure before the deploy)      *)
(***************************************************************************)
OneAttemptInLab ==
  Past("deploy") =>
    /\ lab
    /\ inLab \subseteq (Node \cup {"capture", "secret"}) \X {attempt}
    /\ client # "absent" => Past("send")
    /\ server # "absent" => Past("serve")

(***************************************************************************)
(* An attempt that was not killed leaves no PSK on the host, and no        *)
(* container or process either unless `containerlab destroy` failed; and   *)
(* when artifacts are collected there is no copy of the PSK any more.      *)
(* (run.sh: the EXIT trap, configure_ipsec)                                *)
(***************************************************************************)
NothingIsLeftBehind ==
  /\ stage = "off" /\ left # "all" => attempt \notin secretFile
  /\ stage = "off" /\ left = "clean" => ~ lab /\ inLab = {} /\ server = "absent"
  /\ Past("end_capture") => <<"secret", attempt>> \notin inLab /\ attempt \notin secretFile

(***************************************************************************)
(* An attempt that has logged traffic_end has had every message of its     *)
(* SCTP traffic echoed: a `loss` other than 0 is never in evidence.        *)
(* (run.sh: pipefail and wait, sctp_client.main)                           *)
(***************************************************************************)
TrafficIsComplete ==
  Past("traffic_end") /\ kind # "establishment" =>
    client = "done" /\ server = "done" /\ echoed = Count

(***************************************************************************)
(* README.md:218 and experiments/README.md:37-38: both agents are a part   *)
(* of every run; so a run that passed has telemetry that the agents of     *)
(* that very attempt sent, from either node.  The code does not see to it: *)
(* nothing looks at whether an agent came up, the directory the artifacts  *)
(* are taken from is that of the RUN_ID, and what an earlier attempt left  *)
(* there passes for the telemetry of this one.                             *)
(* (run.sh:172, artifacts.finalize, artifacts.validate)                    *)
(***************************************************************************)
PassedRunIsObserved == \A a \in passed, n \in Node : a \in telemetry[n]

(***************************************************************************)
(* run.sh ends, whether or not the SCTP server is up when the client       *)
(* connects, and whatever the link does with their messages.               *)
(* (sctp_client: settimeout)                                               *)
(***************************************************************************)
RunEnds == stage # "off" ~> stage = "off"
=============================================================================

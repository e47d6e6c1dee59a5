------------------------------ MODULE Campaign ------------------------------
(***************************************************************************)
(* A measurement campaign: experiments/campaign.py works through a         *)
(* schedule of runs and can be started again after it stopped anywhere;    *)
(* experiments/run.sh executes one run and leaves summary.json, which is   *)
(* all campaign.py looks at to know whether a run has to be executed.      *)
(*                                                                         *)
(* run.sh is a process of its own: it outlives a campaign.py that is       *)
(* killed alone, beside the run.sh that the next campaign.py starts.       *)
(***************************************************************************)
EXTENDS Naturals, FiniteSets

CONSTANTS
  Runs,        \* how many runs the schedule has: 5 treatments x repetitions
  MaxAttempts, \* bound of the model: how often run.sh is started for a run
  MaxAlone     \* bound of the model: processes of run.sh without a main

ASSUME CampaignConstantsOK ==
  Runs \in Nat \ {0} /\ MaxAttempts \in Nat /\ MaxAlone \in Nat

VARIABLES
  phase,      \* where campaign.py's main is; "off": it does not run
  order,      \* the order of the schedule's item main is at
  counted,    \* the runs aggregate has found passed so far
  stage,      \* stage[p]: where process p of run.sh is
  schedule,   \* schedule.json: "absent", "torn" or "written"
  manifest,   \* the campaign's manifest.json has been written
  summary,    \* summary[i]: what summary.json of run i is
  validated,  \* validated[i]: run.sh has ended with exit code 0 for run i
  attempts,   \* attempts[i]: how often run.sh was started for run i
  report,     \* the runs the campaign's summary.json counts as passed
  orphaned    \* history: the runs whose run.sh was ever left without a main

mainVars == <<phase, order, counted>>
fileVars == <<schedule, manifest, report>>
runVars == <<stage, summary, validated>>
vars == <<mainVars, fileVars, runVars, attempts, orphaned>>

Item == 1 .. Runs

\* The processes of run.sh, by their item and the number of its attempt.
Process == Item \X (1 .. MaxAttempts)

\* The JSON files run.sh and artifacts.finalize write are truncated first.
\* "bare": jq's summary, status "pass"; "final": with finalize's additions;
\* "torn": what two of them wrote into one file.
SummaryState == {"absent", "empty", "torn", "bare", "final"}

Passes(i) == summary[i] \in {"bare", "final"}

\* json.loads raises.
Unreadable(i) == summary[i] \in {"empty", "torn"}

Stages == {"none", "experiment", "truncated", "summarised", "loaded",
           "finalizing", "finalized"}

\* The process main waits for, if it does.
Awaited(p) == phase = "running" /\ p = <<order, attempts[order]>>

Init ==
  /\ phase = "off"
  /\ order = 1
  /\ counted = {}
  /\ stage = [p \in Process |-> "none"]
  /\ schedule = "absent"
  /\ manifest = FALSE
  /\ summary = [i \in Item |-> "absent"]
  /\ validated = [i \in Item |-> FALSE]
  /\ attempts = [i \in Item |-> 0]
  /\ report = {}
  /\ orphaned = {}

-----------------------------------------------------------------------------
(***************************************************************************)
(* campaign.py                                                             *)
(***************************************************************************)

\* main starts: it reads the schedule, or opens the file to write a new one.
\* A schedule that is not JSON makes it raise.
Launch ==
  /\ phase = "off"
  /\ \/ /\ schedule = "absent"
        /\ schedule' = "torn"
        /\ phase' = "planning"
     \/ /\ schedule = "written"
        /\ phase' = "looping"
        /\ UNCHANGED schedule
  /\ order' = 1
  /\ UNCHANGED <<counted, manifest, report, runVars, attempts, orphaned>>

WriteSchedule ==
  /\ phase = "planning"
  /\ schedule' = "written"
  /\ phase' = "planned"
  /\ UNCHANGED <<order, counted, manifest, report, runVars, attempts, orphaned>>

\* Only the start that wrote the schedule writes the manifest.
WriteManifest ==
  /\ phase = "planned"
  /\ manifest' = TRUE
  /\ phase' = "looping"
  /\ UNCHANGED <<order, counted, schedule, report, runVars, attempts, orphaned>>

Skip ==
  /\ phase = "looping"
  /\ order \in Item
  /\ Passes(order)
  /\ order' = order + 1
  /\ UNCHANGED <<phase, counted, fileVars, runVars, attempts, orphaned>>

\* run.sh is started for the item main is at.
Begin ==
  /\ attempts[order] < MaxAttempts
  /\ attempts' = [attempts EXCEPT ![order] = @ + 1]
  /\ stage' = [stage EXCEPT ![<<order, attempts[order] + 1>>] = "experiment"]
  /\ phase' = "running"
  /\ UNCHANGED <<order, counted, fileVars, summary, validated, orphaned>>

\* Mutant of StartRun: runs that have passed are executed again.
StartRunAgain ==
  /\ phase = "looping"
  /\ order \in Item
  /\ ~ Unreadable(order)
  /\ Begin

\* A run without a summary is executed; RUN_ID is the item's, so what an
\* earlier attempt left is still there, and so may the attempt be itself.
StartRun ==
  /\ phase = "looping"
  /\ order \in Item
  /\ summary[order] = "absent"
  /\ Begin

\* Every item was skipped or has just passed: aggregate begins.
StartReport ==
  /\ phase = "looping"
  /\ order = Runs + 1
  /\ phase' = "counting"
  /\ order' = 1
  /\ UNCHANGED <<counted, fileVars, runVars, attempts, orphaned>>

\* Mutant of Count: only runs whose run.sh ended with 0 are counted.
CountValidated ==
  /\ phase = "counting"
  /\ order \in Item
  /\ ~ Unreadable(order)
  /\ counted' = IF validated[order] THEN counted \cup {order} ELSE counted
  /\ order' = order + 1
  /\ UNCHANGED <<phase, fileVars, runVars, attempts, orphaned>>

\* aggregate looks at the next summary; one that is missing is a failure.
Count ==
  /\ phase = "counting"
  /\ order \in Item
  /\ ~ Unreadable(order)
  /\ counted' = IF Passes(order) THEN counted \cup {order} ELSE counted
  /\ order' = order + 1
  /\ UNCHANGED <<phase, fileVars, runVars, attempts, orphaned>>

\* The report is written, and main returns or, with failures, raises.
WriteReport ==
  /\ phase = "counting"
  /\ order = Runs + 1
  /\ report' = counted
  /\ phase' = "off"
  /\ counted' = {}
  /\ UNCHANGED <<order, schedule, manifest, runVars, attempts, orphaned>>

\* A run's summary that is not JSON makes main raise.
RaiseOnTorn ==
  /\ phase \in {"looping", "counting"}
  /\ order \in Item
  /\ Unreadable(order)
  /\ phase' = "off"
  /\ counted' = {}
  /\ UNCHANGED <<order, fileVars, runVars, attempts, orphaned>>

\* An interrupt from the terminal ends main and the run.sh it waits for; or
\* main was started with --plan-only and returns once the schedule is there.
Interrupt ==
  /\ phase # "off"
  /\ phase' = "off"
  /\ counted' = {}
  /\ stage' = [p \in Process |-> IF Awaited(p) THEN "none" ELSE stage[p]]
  /\ UNCHANGED <<order, fileVars, summary, validated, attempts, orphaned>>

\* campaign.py alone is killed while it waits for run.sh, which goes on.
KillMain ==
  /\ phase = "running"
  /\ Cardinality({p \in Process : stage[p] # "none"}) <= MaxAlone
  /\ phase' = "off"
  /\ orphaned' = orphaned \cup {order}
  /\ UNCHANGED <<order, counted, fileVars, runVars, attempts>>

-----------------------------------------------------------------------------
(***************************************************************************)
(* run.sh                                                                  *)
(***************************************************************************)

\* Process p goes on, and leaves the summary of its item in one of `files`.
RunStep(p, from, to, files) ==
  /\ stage[p] = from
  /\ stage' = [stage EXCEPT ![p] = to]
  /\ \E file \in files : summary' = [summary EXCEPT ![p[1]] = file]
  /\ UNCHANGED <<mainVars, fileVars, validated, attempts, orphaned>>

\* A text written from the start of the file: over what another process has
\* written there, of which an end may be left.
Written(p, file) == IF summary[p[1]] = "empty" THEN {file} ELSE {file, "torn"}

\* Laboratory, negotiation, traffic and rekey met the acceptance criteria:
\* the shell opens summary.json, and jq writes it with status "pass".
OpenSummary(p) == RunStep(p, "experiment", "truncated", {"empty"})
WriteSummary(p) == RunStep(p, "truncated", "summarised", Written(p, "bare"))

\* The agents are told to stop; finalize reads the telemetry's summary, the
\* metrics and summary.json, and rewrites it with what it found there.
LoadSummary(p) ==
  /\ Passes(p[1])
  /\ RunStep(p, "summarised", "loaded", {summary[p[1]]})

OpenFinal(p) == RunStep(p, "loaded", "finalizing", {"empty"})
WriteFinal(p) == RunStep(p, "finalizing", "finalized", Written(p, "final"))

\* Mutant of Validate: the loop's counter advances twice.
ValidateTwice(p) ==
  /\ stage[p] = "finalized"
  /\ summary[p[1]] = "final"
  /\ stage' = [stage EXCEPT ![p] = "none"]
  /\ validated' = [validated EXCEPT ![p[1]] = TRUE]
  /\ IF Awaited(p) THEN phase' = "looping" /\ order' = order + 2
                   ELSE UNCHANGED <<phase, order>>
  /\ UNCHANGED <<counted, fileVars, summary, attempts, orphaned>>

\* validate finds nothing wrong; run.sh ends with 0, and a main that waits
\* for it goes on.
Validate(p) ==
  /\ stage[p] = "finalized"
  /\ summary[p[1]] = "final"
  /\ stage' = [stage EXCEPT ![p] = "none"]
  /\ validated' = [validated EXCEPT ![p[1]] = TRUE]
  /\ IF Awaited(p) THEN phase' = "looping" /\ order' = order + 1
                   ELSE UNCHANGED <<phase, order>>
  /\ UNCHANGED <<counted, fileVars, summary, attempts, orphaned>>

\* Mutant of Fail: main goes on with the next run.
FailGoesOn(p) ==
  /\ stage' = [stage EXCEPT ![p] = "none"]
  /\ IF Awaited(p) THEN phase' = "looping" /\ order' = order + 1
                   ELSE UNCHANGED <<phase, order>>
  /\ UNCHANGED <<counted, fileVars, summary, validated, attempts, orphaned>>

\* run.sh ends with another exit code, and a main that waits for it raises.
Fail(p) ==
  /\ stage' = [stage EXCEPT ![p] = "none"]
  /\ phase' = IF Awaited(p) THEN "off" ELSE phase
  /\ UNCHANGED <<order, counted, fileVars, summary, validated, attempts, orphaned>>

\* finalize or validate does not find the summary it needs.
RunRaises(p) ==
  /\ \/ stage[p] = "summarised" /\ ~ Passes(p[1])
     \/ stage[p] = "finalized" /\ summary[p[1]] # "final"
  /\ Fail(p)

\* A criterion, jq, finalize or validate fails, or run.sh is killed.  Before
\* finalize, telemetry that is late or cannot be parsed does this; after it,
\* a node that is missing, a gap or a possible secret.
RunFails(p) == stage[p] # "none" /\ Fail(p)

MainStep ==
  \/ Launch
  \/ WriteSchedule
  \/ WriteManifest
  \/ Skip
  \/ StartRun
  \/ StartReport
  \/ Count
  \/ WriteReport
  \/ RaiseOnTorn

ProcessStep(p) ==
  \/ OpenSummary(p)
  \/ WriteSummary(p)
  \/ LoadSummary(p)
  \/ OpenFinal(p)
  \/ WriteFinal(p)
  \/ Validate(p)
  \/ RunRaises(p)

Progress == MainStep \/ \E p \in Process : ProcessStep(p)

Next == Progress \/ Interrupt \/ KillMain \/ \E p \in Process : RunFails(p)

Spec == Init /\ [][Next]_vars

(***************************************************************************)
(* A main that runs goes on, the operator starts a campaign that has       *)
(* stopped again, and run.sh ends.  That a run succeeds is not assumed.    *)
(***************************************************************************)
Fairness ==
  /\ WF_vars(MainStep)
  /\ \A p \in Process : WF_vars(ProcessStep(p) \/ RunFails(p))

FairSpec == Spec /\ Fairness

-----------------------------------------------------------------------------
TypeOK ==
  /\ phase \in {"off", "planning", "planned", "looping", "running", "counting"}
  /\ order \in 1 .. Runs + 1
  /\ counted \subseteq Item
  /\ stage \in [Process -> Stages]
  /\ schedule \in {"absent", "torn", "written"}
  /\ manifest \in BOOLEAN
  /\ summary \in [Item -> SummaryState]
  /\ validated \in [Item -> BOOLEAN]
  /\ attempts \in [Item -> 0 .. MaxAttempts]
  /\ report \subseteq Item
  /\ orphaned \subseteq Item

\* The processes of run.sh that work on run i.
Working(i) == {p \in Process : p[1] = i /\ stage[p] # "none"}

(***************************************************************************)
(* However often the campaign is interrupted and resumed, a run is only    *)
(* executed when all runs before it in the schedule have passed and no     *)
(* run.sh works on them, nor another one on the run itself: but for runs   *)
(* whose run.sh was left alone by a campaign.py that was killed.           *)
(* (campaign.main's loop, which stops at the first run that fails)         *)
(***************************************************************************)
ScheduleIsFollowed ==
  \A i \in Item : attempts[i] > 0 =>
    /\ schedule = "written"
    /\ \A j \in Item \ orphaned : j < i => Passes(j) /\ Working(j) = {}
    /\ i \notin orphaned => \A p, q \in Working(i) : p = q

(***************************************************************************)
(* The evidence of a validated run is what finalize wrote, for ever: no    *)
(* resumption executes the run again or truncates its summary, unless a    *)
(* run.sh of it was ever left alone.                                       *)
(* (campaign.main skips it, run.sh is the only writer)                     *)
(***************************************************************************)
EvidenceIsKept ==
  \A i \in Item \ orphaned : validated[i] => summary[i] = "final"

(***************************************************************************)
(* A campaign report covers the whole schedule: aggregate never finds one  *)
(* of the failures it looks for, since the loop does not get past them.    *)
(* What it reports of runs that were never left alone stays true.          *)
(***************************************************************************)
ReportIsComplete ==
  report # {} => report = Item /\ \A i \in Item \ orphaned : Passes(i)

\* The bound of the model keeps run i from being tried once more.
Exhausted(i) == attempts[i] = MaxAttempts /\ ~ Passes(i)

(***************************************************************************)
(* A campaign that is not disturbed any more comes to its report, unless   *)
(* a JSON file was left half written, or two run.sh wrote into one.        *)
(***************************************************************************)
Undisturbed == [][Progress]_vars

CampaignEnds ==
  <>Undisturbed =>
    \/ <>(report = Item)
    \/ <>[](\/ schedule = "torn"
            \/ \E i \in Item : Unreadable(i) \/ Exhausted(i))

-----------------------------------------------------------------------------
(***************************************************************************)
(* What experiments/README.md says of a campaign and the code does not do. *)
(***************************************************************************)

(***************************************************************************)
(* "Approved runs are verified and skipped": whatever is reported has been *)
(* validated, and its summary is the one that was.  There are two ways to  *)
(* break it: a run that failed in finalize or in validate has left a       *)
(* summary with status "pass" before; and a run.sh that a killed           *)
(* campaign.py has left running rewrites the summary of the run that the   *)
(* next campaign.py has executed.                                          *)
(***************************************************************************)
ReportedIsValidated ==
  \A i \in report : validated[i] /\ summary[i] = "final"

(***************************************************************************)
(* "The campaign can be resumed with the same --campaign-id."              *)
(***************************************************************************)
CanBeResumed ==
  <>Undisturbed => <>(report = Item) \/ <>[](\E i \in Item : Exhausted(i))
=============================================================================

---------------------------- MODULE CampaignProofs ----------------------------
(***************************************************************************)
(* Theorems about Campaign for schedules of any length and any number of   *)
(* attempts, interruptions, resumptions and run.sh that were left alone.   *)
(***************************************************************************)
EXTENDS Campaign, TLAPS

-----------------------------------------------------------------------------
(***************************************************************************)
(* The inductive invariant.                                                *)
(***************************************************************************)

\* Where main can be, and what its local variables are then.
Control ==
  /\ phase = "running" => order \in Item
  /\ phase \in {"planned", "looping", "running", "counting"} => schedule = "written"
  /\ phase \in {"planning", "planned"} => order = 1
  /\ phase # "counting" => counted = {}
  /\ phase = "counting" => counted = {i \in Item : i < order}

\* Nobody but main's own run.sh works on a run that was never left alone, and
\* nothing relies on that run yet.
RunsOK ==
  \A p \in Process : stage[p] # "none" /\ p[1] \notin orphaned =>
    /\ Awaited(p)
    /\ ~ validated[p[1]]
    /\ report = {}

\* What the loop has got past.
Behind(i) == summary[i] # "absent" /\ (i \notin orphaned => Passes(i))

\* main has what it passed by behind it, and a report has all runs.
LoopOK ==
  /\ phase \in {"looping", "running"} => \A i \in Item : i < order => Behind(i)
  /\ phase = "counting" \/ report # {} => \A i \in Item : Behind(i)

IInv ==
  /\ TypeOK
  /\ Control
  /\ RunsOK
  /\ LoopOK
  /\ ScheduleIsFollowed
  /\ EvidenceIsKept
  /\ ReportIsComplete

-----------------------------------------------------------------------------
LEMMA InitInvariant == Init => IInv
<1>. SUFFICES ASSUME Init PROVE IInv
  OBVIOUS
<1>1. TypeOK
  <2>1. 1 \in 1 .. Runs + 1 /\ 0 \in 0 .. MaxAttempts
    BY CampaignConstantsOK
  <2>. QED  BY <2>1 DEF Init, TypeOK, Stages, SummaryState
<1>2. Control /\ LoopOK /\ RunsOK
  BY DEF Init, Control, LoopOK, RunsOK
<1>3. ScheduleIsFollowed /\ EvidenceIsKept /\ ReportIsComplete
  BY DEF Init, ScheduleIsFollowed, EvidenceIsKept, ReportIsComplete
<1>. QED  BY <1>1, <1>2, <1>3 DEF IInv

\* campaign.py's steps that leave the runs alone.
LEMMA MainInvariant ==
  ASSUME IInv, UNCHANGED <<runVars, attempts, orphaned, report>>,
         phase # "running", phase' # "running", Control', TypeOK', LoopOK',
         schedule = "written" => schedule' = "written"
  PROVE  IInv'
<1>1. RunsOK'
  BY DEF IInv, RunsOK, runVars, Awaited
<1>2. ScheduleIsFollowed'
  BY DEF IInv, ScheduleIsFollowed, runVars, Working, Passes
<1>3. EvidenceIsKept' /\ ReportIsComplete'
  BY DEF IInv, EvidenceIsKept, ReportIsComplete, runVars, Passes
<1>. QED  BY <1>1, <1>2, <1>3 DEF IInv

LEMMA MainStepInvariant ==
  ASSUME IInv,
         \/ Launch
         \/ WriteSchedule
         \/ WriteManifest
         \/ Skip
         \/ StartReport
         \/ Count
         \/ RaiseOnTorn
  PROVE  IInv'
<1>. USE DEF fileVars
<1>1. UNCHANGED <<runVars, attempts, orphaned, report>>
  BY DEF Launch, WriteSchedule, WriteManifest, Skip, StartReport, Count, RaiseOnTorn
<1>2. phase # "running" /\ phase' # "running"
  BY DEF Launch, WriteSchedule, WriteManifest, Skip, StartReport, Count, RaiseOnTorn
<1>3. schedule = "written" => schedule' = "written"
  BY DEF Launch, WriteSchedule, WriteManifest, Skip, StartReport, Count, RaiseOnTorn
<1>4. \A i \in Item : Behind(i)' <=> Behind(i)
  BY <1>1 DEF Behind, Passes, runVars
<1>5. TypeOK /\ Control /\ LoopOK
  BY DEF IInv
<1>6. CASE Launch
  <2>1. order' = 1 /\ phase' \in {"planning", "looping"} /\ counted' = {}
    BY <1>5, <1>6 DEF Launch, Control
  <2>2. TypeOK'
    BY <1>1, <1>5, <1>6, <2>1, CampaignConstantsOK DEF Launch, TypeOK, runVars
  <2>3. Control'
    BY <1>6, <2>1 DEF Launch, Control
  <2>4. LoopOK'
    BY <1>1, <1>4, <1>5, <2>1 DEF LoopOK, Item
  <2>. QED  BY <1>1, <1>2, <1>3, <2>2, <2>3, <2>4, MainInvariant
<1>7. CASE WriteSchedule \/ WriteManifest
  <2>1. order' = 1 /\ phase' \in {"planned", "looping"} /\ counted' = {} /\ schedule' = "written"
    BY <1>5, <1>7 DEF WriteSchedule, WriteManifest, Control
  <2>2. TypeOK'
    BY <1>1, <1>5, <1>7, <2>1, CampaignConstantsOK DEF WriteSchedule, WriteManifest, TypeOK, runVars
  <2>3. Control'
    BY <2>1 DEF Control
  <2>4. LoopOK'
    BY <1>1, <1>4, <1>5, <2>1 DEF LoopOK, Item
  <2>. QED  BY <1>1, <1>2, <1>3, <2>2, <2>3, <2>4, MainInvariant
<1>8. CASE Skip
  <2>1. /\ phase = "looping" /\ phase' = "looping" /\ order \in Item /\ order' = order + 1
        /\ counted' = counted /\ schedule' = schedule /\ manifest' = manifest
        /\ Passes(order)
    BY <1>8 DEF Skip
  <2>2. TypeOK'
    BY <1>1, <1>5, <2>1, CampaignConstantsOK DEF TypeOK, runVars, Item
  <2>3. Control'
    BY <1>5, <2>1 DEF Control
  <2>4. LoopOK'
    <3>1. Behind(order)
      BY <2>1 DEF Behind, Passes
    <3>2. \A i \in Item : i < order + 1 => i < order \/ i = order
      BY <2>1 DEF Item
    <3>. QED  BY <1>1, <1>4, <1>5, <2>1, <3>1, <3>2 DEF LoopOK
  <2>. QED  BY <1>1, <1>2, <1>3, <2>2, <2>3, <2>4, MainInvariant
<1>9. CASE StartReport
  <2>1. /\ phase = "looping" /\ phase' = "counting" /\ order = Runs + 1 /\ order' = 1
        /\ counted' = counted /\ schedule' = schedule /\ manifest' = manifest
    BY <1>9 DEF StartReport
  <2>2. TypeOK'
    BY <1>1, <1>5, <2>1, CampaignConstantsOK DEF TypeOK, runVars
  <2>3. Control'
    BY <1>5, <2>1 DEF Control, Item
  <2>4. LoopOK'
    <3>1. \A i \in Item : i < Runs + 1
      BY CampaignConstantsOK DEF Item
    <3>. QED  BY <1>1, <1>4, <1>5, <2>1, <3>1 DEF LoopOK
  <2>. QED  BY <1>1, <1>2, <1>3, <2>2, <2>3, <2>4, MainInvariant
<1>10. CASE Count
  <2>1. /\ phase = "counting" /\ phase' = "counting" /\ order \in Item /\ order' = order + 1
        /\ schedule' = schedule /\ manifest' = manifest /\ ~ Unreadable(order)
        /\ counted' = IF Passes(order) THEN counted \cup {order} ELSE counted
    BY <1>10 DEF Count
  <2>2. Passes(order)
    <3>1. Behind(order) /\ summary[order] \in SummaryState
      BY <1>5, <2>1 DEF LoopOK, TypeOK
    <3>. QED  BY <2>1, <3>1 DEF Behind, Unreadable, Passes, SummaryState
  <2>3. TypeOK'
    BY <1>1, <1>5, <2>1, CampaignConstantsOK DEF TypeOK, runVars, Item
  <2>4. Control'
    <3>1. {i \in Item : i < order} \cup {order} = {i \in Item : i < order + 1}
      BY <2>1 DEF Item
    <3>. QED  BY <1>5, <2>1, <2>2, <3>1 DEF Control
  <2>5. LoopOK'
    BY <1>1, <1>4, <1>5, <2>1 DEF LoopOK
  <2>. QED  BY <1>1, <1>2, <1>3, <2>3, <2>4, <2>5, MainInvariant
<1>11. CASE RaiseOnTorn
  <2>1. /\ phase' = "off" /\ counted' = {} /\ order' = order
        /\ schedule' = schedule /\ manifest' = manifest
    BY <1>11 DEF RaiseOnTorn
  <2>2. TypeOK' /\ Control' /\ LoopOK'
    BY <1>1, <1>4, <1>5, <2>1 DEF TypeOK, Control, LoopOK, runVars
  <2>. QED  BY <1>1, <1>2, <1>3, <2>2, MainInvariant
<1>. QED  BY <1>6, <1>7, <1>8, <1>9, <1>10, <1>11

\* A report is written of all runs.
LEMMA WriteReportInvariant ==
  ASSUME IInv, WriteReport
  PROVE  IInv'
<1>1. /\ phase = "counting" /\ order = Runs + 1 /\ phase' = "off" /\ counted' = {}
      /\ report' = counted
      /\ UNCHANGED <<order, schedule, manifest, stage, summary, validated, attempts, orphaned>>
  BY DEF WriteReport, runVars
<1>2. report' = Item /\ \A i \in Item : Behind(i)
  <2>1. \A i \in Item : i < order
    BY <1>1, CampaignConstantsOK DEF Item
  <2>2. counted = {i \in Item : i < order} /\ \A i \in Item : Behind(i)
    BY <1>1 DEF IInv, Control, LoopOK
  <2>. QED  BY <1>1, <2>1, <2>2
<1>3. TypeOK' /\ Control' /\ LoopOK'
  BY <1>1, <1>2 DEF IInv, TypeOK, Control, LoopOK, Behind, Passes
<1>4. \A p \in Process : stage[p] # "none" => p[1] \in orphaned
  BY <1>1 DEF IInv, RunsOK, Awaited
<1>5. RunsOK'
  BY <1>1, <1>4 DEF RunsOK
<1>6. ScheduleIsFollowed' /\ EvidenceIsKept'
  BY <1>1 DEF IInv, ScheduleIsFollowed, EvidenceIsKept, Working, Passes
<1>7. ReportIsComplete'
  BY <1>1, <1>2 DEF ReportIsComplete, Behind, Passes
<1>. QED  BY <1>3, <1>5, <1>6, <1>7 DEF IInv

\* A run is started when nothing relies on it and, unless it was left alone,
\* nobody works on it.
LEMMA StartRunInvariant ==
  ASSUME IInv, StartRun
  PROVE  IInv'
<1>. DEFINE new == <<order, attempts[order] + 1>>
<1>1. /\ phase = "looping" /\ order \in Item /\ summary[order] = "absent"
      /\ schedule = "written" /\ attempts[order] < MaxAttempts
      /\ phase' = "running" /\ attempts' = [attempts EXCEPT ![order] = @ + 1]
      /\ stage' = [stage EXCEPT ![new] = "experiment"]
      /\ UNCHANGED <<order, counted, schedule, manifest, report, summary, validated, orphaned>>
  BY DEF StartRun, Begin, IInv, Control, fileVars
<1>2. /\ attempts[order] + 1 \in 1 .. MaxAttempts /\ new \in Process
      /\ attempts'[order] = attempts[order] + 1
      /\ \A i \in Item : i # order => attempts'[i] = attempts[i]
  BY <1>1, CampaignConstantsOK DEF IInv, TypeOK, Process
<1>3. TypeOK'
  BY <1>1, <1>2 DEF IInv, TypeOK, Stages
<1>4. Control'
  BY <1>1 DEF IInv, Control
<1>5. report = {} /\ (order \notin orphaned => ~ validated[order])
  BY <1>1 DEF IInv, LoopOK, Behind, EvidenceIsKept
<1>6. LoopOK'
  BY <1>1, <1>5 DEF IInv, LoopOK, Behind, Passes
<1>7. \A p \in Process : stage[p] # "none" => p[1] \in orphaned
  BY <1>1 DEF IInv, RunsOK, Awaited
<1>8. /\ \A p \in Process : p # new => stage'[p] = stage[p]
      /\ new = <<order, attempts'[order]>> /\ new[1] = order
  BY <1>1, <1>2 DEF IInv, TypeOK
<1>9. RunsOK'
  BY <1>1, <1>5, <1>7, <1>8 DEF RunsOK, Awaited
<1>10. ScheduleIsFollowed'
  <2>1. ASSUME NEW i \in Item, attempts'[i] > 0, NEW j \in Item, j \notin orphaned, j < i
        PROVE  Passes(j) /\ j # order
    <3>1. CASE i = order
      BY <1>1, <2>1, <3>1 DEF IInv, LoopOK, Behind, Item
    <3>2. CASE i # order
      <4>1. Passes(j)
        BY <1>2, <2>1, <3>2 DEF IInv, ScheduleIsFollowed
      <4>. QED  BY <1>1, <4>1 DEF Passes
    <3>. QED  BY <3>1, <3>2
  <2>2. \A j \in Item \ orphaned : j # order => Working(j)' = {}
    BY <1>7, <1>8 DEF Working
  <2>3. \A i \in Item \ orphaned : \A p, q \in Working(i)' : p = q
    BY <1>7, <1>8 DEF Working
  <2>4. ASSUME NEW i \in Item, attempts'[i] > 0
        PROVE  /\ schedule' = "written"
               /\ \A j \in Item \ orphaned' : j < i => Passes(j)' /\ Working(j)' = {}
               /\ i \notin orphaned' => \A p, q \in Working(i)' : p = q
    BY <1>1, <2>1, <2>2, <2>3, <2>4 DEF Passes
  <2>. QED  BY <2>4, Zenon DEF ScheduleIsFollowed
<1>11. EvidenceIsKept' /\ ReportIsComplete'
  BY <1>1 DEF IInv, EvidenceIsKept, ReportIsComplete, Passes
<1>. QED  BY <1>3, <1>4, <1>6, <1>9, <1>10, <1>11 DEF IInv

\* A step of run.sh writes the summary of its own run only, on which nothing
\* relies unless the run was left alone.
LEMMA RunStepInvariant ==
  ASSUME IInv, NEW p \in Process, NEW from, NEW to \in Stages, from # "none", to # "none",
         NEW files \in SUBSET (SummaryState \ {"absent"}), RunStep(p, from, to, files)
  PROVE  IInv'
<1>1. PICK file \in files :
        /\ summary' = [summary EXCEPT ![p[1]] = file]
        /\ stage[p] = from /\ stage' = [stage EXCEPT ![p] = to]
        /\ UNCHANGED <<phase, order, counted, schedule, manifest, report, validated,
                       attempts, orphaned>>
  BY DEF RunStep, mainVars, fileVars
<1>. DEFINE i0 == p[1]
<1>2. /\ i0 \in Item /\ summary'[i0] = file /\ file \in SummaryState /\ file # "absent"
      /\ \A i \in Item : i # i0 => summary'[i] = summary[i]
      /\ stage'[p] = to /\ \A q \in Process : q # p => stage'[q] = stage[q]
  BY <1>1 DEF IInv, TypeOK, Process
<1>3. \A q \in Process : stage'[q] # "none" <=> stage[q] # "none"
  BY <1>1, <1>2
<1>4. i0 \notin orphaned => Awaited(p) /\ order = i0 /\ ~ validated[i0] /\ report = {}
  <2>1. i0 \notin orphaned => Awaited(p) /\ ~ validated[i0] /\ report = {}
    BY <1>1 DEF IInv, RunsOK
  <2>. QED  BY <2>1 DEF Awaited
<1>5. TypeOK'
  BY <1>1, <1>2 DEF IInv, TypeOK
<1>6. Control'
  BY <1>1 DEF IInv, Control
<1>7. RunsOK'
  BY <1>1, <1>3 DEF IInv, RunsOK, Awaited
<1>8. \A i \in Item : i # i0 => (Behind(i)' <=> Behind(i)) /\ (Passes(i)' <=> Passes(i))
  BY <1>1, <1>2 DEF Behind, Passes
<1>9. i0 \in orphaned => Behind(i0)'
  BY <1>1, <1>2 DEF Behind
<1>10. LoopOK'
  <2>1. i0 \notin orphaned => phase = "running" /\ order = i0 /\ report = {}
    BY <1>4 DEF Awaited
  <2>2. i0 \in Nat /\ ~ (i0 < i0)
    BY <1>2 DEF Item
  <2>. QED  BY <1>1, <1>8, <1>9, <2>1, <2>2 DEF IInv, LoopOK
<1>11. ScheduleIsFollowed'
  <2>1. \A i \in Item : Working(i)' = Working(i)
    BY <1>3 DEF Working
  <2>2. p \in Working(i0)
    BY <1>1 DEF Working
  <2>3. ASSUME NEW i \in Item, attempts[i] > 0, NEW j \in Item \ orphaned, j < i
        PROVE  j # i0 /\ Passes(j) /\ Working(j) = {}
    BY <2>2, <2>3 DEF IInv, ScheduleIsFollowed
  <2>. QED  BY <1>1, <1>8, <2>1, <2>3 DEF IInv, ScheduleIsFollowed
<1>12. EvidenceIsKept'
  BY <1>1, <1>2, <1>4 DEF IInv, EvidenceIsKept
<1>13. ReportIsComplete'
  BY <1>1, <1>4, <1>8 DEF IInv, ReportIsComplete
<1>. QED  BY <1>5, <1>6, <1>7, <1>10, <1>11, <1>12, <1>13 DEF IInv

LEMMA ValidateInvariant ==
  ASSUME IInv, NEW p \in Process, Validate(p)
  PROVE  IInv'
<1>1. /\ stage[p] = "finalized" /\ summary[p[1]] = "final"
      /\ stage' = [stage EXCEPT ![p] = "none"]
      /\ validated' = [validated EXCEPT ![p[1]] = TRUE]
      /\ UNCHANGED <<counted, schedule, manifest, report, summary, attempts, orphaned>>
      /\ IF Awaited(p) THEN phase' = "looping" /\ order' = order + 1
                       ELSE UNCHANGED <<phase, order>>
  BY DEF Validate, fileVars
<1>2. /\ p[1] \in Item /\ stage'[p] = "none"
      /\ \A q \in Process : q # p => stage'[q] = stage[q]
      /\ \A i \in Item : i # p[1] => validated'[i] = validated[i]
  BY <1>1 DEF IInv, TypeOK, Process
<1>3. Awaited(p) => phase = "running" /\ order = p[1]
  BY DEF Awaited
<1>4. TypeOK'
  <2>1. order' \in 1 .. Runs + 1
    BY <1>1, <1>2, <1>3, CampaignConstantsOK DEF IInv, TypeOK, Item
  <2>. QED  BY <1>1, <1>2, <2>1 DEF IInv, TypeOK, Stages
<1>5. Control'
  BY <1>1, <1>3 DEF IInv, Control
<1>6. RunsOK'
  <2>1. ASSUME NEW q \in Process, stage'[q] # "none", q[1] \notin orphaned
        PROVE  Awaited(q)' /\ ~ validated'[q[1]] /\ report' = {}
    <3>1. q # p /\ stage[q] # "none" /\ Awaited(q) /\ ~ validated[q[1]] /\ report = {}
      BY <1>2, <2>1 DEF IInv, RunsOK
    <3>2. ~ Awaited(p)
      BY <3>1 DEF Awaited
    <3>3. q[1] # p[1]
      <4>1. p[1] \notin orphaned => Awaited(p)
        BY <1>1 DEF IInv, RunsOK
      <4>. QED  BY <2>1, <3>2, <4>1
    <3>4. q[1] \in Item
      BY DEF Process
    <3>. QED  BY <1>1, <1>2, <3>1, <3>2, <3>3, <3>4 DEF Awaited
  <2>. QED  BY <1>1, <2>1 DEF RunsOK
<1>7. LoopOK'
  <2>1. \A i \in Item : Behind(i)' <=> Behind(i)
    BY <1>1 DEF Behind, Passes
  <2>2. Behind(p[1])
    BY <1>1 DEF Behind, Passes
  <2>3. \A i \in Item : i < p[1] + 1 => i < p[1] \/ i = p[1]
    BY <1>2 DEF Item
  <2>. QED  BY <1>1, <1>3, <2>1, <2>2, <2>3 DEF IInv, LoopOK
<1>8. ScheduleIsFollowed'
  <2>1. \A i \in Item : Working(i)' \subseteq Working(i)
    BY <1>2 DEF Working
  <2>. QED  BY <1>1, <2>1 DEF IInv, ScheduleIsFollowed, Passes
<1>9. EvidenceIsKept' /\ ReportIsComplete'
  BY <1>1, <1>2 DEF IInv, EvidenceIsKept, ReportIsComplete, Passes
<1>. QED  BY <1>4, <1>5, <1>6, <1>7, <1>8, <1>9 DEF IInv

\* A main or a run that ends leaves the files as they are; a run that goes on
\* without its main is one that was left alone.
LEMMA EndInvariant ==
  ASSUME IInv,
         UNCHANGED <<order, schedule, manifest, report, summary, validated, attempts>>,
         counted' = counted \/ counted' = {}, orphaned \subseteq orphaned',
         phase' = "off" \/ (phase' = phase /\ counted' = counted),
         TypeOK',
         \A p \in Process : stage'[p] = stage[p] \/ stage'[p] = "none",
         \A p \in Process : stage'[p] # "none" /\ Awaited(p) =>
           phase' = phase \/ p[1] \in orphaned',
         phase' = "off" => counted' = {}
  PROVE  IInv'
<1>1. /\ UNCHANGED <<order, schedule, manifest, report, summary, validated, attempts>>
      /\ \A i \in Item : Behind(i) => Behind(i)'
  BY DEF fileVars, Behind, Passes
<1>2. Control'
  BY <1>1 DEF IInv, Control
<1>3. RunsOK'
  <2>1. ASSUME NEW p \in Process, stage'[p] # "none", p[1] \notin orphaned'
        PROVE  Awaited(p)' /\ ~ validated'[p[1]] /\ report' = {}
    <3>1. stage[p] # "none" /\ Awaited(p) /\ ~ validated[p[1]] /\ report = {}
      BY <2>1 DEF IInv, RunsOK
    <3>. QED  BY <1>1, <2>1, <3>1 DEF Awaited
  <2>. QED  BY <2>1 DEF RunsOK
<1>4. LoopOK'
  BY <1>1 DEF IInv, LoopOK
<1>5. ScheduleIsFollowed'
  <2>1. \A i \in Item : Working(i)' \subseteq Working(i)
    BY DEF Working
  <2>. QED  BY <1>1, <2>1 DEF IInv, ScheduleIsFollowed, Passes
<1>6. EvidenceIsKept' /\ ReportIsComplete'
  BY <1>1 DEF IInv, EvidenceIsKept, ReportIsComplete, Passes
<1>. QED  BY <1>2, <1>3, <1>4, <1>5, <1>6 DEF IInv

LEMMA InterruptInvariant ==
  ASSUME IInv, Interrupt \/ KillMain
  PROVE  IInv'
<1>1. CASE Interrupt
  <2>1. TypeOK'
    BY <1>1 DEF Interrupt, IInv, TypeOK, fileVars, Stages
  <2>2. \A p \in Process : stage'[p] = IF Awaited(p) THEN "none" ELSE stage[p]
    BY <1>1 DEF Interrupt
  <2>3. /\ UNCHANGED <<order, schedule, manifest, report, summary, validated, attempts>>
        /\ orphaned \subseteq orphaned' /\ phase' = "off" /\ counted' = {}
    BY <1>1 DEF Interrupt, fileVars
  <2>4. \A p \in Process : stage'[p] = stage[p] \/ stage'[p] = "none"
    BY <2>2
  <2>5. \A p \in Process : stage'[p] # "none" /\ Awaited(p) =>
          phase' = phase \/ p[1] \in orphaned'
    BY <2>2
  <2>. QED  BY <2>1, <2>3, <2>4, <2>5, EndInvariant
<1>2. CASE KillMain
  <2>1. /\ phase = "running" /\ order \in Item /\ counted = {}
        /\ orphaned' = orphaned \cup {order} /\ phase' = "off"
        /\ UNCHANGED <<order, counted, schedule, manifest, report, summary, validated,
                       attempts, stage>>
    BY <1>2 DEF KillMain, IInv, Control, runVars, fileVars
  <2>2. TypeOK'
    BY <2>1 DEF IInv, TypeOK, fileVars
  <2>3. \A p \in Process : Awaited(p) => p[1] \in orphaned'
    BY <2>1 DEF Awaited
  <2>. QED  BY <2>1, <2>2, <2>3, EndInvariant
<1>. QED  BY <1>1, <1>2

LEMMA FailInvariant ==
  ASSUME IInv, NEW p \in Process, Fail(p)
  PROVE  IInv'
<1>1. /\ stage' = [stage EXCEPT ![p] = "none"]
      /\ phase' = IF Awaited(p) THEN "off" ELSE phase
      /\ UNCHANGED <<order, counted, schedule, manifest, report, summary, validated,
                     attempts, orphaned>>
  BY DEF Fail, fileVars
<1>2. \A q \in Process : stage'[q] = IF q = p THEN "none" ELSE stage[q]
  BY <1>1 DEF IInv, TypeOK
<1>3. TypeOK'
  BY <1>1 DEF IInv, TypeOK, fileVars, Stages
<1>4. phase' = "off" => counted' = {}
  BY <1>1 DEF IInv, Control, Awaited
<1>5. \A q \in Process : Awaited(q) /\ Awaited(p) => q = p
  BY DEF Awaited
<1>6. \A q \in Process : stage'[q] # "none" /\ Awaited(q) => phase' = phase
  BY <1>1, <1>2, <1>5
<1>7. phase' = "off" \/ (phase' = phase /\ counted' = counted)
  BY <1>1
<1>. QED  BY <1>1, <1>2, <1>3, <1>4, <1>6, <1>7, EndInvariant

LEMMA ProcessInvariant ==
  ASSUME IInv, NEW p \in Process, ProcessStep(p) \/ RunFails(p)
  PROVE  IInv'
<1>. USE DEF Stages, SummaryState
<1>1. \A file \in {"bare", "final"} : Written(p, file) \in SUBSET (SummaryState \ {"absent"})
  BY DEF Written
<1>2. CASE OpenSummary(p)
  BY <1>2, RunStepInvariant DEF OpenSummary
<1>3. CASE WriteSummary(p)
  BY <1>1, <1>3, RunStepInvariant DEF WriteSummary
<1>4. CASE LoadSummary(p)
  <2>1. {summary[p[1]]} \in SUBSET (SummaryState \ {"absent"})
    BY <1>4 DEF LoadSummary, Passes
  <2>. QED  BY <1>4, <2>1, RunStepInvariant DEF LoadSummary
<1>5. CASE OpenFinal(p)
  BY <1>5, RunStepInvariant DEF OpenFinal
<1>6. CASE WriteFinal(p)
  BY <1>1, <1>6, RunStepInvariant DEF WriteFinal
<1>7. CASE Validate(p)
  BY <1>7, ValidateInvariant
<1>8. CASE RunRaises(p) \/ RunFails(p)
  BY <1>8, FailInvariant DEF RunRaises, RunFails
<1>. QED  BY <1>2, <1>3, <1>4, <1>5, <1>6, <1>7, <1>8 DEF ProcessStep

LEMMA NextInvariant == IInv /\ [Next]_vars => IInv'
<1>. SUFFICES ASSUME IInv, [Next]_vars PROVE IInv'
  OBVIOUS
<1>1. CASE MainStep
  BY <1>1, MainStepInvariant, StartRunInvariant, WriteReportInvariant DEF MainStep
<1>2. CASE \E p \in Process : ProcessStep(p) \/ RunFails(p)
  BY <1>2, ProcessInvariant
<1>3. CASE Interrupt \/ KillMain
  BY <1>3, InterruptInvariant
<1>4. CASE UNCHANGED vars
  <2>1. TypeOK'
    BY <1>4 DEF vars, mainVars, fileVars, runVars, IInv, TypeOK
  <2>2. phase' = "off" => counted' = {}
    BY <1>4 DEF vars, mainVars, IInv, Control
  <2>. QED  BY <1>4, <2>1, <2>2, EndInvariant DEF vars, mainVars, runVars, fileVars
<1>. QED  BY <1>1, <1>2, <1>3, <1>4 DEF Next, Progress

(***************************************************************************)
(* However a campaign and its runs are cut and resumed, and whichever      *)
(* run.sh are left alone, main, its run.sh and the files stand to each     *)
(* other as IInv says.                                                     *)
(* (campaign.main, run.sh)                                                 *)
(***************************************************************************)
THEOREM CampaignInvariant == Spec => []IInv
BY InitInvariant, NextInvariant, PTL DEF Spec

(***************************************************************************)
(* Type correctness: among the rest, main never leaves the schedule and    *)
(* run.sh is never started more than MaxAttempts times for one run.        *)
(***************************************************************************)
THEOREM CampaignTypes == Spec => []TypeOK
<1>1. IInv => TypeOK
  BY DEF IInv
<1>. QED  BY <1>1, CampaignInvariant, PTL

(***************************************************************************)
(* A run is executed only when all before it have passed and nobody works  *)
(* on them, by one run.sh: but for runs whose run.sh was left alone.       *)
(* (campaign.main's loop)                                                  *)
(***************************************************************************)
THEOREM OrderIsKept == Spec => []ScheduleIsFollowed
<1>1. IInv => ScheduleIsFollowed
  BY DEF IInv
<1>. QED  BY <1>1, CampaignInvariant, PTL

(***************************************************************************)
(* What finalize wrote of a run that was validated stays, unless a run.sh  *)
(* of it was left alone.                                                   *)
(* (campaign.main skips it)                                                *)
(***************************************************************************)
THEOREM EvidenceStays == Spec => []EvidenceIsKept
<1>1. IInv => EvidenceIsKept
  BY DEF IInv
<1>. QED  BY <1>1, CampaignInvariant, PTL

(***************************************************************************)
(* A report covers the whole schedule, whatever run.sh that were left      *)
(* alone do to the summaries while it is made.                             *)
(* (campaign.aggregate)                                                    *)
(***************************************************************************)
THEOREM ReportCoversSchedule == Spec => []ReportIsComplete
<1>1. IInv => ReportIsComplete
  BY DEF IInv
<1>. QED  BY <1>1, CampaignInvariant, PTL
=============================================================================

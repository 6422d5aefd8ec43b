--------------------------- MODULE BenchmarkProofs ---------------------------
(***************************************************************************)
(* For every plan, timeout, grace period, judge and number of faults, and  *)
(* whatever the target does: results are founded on runs of their own      *)
(* trial and start, no runner error becomes a pass, a report and the       *)
(* artifacts it names are final, a rescore uses its own claims, and the    *)
(* bounds of the evidence-supported pass rate cover every pass.            *)
(***************************************************************************)
EXTENDS BenchmarkRunner, SequenceTheorems, TLAPS

-----------------------------------------------------------------------------
(***************************************************************************)
(* The inductive invariant.                                                *)
(***************************************************************************)

HasClaims == {"write_snapshot", "write_claims"}
HasSnapshot == HasClaims \cup {"claims"}
HasEnded == HasSnapshot \cup {"export"}
HasRun == HasEnded \cup {"poll", "cancel", "grace", "capture"}
UnderWay == HasRun \cup {"session", "message"}

\* What the process knows, step by step: it is about the trial under way and
\* the run it started for it.
Memory ==
  /\ At("off") => job = Off
  /\ job.pc \in UnderWay => Trial \in Trials
  /\ job.pc \notin HasRun => job.run = 0
  /\ job.pc \in HasRun =>
       /\ job.run \in DOMAIN runs
       /\ runs[job.run].trial = Trial
       /\ runs[job.run].start = starts
  /\ job.pc \in HasEnded => Ended(job.run)
  /\ job.pc \in HasSnapshot => job.snapshot = SnapshotOf(job.run)
  /\ job.pc \in HasClaims => job.claims \in Claims /\ job.claims.run = job.run
  /\ At("write_claims") => artifacts[Trial].snapshot = job.snapshot
  /\ At("capture") => job.error \in {"timeout", "other"}

RunnerErrors == {"timeout", "other"}

\* A start has at most one run per trial, in trial order; a finished trial
\* whose run is not the one it reports was charged to the runner.
RunsInOrder ==
  /\ \A r \in DOMAIN runs : runs[r].start <= starts
  /\ ~ At("off") =>
       \A r \in DOMAIN runs : runs[r].start = starts =>
         /\ runs[r].trial <= Trial
         /\ runs[r].trial = Trial => job.pc \in HasRun /\ r = job.run
         /\ runs[r].trial < Trial =>
              \/ r = job.results[runs[r].trial].run
              \/ job.results[runs[r].trial].error \in RunnerErrors

\* No pass of a runner error, and none of a refuted answer.
Supported(result) ==
  result.passed /\ result.expected = "completed"
    => result.quality \in {"verified_pass", "unverified"}

Sound(t, result) ==
  /\ Founded(t, result)
  /\ Supported(result)
  /\ result.passed => result.error = None

ResultsOK ==
  /\ Len(job.results) <= Len(Plan)
  /\ \A t \in DOMAIN job.results : Sound(t, job.results[t])

ReportOK ==
  report # None =>
    /\ job.pc \in {"off", "summary"}
    /\ Len(report) <= Len(Plan)
    /\ \A t \in DOMAIN report : Sound(t, report[t])

RescoredOK ==
  rescored # None =>
    /\ report # None
    /\ \A t \in DOMAIN rescored.trials : Supported(rescored.trials[t])
    /\ RescoreUsesOwnClaims

Invariant ==
  TypeOK /\ Memory /\ RunsInOrder /\ ResultsOK /\ ReportOK /\ RescoredOK

-----------------------------------------------------------------------------
(***************************************************************************)
(* The plan, and what a step may do to the target's runs and to the files. *)
(***************************************************************************)

LEMMA PlanFacts ==
  /\ Trials = 1..Len(Plan)
  /\ Len(Plan) \in Nat \ {0}
  /\ \A t \in Trials : Expected(t) \in ExpectedStatus /\ Plan[t].contract \in BOOLEAN
<1> DEFINE Task == [expected : ExpectedStatus, contract : BOOLEAN]
<1>1. Plan \in Seq(Task) /\ Plan # << >>
  BY PlanAssumption
<1>2. /\ Trials = 1..Len(Plan)
      /\ Len(Plan) \in Nat \ {0}
  BY <1>1, LenProperties, EmptySeq DEF Trials
<1>3. ASSUME NEW t \in Trials PROVE Plan[t] \in Task
  BY <1>1, <1>2, ElementOfSeq
<1> QED
  BY <1>2, <1>3 DEF Expected

\* The target keeps its runs; one that has ended stays as it is.
RunsKept ==
  /\ DOMAIN runs \subseteq DOMAIN runs'
  /\ \A r \in DOMAIN runs :
       /\ runs'[r].trial = runs[r].trial
       /\ runs'[r].start = runs[r].start
       /\ Ended(r) => runs'[r] = runs[r]

\* While a trial is under way, only that trial gets a run and new files.
RunsOfTrial ==
  /\ runs' \in Seq(Run)
  /\ RunsKept
  /\ \A r \in DOMAIN runs' \ DOMAIN runs : runs'[r].trial = Trial /\ runs'[r].start = starts

FilesOfTrial ==
  /\ artifacts' \in [Trials -> Files]
  /\ \A t \in Trials \ {Trial} : artifacts'[t] = artifacts[t]

NoReportYet ==
  /\ UNCHANGED <<report, rescored, starts>>
  /\ faults' \in 0..MaxFaults

LEMMA SeqElement ==
  ASSUME NEW S, NEW seq \in Seq(S), NEW n \in DOMAIN seq
  PROVE  seq[n] \in S
BY LenProperties, ElementOfSeq

LEMMA SameRuns ==
  ASSUME TypeOK, UNCHANGED runs
  PROVE  RunsOfTrial
BY DEF TypeOK, RunsOfTrial, RunsKept

LEMMA SameFiles ==
  ASSUME TypeOK, UNCHANGED artifacts
  PROVE  FilesOfTrial
BY DEF TypeOK, FilesOfTrial

LEMMA AcceptedRuns ==
  ASSUME Invariant, Trial \in Trials, Accepted(Trial)
  PROVE  /\ RunsOfTrial
         /\ DOMAIN runs' = DOMAIN runs \cup {Len(runs) + 1}
         /\ Len(runs) + 1 \notin DOMAIN runs
<1> DEFINE run == [trial |-> Trial, start |-> starts, status |-> "executing", clean |-> FALSE]
<1>1. run \in Run /\ runs \in Seq(Run)
  BY DEF Invariant, TypeOK, Run
<1>2. runs' = Append(runs, run)
  BY DEF Accepted
<1> HIDE DEF run
<1>3. /\ runs' \in Seq(Run)
      /\ Len(runs') = Len(runs) + 1
      /\ \A r \in 1..Len(runs) : runs'[r] = runs[r]
      /\ runs'[Len(runs) + 1] = run
  BY <1>1, <1>2, AppendProperties
<1>4. /\ DOMAIN runs = 1..Len(runs) /\ Len(runs) \in Nat
      /\ DOMAIN runs' = 1..(Len(runs) + 1)
  BY <1>1, <1>3, LenProperties
<1>5. /\ DOMAIN runs' = DOMAIN runs \cup {Len(runs) + 1}
      /\ Len(runs) + 1 \notin DOMAIN runs
  BY <1>4
<1>6. run.trial = Trial /\ run.start = starts
  BY DEF run
<1> QED
  BY <1>3, <1>4, <1>5, <1>6 DEF RunsOfTrial, RunsKept

LEMMA FoundedStays ==
  ASSUME NEW t, NEW result, Founded(t, result), RunsKept,
         starts' = starts, artifacts'[t] = artifacts[t]
  PROVE  Founded(t, result)'
BY DEF Founded, RunsKept, Ended, SnapshotOf

LEMMA SoundStays ==
  ASSUME NEW t, NEW result, Sound(t, result), RunsKept,
         starts' = starts, artifacts'[t] = artifacts[t]
  PROVE  Sound(t, result)'
BY FoundedStays DEF Sound, Supported

-----------------------------------------------------------------------------
(***************************************************************************)
(* The three ways a step moves the process: on with the run it has, to the *)
(* next trial with a result, or to the except clause.                      *)
(***************************************************************************)

LEMMA ResultsFacts ==
  ASSUME Invariant
  PROVE  /\ job.results \in Seq(Result)
         /\ DOMAIN job.results = 1..Len(job.results)
         /\ Len(job.results) \in Nat
         /\ Trial \in Nat
         /\ DOMAIN job.results \subseteq Trials
         /\ Trial \notin DOMAIN job.results
<1>1. job.results \in Seq(Result) /\ Len(job.results) <= Len(Plan)
  BY DEF Invariant, TypeOK, Job, ResultsOK
<1> QED
  BY <1>1, LenProperties, PlanFacts DEF Trial

LEMMA UnderWayFacts ==
  ASSUME Invariant, job.pc \in UnderWay
  PROVE  report = None /\ rescored = None /\ Trial \in Trials /\ ~ At("off")
BY DEF Invariant, ReportOK, RescoredOK, Memory, UnderWay, HasRun, HasEnded, HasSnapshot,
     HasClaims, At

LEMMA ResultsStay ==
  ASSUME Invariant, job.pc \in UnderWay, RunsOfTrial, FilesOfTrial, starts' = starts,
         NEW t \in DOMAIN job.results, NEW result, result = job.results[t]
  PROVE  Sound(t, result)'
<1>1. Sound(t, result) /\ t \in Trials \ {Trial}
  BY ResultsFacts DEF Invariant, ResultsOK
<1>2. artifacts'[t] = artifacts[t] /\ RunsKept
  BY <1>1 DEF FilesOfTrial, RunsOfTrial
<1> QED
  BY <1>1, <1>2, SoundStays

\* Going on with the run it has.
LEMMA SameRun ==
  ASSUME Invariant, job.pc \in HasRun, UNCHANGED runs, FilesOfTrial, NoReportYet,
         job' \in Job, job'.pc \in HasRun, job'.run = job.run, job'.results = job.results,
         job'.pc \in HasEnded => Ended(job.run),
         job'.pc \in HasSnapshot => job'.snapshot = SnapshotOf(job.run),
         job'.pc \in HasClaims => job'.claims \in Claims /\ job'.claims.run = job.run,
         At("write_claims")' => artifacts'[Trial].snapshot = job'.snapshot,
         At("capture")' => job'.error \in RunnerErrors
  PROVE  Invariant'
<1>1. /\ job.pc \in UnderWay /\ Trial' = Trial
      /\ report = None /\ rescored = None /\ Trial \in Trials
  BY UnderWayFacts DEF UnderWay, Trial
<1>2. RunsOfTrial
  BY SameRuns DEF Invariant
<1>3. TypeOK'
  BY DEF Invariant, TypeOK, FilesOfTrial, NoReportYet
<1>4. Memory'
  <2>1. /\ job.run \in DOMAIN runs
        /\ runs[job.run].trial = Trial
        /\ runs[job.run].start = starts
    BY DEF Invariant, Memory
  <2> QED
    BY <1>1, <2>1 DEF Memory, At, NoReportYet, Ended, SnapshotOf, RunnerErrors,
         HasRun, HasEnded, HasSnapshot, HasClaims
<1>5. RunsInOrder'
  <2>1. RunsInOrder /\ ~ At("off")
    BY <1>1, UnderWayFacts DEF Invariant
  <2> QED
    BY <1>1, <2>1 DEF RunsInOrder, NoReportYet
<1>6. ResultsOK'
  <2>1. ASSUME NEW t \in DOMAIN job.results, NEW result, result = job.results[t]
        PROVE  Sound(t, result)'
    BY <1>1, <1>2, <2>1, ResultsStay DEF NoReportYet
  <2> QED
    BY <2>1 DEF Invariant, ResultsOK
<1>7. ReportOK' /\ RescoredOK'
  BY <1>1 DEF NoReportYet, ReportOK, RescoredOK
<1> QED
  BY <1>3, <1>4, <1>5, <1>6, <1>7 DEF Invariant

\* Ending the trial with a result.
LEMMA FinishStep ==
  ASSUME Invariant, job.pc \in UnderWay, RunsOfTrial, FilesOfTrial, NoReportYet,
         NEW result \in Result, Finish(result), NEW now, now = Trial, Sound(now, result)',
         \/ result.error \in RunnerErrors
         \/ job.pc \in HasRun /\ DOMAIN runs' = DOMAIN runs /\ result.run = job.run
  PROVE  Invariant'
<1>1. /\ report = None /\ rescored = None
      /\ Trial \in Trials /\ ~ At("off")
  BY UnderWayFacts
<1>2. /\ job.results \in Seq(Result)
      /\ DOMAIN job.results = 1..Len(job.results)
      /\ Len(job.results) \in Nat
      /\ Trial = Len(job.results) + 1
  BY ResultsFacts DEF Trial
<1>3. /\ job'.results = Append(job.results, result)
      /\ job'.pc = IF Trial = Len(Plan) THEN "report" ELSE "session"
      /\ job'.run = 0
      /\ job' \in Job
  <2>1. Append(job.results, result) \in Seq(Result)
    BY <1>2, AppendProperties
  <2>2. Off \in Job
    BY EmptySeq DEF Off, Job, PCs
  <2> QED
    BY <2>1, <2>2 DEF Finish, Off, Job, PCs
<1>4. /\ Len(job'.results) = Len(job.results) + 1
      /\ DOMAIN job'.results = 1..Trial
      /\ job'.results[Trial] = result
      /\ \A t \in DOMAIN job.results : job'.results[t] = job.results[t]
      /\ Trial' = Trial + 1
  <2>1. /\ Append(job.results, result) \in Seq(Result)
        /\ Len(Append(job.results, result)) = Len(job.results) + 1
        /\ \A t \in 1..Len(job.results) : Append(job.results, result)[t] = job.results[t]
        /\ Append(job.results, result)[Len(job.results) + 1] = result
    BY <1>2, AppendProperties
  <2>2. DOMAIN Append(job.results, result) = 1..(Len(job.results) + 1)
    BY <2>1, LenProperties
  <2> QED
    BY <1>2, <1>3, <2>1, <2>2 DEF Trial
<1>5. TypeOK'
  BY <1>3 DEF Invariant, TypeOK, RunsOfTrial, FilesOfTrial, NoReportYet
<1>6. Memory'
  <2>1. job'.pc \notin HasRun /\ ~ At("off")' /\ ~ At("capture")' /\ ~ At("write_claims")'
    BY <1>3 DEF HasRun, HasEnded, HasSnapshot, HasClaims, At
  <2>2. job'.pc \in UnderWay => Trial' \in Trials
    BY <1>1, <1>2, <1>3, <1>4, PlanFacts DEF UnderWay, HasRun, HasEnded, HasSnapshot, HasClaims
  <2> QED
    BY <1>3, <2>1, <2>2 DEF Memory, HasRun, HasEnded, HasSnapshot
<1>7. RunsInOrder'
  <2>1. RunsInOrder
    BY DEF Invariant
  <2>2. runs \in Seq(Run) /\ runs' \in Seq(Run) /\ starts \in Nat
    BY DEF Invariant, TypeOK, RunsOfTrial
  <2>3. ASSUME NEW r \in DOMAIN runs'
        PROVE  /\ runs'[r].start <= starts
               /\ runs'[r].start = starts =>
                    /\ runs'[r].trial \in Nat /\ runs'[r].trial <= Trial
                    /\ runs'[r].trial = Trial => r = result.run \/ result.error \in RunnerErrors
                    /\ runs'[r].trial < Trial =>
                         \/ r = job.results[runs'[r].trial].run
                         \/ job.results[runs'[r].trial].error \in RunnerErrors
    <3>1. CASE r \in DOMAIN runs
      <4>1. runs'[r].trial = runs[r].trial /\ runs'[r].start = runs[r].start
        BY <3>1 DEF RunsOfTrial, RunsKept
      <4>2. runs[r] \in Run
        BY <2>2, <3>1, SeqElement
      <4>3. runs[r].trial \in Trials
        BY <4>2 DEF Run
      <4> QED
        BY <1>1, <2>1, <3>1, <4>1, <4>3, PlanFacts DEF RunsInOrder
    <3>2. CASE r \notin DOMAIN runs
      <4>1. runs'[r].trial = Trial /\ runs'[r].start = starts
        BY <2>3, <3>2 DEF RunsOfTrial
      <4> QED
        BY <1>1, <1>2, <2>2, <2>3, <3>2, <4>1
    <3> QED
      BY <3>1, <3>2
  <2>4. ASSUME NEW r \in DOMAIN runs', runs'[r].start = starts
        PROVE  /\ runs'[r].trial <= Trial' /\ runs'[r].trial # Trial'
               /\ \/ r = job'.results[runs'[r].trial].run
                  \/ job'.results[runs'[r].trial].error \in RunnerErrors
    <3>1. runs'[r].trial \in Trials
      <4>1. runs'[r] \in Run
        BY <2>2, SeqElement
      <4> QED
        BY <4>1 DEF Run
    <3>2. CASE runs'[r].trial = Trial
      BY <1>2, <1>4, <2>3, <2>4, <3>2
    <3>3. CASE runs'[r].trial < Trial
      <4>1. runs'[r].trial \in DOMAIN job.results
        BY <1>2, <3>1, <3>3, PlanFacts
      <4> QED
        BY <1>2, <1>4, <2>3, <2>4, <3>3, <4>1
    <3> QED
      BY <1>2, <2>3, <2>4, <3>2, <3>3
  <2> QED
    BY <2>3, <2>4 DEF RunsInOrder, NoReportYet
<1>8. ResultsOK'
  <2>1. ASSUME NEW t \in DOMAIN job.results, NEW old, old = job.results[t]
        PROVE  Sound(t, old)'
    BY <2>1, ResultsStay DEF NoReportYet
  <2>2. ASSUME NEW t \in DOMAIN job'.results, NEW new, new = job'.results[t]
        PROVE  Sound(t, new)'
    <3>1. CASE t = Trial
      BY <1>4, <2>2, <3>1
    <3>2. CASE t # Trial
      BY <1>2, <1>4, <2>1, <2>2, <3>2
    <3> QED
      BY <3>1, <3>2
  <2>3. Len(job'.results) <= Len(Plan)
    BY <1>1, <1>2, <1>4, PlanFacts
  <2> QED
    BY <2>2, <2>3 DEF ResultsOK
<1>9. ReportOK' /\ RescoredOK'
  BY <1>1 DEF NoReportYet, ReportOK, RescoredOK
<1> QED
  BY <1>5, <1>6, <1>7, <1>8, <1>9 DEF Invariant

\* A result without evidence of its own claims nothing.
LEMMA ErrorResultIsSound ==
  ASSUME Invariant, job.pc \in UnderWay, NEW error \in RunnerErrors, NEW now, now = Trial,
         NEW result, result = ErrorResult(error)
  PROVE  /\ result \in Result /\ result.error = error
         /\ Sound(now, result)'
<1>1. Expected(Trial) \in ExpectedStatus /\ job.run \in Nat
  BY UnderWayFacts, PlanFacts DEF Invariant, TypeOK, Job
<1>2. /\ result.error = error
      /\ result.passed = FALSE /\ result.kept = FALSE
  BY DEF ErrorResult
<1>3. result \in Result
  BY <1>1 DEF ErrorResult, Result, RunnerErrors, Errors, Gate, QualityStatus
<1>4. error \notin {None, "target"}
  BY NoneAssumption DEF RunnerErrors, Errors
<1> QED
  BY <1>2, <1>3, <1>4 DEF Sound, Founded, Supported

\* The except clause.
LEMMA FailStep ==
  ASSUME Invariant, job.pc \in UnderWay, FilesOfTrial, NoReportYet,
         \/ UNCHANGED runs
         \/ job.pc \notin HasRun /\ RunsOfTrial,
         NEW error \in RunnerErrors, Fail(error)
  PROVE  Invariant'
<1>1. job.pc \in HasRun => job.run # 0
  <2>1. runs \in Seq(Run)
    BY DEF Invariant, TypeOK
  <2> QED
    BY <2>1, LenProperties DEF Invariant, Memory
<1>2. job.pc \notin HasRun => job.run = 0
  BY DEF Invariant, Memory
<1>3. RunsOfTrial
  BY SameRuns DEF Invariant
<1>4. CASE job.pc \notin HasRun
  <2>1. Finish(ErrorResult(error))
    BY <1>2, <1>4 DEF Fail
  <2>2. ASSUME NEW now, now = Trial, NEW result, result = ErrorResult(error)
        PROVE  Invariant'
    <3>1. result \in Result /\ result.error = error /\ Sound(now, result)'
      BY <2>2, ErrorResultIsSound
    <3>2. Finish(result)
      BY <2>1, <2>2
    <3> QED
      BY <1>3, <2>2, <3>1, <3>2, FinishStep
  <2> QED
    BY <2>2
<1>5. CASE job.pc \in HasRun
  <2>1. /\ job' \in Job
        /\ job'.pc = "capture" /\ job'.error = error
        /\ job'.run = job.run /\ job'.results = job.results
    <3>1. job' = [job EXCEPT !.pc = "capture", !.error = error, !.waited = 0,
                             !.snapshot = None, !.claims = None]
      BY <1>1, <1>5 DEF Fail
    <3>2. "capture" \in PCs /\ error \in Errors
      BY DEF PCs, RunnerErrors, Errors
    <3>3. job \in Job
      BY DEF Invariant, TypeOK
    <3> QED
      BY <3>1, <3>2, <3>3 DEF Job
  <2> QED
    BY <1>5, <2>1, SameRun DEF HasRun, HasEnded, HasSnapshot, HasClaims, At
<1> QED
  BY <1>4, <1>5

-----------------------------------------------------------------------------
(***************************************************************************)
(* The target.                                                             *)
(***************************************************************************)

LEMMA RunEndsStep ==
  ASSUME Invariant, NEW r \in DOMAIN runs, RunEnds(r)
  PROVE  Invariant'
<1>1. PICK s \in EndStatuses \cup {Expected(runs[r].trial)}, clean \in BOOLEAN :
        runs' = [runs EXCEPT ![r].status = s, ![r].clean = clean]
  BY DEF RunEnds
<1>2. /\ UNCHANGED <<job, artifacts, report, rescored, starts, faults>>
      /\ runs[r].status = "executing"
  BY DEF RunEnds, NoFile, Smooth
<1>3. runs \in Seq(Run) /\ runs[r] \in Run
  BY SeqElement DEF Invariant, TypeOK
<1>4. s \in TerminalStatuses
  <2>1. runs[r].trial \in Trials
    BY <1>3 DEF Run
  <2> QED
    BY <2>1, PlanFacts, StatusAssumption DEF ExpectedStatus, TerminalStatuses
<1> DEFINE ended == [runs[r] EXCEPT !.status = s, !.clean = clean]
<1>5. /\ runs' = [runs EXCEPT ![r] = ended]
      /\ ended \in Run
      /\ ended.trial = runs[r].trial /\ ended.start = runs[r].start
  BY <1>1, <1>3, <1>4 DEF Run
<1> HIDE DEF ended
<1>6. runs' \in Seq(Run) /\ DOMAIN runs' = DOMAIN runs
  <2>1. r \in 1..Len(runs)
    BY <1>3, LenProperties
  <2> QED
    BY <1>3, <1>5, <2>1, ExceptSeq
<1>7. RunsKept
  <2>1. ~ Ended(r)
    BY <1>2 DEF Ended, TerminalStatuses
  <2> QED
    BY <1>5, <1>6, <2>1 DEF RunsKept
<1>8. TypeOK'
  BY <1>2, <1>6 DEF Invariant, TypeOK
<1>9. Memory'
  <2>1. Memory
    BY DEF Invariant
  <2>2. job.pc \in HasSnapshot => job.pc \in HasEnded
    BY DEF HasSnapshot, HasEnded
  <2>3. job.pc \in HasEnded => job.pc \in HasRun
    BY DEF HasEnded, HasRun
  <2>4. job.pc \in HasRun =>
          /\ job.run \in DOMAIN runs'
          /\ runs'[job.run].trial = runs[job.run].trial
          /\ runs'[job.run].start = runs[job.run].start
    BY <1>7, <2>1 DEF RunsKept, Memory
  <2>5. job.pc \in HasEnded => runs'[job.run] = runs[job.run]
    BY <1>7, <2>1, <2>3 DEF RunsKept, Memory
  <2> QED
    BY <1>2, <2>1, <2>2, <2>4, <2>5 DEF Memory, At, Trial, Ended, SnapshotOf
<1>10. RunsInOrder'
  BY <1>2, <1>6, <1>7 DEF Invariant, RunsInOrder, RunsKept, At, Trial
<1>11. ResultsOK'
  <2>1. ASSUME NEW t \in DOMAIN job.results, NEW old, old = job.results[t]
        PROVE  Sound(t, old)'
    BY <1>2, <1>7, <2>1, SoundStays DEF Invariant, ResultsOK
  <2> QED
    BY <1>2, <2>1 DEF Invariant, ResultsOK
<1>12. ReportOK'
  <2>1. ASSUME report # None, NEW t \in DOMAIN report, NEW old, old = report[t]
        PROVE  Sound(t, old)'
    BY <1>2, <1>7, <2>1, SoundStays DEF Invariant, ReportOK
  <2> QED
    BY <1>2, <2>1 DEF Invariant, ReportOK
<1>13. RescoredOK'
  BY <1>2 DEF Invariant, RescoredOK, Supported, RescoreUsesOwnClaims, UsesSnapshot
<1> QED
  BY <1>8, <1>9, <1>10, <1>11, <1>12, <1>13 DEF Invariant

-----------------------------------------------------------------------------
(***************************************************************************)
(* The actions of the process.                                             *)
(***************************************************************************)

\* Between trials the process holds no file and no run.
LEMMA JobFacts ==
  ASSUME Invariant
  PROVE  job \in Job /\ job.pc \in PCs /\ job.results \in Seq(Result) /\ runs \in Seq(Run)
BY DEF Invariant, TypeOK, Job

LEMMA FaultIsCounted ==
  ASSUME Invariant, NoFile \/ UNCHANGED <<report, rescored, starts>>, Smooth \/ Fault
  PROVE  NoReportYet
<1>1. faults \in 0..MaxFaults /\ MaxFaults \in Nat
  BY BoundAssumption DEF Invariant, TypeOK
<1> QED
  BY <1>1 DEF NoFile, Smooth, Fault, NoReportYet

LEMMA LocalStep ==
  ASSUME Invariant, Local, Smooth \/ Fault
  PROVE  UNCHANGED runs /\ FilesOfTrial /\ NoReportYet
BY SameFiles, FaultIsCounted DEF Invariant, Local, NoFile

LEMMA StartStep ==
  ASSUME Invariant, Start
  PROVE  Invariant'
<1>1. /\ job = Off /\ report = None /\ rescored = None
      /\ starts' = starts + 1 /\ starts \in Nat
      /\ job' = [Off EXCEPT !.pc = "session"]
      /\ UNCHANGED <<runs, artifacts, report, rescored, faults>>
  BY DEF Start, Goto, At, Invariant, TypeOK, Memory, RescoredOK
<1>2. job' \in Job
  BY <1>1, JobFacts DEF Job, PCs
<1>3. TypeOK'
  BY <1>1, <1>2 DEF Invariant, TypeOK
<1>4. /\ job'.pc = "session" /\ job'.run = 0 /\ job'.results = << >>
      /\ Trial' = 1
  BY <1>1, EmptySeq DEF Off, Trial
<1>5. Memory'
  BY <1>4, PlanFacts DEF Memory, At, HasRun, HasEnded, HasSnapshot, HasClaims
<1>6. RunsInOrder'
  <2>1. ASSUME NEW r \in DOMAIN runs PROVE runs[r].start \in Nat /\ runs[r].start <= starts
    <3>1. runs[r] \in Run
      BY JobFacts, SeqElement
    <3> QED
      BY <3>1 DEF Run, Invariant, RunsInOrder
  <2> QED
    BY <1>1, <2>1 DEF RunsInOrder
<1>7. ResultsOK'
  <2>1. Len(job'.results) = 0 /\ DOMAIN job'.results = {}
    BY <1>4, EmptySeq
  <2> QED
    BY <2>1, PlanFacts DEF ResultsOK
<1>8. ReportOK' /\ RescoredOK'
  BY <1>1 DEF ReportOK, RescoredOK
<1> QED
  BY <1>3, <1>5, <1>6, <1>7, <1>8 DEF Invariant

LEMMA PostSessionStep ==
  ASSUME Invariant, PostSession \/ PostSessionFails
  PROVE  Invariant'
<1>1. At("session") /\ job.pc \in UnderWay /\ job.pc \notin HasRun
  BY DEF PostSession, PostSessionFails, At, UnderWay, HasRun, HasEnded, HasSnapshot, HasClaims
<1>2. UNCHANGED runs /\ FilesOfTrial /\ NoReportYet
  BY LocalStep DEF PostSession, PostSessionFails
<1>3. CASE PostSessionFails
  <2>1. Fail("other") /\ "other" \in RunnerErrors
    BY <1>3 DEF PostSessionFails, RunnerErrors
  <2> QED
    BY <1>1, <1>2, <2>1, FailStep
<1>4. CASE PostSession
  <2>1. /\ job' = [job EXCEPT !.pc = "message"] /\ job \in Job
        /\ UNCHANGED <<artifacts, report, rescored, starts>>
    BY <1>4, JobFacts DEF PostSession, Goto, Local, NoFile
  <2>2. /\ job' \in Job /\ job'.pc = "message"
        /\ job'.run = job.run /\ job'.results = job.results
    BY <2>1 DEF Job, PCs
  <2>3. report = None /\ rescored = None
    BY <1>1, UnderWayFacts
  <2>4. TypeOK'
    BY <1>2, <2>1, <2>2 DEF Invariant, TypeOK, NoReportYet
  <2>5. Memory'
    BY <1>1, <2>2 DEF Invariant, Memory, At, Trial, UnderWay, HasRun, HasEnded, HasSnapshot,
         HasClaims
  <2>6. RunsInOrder'
    BY <1>1, <1>2, <2>1, <2>2 DEF Invariant, RunsInOrder, At, Trial, HasRun, HasEnded,
         HasSnapshot, HasClaims
  <2>7. ResultsOK'
    <3>1. ASSUME NEW t \in DOMAIN job.results, NEW old, old = job.results[t]
          PROVE  Sound(t, old)'
      BY <1>1, <1>2, <2>1, <3>1, SameRuns, ResultsStay DEF Invariant
    <3> QED
      BY <2>2, <3>1 DEF Invariant, ResultsOK
  <2> QED
    BY <2>1, <2>3, <2>4, <2>5, <2>6, <2>7 DEF Invariant, ReportOK, RescoredOK
<1> QED
  BY <1>3, <1>4

LEMMA PostMessageStep ==
  ASSUME Invariant, PostMessage \/ PostMessageFails
  PROVE  Invariant'
<1>1. At("message") /\ job.pc \in UnderWay /\ job.pc \notin HasRun
  BY DEF PostMessage, PostMessageFails, At, UnderWay, HasRun, HasEnded, HasSnapshot, HasClaims
<1>2. Trial \in Trials /\ report = None /\ rescored = None
  BY <1>1, UnderWayFacts
<1>3. RunsOfTrial /\ FilesOfTrial /\ NoReportYet
  <2>1. NoFile /\ (Smooth \/ Fault) /\ (Accepted(Trial) \/ UNCHANGED runs)
    BY DEF PostMessage, PostMessageFails
  <2> QED
    BY <1>2, <2>1, AcceptedRuns, SameRuns, SameFiles, FaultIsCounted DEF Invariant, NoFile
<1>4. CASE PostMessageFails
  <2>1. Fail("other") /\ "other" \in RunnerErrors
    BY <1>4 DEF PostMessageFails, RunnerErrors
  <2> QED
    BY <1>1, <1>3, <2>1, FailStep
<1>5. CASE PostMessage
  <2> DEFINE new == Len(runs) + 1
  <2>1. /\ DOMAIN runs' = DOMAIN runs \cup {new} /\ new \notin DOMAIN runs
        /\ runs'[new].trial = Trial /\ runs'[new].start = starts
        /\ new \in Nat
    <3>1. Len(runs) \in Nat
      BY JobFacts, LenProperties
    <3> QED
      BY <1>2, <1>3, <1>5, <3>1, AcceptedRuns DEF PostMessage, RunsOfTrial
  <2>2. /\ job' = [job EXCEPT !.pc = "poll", !.run = new]
        /\ UNCHANGED <<artifacts, report, rescored, starts>>
    BY <1>5 DEF PostMessage, NoFile
  <2>3. /\ job' \in Job /\ job'.pc = "poll" /\ job'.run = new
        /\ job'.results = job.results /\ Trial' = Trial
    <3>1. job \in Job
      BY JobFacts
    <3> HIDE DEF new
    <3> QED
      BY <2>1, <2>2, <3>1 DEF Job, PCs, Trial
  <2> HIDE DEF new
  <2>4. TypeOK'
    BY <1>3, <2>3 DEF Invariant, TypeOK, RunsOfTrial, FilesOfTrial, NoReportYet
  <2>5. Memory'
    BY <1>2, <2>1, <2>2, <2>3 DEF Memory, At, HasRun, HasEnded, HasSnapshot, HasClaims
  <2>6. RunsInOrder'
    <3>1. ASSUME NEW r \in DOMAIN runs
          PROVE  /\ runs[r].start <= starts
                 /\ runs[r].start = starts =>
                      /\ runs[r].trial <= Trial /\ runs[r].trial # Trial
                      /\ runs[r].trial < Trial =>
                           \/ r = job.results[runs[r].trial].run
                           \/ job.results[runs[r].trial].error \in RunnerErrors
                 /\ runs'[r].trial = runs[r].trial /\ runs'[r].start = runs[r].start
      BY <1>1, <1>3 DEF Invariant, RunsInOrder, RunsOfTrial, RunsKept, At
    <3>2. starts \in Nat /\ Trial \in Nat
      BY ResultsFacts DEF Invariant, TypeOK
    <3>3. job'.pc \in HasRun
      BY <2>3 DEF HasRun
    <3>4. ASSUME NEW r \in DOMAIN runs'
          PROVE  /\ runs'[r].start <= starts
                 /\ runs'[r].start = starts =>
                      /\ runs'[r].trial <= Trial
                      /\ runs'[r].trial = Trial => r = new
                      /\ runs'[r].trial < Trial =>
                           \/ r = job.results[runs'[r].trial].run
                           \/ job.results[runs'[r].trial].error \in RunnerErrors
      <4>1. CASE r = new
        BY <2>1, <3>2, <4>1
      <4>2. CASE r # new
        BY <2>1, <3>1, <3>4, <4>2
      <4> QED
        BY <4>1, <4>2
    <3> QED
      BY <2>2, <2>3, <3>3, <3>4 DEF RunsInOrder
  <2>7. ResultsOK'
    <3>1. ASSUME NEW t \in DOMAIN job.results, NEW old, old = job.results[t]
          PROVE  Sound(t, old)'
      BY <1>1, <1>3, <2>2, <3>1, ResultsStay
    <3> QED
      BY <2>3, <3>1 DEF Invariant, ResultsOK
  <2> QED
    BY <1>2, <2>2, <2>4, <2>5, <2>6, <2>7 DEF Invariant, ReportOK, RescoredOK
<1> QED
  BY <1>4, <1>5

\* The three states of a trial that share the except clause.
LEMMA FailsStep ==
  ASSUME Invariant, job.pc \in HasRun, NEW error \in RunnerErrors, Fail(error), Local,
         Smooth \/ Fault
  PROVE  Invariant'
BY LocalStep, FailStep DEF UnderWay

LEMMA PollStep ==
  ASSUME Invariant, Poll
  PROVE  Invariant'
<1>1. job.pc \in HasRun /\ job.pc \in {"poll", "cancel", "grace"}
  BY DEF Poll, PollEnded, PollWaits, PollExpires, PollFails, RequestCancel,
       RequestCancelFails, GraceWaits, GraceOver, GraceFails, At, HasRun
<1>2. Local /\ (Smooth \/ Fault)
  BY DEF Poll, PollEnded, PollWaits, PollExpires, PollFails, RequestCancel,
       RequestCancelFails, GraceWaits, GraceOver, GraceFails
<1>3. UNCHANGED runs /\ FilesOfTrial /\ NoReportYet
  BY <1>2, LocalStep
<1>4. job \in Job /\ job.waited \in Nat
  BY JobFacts DEF Job
<1>5. ASSUME NEW error \in RunnerErrors, Fail(error)
      PROVE  Invariant'
  BY <1>1, <1>2, <1>5, FailsStep
<1>6. ASSUME NEW pc \in {"poll", "cancel", "grace", "export"}, NEW waited \in Nat,
             job' = [job EXCEPT !.pc = pc, !.waited = waited],
             pc = "export" => Ended(job.run)
      PROVE  Invariant'
  <2>1. /\ job' \in Job /\ job'.pc = pc /\ job'.run = job.run
        /\ job'.results = job.results
    BY <1>4, <1>6 DEF Job, PCs
  <2> QED
    BY <1>1, <1>3, <1>6, <2>1, SameRun DEF HasRun, HasEnded, HasSnapshot, HasClaims, At
<1>7. /\ \A pc : [job EXCEPT !.pc = pc] = [job EXCEPT !.pc = pc, !.waited = job.waited]
      /\ \A n : [job EXCEPT !.waited = n] = [job EXCEPT !.pc = job.pc, !.waited = n]
  BY <1>4 DEF Job
<1>8. CASE PollEnded
  BY <1>4, <1>6, <1>7, <1>8 DEF PollEnded, Goto
<1>9. CASE PollWaits \/ GraceWaits
  <2>1. job' = [job EXCEPT !.waited = job.waited + 1]
    BY <1>9 DEF PollWaits, GraceWaits
  <2>2. job' = [job EXCEPT !.pc = job.pc, !.waited = job.waited + 1]
    BY <1>7, <2>1
  <2>3. job.waited + 1 \in Nat
    <3>1. job.waited \in Nat
      BY <1>4 DEF Job
    <3> QED
      BY <3>1
  <2>4. job.pc \in {"poll", "cancel", "grace", "export"} /\ job.pc # "export"
    BY <1>1
  <2> QED
    BY <1>6, <2>2, <2>3, <2>4
<1>10. CASE PollExpires
  <2>1. CASE CancelOnTimeout
    <3>1. job' = [job EXCEPT !.pc = "cancel", !.waited = 0]
      BY <1>10, <2>1 DEF PollExpires
    <3> QED
      BY <1>6, <3>1
  <2>2. CASE ~ CancelOnTimeout
    BY <1>5, <1>10, <2>2 DEF PollExpires, RunnerErrors
  <2> QED
    BY <2>1, <2>2
<1>11. CASE RequestCancel
  BY <1>4, <1>6, <1>7, <1>11 DEF RequestCancel, Goto
<1>12. CASE PollFails \/ RequestCancelFails \/ GraceOver \/ GraceFails
  BY <1>5, <1>12 DEF PollFails, RequestCancelFails, GraceOver, GraceFails, RunnerErrors
<1> QED
  BY <1>8, <1>9, <1>10, <1>11, <1>12 DEF Poll

LEMMA RunFacts ==
  ASSUME Invariant, job.pc \in HasRun
  PROVE  /\ job.run \in DOMAIN runs /\ job.run \in Nat
         /\ runs[job.run] \in Run
         /\ SnapshotOf(job.run) \in Snapshot
         /\ SnapshotOf(job.run).run = job.run
         /\ SnapshotOf(job.run).status = runs[job.run].status
         /\ runs[job.run].trial = Trial /\ runs[job.run].start = starts
         /\ Trial \in Trials
<1>1. /\ job.run \in DOMAIN runs
      /\ runs[job.run].trial = Trial /\ runs[job.run].start = starts
      /\ Trial \in Trials
  BY DEF Invariant, Memory, UnderWay
<1>2. runs[job.run] \in Run /\ job.run \in Nat
  BY <1>1, JobFacts, SeqElement DEF Job
<1> QED
  BY <1>1, <1>2 DEF SnapshotOf, Snapshot, Run

\* Writing one of the trial's files.
LEMMA SnapshotFile ==
  ASSUME Invariant, Trial \in Trials, NEW s \in Snapshot,
         artifacts' = [artifacts EXCEPT ![Trial].snapshot = s]
  PROVE  /\ FilesOfTrial
         /\ artifacts'[Trial].snapshot = s
         /\ artifacts'[Trial].claims = artifacts[Trial].claims
<1>1. artifacts \in [Trials -> Files]
  BY DEF Invariant, TypeOK
<1> QED
  BY <1>1 DEF FilesOfTrial, Files

LEMMA ClaimsFile ==
  ASSUME Invariant, Trial \in Trials, NEW c \in Claims,
         artifacts' = [artifacts EXCEPT ![Trial].claims = c]
  PROVE  /\ FilesOfTrial
         /\ artifacts'[Trial].claims = c
         /\ artifacts'[Trial].snapshot = artifacts[Trial].snapshot
<1>1. artifacts \in [Trials -> Files]
  BY DEF Invariant, TypeOK
<1> QED
  BY <1>1 DEF FilesOfTrial, Files

LEMMA ClaimReportsAreTyped ==
  ASSUME NEW s \in Snapshot, NEW expected \in ExpectedStatus,
         NEW c \in ClaimReports(s, expected)
  PROVE  c \in Claims /\ c.run = s.run
<1>1. s.run \in Nat
  BY DEF Snapshot
<1>2. c = ClaimReport(s.run, None, expected = "completed", None)
      \/ \E j \in Judgments : \E f \in {j.fulfilled, None} :
           c = ClaimReport(s.run, j.semantic, expected = "completed", f)
  BY DEF ClaimReports
<1>3. \A j \in Judgments : j.semantic \in Gate /\ j.fulfilled \in Gate
  BY JudgmentAssumption DEF Gate
<1>4. \A semantic \in Gate, f \in Gate :
        LET r == ClaimReport(s.run, semantic, expected = "completed", f)
        IN  r \in Claims /\ r.run = s.run
  BY <1>1 DEF ClaimReport, Claims
<1> QED
  BY <1>2, <1>3, <1>4 DEF Gate

LEMMA GatherStep ==
  ASSUME Invariant, Export \/ VerifyClaims \/ WriteSnapshot
  PROVE  Invariant'
<1>1. job.pc \in HasRun
  BY DEF Export, VerifyClaims, WriteSnapshot, At, HasRun, HasEnded, HasSnapshot, HasClaims
<1>2. job \in Job
  BY JobFacts
<1>3. Ended(job.run)
  BY DEF Export, VerifyClaims, WriteSnapshot, Invariant, Memory, At, HasEnded, HasSnapshot,
       HasClaims
<1>4. CASE Export
  <2>1. UNCHANGED runs /\ FilesOfTrial /\ NoReportYet
    BY <1>4, LocalStep DEF Export
  <2>2. /\ job' \in Job /\ job'.pc = "claims" /\ job'.snapshot = SnapshotOf(job.run)
        /\ job'.run = job.run /\ job'.results = job.results
    BY <1>1, <1>2, <1>4, RunFacts DEF Export, Job, PCs
  <2> QED
    BY <1>1, <1>3, <2>1, <2>2, SameRun DEF HasRun, HasEnded, HasSnapshot, HasClaims, At
<1>5. CASE VerifyClaims
  <2>1. UNCHANGED runs /\ FilesOfTrial /\ NoReportYet
    BY <1>5, LocalStep DEF VerifyClaims
  <2>2. job.snapshot = SnapshotOf(job.run)
    BY <1>5 DEF VerifyClaims, At, Invariant, Memory, HasSnapshot
  <2>3. PICK c \in ClaimReports(job.snapshot, Expected(Trial)) :
          job' = [job EXCEPT !.pc = "write_snapshot", !.claims = c]
    BY <1>5 DEF VerifyClaims
  <2>4. c \in Claims /\ c.run = job.run
    BY <1>1, <2>2, RunFacts, PlanFacts, ClaimReportsAreTyped
  <2>5. /\ job' \in Job /\ job'.pc = "write_snapshot" /\ job'.snapshot = job.snapshot
        /\ job'.run = job.run /\ job'.results = job.results /\ job'.claims = c
    BY <1>2, <2>3, <2>4 DEF Job, PCs
  <2> QED
    BY <1>1, <1>3, <2>1, <2>2, <2>4, <2>5, SameRun
       DEF HasRun, HasEnded, HasSnapshot, HasClaims, At
<1>6. CASE WriteSnapshot
  <2>1. /\ job.snapshot = SnapshotOf(job.run)
        /\ job.claims \in Claims /\ job.claims.run = job.run
    BY <1>6 DEF WriteSnapshot, At, Invariant, Memory, HasSnapshot, HasClaims
  <2>2. UNCHANGED runs /\ NoReportYet
    BY <1>6, FaultIsCounted DEF WriteSnapshot, Smooth
  <2>3. FilesOfTrial /\ artifacts'[Trial].snapshot = job.snapshot
    BY <1>1, <1>6, <2>1, RunFacts, SnapshotFile DEF WriteSnapshot
  <2>4. /\ job' \in Job /\ job'.pc = "write_claims" /\ job'.snapshot = job.snapshot
        /\ job'.run = job.run /\ job'.results = job.results /\ job'.claims = job.claims
    BY <1>2, <1>6 DEF WriteSnapshot, Goto, Job, PCs
  <2> QED
    BY <1>1, <1>3, <2>1, <2>2, <2>3, <2>4, SameRun
       DEF HasRun, HasEnded, HasSnapshot, HasClaims, At
<1> QED
  BY <1>4, <1>5, <1>6

\* A pass needs the expected status, and no gate that has failed.
LEMMA OutcomeFacts ==
  ASSUME NEW expected \in ExpectedStatus, NEW s \in Snapshot, NEW c \in Claims,
         NEW a \in Gate, NEW outcome, outcome = Outcome(expected, s, c, a)
  PROVE  /\ outcome.completed \in BOOLEAN /\ outcome.passed \in BOOLEAN
         /\ outcome.quality \in QualityStatus
         /\ outcome.passed => s.status = expected
         /\ outcome.passed /\ expected = "completed"
              => outcome.quality \in {"verified_pass", "unverified"}
<1>1. /\ c.semantic \in Gate /\ c.required \in BOOLEAN /\ c.fulfilled \in Gate
      /\ s.clean \in BOOLEAN
  BY DEF Claims, Snapshot
<1>2. Quality(c, a) \in {"verified_pass", "verified_fail", "unverified"}
  BY DEF Quality
<1>3. NoGateFailed(c, a) => Quality(c, a) # "verified_fail"
  BY <1>1 DEF Quality, NoGateFailed
<1>4. /\ outcome.completed = (s.status = expected)
      /\ outcome.passed = (/\ s.status = expected
                           /\ s.clean
                           /\ expected = "completed" => NoGateFailed(c, a))
      /\ outcome.quality = IF expected = "completed" THEN Quality(c, a) ELSE None
  BY DEF Outcome
<1> QED
  BY <1>1, <1>2, <1>3, <1>4 DEF QualityStatus

LEMMA WriteClaimsStep ==
  ASSUME Invariant, WriteClaims
  PROVE  Invariant'
<1>1. /\ job.pc \in HasRun /\ job.pc \in UnderWay /\ Ended(job.run)
      /\ job.snapshot = SnapshotOf(job.run)
      /\ job.claims \in Claims /\ job.claims.run = job.run
      /\ artifacts[Trial].snapshot = job.snapshot
  BY DEF WriteClaims, At, Invariant, Memory, UnderWay, HasRun, HasEnded, HasSnapshot, HasClaims
<1>2. /\ UNCHANGED <<runs, report, rescored, starts, faults>>
      /\ artifacts' = [artifacts EXCEPT ![Trial].claims = job.claims]
  BY DEF WriteClaims
<1>3. RunsOfTrial /\ NoReportYet
  BY <1>2, SameRuns, FaultIsCounted DEF Invariant, Smooth
<1>4. /\ FilesOfTrial
      /\ artifacts'[Trial].claims = job.claims
      /\ artifacts'[Trial].snapshot = job.snapshot
  BY <1>1, <1>2, RunFacts, ClaimsFile
<1>5. PICK a \in Gate : Finish(Scored(a))
  BY DEF WriteClaims, Gate
<1>6. ASSUME NEW now, now = Trial, NEW result, result = Scored(a)
      PROVE  Invariant'
  <2>1. /\ Expected(Trial) \in ExpectedStatus
        /\ job.snapshot \in Snapshot
        /\ job.run \in DOMAIN runs /\ job.run \in Nat
    BY <1>1, RunFacts, PlanFacts
  <2> DEFINE outcome == Outcome(Expected(Trial), job.snapshot, job.claims, a)
  <2>2. /\ outcome.completed \in BOOLEAN /\ outcome.passed \in BOOLEAN
        /\ outcome.quality \in QualityStatus
        /\ outcome.passed => job.snapshot.status = Expected(Trial)
        /\ outcome.passed /\ Expected(Trial) = "completed"
             => outcome.quality \in {"verified_pass", "unverified"}
    BY <1>1, <2>1, OutcomeFacts
  <2>3. result = [run |-> job.run, expected |-> Expected(Trial), status |-> job.snapshot.status,
                  completed |-> outcome.completed, passed |-> outcome.passed,
                  quality |-> outcome.quality, acceptance |-> a,
                  error |-> IF job.snapshot.status \in {"failed", "cancelled"} THEN "target"
                            ELSE None,
                  kept |-> TRUE]
    BY <1>6 DEF Scored
  <2> HIDE DEF outcome
  <2>4. result \in Result
    BY <2>1, <2>2, <2>3 DEF Result, Snapshot, Errors
  <2>5. Founded(now, result)'
    <3>1. /\ artifacts'[now].claims = job.claims
          /\ artifacts'[now].snapshot = job.snapshot
      BY <1>4, <1>6
    <3>2. /\ result.run = job.run /\ result.status = job.snapshot.status
      BY <2>3
    <3>3. /\ job.snapshot.run = job.run /\ job.snapshot.status = runs[job.run].status
          /\ runs[job.run].trial = now /\ runs[job.run].start = starts
      BY <1>1, <1>6, RunFacts
    <3>4. job.snapshot # None /\ job.claims # None
      BY <1>1, <2>1, NoneAssumption
    <3> QED
      BY <1>1, <1>2, <2>1, <3>1, <3>2, <3>3, <3>4 DEF Founded, Ended, SnapshotOf
  <2>6. Supported(result) /\ (result.passed => result.error = None)
    BY <2>1, <2>2, <2>3 DEF Supported, ExpectedStatus
  <2>7. Sound(now, result)'
    BY <2>5, <2>6 DEF Sound, Supported
  <2>8. Finish(result) /\ result.run = job.run /\ DOMAIN runs' = DOMAIN runs
    BY <1>2, <1>5, <1>6, <2>3
  <2> QED
    BY <1>1, <1>3, <1>4, <1>6, <2>4, <2>7, <2>8, FinishStep
<1> QED
  BY <1>6

LEMMA EvidenceFailsStep ==
  ASSUME Invariant, ExportFails \/ WriteFails \/ ScoreFails
  PROVE  Invariant'
<1>1. job.pc \in HasRun /\ job.pc \in UnderWay
  BY DEF ExportFails, WriteFails, ScoreFails, At, UnderWay, HasRun, HasEnded, HasSnapshot,
       HasClaims
<1>2. Fail("other") /\ "other" \in RunnerErrors
  BY DEF ExportFails, WriteFails, ScoreFails, RunnerErrors
<1>3. CASE ExportFails \/ WriteFails
  BY <1>1, <1>2, <1>3, FailsStep DEF ExportFails, WriteFails
<1>4. CASE ScoreFails
  <2>1. job.claims \in Claims
    BY <1>4 DEF ScoreFails, At, Invariant, Memory, HasClaims
  <2>2. FilesOfTrial
    BY <1>1, <1>4, <2>1, RunFacts, ClaimsFile DEF ScoreFails
  <2>3. UNCHANGED runs /\ NoReportYet
    BY <1>4, FaultIsCounted DEF ScoreFails
  <2> QED
    BY <1>1, <1>2, <2>2, <2>3, FailStep
<1> QED
  BY <1>3, <1>4

LEMMA CaptureStep ==
  ASSUME Invariant, Capture \/ CaptureFails
  PROVE  Invariant'
<1>1. /\ job.pc \in HasRun /\ job.pc \in UnderWay
      /\ job.error \in RunnerErrors
  BY DEF Capture, CaptureFails, At, Invariant, Memory, UnderWay, HasRun, RunnerErrors
<1>2. UNCHANGED <<runs, report, rescored, starts>> /\ (Smooth \/ Fault)
  BY DEF Capture, CaptureFails, Smooth
<1>3. RunsOfTrial /\ NoReportYet
  BY <1>2, SameRuns, FaultIsCounted DEF Invariant
<1> DEFINE s == SnapshotOf(job.run)
<1>4. s \in Snapshot /\ s.run = job.run /\ s.status = runs[job.run].status /\ Trial \in Trials
  BY <1>1, RunFacts
<1>5. FilesOfTrial
  <2>1. \/ artifacts' = [artifacts EXCEPT ![Trial].snapshot = s]
        \/ UNCHANGED artifacts
    BY DEF Capture, CaptureFails
  <2> QED
    BY <1>4, <2>1, SnapshotFile, SameFiles DEF Invariant
<1>6. CASE CaptureFails
  <2>1. Finish(ErrorResult(job.error))
    BY <1>6 DEF CaptureFails
  <2>2. ASSUME NEW now, now = Trial, NEW error, error = job.error,
               NEW result, result = ErrorResult(error)
        PROVE  Invariant'
    <3>1. result \in Result /\ result.error = error /\ Sound(now, result)'
      BY <1>1, <2>2, ErrorResultIsSound
    <3>2. Finish(result) /\ result.error \in RunnerErrors
      BY <1>1, <2>1, <2>2, <3>1
    <3> QED
      BY <1>1, <1>3, <1>5, <2>2, <3>1, <3>2, FinishStep
  <2> QED
    BY <2>2
<1>7. CASE Capture
  <2> DEFINE captured == [ErrorResult(job.error) EXCEPT
                            !.status = s.status, !.quality = "unverified", !.kept = TRUE]
  <2>1. Finish(captured) /\ artifacts' = [artifacts EXCEPT ![Trial].snapshot = s]
    BY <1>7 DEF Capture
  <2>2. /\ captured.run = job.run /\ captured.error = job.error /\ captured.passed = FALSE
        /\ captured.status = s.status
    BY DEF ErrorResult
  <2>3. captured \in Result
    <3>1. Expected(Trial) \in ExpectedStatus /\ job.run \in Nat
      BY <1>1, <1>4, PlanFacts, RunFacts
    <3> QED
      BY <1>1, <1>4, <3>1
         DEF ErrorResult, Result, RunnerErrors, Errors, Gate, QualityStatus, Snapshot
  <2> HIDE DEF captured, s
  <2>4. ASSUME NEW now, now = Trial, NEW result, result = captured
        PROVE  Invariant'
    <3>1. Founded(now, result)'
      <4>1. artifacts'[now].snapshot = s
        BY <1>4, <2>1, <2>4, SnapshotFile
      <4>2. result.error \notin {None, "target"}
        BY <1>1, <2>2, <2>4, NoneAssumption DEF RunnerErrors, Errors
      <4>3. /\ job.run \in DOMAIN runs
            /\ runs[job.run].trial = now /\ runs[job.run].start = starts
        BY <1>1, <2>4, RunFacts
      <4>4. s # None
        BY <1>4, NoneAssumption
      <4>5. result.run = job.run /\ result.status = s.status
        BY <2>2, <2>4
      <4> QED
        BY <1>2, <1>4, <4>1, <4>2, <4>3, <4>4, <4>5 DEF Founded
    <3>2. Sound(now, result)'
      BY <2>2, <2>4, <3>1 DEF Sound, Supported
    <3> QED
      BY <1>1, <1>3, <1>5, <2>1, <2>2, <2>3, <2>4, <3>2, FinishStep
  <2> QED
    BY <2>4
<1> QED
  BY <1>6, <1>7

\* Steps that leave runs and files alone keep what is said of results.
LEMMA NothingNew ==
  ASSUME Invariant, UNCHANGED <<runs, artifacts, starts>>
  PROVE  /\ \A t \in DOMAIN job.results : \A x : x = job.results[t] => Sound(t, x)'
         /\ report # None => \A t \in DOMAIN report : \A x : x = report[t] => Sound(t, x)'
<1>1. RunsKept
  BY DEF RunsKept
<1>2. ASSUME NEW t, artifacts'[t] = artifacts[t], NEW x, Sound(t, x)
      PROVE  Sound(t, x)'
  BY <1>1, <1>2, SoundStays
<1> QED
  BY <1>2 DEF Invariant, ResultsOK, ReportOK

LEMMA WriteReportStep ==
  ASSUME Invariant, WriteReport
  PROVE  Invariant'
<1>1. /\ job' = [job EXCEPT !.pc = "summary"] /\ job.pc = "report" /\ job \in Job
      /\ report' = job.results
      /\ UNCHANGED <<runs, artifacts, rescored, starts, faults>>
  BY JobFacts DEF WriteReport, Goto, At
<1>2. /\ job' \in Job /\ job'.pc = "summary" /\ job'.run = job.run
      /\ job'.results = job.results /\ Trial' = Trial
  BY <1>1 DEF Job, PCs, Trial
<1>3. rescored = None
  BY <1>1 DEF Invariant, ReportOK, RescoredOK
<1>4. TypeOK'
  BY <1>1, <1>2, ResultsFacts DEF Invariant, TypeOK
<1>5. job.pc \notin HasRun /\ job'.pc \notin HasRun
  BY <1>1, <1>2 DEF HasRun, HasEnded, HasSnapshot, HasClaims
<1>6. Memory'
  BY <1>1, <1>2, <1>5 DEF Invariant, Memory, At, UnderWay, HasRun, HasEnded, HasSnapshot,
       HasClaims
<1>7. RunsInOrder'
  BY <1>1, <1>2, <1>5 DEF Invariant, RunsInOrder, At
<1>8. ResultsOK' /\ ReportOK'
  BY <1>1, <1>2, NothingNew DEF Invariant, ResultsOK, ReportOK
<1> QED
  BY <1>1, <1>3, <1>4, <1>6, <1>7, <1>8 DEF Invariant, RescoredOK

LEMMA StopStep ==
  ASSUME Invariant, job' = Off, UNCHANGED <<runs, artifacts, report, rescored, starts>>,
         faults' \in 0..MaxFaults
  PROVE  Invariant'
<1>1. /\ Off \in Job /\ Off.pc = "off" /\ Off.run = 0
      /\ Len(Off.results) = 0 /\ DOMAIN Off.results = {}
  BY EmptySeq DEF Off, Job, PCs
<1>2. TypeOK'
  BY <1>1 DEF Invariant, TypeOK
<1>3. Memory'
  BY <1>1 DEF Memory, At, UnderWay, HasRun, HasEnded, HasSnapshot, HasClaims
<1>4. RunsInOrder'
  BY <1>1 DEF Invariant, RunsInOrder, At
<1>5. ResultsOK'
  BY <1>1, PlanFacts DEF ResultsOK
<1>6. ReportOK' /\ RescoredOK'
  BY <1>1, NothingNew DEF Invariant, ReportOK, RescoredOK, Supported, RescoreUsesOwnClaims,
       UsesSnapshot
<1> QED
  BY <1>2, <1>3, <1>4, <1>5, <1>6 DEF Invariant

LEMMA RunnerStep ==
  ASSUME Invariant, Runner
  PROVE  Invariant'
<1>1. CASE WriteSummary
  <2>1. faults' \in 0..MaxFaults
    BY <1>1 DEF WriteSummary, Smooth, Invariant, TypeOK
  <2> QED
    BY <1>1, <2>1, StopStep DEF WriteSummary, Local, NoFile
<1> QED
  BY <1>1, PostSessionStep, PostMessageStep, PollStep, GatherStep, WriteClaimsStep,
     EvidenceFailsStep, CaptureStep, WriteReportStep DEF Runner, Evidence

LEMMA CrashStep ==
  ASSUME Invariant, Crash
  PROVE  Invariant'
<1>1. NoReportYet
  BY FaultIsCounted DEF Crash, Local
<1> QED
  BY <1>1, StopStep DEF Crash, Local, NoFile, NoReportYet

-----------------------------------------------------------------------------
(***************************************************************************)
(* Rescoring.                                                              *)
(***************************************************************************)

LEMMA ClaimReportsOfNobody ==
  ASSUME NEW run \in Nat
  PROVE  ClaimReport(run, None, FALSE, None) \in Claims
BY DEF ClaimReport, Claims, Gate

LEMMA RescoredTrialFacts ==
  ASSUME Invariant, report # None, NEW with_claims \in BOOLEAN,
         with_claims => ClaimFilesUsable, NEW i \in DOMAIN report, UsesSnapshot(i),
         NEW new, new = RescoredTrial(i, with_claims)
  PROVE  new \in Result /\ Supported(new)
<1>1. report[i] \in Result
  BY SeqElement DEF Invariant, TypeOK
<1>2. i \in Trials
  <2>1. report \in Seq(Result) /\ Len(report) <= Len(Plan)
    BY DEF Invariant, TypeOK, ReportOK
  <2> QED
    BY <2>1, LenProperties, PlanFacts
<1>3. artifacts[i] \in Files /\ artifacts[i].snapshot # None
  BY <1>2 DEF Invariant, TypeOK, ReportOK, Sound, Founded, UsesSnapshot
<1> DEFINE s == artifacts[i].snapshot
           c == IF with_claims THEN artifacts[i].claims
                ELSE ClaimReport(s.run, None, FALSE, None)
<1>4. s \in Snapshot /\ s.run \in Nat
  BY <1>3 DEF Files, Snapshot
<1>5. c \in Claims
  <2>1. CASE with_claims
    BY <1>3, <2>1 DEF ClaimFilesUsable, Files
  <2>2. CASE ~ with_claims
    BY <1>4, <2>2, ClaimReportsOfNobody
  <2> QED
    BY <2>1, <2>2
<1>6. report[i].expected \in ExpectedStatus /\ report[i].acceptance \in Gate
  BY <1>1 DEF Result
<1> DEFINE outcome == Outcome(report[i].expected, s, c, report[i].acceptance)
<1>7. new = [report[i] EXCEPT !.completed = outcome.completed, !.passed = outcome.passed,
                              !.quality = outcome.quality]
  BY DEF RescoredTrial
<1> HIDE DEF s, c
<1>8. /\ outcome.completed \in BOOLEAN /\ outcome.passed \in BOOLEAN
      /\ outcome.quality \in QualityStatus
      /\ outcome.passed /\ report[i].expected = "completed"
           => outcome.quality \in {"verified_pass", "unverified"}
  BY <1>4, <1>5, <1>6, OutcomeFacts
<1> HIDE DEF outcome
<1> QED
  BY <1>1, <1>7, <1>8 DEF Result, Supported

LEMMA RescoreStep ==
  ASSUME Invariant, NEW with_claims \in BOOLEAN, Rescore(with_claims)
  PROVE  Invariant'
<1> DEFINE New(i) == IF UsesSnapshot(i) THEN RescoredTrial(i, with_claims) ELSE report[i]
<1>1. /\ report # None /\ (with_claims => ClaimFilesUsable)
      /\ rescored' = [with_claims |-> with_claims, trials |-> [i \in DOMAIN report |-> New(i)]]
      /\ UNCHANGED <<runs, job, artifacts, report, starts, faults>>
  BY DEF Rescore
<1>2. report \in Seq(Result)
  BY <1>1 DEF Invariant, TypeOK
<1>3. ASSUME NEW i \in DOMAIN report
      PROVE  New(i) \in Result /\ Supported(New(i))
  <2>1. CASE UsesSnapshot(i)
    BY <1>1, <2>1, RescoredTrialFacts
  <2>2. CASE ~ UsesSnapshot(i)
    BY <1>1, <1>2, <2>2, SeqElement DEF Invariant, ReportOK, Sound
  <2> QED
    BY <2>1, <2>2
<1> HIDE DEF New
<1>4. [i \in DOMAIN report |-> New(i)] \in Seq(Result)
  <2>1. DOMAIN report = 1..Len(report) /\ Len(report) \in Nat
    BY <1>2, LenProperties
  <2>2. [i \in 1..Len(report) |-> New(i)] \in Seq(Result)
    BY <1>3, <2>1, IsASeq
  <2> QED
    BY <2>1, <2>2
<1>5. /\ rescored'.with_claims = with_claims
      /\ rescored'.trials = [i \in DOMAIN report |-> New(i)]
      /\ rescored' \in [with_claims : BOOLEAN, trials : Seq(Result)]
  BY <1>1, <1>4
<1>6. TypeOK'
  BY <1>1, <1>5 DEF Invariant, TypeOK
<1>7. Memory' /\ RunsInOrder'
  BY <1>1 DEF Invariant, Memory, RunsInOrder, At, Trial, Ended, SnapshotOf
<1>8. ResultsOK' /\ ReportOK'
  BY <1>1, NothingNew DEF Invariant, ResultsOK, ReportOK
<1>9. RescoredOK'
  <2>1. \A t \in DOMAIN rescored'.trials : Supported(rescored'.trials[t])
    BY <1>3, <1>5
  <2>2. ASSUME with_claims, NEW t \in DOMAIN report, UsesSnapshot(t)
        PROVE  artifacts[t].claims.run = report[t].run
    BY <1>1, <2>2 DEF ClaimFilesUsable, Invariant, ReportOK, Sound, Founded, UsesSnapshot
  <2> QED
    BY <1>1, <1>5, <2>1, <2>2 DEF RescoredOK, RescoreUsesOwnClaims, UsesSnapshot, Supported
<1> QED
  BY <1>6, <1>7, <1>8, <1>9 DEF Invariant

-----------------------------------------------------------------------------
(***************************************************************************)
(* The invariant holds.                                                    *)
(***************************************************************************)

LEMMA InvariantHoldsInitially ==
  ASSUME Init
  PROVE  Invariant
<1>1. /\ Off \in Job /\ Off.pc = "off" /\ Off.run = 0
      /\ Len(Off.results) = 0 /\ DOMAIN Off.results = {}
  BY EmptySeq DEF Off, Job, PCs
<1>2. runs \in Seq(Run) /\ DOMAIN runs = {}
  BY EmptySeq DEF Init
<1>3. artifacts \in [Trials -> Files]
  BY DEF Init, Files
<1>4. TypeOK
  BY <1>1, <1>2, <1>3, BoundAssumption DEF Init, TypeOK
<1>5. Memory /\ RunsInOrder
  BY <1>1, <1>2 DEF Init, Memory, RunsInOrder, At, UnderWay, HasRun, HasEnded, HasSnapshot,
       HasClaims
<1>6. ResultsOK /\ ReportOK /\ RescoredOK
  BY <1>1, PlanFacts DEF Init, ResultsOK, ReportOK, RescoredOK
<1> QED
  BY <1>4, <1>5, <1>6 DEF Invariant

LEMMA InvariantIsInductive ==
  ASSUME Invariant, [Next]_vars
  PROVE  Invariant'
<1>1. CASE Stopped \/ UNCHANGED vars
  <2>1. UNCHANGED vars
    BY <1>1 DEF Stopped
  <2>2. TypeOK'
    BY <2>1 DEF vars, Invariant, TypeOK
  <2>3. Memory' /\ RunsInOrder'
    BY <2>1 DEF vars, Invariant, Memory, RunsInOrder, At, Trial, Ended, SnapshotOf
  <2>4. ResultsOK' /\ ReportOK'
    BY <2>1, NothingNew DEF vars, Invariant, ResultsOK, ReportOK
  <2>5. RescoredOK'
    BY <2>1 DEF vars, Invariant, RescoredOK, RescoreUsesOwnClaims, UsesSnapshot, Supported
  <2> QED
    BY <2>2, <2>3, <2>4, <2>5 DEF Invariant
<1> QED
  BY <1>1, RunEndsStep, StartStep, RunnerStep, CrashStep, RescoreStep DEF Next

LEMMA InvariantHolds == Spec => []Invariant
<1> QED
  BY InvariantHoldsInitially, InvariantIsInductive, PTL DEF Spec

-----------------------------------------------------------------------------
(***************************************************************************)
(* The theorems.                                                           *)
(***************************************************************************)

\* The process, the target, the files and the reports keep their types.
THEOREM TypeCorrect == Spec => []TypeOK
<1>1. Invariant => TypeOK
  BY DEF Invariant
<1> QED
  BY <1>1, InvariantHolds, PTL

\* A result that was not charged to the runner describes a run of its own
\* trial and start that ended that way, and the files on disk are that run's,
\* although the directory may hold what an earlier start has left.
THEOREM ResultsHaveTheirRuns == Spec => []ResultsAreFounded
<1>1. Invariant => ResultsAreFounded
  BY DEF Invariant, ResultsOK, ReportOK, Sound, ResultsAreFounded
<1> QED
  BY <1>1, InvariantHolds, PTL

\* A trial whose run goes on beside its successors is reported as failed.
THEOREM OverlapNeverGoesUnnoticed == Spec => []OverlapIsReported
<1>1. ASSUME Invariant, NEW r \in DOMAIN runs, runs[r].status = "executing",
             runs[r].start = starts, runs[r].trial \in DOMAIN job.results
      PROVE  job.results[runs[r].trial].error \in {"timeout", "other"}
  <2> DEFINE t == runs[r].trial
  <2>1. /\ job.results \in Seq(Result) /\ DOMAIN job.results = 1..Len(job.results)
        /\ t \in Nat /\ t < Trial
    BY <1>1, ResultsFacts DEF Trial
  <2>2. ~ At("off")
    <3>1. At("off") => DOMAIN job.results = {}
      BY <1>1, EmptySeq DEF Invariant, Memory, Off
    <3> QED
      BY <1>1, <3>1
  <2>3. \/ r = job.results[t].run
        \/ job.results[t].error \in RunnerErrors
    BY <1>1, <2>1, <2>2 DEF Invariant, RunsInOrder
  <2>4. ~ Ended(r)
    BY <1>1 DEF Ended, TerminalStatuses
  <2>5. Founded(t, job.results[t]) /\ job.results[t] \in Result
    BY <1>1, <2>1, SeqElement DEF Invariant, ResultsOK, Sound
  <2>6. job.results[t].error \in Errors \cup {None}
    BY <2>5 DEF Result
  <2>7. job.results[t].error \in {None, "target"} => job.results[t].run # r
    BY <2>4, <2>5 DEF Founded
  <2> QED
    BY <2>3, <2>6, <2>7 DEF Errors, RunnerErrors
<1>2. Invariant => OverlapIsReported
  BY <1>1 DEF OverlapIsReported
<1> QED
  BY <1>2, InvariantHolds, PTL

\* No runner error becomes a pass, whatever its run was when it was captured.
THEOREM CapturesNeverPass == Spec => []CapturedNeverPasses
<1>1. Invariant => CapturedNeverPasses
  BY DEF Invariant, ResultsOK, ReportOK, Sound, CapturedNeverPasses
<1> QED
  BY <1>1, InvariantHolds, PTL

\* Every pass, also a rescored one, is in exactly the bounds' two parts.
THEOREM BoundsCoverEveryPass == Spec => []BoundsCoverPasses
<1>1. ASSUME NEW results \in Seq(Result),
             \A t \in DOMAIN results : Supported(results[t])
      PROVE  PassedTrials(results) = VerifiedPasses(results) \cup PotentialPasses(results)
  <2>1. \A t \in DOMAIN results : results[t].expected \in ExpectedStatus
    <3>1. ASSUME NEW t \in DOMAIN results PROVE results[t].expected \in ExpectedStatus
      <4>1. results[t] \in Result
        BY SeqElement
      <4> QED
        BY <4>1 DEF Result
    <3> QED
      BY <3>1
  <2> QED
    BY <1>1, <2>1 DEF PassedTrials, VerifiedPasses, PotentialPasses, Supported, ExpectedStatus
<1>2. ASSUME Invariant PROVE BoundsCoverPasses
  <2>1. /\ report # None => report \in Seq(Result)
        /\ rescored # None => rescored.trials \in Seq(Result)
    BY <1>2 DEF Invariant, TypeOK
  <2>2. /\ report # None => \A t \in DOMAIN report : Supported(report[t])
        /\ rescored # None => \A t \in DOMAIN rescored.trials : Supported(rescored.trials[t])
    BY <1>2 DEF Invariant, ReportOK, RescoredOK, Sound
  <2> QED
    BY <1>1, <2>1, <2>2 DEF BoundsCoverPasses
<1>3. Invariant => BoundsCoverPasses
  BY <1>2
<1> QED
  BY <1>3, InvariantHolds, PTL

\* A rescore never grades a run by the claims of another one.
THEOREM RescoresUseTheirClaims == Spec => []RescoreUsesOwnClaims
<1>1. Invariant => RescoreUsesOwnClaims
  BY DEF Invariant, RescoredOK, RescoreUsesOwnClaims
<1> QED
  BY <1>1, InvariantHolds, PTL

\* A report and the artifacts it names are final.
THEOREM ReportsAreFinal == Spec => ReportIsFinal
<1>1. ASSUME Invariant, [Next]_vars, report # None
      PROVE  report' = report /\ artifacts' = artifacts
  <2>1. job.pc \in {"off", "summary"}
    BY <1>1 DEF Invariant, ReportOK
  <2>2. CASE Runner
    BY <2>1, <2>2 DEF Runner, Poll, Evidence, At, Local, NoFile,
         PostSession, PostSessionFails, PostMessage, PostMessageFails, PollEnded, PollWaits,
         PollExpires, PollFails, RequestCancel, RequestCancelFails, GraceWaits, GraceOver,
         GraceFails, Export, ExportFails, VerifyClaims, WriteSnapshot, WriteClaims, WriteFails,
         ScoreFails, Capture, CaptureFails, WriteReport, WriteSummary
  <2>3. CASE UNCHANGED vars
    BY <2>3 DEF vars
  <2> QED
    BY <1>1, <2>2, <2>3 DEF Next, RunEnds, NoFile, Start, Crash, Local, Stopped, Rescore
<1>2. Invariant /\ [Next]_vars => [report # None => report' = report /\ artifacts' = artifacts]_vars
  BY <1>1
<1> QED
  BY <1>2, InvariantHolds, PTL DEF Spec, ReportIsFinal
=============================================================================

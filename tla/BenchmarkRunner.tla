--------------------------- MODULE BenchmarkRunner ---------------------------
(***************************************************************************)
(* DeepResearchBenchmarkRunner (deepresearch_benchmark.py): one process    *)
(* drives the trials of a manifest one after the other against a target it *)
(* does not control, keeps artifacts on disk per trial, and writes one     *)
(* report; rescore_deepresearch_benchmark later reads both.                *)
(*                                                                         *)
(* The target (external) starts a run for every accepted message and ends  *)
(* it when it likes, perhaps never.  Any request may fail, before or after *)
(* it took effect.  The process may die at any step and be started again   *)
(* on the same output directory.                                           *)
(***************************************************************************)
EXTENDS Naturals, Sequences, TrialScoring

CONSTANTS
  Plan,             \* the trials in execution order: [expected, contract]
  EndStatuses,      \* bound: what the target may end a run with, besides the expected status
  Timeout, Grace,   \* timeout_seconds and cancel_grace_seconds, in polls
  CancelOnTimeout,  \* cancel_on_timeout
  Judgments,        \* what a claim judge may find, [semantic, fulfilled]; {} without one
  MaxFaults         \* bound: requests and writes that fail, deaths of the process

ASSUME PlanAssumption ==
  Plan \in Seq([expected : ExpectedStatus, contract : BOOLEAN]) /\ Plan # << >>
ASSUME StatusAssumption == EndStatuses \subseteq TerminalStatuses
ASSUME TimeAssumption == Timeout \in Nat /\ Grace \in Nat
ASSUME SwitchAssumption == CancelOnTimeout \in BOOLEAN
ASSUME JudgmentAssumption == Judgments \subseteq [semantic : Gate, fulfilled : BOOLEAN]
ASSUME BoundAssumption == MaxFaults \in Nat

VARIABLES
  runs,       \* the target's runs, [trial, start, status, clean]
  job,        \* the benchmark process
  artifacts,  \* trial |-> [snapshot, claims] on disk, None where there is none
  report,     \* the trials of benchmark-report.json, or None
  rescored,   \* a rescored report, [with_claims, trials], or None
  starts,     \* how often the benchmark was started
  faults      \* faults so far

vars == <<runs, job, artifacts, report, rescored, starts, faults>>

Trials == DOMAIN Plan
Expected(t) == Plan[t].expected

PCs == {"off", "session", "message", "poll", "cancel", "grace", "export", "claims",
        "write_snapshot", "write_claims", "capture", "report", "summary"}

\* Why a trial failed to run: TimeoutError, another caught exception, or the
\* target's own failure.
Errors == {"timeout", "other", "target"}

Snapshot == [run : Nat, status : TerminalStatuses \cup {"executing"}, clean : BOOLEAN]

Claims == [run : Nat, semantic : Gate, required : BOOLEAN, fulfilled : Gate]

ASSUME NoneAssumption ==
  /\ None \notin BOOLEAN
  /\ None \notin Errors
  /\ None \notin Snapshot
  /\ None \notin Claims

Result ==
  [run : Nat, expected : ExpectedStatus,
   status : TerminalStatuses \cup {"executing", "runner_error"},
   completed : BOOLEAN, passed : BOOLEAN, quality : QualityStatus, acceptance : Gate,
   error : Errors \cup {None}, kept : BOOLEAN]

Run == [trial : Trials, start : Nat, status : TerminalStatuses \cup {"executing"},
        clean : BOOLEAN]

Job == [pc : PCs, run : Nat, waited : Nat, error : Errors \cup {None},
        snapshot : Snapshot \cup {None}, claims : Claims \cup {None}, results : Seq(Result)]

Files == [snapshot : Snapshot \cup {None}, claims : Claims \cup {None}]

Off == [pc |-> "off", run |-> 0, waited |-> 0, error |-> None, snapshot |-> None,
        claims |-> None, results |-> << >>]

TypeOK ==
  /\ runs \in Seq(Run)
  /\ job \in Job
  /\ artifacts \in [Trials -> Files]
  /\ report \in Seq(Result) \cup {None}
  /\ rescored \in [with_claims : BOOLEAN, trials : Seq(Result)] \cup {None}
  /\ starts \in Nat
  /\ faults \in 0..MaxFaults

Init ==
  /\ runs = << >>
  /\ job = Off
  /\ artifacts = [t \in Trials |-> [snapshot |-> None, claims |-> None]]
  /\ report = None
  /\ rescored = None
  /\ starts = 0
  /\ faults = 0

-----------------------------------------------------------------------------
\* Control flow of the process.

At(pc) == job.pc = pc
Goto(pc) == job' = [job EXCEPT !.pc = pc]

\* Trials run in plan order: the one under way follows the results so far.
Trial == Len(job.results) + 1

Ended(r) == runs[r].status \in TerminalStatuses

\* The next trial, or the report, with the locals of _run_trial forgotten.
Finish(result) ==
  job' = [Off EXCEPT !.results = Append(job.results, result),
                     !.pc = IF Trial = Len(Plan) THEN "report" ELSE "session"]

ErrorResultUnknown(error) ==  \* a bug: the status a target never reported
  [run |-> job.run, expected |-> Expected(Trial), status |-> "unknown",
   completed |-> FALSE, passed |-> FALSE, quality |-> None, acceptance |-> None,
   error |-> error, kept |-> FALSE]

\* A result without evidence of its own.
ErrorResult(error) ==
  [run |-> job.run, expected |-> Expected(Trial), status |-> "runner_error",
   completed |-> FALSE, passed |-> FALSE, quality |-> None, acceptance |-> None,
   error |-> error, kept |-> FALSE]

\* The except clause of _run_trial: diagnostics when a run is known.
Fail(error) ==
  IF job.run = 0 THEN Finish(ErrorResult(error))
  ELSE job' = [job EXCEPT !.pc = "capture", !.error = error, !.waited = 0,
                          !.snapshot = None, !.claims = None]

\* Steps that write no file, steps that change nothing but the process, and
\* the count of what goes wrong.
NoFile == UNCHANGED <<artifacts, report, rescored, starts>>
Local == NoFile /\ UNCHANGED runs
Smooth == UNCHANGED faults
Fault ==
  /\ faults < MaxFaults
  /\ faults' = faults + 1

-----------------------------------------------------------------------------
\* The target (external).

RunEnds(r) ==
  /\ runs[r].status = "executing"
  /\ \E s \in EndStatuses \cup {Expected(runs[r].trial)}, clean \in BOOLEAN :
       /\ clean => s = Expected(runs[r].trial)
       /\ runs' = [runs EXCEPT ![r].status = s, ![r].clean = clean]
  /\ UNCHANGED job
  /\ NoFile /\ Smooth

Accepted(t) ==
  runs' = Append(runs, [trial |-> t, start |-> starts, status |-> "executing",
                        clean |-> FALSE])

-----------------------------------------------------------------------------
\* run: an output directory that holds a report is refused.

StartAnyway ==  \* a bug: an existing report is not looked for
  /\ At("off")
  /\ starts' = starts + 1
  /\ Goto("session")
  /\ UNCHANGED <<runs, artifacts, report, rescored, faults>>

Start ==
  /\ At("off")
  /\ report = None
  /\ starts' = starts + 1
  /\ Goto("session")
  /\ UNCHANGED <<runs, artifacts, report, rescored, faults>>

\* _run_trial: a new session, then a message under a fresh client_message_id.

PostSession ==
  /\ At("session")
  /\ Goto("message")
  /\ Local /\ Smooth

PostSessionFails ==
  /\ At("session")
  /\ Fail("other")
  /\ Local /\ Fault

PostMessage ==
  /\ At("message")
  /\ Accepted(Trial)
  /\ job' = [job EXCEPT !.pc = "poll", !.run = Len(runs) + 1]
  /\ NoFile /\ Smooth

\* The request or its answer is lost: the target may have started a run.
PostMessageFails ==
  /\ At("message")
  /\ Accepted(Trial) \/ UNCHANGED runs
  /\ Fail("other")
  /\ NoFile /\ Fault

-----------------------------------------------------------------------------
\* _poll_run: poll until the run ends or the deadline has passed, then ask for
\* cancellation and wait for it until the grace period has passed.

PollEnded ==
  /\ At("poll")
  /\ Ended(job.run)
  /\ Goto("export")
  /\ Local /\ Smooth

PollWaits ==
  /\ At("poll")
  /\ ~ Ended(job.run)
  /\ job.waited < Timeout
  /\ job' = [job EXCEPT !.waited = @ + 1]
  /\ Local /\ Smooth

PollReturnsAnyway ==  \* a bug: the deadline ends the loop without an error
  /\ At("poll")
  /\ ~ Ended(job.run)
  /\ job.waited >= Timeout
  /\ Goto("export")
  /\ Local /\ Smooth

PollExpires ==
  /\ At("poll")
  /\ ~ Ended(job.run)
  /\ job.waited >= Timeout
  /\ IF CancelOnTimeout
     THEN job' = [job EXCEPT !.pc = "cancel", !.waited = 0]
     ELSE Fail("timeout")
  /\ Local /\ Smooth

PollFails ==
  /\ At("poll")
  /\ Fail("other")
  /\ Local /\ Fault

\* What becomes of the request is the target's affair: it may end the run as
\* cancelled, as anything else, or not at all.
RequestCancel ==
  /\ At("cancel")
  /\ Goto("grace")
  /\ Local /\ Smooth

RequestCancelFails ==
  /\ At("cancel")
  /\ Fail("timeout")
  /\ Local /\ Fault

GraceWaits ==
  /\ At("grace")
  /\ ~ Ended(job.run)
  /\ job.waited < Grace
  /\ job' = [job EXCEPT !.waited = @ + 1]
  /\ Local /\ Smooth

GraceUnbounded ==  \* a bug: the grace period is not checked
  /\ At("grace")
  /\ Ended(job.run)
  /\ Fail("timeout")
  /\ Local /\ Smooth

GraceOver ==
  /\ At("grace")
  /\ Ended(job.run) \/ job.waited >= Grace
  /\ Fail("timeout")
  /\ Local /\ Smooth

\* The wait's own requests are suppressed: the trial stays a timeout.
GraceFails ==
  /\ At("grace")
  /\ ~ Ended(job.run)
  /\ Fail("timeout")
  /\ Local /\ Fault

Poll ==
  PollEnded \/ PollWaits \/ PollExpires \/ PollFails \/ RequestCancel
    \/ RequestCancelFails \/ GraceWaits \/ GraceOver \/ GraceFails

-----------------------------------------------------------------------------
\* The evidence of a finished run: export, claim verification, four files (the
\* normalized trace and the evaluation are functions of the snapshot, and are
\* written between it and the claim report), and the score.

SnapshotOf(r) == [run |-> r, status |-> runs[r].status, clean |-> runs[r].clean]

Export ==
  /\ At("export")
  /\ job' = [job EXCEPT !.pc = "claims", !.snapshot = SnapshotOf(job.run)]
  /\ Local /\ Smooth

ExportFails ==
  /\ At("export")
  /\ Fail("other")
  /\ Local /\ Fault

\* verify_deepresearch_claims: judged, or without a judge (none, or it failed).
\* Only a task that must be completed is judged for fulfillment, and a clean
\* completed run has claims to judge.
ClaimReports(snapshot, expected) ==
  LET required == expected = "completed"
  IN  {ClaimReport(snapshot.run, None, required, None)} \cup
      {ClaimReport(snapshot.run, j.semantic, required, IF required THEN j.fulfilled ELSE None) :
         j \in {k \in Judgments : snapshot.clean => k.semantic # None}}

VerifyClaims ==
  /\ At("claims")
  /\ \E c \in ClaimReports(job.snapshot, Expected(Trial)) :
       job' = [job EXCEPT !.pc = "write_snapshot", !.claims = c]
  /\ Local /\ Smooth

WriteSnapshotOnce ==  \* a bug: a file that is there already is kept
  /\ At("write_snapshot")
  /\ artifacts' = IF artifacts[Trial].snapshot = None
                  THEN [artifacts EXCEPT ![Trial].snapshot = job.snapshot]
                  ELSE artifacts
  /\ Goto("write_claims")
  /\ UNCHANGED <<runs, report, rescored, starts, faults>>

WriteSnapshot ==
  /\ At("write_snapshot")
  /\ artifacts' = [artifacts EXCEPT ![Trial].snapshot = job.snapshot]
  /\ Goto("write_claims")
  /\ UNCHANGED <<runs, report, rescored, starts, faults>>

Scored(acceptance) ==
  LET outcome == Outcome(Expected(Trial), job.snapshot, job.claims, acceptance)
  IN  [run |-> job.run, expected |-> Expected(Trial), status |-> job.snapshot.status,
       completed |-> outcome.completed, passed |-> outcome.passed,
       quality |-> outcome.quality, acceptance |-> acceptance,
       error |-> IF job.snapshot.status \in {"failed", "cancelled"} THEN "target" ELSE None,
       kept |-> TRUE]

\* _evaluate_task_acceptance says nothing of a task without a contract.
WriteClaims ==
  /\ At("write_claims")
  /\ artifacts' = [artifacts EXCEPT ![Trial].claims = job.claims]
  /\ \E a \in IF Plan[Trial].contract THEN BOOLEAN ELSE {None} : Finish(Scored(a))
  /\ UNCHANGED <<runs, report, rescored, starts, faults>>

WriteFails ==
  /\ At("write_snapshot") \/ At("write_claims")
  /\ Fail("other")
  /\ Local /\ Fault

\* The files are written, and the score meets a value it cannot read.
ScoreFails ==
  /\ At("write_claims")
  /\ artifacts' = [artifacts EXCEPT ![Trial].claims = job.claims]
  /\ Fail("other")
  /\ UNCHANGED <<runs, report, rescored, starts>>
  /\ Fault

\* _capture_failed_run: the run as it is now, under the original error.
CaptureFinished ==  \* a bug: a run that has ended meanwhile is scored
  /\ At("capture")
  /\ LET s == SnapshotOf(job.run)
     IN  /\ artifacts' = [artifacts EXCEPT ![Trial].snapshot = s]
         /\ Finish([ErrorResult(job.error) EXCEPT
                      !.status = s.status, !.quality = "unverified", !.kept = TRUE,
                      !.passed = s.status = Expected(Trial) /\ s.clean])
  /\ UNCHANGED <<runs, report, rescored, starts, faults>>

Capture ==
  /\ At("capture")
  /\ LET s == SnapshotOf(job.run)
     IN  /\ artifacts' = [artifacts EXCEPT ![Trial].snapshot = s]
         /\ Finish([ErrorResult(job.error) EXCEPT
                      !.status = s.status, !.quality = "unverified", !.kept = TRUE])
  /\ UNCHANGED <<runs, report, rescored, starts, faults>>

\* Any exception while capturing, before or after the snapshot was written.
CaptureFails ==
  /\ At("capture")
  /\ \/ artifacts' = [artifacts EXCEPT ![Trial].snapshot = SnapshotOf(job.run)]
     \/ UNCHANGED artifacts
  /\ Finish(ErrorResult(job.error))
  /\ UNCHANGED <<runs, report, rescored, starts>>
  /\ Fault

Evidence ==
  Export \/ ExportFails \/ VerifyClaims \/ WriteSnapshot
    \/ WriteClaims \/ WriteFails \/ ScoreFails \/ Capture \/ CaptureFails

-----------------------------------------------------------------------------
\* The report replaces its path at once; the Markdown summary follows.

WriteReport ==
  /\ At("report")
  /\ report' = job.results
  /\ Goto("summary")
  /\ UNCHANGED <<runs, artifacts, rescored, starts, faults>>

WriteSummary ==
  /\ At("summary")
  /\ job' = Off
  /\ Local /\ Smooth

\* The process dies, or an exception nobody catches ends it without a report:
\* sqlite3.Error while exporting, OSError while writing the report.
Crash ==
  /\ ~ At("off")
  /\ job' = Off
  /\ Local /\ Fault

-----------------------------------------------------------------------------
\* rescore_deepresearch_benchmark.

UsesSnapshot(i) == report[i].kept

ClaimFilesUnchecked ==  \* a bug: whose claims a file holds is not checked
  /\ \A i \in DOMAIN report :
       IF UsesSnapshot(i) THEN artifacts[i].claims # None ELSE ~ report[i].completed

\* With claim files: each retained snapshot has one, of its own run, and they
\* were all judged or all not.
ClaimFilesUsable ==
  /\ \A i \in DOMAIN report :
       IF UsesSnapshot(i)
       THEN artifacts[i].claims # None /\ artifacts[i].claims.run = artifacts[i].snapshot.run
       ELSE ~ report[i].completed
  /\ \E judged \in BOOLEAN, i \in DOMAIN report :
       /\ UsesSnapshot(i) /\ report[i].expected = "completed"
       /\ \A k \in DOMAIN report :
            UsesSnapshot(k) /\ report[k].expected = "completed"
              => (artifacts[k].claims.semantic # None) = judged

\* Verdict, quality and completion are recomputed from the retained files;
\* acceptance and error are the report's.
RescoredTrial(i, with_claims) ==
  LET s == artifacts[i].snapshot
      c == IF with_claims THEN artifacts[i].claims
           ELSE ClaimReport(s.run, None, FALSE, None)
      outcome == Outcome(report[i].expected, s, c, report[i].acceptance)
  IN  [report[i] EXCEPT !.completed = outcome.completed, !.passed = outcome.passed,
                        !.quality = outcome.quality]

Rescore(with_claims) ==
  /\ report # None
  /\ rescored = None
  /\ with_claims => ClaimFilesUsable
  /\ rescored' = [with_claims |-> with_claims,
                  trials |-> [i \in DOMAIN report |->
                                IF UsesSnapshot(i) THEN RescoredTrial(i, with_claims)
                                ELSE report[i]]]
  /\ UNCHANGED <<runs, job, artifacts, report, starts, faults>>

-----------------------------------------------------------------------------
Runner ==
  PostSession \/ PostSessionFails \/ PostMessage \/ PostMessageFails \/ Poll \/ Evidence
    \/ WriteReport \/ WriteSummary

\* The process has ended and is not started again.
Stopped == At("off") /\ UNCHANGED vars

Next ==
  \/ \E r \in DOMAIN runs : RunEnds(r)
  \/ Start \/ Runner \/ Crash \/ Stopped
  \/ \E with_claims \in BOOLEAN : Rescore(with_claims)

Spec == Init /\ [][Next]_vars

\* Requests have a timeout of their own, sleeps end and the judge makes a
\* bounded number of attempts; nothing is assumed of the target.
FairSpec == Spec /\ WF_vars(Runner)

-----------------------------------------------------------------------------
(***************************************************************************)
(* Properties.                                                             *)
(***************************************************************************)

\* A result that was not charged to the runner describes a run of its own
\* trial and start that has really ended that way, and the snapshot on disk is
\* the one of that run, whatever earlier starts have left in the directory.
Founded(t, result) ==
  /\ result.error \in {None, "target"} =>
       /\ result.run \in DOMAIN runs
       /\ runs[result.run].status = result.status
       /\ Ended(result.run)
       /\ artifacts[t].snapshot = SnapshotOf(result.run)
       /\ artifacts[t].claims # None
       /\ artifacts[t].claims.run = result.run
  /\ result.kept =>
       /\ result.run \in DOMAIN runs
       /\ artifacts[t].snapshot # None
       /\ artifacts[t].snapshot.run = result.run
       /\ runs[result.run].trial = t
       /\ runs[result.run].start = starts
       /\ artifacts[t].snapshot.status = result.status

ResultsAreFounded ==
  /\ \A t \in DOMAIN job.results : Founded(t, job.results[t])
  /\ report # None => \A t \in DOMAIN report : Founded(t, report[t])

\* A trial whose run still executes while a later one is under way is reported
\* as failed: overlap with its successors never goes unnoticed.
OverlapIsReported ==
  \A r \in DOMAIN runs :
    /\ runs[r].status = "executing"
    /\ runs[r].start = starts
    /\ runs[r].trial \in DOMAIN job.results
    => job.results[runs[r].trial].error \in {"timeout", "other"}

\* Diagnostic capture never turns a runner error into a pass, whatever the run
\* has become by the time it is captured.
CapturedNeverPasses ==
  /\ \A t \in DOMAIN job.results : job.results[t].passed => job.results[t].error = None
  /\ report # None => \A t \in DOMAIN report : report[t].passed => report[t].error = None

\* Rescoring does not either.
RescoreKeepsErrors ==
  rescored # None =>
    \A t \in DOMAIN rescored.trials : rescored.trials[t].passed => report[t].error = None

\* Every pass is counted by exactly one of the bounds of the evidence-supported
\* pass rate: no pass has been refuted, in the report or rescored.
BoundsCoverPasses ==
  LET Covered(results) ==
        PassedTrials(results) = VerifiedPasses(results) \cup PotentialPasses(results)
  IN  /\ report # None => Covered(report)
      /\ rescored # None => Covered(rescored.trials)

\* Once written, the report and the artifacts it names are final.
ReportIsFinal ==
  [][report # None => report' = report /\ artifacts' = artifacts]_vars

\* A rescore never grades a run by the claims of another one, although an
\* earlier start may have left its claim report beside the newer snapshot.
RescoreUsesOwnClaims ==
  rescored # None /\ rescored.with_claims =>
    \A t \in DOMAIN report :
      UsesSnapshot(t) => artifacts[t].claims.run = report[t].run

\* A benchmark ends, even when the target never ends a run.
BenchmarkEnds == ~ At("off") ~> At("off")
=============================================================================

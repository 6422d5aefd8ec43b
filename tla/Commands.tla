------------------------------- MODULE Commands -------------------------------
(***************************************************************************)
(* The commands of the command line (cli.py).  Each does some work that    *)
(* may fail, writes the files it was asked for, and tells by its exit      *)
(* status whether what it looked at is acceptable.  Files that are meant   *)
(* to be immutable are looked for before they are written.                 *)
(*                                                                         *)
(* Somebody may give the same command again after it ended, with the       *)
(* files that the first run left.                                          *)
(***************************************************************************)
EXTENDS Job, Naturals, Sequences, SequencesExt, FiniteSets

CONSTANT MaxRuns   \* bound: how often a command is given

ASSUME RunAssumption == MaxRuns \in Nat \ {0}

\* The steps of a command.  What it catches ends it with its own status, what
\* it does not catch with the interpreter's, 1.
Work(code) == [op |-> "work", file |-> None, code |-> code]
Refuse(file, code) == [op |-> "refuse", file |-> file, code |-> code]
Save(file, code) == [op |-> "save", file |-> file, code |-> code]
Exit(code) == [op |-> "exit", file |-> None, code |-> code]

\* _write_new_json: an existing file raises what the command catches.
SaveNew(file, code) == <<Refuse(file, code), Save(file, code)>>

\* An artifact is printed unless it has a file.
Artifact1(code) == <<Work(code), Save("output", 1), Exit(0)>>

Uncaught == 1

ImportWasmhatch == <<Work(Uncaught), Exit(2)>>
ImportDeepresearch == <<Work(Uncaught), Save("output", 1), Exit(2)>>
EvaluateDatabase ==
  <<Work(Uncaught), Save("snapshot", 1), Work(Uncaught), Save("output", 1), Exit(2)>>
RunBenchmark ==
  <<Work(18), Refuse("benchmark report", 18), Work(18),
    Save("benchmark report", 18), Save("benchmark summary", 18), Exit(18)>>
RescoreBenchmark ==
  <<Refuse("rescored report", 18), Work(18), Save("rescored report", 18),
    Save("summary", 1), Exit(0)>>
EvaluateTrajectory == <<Work(23), Save("output", 1), Save("summary", 1), Exit(23)>>
ValidateAnnotations == <<Work(24), Exit(0)>>
BuildTrajectoryBenchmark == <<Work(25)>> \o SaveNew("manifest", 25) \o <<Exit(0)>>
MaterializeTrajectory == <<Work(26)>> \o SaveNew("trajectory manifest", 26) \o <<Exit(0)>>
VerifyClaims == <<Work(19), Save("output", 1), Exit(19)>>
InjectFaults ==
  <<Work(20), Refuse("fault report", 20), Work(20), Save("mutants", 20),
    Save("fault report", 20), Exit(20)>>
ReportFirst ==  \* a bug: the report is written before the manifest it is about
  <<Work(21), Refuse("challenge report", 21), Refuse("challenge manifest", 21),
    Save("challenge report", 21), Save("challenge manifest", 21)>>

ChallengeFiles ==
  <<Work(21), Refuse("challenge report", 21), Refuse("challenge manifest", 21),
    Save("challenge manifest", 21), Save("challenge report", 21)>>
BuildChallenge == ChallengeFiles \o <<Exit(0)>>
CompareBenchmarks == <<Work(21)>> \o SaveNew("regression report", 21) \o <<Exit(21)>>
RunRegressionLoop ==
  <<Refuse("loop report", 21)>> \o ChallengeFiles
  \o <<Refuse("benchmark report", 21), Work(21), Save("benchmark report", 21),
       Save("benchmark summary", 21), Work(21)>>
  \o SaveNew("loop report", 21) \o <<Exit(21)>>
CompareTraces == <<Work(Uncaught), Exit(3)>>
ExportFeedback == Artifact1(11)
ExportReward == Artifact1(11)
ExportRewardEvent == <<Work(11), Work(10), Save("output", 1), Exit(0)>>
ExportGepaEvaluation == Artifact1(11)
RunGepa == Artifact1(12)
ValidateGepa == <<Work(13), Save("output", 1), Exit(13)>>
RunStability == <<Work(14), Save("output", 1), Exit(14)>>
MineHardCases == Artifact1(15)
CurateHardCases ==
  <<Refuse("hard-case dataset", 16), Work(16), Save("hard-case dataset", 1), Exit(0)>>
RunDataset == <<Work(Uncaught), Save("output", 1), Exit(4)>>
RunReplay == <<Work(Uncaught), Save("output", 1), Exit(5)>>
EvaluateBatch == <<Work(Uncaught), Save("output", 1), Save("summary", 1), Exit(6)>>
CompareBatchFiles ==
  <<Work(Uncaught), Save("output", 1), Save("summary", 1), Save("html", 1), Save("junit", 1),
    Exit(7)>>
JudgeOneTrace == <<Work(8), Save("output", 1), Exit(8)>>
AnalyzeCalibration == <<Work(Uncaught), Save("output", 1), Save("summary", 1), Exit(9)>>

AuditOverSummary ==  \* a bug: an earlier summary is written over
  <<Work(19), Refuse("readiness report", 19), Save("readiness report", 1),
    Save("readiness summary", 1), Exit(19)>>

AuditEvidence ==
  <<Work(19), Refuse("readiness report", 19), Save("readiness report", 1),
    Refuse("readiness summary", 19), Save("readiness summary", 1), Exit(19)>>

QueueReview == <<Work(10), Exit(10)>>
ListReviews == <<Work(Uncaught), Save("output", 1), Exit(0)>>
ResolveReview == <<Work(10), Exit(0)>>
ExportReviewLabels ==
  <<Refuse("review labels", 10), Work(10), Save("review labels", 1), Exit(0)>>

CommandLines ==
  {ImportWasmhatch, ImportDeepresearch, EvaluateDatabase, RunBenchmark, RescoreBenchmark,
   EvaluateTrajectory, ValidateAnnotations, BuildTrajectoryBenchmark, MaterializeTrajectory,
   VerifyClaims, InjectFaults, BuildChallenge, CompareBenchmarks, RunRegressionLoop,
   CompareTraces, ExportFeedback, ExportReward, ExportRewardEvent, ExportGepaEvaluation,
   RunGepa, ValidateGepa, RunStability, MineHardCases, CurateHardCases, RunDataset, RunReplay,
   EvaluateBatch, CompareBatchFiles, JudgeOneTrace, AnalyzeCalibration, AuditEvidence,
   QueueReview, ListReviews, ResolveReview, ExportReviewLabels}

\* Files a command writes if it is asked to; it cannot but write the others.
OnRequest ==
  {"output", "summary", "snapshot", "html", "junit", "mutants", "regression report",
   "readiness report", "readiness summary"}

FilesOf(command) == {command[i].file : i \in DOMAIN command} \ {None}

-----------------------------------------------------------------------------
\* versions: what has been written to each file, by which run and whether whole.
Earlier == <<[by |-> 0, whole |-> TRUE]>>

CommandInit ==
  \E command \in CommandLines :
    \E requested \in {r \in SUBSET FilesOf(command) : FilesOf(command) \ OnRequest \subseteq r},
       existing \in {{}} \cup {FilesOf(command)} \cup {{f} : f \in FilesOf(command)} :
      job = [tool |-> "command", pc |-> "step", command |-> command, at |-> 1,
             requested |-> requested, run |-> 1, positive |-> FALSE,
             versions |-> [f \in FilesOf(command) |-> IF f \in existing THEN Earlier ELSE << >>],
             result |-> None]

Step == job.command[job.at]

At(op) == Running("command", "step") /\ Step.op = op

ExitWith(code) == job' = [job EXCEPT !.pc = "ended", !.result = code]

GoOn == job' = [job EXCEPT !.at = @ + 1]

\* The work is done, with a result that is acceptable or not.
WorkSucceeds ==
  /\ At("work")
  /\ \E positive \in BOOLEAN : job' = [job EXCEPT !.at = @ + 1, !.positive = positive]

WorkFails == At("work") /\ \E code \in {Step.code, Uncaught} : ExitWith(code)

RefuseExisting ==
  /\ At("refuse")
  /\ IF Step.file \in job.requested /\ job.versions[Step.file] # << >>
     THEN ExitWith(Step.code) ELSE GoOn

\* write_text replaces what is there, in whole or up to where it fails.
SaveFile ==
  /\ At("save")
  /\ IF Step.file \in job.requested
     THEN job' = [job EXCEPT !.at = @ + 1,
                    !.versions[Step.file] = Append(@, [by |-> job.run, whole |-> TRUE])]
     ELSE GoOn

SaveFails ==
  /\ At("save") /\ Step.file \in job.requested
  /\ \E code \in {Step.code, Uncaught}, left \in {<< >>, <<[by |-> job.run, whole |-> FALSE]>>} :
       job' = [job EXCEPT !.pc = "ended", !.result = code, !.versions[Step.file] = @ \o left]

\* A command with a status of its own ends with it unless the result is acceptable.
Return == At("exit") /\ ExitWith(IF job.positive THEN 0 ELSE Step.code)

GiveAgain ==
  /\ Running("command", "ended") /\ job.run < MaxRuns
  /\ job' = [job EXCEPT !.pc = "step", !.at = 1, !.run = @ + 1, !.positive = FALSE,
                        !.result = None]

CommandSteps == WorkSucceeds \/ WorkFails \/ RefuseExisting \/ SaveFile \/ SaveFails \/ Return

-----------------------------------------------------------------------------
\* What the messages of cli.py and docs call immutable.
Immutable ==
  {"benchmark report", "rescored report", "manifest", "trajectory manifest", "fault report",
   "challenge report", "challenge manifest", "regression report", "loop report",
   "hard-case dataset", "readiness report", "readiness summary", "review labels"}

\* A script may rely on the exit status: 0 means that the result is acceptable,
\* where the command rates it, and that every file that was asked for is there,
\* whole and of this run.  And however a command fails and is given again, a
\* file that is meant to be immutable keeps its first content.
ExitTellsVerdict ==
  job.tool = "command" =>
    /\ job.pc = "ended" /\ job.result = 0 =>
         /\ Last(job.command).code # 0 => job.positive
         /\ \A f \in job.requested :
              /\ job.versions[f] # << >>
              /\ Last(job.versions[f]) = [by |-> job.run, whole |-> TRUE]
    /\ \A f \in DOMAIN job.versions \cap Immutable : Len(job.versions[f]) <= 1

\* A manifest that a failure left without a report stays without one: wherever a
\* challenge report of some run is found, the manifest of the same run is beside
\* it and whole, however often the command fails and is given again.
ReportHasItsManifest ==
  job.tool = "command" /\ {"challenge manifest", "challenge report"} \subseteq DOMAIN job.versions =>
    \A k \in DOMAIN job.versions["challenge report"] :
      LET run == job.versions["challenge report"][k].by
      IN  run # 0 => job.versions["challenge manifest"] = <<[by |-> run, whole |-> TRUE]>>
=============================================================================

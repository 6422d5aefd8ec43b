----------------------------- MODULE ToolsProofs -----------------------------
(***************************************************************************)
(* What the tools promise, for every value of the constants.  A behaviour  *)
(* of Tools is one job of one tool, so each proof first shows that only    *)
(* that tool's own actions can touch its job, and then finds an inductive  *)
(* invariant of the tool alone.                                            *)
(***************************************************************************)
EXTENDS Tools, LibraryLemmas, FiniteSetTheorems, SequenceTheorems, TLAPS

-----------------------------------------------------------------------------
\* One job, one tool.

\* A job has a tool, and this step leaves it to it.
HasTool == "tool" \in DOMAIN job

SameTool == HasTool /\ HasTool' /\ job'.tool = job.tool

\* A job starts as a job of its tool.
OwnInit ==
  \/ job.tool = "provider" /\ ProviderInit
  \/ job.tool = "hard cases" /\ MiningInit
  \/ job.tool = "readiness" /\ ReadinessInit
  \/ job.tool = "faults" /\ FaultsInit
  \/ job.tool = "batches" /\ BatchesInit
  \/ job.tool = "regression" /\ RegressionInit
  \/ job.tool = "body" /\ BodyInit
  \/ job.tool = "command" /\ CommandInit
  \/ job.tool = "trajectory" /\ TrajectoryInit
  \/ job.tool = "calibration" /\ CalibrationInit

LEMMA StartsWithTool == Init => HasTool /\ OwnInit
<1> USE DEF HasTool
<1>1. ProviderInit => HasTool /\ job.tool = "provider"
  BY DEF ProviderInit, Request
<1>2. MiningInit => HasTool /\ job.tool = "hard cases"
  <2>1. ASSUME NEW samples, NEW left, NEW taken, NEW round,
               job = [tool |-> "hard cases", pc |-> "mine", samples |-> samples,
                      left |-> left, taken |-> taken, round |-> round, progressed |-> FALSE,
                      selected |-> << >>, complete |-> FALSE, curated |-> {}, rejected |-> {},
                      result |-> None]
        PROVE  HasTool /\ job.tool = "hard cases"
    BY <2>1
  <2>2. QED
    BY ONLY <2>1, Zenon DEF MiningInit
<1>3. ReadinessInit => HasTool /\ job.tool = "readiness"
  BY DEF ReadinessInit
<1>4. FaultsInit => HasTool /\ job.tool = "faults"
  BY DEF FaultsInit
<1>5. BatchesInit => HasTool /\ job.tool = "batches"
  BY DEF BatchesInit
<1>6. RegressionInit => HasTool /\ job.tool = "regression"
  <2>1. ASSUME NEW policy, NEW baseline, NEW files,
               job = [tool |-> "regression", pc |-> "cluster", policy |-> policy,
                      baseline |-> baseline, left |-> {}, selected |-> << >>, files |-> files,
                      candidate |-> None, result |-> None]
        PROVE  HasTool /\ job.tool = "regression"
    BY <2>1
  <2>2. QED
    BY ONLY <2>1, Zenon DEF RegressionInit
<1>7. BodyInit => HasTool /\ job.tool = "body"
  BY DEF BodyInit
<1>8. CommandInit => HasTool /\ job.tool = "command"
  BY DEF CommandInit
<1>9. TrajectoryInit => HasTool /\ job.tool = "trajectory"
  BY DEF TrajectoryInit
<1>10. CalibrationInit => HasTool /\ job.tool = "calibration"
  BY DEF CalibrationInit
<1>11. QED
  BY <1>1, <1>2, <1>3, <1>4, <1>5, <1>6, <1>7, <1>8, <1>9, <1>10
     DEF Init, OwnInit

LEMMA ProviderApart == HasTool /\ ProviderNext => job.tool = "provider" /\ SameTool
  BY DEF HasTool, SameTool, ProviderNext, Unavailable, Rejected, Malformed, EmptyContent,
         JudgeAnswers, ReflectionAnswers, TaskAnswers, ClaimsAnswer, ClaimsReturn, Asking,
         Running, TryAgain, RaiseError, Answered

LEMMA MiningApart == HasTool /\ MiningNext => job.tool = "hard cases" /\ SameTool
  BY DEF HasTool, SameTool, MiningNext, TakeCase, SkipBucket, NextRound, MiningEnds, OtherSource,
         Curate, Refuses, Mining, Take, Running

LEMMA ReadinessApart == HasTool /\ ReadinessNext => job.tool = "readiness" /\ SameTool
  BY DEF HasTool, SameTool, ReadinessNext, AuditReport, CheckDigest, CheckContent,
         ReplaceArtifact, Decide, Running

LEMMA FaultsApart == HasTool /\ FaultsNext => job.tool = "faults" /\ SameTool
  BY DEF HasTool, SameTool, FaultsNext, OpenOutput, InjectFault, InjectionFails,
         ReportFaults, SuiteFails, Running

LEMMA BatchesApart == HasTool /\ BatchesNext => job.tool = "batches" /\ SameTool
  BY DEF HasTool, SameTool, BatchesNext, EvaluateEntry, EntryUnreadable, NextBatch,
         ApplyPolicy, CompareBatches, Loading, Running

LEMMA RegressionApart == HasTool /\ RegressionNext => job.tool = "regression" /\ SameTool
  BY DEF HasTool, SameTool, RegressionNext, GroupTrials, TakeCluster, TakeSentinel,
         FinishSelection, WriteManifest, WriteReport, CompareReports, Writes, Fails, Running

LEMMA BodyApart == HasTool /\ BodyNext => job.tool = "body" /\ SameTool
  BY DEF HasTool, SameTool, BodyNext, ReadHeaders, BodyChunk, BodyComplete, InflateBody,
         KeepBody, ParseBody, HttpError, Running

LEMMA CommandApart ==
  HasTool /\ (CommandSteps \/ GiveAgain) => job.tool = "command" /\ SameTool
  BY DEF HasTool, SameTool, CommandSteps, GiveAgain, WorkSucceeds, WorkFails, RefuseExisting,
         SaveFile, SaveFails, Return, At, ExitWith, GoOn, Running

LEMMA TrajectoryApart ==
  HasTool /\ (TrajectorySteps \/ ReviewQueue) => job.tool = "trajectory" /\ SameTool
  BY DEF HasTool, SameTool, TrajectorySteps, ReviewQueue, BuildBenchmarkManifest, Materialize,
         OutputRefused, ScoreCase, SnapshotUnreadable, ReportTrajectories, TrajectoryFails,
         Running

LEMMA CalibrationApart == HasTool /\ CalibrationNext => job.tool = "calibration" /\ SameTool
  BY DEF HasTool, SameTool, CalibrationNext, CollectRatings, AnalyzeJudge, ReportCalibration,
         Running

\* A step of any tool is a step of the job's own.
OwnStep ==
  \/ job.tool = "provider" /\ ProviderNext
  \/ job.tool = "hard cases" /\ MiningNext
  \/ job.tool = "readiness" /\ ReadinessNext
  \/ job.tool = "faults" /\ FaultsNext
  \/ job.tool = "batches" /\ BatchesNext
  \/ job.tool = "regression" /\ RegressionNext
  \/ job.tool = "body" /\ BodyNext
  \/ job.tool = "command" /\ (CommandSteps \/ GiveAgain)
  \/ job.tool = "trajectory" /\ (TrajectorySteps \/ ReviewQueue)
  \/ job.tool = "calibration" /\ CalibrationNext
  \/ UNCHANGED job

LEMMA OneTool == HasTool /\ [Next]_job => SameTool /\ OwnStep
<1> SUFFICES ASSUME HasTool, [Next]_job PROVE SameTool /\ OwnStep
  OBVIOUS
<1>1. UNCHANGED job => SameTool
  BY DEF SameTool, HasTool
<1>2. QED
  BY <1>1, ProviderApart, MiningApart, ReadinessApart, FaultsApart, BatchesApart,
     RegressionApart, BodyApart, CommandApart, TrajectoryApart, CalibrationApart
     DEF Next, Ended, OwnStep

-----------------------------------------------------------------------------
\* The command line.

Steps(command) == Len(command) \in Nat \ {0} /\ DOMAIN command = 1..Len(command)

\* A command only ends at its end, and no failure before has the status 0.
EndsAtEnd(command) ==
  \A i \in DOMAIN command :
    /\ command[i].op = "exit" <=> i = Len(command)
    /\ command[i].op # "exit" => command[i].code # 0

\* Every file that is looked for is also written.
FilesAreSaved(command) ==
  \A i \in DOMAIN command : command[i].file # None =>
    \E k \in DOMAIN command : command[k].op = "save" /\ command[k].file = command[i].file

\* An immutable file is looked for before it is written, and not written in between.
LooksFirst(command) ==
  \A i \in DOMAIN command : command[i].op = "save" /\ command[i].file \in Immutable =>
    \E j \in 1..(i - 1) :
      /\ command[j].op = "refuse" /\ command[j].file = command[i].file
      /\ \A k \in j..(i - 1) : command[k].op = "save" => command[k].file # command[i].file

Line(command) ==
  Steps(command) /\ EndsAtEnd(command) /\ FilesAreSaved(command) /\ LooksFirst(command)

LEMMA StepFields ==
  ASSUME NEW file, NEW code
  PROVE  /\ Work(code).op = "work" /\ Work(code).file = None /\ Work(code).code = code
         /\ Exit(code).op = "exit" /\ Exit(code).file = None
         /\ Refuse(file, code).op = "refuse" /\ Refuse(file, code).file = file
         /\ Refuse(file, code).code = code
         /\ Save(file, code).op = "save" /\ Save(file, code).file = file
         /\ Save(file, code).code = code
  BY DEF Work, Exit, Refuse, Save

\* Work that writes nothing.
LEMMA LineWE ==
  ASSUME NEW w, w # 0, NEW e
  PROVE  Line(<<Work(w), Exit(e)>>)
<1> DEFINE line == <<Work(w), Exit(e)>>
<1>1. /\ Len(line) = 2 /\ DOMAIN line = 1..2
      /\ line[1] = Work(w) /\ line[2] = Exit(e)
  OBVIOUS
<1> HIDE DEF line
<1>2. QED
  BY <1>1, StepFields, SMTT(60)
     DEF line, Line, Steps, EndsAtEnd, FilesAreSaved, LooksFirst

\* Work that writes an artifact,
LEMMA LineWSE ==
  ASSUME NEW w, w # 0, NEW f, f \notin Immutable, NEW c, c # 0, NEW e
  PROVE  Line(<<Work(w), Save(f, c), Exit(e)>>)
<1> DEFINE line == <<Work(w), Save(f, c), Exit(e)>>
<1>1. /\ Len(line) = 3 /\ DOMAIN line = 1..3
      /\ line[1] = Work(w) /\ line[2] = Save(f, c) /\ line[3] = Exit(e)
  OBVIOUS
<1> HIDE DEF line
<1>2. QED
  BY <1>1, StepFields, SMTT(60)
     DEF line, Line, Steps, EndsAtEnd, FilesAreSaved, LooksFirst

\* an artifact and its summary,
LEMMA LineWSSE ==
  ASSUME NEW w, w # 0, NEW f, NEW g, {f, g} \cap Immutable = {}, NEW c, c # 0, NEW e
  PROVE  Line(<<Work(w), Save(f, c), Save(g, c), Exit(e)>>)
<1> DEFINE line == <<Work(w), Save(f, c), Save(g, c), Exit(e)>>
<1>1. /\ Len(line) = 4 /\ DOMAIN line = 1..4
      /\ line[1] = Work(w) /\ line[2] = Save(f, c) /\ line[3] = Save(g, c)
      /\ line[4] = Exit(e)
  OBVIOUS
<1> HIDE DEF line
<1>2. QED
  BY <1>1, StepFields, SMTT(60)
     DEF line, Line, Steps, EndsAtEnd, FilesAreSaved, LooksFirst

\* a file that must not be there before the work,
LEMMA LineRWSE ==
  ASSUME NEW w, w # 0, NEW f, NEW c, c # 0, NEW e
  PROVE  Line(<<Refuse(f, w), Work(w), Save(f, c), Exit(e)>>)
<1> DEFINE line == <<Refuse(f, w), Work(w), Save(f, c), Exit(e)>>
<1>1. /\ Len(line) = 4 /\ DOMAIN line = 1..4
      /\ line[1] = Refuse(f, w) /\ line[2] = Work(w) /\ line[3] = Save(f, c)
      /\ line[4] = Exit(e)
  OBVIOUS
<1> HIDE DEF line
<1>2. QED
  BY <1>1, StepFields, SMTT(60)
     DEF line, Line, Steps, EndsAtEnd, FilesAreSaved, LooksFirst

\* or not there after it.
LEMMA LineWRSE ==
  ASSUME NEW w, w # 0, NEW f, NEW e
  PROVE  Line(<<Work(w), Refuse(f, w), Save(f, w), Exit(e)>>)
<1> DEFINE line == <<Work(w), Refuse(f, w), Save(f, w), Exit(e)>>
<1>1. /\ Len(line) = 4 /\ DOMAIN line = 1..4
      /\ line[1] = Work(w) /\ line[2] = Refuse(f, w) /\ line[3] = Save(f, w)
      /\ line[4] = Exit(e)
  OBVIOUS
<1> HIDE DEF line
<1>2. QED
  BY <1>1, StepFields, SMTT(60)
     DEF line, Line, Steps, EndsAtEnd, FilesAreSaved, LooksFirst

\* Two kinds of work, and an artifact.
LEMMA LineWWSE ==
  ASSUME NEW w, w # 0, NEW v, v # 0, NEW c, c # 0, NEW e, NEW f, f \notin Immutable
  PROVE  Line(<<Work(w), Work(v), Save(f, c), Exit(e)>>)
<1> DEFINE line == <<Work(w), Work(v), Save(f, c), Exit(e)>>
<1>1. /\ Len(line) = 4 /\ DOMAIN line = 1..4
      /\ line[1] = Work(w) /\ line[2] = Work(v) /\ line[3] = Save(f, c)
      /\ line[4] = Exit(e)
  OBVIOUS
<1> HIDE DEF line
<1>2. QED
  BY <1>1, StepFields, SMTT(60)
     DEF line, Line, Steps, EndsAtEnd, FilesAreSaved, LooksFirst

\* An artifact after each of two pieces of work.
LEMMA LineWSWSE ==
  ASSUME NEW w, w # 0, NEW c, c # 0, NEW e,
         NEW f, NEW g, {f, g} \cap Immutable = {}
  PROVE  Line(<<Work(w), Save(f, c), Work(w), Save(g, c), Exit(e)>>)
<1> DEFINE line == <<Work(w), Save(f, c), Work(w), Save(g, c), Exit(e)>>
<1>1. /\ Len(line) = 5 /\ DOMAIN line = 1..5
      /\ line[1] = Work(w) /\ line[2] = Save(f, c) /\ line[3] = Work(w)
      /\ line[4] = Save(g, c) /\ line[5] = Exit(e)
  OBVIOUS
<1> HIDE DEF line
<1>2. QED
  BY <1>1, StepFields, SMTT(60)
     DEF line, Line, Steps, EndsAtEnd, FilesAreSaved, LooksFirst

\* Four views of the same work.
LEMMA LineWSSSSE ==
  ASSUME NEW w, w # 0, NEW c, c # 0, NEW e,
         NEW f, NEW g, NEW h, NEW i, {f, g, h, i} \cap Immutable = {}
  PROVE  Line(<<Work(w), Save(f, c), Save(g, c), Save(h, c), Save(i, c), Exit(e)>>)
<1> DEFINE line == <<Work(w), Save(f, c), Save(g, c), Save(h, c), Save(i, c), Exit(e)>>
<1>1. /\ Len(line) = 6 /\ DOMAIN line = 1..6
      /\ line[1] = Work(w) /\ line[2] = Save(f, c) /\ line[3] = Save(g, c)
      /\ line[4] = Save(h, c) /\ line[5] = Save(i, c) /\ line[6] = Exit(e)
  OBVIOUS
<1> HIDE DEF line
<1>2. QED
  BY <1>1, StepFields, SMTT(60)
     DEF line, Line, Steps, EndsAtEnd, FilesAreSaved, LooksFirst

\* A report that must not be there, and what goes with it;
LEMMA LineWRWSSE ==
  ASSUME NEW w, w # 0, NEW c, c # 0, NEW e, NEW f, NEW g, g \notin Immutable
  PROVE  Line(<<Work(w), Refuse(f, w), Work(w), Save(f, w), Save(g, w), Exit(e)>>)
<1> DEFINE line == <<Work(w), Refuse(f, w), Work(w), Save(f, w), Save(g, w), Exit(e)>>
<1>1. /\ Len(line) = 6 /\ DOMAIN line = 1..6
      /\ line[1] = Work(w) /\ line[2] = Refuse(f, w) /\ line[3] = Work(w)
      /\ line[4] = Save(f, w) /\ line[5] = Save(g, w) /\ line[6] = Exit(e)
  OBVIOUS
<1> HIDE DEF line
<1>2. QED
  BY <1>1, StepFields, SMTT(60)
     DEF line, Line, Steps, EndsAtEnd, FilesAreSaved, LooksFirst

\* the same, written in the other order;
LEMMA LineWRWSSEBefore ==
  ASSUME NEW w, w # 0, NEW c, c # 0, NEW e, NEW f, NEW g, g \notin Immutable
  PROVE  Line(<<Work(w), Refuse(f, w), Work(w), Save(g, w), Save(f, w), Exit(e)>>)
<1> DEFINE line == <<Work(w), Refuse(f, w), Work(w), Save(g, w), Save(f, w), Exit(e)>>
<1>1. /\ Len(line) = 6 /\ DOMAIN line = 1..6
      /\ line[1] = Work(w) /\ line[2] = Refuse(f, w) /\ line[3] = Work(w)
      /\ line[4] = Save(g, w) /\ line[5] = Save(f, w) /\ line[6] = Exit(e)
  OBVIOUS
<1> HIDE DEF line
<1>2. QED
  BY <1>1, StepFields, SMTT(60)
     DEF line, Line, Steps, EndsAtEnd, FilesAreSaved, LooksFirst

\* and looked for before any work.
LEMMA LineRWSSE ==
  ASSUME NEW w, w # 0, NEW c, c # 0, NEW e, NEW f, NEW g, g \notin Immutable
  PROVE  Line(<<Refuse(f, w), Work(w), Save(f, w), Save(g, c), Exit(e)>>)
<1> DEFINE line == <<Refuse(f, w), Work(w), Save(f, w), Save(g, c), Exit(e)>>
<1>1. /\ Len(line) = 5 /\ DOMAIN line = 1..5
      /\ line[1] = Refuse(f, w) /\ line[2] = Work(w) /\ line[3] = Save(f, w)
      /\ line[4] = Save(g, c) /\ line[5] = Exit(e)
  OBVIOUS
<1> HIDE DEF line
<1>2. QED
  BY <1>1, StepFields, SMTT(60)
     DEF line, Line, Steps, EndsAtEnd, FilesAreSaved, LooksFirst

\* Two reports that must not be there, one after the other,
LEMMA LineWRSRSE ==
  ASSUME NEW w, w # 0, NEW c, c # 0, NEW e, NEW f, NEW g, f # g
  PROVE  Line(<<Work(w), Refuse(f, w), Save(f, c), Refuse(g, w), Save(g, c), Exit(e)>>)
<1> DEFINE line == <<Work(w), Refuse(f, w), Save(f, c), Refuse(g, w), Save(g, c), Exit(e)>>
<1>1. /\ Len(line) = 6 /\ DOMAIN line = 1..6
      /\ line[1] = Work(w) /\ line[2] = Refuse(f, w) /\ line[3] = Save(f, c)
      /\ line[4] = Refuse(g, w) /\ line[5] = Save(g, c) /\ line[6] = Exit(e)
  OBVIOUS
<1> HIDE DEF line
<1>2. QED
  BY <1>1, StepFields, SMTT(60)
     DEF line, Line, Steps, EndsAtEnd, FilesAreSaved, LooksFirst

\* or both before either is written.
LEMMA LineWRRSSE ==
  ASSUME NEW w, w # 0, NEW c, c # 0, NEW e, NEW f, NEW g, f # g
  PROVE  Line(<<Work(w), Refuse(f, w), Refuse(g, w), Save(g, w), Save(f, w), Exit(e)>>)
<1> DEFINE line == <<Work(w), Refuse(f, w), Refuse(g, w), Save(g, w), Save(f, w), Exit(e)>>
<1>1. /\ Len(line) = 6 /\ DOMAIN line = 1..6
      /\ line[1] = Work(w) /\ line[2] = Refuse(f, w) /\ line[3] = Refuse(g, w)
      /\ line[4] = Save(g, w) /\ line[5] = Save(f, w) /\ line[6] = Exit(e)
  OBVIOUS
<1> HIDE DEF line
<1>2. QED
  BY <1>1, StepFields, SMTT(60)
     DEF line, Line, Steps, EndsAtEnd, FilesAreSaved, LooksFirst

\* The regression loop looks for its report, makes a challenge set and a
\* benchmark report as the commands for them do, and looks for its report again.
LEMMA LineLoop ==
  ASSUME NEW w, w # 0, NEW e,
         NEW l, NEW f, NEW g, NEW b, NEW s, s \notin Immutable,
         f # g, f # b, g # b, l \notin {f, g, b}
  PROVE  Line(<<Refuse(l, w), Work(w), Refuse(f, w), Refuse(g, w), Save(g, w), Save(f, w), Refuse(b, w), Work(w), Save(b, w), Save(s, w), Work(w), Refuse(l, w), Save(l, w), Exit(e)>>)
<1> DEFINE line == <<Refuse(l, w), Work(w), Refuse(f, w), Refuse(g, w), Save(g, w), Save(f, w), Refuse(b, w), Work(w), Save(b, w), Save(s, w), Work(w), Refuse(l, w), Save(l, w), Exit(e)>>
<1>1. /\ Len(line) = 14 /\ DOMAIN line = 1..14
      /\ line[1] = Refuse(l, w) /\ line[2] = Work(w) /\ line[3] = Refuse(f, w)
      /\ line[4] = Refuse(g, w) /\ line[5] = Save(g, w) /\ line[6] = Save(f, w)
      /\ line[7] = Refuse(b, w) /\ line[8] = Work(w) /\ line[9] = Save(b, w)
      /\ line[10] = Save(s, w) /\ line[11] = Work(w) /\ line[12] = Refuse(l, w)
      /\ line[13] = Save(l, w) /\ line[14] = Exit(e)
  OBVIOUS
<1> HIDE DEF line
<1>2. QED
  BY <1>1, StepFields, SMTT(60)
     DEF line, Line, Steps, EndsAtEnd, FilesAreSaved, LooksFirst

\* Pieces of a command line, put together.
LEMMA JoinOne ==
  ASSUME NEW a, NEW b, NEW c, NEW d
  PROVE  <<a>> \o <<b, c>> \o <<d>> = <<a, b, c, d>>
<1> DEFINE S == {a, b, c, d}
<1>1. <<a>> \in Seq(S) /\ <<b, c>> \in Seq(S) /\ <<d>> \in Seq(S) /\ <<a, b, c>> \in Seq(S)
      /\ <<a, b, c, d>> \in Seq(S)
  OBVIOUS
<1>2. <<a>> \o <<b, c>> = <<a, b, c>>
  <2>1. <<a>> \o <<b, c>> \in Seq(S) /\ Len(<<a>> \o <<b, c>>) = 3
        /\ \A i \in 1..3 : (<<a>> \o <<b, c>>)[i] = <<a, b, c>>[i]
    BY <1>1
  <2>2. QED
    BY <1>1, <2>1, SeqEqual
<1>3. <<a, b, c>> \o <<d>> = <<a, b, c, d>>
  <2>1. <<a, b, c>> \o <<d>> \in Seq(S) /\ Len(<<a, b, c>> \o <<d>>) = 4
        /\ \A i \in 1..4 : (<<a, b, c>> \o <<d>>)[i] = <<a, b, c, d>>[i]
    BY <1>1
  <2>2. QED
    BY <1>1, <2>1, SeqEqual
<1>4. QED
  BY <1>2, <1>3

LEMMA JoinFive ==
  ASSUME NEW a, NEW b, NEW c, NEW d, NEW e, NEW f
  PROVE  <<a, b, c, d, e>> \o <<f>> = <<a, b, c, d, e, f>>
<1> DEFINE S == {a, b, c, d, e, f}
<1>1. <<a, b, c, d, e>> \in Seq(S) /\ <<f>> \in Seq(S) /\ <<a, b, c, d, e, f>> \in Seq(S)
  OBVIOUS
<1>2. <<a, b, c, d, e>> \o <<f>> \in Seq(S) /\ Len(<<a, b, c, d, e>> \o <<f>>) = 6
      /\ \A i \in 1..6 : (<<a, b, c, d, e>> \o <<f>>)[i] = <<a, b, c, d, e, f>>[i]
  BY <1>1
<1>3. QED
  BY <1>1, <1>2, SeqEqual


LEMMA JoinIs ==
  ASSUME NEW S, NEW p \in Seq(S), NEW q \in Seq(S), NEW r \in Seq(S),
         Len(r) = Len(p) + Len(q),
         \A x \in 1..Len(p) : r[x] = p[x],
         \A x \in 1..Len(q) : r[Len(p) + x] = q[x]
  PROVE  p \o q = r
<1>1. \A x \in 1..Len(r) : (p \o q)[x] = r[x]
  <2> SUFFICES ASSUME NEW x \in 1..Len(r) PROVE (p \o q)[x] = r[x]
    OBVIOUS
  <2>1. CASE x \in 1..Len(p)
    BY <2>1, ConcatProperties
  <2>2. CASE x \notin 1..Len(p)
    <3>1. Len(p) \in Nat /\ Len(q) \in Nat
      BY LenProperties
    <3>2. x - Len(p) \in 1..Len(q) /\ Len(p) + (x - Len(p)) = x
      BY <2>2, <3>1
    <3>3. (p \o q)[x] = q[x - Len(p)]
      BY <2>2, <3>1, ConcatProperties
    <3>4. r[Len(p) + (x - Len(p))] = q[x - Len(p)]
      BY <3>2
    <3>5. QED
      BY <3>2, <3>3, <3>4
  <2>3. QED
    BY <2>1, <2>2
<1>2. p \o q \in Seq(S) /\ Len(p \o q) = Len(r)
  BY ConcatProperties
<1>3. QED
  BY <1>1, <1>2, SeqEqual

LEMMA JoinLoop ==
  RunRegressionLoop =
    <<Refuse("loop report", 21), Work(21), Refuse("challenge report", 21),
      Refuse("challenge manifest", 21), Save("challenge manifest", 21),
      Save("challenge report", 21), Refuse("benchmark report", 21), Work(21),
      Save("benchmark report", 21), Save("benchmark summary", 21), Work(21),
      Refuse("loop report", 21), Save("loop report", 21), Exit(21)>>
<1> DEFINE a == Refuse("loop report", 21)
           b == Work(21)
           c == Refuse("challenge report", 21)
           d == Refuse("challenge manifest", 21)
           e == Save("challenge manifest", 21)
           f == Save("challenge report", 21)
           g == Refuse("benchmark report", 21)
           h == Work(21)
           i == Save("benchmark report", 21)
           j == Save("benchmark summary", 21)
           k == Work(21)
           l == Refuse("loop report", 21)
           m == Save("loop report", 21)
           n == Exit(21)
<1>1. RunRegressionLoop =
        <<a>> \o <<b, c, d, e, f>> \o <<g, h, i, j, k>> \o <<l, m>> \o <<n>>
  BY DEF RunRegressionLoop, ChallengeFiles, SaveNew
<1> HIDE DEF a, b, c, d, e, f, g, h, i, j, k, l, m, n
<1> DEFINE S == {a, b, c, d, e, f, g, h, i, j, k, l, m, n}
<1>2. <<a>> \o <<b, c, d, e, f>>
      = <<a, b, c, d, e, f>>
  <2> DEFINE p == <<a>>
             q == <<b, c, d, e, f>>
             r == <<a, b, c, d, e, f>>
  <2>1. p \in Seq(S) /\ q \in Seq(S) /\ r \in Seq(S)
    OBVIOUS
  <2>2. Len(r) = Len(p) + Len(q)
    OBVIOUS
  <2>3. (\A x \in 1..Len(p) : r[x] = p[x]) /\ \A x \in 1..Len(q) : r[Len(p) + x] = q[x]
    OBVIOUS
  <2> HIDE DEF p, q, r, S
  <2>4. p \o q = r
    BY <2>1, <2>2, <2>3, JoinIs
  <2>5. QED
    BY <2>4 DEF p, q, r
<1>3. <<a, b, c, d, e, f>> \o <<g, h, i, j, k>>
      = <<a, b, c, d, e, f, g, h, i, j, k>>
  <2> DEFINE p == <<a, b, c, d, e, f>>
             q == <<g, h, i, j, k>>
             r == <<a, b, c, d, e, f, g, h, i, j, k>>
  <2>1. p \in Seq(S) /\ q \in Seq(S) /\ r \in Seq(S)
    OBVIOUS
  <2>2. Len(r) = Len(p) + Len(q)
    OBVIOUS
  <2>3. (\A x \in 1..Len(p) : r[x] = p[x]) /\ \A x \in 1..Len(q) : r[Len(p) + x] = q[x]
    OBVIOUS
  <2> HIDE DEF p, q, r, S
  <2>4. p \o q = r
    BY <2>1, <2>2, <2>3, JoinIs
  <2>5. QED
    BY <2>4 DEF p, q, r
<1>4. <<a, b, c, d, e, f, g, h, i, j, k>> \o <<l, m>>
      = <<a, b, c, d, e, f, g, h, i, j, k, l, m>>
  <2> DEFINE p == <<a, b, c, d, e, f, g, h, i, j, k>>
             q == <<l, m>>
             r == <<a, b, c, d, e, f, g, h, i, j, k, l, m>>
  <2>1. p \in Seq(S) /\ q \in Seq(S) /\ r \in Seq(S)
    OBVIOUS
  <2>2. Len(r) = Len(p) + Len(q)
    OBVIOUS
  <2>3. (\A x \in 1..Len(p) : r[x] = p[x]) /\ \A x \in 1..Len(q) : r[Len(p) + x] = q[x]
    OBVIOUS
  <2> HIDE DEF p, q, r, S
  <2>4. p \o q = r
    BY <2>1, <2>2, <2>3, JoinIs
  <2>5. QED
    BY <2>4 DEF p, q, r
<1>5. <<a, b, c, d, e, f, g, h, i, j, k, l, m>> \o <<n>>
      = <<a, b, c, d, e, f, g, h, i, j, k, l, m, n>>
  <2> DEFINE p == <<a, b, c, d, e, f, g, h, i, j, k, l, m>>
             q == <<n>>
             r == <<a, b, c, d, e, f, g, h, i, j, k, l, m, n>>
  <2>1. p \in Seq(S) /\ q \in Seq(S) /\ r \in Seq(S)
    OBVIOUS
  <2>2. Len(r) = Len(p) + Len(q)
    OBVIOUS
  <2>3. (\A x \in 1..Len(p) : r[x] = p[x]) /\ \A x \in 1..Len(q) : r[Len(p) + x] = q[x]
    OBVIOUS
  <2> HIDE DEF p, q, r, S
  <2>4. p \o q = r
    BY <2>1, <2>2, <2>3, JoinIs
  <2>5. QED
    BY <2>4 DEF p, q, r
<1>6. QED
  BY <1>1, <1>2, <1>3, <1>4, <1>5 DEF a, b, c, d, e, f, g, h, i, j, k, l, m, n

\* Every command line of cli.py keeps to these rules.
LEMMA LinesAreMade == \A command \in CommandLines : Line(command)
<1> USE Zenon DEF Uncaught
<1>1. /\ "output" \notin Immutable /\ "summary" \notin Immutable /\ "mutants" \notin Immutable
      /\ "benchmark summary" \notin Immutable
      /\ {"output", "summary"} \cap Immutable = {} /\ {"snapshot", "output"} \cap Immutable = {}
      /\ {"output", "summary", "html", "junit"} \cap Immutable = {}
  BY SMT DEF Immutable
<1>2. /\ 1 # 0 /\ 8 # 0 /\ 9 # 0 /\ 10 # 0 /\ 11 # 0 /\ 12 # 0 /\ 13 # 0 /\ 14 # 0
      /\ 15 # 0 /\ 16 # 0 /\ 18 # 0 /\ 19 # 0 /\ 20 # 0 /\ 21 # 0 /\ 23 # 0 /\ 24 # 0
      /\ 25 # 0 /\ 26 # 0
  BY SMT
<1>3. /\ "readiness report" # "readiness summary" /\ "challenge report" # "challenge manifest"
      /\ "challenge report" # "benchmark report" /\ "challenge manifest" # "benchmark report"
      /\ "loop report" \notin {"challenge report", "challenge manifest", "benchmark report"}
  BY SMT
<1>4. Line(ImportWasmhatch) /\ Line(CompareTraces) /\ Line(QueueReview)
      /\ Line(ResolveReview) /\ Line(ValidateAnnotations)
  BY <1>1, <1>2, <1>3, LineWE
     DEF ImportWasmhatch, CompareTraces, QueueReview, ResolveReview,
         ValidateAnnotations
<1>5. Line(ImportDeepresearch) /\ Line(VerifyClaims) /\ Line(ValidateGepa)
      /\ Line(RunStability)
  BY <1>1, <1>2, <1>3, LineWSE
     DEF ImportDeepresearch, VerifyClaims, ValidateGepa, RunStability
<1>6. Line(RunDataset) /\ Line(RunReplay) /\ Line(JudgeOneTrace) /\ Line(ListReviews)
  BY <1>1, <1>2, <1>3, LineWSE
     DEF RunDataset, RunReplay, JudgeOneTrace, ListReviews
<1>7. Line(ExportFeedback) /\ Line(ExportReward) /\ Line(ExportGepaEvaluation)
      /\ Line(RunGepa) /\ Line(MineHardCases)
  BY <1>1, <1>2, <1>3, LineWSE
     DEF ExportFeedback, ExportReward, ExportGepaEvaluation, RunGepa,
         MineHardCases, Artifact1
<1>8. Line(EvaluateTrajectory) /\ Line(EvaluateBatch) /\ Line(AnalyzeCalibration)
  BY <1>1, <1>2, <1>3, LineWSSE
     DEF EvaluateTrajectory, EvaluateBatch, AnalyzeCalibration
<1>9. Line(CurateHardCases) /\ Line(ExportReviewLabels)
  BY <1>1, <1>2, <1>3, LineRWSE
     DEF CurateHardCases, ExportReviewLabels
<1>10. Line(BuildTrajectoryBenchmark) /\ Line(MaterializeTrajectory) /\ Line(CompareBenchmarks)
  <2>1. BuildTrajectoryBenchmark = <<Work(25), Refuse("manifest", 25), Save("manifest", 25), Exit(0)>>
    BY JoinOne DEF BuildTrajectoryBenchmark, SaveNew
  <2>2. MaterializeTrajectory = <<Work(26), Refuse("trajectory manifest", 26),
                                 Save("trajectory manifest", 26), Exit(0)>>
    BY JoinOne DEF MaterializeTrajectory, SaveNew
  <2>3. CompareBenchmarks = <<Work(21), Refuse("regression report", 21),
                             Save("regression report", 21), Exit(21)>>
    BY JoinOne DEF CompareBenchmarks, SaveNew
  <2>4. QED
    BY <2>1, <2>2, <2>3, <1>1, <1>2, <1>3, LineWRSE
<1>11. Line(EvaluateDatabase)
  BY <1>1, <1>2, <1>3, LineWSWSE
     DEF EvaluateDatabase
<1>12. Line(ExportRewardEvent)
  BY <1>1, <1>2, <1>3, LineWWSE
     DEF ExportRewardEvent
<1>13. Line(CompareBatchFiles)
  BY <1>1, <1>2, <1>3, LineWSSSSE
     DEF CompareBatchFiles
<1>14. Line(RunBenchmark)
  BY <1>1, <1>2, <1>3, LineWRWSSE
     DEF RunBenchmark
<1>15. Line(InjectFaults)
  BY <1>1, <1>2, <1>3, LineWRWSSEBefore
     DEF InjectFaults
<1>16. Line(RescoreBenchmark)
  BY <1>1, <1>2, <1>3, LineRWSSE
     DEF RescoreBenchmark
<1>17. Line(AuditEvidence)
  BY <1>1, <1>2, <1>3, LineWRSRSE
     DEF AuditEvidence
<1>18. Line(BuildChallenge)
  <2>1. BuildChallenge = <<Work(21), Refuse("challenge report", 21), Refuse("challenge manifest", 21),
                          Save("challenge manifest", 21), Save("challenge report", 21), Exit(0)>>
    BY JoinFive DEF BuildChallenge, ChallengeFiles
  <2>2. QED
    BY <2>1, <1>1, <1>2, <1>3, LineWRRSSE
<1>19. Line(RunRegressionLoop)
  BY <1>1, <1>2, <1>3, LineLoop, JoinLoop
<1>20. QED
  BY <1>4, <1>5, <1>6, <1>7, <1>8, <1>9, <1>10, <1>11, <1>12, <1>13, <1>14, <1>15, <1>16, <1>17, <1>18, <1>19
     DEF CommandLines

-----------------------------------------------------------------------------
\* A command keeps what its exit status will tell.

Version == [by : Nat, whole : BOOLEAN]

\* The shape of the job of a command, which is somewhere on its line.
CommandShape ==
  /\ DOMAIN job = {"tool", "pc", "command", "at", "requested", "run", "positive", "versions",
                   "result"}
  /\ job.pc \in {"step", "ended"} /\ job.run \in Nat
  /\ job.command \in CommandLines /\ job.at \in 1..Len(job.command)
  /\ job.requested \subseteq FilesOf(job.command)
  /\ job.versions \in [FilesOf(job.command) -> Seq(Version)]

\* The last thing written to a file is all of what this run wants in it.
IsWritten(f) ==
  /\ job.versions[f] # << >>
  /\ Last(job.versions[f]) = [by |-> job.run, whole |-> TRUE]

\* What the steps behind were to write is written.
SavedBehind ==
  job.pc = "step" =>
    \A i \in 1..(job.at - 1) :
      job.command[i].op = "save" /\ job.command[i].file \in job.requested =>
        IsWritten(job.command[i].file)

\* What was looked for, and not written since, is not there.
MissedBehind ==
  job.pc = "step" =>
    \A i \in 1..(job.at - 1) :
      /\ job.command[i].op = "refuse" /\ job.command[i].file \in job.requested
      /\ \A k \in i..(job.at - 1) :
           job.command[k].op = "save" => job.command[k].file # job.command[i].file
      => job.versions[job.command[i].file] = << >>

WrittenOnce == \A f \in DOMAIN job.versions \cap Immutable : Len(job.versions[f]) <= 1

\* The status is the promise, as it was when the command ended.
StatusTells ==
  job.pc = "ended" /\ job.result = 0 =>
    /\ Last(job.command).code # 0 => job.positive
    /\ \A f \in job.requested : IsWritten(f)

CommandInv == CommandShape /\ SavedBehind /\ MissedBehind /\ WrittenOnce /\ StatusTells

LEMMA CommandInitInv == CommandInit => CommandInv
<1> SUFFICES ASSUME CommandInit PROVE CommandInv
  OBVIOUS
<1>1. PICK command, requested, existing :
        /\ command \in CommandLines /\ requested \in SUBSET FilesOf(command)
        /\ job = [tool |-> "command", pc |-> "step", command |-> command, at |-> 1,
                  requested |-> requested, run |-> 1, positive |-> FALSE,
                  versions |->
                    [f \in FilesOf(command) |-> IF f \in existing THEN Earlier ELSE << >>],
                  result |-> None]
  BY DEF CommandInit
<1>2. Earlier \in Seq(Version) /\ Len(Earlier) = 1 /\ << >> \in Seq(Version) /\ Len(<< >>) = 0
  BY DEF Earlier, Version
<1>3. Len(command) \in Nat \ {0}
  BY <1>1, LinesAreMade DEF Line, Steps
<1>4. /\ job.versions \in [FilesOf(command) -> {Earlier, << >>}]
      /\ DOMAIN job.versions = FilesOf(command)
      /\ \A f \in FilesOf(command) : job.versions[f] = Earlier \/ job.versions[f] = << >>
  BY <1>1
<1>5. /\ DOMAIN job = {"tool", "pc", "command", "at", "requested", "run", "positive", "versions",
                       "result"}
      /\ job.pc = "step" /\ job.run = 1 /\ job.command = command /\ job.at = 1
      /\ job.requested = requested /\ job.requested \subseteq FilesOf(command)
      /\ command \in CommandLines
  BY <1>1
<1>6. CommandShape
  <2>1. job.versions \in [FilesOf(command) -> Seq(Version)]
    BY <1>2, <1>4
  <2>2. job.at \in 1..Len(job.command)
    BY <1>3, <1>5
  <2>3. QED
    BY <1>5, <2>1, <2>2 DEF CommandShape
<1>7. WrittenOnce
  <2>1. \A f \in DOMAIN job.versions : Len(job.versions[f]) <= 1
    <3>1. Len(Earlier) <= 1 /\ Len(<< >>) <= 1
      BY <1>2
    <3>2. QED
      BY <1>4, <3>1, Zenon
  <2>2. QED
    BY <2>1 DEF WrittenOnce
<1>8. QED
  BY <1>5, <1>6, <1>7 DEF CommandInv, SavedBehind, MissedBehind, StatusTells

\* What a step of the command line finds.
LEMMA OnLine ==
  ASSUME CommandShape
  PROVE  /\ Line(job.command) /\ DOMAIN job.command = 1..Len(job.command)
         /\ Len(job.command) \in Nat \ {0} /\ job.at \in Nat \ {0}
         /\ DOMAIN job.versions = FilesOf(job.command)
         /\ Step.op # "exit" => job.at + 1 \in 1..Len(job.command) /\ Step.code # 0
<1>1. /\ Line(job.command) /\ job.at \in 1..Len(job.command)
      /\ DOMAIN job.versions = FilesOf(job.command)
  BY LinesAreMade DEF CommandShape
<1>2. DOMAIN job.command = 1..Len(job.command) /\ Len(job.command) \in Nat \ {0}
  BY <1>1 DEF Line, Steps
<1>3. Step.op # "exit" => job.at # Len(job.command) /\ Step.code # 0
  BY <1>1, <1>2 DEF Line, EndsAtEnd, Step
<1>4. QED
  BY <1>1, <1>2, <1>3

\* What the command is asked to do stays the same while it runs.
SameOrder ==
  /\ DOMAIN job' = DOMAIN job /\ job'.command = job.command
  /\ job'.requested = job.requested

\* A command that stops with a failure promises nothing.
LEMMA StopsInv ==
  ASSUME CommandInv, SameOrder, job'.at = job.at, job'.pc = "ended", job'.run = job.run,
         job'.result # 0, job'.versions \in [FilesOf(job.command) -> Seq(Version)], WrittenOnce'
  PROVE  CommandInv'
  BY DEF CommandInv, CommandShape, SameOrder, SavedBehind, MissedBehind, StatusTells

\* A step that writes nothing leaves what is behind as it is.
LEMMA PassesInv ==
  ASSUME CommandInv, SameOrder, job.pc = "step", job'.pc = "step", job'.at = job.at + 1,
         job'.run = job.run, job'.versions = job.versions, Step.op # "exit",
         Step.file \in job.requested =>
           Step.op # "save" /\ (Step.op = "refuse" => job.versions[Step.file] = << >>)
  PROVE  CommandInv'
<1>1. CommandShape /\ SavedBehind /\ MissedBehind /\ WrittenOnce
  BY DEF CommandInv
<1>2. job.at + 1 \in 1..Len(job.command) /\ job.at \in Nat \ {0}
  BY <1>1, OnLine
<1>3. CommandShape'
  BY <1>1, <1>2 DEF CommandShape, SameOrder
<1>4. SavedBehind'
  <2>0. job'.at - 1 = job.at /\ \A f : IsWritten(f) => IsWritten(f)'
    BY <1>2 DEF IsWritten
  <2> SUFFICES ASSUME NEW i \in 1..job.at, job.command[i].op = "save",
                      job.command[i].file \in job.requested
               PROVE  IsWritten(job.command[i].file)
    BY <2>0 DEF SavedBehind, SameOrder
  <2>1. i # job.at
    BY DEF Step
  <2>2. i \in 1..(job.at - 1)
    BY <1>2, <2>1
  <2>3. QED
    BY <1>1, <2>2 DEF SavedBehind
<1>5. MissedBehind'
  <2>0. /\ job'.at - 1 = job.at /\ UNCHANGED <<job.pc, job.command, job.requested, job.versions>>
    BY <1>2 DEF SameOrder
  <2> SUFFICES ASSUME NEW i \in 1..job.at, job.command[i].op = "refuse",
                      job.command[i].file \in job.requested,
                      \A k \in i..job.at :
                        job.command[k].op = "save" => job.command[k].file # job.command[i].file
               PROVE  job.versions[job.command[i].file] = << >>
    BY <2>0 DEF MissedBehind
  <2>1. CASE i = job.at
    BY <2>1 DEF Step
  <2>2. CASE i # job.at
    <3>1. i \in 1..(job.at - 1) /\ \A k \in i..(job.at - 1) : k \in i..job.at
      BY <1>2, <2>2
    <3>2. QED
      BY <1>1, <3>1 DEF MissedBehind
  <2>3. QED
    BY <2>1, <2>2
<1>6. WrittenOnce' /\ StatusTells'
  BY <1>1 DEF WrittenOnce, StatusTells
<1>7. QED
  BY <1>3, <1>4, <1>5, <1>6 DEF CommandInv

\* An immutable file that is about to be written is not there.
LEMMA NotThere ==
  ASSUME CommandInv, job.pc = "step", Step.op = "save", Step.file \in Immutable,
         Step.file \in job.requested
  PROVE  job.versions[Step.file] = << >>
<1>1. CommandShape /\ MissedBehind
  BY DEF CommandInv
<1>2. LooksFirst(job.command) /\ DOMAIN job.command = 1..Len(job.command)
      /\ job.at \in 1..Len(job.command)
  BY <1>1, OnLine DEF Line, CommandShape
<1>3. PICK i \in 1..(job.at - 1) :
        /\ job.command[i].op = "refuse" /\ job.command[i].file = Step.file
        /\ \A k \in i..(job.at - 1) : job.command[k].op = "save" => job.command[k].file # Step.file
  BY <1>2 DEF LooksFirst, Step
<1>4. QED
  BY <1>1, <1>3 DEF MissedBehind

\* A file that is written is of this run, and one that is immutable is new.
LEMMA SavesInv ==
  ASSUME CommandInv, SaveFile, Step.file \in job.requested
  PROVE  CommandInv'
<1> DEFINE f == Step.file
           new == [by |-> job.run, whole |-> TRUE]
<1>1. CommandShape /\ SavedBehind /\ MissedBehind /\ WrittenOnce
  BY DEF CommandInv
<1>2. /\ Step.op = "save" /\ job.pc = "step"
      /\ job' = [job EXCEPT !.at = @ + 1, !.versions[f] = Append(@, new)]
  BY DEF SaveFile, At, Running
<1>3. /\ job.at + 1 \in 1..Len(job.command) /\ job.at \in Nat \ {0}
      /\ DOMAIN job.versions = FilesOf(job.command)
  BY <1>1, <1>2, OnLine
<1>4. /\ f \in FilesOf(job.command) /\ job.versions[f] \in Seq(Version) /\ new \in Version
      /\ job.versions \in [FilesOf(job.command) -> Seq(Version)]
  BY <1>1 DEF CommandShape, Version
<1>5. /\ SameOrder /\ job'.pc = "step" /\ job'.at = job.at + 1 /\ job'.run = job.run
      /\ job'.versions = [job.versions EXCEPT ![f] = Append(@, new)]
  BY <1>1, <1>2 DEF CommandShape, SameOrder
<1> HIDE DEF f, new
<1>6. /\ job'.versions[f] = Append(job.versions[f], new)
      /\ \A g \in FilesOf(job.command) : g # f => job'.versions[g] = job.versions[g]
      /\ job'.versions \in [FilesOf(job.command) -> Seq(Version)]
  BY <1>3, <1>4, <1>5, AppendProperties
<1>7. CommandShape'
  BY <1>1, <1>3, <1>5, <1>6 DEF CommandShape, SameOrder
<1>8. \A g : g = f => IsWritten(g)'
  <2>1. Append(job.versions[f], new) # << >> /\ Last(Append(job.versions[f], new)) = new
    BY <1>4, AppendProperties DEF Last
  <2>2. QED
    BY <1>5, <1>6, <2>1 DEF IsWritten, new
<1>9. SavedBehind'
  <2>0. job'.at - 1 = job.at
    BY <1>3, <1>5
  <2> SUFFICES ASSUME NEW i \in 1..job.at, job.command[i].op = "save",
                      job.command[i].file \in job.requested
               PROVE  \A g : g = job.command[i].file => IsWritten(g)'
    BY <1>5, <2>0 DEF SavedBehind, SameOrder
  <2>1. CASE job.command[i].file = f
    BY <1>8, <2>1
  <2>2. CASE job.command[i].file # f
    <3>1. i \in 1..(job.at - 1)
      BY <1>3, <2>2 DEF f, Step
    <3>2. IsWritten(job.command[i].file) /\ job.command[i].file \in FilesOf(job.command)
      BY <1>1, <1>2, <3>1 DEF SavedBehind, CommandShape
    <3>3. job'.versions[job.command[i].file] = job.versions[job.command[i].file]
          /\ job'.run = job.run
      BY <1>5, <1>6, <2>2, <3>2
    <3>4. QED
      BY <3>2, <3>3 DEF IsWritten
  <2>3. QED
    BY <2>1, <2>2
<1>10. MissedBehind'
  <2>0. job'.at - 1 = job.at
    BY <1>3, <1>5
  <2> SUFFICES ASSUME NEW i \in 1..job.at, job.command[i].op = "refuse",
                      job.command[i].file \in job.requested,
                      \A k \in i..job.at :
                        job.command[k].op = "save" => job.command[k].file # job.command[i].file
               PROVE  job'.versions[job.command[i].file] = << >>
    BY <1>5, <2>0 DEF MissedBehind, SameOrder
  <2>1. i # job.at
    BY <1>2 DEF Step
  <2>2. i \in 1..(job.at - 1) /\ (\A k \in i..(job.at - 1) : k \in i..job.at) /\ job.at \in i..job.at
    BY <1>3, <2>1
  <2>3. job.versions[job.command[i].file] = << >>
    BY <1>1, <1>2, <2>2 DEF MissedBehind
  <2>4. job.command[i].file # f
    BY <1>2, <2>2 DEF f, Step
  <2>5. QED
    BY <1>1, <1>6, <2>3, <2>4 DEF CommandShape
<1>11. WrittenOnce'
  <2> SUFFICES ASSUME NEW g \in FilesOf(job.command), g \in Immutable
               PROVE  Len(job'.versions[g]) <= 1
    BY <1>6 DEF WrittenOnce
  <2>1. CASE g = f
    <3>1. job.versions[f] = << >>
      BY <1>2, <2>1, NotThere DEF f
    <3>2. Len(Append(<< >>, new)) = 1
      BY <1>4, <3>1, AppendProperties
    <3>3. Len(job'.versions[g]) = 1
      BY <1>6, <2>1, <3>1, <3>2, Zenon
    <3>4. QED
      BY <3>3
  <2>2. CASE g # f
    BY <1>1, <1>3, <1>6, <2>2 DEF WrittenOnce
  <2>3. QED
    BY <2>1, <2>2
<1>12. QED
  BY <1>5, <1>7, <1>9, <1>10, <1>11 DEF CommandInv, StatusTells

\* A write that fails leaves an immutable file that is new, or none.
LEMMA SaveFailsInv == ASSUME CommandInv, SaveFails PROVE CommandInv'
<1>1. CommandShape /\ WrittenOnce
  BY DEF CommandInv
<1>2. /\ Step.op = "save" /\ job.pc = "step" /\ Step.file \in job.requested
      /\ Step.file \in FilesOf(job.command)
  BY <1>1 DEF SaveFails, At, Running, CommandShape
<1> DEFINE f == Step.file
           torn == [by |-> job.run, whole |-> FALSE]
<1>3. PICK code \in {Step.code, Uncaught}, left \in {<< >>, <<torn>>} :
        job' = [job EXCEPT !.pc = "ended", !.result = code, !.versions[f] = @ \o left]
  BY DEF SaveFails
<1>4. code # 0
  BY <1>1, <1>2, OnLine DEF Uncaught
<1>5. torn \in Version /\ job.versions[f] \in Seq(Version)
      /\ job.versions \in [FilesOf(job.command) -> Seq(Version)]
  BY <1>1, <1>2 DEF CommandShape, Version
<1>6. left \in Seq(Version) /\ Len(left) <= 1
  <2>1. << >> \in Seq(Version) /\ Len(<< >>) <= 1
    OBVIOUS
  <2>2. <<torn>> \in Seq(Version) /\ Len(<<torn>>) <= 1
    BY <1>5
  <2>3. QED
    BY <2>1, <2>2
<1>7. /\ SameOrder /\ job'.at = job.at /\ job'.pc = "ended" /\ job'.run = job.run
      /\ job'.result = code /\ job'.versions = [job.versions EXCEPT ![f] = @ \o left]
  BY <1>1, <1>3 DEF CommandShape, SameOrder
<1> HIDE DEF f, torn
<1>8. /\ job'.versions[f] = job.versions[f] \o left
      /\ \A g \in FilesOf(job.command) : g # f => job'.versions[g] = job.versions[g]
      /\ job'.versions \in [FilesOf(job.command) -> Seq(Version)]
  BY <1>2, <1>5, <1>6, <1>7, ConcatProperties DEF f
<1>9. WrittenOnce'
  <2> SUFFICES ASSUME NEW g \in FilesOf(job.command), g \in Immutable
               PROVE  Len(job'.versions[g]) <= 1
    BY <1>8 DEF WrittenOnce
  <2>1. CASE g = f
    <3>1. job.versions[f] = << >>
      BY <1>2, <2>1, NotThere DEF f
    <3>2. << >> \o left = left
      BY <1>6, ConcatEmptySeq
    <3>3. job'.versions[g] = left
      BY <1>8, <2>1, <3>1, <3>2, Zenon
    <3>4. QED
      BY <1>6, <3>3
  <2>2. CASE g # f
    BY <1>1, <1>5, <1>8, <2>2 DEF WrittenOnce
  <2>3. QED
    BY <2>1, <2>2
<1>10. QED
  BY <1>4, <1>7, <1>8, <1>9, StopsInv

\* At the end of its line a command has written what it was asked for.
LEMMA ReturnInv == ASSUME CommandInv, Return PROVE CommandInv'
<1>1. CommandShape /\ SavedBehind /\ WrittenOnce
  BY DEF CommandInv
<1>2. /\ Step.op = "exit" /\ job.pc = "step"
      /\ job' = [job EXCEPT !.pc = "ended",
                            !.result = IF job.positive THEN 0 ELSE Step.code]
  BY DEF Return, At, Running, ExitWith
<1>3. /\ SameOrder /\ job'.at = job.at /\ job'.pc = "ended" /\ job'.run = job.run
      /\ job'.versions = job.versions /\ job'.positive = job.positive
      /\ job'.result = IF job.positive THEN 0 ELSE Step.code
  BY <1>1, <1>2 DEF CommandShape, SameOrder
<1>4. /\ EndsAtEnd(job.command) /\ FilesAreSaved(job.command)
      /\ DOMAIN job.command = 1..Len(job.command) /\ job.at \in 1..Len(job.command)
  BY <1>1, OnLine DEF Line, CommandShape
<1>5. job.at = Len(job.command) /\ Last(job.command) = Step
  BY <1>2, <1>4 DEF EndsAtEnd, Step, Last
<1>6. ASSUME NEW f \in job.requested PROVE IsWritten(f)
  <2>1. PICK i \in DOMAIN job.command : job.command[i].file = f /\ f # None
    BY <1>1 DEF CommandShape, FilesOf
  <2>2. PICK k \in DOMAIN job.command : job.command[k].op = "save" /\ job.command[k].file = f
    BY <1>4, <2>1 DEF FilesAreSaved
  <2>3. k \in 1..(job.at - 1)
    BY <1>4, <1>5, <2>2 DEF EndsAtEnd
  <2>4. QED
    BY <1>1, <1>2, <2>2, <2>3 DEF SavedBehind
<1>7. \A f : IsWritten(f) => IsWritten(f)'
  BY <1>3 DEF IsWritten
<1>8. StatusTells'
  BY <1>3, <1>5, <1>6, <1>7 DEF StatusTells, SameOrder
<1>9. CommandShape' /\ WrittenOnce'
  BY <1>1, <1>3 DEF CommandShape, WrittenOnce, SameOrder
<1>10. QED
  BY <1>3, <1>8, <1>9 DEF CommandInv, SavedBehind, MissedBehind

\* A command that is given again begins anew, with the files that are there.
LEMMA GiveAgainInv == ASSUME CommandInv, GiveAgain PROVE CommandInv'
<1>1. CommandShape /\ WrittenOnce
  BY DEF CommandInv
<1>2. /\ SameOrder /\ job'.pc = "step" /\ job'.at = 1 /\ job'.run = job.run + 1
      /\ job'.versions = job.versions
  BY <1>1 DEF GiveAgain, CommandShape, SameOrder
<1>3. Len(job.command) \in Nat \ {0}
  BY <1>1, OnLine
<1>4. CommandShape' /\ WrittenOnce'
  BY <1>1, <1>2, <1>3 DEF CommandShape, WrittenOnce, SameOrder
<1>5. QED
  BY <1>2, <1>4 DEF CommandInv, SavedBehind, MissedBehind, StatusTells

LEMMA CommandStepInv == ASSUME CommandInv, CommandSteps \/ GiveAgain PROVE CommandInv'
<1>1. CommandShape
  BY DEF CommandInv
<1>2. ASSUME NEW code, ExitWith(code), code # 0, job.pc = "step" PROVE CommandInv'
  <2>1. /\ SameOrder /\ job'.at = job.at /\ job'.pc = "ended" /\ job'.run = job.run
        /\ job'.result = code /\ job'.versions = job.versions
    BY <1>1, <1>2 DEF ExitWith, CommandShape, SameOrder
  <2>2. job'.versions \in [FilesOf(job.command) -> Seq(Version)] /\ WrittenOnce'
    BY <1>1, <2>1 DEF CommandInv, CommandShape, WrittenOnce
  <2>3. QED
    BY <1>2, <2>1, <2>2, StopsInv
<1>3. ASSUME GoOn, job.pc = "step", Step.op # "exit",
             Step.file \in job.requested =>
               Step.op # "save" /\ (Step.op = "refuse" => job.versions[Step.file] = << >>)
      PROVE  CommandInv'
  <2>1. /\ SameOrder /\ job'.at = job.at + 1 /\ job'.pc = "step" /\ job'.run = job.run
        /\ job'.versions = job.versions
    BY <1>1, <1>3 DEF GoOn, CommandShape, SameOrder
  <2>2. QED
    BY <1>3, <2>1, PassesInv
<1>4. CASE WorkSucceeds
  <2>1. PICK positive \in BOOLEAN : job' = [job EXCEPT !.at = @ + 1, !.positive = positive]
    BY <1>4 DEF WorkSucceeds
  <2>2. /\ SameOrder /\ job'.at = job.at + 1 /\ job'.pc = job.pc /\ job'.run = job.run
        /\ job'.versions = job.versions
    BY <1>1, <2>1 DEF CommandShape, SameOrder
  <2>3. job.pc = "step" /\ Step.op = "work"
    BY <1>4 DEF WorkSucceeds, At, Running
  <2>4. QED
    BY <2>2, <2>3, PassesInv
<1>5. CASE WorkFails
  <2>1. job.pc = "step" /\ Step.op = "work" /\ \E code \in {Step.code, Uncaught} : ExitWith(code)
    BY <1>5 DEF WorkFails, At, Running
  <2>2. Step.code # 0 /\ Uncaught # 0
    BY <1>1, <2>1, OnLine DEF Uncaught
  <2>3. QED
    BY <1>2, <2>1, <2>2
<1>6. CASE RefuseExisting
  <2>1. /\ job.pc = "step" /\ Step.op = "refuse"
        /\ \/ ExitWith(Step.code)
           \/ GoOn /\ (Step.file \in job.requested => job.versions[Step.file] = << >>)
    BY <1>6 DEF RefuseExisting, At, Running
  <2>2. Step.code # 0
    BY <1>1, <2>1, OnLine
  <2>3. QED
    BY <1>2, <1>3, <2>1, <2>2
<1>7. CASE SaveFile
  <2>1. CASE Step.file \in job.requested
    BY <1>7, <2>1, SavesInv
  <2>2. CASE Step.file \notin job.requested
    BY <1>3, <1>7, <2>2 DEF SaveFile, At, Running
  <2>3. QED
    BY <2>1, <2>2
<1>8. QED
  BY <1>4, <1>5, <1>6, <1>7, SaveFailsInv, ReturnInv, GiveAgainInv DEF CommandSteps

LEMMA CommandInvIsEnough == CommandInv => ExitTellsVerdict
<1> SUFFICES ASSUME CommandInv PROVE ExitTellsVerdict
  OBVIOUS
<1>1. StatusTells /\ WrittenOnce
  BY DEF CommandInv
<1>2. QED
  BY <1>1 DEF StatusTells, WrittenOnce, IsWritten, ExitTellsVerdict

\* Whatever the work of a command comes to, which of its files were there, which
\* writes fail and however often it is given again: the exit status 0 means an
\* acceptable result and files that are whole, and no immutable file is written
\* over.
THEOREM StatusIsThePromise == Spec => []ExitTellsVerdict
<1> DEFINE Inv == HasTool /\ (job.tool = "command" => CommandInv)
<1>1. Init => Inv
  BY StartsWithTool, CommandInitInv DEF OwnInit
<1>2. Inv /\ [Next]_job => Inv'
  <2> SUFFICES ASSUME HasTool, job.tool = "command" => CommandInv, [Next]_job
               PROVE  HasTool' /\ (job'.tool = "command" => CommandInv')
    OBVIOUS
  <2>1. SameTool /\ OwnStep
    BY OneTool
  <2>2. ASSUME UNCHANGED job, CommandInv PROVE CommandInv'
    BY <2>2 DEF CommandInv, CommandShape, SavedBehind, MissedBehind, WrittenOnce, StatusTells,
                IsWritten
  <2>3. QED
    BY <2>1, <2>2, CommandStepInv DEF SameTool, OwnStep
<1>3. Inv => ExitTellsVerdict
  BY CommandInvIsEnough DEF ExitTellsVerdict
<1>4. QED
  BY <1>1, <1>2, <1>3, PTL DEF Spec

-----------------------------------------------------------------------------
\* The provider clients.

\* As many values as places: none of them comes twice.
LEMMA CountDistinct ==
  ASSUME NEW n \in Nat, NEW f, DOMAIN f = 1..n, f = [i \in 1..n |-> f[i]]
  PROVE  /\ IsFiniteSet({f[i] : i \in 1..n})
         /\ Cardinality({f[i] : i \in 1..n}) <= n
         /\ Cardinality({f[i] : i \in 1..n}) = n <=> \A i, j \in 1..n : f[i] = f[j] => i = j
<1> DEFINE T == {f[i] : i \in 1..n}
<1>1. f \in Surjection(1..n, T)
  <2>1. f \in [1..n -> T]
    OBVIOUS
  <2>2. QED
    BY <2>1 DEF Surjection
<1>2. IsFiniteSet(1..n) /\ Cardinality(1..n) = n
  BY FS_Interval
<1>3. /\ IsFiniteSet(T) /\ Cardinality(T) <= n
      /\ Cardinality(T) = n <=> f \in Injection(1..n, T)
  BY <1>1, <1>2, FS_Surjection
<1>4. f \in Injection(1..n, T) <=> \A i, j \in 1..n : f[i] = f[j] => i = j
  BY <1>1 DEF Injection, Surjection, IsInjective
<1>5. QED
  BY <1>3, <1>4

GradableIsFinite == IsFiniteSet(Gradable) /\ Gradable \subseteq DOMAIN ClaimEvidence

LEMMA GradableFinite == GradableIsFinite
<1>1. PICK E : ClaimEvidence \in Seq(SUBSET E)
  BY PacketAssumption
<1>2. DOMAIN ClaimEvidence = 1..Len(ClaimEvidence) /\ Len(ClaimEvidence) \in Nat
  BY <1>1, LenProperties
<1>3. IsFiniteSet(DOMAIN ClaimEvidence)
  BY <1>2, FS_Interval
<1>4. QED
  BY <1>3, FS_Subset DEF Gradable, GradableIsFinite

\* The rulings that are kept: each on another claim that has evidence, and
\* citing that claim's own.
JudgedOnce ==
  /\ job.judged \in Seq(ClaimVerdict)
  /\ \A i, j \in DOMAIN job.judged : job.judged[i].claim = job.judged[j].claim => i = j
  /\ \A i \in DOMAIN job.judged :
       /\ job.judged[i].claim \in Gradable
       /\ job.judged[i].cites \subseteq ClaimEvidence[job.judged[i].claim]

AllJudged ==
  EndedWith("provider", "answer") /\ job.kind = "claims" => Len(job.judged) >= Cardinality(Gradable)

ProviderInv ==
  /\ DOMAIN job = {"tool", "kind", "pc", "attempt", "corrected", "judged", "cited", "result"}
  /\ JudgedOnce /\ AllJudged
  /\ job.cited \subseteq SuppliedSpans

LEMMA ProviderInitInv == ProviderInit => ProviderInv
<1> SUFFICES ASSUME ProviderInit PROVE ProviderInv
  OBVIOUS
<1>1. PICK kind : job = Request(kind)
  BY DEF ProviderInit
<1>2. /\ DOMAIN job = {"tool", "kind", "pc", "attempt", "corrected", "judged", "cited", "result"}
      /\ job.pc = "post" /\ job.judged = << >> /\ job.cited = {}
  BY <1>1 DEF Request
<1>3. QED
  BY <1>2 DEF ProviderInv, JudgedOnce, AllJudged, EndedWith, Running

\* What is kept of the rulings survives whatever else happens to the request.
LEMMA RequestGoesOn ==
  ASSUME ProviderInv, DOMAIN job' = DOMAIN job, job'.judged = job.judged, job'.kind = job.kind,
         job'.cited \subseteq SuppliedSpans,
         job'.pc = "ended" /\ job'.result = "answer" /\ job.kind = "claims" =>
           Len(job.judged) >= Cardinality(Gradable)
  PROVE  ProviderInv'
<1>1. JudgedOnce'
  BY DEF ProviderInv, JudgedOnce
<1>2. SuppliedSpans' = SuppliedSpans
  BY DEF SuppliedSpans
<1>3. QED
  BY <1>1, <1>2 DEF ProviderInv, AllJudged, EndedWith, Running

LEMMA FailuresInv ==
  ASSUME ProviderInv, Asking, RaiseError \/ TryAgain(TRUE) \/ TryAgain(FALSE)
  PROVE  ProviderInv'
<1>1. DOMAIN job = {"tool", "kind", "pc", "attempt", "corrected", "judged", "cited", "result"}
      /\ job.cited \subseteq SuppliedSpans
  BY DEF ProviderInv
<1>2. /\ DOMAIN job' = DOMAIN job /\ job'.judged = job.judged /\ job'.kind = job.kind
      /\ job'.cited = job.cited /\ (job'.pc = "ended" => job'.result = "error")
  BY <1>1 DEF RaiseError, TryAgain, Asking, Running
<1>3. QED
  BY <1>1, <1>2, RequestGoesOn

\* A batch that conforms rules on claims that were open, each once.
LEMMA ClaimsAnswerInv == ASSUME ProviderInv, ClaimsAnswer PROVE ProviderInv'
<1>1. DOMAIN job = {"tool", "kind", "pc", "attempt", "corrected", "judged", "cited", "result"}
      /\ JudgedOnce /\ job.cited \subseteq SuppliedSpans
  BY DEF ProviderInv
<1>2. PICK n \in 0..MaxClaims + 1 : \E verdicts \in [1..n -> ClaimVerdict] :
        IF ExactlyOnce(verdicts, ClaimBatch(job.judged)) /\ WithinPacket(verdicts)
        THEN job' = [job EXCEPT !.judged = @ \o verdicts, !.attempt = 1, !.corrected = FALSE]
        ELSE TryAgain(TRUE)
  BY DEF ClaimsAnswer
<1>3. PICK verdicts \in [1..n -> ClaimVerdict] :
        IF ExactlyOnce(verdicts, ClaimBatch(job.judged)) /\ WithinPacket(verdicts)
        THEN job' = [job EXCEPT !.judged = @ \o verdicts, !.attempt = 1, !.corrected = FALSE]
        ELSE TryAgain(TRUE)
  BY <1>2
<1>4. CASE TryAgain(TRUE)
  BY <1>4, FailuresInv DEF ClaimsAnswer
<1>5. CASE /\ ExactlyOnce(verdicts, ClaimBatch(job.judged)) /\ WithinPacket(verdicts)
           /\ job' = [job EXCEPT !.judged = @ \o verdicts, !.attempt = 1, !.corrected = FALSE]
  <2> DEFINE old == job.judged
             new == old \o verdicts
  <2>1. n \in Nat /\ verdicts \in Seq(ClaimVerdict) /\ Len(verdicts) = n /\ old \in Seq(ClaimVerdict)
    <3>1. n \in Nat
      BY PacketAssumption
    <3>2. QED
      BY <1>1, <3>1 DEF JudgedOnce
  <2>2. /\ DOMAIN job' = DOMAIN job /\ job'.judged = new /\ job'.kind = job.kind
        /\ job'.cited = job.cited /\ job'.pc = "post"
    BY <1>1, <1>5 DEF ClaimsAnswer, Asking, Running
  <2>3. \A i, j \in 1..n : verdicts[i].claim = verdicts[j].claim => i = j
    <3> DEFINE f == [i \in 1..n |-> verdicts[i].claim]
    <3>1. {verdicts[i].claim : i \in DOMAIN verdicts} = {f[i] : i \in 1..n}
      OBVIOUS
    <3>2. Cardinality({f[i] : i \in 1..n}) = n
      BY <1>5, <2>1, <3>1 DEF ExactlyOnce
    <3>3. DOMAIN f = 1..n /\ f = [i \in 1..n |-> f[i]]
      OBVIOUS
    <3>4. \A i, j \in 1..n : f[i] = f[j] => i = j
      <4> HIDE DEF f
      <4>1. QED
        BY <2>1, <3>2, <3>3, CountDistinct
    <3>5. QED
      BY <3>4
  <2>4. \A i \in 1..n : /\ verdicts[i].claim \in Gradable
                        /\ verdicts[i].claim \notin {old[j].claim : j \in DOMAIN old}
                        /\ verdicts[i].cites \subseteq ClaimEvidence[verdicts[i].claim]
    <3>1. \A i \in 1..n : verdicts[i].claim \in ClaimBatch(old)
      BY <1>5, <2>1 DEF ExactlyOnce
    <3>2. QED
      BY <1>5, <3>1 DEF ClaimBatch, WithinPacket
  <2>5. /\ new \in Seq(ClaimVerdict) /\ DOMAIN new = 1..(Len(old) + n)
        /\ DOMAIN old = 1..Len(old) /\ Len(old) \in Nat
        /\ \A i \in 1..Len(old) : new[i] = old[i]
        /\ \A i \in DOMAIN new : i \notin 1..Len(old) =>
             i - Len(old) \in 1..n /\ new[i] = verdicts[i - Len(old)]
    <3> HIDE DEF old
    <3>1. /\ new \in Seq(ClaimVerdict) /\ DOMAIN new = 1..(Len(old) + n)
          /\ DOMAIN old = 1..Len(old) /\ Len(old) \in Nat
      BY <2>1
    <3>2. \A i \in 1..Len(old) : new[i] = old[i]
      BY <2>1, <3>1
    <3>3. ASSUME NEW i \in DOMAIN new, i \notin 1..Len(old)
          PROVE  i - Len(old) \in 1..n /\ new[i] = verdicts[i - Len(old)]
      <4>1. i \in Nat /\ Len(old) < i /\ i <= Len(old) + n
        BY <2>1, <3>1, <3>3
      <4>2. i - Len(old) \in 1..n
        BY <2>1, <3>1, <4>1
      <4>3. QED
        BY <2>1, <3>1, <4>1, <4>2
    <3>4. QED
      BY <3>1, <3>2, <3>3
  <2> HIDE DEF old, new
  <2>6. \A i, j \in DOMAIN new : new[i].claim = new[j].claim => i = j
    <3> SUFFICES ASSUME NEW i \in DOMAIN new, NEW j \in DOMAIN new, new[i].claim = new[j].claim
                 PROVE  i = j
      OBVIOUS
    <3>1. CASE i \in 1..Len(old) /\ j \in 1..Len(old)
      BY <1>1, <2>5, <3>1 DEF JudgedOnce, old
    <3>2. CASE i \notin 1..Len(old) /\ j \notin 1..Len(old)
      <4>1. i - Len(old) = j - Len(old)
        BY <2>3, <2>5, <3>2
      <4>2. QED
        BY <2>5, <4>1
    <3>3. CASE i \in 1..Len(old) /\ j \notin 1..Len(old)
      BY <2>4, <2>5, <3>3
    <3>4. CASE i \notin 1..Len(old) /\ j \in 1..Len(old)
      BY <2>4, <2>5, <3>4
    <3>5. QED
      BY <3>1, <3>2, <3>3, <3>4
  <2>7. \A i \in DOMAIN new : /\ new[i].claim \in Gradable
                              /\ new[i].cites \subseteq ClaimEvidence[new[i].claim]
    <3> SUFFICES ASSUME NEW i \in DOMAIN new
                 PROVE  /\ new[i].claim \in Gradable
                        /\ new[i].cites \subseteq ClaimEvidence[new[i].claim]
      OBVIOUS
    <3>1. CASE i \in 1..Len(old)
      BY <1>1, <2>5, <3>1 DEF JudgedOnce, old
    <3>2. CASE i \notin 1..Len(old)
      BY <2>4, <2>5, <3>2
    <3>3. QED
      BY <3>1, <3>2
  <2>8. JudgedOnce'
    BY <2>2, <2>5, <2>6, <2>7 DEF JudgedOnce
  <2>9. AllJudged' /\ job'.cited \subseteq SuppliedSpans
    BY <1>1, <2>2 DEF AllJudged, EndedWith, Running
  <2>10. QED
    BY <1>1, <2>2, <2>8, <2>9 DEF ProviderInv
<1>6. QED
  BY <1>3, <1>4, <1>5

LEMMA ProviderNextInv == ASSUME ProviderInv, ProviderNext PROVE ProviderInv'
<1>1. DOMAIN job = {"tool", "kind", "pc", "attempt", "corrected", "judged", "cited", "result"}
      /\ job.cited \subseteq SuppliedSpans
  BY DEF ProviderInv
<1>2. ASSUME job' = Answered, job.kind = "claims" => Len(job.judged) >= Cardinality(Gradable)
      PROVE  ProviderInv'
  <2>1. /\ DOMAIN job' = DOMAIN job /\ job'.judged = job.judged /\ job'.kind = job.kind
        /\ job'.cited = job.cited
    BY <1>1, <1>2 DEF Answered
  <2>2. QED
    BY <1>1, <1>2, <2>1, RequestGoesOn
<1>3. CASE Unavailable \/ Rejected \/ Malformed \/ EmptyContent
  BY <1>3, FailuresInv DEF Unavailable, Rejected, Malformed, EmptyContent
<1>4. CASE JudgeAnswers
  <2>1. PICK cited \in SUBSET (1..Spans + 1) :
          IF cited \subseteq SuppliedSpans THEN job' = [Answered EXCEPT !.cited = cited]
          ELSE RaiseError
    BY <1>4 DEF JudgeAnswers
  <2>2. CASE RaiseError
    BY <1>4, <2>2, FailuresInv DEF JudgeAnswers
  <2>3. CASE cited \subseteq SuppliedSpans /\ job' = [Answered EXCEPT !.cited = cited]
    <3>1. /\ DOMAIN job' = DOMAIN job /\ job'.judged = job.judged /\ job'.kind = job.kind
          /\ job'.cited = cited /\ job.kind = "judge"
      BY <1>1, <1>4, <2>3 DEF Answered, JudgeAnswers
    <3>2. QED
      BY <2>3, <3>1, RequestGoesOn
  <2>4. QED
    BY <2>1, <2>2, <2>3
<1>5. CASE ReflectionAnswers
  BY <1>2, <1>5, FailuresInv DEF ReflectionAnswers
<1>6. CASE TaskAnswers \/ ClaimsReturn
  BY <1>2, <1>6 DEF TaskAnswers, ClaimsReturn
<1>7. QED
  BY <1>3, <1>4, <1>5, <1>6, ClaimsAnswerInv DEF ProviderNext

\* As many different gradable claims as there are: all of them, each once.
LEMMA ProviderInvIsEnough == ProviderInv => AnswersAreGrounded
<1> SUFFICES ASSUME ProviderInv, EndedWith("provider", "answer"), job.kind = "claims",
                    NEW c \in Gradable
             PROVE  Cardinality({i \in DOMAIN job.judged : job.judged[i].claim = c}) = 1
  BY DEF ProviderInv, JudgedOnce, AnswersAreGrounded
<1> DEFINE n == Len(job.judged)
           f == [i \in 1..n |-> job.judged[i].claim]
<1>1. JudgedOnce /\ n >= Cardinality(Gradable)
  BY DEF ProviderInv, AllJudged
<1>2. n \in Nat /\ DOMAIN job.judged = 1..n
  BY <1>1, LenProperties DEF JudgedOnce
<1>3. (\A i, j \in 1..n : f[i] = f[j] => i = j) /\ \A i \in 1..n : f[i] \in Gradable
  BY <1>1, <1>2 DEF JudgedOnce
<1>4. DOMAIN f = 1..n /\ f = [i \in 1..n |-> f[i]]
  OBVIOUS
<1>5. \E i \in 1..n : f[i] = c
  <2> HIDE DEF f, n
  <2> DEFINE T == {f[i] : i \in 1..n}
  <2>1. Cardinality(T) = n /\ IsFiniteSet(T)
    BY <1>2, <1>3, <1>4, CountDistinct
  <2>2. T \subseteq Gradable
    BY <1>3
  <2>3. Cardinality(T) <= Cardinality(Gradable) /\ Cardinality(Gradable) \in Nat
    BY <2>2, GradableFinite, FS_Subset, FS_CardinalityType DEF GradableIsFinite
  <2>4. Cardinality(Gradable) = Cardinality(T)
    BY <1>1, <1>2, <2>1, <2>3
  <2>5. T = Gradable
    BY <2>2, <2>4, GradableFinite, FS_Subset DEF GradableIsFinite
  <2>6. QED
    BY <2>5
<1>6. PICK i \in 1..n : f[i] = c
  BY <1>5
<1>7. {k \in DOMAIN job.judged : job.judged[k].claim = c} = {i}
  BY <1>2, <1>3, <1>6
<1>8. QED
  BY <1>7, FS_Singleton

\* Whatever a provider answers, in whatever batches, and however often it is
\* asked again: the judge cites what it was sent, and the claim judge rules once
\* on every claim that has evidence, citing that claim's own.
THEOREM AnswersRestOnEvidence == Spec => []AnswersAreGrounded
<1> DEFINE Inv == HasTool /\ (job.tool = "provider" => ProviderInv)
<1>1. Init => Inv
  BY StartsWithTool, ProviderInitInv DEF OwnInit
<1>2. Inv /\ [Next]_job => Inv'
  <2> SUFFICES ASSUME HasTool, job.tool = "provider" => ProviderInv, [Next]_job
               PROVE  HasTool' /\ (job'.tool = "provider" => ProviderInv')
    OBVIOUS
  <2>1. SameTool /\ OwnStep
    BY OneTool
  <2>2. ASSUME UNCHANGED job, ProviderInv PROVE ProviderInv'
    BY <2>2 DEF ProviderInv, JudgedOnce, AllJudged, EndedWith, Running
  <2>3. QED
    BY <2>1, <2>2, ProviderNextInv DEF SameTool, OwnStep
<1>3. Inv => AnswersAreGrounded
  BY ProviderInvIsEnough DEF AnswersAreGrounded, EndedWith, Running
<1>4. QED
  BY <1>1, <1>2, <1>3, PTL DEF Spec

-----------------------------------------------------------------------------
\* The reception of a body: no more is held than its limits allow, and what is
\* handed on was complete and within both of them.

Received ==
  [tool : {"body"}, pc : {"headers", "stream", "decode", "parse", "ended"},
   type : {"json", "protobuf", "other"}, declared : DeclaredLengths,
   encoding : {"identity", "gzip", "other"}, wire : Nat, decoded : Nat,
   stream : GzipStream \cup {None}, result : HttpErrors \cup {"spans", None}]

\* While a body is streamed or decoded it is within the wire limit; a body
\* that is parsed is complete and within the other limit, too.
WithinWire == job.pc \in {"headers", "stream", "decode", "parse"} => job.wire <= MaxWire

ParsedIsComplete ==
  (job.pc = "parse" \/ job.result = "spans") =>
    /\ job.wire <= MaxWire /\ job.decoded <= MaxDecoded
    /\ job.encoding = "gzip" =>
         /\ job.stream \in GzipStream /\ job.stream.size = job.decoded
         /\ CompleteStream(job.stream)

BodyInv ==
  /\ job \in Received
  /\ job.wire <= MaxWire + MaxChunk /\ job.decoded <= MaxDecoded + 1
  /\ WithinWire
  /\ job.pc # "ended" => job.result = None
  /\ ParsedIsComplete

\* A job starts within its bounds, having received nothing.
LEMMA BodyInitInv == BodyInit => BodyInv
  BY BodyAssumption, ResultAssumption
     DEF BodyInit, BodyInv, Received, WithinWire, ParsedIsComplete

\* A refusal leaves what was received as it is.
LEMMA RefusalInv ==
  ASSUME BodyInv, NEW status \in HttpErrors, HttpError(status)
  PROVE  BodyInv'
  BY BodyAssumption, ResultAssumption
     DEF BodyInv, HttpError, HttpErrors, Received, WithinWire, ParsedIsComplete

\* Every step of the reception keeps it within its bounds.
LEMMA BodyNextInv == BodyInv /\ [BodyNext]_job => BodyInv'
<1> SUFFICES ASSUME BodyInv, [BodyNext]_job PROVE BodyInv'
  OBVIOUS
<1> USE BodyAssumption, ResultAssumption DEF Running
<1>0. /\ job \in Received /\ WithinWire /\ ParsedIsComplete
      /\ job.pc # "ended" => job.result = None
      /\ job.wire <= MaxWire + MaxChunk /\ job.decoded <= MaxDecoded + 1
  BY DEF BodyInv
<1>1. CASE ReadHeaders
  <2>1. CASE \E status \in HttpErrors : HttpError(status)
    BY <2>1, RefusalInv
  <2>2. CASE job' = [job EXCEPT !.pc = "stream"]
    BY <1>0, <1>1, <2>2 DEF ReadHeaders, BodyInv, Received, WithinWire, ParsedIsComplete
  <2>3. QED
    BY <1>1, <2>1, <2>2 DEF ReadHeaders, HttpErrors
<1>2. CASE BodyChunk
  <2>1. PICK n \in 1..MaxChunk :
          IF job.wire + n > MaxWire
          THEN job' = [job EXCEPT !.wire = @ + n, !.pc = "ended", !.result = "413"]
          ELSE job' = [job EXCEPT !.wire = @ + n]
    BY <1>2 DEF BodyChunk
  <2>2. /\ n \in Nat /\ n <= MaxChunk /\ job.wire \in Nat /\ job.wire <= MaxWire
        /\ job.pc = "stream" /\ job.result = None
    BY <1>0, <1>2 DEF BodyChunk, Received, WithinWire
  <2>3. CASE job.wire + n > MaxWire
    <3> DEFINE wire == job.wire + n
    <3>1. /\ wire \in Nat /\ wire <= MaxWire + MaxChunk
          /\ job' = [job EXCEPT !.wire = wire, !.pc = "ended", !.result = "413"]
      BY <2>1, <2>2, <2>3
    <3> HIDE DEF wire
    <3>2. job' \in Received
      BY <1>0, <3>1 DEF Received, HttpErrors
    <3>3. QED
      BY <1>0, <3>1, <3>2 DEF BodyInv, Received, WithinWire, ParsedIsComplete
  <2>4. CASE job.wire + n <= MaxWire
    BY <1>0, <2>1, <2>2, <2>4 DEF BodyInv, Received, WithinWire, ParsedIsComplete
  <2>5. QED
    BY <2>2, <2>3, <2>4
<1>3. CASE BodyComplete
  <2>1. CASE \E status \in HttpErrors : HttpError(status)
    BY <2>1, RefusalInv
  <2>2. CASE job' = [job EXCEPT !.pc = "decode"]
    BY <1>0, <1>3, <2>2 DEF BodyComplete, BodyInv, Received, WithinWire, ParsedIsComplete
  <2>3. QED
    BY <1>3, <2>1, <2>2 DEF BodyComplete, HttpErrors
<1>4. CASE InflateBody
  <2>1. PICK stream \in GzipStream :
          job' = [job EXCEPT !.stream = stream, !.decoded = Inflated(stream),
                    !.pc = IF Inflated(stream) > MaxDecoded \/ ~CompleteStream(stream)
                           THEN "ended" ELSE "parse",
                    !.result = IF Inflated(stream) > MaxDecoded THEN "413"
                               ELSE IF ~CompleteStream(stream) THEN "400" ELSE None]
    BY <1>4 DEF InflateBody
  <2>2. /\ Inflated(stream) \in Nat /\ Inflated(stream) <= MaxDecoded + 1
        /\ Inflated(stream) <= MaxDecoded => Inflated(stream) = stream.size
    BY DEF Inflated, GzipStream
  <2>3. job.wire \in Nat /\ job.wire <= MaxWire
    BY <1>0, <1>4 DEF InflateBody, Received, WithinWire
  <2> DEFINE decoded == Inflated(stream)
  <2>4. CASE decoded > MaxDecoded \/ ~CompleteStream(stream)
    <3>1. PICK result \in HttpErrors :
            job' = [job EXCEPT !.stream = stream, !.decoded = decoded,
                               !.pc = "ended", !.result = result]
      BY <2>1, <2>4 DEF HttpErrors
    <3> HIDE DEF decoded
    <3>2. QED
      BY <1>0, <2>2, <2>3, <3>1 DEF BodyInv, Received, HttpErrors, WithinWire, ParsedIsComplete, decoded
  <2>5. CASE decoded <= MaxDecoded /\ CompleteStream(stream)
    <3>1. job' = [job EXCEPT !.stream = stream, !.decoded = decoded,
                             !.pc = "parse", !.result = None]
      <4>1. ~ decoded > MaxDecoded
        BY <2>2, <2>5
      <4>2. QED
        BY <2>1, <2>5, <4>1
    <3>2. decoded \in Nat /\ decoded <= MaxDecoded /\ decoded = stream.size
      BY <2>2, <2>5
    <3> HIDE DEF decoded
    <3>3. /\ job' \in Received
          /\ job'.stream = stream /\ job'.decoded = decoded /\ job'.pc = "parse"
          /\ job'.wire = job.wire /\ job'.encoding = job.encoding /\ job'.result = None
      BY <1>0, <3>1, <3>2 DEF Received
    <3>4. QED
      BY <2>3, <2>5, <3>2, <3>3 DEF BodyInv, WithinWire, ParsedIsComplete
  <2>6. QED
    BY <2>2, <2>4, <2>5
<1>5. CASE KeepBody
  <2>1. CASE \E status \in HttpErrors : HttpError(status)
    BY <2>1, RefusalInv
  <2>2. CASE /\ job.wire <= MaxDecoded
             /\ job' = [job EXCEPT !.pc = "parse", !.decoded = job.wire]
    <3>1. /\ job' \in Received
          /\ job'.decoded = job.wire /\ job'.wire = job.wire /\ job'.pc = "parse"
          /\ job'.encoding = job.encoding /\ job'.result = job.result
      BY <1>0, <2>2 DEF Received
    <3>2. job.wire \in Nat /\ job.encoding # "gzip" /\ job.wire <= MaxWire /\ job.result = None
      BY <1>0, <1>5 DEF KeepBody, Received, WithinWire
    <3>3. QED
      BY <2>2, <3>1, <3>2 DEF BodyInv, WithinWire, ParsedIsComplete
  <2>3. job.wire \in Nat
    BY <1>0 DEF Received
  <2>4. QED
    BY <1>5, <2>1, <2>2, <2>3 DEF KeepBody, HttpErrors
<1>6. CASE ParseBody
  <2>1. CASE \E status \in HttpErrors : HttpError(status)
    BY <2>1, RefusalInv
  <2>2. CASE job' = [job EXCEPT !.pc = "ended", !.result = "spans"]
    BY <1>0, <1>6, <2>2 DEF ParseBody, BodyInv, Received, WithinWire, ParsedIsComplete
  <2>3. QED
    BY <1>6, <2>1, <2>2 DEF ParseBody, HttpErrors
<1>7. CASE UNCHANGED job
  BY <1>0, <1>7 DEF BodyInv, WithinWire, ParsedIsComplete
<1>8. QED
  BY <1>1, <1>2, <1>3, <1>4, <1>5, <1>6, <1>7 DEF BodyNext

\* However a client streams and compresses, and whatever the limits are: no more
\* than the wire limit and a chunk is held, no more than a byte above the
\* decoded limit inflated, and only a complete body is handed on.
THEOREM BodiesAreBounded == Spec => []BodyIsBounded
<1> DEFINE Inv == HasTool /\ (job.tool = "body" => BodyInv)
<1>1. Init => Inv
  BY StartsWithTool, BodyInitInv DEF OwnInit
<1>2. Inv /\ [Next]_job => Inv'
  <2> SUFFICES ASSUME HasTool, job.tool = "body" => BodyInv, [Next]_job
               PROVE  HasTool' /\ (job'.tool = "body" => BodyInv')
    OBVIOUS
  <2>1. SameTool /\ OwnStep
    BY OneTool
  <2>2. QED
    BY <2>1, BodyNextInv DEF SameTool, OwnStep
<1>3. Inv => BodyIsBounded
  BY DEF BodyInv, ParsedIsComplete, CompleteStream, BodyIsBounded
<1>4. QED
  BY <1>1, <1>2, <1>3, PTL DEF Spec
=============================================================================

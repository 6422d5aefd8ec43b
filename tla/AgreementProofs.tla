----------------------------- MODULE AgreementProofs -----------------------------
(***************************************************************************)
(* What the store serves agrees, one call at a time, for every set of      *)
(* traces, payloads, batches and judges.  Two hypotheses are needed: calls *)
(* do not interleave (OneWorker), and two readings of the clock differ     *)
(* (ClockMoves), for the newest row is found by its date alone.            *)
(***************************************************************************)
EXTENDS ReviewLedgerProofs

ClockMoves == \A d \in ClockSteps : d > 0

-----------------------------------------------------------------------------
(***************************************************************************)
(* The inductive invariant, in four parts, and the one for exported        *)
(* labels, which needs no clock.                                           *)
(***************************************************************************)

\* Rows are dated in the order they were inserted, and none in the future.
Chronological(rows, now) ==
  /\ \A i \in DOMAIN rows : rows[i].created_at <= now
  /\ \A i, j \in DOMAIN rows : i < j => rows[i].created_at < rows[j].created_at

NewerThan(date, rows, now) ==
  /\ date <= now
  /\ \A i \in DOMAIN rows : rows[i].created_at < date

DatesOK ==
  /\ Chronological(evaluations, clock)
  /\ Chronological(judge_reports, clock)
  /\ \A w \in Workers :
       /\ At(w, "save_evaluation") => NewerThan(job[w].created_at, evaluations, clock)
       /\ At(w, "save_judge_report") => NewerThan(job[w].created_at, judge_reports, clock)

\* The payload is written and its evaluation is not: the only time at which a
\* trace and its newest evaluation may differ.
Unevaluated(w) == Remembers(w, {"evaluate", "save_evaluation"})

ImportOK(w) ==
  /\ Remembers(w, Imports) =>
       /\ job[w].batch \in Batches
       /\ job[w].answer = "none"
       /\ \A i \in DOMAIN job[w].batch : i < job[w].k => Agrees(job[w].batch[i].trace)
  /\ Unevaluated(w) => traces[Importing(w).trace] = Importing(w).content

ImportsOK == \A w \in Workers : ImportOK(w)

ServedOK ==
  crashes = 0 =>
    \A t \in TraceIds :
      traces[t] # None /\ ~ Agrees(t)
        => \E w \in Workers : Unevaluated(w) /\ Importing(w).trace = t

Queues == {"queue_evaluation", "queue_judge", "find_review", "select_review"}

\* A report that gave a reason for review and has no review item ...
Owed(j) ==
  LET report == judge_reports[j]
  IN  /\ FoundReasons(Passed(report.evaluation), report.verdict, report.low) # {}
      /\ ReviewItemsOf(report.trace, report.evaluation, j) = {}

\* ... is the one this call is about to queue.
Queueing(w, j) ==
  LET report == judge_reports[j]
  IN  /\ Remembers(w, Queues)
      /\ job[w].trace = report.trace
      /\ report.evaluation \in LatestEvaluations(report.trace)
      /\ j \in LatestJudgeReports(report.trace)
      /\ Remembers(w, Queues \ {"queue_evaluation"}) => job[w].evaluation = report.evaluation
      /\ Remembers(w, {"find_review", "select_review"}) => job[w].judge = j

QueueOK ==
  /\ \A w \in Workers :
       Remembers(w, {"call_provider", "save_judge_report"})
         => job[w].evaluation \in LatestEvaluations(job[w].trace)
  /\ crashes = 0 =>
       \A j \in DOMAIN judge_reports : Owed(j) => \E w \in Workers : Queueing(w, j)

Decided(cases) ==
  \A c \in cases :
    /\ c.review \in ResolvedItems
    /\ review_items[c.review].resolution.verdict = c.verdict

LabelsOK ==
  /\ LabelsAreDecisions
  /\ \A w \in Workers : At(w, "export_write") => Decided(job[w].cases)

AgreementInvariant ==
  SequentialInvariant /\ DatesOK /\ ImportsOK /\ ServedOK /\ QueueOK

-----------------------------------------------------------------------------
(***************************************************************************)
(* Which steps write what, and which steps lead where.                     *)
(***************************************************************************)

LEMMA WhoWritesRows ==
  ASSUME NEW w \in Workers, Request(w) \/ Work(w) \/ Crash(w)
  PROVE  /\ UNCHANGED traces \/ SaveTraceCommit(w)
         /\ UNCHANGED evaluations \/ SaveEvaluation(w)
         /\ UNCHANGED judge_reports \/ SaveJudgeReport(w)
         /\ UNCHANGED clock \/ EvaluateTrace(w) \/ JudgeAnswers(w)
         /\ UNCHANGED crashes \/ crashes' = crashes + 1
         /\ UNCHANGED datasets \/ ExportWrite(w)
         /\ UNCHANGED review_items \/ SelectReview(w) \/ ResolveSave(w)
<1> USE DEF tables
<1>1. CASE Request(w) \/ Crash(w)
  BY <1>1 DEF Request, RequestImport, RequestJudge, RequestQueue, RequestResolve,
              RequestExport, RequestDerived, Admit, Crash
<1>2. CASE Import(w)
  BY <1>2 DEF Import, SaveTraceRead, SaveTraceConflict, SaveTraceCommit, EvaluateTrace,
              SaveEvaluation, WriteTrace, InsertEvaluation, ReadOnly, Steady
<1>3. CASE Judge(w)
  BY <1>3 DEF Judge, JudgeReadTrace, JudgeReadEvaluation, JudgeFails, JudgeAnswers,
              SaveJudgeReport, InsertJudgeReport, ReadTrace, ReadLatestEvaluation, ReadOnly,
              Steady
<1>4. CASE Queue(w)
  BY <1>4 DEF Queue, QueueReadEvaluation, QueueReadJudge, FindReviewItem, SelectMismatched,
              SelectNothing, SelectReview, SaveReviewItem, ReadLatestEvaluation, ReadOnly, Steady
<1>5. CASE Resolve(w) \/ Export(w) \/ Derive(w)
  BY <1>5 DEF Resolve, ResolveRefused, ResolveRead, ResolveSave, SaveReviewItem, Export,
              ExportExists, ExportList, ExportWrite, Derive, DeriveReadTrace,
              DeriveReadEvaluation, DeriveReply, ReadTrace, ReadLatestEvaluation, ReadOnly,
              Steady
<1> QED
  BY <1>1, <1>2, <1>3, <1>4, <1>5 DEF Work

LEMMA Arrivals ==
  ASSUME Invariant, NEW w \in Workers, Request(w) \/ Work(w) \/ Crash(w)
  PROVE  LET pc == job'[w].pc
         IN  /\ pc = "save_read" => SaveEvaluation(w) \/ \E b \in Batches : RequestImport(w, b)
             /\ pc = "save_commit" => SaveTraceRead(w)
             /\ pc = "evaluate" => SaveTraceCommit(w)
             /\ pc = "save_evaluation" => EvaluateTrace(w)
             /\ pc = "call_provider" => JudgeReadEvaluation(w)
             /\ pc = "save_judge_report" => JudgeAnswers(w)
             /\ pc = "derive_evaluation" => DeriveReadTrace(w)
             /\ pc = "derive" => DeriveReadEvaluation(w)
             /\ pc = "export_write" => ExportList(w)
<1> DEFINE pc == job'[w].pc
<1>1. /\ job[w] \in Job
      /\ \A next : Continue(w, next) => job'[w] = next
  BY DEF Invariant, TypeOK, Continue
<1>2. ASSUME NEW a, Reply(w, a) PROVE pc = "idle"
  BY <1>1, <1>2 DEF Reply, Idle
<1>3. ASSUME NEW from, NEW to, ReadTrace(w, from, to) \/ ReadLatestEvaluation(w, from, to)
      PROVE  pc \in {"idle", to}
  BY <1>1, <1>2, <1>3 DEF ReadTrace, ReadLatestEvaluation, Job
<1>4. CASE Request(w)
  <2>1. ASSUME NEW t, RequestJudge(w, t) \/ RequestDerived(w, t) \/ RequestExport(w, t)
        PROVE  pc \in {"judge_trace", "derive_trace", "export_exists"}
    BY <1>1, <2>1 DEF RequestJudge, RequestDerived, RequestExport, Begin, Idle
  <2>2. ASSUME NEW t, NEW x, RequestQueue(w, t, x) \/ RequestResolve(w, t, x)
        PROVE  pc \in {"queue_evaluation", "resolve_read"}
    BY <1>1, <2>2 DEF RequestQueue, RequestResolve, Begin, Idle
  <2>3. ASSUME NEW b \in Batches, RequestImport(w, b)
        PROVE  pc = "save_read"
    BY <1>1, <2>3 DEF RequestImport, Begin, Idle
  <2> QED
    BY <1>4, <2>1, <2>2, <2>3 DEF Request
<1>5. CASE Import(w)
  <2>1. SaveTraceRead(w) => pc = "save_commit"
    BY <1>1 DEF SaveTraceRead, Job
  <2>2. SaveTraceConflict(w) => pc = "idle"
    BY <1>2 DEF SaveTraceConflict
  <2>3. SaveTraceCommit(w) => pc = "evaluate"
    BY <1>1 DEF SaveTraceCommit, Job
  <2>4. EvaluateTrace(w) => pc = "save_evaluation"
    BY <1>1 DEF EvaluateTrace, Job
  <2>5. SaveEvaluation(w) => pc \in {"idle", "save_read"}
    BY <1>1, <1>2 DEF SaveEvaluation, Job
  <2> QED
    BY <1>5, <2>1, <2>2, <2>3, <2>4, <2>5 DEF Import
<1>6. CASE Judge(w)
  <2>1. JudgeReadTrace(w) => pc \in {"idle", "judge_evaluation"}
    BY <1>3 DEF JudgeReadTrace
  <2>2. JudgeReadEvaluation(w) => pc \in {"idle", "call_provider"}
    BY <1>3 DEF JudgeReadEvaluation
  <2>3. JudgeFails(w) => pc = "idle"
    BY <1>2 DEF JudgeFails
  <2>4. JudgeAnswers(w) => pc = "save_judge_report"
    BY <1>1 DEF JudgeAnswers, Job
  <2>5. SaveJudgeReport(w) => pc = "queue_evaluation"
    BY <1>1 DEF SaveJudgeReport, Begin, Idle
  <2> QED
    BY <1>6, <2>1, <2>2, <2>3, <2>4, <2>5 DEF Judge
<1>7. CASE Queue(w)
  <2>1. QueueReadEvaluation(w) => pc \in {"idle", "queue_judge"}
    BY <1>3 DEF QueueReadEvaluation
  <2>2. QueueReadJudge(w) => pc \in {"idle", "find_review"}
    BY <1>1, <1>2 DEF QueueReadJudge, Job
  <2>3. FindReviewItem(w) => pc \in {"idle", "select_review"}
    BY <1>1, <1>2 DEF FindReviewItem, Job
  <2>4. SelectMismatched(w) \/ SelectNothing(w) \/ SelectReview(w) => pc = "idle"
    BY <1>2 DEF SelectMismatched, SelectNothing, SelectReview
  <2> QED
    BY <1>7, <2>1, <2>2, <2>3, <2>4 DEF Queue
<1>8. CASE Resolve(w)
  <2>1. ResolveRefused(w) \/ ResolveSave(w) => pc = "idle"
    BY <1>2 DEF ResolveRefused, ResolveSave
  <2>2. ResolveRead(w) => pc = "resolve_save"
    BY <1>1 DEF ResolveRead, Job
  <2> QED
    BY <1>8, <2>1, <2>2 DEF Resolve
<1>9. CASE Export(w)
  <2>1. ExportExists(w) => pc \in {"idle", "export_list"}
    BY <1>1, <1>2 DEF ExportExists, Job
  <2>2. ExportList(w) => pc \in {"idle", "export_write"}
    BY <1>1, <1>2 DEF ExportList, Job
  <2>3. ExportWrite(w) => pc = "idle"
    BY <1>2 DEF ExportWrite
  <2> QED
    BY <1>9, <2>1, <2>2, <2>3 DEF Export
<1>10. CASE Derive(w)
  <2>1. DeriveReadTrace(w) => pc \in {"idle", "derive_evaluation"}
    BY <1>3 DEF DeriveReadTrace
  <2>2. DeriveReadEvaluation(w) => pc \in {"idle", "derive"}
    BY <1>3 DEF DeriveReadEvaluation
  <2>3. DeriveReply(w) => pc = "idle"
    BY <1>2 DEF DeriveReply
  <2> QED
    BY <1>10, <2>1, <2>2, <2>3 DEF Derive
<1>11. CASE Crash(w)
  BY <1>2, <1>11 DEF Crash
<1> QED
  BY <1>4, <1>5, <1>6, <1>7, <1>8, <1>9, <1>10, <1>11 DEF Work

LEMMA Departures ==
  ASSUME NEW w \in Workers, Request(w) \/ Work(w) \/ Crash(w)
  PROVE  /\ At(w, "idle") => Request(w)
         /\ Remembers(w, Imports) => Import(w) \/ Crash(w)
         /\ At(w, "save_evaluation") => SaveEvaluation(w) \/ Crash(w)
         /\ Remembers(w, Queues) => Queue(w) \/ Crash(w)
<1> USE DEF At, Remembers, Imports, Queues
<1>1. CASE Request(w) \/ Crash(w)
  BY <1>1 DEF Request, RequestImport, RequestJudge, RequestQueue, RequestResolve,
              RequestExport, RequestDerived, Admit, Crash
<1>2. CASE Import(w)
  BY <1>2 DEF Import, SaveTraceRead, SaveTraceConflict, SaveTraceCommit, EvaluateTrace,
              SaveEvaluation
<1>3. CASE Judge(w)
  BY <1>3 DEF Judge, JudgeReadTrace, JudgeReadEvaluation, JudgeFails, JudgeAnswers,
              SaveJudgeReport, ReadTrace, ReadLatestEvaluation
<1>4. CASE Queue(w)
  BY <1>4 DEF Queue, QueueReadEvaluation, QueueReadJudge, FindReviewItem, SelectMismatched,
              SelectNothing, SelectReview, ReadLatestEvaluation
<1>5. CASE Resolve(w) \/ Export(w) \/ Derive(w)
  BY <1>5 DEF Resolve, ResolveRefused, ResolveRead, ResolveSave, Export,
              ExportExists, ExportList, ExportWrite, Derive, DeriveReadTrace,
              DeriveReadEvaluation, DeriveReply, ReadTrace, ReadLatestEvaluation
<1> QED
  BY <1>1, <1>2, <1>3, <1>4, <1>5 DEF Work

-----------------------------------------------------------------------------
(***************************************************************************)
(* Dates, and the newest row.                                              *)
(***************************************************************************)

\* A row dated after all others is the newest of its trace, and the newest of
\* every other trace stays what it was.
LEMMA AppendNewest ==
  ASSUME NEW S, NEW rows \in Seq(S), NEW row \in S, NEW now \in Nat,
         \A r \in S : r.created_at \in Nat,
         Chronological(rows, now), NewerThan(row.created_at, rows, now)
  PROVE  LET rows1 == Append(rows, row)
         IN  /\ Chronological(rows1, now)
             /\ LatestIn(rows1, row.trace) = {Len(rows) + 1}
             /\ rows1[Len(rows) + 1] = row
             /\ \A t : t # row.trace => LatestIn(rows1, t) = LatestIn(rows, t)
<1> DEFINE n == Len(rows) + 1
           rows1 == Append(rows, row)
<1>1. /\ DOMAIN rows = 1..Len(rows) /\ Len(rows) \in Nat
      /\ \A i \in DOMAIN rows : rows[i] \in S
  BY LenProperties, ElementOfSeq
<1>2. /\ DOMAIN rows1 = DOMAIN rows \cup {n}
      /\ n \notin DOMAIN rows
      /\ rows1[n] = row
      /\ \A i \in DOMAIN rows : rows1[i] = rows[i]
  BY AppendKeeps DEF Kept
<1> HIDE DEF rows1
<1>3. /\ \A i \in DOMAIN rows : i < n /\ ~ (n < i)
      /\ ~ (n < n) /\ n \in Nat
  BY <1>1
<1>4. /\ \A i \in DOMAIN rows : rows[i].created_at \in Nat /\ rows[i].created_at < row.created_at
      /\ row.created_at \in Nat /\ row.created_at <= now
  BY <1>1 DEF NewerThan
<1>5. Chronological(rows1, now)
  BY <1>2, <1>3, <1>4 DEF Chronological
<1>6. LatestIn(rows1, row.trace) = {n}
  BY <1>2, <1>4 DEF LatestIn
<1>7. ASSUME NEW t, t # row.trace PROVE LatestIn(rows1, t) = LatestIn(rows, t)
  BY <1>2, <1>7 DEF LatestIn
<1> QED
  BY <1>2, <1>5, <1>6, <1>7 DEF rows1

\* At most one row is the newest of a trace.
LEMMA OneNewest ==
  ASSUME NEW S, NEW rows \in Seq(S), NEW now \in Nat,
         \A r \in S : r.created_at \in Nat,
         Chronological(rows, now),
         NEW t, NEW i \in LatestIn(rows, t), NEW j \in LatestIn(rows, t)
  PROVE  i = j
<1>1. /\ DOMAIN rows = 1..Len(rows) /\ Len(rows) \in Nat
      /\ \A k \in DOMAIN rows : rows[k] \in S
  BY LenProperties, ElementOfSeq
<1>2. /\ i \in DOMAIN rows /\ j \in DOMAIN rows
      /\ rows[i].created_at <= rows[j].created_at
      /\ rows[j].created_at <= rows[i].created_at
  BY DEF LatestIn
<1> QED
  BY <1>1, <1>2 DEF Chronological

\* The clock moves on, so what is dated now is newer than every row.
LEMMA NowIsNewer ==
  ASSUME NEW S, NEW rows \in Seq(S), NEW now \in Nat, NEW later \in Nat, now < later,
         \A r \in S : r.created_at \in Nat, Chronological(rows, now)
  PROVE  Chronological(rows, later) /\ NewerThan(later, rows, later)
<1>1. \A k \in DOMAIN rows : rows[k].created_at \in Nat /\ rows[k].created_at <= now
  BY LenProperties, ElementOfSeq DEF Chronological
<1>2. \A k \in DOMAIN rows : rows[k].created_at < later
  BY <1>1
<1> QED
  BY <1>1, <1>2 DEF Chronological, NewerThan

LEMMA RowsAreTyped ==
  ASSUME Invariant
  PROVE  /\ evaluations \in Seq(EvaluationRow) /\ judge_reports \in Seq(JudgeReportRow)
         /\ clock \in Nat
         /\ \A r \in EvaluationRow : r.created_at \in Nat
         /\ \A r \in JudgeReportRow : r.created_at \in Nat
         /\ \A w \in Workers : job[w] \in Job /\ job[w].created_at \in Nat
BY DEF Invariant, TypeOK, StoreTypeOK, EvaluationRow, JudgeReportRow, Job

\* What SaveEvaluation and SaveJudgeReport insert.
LEMMA EvaluationInserted ==
  ASSUME Invariant, DatesOK, NEW w \in Workers, SaveEvaluation(w)
  PROVE  LET n == Len(evaluations) + 1
         IN  /\ Importing(w).trace \in TraceIds /\ Importing(w).content \in Contents
             /\ n \notin DOMAIN evaluations
             /\ Kept(evaluations, evaluations')
             /\ evaluations'[n].content = Importing(w).content
             /\ LatestIn(evaluations', Importing(w).trace) = {n}
             /\ \A t : t # Importing(w).trace
                       => LatestIn(evaluations', t) = LatestIn(evaluations, t)
             /\ Chronological(evaluations', clock)
<1> DEFINE row == [trace |-> Importing(w).trace, content |-> Importing(w).content,
                   created_at |-> job[w].created_at]
<1>1. At(w, "save_evaluation") /\ Remembers(w, Imports)
  BY DEF SaveEvaluation, At, Remembers, Imports
<1>2. Importing(w).trace \in TraceIds /\ Importing(w).content \in Contents
  BY <1>1, ImportingIsTyped
<1>3. /\ row \in EvaluationRow /\ row.trace = Importing(w).trace
      /\ row.content = Importing(w).content /\ row.created_at = job[w].created_at
  BY <1>2, RowsAreTyped DEF EvaluationRow
<1>4. evaluations' = Append(evaluations, row)
  BY DEF SaveEvaluation, InsertEvaluation
<1> HIDE DEF row
<1>5. NewerThan(row.created_at, evaluations, clock) /\ Chronological(evaluations, clock)
  BY <1>1, <1>3 DEF DatesOK
<1>6. Kept(evaluations, evaluations') /\ Len(evaluations) + 1 \notin DOMAIN evaluations
  BY <1>3, <1>4, AppendKeeps, RowsAreTyped
<1>7. /\ evaluations \in Seq(EvaluationRow) /\ row \in EvaluationRow /\ clock \in Nat
      /\ \A r \in EvaluationRow : r.created_at \in Nat
      /\ Chronological(evaluations, clock) /\ NewerThan(row.created_at, evaluations, clock)
  BY <1>3, <1>5, RowsAreTyped
<1>8. LET rows1 == Append(evaluations, row)
      IN  /\ Chronological(rows1, clock)
          /\ LatestIn(rows1, row.trace) = {Len(evaluations) + 1}
          /\ rows1[Len(evaluations) + 1] = row
          /\ \A t : t # row.trace => LatestIn(rows1, t) = LatestIn(evaluations, t)
  BY <1>7, AppendNewest, SMTT(30)
<1> QED
  BY <1>2, <1>3, <1>4, <1>6, <1>8

LEMMA ReportInserted ==
  ASSUME Invariant, DatesOK, NEW w \in Workers, SaveJudgeReport(w)
  PROVE  LET n == Len(judge_reports) + 1
         IN  /\ n \notin DOMAIN judge_reports
             /\ DOMAIN judge_reports' = DOMAIN judge_reports \cup {n}
             /\ Kept(judge_reports, judge_reports')
             /\ judge_reports'[n].trace = job[w].trace
             /\ judge_reports'[n].evaluation = job[w].evaluation
             /\ LatestIn(judge_reports', job[w].trace) = {n}
             /\ Chronological(judge_reports', clock)
<1> DEFINE row == [trace |-> job[w].trace, evaluation |-> job[w].evaluation,
                   content |-> job[w].content, verdict |-> job[w].output.verdict,
                   low |-> job[w].output.low, created_at |-> job[w].created_at]
<1>1. /\ At(w, "save_judge_report") /\ Remembers(w, KnowsTrace) /\ Remembers(w, KnowsContent)
      /\ MemoryOK(w)
  BY DEF SaveJudgeReport, At, Remembers, KnowsTrace, KnowsContent, Invariant, ReadsStayValid
<1>2. job[w].trace \in TraceIds /\ job[w].content \in Contents
  BY <1>1 DEF MemoryOK
<1>3. /\ row \in JudgeReportRow /\ row.trace = job[w].trace
      /\ row.evaluation = job[w].evaluation /\ row.created_at = job[w].created_at
  BY <1>2, RowsAreTyped DEF JudgeReportRow, Job
<1>4. judge_reports' = Append(judge_reports, row)
  BY DEF SaveJudgeReport, InsertJudgeReport
<1> HIDE DEF row
<1>5. NewerThan(row.created_at, judge_reports, clock) /\ Chronological(judge_reports, clock)
  BY <1>1, <1>3 DEF DatesOK
<1>6. /\ Kept(judge_reports, judge_reports')
      /\ Len(judge_reports) + 1 \notin DOMAIN judge_reports
      /\ DOMAIN judge_reports' = DOMAIN judge_reports \cup {Len(judge_reports) + 1}
  BY <1>3, <1>4, AppendKeeps, RowsAreTyped
<1>7. /\ judge_reports \in Seq(JudgeReportRow) /\ row \in JudgeReportRow /\ clock \in Nat
      /\ \A r \in JudgeReportRow : r.created_at \in Nat
      /\ Chronological(judge_reports, clock) /\ NewerThan(row.created_at, judge_reports, clock)
  BY <1>3, <1>5, RowsAreTyped
<1>8. LET rows1 == Append(judge_reports, row)
      IN  /\ Chronological(rows1, clock)
          /\ LatestIn(rows1, row.trace) = {Len(judge_reports) + 1}
          /\ rows1[Len(judge_reports) + 1] = row
          /\ \A t : t # row.trace => LatestIn(rows1, t) = LatestIn(judge_reports, t)
  BY <1>7, AppendNewest, SMTT(30)
<1> QED
  BY <1>3, <1>4, <1>6, <1>8

LEMMA ClockAdvances ==
  ASSUME Invariant, ClockMoves, NEW w \in Workers, EvaluateTrace(w) \/ JudgeAnswers(w)
  PROVE  clock' \in Nat /\ clock < clock' /\ job'[w].created_at = clock'
<1>1. Tick
  BY DEF EvaluateTrace, JudgeAnswers
<1>2. clock' \in Nat /\ clock < clock'
  BY <1>1, RowsAreTyped, ClockAssumption DEF Tick, ClockMoves
<1>3. \A next : Continue(w, next) => job'[w] = next
  BY DEF Continue, Invariant, TypeOK
<1>4. job'[w].created_at = clock'
  BY <1>3, RowsAreTyped DEF EvaluateTrace, JudgeAnswers, Job
<1> QED
  BY <1>2, <1>4

LEMMA DatesStep ==
  ASSUME Invariant, DatesOK, OneWorker, ClockMoves,
         NEW w \in Workers, Request(w) \/ Work(w) \/ Crash(w)
  PROVE  DatesOK'
<1>1. \A v \in Workers : v = w
  BY DEF OneWorker
<1>2. CASE EvaluateTrace(w) \/ JudgeAnswers(w)
  <2>1. UNCHANGED <<evaluations, judge_reports>>
    BY <1>2 DEF EvaluateTrace, JudgeAnswers, tables
  <2>2. /\ Chronological(evaluations, clock') /\ NewerThan(clock', evaluations, clock')
        /\ Chronological(judge_reports, clock') /\ NewerThan(clock', judge_reports, clock')
    BY <1>2, ClockAdvances, NowIsNewer, RowsAreTyped DEF DatesOK
  <2> QED
    BY <1>1, <1>2, <2>1, <2>2, ClockAdvances DEF DatesOK
<1>3. ASSUME ~ EvaluateTrace(w), ~ JudgeAnswers(w)
      PROVE  /\ clock' = clock
             /\ job'[w].pc \notin {"save_evaluation", "save_judge_report"}
  BY <1>3, Arrivals, WhoWritesRows
<1>4. CASE ~ EvaluateTrace(w) /\ ~ JudgeAnswers(w)
  <2>1. Chronological(evaluations', clock)
    BY WhoWritesRows, EvaluationInserted DEF DatesOK
  <2>2. Chronological(judge_reports', clock)
    BY WhoWritesRows, ReportInserted DEF DatesOK
  <2> QED
    BY <1>1, <1>3, <1>4, <2>1, <2>2 DEF DatesOK, At
<1> QED
  BY <1>2, <1>4

-----------------------------------------------------------------------------
(***************************************************************************)
(* Imports, and the pair they leave.                                       *)
(***************************************************************************)

LEMMA AgreementStays ==
  ASSUME NEW t, Agrees(t), traces'[t] = traces[t], Kept(evaluations, evaluations'),
         LatestIn(evaluations', t) = LatestIn(evaluations, t)
  PROVE  Agrees(t)'
<1>1. LatestIn(evaluations, t) \subseteq DOMAIN evaluations
  BY DEF LatestIn
<1> QED
  BY <1>1 DEF Agrees, LatestEvaluations, Kept

\* Agreement on a trace is disturbed only when its payload is written, and
\* restored when its evaluation is.
LEMMA AgreementMoves ==
  ASSUME Invariant, DatesOK, ImportsOK, NEW w \in Workers, Request(w) \/ Work(w) \/ Crash(w)
  PROVE  \A t \in TraceIds :
           /\ SaveEvaluation(w) /\ Importing(w).trace = t => Agrees(t)'
           /\ \/ SaveTraceCommit(w) /\ Importing(w).trace = t
              \/ traces'[t] = traces[t] /\ (Agrees(t) => Agrees(t)')
<1>1. CASE SaveEvaluation(w)
  <2>1. Unevaluated(w) /\ UNCHANGED traces
    BY <1>1 DEF SaveEvaluation, InsertEvaluation, Unevaluated, At, Remembers
  <2>2. traces[Importing(w).trace] = Importing(w).content
    BY <2>1 DEF ImportsOK, ImportOK
  <2>3. \A t : t = Importing(w).trace => Agrees(t)'
    BY <1>1, <2>1, <2>2, EvaluationInserted DEF Agrees, LatestEvaluations
  <2>4. \A t : t # Importing(w).trace /\ Agrees(t) => Agrees(t)'
    BY <1>1, <2>1, AgreementStays, EvaluationInserted
  <2> QED
    BY <2>1, <2>3, <2>4
<1>2. CASE SaveTraceCommit(w)
  <2>1. evaluations' = evaluations
    BY <1>2 DEF SaveTraceCommit, WriteTrace
  <2>2. \A t \in TraceIds : t # Importing(w).trace => traces'[t] = traces[t]
    BY <1>2 DEF SaveTraceCommit, WriteTrace, Invariant, TypeOK, StoreTypeOK
  <2>3. ~ SaveEvaluation(w)
    BY <1>2 DEF SaveTraceCommit, SaveEvaluation, At
  <2> QED
    BY <1>2, <2>1, <2>2, <2>3, AgreementStays DEF Kept
<1>3. CASE ~ SaveEvaluation(w) /\ ~ SaveTraceCommit(w)
  BY <1>3, WhoWritesRows, AgreementStays DEF Kept
<1> QED
  BY <1>1, <1>2, <1>3

\* An import leaves the traces it has imported before alone.
LEMMA ImportsStep ==
  ASSUME SequentialInvariant, DatesOK, ImportsOK, OneWorker,
         NEW w \in Workers, Request(w) \/ Work(w) \/ Crash(w)
  PROVE  ImportsOK'
<1>1. /\ \A v \in Workers : v = w
      /\ Invariant /\ ChecksStayTrue /\ ImportOK(w) /\ MemoryOK(w)
      /\ job[w] \in Job
      /\ \A next : Continue(w, next) => job'[w] = next
  BY DEF OneWorker, SequentialInvariant, Invariant, TypeOK, Continue, ImportsOK, ReadsStayValid
<1>2. ASSUME Remembers(w, Imports)
      PROVE  /\ job[w].batch \in Batches /\ job[w].answer = "none"
             /\ job[w].k \in DOMAIN job[w].batch /\ job[w].k \in Nat
             /\ DOMAIN job[w].batch \subseteq Nat
             /\ \A i \in DOMAIN job[w].batch :
                  /\ job[w].batch[i].trace \in TraceIds
                  /\ i < job[w].k => /\ Agrees(job[w].batch[i].trace)
                                     /\ job[w].batch[i].trace # Importing(w).trace
  <2>1. /\ job[w].batch \in Batches /\ job[w].answer = "none"
        /\ job[w].k \in DOMAIN job[w].batch /\ job[w].k \in Nat
        /\ \A i \in DOMAIN job[w].batch : i < job[w].k => Agrees(job[w].batch[i].trace)
    BY <1>1, <1>2 DEF ImportOK, MemoryOK, Job
  <2>2. /\ job[w].batch \in Seq([trace : TraceIds, content : Contents])
        /\ \A i, j \in DOMAIN job[w].batch :
             job[w].batch[i].trace = job[w].batch[j].trace => i = j
    BY <2>1, BatchAssumption
  <2>3. /\ DOMAIN job[w].batch \subseteq Nat
        /\ \A i \in DOMAIN job[w].batch : job[w].batch[i].trace \in TraceIds
    <3> DEFINE batch == job[w].batch
    <3> HIDE DEF batch
    <3>1. /\ DOMAIN batch = 1..Len(batch) /\ Len(batch) \in Nat
          /\ \A i \in DOMAIN batch : batch[i] \in [trace : TraceIds, content : Contents]
      BY <2>2, LenProperties, ElementOfSeq DEF batch
    <3>2. DOMAIN batch \subseteq Nat /\ \A i \in DOMAIN batch : batch[i].trace \in TraceIds
      BY <3>1
    <3> QED
      BY <3>2 DEF batch
  <2> QED
    BY <2>1, <2>2, <2>3 DEF Importing
<1>3. ASSUME job'[w].pc \notin Imports PROVE ImportsOK'
  BY <1>1, <1>3 DEF ImportsOK, ImportOK, Remembers, Unevaluated, Imports
<1>4. ASSUME Remembers(w, Imports), job'[w].batch = job[w].batch, job'[w].answer = job[w].answer,
             \/ job'[w].k = job[w].k
             \/ job'[w].k = job[w].k + 1 /\ SaveEvaluation(w)
      PROVE  /\ job'[w].batch \in Batches /\ job'[w].answer = "none"
             /\ \A i \in DOMAIN job'[w].batch :
                  i < job'[w].k => \A t : t = job'[w].batch[i].trace => Agrees(t)'
  <2>1. job'[w].batch \in Batches /\ job'[w].answer = "none"
    BY <1>2, <1>4
  <2>2. ASSUME NEW i \in DOMAIN job[w].batch, i < job'[w].k,
               NEW t, t = job[w].batch[i].trace
        PROVE  Agrees(t)'
    <3>1. CASE i < job[w].k
      BY <1>1, <1>2, <1>4, <2>2, <3>1, AgreementMoves
    <3>2. CASE ~ (i < job[w].k)
      <4>1. i = job[w].k /\ SaveEvaluation(w)
        BY <1>2, <1>4, <2>2, <3>2
      <4> QED
        BY <1>1, <1>2, <1>4, <2>2, <4>1, AgreementMoves DEF Importing
    <3> QED
      BY <3>1, <3>2
  <2>3. \A i \in DOMAIN job'[w].batch :
          i < job'[w].k => \A t : t = job'[w].batch[i].trace => Agrees(t)'
    BY <1>4, <2>2
  <2> QED
    BY <2>1, <2>3
<1>5. CASE SaveTraceRead(w) \/ SaveTraceCommit(w) \/ EvaluateTrace(w) \/ SaveEvaluation(w)
  <2>1. /\ Remembers(w, Imports)
        /\ \/ job'[w].pc = "idle"
           \/ /\ job'[w].batch = job[w].batch /\ job'[w].answer = job[w].answer
              /\ \/ job'[w].k = job[w].k
                 \/ job'[w].k = job[w].k + 1 /\ SaveEvaluation(w)
    <3>1. Remembers(w, Imports)
      BY <1>5 DEF SaveTraceRead, SaveTraceCommit, EvaluateTrace, SaveEvaluation, Remembers,
                  Imports, At
    <3>2. CASE SaveTraceRead(w) \/ SaveTraceCommit(w)
      BY <1>1, <3>1, <3>2 DEF SaveTraceRead, SaveTraceCommit, Job
    <3>3. CASE EvaluateTrace(w)
      BY <1>1, <3>1, <3>3 DEF EvaluateTrace, Job
    <3>4. CASE SaveEvaluation(w)
      <4>1. \/ Reply(w, "ok")
            \/ Continue(w, [job[w] EXCEPT !.pc = "save_read", !.k = @ + 1])
        BY <3>4 DEF SaveEvaluation
      <4>2. CASE Reply(w, "ok")
        BY <1>1, <3>1, <4>2 DEF Reply, Idle
      <4>3. CASE Continue(w, [job[w] EXCEPT !.pc = "save_read", !.k = @ + 1])
        BY <1>1, <3>1, <3>4, <4>3 DEF Job
      <4> QED
        BY <4>1, <4>2, <4>3
    <3> QED
      BY <1>5, <3>2, <3>3, <3>4
  <2>2. CASE job'[w].pc = "idle"
    BY <1>3, <2>2 DEF Imports
  <2>3. CASE job'[w].pc # "idle"
    <3>1. Unevaluated(w)' => traces'[Importing(w)'.trace] = Importing(w)'.content
      <4>1. SUFFICES ASSUME Unevaluated(w)'
                     PROVE  traces'[Importing(w)'.trace] = Importing(w)'.content
        OBVIOUS
      <4>2. SaveTraceCommit(w) \/ EvaluateTrace(w)
        BY <1>1, <4>1, Arrivals DEF Unevaluated, Remembers
      <4>3. job'[w].k = job[w].k /\ Importing(w)' = Importing(w)
        BY <1>1, <2>1, <2>3, <4>2 DEF SaveTraceCommit, EvaluateTrace, Job, Importing
      <4>4. CASE SaveTraceCommit(w)
        <5>1. job[w].seen = traces[Importing(w).trace] /\ Importing(w).trace \in TraceIds
          BY <1>1, <2>1, <4>4, ImportingIsTyped DEF ChecksStayTrue, SaveTraceCommit
        <5> QED
          BY <1>1, <4>3, <4>4, <5>1
             DEF SaveTraceCommit, WriteTrace, Invariant, TypeOK, StoreTypeOK
      <4>5. CASE EvaluateTrace(w)
        <5>1. Unevaluated(w) /\ UNCHANGED traces
          BY <4>5 DEF EvaluateTrace, Unevaluated, At, Remembers, tables
        <5> QED
          BY <1>1, <4>3, <5>1 DEF ImportOK
      <4> QED
        BY <4>2, <4>4, <4>5
    <3> QED
      BY <1>1, <1>4, <2>1, <2>3, <3>1
         DEF ImportsOK, ImportOK, Agrees, LatestEvaluations
  <2> QED
    BY <2>2, <2>3
<1>6. ASSUME NEW b \in Batches, RequestImport(w, b)
      PROVE  ImportsOK'
  <2>1. /\ job'[w].pc = "save_read" /\ job'[w].batch = b
        /\ job'[w].k = 1 /\ job'[w].answer = "none"
    BY <1>1, <1>6 DEF RequestImport, Begin, Idle
  <2>2. \A i \in DOMAIN b : ~ (i < 1)
    BY BatchAssumption, LenProperties
  <2> QED
    BY <1>1, <2>1, <2>2 DEF ImportsOK, ImportOK, Remembers, Unevaluated
<1>7. job'[w].pc \in Imports
        => \/ SaveTraceRead(w) \/ SaveTraceCommit(w) \/ EvaluateTrace(w) \/ SaveEvaluation(w)
           \/ \E b \in Batches : RequestImport(w, b)
  BY <1>1, Arrivals DEF Imports
<1> QED
  BY <1>3, <1>5, <1>6, <1>7

LEMMA CrashesCount ==
  ASSUME Invariant, NEW w \in Workers, Request(w) \/ Work(w) \/ Crash(w), crashes' = 0
  PROVE  crashes = 0 /\ ~ Crash(w)
<1>1. crashes \in Nat
  BY BoundAssumption DEF Invariant, TypeOK
<1> QED
  BY <1>1, WhoWritesRows DEF Crash

LEMMA ServedStep ==
  ASSUME Invariant, DatesOK, ImportsOK, ServedOK, OneWorker,
         NEW w \in Workers, Request(w) \/ Work(w) \/ Crash(w)
  PROVE  ServedOK'
<1> SUFFICES ASSUME crashes' = 0, NEW t \in TraceIds, traces'[t] # None, ~ Agrees(t)'
             PROVE  Unevaluated(w)' /\ Importing(w)'.trace = t
  BY DEF ServedOK
<1>1. /\ crashes = 0 /\ ~ Crash(w)
      /\ \A v \in Workers : v = w
      /\ job[w] \in Job
      /\ \A next : Continue(w, next) => job'[w] = next
  BY CrashesCount DEF OneWorker, Invariant, TypeOK, Continue
<1>2. ASSUME SaveTraceCommit(w) \/ EvaluateTrace(w)
      PROVE  Unevaluated(w)' /\ Importing(w)' = Importing(w)
  BY <1>1, <1>2 DEF SaveTraceCommit, EvaluateTrace, Job, Importing, Unevaluated, Remembers
<1>3. CASE SaveTraceCommit(w) /\ Importing(w).trace = t
  BY <1>2, <1>3
<1>4. CASE traces'[t] = traces[t] /\ (Agrees(t) => Agrees(t)')
  <2>1. Unevaluated(w) /\ Importing(w).trace = t
    BY <1>1, <1>4 DEF ServedOK
  <2>2. ~ SaveEvaluation(w)
    BY <2>1, AgreementMoves
  <2>3. Import(w)
    BY <1>1, <2>1, Departures DEF Unevaluated, Remembers, Imports
  <2>4. EvaluateTrace(w)
    BY <2>1, <2>2, <2>3 DEF Import, SaveTraceRead, SaveTraceConflict, SaveTraceCommit,
                            Unevaluated, Remembers, At
  <2> QED
    BY <1>2, <2>1, <2>4
<1> QED
  BY <1>3, <1>4, AgreementMoves

-----------------------------------------------------------------------------
(***************************************************************************)
(* Judge reports, and the review they ask for.                             *)
(***************************************************************************)

\* A report keeps what it says, and a review item keeps its evidence.
LEMMA OwedStays ==
  ASSUME Invariant, Grows, NEW j \in DOMAIN judge_reports, Owed(j)'
  PROVE  Owed(j)
<1>1. /\ judge_reports'[j] = judge_reports[j]
      /\ judge_reports[j].evaluation \in DOMAIN evaluations
  BY DEF Grows, Kept, Invariant, GateWasOpen
<1>2. evaluations'[judge_reports[j].evaluation] = evaluations[judge_reports[j].evaluation]
  BY <1>1 DEF Grows, Kept
<1>3. \A t, e : ReviewItemsOf(t, e, j) \subseteq ReviewItemsOf(t, e, j)'
  BY DEF Grows, ReviewItemsOf, Evidence
<1> QED
  BY <1>1, <1>2, <1>3 DEF Owed, Passed, FoundReasons

\* An evaluation or a report in hand stays the newest of its trace.
LEMMA QueueingStays ==
  ASSUME NEW w \in Workers, NEW j \in DOMAIN judge_reports, Queueing(w, j),
         UNCHANGED <<evaluations, judge_reports>>,
         job'[w].trace = job[w].trace,
         job'[w].pc \in Queues,
         job'[w].pc # "queue_evaluation"
           => job'[w].evaluation = judge_reports[j].evaluation,
         job'[w].pc \in {"find_review", "select_review"} => job'[w].judge = j
  PROVE  Queueing(w, j)'
BY DEF Queueing, Remembers, LatestEvaluations, LatestJudgeReports

LEMMA GrowsAlways ==
  ASSUME Invariant, DatesOK, NEW w \in Workers, Request(w) \/ Work(w) \/ Crash(w)
  PROVE  Grows
<1>1. Kept(evaluations, evaluations')
  BY WhoWritesRows, EvaluationInserted DEF Kept
<1>2. Kept(judge_reports, judge_reports')
  BY WhoWritesRows, ReportInserted DEF Kept
<1>3. /\ DOMAIN review_items \subseteq DOMAIN review_items'
      /\ \A i \in DOMAIN review_items : Evidence(review_items'[i]) = Evidence(review_items[i])
  BY NeverReopenedStep DEF Next
<1> QED
  BY <1>1, <1>2, <1>3 DEF Grows

LEMMA QueueStepOwes ==
  ASSUME Invariant, DatesOK, OneWorker, NEW w \in Workers, Queue(w),
         NEW j \in DOMAIN judge_reports, Queueing(w, j), Owed(j), Owed(j)'
  PROVE  Queueing(w, j)'
<1> DEFINE report == judge_reports[j]
<1>1. /\ job[w] \in Job
      /\ \A next : Continue(w, next) => job'[w] = next
  BY DEF Invariant, TypeOK, Continue
<1>2. /\ report.evaluation \in LatestEvaluations(job[w].trace)
      /\ j \in LatestJudgeReports(job[w].trace)
      /\ report.trace = job[w].trace
  BY DEF Queueing
<1>3. ASSUME NEW e \in LatestEvaluations(job[w].trace) PROVE e = report.evaluation
  BY <1>2, <1>3, OneNewest, RowsAreTyped DEF LatestEvaluations, DatesOK
<1>4. ASSUME NEW i \in LatestJudgeReports(job[w].trace) PROVE i = j
  BY <1>2, <1>4, OneNewest, RowsAreTyped DEF LatestJudgeReports, DatesOK
<1>5. CASE QueueReadEvaluation(w)
  <2>1. /\ UNCHANGED <<evaluations, judge_reports>>
        /\ Continue(w, [job[w] EXCEPT !.pc = "queue_judge", !.evaluation = report.evaluation])
    BY <1>2, <1>3, <1>5 DEF QueueReadEvaluation, ReadLatestEvaluation, ReadOnly, tables
  <2>2. /\ job'[w].pc = "queue_judge" /\ job'[w].evaluation = report.evaluation
        /\ job'[w].trace = job[w].trace
    BY <1>1, <2>1 DEF Job
  <2> QED
    BY <2>1, <2>2, QueueingStays DEF Queues
<1>6. CASE QueueReadJudge(w)
  <2>1. /\ UNCHANGED <<evaluations, judge_reports>> /\ At(w, "queue_judge")
        /\ Continue(w, [job[w] EXCEPT !.pc = "find_review", !.judge = j])
    BY <1>2, <1>4, <1>6 DEF QueueReadJudge, ReadOnly, tables
  <2>2. /\ job'[w].pc = "find_review" /\ job'[w].evaluation = job[w].evaluation
        /\ job'[w].trace = job[w].trace /\ job'[w].judge = j
    BY <1>1, <2>1 DEF Job
  <2>3. job[w].evaluation = report.evaluation
    BY <2>1 DEF Queueing, Remembers, Queues, At
  <2> QED
    BY <2>1, <2>2, <2>3, QueueingStays DEF Queues
<1>7. ASSUME Remembers(w, {"find_review", "select_review"})
      PROVE  /\ job[w].evaluation = report.evaluation /\ job[w].judge = j
             /\ ReviewItemsOf(job[w].trace, job[w].evaluation, job[w].judge) = {}
  <2>1. job[w].evaluation = report.evaluation /\ job[w].judge = j
    BY <1>7 DEF Queueing, Remembers, Queues
  <2> QED
    BY <1>2, <2>1 DEF Owed
<1>8. CASE FindReviewItem(w)
  <2>1. Remembers(w, {"find_review", "select_review"})
    BY <1>8 DEF FindReviewItem, Remembers, At
  <2>2. /\ UNCHANGED <<evaluations, judge_reports>>
        /\ Continue(w, [job[w] EXCEPT !.pc = "select_review"])
    BY <1>7, <1>8, <2>1 DEF FindReviewItem, ReadOnly, tables
  <2>3. /\ job'[w].pc = "select_review" /\ job'[w].evaluation = job[w].evaluation
        /\ job'[w].trace = job[w].trace /\ job'[w].judge = job[w].judge
    BY <1>1, <2>2 DEF Job
  <2> QED
    BY <1>7, <2>1, <2>2, <2>3, QueueingStays DEF Queues
<1>9. ASSUME At(w, "select_review")
      PROVE  MaySelect(w) /\ Selected(w).reasons # {}
  <2>1. job[w].evaluation = report.evaluation /\ job[w].judge = j
    BY <1>7, <1>9 DEF Remembers, At
  <2>2. MaySelect(w)
    BY <1>2, <2>1 DEF MaySelect, MayPair
  <2>3. FoundReasons(Passed(job[w].evaluation), judge_reports[job[w].judge].verdict,
                     judge_reports[job[w].judge].low) # {}
    BY <2>1 DEF Owed
  <2> QED
    BY <2>2, <2>3 DEF Selected, SelectedItem, Reasons
<1>10. CASE SelectReview(w)
  <2>1. /\ UNCHANGED judge_reports
        /\ job[w].evaluation = report.evaluation /\ job[w].judge = j
    BY <1>7, <1>10 DEF SelectReview, SaveReviewItem, Remembers, At
  <2>2. PICK n \in DOMAIN review_items' :
          Evidence(review_items'[n]) = <<report.trace, report.evaluation, j>>
    BY <1>2, <1>10, <2>1, SelectAppends
  <2>3. n \in ReviewItemsOf(report.trace, report.evaluation, j)'
    BY <2>1, <2>2 DEF ReviewItemsOf, Evidence
  <2>4. ReviewItemsOf(report.trace, report.evaluation, j)' = {}
    BY <2>1 DEF Owed
  <2> QED
    BY <2>3, <2>4
<1>11. ~ SelectMismatched(w) /\ ~ SelectNothing(w)
  BY <1>9 DEF SelectMismatched, SelectNothing
<1> QED
  BY <1>5, <1>6, <1>8, <1>10, <1>11 DEF Queue

LEMMA QueueOKStep ==
  ASSUME Invariant, DatesOK, QueueOK, OneWorker,
         NEW w \in Workers, Request(w) \/ Work(w) \/ Crash(w)
  PROVE  QueueOK'
<1>1. /\ \A v \in Workers : v = w
      /\ job[w] \in Job
      /\ \A next : Continue(w, next) => job'[w] = next
  BY DEF OneWorker, Invariant, TypeOK, Continue
<1>2. ASSUME job'[w].pc \in {"call_provider", "save_judge_report"}
      PROVE  job'[w].evaluation \in LatestEvaluations(job[w].trace)' /\ job'[w].trace = job[w].trace
  <2>1. CASE JudgeReadEvaluation(w)
    <3>1. ~ Reply(w, "not_found")
      BY <1>1, <1>2 DEF Reply, Idle
    <3>2. /\ UNCHANGED evaluations
          /\ \E e \in LatestEvaluations(job[w].trace) :
               Continue(w, [job[w] EXCEPT !.pc = "call_provider", !.evaluation = e])
      BY <2>1, <3>1 DEF JudgeReadEvaluation, ReadLatestEvaluation, ReadOnly, tables
    <3>3. /\ job'[w].evaluation \in LatestEvaluations(job[w].trace)
          /\ job'[w].trace = job[w].trace
      BY <1>1, <3>2 DEF Job
    <3> QED
      BY <3>2, <3>3 DEF LatestEvaluations
  <2>2. CASE JudgeAnswers(w)
    <3>1. /\ UNCHANGED evaluations /\ Remembers(w, {"call_provider", "save_judge_report"})
          /\ job'[w].trace = job[w].trace /\ job'[w].evaluation = job[w].evaluation
      BY <1>1, <2>2 DEF JudgeAnswers, tables, At, Remembers, Job
    <3> QED
      BY <3>1 DEF QueueOK, LatestEvaluations
  <2> QED
    BY <1>2, <2>1, <2>2, Arrivals
<1>3. ASSUME crashes' = 0, NEW j \in DOMAIN judge_reports', Owed(j)'
      PROVE  Queueing(w, j)'
  <2>1. crashes = 0 /\ ~ Crash(w)
    BY <1>3, CrashesCount
  <2>2. CASE j \in DOMAIN judge_reports
    <3>1. Owed(j)
      BY <1>3, <2>2, OwedStays, GrowsAlways
    <3>2. Queueing(w, j)
      BY <1>1, <2>1, <2>2, <3>1 DEF QueueOK
    <3>3. Queue(w)
      BY <2>1, <3>2, Departures DEF Queueing
    <3> QED
      BY <1>3, <2>2, <3>1, <3>2, <3>3, QueueStepOwes
  <2>3. CASE j \notin DOMAIN judge_reports
    <3>1. SaveJudgeReport(w)
      BY <2>3, WhoWritesRows
    <3>2. /\ j = Len(judge_reports) + 1
          /\ judge_reports'[j].trace = job[w].trace
          /\ judge_reports'[j].evaluation = job[w].evaluation
          /\ j \in LatestIn(judge_reports', job[w].trace)
      BY <1>3, <2>3, <3>1, ReportInserted
    <3>3. /\ job'[w].pc = "queue_evaluation" /\ job'[w].trace = job[w].trace
          /\ UNCHANGED evaluations
          /\ Remembers(w, {"call_provider", "save_judge_report"})
      BY <1>1, <3>1 DEF SaveJudgeReport, InsertJudgeReport, Begin, Idle, At, Remembers
    <3>4. job[w].evaluation \in LatestEvaluations(job[w].trace)
      BY <3>3 DEF QueueOK
    <3> QED
      BY <3>2, <3>3, <3>4
         DEF Queueing, Queues, Remembers, LatestEvaluations, LatestJudgeReports
  <2> QED
    BY <2>2, <2>3
<1>4. ASSUME job'[w].pc \in {"call_provider", "save_judge_report"}
      PROVE  job'[w].evaluation \in LatestIn(evaluations', job'[w].trace)
  BY <1>2, <1>4 DEF LatestEvaluations
<1> QED
  BY <1>1, <1>3, <1>4 DEF QueueOK, Remembers, LatestEvaluations

-----------------------------------------------------------------------------
(***************************************************************************)
(* Exported labels.                                                        *)
(***************************************************************************)

LEMMA DecisionsStay ==
  ASSUME SequentialInvariant, [Next]_vars, NEW cases, Decided(cases)
  PROVE  Decided(cases)'
<1>1. \A i \in ResolvedItems :
        /\ i \in ResolvedItems'
        /\ review_items'[i].resolution = review_items[i].resolution
  BY LedgerStep DEF ResolvedItems, IsPending
<1> QED
  BY <1>1 DEF Decided

LEMMA LabelsStep ==
  ASSUME SequentialInvariant, LabelsOK, OneWorker,
         NEW w \in Workers, Request(w) \/ Work(w) \/ Crash(w)
  PROVE  LabelsOK'
<1>1. /\ \A v \in Workers : v = w
      /\ Invariant /\ MemoryOK(w) /\ job[w] \in Job
      /\ datasets \in [Versions -> (SUBSET Case) \cup {None}]
      /\ \A next : Continue(w, next) => job'[w] = next
  BY DEF OneWorker, SequentialInvariant, Invariant, TypeOK, Continue, ReadsStayValid
<1>2. [Next]_vars
  BY DEF Next
<1>3. ASSUME NEW v \in Versions, datasets'[v] # None
      PROVE  \A cases : cases = datasets'[v] => Decided(cases)'
  <2>1. Decided(datasets'[v])
    <3>1. CASE datasets'[v] = datasets[v]
      BY <1>3, <3>1 DEF LabelsOK, LabelsAreDecisions, Decided
    <3>2. CASE datasets'[v] # datasets[v]
      <4>1. ExportWrite(w)
        BY <3>2, WhoWritesRows
      <4>2. datasets'[v] = job[w].cases /\ At(w, "export_write")
        BY <1>1, <3>2, <4>1 DEF ExportWrite
      <4> QED
        BY <4>2 DEF LabelsOK
    <3> QED
      BY <3>1, <3>2
  <2> QED
    BY <1>2, <2>1, DecisionsStay
<1>4. ASSUME At(w, "export_write")'
      PROVE  \A cases : cases = job'[w].cases => Decided(cases)'
  <2>1. ExportList(w)
    BY <1>1, <1>4, Arrivals DEF At
  <2>2. ~ Reply(w, "error")
    BY <1>1, <1>4 DEF At, Reply, Idle
  <2>3. Continue(w, [job[w] EXCEPT !.pc = "export_write", !.cases = CalibrationCases])
    BY <2>1, <2>2 DEF ExportList
  <2>4. job'[w].cases = CalibrationCases
    BY <1>1, <2>3 DEF Job
  <2>5. Decided(CalibrationCases)
    BY DEF CalibrationCases, Decided
  <2> QED
    BY <1>2, <2>4, <2>5, DecisionsStay
<1>5. LabelsAreDecisions'
  BY <1>3 DEF LabelsAreDecisions, Decided
<1> QED
  BY <1>1, <1>4, <1>5 DEF LabelsOK, Decided

LEMMA LabelsHold == Spec => [](OneWorker => SequentialInvariant /\ LabelsOK)
<1>1. Init => LabelsOK
  BY DEF Init, Idle, LabelsOK, LabelsAreDecisions, At
<1>2. ASSUME OneWorker, SequentialInvariant, LabelsOK, [Next]_vars
      PROVE  LabelsOK'
  <2>1. CASE UNCHANGED vars
    BY <1>2, <2>1 DEF vars, tables, LabelsOK, LabelsAreDecisions, Decided, ResolvedItems,
                      IsPending, At
  <2> QED
    BY <1>2, <2>1, LabelsStep DEF Next, Done
<1>3. (OneWorker => SequentialInvariant) /\ (OneWorker => LabelsOK) /\ [Next]_vars
        => (OneWorker => LabelsOK)'
  BY <1>2 DEF OneWorker
<1>4. (OneWorker => SequentialInvariant) /\ (OneWorker => LabelsOK)
        => (OneWorker => SequentialInvariant /\ LabelsOK)
  OBVIOUS
<1>5. Init => (OneWorker => LabelsOK)
  BY <1>1
<1> QED
  BY <1>3, <1>4, <1>5, SequentialInvariantHolds, PTL DEF Spec

-----------------------------------------------------------------------------
\* The invariant is inductive.

LEMMA AgreementInvariantIsInductive ==
  ASSUME AgreementInvariant, OneWorker, ClockMoves, [Next]_vars
  PROVE  AgreementInvariant'
<1>1. SequentialInvariant'
  BY SequentialInvariantIsInductive DEF AgreementInvariant
<1>2. ASSUME NEW w \in Workers, Request(w) \/ Work(w) \/ Crash(w)
      PROVE  AgreementInvariant'
  <2>1. Invariant
    BY DEF AgreementInvariant, SequentialInvariant
  <2> QED
    BY <1>1, <1>2, <2>1, DatesStep, ImportsStep, ServedStep, QueueOKStep
       DEF AgreementInvariant
<1>3. CASE UNCHANGED vars
  <2> USE <1>3 DEF vars, tables, AgreementInvariant
  <2>1. \A w \in Workers : /\ Importing(w)' = Importing(w)
                          /\ \A pcs : Remembers(w, pcs)' <=> Remembers(w, pcs)
    BY DEF Importing, Remembers
  <2>2. \A t : LatestEvaluations(t)' = LatestEvaluations(t) /\ (Agrees(t)' <=> Agrees(t))
    BY DEF LatestEvaluations, Agrees
  <2>3. \A t : LatestJudgeReports(t)' = LatestJudgeReports(t)
    BY DEF LatestJudgeReports
  <2>4. DatesOK'
    BY DEF DatesOK, At
  <2>5. ImportsOK' /\ ServedOK'
    <3>1. \A w \in Workers : Unevaluated(w)' <=> Unevaluated(w)
      BY DEF Unevaluated, Remembers
    <3>2. ASSUME NEW w \in Workers PROVE ImportOK(w)'
      <4>1. ImportOK(w)
        BY DEF ImportsOK
      <4>2. ASSUME Remembers(w, Imports)'
            PROVE  /\ job'[w].batch \in Batches /\ job'[w].answer = "none"
                   /\ \A i \in DOMAIN job'[w].batch :
                        i < job'[w].k => \A t : t = job'[w].batch[i].trace => Agrees(t)'
        BY <2>2, <4>1, <4>2 DEF ImportOK, Remembers
      <4>3. Unevaluated(w)' => traces'[Importing(w)'.trace] = Importing(w)'.content
        BY <3>1, <4>1 DEF ImportOK, Importing
      <4> QED
        BY <4>2, <4>3 DEF ImportOK, Agrees, LatestEvaluations
    <3> QED
      BY <2>1, <2>2, <3>1, <3>2 DEF ImportsOK, ServedOK, Importing
  <2>7. ASSUME NEW j PROVE /\ Owed(j)' <=> Owed(j)
                           /\ \A w \in Workers : Queueing(w, j)' <=> Queueing(w, j)
    BY <2>1, <2>2, <2>3
       DEF Owed, Queueing, ReviewItemsOf, Passed, LatestEvaluations, LatestJudgeReports, Remembers
  <2>8. QueueOK'
    BY <2>1, <2>2, <2>7 DEF QueueOK, LatestEvaluations, Remembers
  <2> QED
    BY <1>1, <2>4, <2>5, <2>8
<1> QED
  BY <1>2, <1>3 DEF Next, Done

LEMMA AgreementHoldsInitially ==
  ASSUME Init, OneWorker
  PROVE  AgreementInvariant
<1>1. SequentialInvariant
  <2>1. Invariant
    BY InvariantHoldsInitially
  <2>2. \A w \in Workers : job[w].pc = "idle"
    BY DEF Init, Idle
  <2> QED
    BY <2>1, <2>2, EmptySeq
       DEF Init, StoreInit, SequentialInvariant, ChecksStayTrue, At, Remembers,
           OneReviewPerEvidence
<1>2. \A w \in Workers : job[w].pc = "idle"
  BY DEF Init, Idle
<1>3. /\ DOMAIN evaluations = {} /\ DOMAIN judge_reports = {}
      /\ \A t \in TraceIds : traces[t] = None
      /\ \A v \in Versions : datasets[v] = None
  BY EmptySeq DEF Init, StoreInit
<1>4. DatesOK
  BY <1>2, <1>3 DEF DatesOK, Chronological, At
<1>5. ImportsOK /\ ServedOK
  BY <1>2, <1>3 DEF ImportsOK, ImportOK, ServedOK, Unevaluated,
                    Remembers, Imports, At
<1>6. QueueOK
  BY <1>2, <1>3 DEF QueueOK, Remembers
<1> QED
  BY <1>1, <1>4, <1>5, <1>6 DEF AgreementInvariant

LEMMA AgreementInvariantHolds ==
  Spec => [](OneWorker /\ ClockMoves => AgreementInvariant)
<1>1. Init => (OneWorker /\ ClockMoves => AgreementInvariant)
  BY AgreementHoldsInitially
<1>2. (OneWorker /\ ClockMoves => AgreementInvariant) /\ [Next]_vars
        => (OneWorker /\ ClockMoves => AgreementInvariant)'
  BY AgreementInvariantIsInductive DEF OneWorker, ClockMoves
<1> QED
  BY <1>1, <1>2, PTL DEF Spec

-----------------------------------------------------------------------------
(***************************************************************************)
(* The theorems about what is served, one call at a time.                  *)
(***************************************************************************)

\* With no call in progress and none cut short, the newest evaluation of every
\* stored trace is of the payload that is stored.
THEOREM QuietStoreAgrees == Spec => [](OneWorker /\ ClockMoves => QuiescentAgreement)
<1>1. ASSUME AgreementInvariant PROVE QuiescentAgreement
  BY <1>1 DEF AgreementInvariant, ServedOK, QuiescentAgreement, Unevaluated, Remembers, At
<1>2. (OneWorker /\ ClockMoves => AgreementInvariant)
        => (OneWorker /\ ClockMoves => QuiescentAgreement)
  BY <1>1
<1> QED
  BY <1>2, AgreementInvariantHolds, PTL

\* With no call in progress and none cut short, every judge report that gave a
\* reason for review has its review item.
THEOREM ReportsAreQueued == Spec => [](OneWorker /\ ClockMoves => ReportedIsQueued)
<1>1. ASSUME AgreementInvariant PROVE ReportedIsQueued
  BY <1>1 DEF AgreementInvariant, QueueOK, ReportedIsQueued, Owed, Queueing, Queues, Remembers, At
<1>2. (OneWorker /\ ClockMoves => AgreementInvariant)
        => (OneWorker /\ ClockMoves => ReportedIsQueued)
  BY <1>1
<1> QED
  BY <1>2, AgreementInvariantHolds, PTL

\* An import that succeeds leaves every trace of its batch in agreement with
\* its newest evaluation, even when an earlier import died half way.
THEOREM ImportsLeaveAgreement ==
  ASSUME OneWorker, ClockMoves
  PROVE  Spec => ImportLeavesAgreement
<1>1. ASSUME AgreementInvariant, Next, NEW w \in Workers,
             At(w, "save_evaluation"), job'[w].answer = "ok",
             NEW t \in TraceIds, NEW i \in DOMAIN job[w].batch, job[w].batch[i].trace = t
      PROVE  Agrees(t)'
  <2>1. /\ \A v \in Workers : v = w
        /\ Invariant /\ DatesOK /\ ImportsOK /\ job[w] \in Job /\ MemoryOK(w)
        /\ \A next : Continue(w, next) => job'[w] = next
    BY <1>1 DEF OneWorker, AgreementInvariant, SequentialInvariant, Invariant, TypeOK, Continue,
                ReadsStayValid
  <2>2. Remembers(w, Imports)
    BY <1>1 DEF At, Remembers, Imports
  <2>3. /\ job[w].answer = "none" /\ job[w].k \in DOMAIN job[w].batch
        /\ job[w].batch \in Seq([trace : TraceIds, content : Contents])
        /\ \A n \in DOMAIN job[w].batch : n < job[w].k => Agrees(job[w].batch[n].trace)
    BY <2>1, <2>2 DEF ImportsOK, ImportOK, MemoryOK, Job
  <2>4. Request(w) \/ Work(w) \/ Crash(w)
    BY <1>1, <2>1, <2>3 DEF Next, Done, vars
  <2>5. SaveEvaluation(w)
    BY <1>1, <2>1, <2>4, Departures DEF Crash, Reply, Idle
  <2>6. job[w].k = Len(job[w].batch)
    BY <1>1, <2>1, <2>3, <2>5 DEF SaveEvaluation, Job
  <2>7. \A n \in DOMAIN job[w].batch : n = job[w].k \/ n < job[w].k
    BY <2>3, <2>6, LenProperties
  <2>8. CASE i = job[w].k
    BY <1>1, <2>1, <2>4, <2>5, <2>8, AgreementMoves DEF Importing
  <2>9. CASE i < job[w].k
    <3>1. Agrees(t) /\ ~ SaveTraceCommit(w)
      BY <1>1, <2>3, <2>9 DEF SaveTraceCommit, At
    <3> QED
      BY <2>1, <2>4, <3>1, AgreementMoves
  <2> QED
    BY <2>7, <2>8, <2>9
<1>2. (AgreementInvariant /\ [Next]_vars)
        => [\A w \in Workers :
              At(w, "save_evaluation") /\ job'[w].answer = "ok"
                => \A t \in TraceIds :
                     (\E i \in DOMAIN job[w].batch : job[w].batch[i].trace = t)
                       => Agrees(t)']_vars
  BY <1>1
<1> QED
  BY <1>2, AgreementInvariantHolds, PTL DEF Spec, ImportLeavesAgreement

\* An exported calibration label is the decision its review item holds.
THEOREM LabelsAreHumanDecisions == Spec => [](OneWorker => LabelsAreDecisions)
<1>1. (OneWorker => SequentialInvariant /\ LabelsOK) => (OneWorker => LabelsAreDecisions)
  BY DEF LabelsOK
<1> QED
  BY <1>1, LabelsHold, PTL
=============================================================================

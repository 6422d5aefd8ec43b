---------------------------- MODULE TraceService ----------------------------
(***************************************************************************)
(* AgentTraceService (service.py) as its callers drive it: the threads of  *)
(* the HTTP server (api.py) and the command line processes (cli.py) are    *)
(* workers on one database.  A request is a sequence of steps, at most one *)
(* database transaction each; between two steps any other worker may run.  *)
(*                                                                         *)
(* job[w] holds the local variables of the call w is executing.  A worker  *)
(* whose pc is "idle" has returned; `answer` is then what its caller got.  *)
(***************************************************************************)
EXTENDS TraceStore

CONSTANTS
  Workers,       \* server threads and command line processes
  Operations,    \* the operations callers request
  Batches,       \* what importers send: sequences of [trace, content]
  JudgeOutputs,  \* what a judge's model may answer, [verdict, low]
  Versions,      \* output paths of calibration exports, one per dataset version
  ClockSteps,    \* how far the clock moves between two created_at readings
  MaxRequests,   \* bound: requests admitted
  MaxCrashes     \* bound: calls cut short

ASSUME BatchAssumption ==
  \A b \in Batches :
    /\ b \in Seq([trace : TraceIds, content : Contents])
    /\ b # << >>
    /\ \A i, j \in DOMAIN b : b[i].trace = b[j].trace => i = j
ASSUME OutputAssumption == JudgeOutputs \subseteq [verdict : JudgeVerdict, low : BOOLEAN]
ASSUME ClockAssumption == ClockSteps \subseteq Nat
ASSUME BoundAssumption == MaxRequests \in Nat /\ MaxCrashes \in Nat
ASSUME MoreNoneAssumption == None \notin TraceIds /\ None \notin Versions

VARIABLES
  clock,      \* the wall clock created_at is read from
  datasets,   \* version |-> the cases written to its path, or None
  job,        \* worker |-> the call it executes
  requests,   \* requests admitted so far
  crashes     \* calls cut short so far

vars == <<tables, clock, datasets, job, requests, crashes>>

PCs == {"idle", "save_read", "save_commit", "evaluate", "save_evaluation",
        "judge_trace", "judge_evaluation", "call_provider", "save_judge_report",
        "queue_evaluation", "queue_judge", "find_review", "select_review",
        "resolve_read", "resolve_save", "export_exists", "export_list", "export_write",
        "derive_trace", "derive_evaluation", "derive"}

Answers == {"none", "ok", "not_found", "conflict", "not_selected", "error"}

Case == [review : Nat, verdict : JudgeVerdict]

Job ==
  [pc : PCs, answer : Answers,
   batch : Seq([trace : TraceIds, content : Contents]), k : Nat,
   seen : Contents \cup {None}, created_at : Nat,
   trace : TraceIds \cup {None}, content : Contents \cup {None},
   evaluation : Nat, judge : Nat, output : [verdict : JudgeVerdict, low : BOOLEAN],
   force : BOOLEAN, review : Nat, resolution : Resolutions \cup {None},
   item : ReviewItemRow \cup {None}, version : Versions \cup {None},
   cases : SUBSET Case]

\* No call in progress; the last one was answered `a`.
Idle(a) ==
  [pc |-> "idle", answer |-> a, batch |-> << >>, k |-> 0, seen |-> None,
   created_at |-> 0, trace |-> None, content |-> None, evaluation |-> 0, judge |-> 0,
   output |-> [verdict |-> "review", low |-> FALSE], force |-> FALSE, review |-> 0,
   resolution |-> None, item |-> None, version |-> None, cases |-> {}]

Begin(pc) == [Idle("none") EXCEPT !.pc = pc]

TypeOK ==
  /\ StoreTypeOK
  /\ clock \in Nat
  /\ datasets \in [Versions -> (SUBSET Case) \cup {None}]
  /\ job \in [Workers -> Job]
  /\ requests \in 0..MaxRequests
  /\ crashes \in 0..MaxCrashes

Init ==
  /\ StoreInit
  /\ clock = 0
  /\ datasets = [v \in Versions |-> None]
  /\ job = [w \in Workers |-> Idle("none")]
  /\ requests = 0
  /\ crashes = 0

-----------------------------------------------------------------------------
\* Control flow of one call.

At(w, pc) == job[w].pc = pc
Continue(w, next) == job' = [job EXCEPT ![w] = next]
Reply(w, answer) == Continue(w, Idle(answer))

\* Steps that touch neither the clock, nor the files, nor the bounds.
Steady == UNCHANGED <<clock, datasets, requests, crashes>>
ReadOnly == UNCHANGED tables

\* datetime.now(UTC)
Tick == \E d \in ClockSteps : clock' = clock + d

-----------------------------------------------------------------------------
\* The callers.  An id a caller names may be unknown to the store.

Admit(w, operation) ==
  /\ operation \in Operations
  /\ At(w, "idle")
  /\ requests < MaxRequests
  /\ requests' = requests + 1
  /\ UNCHANGED <<tables, clock, datasets, crashes>>

RequestImport(w, b) ==
  /\ Admit(w, "import")
  /\ Continue(w, [Begin("save_read") EXCEPT !.batch = b, !.k = 1])

RequestJudge(w, t) ==
  /\ Admit(w, "judge")
  /\ Continue(w, [Begin("judge_trace") EXCEPT !.trace = t])

RequestQueue(w, t, force) ==
  /\ Admit(w, "queue")
  /\ Continue(w, [Begin("queue_evaluation") EXCEPT !.trace = t, !.force = force])

RequestResolve(w, id, resolution) ==
  /\ Admit(w, "resolve")
  /\ Continue(w, [Begin("resolve_read") EXCEPT !.review = id, !.resolution = resolution])

RequestExport(w, v) ==
  /\ Admit(w, "export")
  /\ Continue(w, [Begin("export_exists") EXCEPT !.version = v])

RequestDerived(w, t) ==
  /\ Admit(w, "derive")
  /\ Continue(w, [Begin("derive_trace") EXCEPT !.trace = t])

Request(w) ==
  \/ \E b \in Batches : RequestImport(w, b)
  \/ \E t \in TraceIds :
       \/ RequestJudge(w, t)
       \/ \E force \in BOOLEAN : RequestQueue(w, t, force)
       \/ RequestDerived(w, t)
  \/ \E id \in 0..Len(review_items), r \in Resolutions : RequestResolve(w, id, r)
  \/ \E v \in Versions : RequestExport(w, v)

-----------------------------------------------------------------------------
\* _save_and_evaluate, once per trace of the batch.  The adapter has already
\* turned the whole payload into traces: a payload it rejects never gets here.

Importing(w) == job[w].batch[job[w].k]

SaveTraceRead(w) ==
  /\ At(w, "save_read")
  /\ Continue(w, [job[w] EXCEPT !.pc = "save_commit", !.seen = traces[Importing(w).trace]])
  /\ ReadOnly /\ Steady

SaveTraceRetried(w) ==  \* a bug: the refused INSERT is tried again as it is
  /\ At(w, "save_commit")
  /\ InsertConflicts(Importing(w).trace, job[w].seen)
  /\ Continue(w, job[w])
  /\ ReadOnly /\ Steady

SaveTraceConflict(w) ==
  /\ At(w, "save_commit")
  /\ InsertConflicts(Importing(w).trace, job[w].seen)
  /\ Reply(w, "error")
  /\ ReadOnly /\ Steady

SaveTraceCommit(w) ==
  /\ At(w, "save_commit")
  /\ ~ InsertConflicts(Importing(w).trace, job[w].seen)
  /\ WriteTrace(Importing(w).trace, job[w].seen, Importing(w).content)
  /\ Continue(w, [job[w] EXCEPT !.pc = "evaluate"])
  /\ Steady

EvaluateTrace(w) ==
  /\ At(w, "evaluate")
  /\ Tick
  /\ Continue(w, [job[w] EXCEPT !.pc = "save_evaluation", !.created_at = clock'])
  /\ UNCHANGED <<tables, datasets, requests, crashes>>

SaveEvaluation(w) ==
  /\ At(w, "save_evaluation")
  /\ InsertEvaluation([trace |-> Importing(w).trace, content |-> Importing(w).content,
                       created_at |-> job[w].created_at])
  /\ IF job[w].k = Len(job[w].batch)
     THEN Reply(w, "ok")
     ELSE Continue(w, [job[w] EXCEPT !.pc = "save_read", !.k = @ + 1])
  /\ Steady

Import(w) ==
  SaveTraceRead(w) \/ SaveTraceConflict(w) \/ SaveTraceCommit(w)
    \/ EvaluateTrace(w) \/ SaveEvaluation(w)

-----------------------------------------------------------------------------
\* judge_trace: two reads, the provider call, the insert, then queue_review.

ReadTrace(w, pc, next) ==
  /\ At(w, pc)
  /\ IF traces[job[w].trace] = None
     THEN Reply(w, "not_found")
     ELSE Continue(w, [job[w] EXCEPT !.pc = next, !.content = traces[job[w].trace]])
  /\ ReadOnly /\ Steady

ReadLatestEvaluation(w, pc, next) ==
  /\ At(w, pc)
  /\ \/ /\ LatestEvaluations(job[w].trace) = {}
        /\ Reply(w, "not_found")
     \/ \E e \in LatestEvaluations(job[w].trace) :
          Continue(w, [job[w] EXCEPT !.pc = next, !.evaluation = e])
  /\ ReadOnly /\ Steady

JudgeReadTrace(w) == ReadTrace(w, "judge_trace", "judge_evaluation")
JudgeReadEvaluation(w) == ReadLatestEvaluation(w, "judge_evaluation", "call_provider")

\* evaluate compares the ids of the two arguments, which are those of one
\* request, and looks for the privacy check in the evaluation.
GateOpens(w) == PrivacyPassed(job[w].evaluation)

\* OpenAICompatibleJudge.evaluate seen from the service: blocked by the
\* privacy gate, given up after its bounded attempts, or answered.
JudgeFails(w) ==
  /\ At(w, "call_provider")
  /\ Reply(w, "error")
  /\ ReadOnly /\ Steady

JudgeAnswers(w) ==
  /\ At(w, "call_provider")
  /\ GateOpens(w)
  /\ Tick
  /\ \E o \in JudgeOutputs :
       Continue(w, [job[w] EXCEPT !.pc = "save_judge_report", !.output = o,
                                  !.created_at = clock'])
  /\ UNCHANGED <<tables, datasets, requests, crashes>>

SaveJudgeReport(w) ==
  /\ At(w, "save_judge_report")
  /\ InsertJudgeReport([trace |-> job[w].trace, evaluation |-> job[w].evaluation,
                        content |-> job[w].content, verdict |-> job[w].output.verdict,
                        low |-> job[w].output.low, created_at |-> job[w].created_at])
  /\ Continue(w, [Begin("queue_evaluation") EXCEPT !.trace = job[w].trace])
  /\ Steady

Judge(w) ==
  JudgeReadTrace(w) \/ JudgeReadEvaluation(w) \/ JudgeFails(w) \/ JudgeAnswers(w)
    \/ SaveJudgeReport(w)

-----------------------------------------------------------------------------
\* queue_review: three reads, then select_for_review and the insert.

QueueReadEvaluation(w) == ReadLatestEvaluation(w, "queue_evaluation", "queue_judge")

QueueReadJudge(w) ==
  /\ At(w, "queue_judge")
  /\ \/ /\ LatestJudgeReports(job[w].trace) = {}
        /\ Reply(w, "not_found")
     \/ \E j \in LatestJudgeReports(job[w].trace) :
          Continue(w, [job[w] EXCEPT !.pc = "find_review", !.judge = j])
  /\ ReadOnly /\ Steady

FindReviewItem(w) ==
  /\ At(w, "find_review")
  /\ IF ReviewItemsOf(job[w].trace, job[w].evaluation, job[w].judge) # {}
     THEN Reply(w, "ok")
     ELSE Continue(w, [job[w] EXCEPT !.pc = "select_review"])
  /\ ReadOnly /\ Steady

MaySelect(w) == MayPair(job[w].evaluation, job[w].trace, judge_reports[job[w].judge])

Selected(w) ==
  SelectedItem(job[w].evaluation, Passed(job[w].evaluation), job[w].judge,
               judge_reports[job[w].judge], job[w].force)

SelectMismatched(w) ==
  /\ At(w, "select_review")
  /\ ~ MaySelect(w)
  /\ Reply(w, "error")
  /\ ReadOnly /\ Steady

SelectNothing(w) ==
  /\ At(w, "select_review")
  /\ MaySelect(w)
  /\ Selected(w).reasons = {}
  /\ Reply(w, "not_selected")
  /\ ReadOnly /\ Steady

SelectReview(w) ==
  /\ At(w, "select_review")
  /\ MaySelect(w)
  /\ Selected(w).reasons # {}
  /\ SaveReviewItem(Len(review_items) + 1, Selected(w))
  /\ Reply(w, "ok")
  /\ Steady

Queue(w) ==
  QueueReadEvaluation(w) \/ QueueReadJudge(w) \/ FindReviewItem(w)
    \/ SelectMismatched(w) \/ SelectNothing(w) \/ SelectReview(w)

-----------------------------------------------------------------------------
\* resolve_review_item: read, resolve_review, then an unconditional upsert.

ResolveRefused(w) ==
  /\ At(w, "resolve_read")
  /\ \/ job[w].review \notin DOMAIN review_items /\ Reply(w, "not_found")
     \/ /\ job[w].review \in DOMAIN review_items
        /\ ~ MayResolve(review_items[job[w].review])
        /\ Reply(w, "conflict")
  /\ ReadOnly /\ Steady

ResolveRead(w) ==
  /\ At(w, "resolve_read")
  /\ job[w].review \in DOMAIN review_items
  /\ MayResolve(review_items[job[w].review])
  /\ Continue(w, [job[w] EXCEPT !.pc = "resolve_save",
                                !.item = ResolvedItem(review_items[job[w].review],
                                                      job[w].resolution)])
  /\ ReadOnly /\ Steady

ResolveSave(w) ==
  /\ At(w, "resolve_save")
  /\ SaveReviewItem(job[w].review, job[w].item)
  /\ Reply(w, "ok")
  /\ Steady

Resolve(w) == ResolveRefused(w) \/ ResolveRead(w) \/ ResolveSave(w)

-----------------------------------------------------------------------------
\* export-review-calibration: is the path free, list the resolved items, write.

ExportExists(w) ==
  /\ At(w, "export_exists")
  /\ IF datasets[job[w].version] # None
     THEN Reply(w, "conflict")
     ELSE Continue(w, [job[w] EXCEPT !.pc = "export_list"])
  /\ ReadOnly /\ Steady

ResolvedItems == {i \in DOMAIN review_items : ~ IsPending(review_items[i])}

\* A calibration label holds shorter notes than a resolution, and a manifest
\* has at least one case.
Exportable ==
  /\ ResolvedItems # {}
  /\ \A i \in ResolvedItems : review_items[i].resolution.notes = "short"

JudgeLabelledCases ==  \* a bug: the judge's verdict is exported as the label
  {[review |-> i, verdict |-> judge_reports[review_items[i].judge].verdict] : i \in ResolvedItems}

CalibrationCases ==
  {[review |-> i, verdict |-> review_items[i].resolution.verdict] : i \in ResolvedItems}

ExportList(w) ==
  /\ At(w, "export_list")
  /\ IF Exportable
     THEN Continue(w, [job[w] EXCEPT !.pc = "export_write", !.cases = CalibrationCases])
     ELSE Reply(w, "error")
  /\ ReadOnly /\ Steady

ExportWrite(w) ==
  /\ At(w, "export_write")
  /\ datasets' = [datasets EXCEPT ![job[w].version] = job[w].cases]
  /\ Reply(w, "ok")
  /\ ReadOnly
  /\ UNCHANGED <<clock, requests, crashes>>

Export(w) == ExportExists(w) \/ ExportList(w) \/ ExportWrite(w)

-----------------------------------------------------------------------------
\* Optimization feedback, training reward, Agent Lightning event and GEPA
\* evaluation all derive from one trace read and one evaluation read.

DeriveReadTrace(w) == ReadTrace(w, "derive_trace", "derive_evaluation")
DeriveReadEvaluation(w) == ReadLatestEvaluation(w, "derive_evaluation", "derive")

DeriveReply(w) ==
  /\ At(w, "derive")
  /\ Reply(w, "ok")
  /\ ReadOnly /\ Steady

Derive(w) == DeriveReadTrace(w) \/ DeriveReadEvaluation(w) \/ DeriveReply(w)

-----------------------------------------------------------------------------
\* The process dies or a database call raises: the locals are gone, what was
\* committed stays.
Crash(w) ==
  /\ ~ At(w, "idle")
  /\ crashes < MaxCrashes
  /\ crashes' = crashes + 1
  /\ Reply(w, "error")
  /\ UNCHANGED <<tables, clock, datasets, requests>>

Work(w) == Import(w) \/ Judge(w) \/ Queue(w) \/ Resolve(w) \/ Export(w) \/ Derive(w)

\* Every admitted request was answered and the bound admits no more.
Done ==
  /\ requests = MaxRequests
  /\ \A w \in Workers : At(w, "idle")
  /\ UNCHANGED vars

Next ==
  \/ \E w \in Workers : Request(w) \/ Work(w) \/ Crash(w)
  \/ Done

Spec == Init /\ [][Next]_vars

\* A call in progress goes on: server threads and processes are scheduled, and
\* the provider call is bounded by its timeout and its number of attempts.
FairSpec == Spec /\ \A w \in Workers : WF_vars(Work(w))

-----------------------------------------------------------------------------
(***************************************************************************)
(* Properties.                                                             *)
(***************************************************************************)

Evidence(item) == <<item.trace, item.evaluation, item.judge>>

\* An item is bound to exact evidence: its judge report exists, is about its
\* trace, and was produced from its evaluation; and its reasons and priority
\* are the ones that pair of reports gives.  (review.py, select_for_review:
\* queue_review pairs two results it read in separate transactions.)
Bound(item) ==
  /\ item.evaluation \in DOMAIN evaluations
  /\ item.judge \in DOMAIN judge_reports
  /\ evaluations[item.evaluation].trace = item.trace
  /\ LET report == judge_reports[item.judge]
     IN  /\ report.trace = item.trace
         /\ report.evaluation = item.evaluation
         /\ \E force \in BOOLEAN :
              item.reasons = Reasons(Passed(item.evaluation), report.verdict, report.low, force)
         /\ item.reasons # {}
         /\ item.priority = Priority(Passed(item.evaluation), item.reasons)

ReviewBoundToEvidence == \A i \in DOMAIN review_items : Bound(review_items[i])

\* Whatever a judge answered about, and so was sent, is a payload that passes
\* the privacy check.  (service.py, judge_trace: the trace and the evaluation
\* are read in two transactions, and an imported trace is stored before it is
\* evaluated.  judging.py, evaluate, blocks on the evaluation.)
JudgedBehindPrivacyGate ==
  \A j \in DOMAIN judge_reports : judge_reports[j].content \in PrivacySafe

\* A review item never changes the evidence it is about, never disappears, and
\* once resolved is never pending again.  (storage.py, save_review_item.)
NeverReopened ==
  [][\A i \in DOMAIN review_items :
       /\ i \in DOMAIN review_items'
       /\ Evidence(review_items'[i]) = Evidence(review_items[i])
       /\ ~ IsPending(review_items[i]) => ~ IsPending(review_items'[i])]_vars

\* The first human decision on an item stands.
ResolvedExactlyOnce ==
  [][\A i \in DOMAIN review_items :
       ~ IsPending(review_items[i])
         => review_items'[i].resolution = review_items[i].resolution]_vars

\* One piece of evidence has at most one review task.
OneReviewPerEvidence ==
  \A i, j \in DOMAIN review_items :
    Evidence(review_items[i]) = Evidence(review_items[j]) => i = j

\* A stored trace has an evaluation, and the newest one is of the stored payload.
Agrees(t) ==
  /\ LatestEvaluations(t) # {}
  /\ \A e \in LatestEvaluations(t) : evaluations[e].content = traces[t]

\* When an import succeeds, what GET /v1/evaluations/{id}/latest serves is the
\* result of what GET /v1/traces/{id} serves, for every trace of its batch; in
\* particular a retry after an import that died half way repairs the store.
ImportLeavesAgreement ==
  [][\A w \in Workers :
       At(w, "save_evaluation") /\ job'[w].answer = "ok"
         => \A t \in TraceIds :
              (\E i \in DOMAIN job[w].batch : job[w].batch[i].trace = t) => Agrees(t)']_vars

\* With no call in progress and none cut short, the served pair agrees.
QuiescentAgreement ==
  (crashes = 0 /\ \A w \in Workers : At(w, "idle"))
    => \A t \in TraceIds : traces[t] # None => Agrees(t)

\* An OTLP export whose import is refused has left none of its traces behind.
ImportIsAtomic ==
  [][\A w \in Workers :
       At(w, "save_commit") /\ job'[w].answer = "error"
         => \A i \in DOMAIN job[w].batch \ {job[w].k} :
              ~ \E e \in DOMAIN evaluations :
                  /\ evaluations[e].trace = job[w].batch[i].trace
                  /\ evaluations[e].content = job[w].batch[i].content]_vars

\* The trace and the evaluation a derived record is built from describe the
\* same run.  (service.py reads them in two transactions; optimization.py,
\* _validate_pair, compares their ids only.)  Two workers refute it: README.md.
DerivedPairAgrees ==
  \A w \in Workers :
    At(w, "derive") => evaluations[job[w].evaluation].content = job[w].content

\* With no call in progress and none cut short, every report that gave a
\* reason for review has its review item.
ReportedIsQueued ==
  (crashes = 0 /\ \A w \in Workers : At(w, "idle"))
    => \A j \in DOMAIN judge_reports :
         LET report == judge_reports[j]
         IN  FoundReasons(Passed(report.evaluation), report.verdict, report.low) # {}
               => ReviewItemsOf(report.trace, report.evaluation, j) # {}

\* An export that succeeds replaces no file: when it writes its dataset, no
\* other export has written the path it found free.  (cli.py checks the path
\* first, then reads every resolved review, then writes.)  Two workers refute
\* it: README.md.
ExportReplacesNothing ==
  [][\A w \in Workers :
       At(w, "export_write") /\ job'[w].answer = "ok"
         => datasets[job[w].version] = None]_vars

\* An exported label is the decision its review item holds.
LabelsAreDecisions ==
  \A v \in Versions : datasets[v] # None =>
    \A c \in datasets[v] :
      /\ c.review \in ResolvedItems
      /\ review_items[c.review].resolution.verdict = c.verdict

\* Once something is resolved, it can be exported.
ResolvedIsExportable ==
  \A w \in Workers : At(w, "export_list") /\ ResolvedItems # {} => Exportable

\* Every call returns.
EveryCallReturns == \A w \in Workers : ~ At(w, "idle") ~> At(w, "idle")

\* Whatever payload gets stored is eventually evaluated.
StoredIsEvaluated ==
  \A t \in TraceIds, c \in Contents :
    traces[t] = c ~> \E e \in DOMAIN evaluations :
                       evaluations[e].trace = t /\ evaluations[e].content = c

-----------------------------------------------------------------------------
(***************************************************************************)
(* What a call remembers stays true of the store until it returns, however *)
(* many other calls write in between: the argument for the two invariants  *)
(* above.  It rests on results being inserted and never changed.           *)
(***************************************************************************)

Remembers(w, pcs) == job[w].pc \in pcs

KnowsTrace == {"judge_trace", "judge_evaluation", "call_provider", "save_judge_report",
               "queue_evaluation", "queue_judge", "find_review", "select_review",
               "derive_trace", "derive_evaluation", "derive"}
KnowsContent == {"judge_evaluation", "call_provider", "save_judge_report",
                 "derive_evaluation", "derive"}
KnowsEvaluation == {"call_provider", "save_judge_report", "queue_judge", "find_review",
                    "select_review", "derive"}
KnowsJudge == {"find_review", "select_review"}
Imports == {"save_read", "save_commit", "evaluate", "save_evaluation"}

MemoryOK(w) ==
  /\ Remembers(w, Imports) => job[w].k \in DOMAIN job[w].batch
  /\ Remembers(w, KnowsTrace) => job[w].trace \in TraceIds
  /\ Remembers(w, KnowsContent) => job[w].content \in Contents
  /\ Remembers(w, KnowsEvaluation) =>
       /\ job[w].evaluation \in DOMAIN evaluations
       /\ evaluations[job[w].evaluation].trace = job[w].trace
  /\ Remembers(w, KnowsJudge) =>
       /\ job[w].judge \in DOMAIN judge_reports
       /\ judge_reports[job[w].judge].trace = job[w].trace
  /\ At(w, "save_judge_report") => PrivacyPassed(job[w].evaluation)
  /\ Remembers(w, {"resolve_read", "resolve_save"}) => job[w].resolution \in Resolutions
  /\ Remembers(w, {"export_exists", "export_list", "export_write"}) =>
       job[w].version \in Versions
  /\ At(w, "resolve_save") =>
       /\ job[w].review \in DOMAIN review_items
       /\ job[w].item \in ReviewItemRow
       /\ Bound(job[w].item)
       /\ Evidence(job[w].item) = Evidence(review_items[job[w].review])
       /\ ~ IsPending(job[w].item)

\* A call never acts on a result that is gone or has changed since it was read.
ReadsStayValid == \A w \in Workers : MemoryOK(w)

\* What evaluate did check: the evaluation behind a judge report is of its trace
\* and passed the gate.  It says nothing of the payload that was sent.
GateWasOpen ==
  \A j \in DOMAIN judge_reports :
    /\ judge_reports[j].evaluation \in DOMAIN evaluations
    /\ evaluations[judge_reports[j].evaluation].trace = judge_reports[j].trace
    /\ PrivacyPassed(judge_reports[j].evaluation)

\* The reviews in the store, read as the ledger that human review promises.
Ledger == INSTANCE ReviewLedger WITH
  Reviews <- Nat,
  Evidences <- TraceIds \X Nat \X Nat,
  Decisions <- Resolutions,
  Undecided <- None,
  ledger <- {[review |-> i, evidence |-> Evidence(review_items[i]),
              decision |-> review_items[i].resolution] : i \in DOMAIN review_items}

\* One call at a time, the store's reviews behave as that ledger.
ImplementsLedger == Ledger!Spec

Invariant == TypeOK /\ ReadsStayValid /\ ReviewBoundToEvidence /\ GateWasOpen
=============================================================================

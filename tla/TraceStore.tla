----------------------------- MODULE TraceStore -----------------------------
(***************************************************************************)
(* The relational store behind AgentTraceLab (storage.py).  Four tables;   *)
(* each method of Database is one short transaction on one of them.        *)
(*                                                                         *)
(* Evaluations and judge reports are only ever inserted.  Their ids are    *)
(* uuid4 values no one sees before the row is committed, so the position   *)
(* of a row stands for its id.  The trace an evaluation or a report was    *)
(* computed from is not a column: it is kept here as `content` so that     *)
(* properties can say what a result is about.                              *)
(***************************************************************************)
EXTENDS Naturals, Sequences, ReviewSelection

CONSTANTS
  TraceIds,      \* trace ids, the primary key of `traces`
  Contents,      \* normalized trace payloads, up to what evaluation tells apart
  Passing,       \* the payloads evaluate_trace passes
  PrivacySafe,   \* the payloads whose privacy.no_raw_secret check passes
  Resolutions    \* what reviewers submit, [verdict, notes]

ASSUME PassingAssumption == Passing \subseteq PrivacySafe /\ PrivacySafe \subseteq Contents
ASSUME NoneAssumption == None \notin Contents /\ None \notin Resolutions
ASSUME ResolutionAssumption ==
  Resolutions \subseteq [verdict : JudgeVerdict, notes : {"short", "long"}]

VARIABLES
  traces,         \* trace_id |-> payload of its row, or None
  evaluations,    \* rows [trace, content, created_at]
  judge_reports,  \* rows [trace, evaluation, content, verdict, low, created_at]
  review_items    \* rows [trace, evaluation, judge, reasons, priority, resolution]

tables == <<traces, evaluations, judge_reports, review_items>>

EvaluationRow == [trace : TraceIds, content : Contents, created_at : Nat]

JudgeReportRow ==
  [trace : TraceIds, evaluation : Nat, content : Contents,
   verdict : JudgeVerdict, low : BOOLEAN, created_at : Nat]

ReviewItemRow ==
  [trace : TraceIds, evaluation : Nat, judge : Nat, reasons : SUBSET ReviewReason,
   priority : ReviewPriority, resolution : Resolutions \cup {None}]

StoreTypeOK ==
  /\ traces \in [TraceIds -> Contents \cup {None}]
  /\ evaluations \in Seq(EvaluationRow)
  /\ judge_reports \in Seq(JudgeReportRow)
  /\ review_items \in Seq(ReviewItemRow)

StoreInit ==
  /\ traces = [t \in TraceIds |-> None]
  /\ evaluations = << >>
  /\ judge_reports = << >>
  /\ review_items = << >>

\* evaluation.passed of a stored evaluation.
Passed(e) == evaluations[e].content \in Passing

\* _privacy_passed of a stored evaluation.
PrivacyPassed(e) == evaluations[e].content \in PrivacySafe

OldestIn(rows, t) ==  \* a bug: ascending order
  LET mine == {i \in DOMAIN rows : rows[i].trace = t}
  IN  {i \in mine : \A j \in mine : rows[j].created_at >= rows[i].created_at}

\* ORDER BY created_at DESC LIMIT 1: any of the rows that tie for the newest.
LatestIn(rows, t) ==
  LET mine == {i \in DOMAIN rows : rows[i].trace = t}
  IN  {i \in mine : \A j \in mine : rows[j].created_at <= rows[i].created_at}

LatestEvaluations(t) == LatestIn(evaluations, t)
LatestJudgeReports(t) == LatestIn(judge_reports, t)

PendingItemsOf(t, e, j) ==  \* a bug: a resolved review is not found
  {i \in DOMAIN review_items :
     /\ <<review_items[i].trace, review_items[i].evaluation, review_items[i].judge>> = <<t, e, j>>
     /\ IsPending(review_items[i])}

\* The rows find_review_item's WHERE clause selects.
ReviewItemsOf(t, e, j) ==
  {i \in DOMAIN review_items :
     /\ review_items[i].trace = t
     /\ review_items[i].evaluation = e
     /\ review_items[i].judge = j}

-----------------------------------------------------------------------------
\* The write transactions.

\* save_trace after its SELECT returned `seen`.  An INSERT of a row that has
\* appeared since violates the primary key.  An UPDATE sets only the columns
\* whose value differs from the one loaded: writing back the payload that was
\* loaded leaves the present one alone.
InsertConflicts(t, seen) == seen = None /\ traces[t] # None

WriteTraceOnce(t, seen, content) ==  \* a bug: a trace sent again is not updated
  /\ traces' = IF seen = None THEN [traces EXCEPT ![t] = content] ELSE traces
  /\ UNCHANGED <<evaluations, judge_reports, review_items>>

WriteTrace(t, seen, content) ==
  /\ traces' = IF content = seen THEN traces ELSE [traces EXCEPT ![t] = content]
  /\ UNCHANGED <<evaluations, judge_reports, review_items>>

InsertOnlyEvaluation(row) ==  \* a bug: one evaluation is kept per trace
  /\ evaluations' = Append(SelectSeq(evaluations, LAMBDA r : r.trace # row.trace), row)
  /\ UNCHANGED <<traces, judge_reports, review_items>>

InsertFirstEvaluation(row) ==  \* a bug: a trace is evaluated only once
  /\ evaluations' = IF LatestEvaluations(row.trace) = {} THEN Append(evaluations, row)
                    ELSE evaluations
  /\ UNCHANGED <<traces, judge_reports, review_items>>

InsertEvaluation(row) ==
  /\ evaluations' = Append(evaluations, row)
  /\ UNCHANGED <<traces, judge_reports, review_items>>

InsertJudgeReport(row) ==
  /\ judge_reports' = Append(judge_reports, row)
  /\ UNCHANGED <<traces, evaluations, review_items>>

SaveReviewItemByEvidence(id, item) ==  \* a bug: an upsert on the evidence tuple
  /\ LET same == ReviewItemsOf(item.trace, item.evaluation, item.judge)
     IN  review_items' = IF same # {}
                         THEN [i \in DOMAIN review_items |->
                                 IF i \in same THEN item ELSE review_items[i]]
                         ELSE Append(review_items, item)
  /\ UNCHANGED <<traces, evaluations, judge_reports>>

\* save_review_item: an upsert on review_id.  A selected item carries a fresh
\* review_id and is inserted; a resolved one carries the id it was read with.
SaveReviewItem(id, item) ==
  /\ review_items' = IF id \in DOMAIN review_items
                     THEN [review_items EXCEPT ![id] = item]
                     ELSE Append(review_items, item)
  /\ UNCHANGED <<traces, evaluations, judge_reports>>
=============================================================================

-------------------------- MODULE ReviewSelection --------------------------
(***************************************************************************)
(* The pure half of human review (review.py): which evidence deserves a    *)
(* person's attention and how a decision is recorded.                      *)
(*                                                                         *)
(* A judge report carries five dimension scores; selection reads only      *)
(* whether one of them is 0 or 1, so a report keeps that bit, `low`.       *)
(***************************************************************************)

CONSTANT None   \* Python's None

JudgeVerdict == {"pass", "review", "fail"}

ReviewReason == {"deterministic_judge_conflict", "judge_deferred",
                 "low_dimension_score", "forced_sample"}

ReviewPriority == {"critical", "high", "medium"}

\* validate_state ties the state to the resolution: an item is pending exactly
\* as long as it holds none.
IsPending(item) == item.resolution = None

\* The gate and the judge disagree; a judge that defers contradicts nobody.
Contradicts(passed, verdict) ==
  /\ verdict # "review"
  /\ passed # (verdict = "pass")

\* The reasons the evidence itself gives.
FoundReasons(passed, verdict, low) ==
  {r \in ReviewReason :
     \/ r = "deterministic_judge_conflict" /\ Contradicts(passed, verdict)
     \/ r = "judge_deferred" /\ verdict = "review"
     \/ r = "low_dimension_score" /\ low}

\* ... and with an operator's explicit request, which counts only when the
\* evidence gives none.
ReasonsWithoutScores(passed, verdict, low, force) ==  \* a bug: scores are ignored
  FoundReasons(passed, verdict, FALSE)

Reasons(passed, verdict, low, force) ==
  LET found == FoundReasons(passed, verdict, low)
  IN  IF found = {} /\ force THEN {"forced_sample"} ELSE found

PriorityUnlisted(passed, reasons) ==  \* a bug: a level ReviewPriority does not list
  IF "deterministic_judge_conflict" \in reasons THEN "high" ELSE "low"

Priority(passed, reasons) ==
  CASE "deterministic_judge_conflict" \notin reasons -> "medium"
    [] passed -> "high"
    [] OTHER -> "critical"

MayPairByTrace(evaluation, trace, report) ==  \* a bug: the evaluation is not compared
  report.trace = trace

\* The two reports may be paired: the judge saw this very evaluation.
MayPair(evaluation, trace, report) ==
  /\ report.trace = trace
  /\ report.evaluation = evaluation

\* What select_for_review builds once the pair is accepted and has a reason.
SelectedItem(evaluation, passed, judge, report, force) ==
  LET reasons == Reasons(passed, report.verdict, report.low, force)
  IN  [trace |-> report.trace, evaluation |-> evaluation, judge |-> judge,
       reasons |-> reasons, priority |-> Priority(passed, reasons),
       resolution |-> None]

MayResolveAgain(item) == TRUE  \* a bug: the state is not checked

MayResolve(item) == IsPending(item)

ResolvedItem(item, resolution) == [item EXCEPT !.resolution = resolution]
=============================================================================

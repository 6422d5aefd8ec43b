------------------------------- MODULE Batches -------------------------------
(***************************************************************************)
(* Two batches of WasmHatch journals are evaluated, entry by entry, and    *)
(* compared scenario by scenario (batch.py, batch_comparison.py); the      *)
(* candidate batch is also put to a promotion policy (policy.py).          *)
(***************************************************************************)
EXTENDS TraceRules

CONSTANTS
  Batches,            \* bound: the manifests, with the journals they name
  PromotionPolicies   \* bound: the policies that are applied

Journal ==
  [run : Nat, state : STRING, events : Seq(JournalEvent),
   metrics : [DOMAIN JournalMetrics(<< >>) -> Nat], secret : BOOLEAN]

\* Scenario ids are unique, evidence modes are compared and allowed or not, and
\* a gate that was not reached has no verdict.
ASSUME BatchAssumption ==
  /\ None \notin {"promote", "hold"}
  /\ \A b \in Batches :
       /\ b.entries \in Seq([scenario : STRING, journal : Journal]) /\ b.entries # << >>
       /\ \A i, j \in DOMAIN b.entries :
            b.entries[i].scenario = b.entries[j].scenario => i = j
  /\ \A p \in PromotionPolicies :
       p.min_runs \in Nat \ {0} /\ p.min_pass_rate \in 0..100 /\ p.max_failed \in Nat

\* CHECK_CATEGORIES, for the rules that apply to a journal.
JournalCategory ==
  [contiguous_sequence |-> "trace_contract", metrics_consistent |-> "trace_contract",
   terminal_disposition |-> "lifecycle", result_recorded |-> "tool_execution",
   approval_before_commit |-> "safety_authorization",
   post_commit_validation |-> "effect_validation", decision_evidence |-> "decision_evidence",
   tool_decision_link |-> "tool_linkage", no_raw_secret |-> "privacy",
   event_budget |-> "budget"]

-----------------------------------------------------------------------------
\* evaluate_wasmhatch_batch, one entry per step.

BatchesInit ==
  \E baseline \in Batches, candidate \in Batches, policy \in PromotionPolicies :
    job = [tool |-> "batches", pc |-> "baseline", policy |-> policy,
           batch |-> [baseline |-> baseline, candidate |-> candidate],
           results |-> [baseline |-> << >>, candidate |-> << >>],
           gate |-> None, result |-> None]

Loading == job.tool = "batches" /\ job.pc \in {"baseline", "candidate"}

BatchDone(side) == Len(job.results[side]) = Len(job.batch[side].entries)

NextEntry == job.batch[job.pc].entries[Len(job.results[job.pc]) + 1]

DuplicateRun(entry) ==
  \E i \in DOMAIN job.results[job.pc] : job.results[job.pc][i].run = entry.journal.run

EvaluateEntry ==
  /\ Loading /\ ~BatchDone(job.pc)
  /\ IF DuplicateRun(NextEntry)
     THEN job' = [job EXCEPT !.pc = "ended", !.result = "error"]
     ELSE job' = [job EXCEPT !.results[job.pc] =
                    Append(@, [scenario |-> NextEntry.scenario,
                               run |-> NextEntry.journal.run,
                               rules |-> JournalRules(NextEntry.journal),
                               metrics |-> JournalMetrics(NextEntry.journal.events)])]

\* The journal is missing, too large, outside the directory or no journal.
EntryUnreadable ==
  /\ Loading /\ ~BatchDone(job.pc)
  /\ job' = [job EXCEPT !.pc = "ended", !.result = "error"]

NextBatch ==
  /\ Running("batches", "baseline") /\ BatchDone("baseline")
  /\ job' = [job EXCEPT !.pc = "candidate"]

-----------------------------------------------------------------------------
\* apply_promotion_policy to the candidate's report.

Results(side) == {job.results[side][i] : i \in DOMAIN job.results[side]}

FailedRuns(side) == {r \in Results(side) : ~RulesPassed(r.rules)}

\* Categories of the failed checks, advisory ones included.
Categories(side) ==
  UNION {{JournalCategory[f] : f \in Failing(r.rules)} : r \in Results(side)}

Total(side, metric) == MapThenSumSet(LAMBDA r : r.metrics[metric], Results(side))

PolicyPromotes ==
  LET policy == job.policy
      runs == Cardinality(Results("candidate"))
      failed == Cardinality(FailedRuns("candidate"))
  IN  /\ runs >= policy.min_runs
      /\ 100 * (runs - failed) >= policy.min_pass_rate * runs
      /\ failed <= policy.max_failed
      /\ job.batch.candidate.mode \in policy.modes
      /\ Categories("candidate") \cap policy.forbidden = {}
      /\ Total("candidate", "conflicts") <= policy.max_conflicts
      /\ Total("candidate", "uncertainOutcomes") <= policy.max_uncertain

\* The gate knows the candidate's report only.
ApplyPolicy ==
  /\ Running("batches", "candidate") /\ BatchDone("candidate")
  /\ job' = [job EXCEPT !.pc = "compare",
                        !.gate = IF PolicyPromotes THEN "promote" ELSE "hold"]

-----------------------------------------------------------------------------
\* compare_evaluations, and compare_wasmhatch_batches.

Regressions(b, c) == {f \in DOMAIN b.rules : b.rules[f] = "pass" /\ c.rules[f] = "fail"}

PairPromotes(b, c) ==
  /\ Regressions(b, c) = {}
  /\ RulesPassed(c.rules)
  /\ RuleScore(c.rules) >= RuleScore(b.rules)

BatchScenarios(side) == {r.scenario : r \in Results(side)}

ScenarioPairs ==
  {p \in Results("baseline") \X Results("candidate") : p[1].scenario = p[2].scenario}

NoneMissing == {}  \* a bug: scenarios without a candidate are not counted

MissingScenarios == BatchScenarios("baseline") \ BatchScenarios("candidate")

BatchPromotes ==
  /\ ScenarioPairs # {}
  /\ MissingScenarios = {}
  /\ \A p \in ScenarioPairs :
       /\ RulesPassed(p[1].rules) => RulesPassed(p[2].rules)
       /\ Regressions(p[1], p[2]) = {}
       /\ SafetyBlocked(p[2].rules) => SafetyBlocked(p[1].rules)
  /\ FailedRuns("candidate") = {}
  /\ job.batch.baseline.mode = job.batch.candidate.mode

CompareBatches ==
  /\ Running("batches", "compare")
  /\ job' = [job EXCEPT !.pc = "ended",
                        !.result = IF BatchPromotes THEN "promote" ELSE "hold"]

BatchesNext ==
  EvaluateEntry \/ EntryUnreadable \/ NextBatch \/ ApplyPolicy \/ CompareBatches

-----------------------------------------------------------------------------
\* No effect was committed before an approval had been given.
NeverUnapproved(journal) ==
  \A n \in DOMAIN journal.events :
    /\ journal.events[n].category = "effect" /\ journal.events[n].outcome = "committed"
    => \E e \in ToSet(SubSeq(journal.events, 1, n)) :
         e.category = "approval" /\ e.outcome = "approved"

\* A candidate batch is only promoted, by either gate, if none of its runs
\* committed without approval or shows a credential, even under a policy that
\* tolerates failed runs; the comparison moreover covers every scenario of the
\* baseline, and agrees with what comparing each pair of runs would have said.
BatchPromotionsHold ==
  job.tool = "batches" /\ job.pc = "ended" =>
    /\ \/ job.result = "promote"
       \/ job.gate = "promote" /\ {"privacy", "safety_authorization"} \subseteq job.policy.forbidden
       => \A i \in DOMAIN job.batch.candidate.entries :
            LET journal == job.batch.candidate.entries[i].journal
            IN  NeverUnapproved(journal) /\ ~journal.secret
    /\ job.result = "promote" =>
         /\ \A i \in DOMAIN job.batch.baseline.entries :
              \E j \in DOMAIN job.batch.candidate.entries :
                job.batch.candidate.entries[j].scenario = job.batch.baseline.entries[i].scenario
         /\ \A p \in ScenarioPairs : PairPromotes(p[1], p[2])
=============================================================================

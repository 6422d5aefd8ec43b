--------------------------- MODULE GepaExperiment ---------------------------
(***************************************************************************)
(* The optimization loop (gepa_runtime.py) and the two gates its winner    *)
(* goes through (gepa_runtime.py, stability.py).                           *)
(*                                                                         *)
(* The engine (external) proposes candidates and has each scored by a      *)
(* replay.  A candidate only scores with traces nobody has seen in this    *)
(* experiment.  The report is then taken either to a validation on held-out*)
(* tasks, or to a stability gate that repeats baseline and candidate in    *)
(* alternating order; both start from the trace ids the report lists.      *)
(***************************************************************************)
EXTENDS Replay, Integers, FiniteSetsExt

CONSTANTS
  Candidates,         \* bound: what the engine may propose
  Seed,               \* manifest.seed_candidate
  Unbound,            \* candidates that lack a key some binding needs
  TrainingTasks,      \* the tasks of the experiment's replay manifest
  ValidationTasks,    \* the held-out tasks of the validation
  StabilityTasks,     \* the held-out tasks of the stability gate
  MaxMetricCalls,     \* max_metric_calls
  ValidationPolicy,   \* GepaValidationPolicy
  StabilityPolicy     \* GepaStabilityPolicy

ASSUME CandidateAssumption ==
  Seed \in Candidates /\ Unbound \subseteq Candidates \ {Seed} /\ None \notin Candidates
ASSUME TaskAssumption ==
  /\ TrainingTasks \in Seq(Task) /\ TrainingTasks # << >>
  /\ ValidationTasks \in Seq(Task) /\ ValidationTasks # << >>
  /\ StabilityTasks \in Seq(Task) /\ StabilityTasks # << >>
ASSUME BudgetAssumption == MaxMetricCalls \in Nat \ {0, 1}
ASSUME PolicyAssumption ==
  /\ ValidationPolicy \in [min_score : 0..Unit, min_tasks : Nat \ {0}, max_gap : 0..Unit,
                           safety : BOOLEAN, fresh : BOOLEAN, match : BOOLEAN]
  \* z2 and min_lower in tenths: the square of the z score, the least lower bound.
  /\ StabilityPolicy \in [trials : Nat \ {0, 1}, z2 : Nat \ {0}, min_mean : 0..Unit,
                          min_delta : -Unit..Unit, min_lower : 0..10,
                          max_regressions : Nat, fresh : BOOLEAN]
ASSUME VerdictAssumption == None \notin {"promote", "hold", "error"}

VARIABLES
  stage,        \* what the process is doing
  observed,     \* observed_trace_ids
  reused,       \* reused_trace_ids
  evaluations,  \* the candidate evaluations so far
  report,       \* the experiment's report, or None
  verdict       \* how it ended, or None

vars == <<replay, named, stage, observed, reused, evaluations, report, verdict>>

Evaluation ==
  [candidate : Candidates, score : 0..Unit, safe : BOOLEAN, traces : Seq(Nat \ {0}),
   fresh : BOOLEAN, passed : BOOLEAN]

Report ==
  [best : Candidates, best_score : 0..Unit, seed_score : 0..Unit, improved : BOOLEAN,
   observed : SUBSET (Nat \ {0})]

TypeOK ==
  /\ replay # None => /\ replay.candidate \in Candidates
                      /\ replay.tasks \in Seq(Task)
                      /\ replay.results \in Seq(TaskResult)
                      /\ replay.captured \in Seq(Captured)
                      /\ replay.body \in 0..MaxResponse + 1 \cup {None}
  /\ named \in Nat
  /\ stage \in {"experiment", "reported", "validation", "stability", "done"}
  /\ observed \subseteq 1..named /\ reused \subseteq observed
  /\ evaluations \in Seq(Evaluation)
  /\ report # None => report \in Report
  /\ verdict \in {None, "promote", "hold", "error"}

Init ==
  /\ replay = None /\ named = 0
  /\ stage = "experiment"
  /\ observed = {} /\ reused = {}
  /\ evaluations = << >>
  /\ report = None /\ verdict = None

-----------------------------------------------------------------------------
\* _evaluate_candidate: a replay bound to the candidate, then its score.

SeenBefore(traces, seen) == ToSet(traces) \cap seen  \* a bug: not within a replay

\* The trace ids that occur twice in a replay, or were observed before it.
Duplicates(traces, seen) ==
  {traces[i] : i \in {j \in DOMAIN traces :
     \/ traces[j] \in seen
     \/ \E k \in DOMAIN traces \ {j} : traces[k] = traces[j]}}

Fresh(r, seen) ==
  /\ Duplicates(TracesOf(r), seen) = {}
  /\ Len(r.captured) = Len(r.tasks)

RewardSum(r) == MapThenSumSet(LAMBDA i : RecommendedReward(r.captured[i].outcome),
                              DOMAIN r.captured)

SafeTraces(r) == {i \in DOMAIN r.captured : r.captured[i].outcome.safe}

Scored(r, seen) ==
  [candidate |-> r.candidate,
   score |-> IF Fresh(r, seen) THEN Mean(RewardSum(r), Len(r.tasks)) ELSE 0,
   safe |-> Cardinality(SafeTraces(r)) = Len(r.tasks),
   traces |-> TracesOf(r),
   fresh |-> Fresh(r, seen),
   passed |-> ReplayPassed(r)]

\* A candidate without a bound key raises before anything is sent.
Evaluate(candidate, tasks) ==
  /\ replay = None
  /\ IF candidate \in Unbound
     THEN stage' = "done" /\ verdict' = "error" /\ UNCHANGED replay
     ELSE replay' = BeginReplay(candidate, tasks) /\ UNCHANGED <<stage, verdict>>
  /\ UNCHANGED <<named, observed, reused, evaluations, report>>

ForgetfulRecord ==  \* a bug: the traces of a candidate are not remembered
  /\ ReplayFinished
  /\ evaluations' = Append(evaluations, Scored(replay, observed))
  /\ reused' = reused \cup Duplicates(TracesOf(replay), observed)
  /\ replay' = None
  /\ UNCHANGED <<named, stage, observed, report, verdict>>

\* The replay has ended: the evaluation is recorded and its traces remembered.
RecordEvaluation ==
  /\ ReplayFinished
  /\ evaluations' = Append(evaluations, Scored(replay, observed))
  /\ observed' = observed \cup ToSet(TracesOf(replay))
  /\ reused' = reused \cup Duplicates(TracesOf(replay), observed)
  /\ replay' = None
  /\ UNCHANGED <<named, stage, report, verdict>>

-----------------------------------------------------------------------------
\* run_gepa_experiment.

\* The engine scores its seed first, and then whatever it proposes.
EngineEvaluates ==
  /\ stage = "experiment"
  /\ Len(evaluations) < MaxMetricCalls
  /\ \E c \in Candidates : (evaluations = << >> => c = Seed) /\ Evaluate(c, TrainingTasks)

\* The reflection model or the engine raises, or the engine never evaluated.
EngineFails ==
  /\ stage = "experiment" /\ replay = None
  /\ stage' = "done" /\ verdict' = "error"
  /\ UNCHANGED <<replay, named, observed, reused, evaluations, report>>

\* The first score of the seed, or of whatever was scored first.
SeedScore ==
  LET own == {i \in DOMAIN evaluations : evaluations[i].candidate = Seed}
  IN  evaluations[IF own = {} THEN 1 ELSE Min(own)].score

\* The engine returns the best of a pool that holds at least the seed.
EngineReturns ==
  /\ stage = "experiment" /\ replay = None
  /\ \E b \in DOMAIN evaluations :
       /\ evaluations[b].score >= evaluations[1].score
       /\ report' = [best |-> evaluations[b].candidate, best_score |-> evaluations[b].score,
                     seed_score |-> SeedScore, improved |-> evaluations[b].score > SeedScore,
                     observed |-> observed]
  /\ stage' = "reported"
  /\ UNCHANGED <<replay, named, observed, reused, evaluations, verdict>>

-----------------------------------------------------------------------------
\* validate_gepa_candidate_report and run_gepa_stability_report.

StartBlank(gate) ==  \* a bug: the gate does not know the experiment's traces
  /\ stage = "reported"
  /\ stage' = gate
  /\ observed' = {} /\ reused' = {} /\ evaluations' = << >>
  /\ UNCHANGED <<replay, named, report, verdict>>

\* A gate is a process of its own: all it knows is the report.
StartGate(gate) ==
  /\ stage = "reported"
  /\ stage' = gate
  /\ observed' = report.observed /\ reused' = {} /\ evaluations' = << >>
  /\ UNCHANGED <<replay, named, report, verdict>>

\* The report belongs to another experiment than the manifest: both refuse.
RefuseReport ==
  /\ stage = "reported"
  /\ stage' = "done" /\ verdict' = "error"
  /\ UNCHANGED <<replay, named, observed, reused, evaluations, report>>

Decide(promotes) ==
  /\ stage' = "done"
  /\ verdict' = IF promotes THEN "promote" ELSE "hold"
  /\ UNCHANGED <<replay, named, observed, reused, evaluations, report>>

ValidationEvaluates ==
  /\ stage = "validation" /\ evaluations = << >>
  /\ Evaluate(report.best, ValidationTasks)

ValidationPromotes(e) ==
  /\ Len(ValidationTasks) >= ValidationPolicy.min_tasks
  /\ e.score >= ValidationPolicy.min_score
  /\ report.best_score - e.score <= ValidationPolicy.max_gap
  /\ ValidationPolicy.safety => e.safe
  /\ ValidationPolicy.fresh => e.fresh
  /\ ValidationPolicy.match => e.passed

ValidationDecides ==
  /\ stage = "validation" /\ evaluations # << >>
  /\ Decide(ValidationPromotes(evaluations[1]))

-----------------------------------------------------------------------------
\* The stability gate: two evaluations make a sample.

Samples == Len(StabilityTasks) * StabilityPolicy.trials

AlwaysBaseline(i) == TRUE  \* a bug: the candidate always meets a warmed-up target

\* Sample number i is a trial of this task; its baseline goes first in turn.
TaskIndex(i) == i \div StabilityPolicy.trials
TrialNumber(i) == (i % StabilityPolicy.trials) + 1
BaselineFirst(i) == (TaskIndex(i) + TrialNumber(i)) % 2 = 1

StabilityEvaluates ==
  LET done == Len(evaluations)
      i == done \div 2
      baseline == (done % 2 = 0) = BaselineFirst(i)
  IN  /\ stage = "stability" /\ i < Samples
      /\ Evaluate(IF baseline THEN Seed ELSE report.best, <<StabilityTasks[TaskIndex(i) + 1]>>)

\* Baseline and candidate evaluation of a sample, in whatever order they ran.
BaselineOf(i) == evaluations[2 * i + (IF BaselineFirst(i) THEN 1 ELSE 2)]
CandidateOf(i) == evaluations[2 * i + (IF BaselineFirst(i) THEN 2 ELSE 1)]

SampleIds == 0..(Samples - 1)

Successes == {i \in SampleIds : CandidateOf(i).passed /\ CandidateOf(i).safe}

SafetyRegressions == {i \in SampleIds : BaselineOf(i).safe /\ ~CandidateOf(i).safe}

MeanDelta ==
  LET total == MapThenSumSet(LAMBDA i : CandidateOf(i).score, SampleIds)
               - MapThenSumSet(LAMBDA i : BaselineOf(i).score, SampleIds)
  IN  IF total >= 0 THEN Mean(total, Samples) ELSE -Mean(-total, Samples)

\* wilson_lower_bound(s, n) >= m, cleared of fractions and of the root: the
\* centre minus m times the denominator is at least the margin.
WilsonAtLeast(s, n, m) ==
  LET z2 == StabilityPolicy.z2
      excess == 200 * s + 10 * z2 - 20 * n * m - 2 * z2 * m
  IN  m = 0 \/ /\ excess >= 0
               /\ n * excess * excess >= 4000 * z2 * s * (n - s) + 100 * n * z2 * z2

\* trace_ids: the traces of all evaluations, each at its place.
TracePlaces == UNION {{i} \X DOMAIN evaluations[i].traces : i \in DOMAIN evaluations}

\* No trace was reused, and none is missing.
StabilityFresh == reused = {} /\ Cardinality(TracePlaces) = 2 * Samples

StabilityPromotes ==
  /\ Mean(MapThenSumSet(LAMBDA i : CandidateOf(i).score, SampleIds), Samples)
       >= StabilityPolicy.min_mean
  /\ MeanDelta >= StabilityPolicy.min_delta
  /\ WilsonAtLeast(Cardinality(Successes), Samples, StabilityPolicy.min_lower)
  /\ Cardinality(SafetyRegressions) <= StabilityPolicy.max_regressions
  /\ StabilityPolicy.fresh => StabilityFresh

StabilityDecides ==
  /\ stage = "stability" /\ replay = None /\ Len(evaluations) = 2 * Samples
  /\ Decide(StabilityPromotes)

-----------------------------------------------------------------------------
ReplayTask == ReplayStep /\ UNCHANGED <<stage, observed, reused, evaluations, report, verdict>>

\* The process has exited.
Terminated == stage = "done" /\ UNCHANGED vars

\* A person takes the report to a gate, or hands in the wrong one.
HandOver == StartGate("validation") \/ StartGate("stability") \/ RefuseReport

Work ==
  \/ EngineEvaluates \/ EngineFails \/ EngineReturns
  \/ ValidationEvaluates \/ ValidationDecides
  \/ StabilityEvaluates \/ StabilityDecides
  \/ ReplayTask \/ RecordEvaluation

Next == HandOver \/ Work \/ Terminated

Spec == Init /\ [][Next]_vars

\* One process that is scheduled; the client's timeouts bound the endpoint's
\* silence, so that some answer or failure always comes.  Nobody has to take
\* the report anywhere.
FairSpec == Spec /\ WF_vars(Work)

-----------------------------------------------------------------------------
\* How many tasks an evaluation runs, whichever stage it belongs to.
TaskCount ==
  CASE stage = "validation" -> Len(ValidationTasks)
    [] stage = "stability" -> 1
    [] OTHER -> Len(TrainingTasks)

AllTraces(es) == UNION {ToSet(es[i].traces) : i \in DOMAIN es}

\* A candidate only scores with as many traces as it ran tasks, all different
\* and none of them seen in an earlier evaluation of this process, or in the
\* experiment whose winner a gate tries (_evaluate_candidate).
ScoreIsEarned ==
  stage # "done" =>
    \A i \in DOMAIN evaluations :
      LET e == evaluations[i]
          before == AllTraces(SubSeq(evaluations, 1, i - 1))
      IN  e.score > 0 =>
            /\ Cardinality(ToSet(e.traces)) = TaskCount
            /\ ToSet(e.traces) \cap before = {}
            /\ stage \in {"validation", "stability"} =>
                 ToSet(e.traces) \cap report.observed = {}

\* The evaluations of a candidate in which a safety check failed.
UnsafeOf(candidate) ==
  {i \in DOMAIN evaluations : evaluations[i].candidate = candidate /\ ~evaluations[i].safe}

\* A winner is promoted only on traces the experiment had not seen, one per
\* replay and none twice, where the policy asks for fresh ones; a validation
\* also needs what else its policy asks for, and in a stability gate the winner
\* was unsafe no more often than the baseline, beyond what the policy allows.
PromotionIsEvidenced ==
  verdict = "promote" =>
    IF Len(evaluations) = 1
    THEN /\ ValidationPolicy.fresh =>
              /\ AllTraces(evaluations) \cap report.observed = {}
              /\ Cardinality(AllTraces(evaluations)) = Len(ValidationTasks)
         /\ ValidationPolicy.match => evaluations[1].passed
         /\ ValidationPolicy.safety => UnsafeOf(report.best) = {}
    ELSE /\ StabilityPolicy.fresh =>
              /\ AllTraces(evaluations) \cap report.observed = {}
              /\ Cardinality(AllTraces(evaluations)) = 2 * Samples
         /\ Cardinality(UnsafeOf(report.best))
              <= Cardinality(UnsafeOf(Seed)) + StabilityPolicy.max_regressions

\* The report lists every trace of the experiment, those of candidates that
\* lost included: it is all the gates know of it (observed_trace_ids).
ReportRemembersTraces ==
  stage = "reported" => report.observed = AllTraces(evaluations)

\* Baseline and winner take turns in going first, so that neither always
\* meets a target the other has warmed up, and each pair is complete.
TrialsAlternate ==
  stage = "stability" =>
    \A i \in SampleIds : Len(evaluations) >= 2 * i + 2 =>
      LET first == evaluations[2 * i + 1].candidate
      IN  /\ {first, evaluations[2 * i + 2].candidate} = {Seed, report.best}
          /\ i > 0 /\ TaskIndex(i) = TaskIndex(i - 1) /\ Seed # report.best =>
               first # evaluations[2 * i - 1].candidate

\* A stage that works on replays comes to an end, whatever the endpoint sends.
StagesEnd ==
  \A s \in {"experiment", "validation", "stability"} : stage = s ~> stage # s
=============================================================================

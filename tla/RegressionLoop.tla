--------------------------- MODULE RegressionLoop ---------------------------
(***************************************************************************)
(* The regression loop of a DeepResearch benchmark                         *)
(* (deepresearch_regression.py): the failures of a baseline report are     *)
(* clustered, a challenge set of tasks is drawn from the clusters and      *)
(* written, and the report of a candidate is compared with the baseline.   *)
(***************************************************************************)
EXTENDS Job, Integers, Sequences, FiniteSets, FiniteSetsExt, SequencesExt

CONSTANTS
  BaselineReports,     \* bound: the trials of a baseline report
  CandidateReports,    \* bound: the trials of a candidate report
  ManifestTasks,       \* the tasks of the source manifest, in order
  ChallengePolicy,     \* DeepResearchChallengePolicy
  RegressionPolicies   \* bound: the regression policies that are applied

\* SAFETY_FAILURES
SafetyFailures == {"no_raw_secret", "source_isolation", "checkpoints_intact",
                   "required_contracts_pass"}

\* hold: the claim report recommends it; trace, score and latency may be missing.
BenchmarkTrial ==
  [task : STRING, trial : Nat \ {0}, status : STRING, passed : BOOLEAN, hold : BOOLEAN,
   failures : SUBSET STRING, score : 0..100 \cup {None}, trace : Nat \cup {None},
   latency : Nat \cup {None}]

\* Rates and scores in percent, the latency ratio in percent as well.
RegressionPolicy ==
  [min_pass : 0..100, min_delta : -100..100, min_score : -100..100, max_latency : Nat,
   max_safety : Nat, fresh : BOOLEAN, live : BOOLEAN, judge : BOOLEAN, min_support : 0..100]

ASSUME ChallengeAssumption ==
  /\ ChallengePolicy \in [max_tasks : Nat \ {0}, max_per_cluster : Nat \ {0}]
  /\ ManifestTasks # << >>
  /\ \A i, j \in DOMAIN ManifestTasks : ManifestTasks[i] = ManifestTasks[j] => i = j
ASSUME ReportAssumption ==
  \A r \in BaselineReports \cup CandidateReports : r.trials \in Seq(BenchmarkTrial)
ASSUME RegressionAssumption == RegressionPolicies \subseteq RegressionPolicy

-----------------------------------------------------------------------------
\* _trial_signature: what went wrong in a trial, None for one that passed clean.

WentWrong(t) ==
  t.failures \cup (IF t.status = "completed" THEN {} ELSE {t.status})
             \cup (IF t.hold THEN {"claim:hold"} ELSE {})

TrialSignature(t) ==
  IF WentWrong(t) # {} THEN WentWrong(t)
  ELSE IF t.passed THEN None ELSE {"evaluation_failed_without_category"}

Trials == job.baseline.trials

Cluster(signature) == {i \in DOMAIN Trials : TrialSignature(Trials[i]) = signature}

Signatures == {TrialSignature(Trials[i]) : i \in DOMAIN Trials} \ {None}

SafetyTrials(signature) ==
  Cardinality({i \in Cluster(signature) : Trials[i].failures \cap SafetyFailures # {}})

\* The clusters with most safety failures first, then the largest ones.
Before(a, b) ==
  \/ SafetyTrials(a) > SafetyTrials(b)
  \/ SafetyTrials(a) = SafetyTrials(b) /\ Cardinality(Cluster(a)) > Cardinality(Cluster(b))

\* The trials of a cluster in which a task first occurs.
FirstTrials(signature) ==
  {i \in Cluster(signature) :
     \A j \in Cluster(signature) : j < i => Trials[j].task # Trials[i].task}

\* Both limits: that of a cluster, and the room there still is.
Limit ==
  LET room == ChallengePolicy.max_tasks - Len(job.selected)
  IN  IF room < ChallengePolicy.max_per_cluster THEN room ELSE ChallengePolicy.max_per_cluster

\* The tasks of the first trials among some, within both limits.
TasksOf(trials) ==
  LET count == IF Cardinality(trials) < Limit THEN Cardinality(trials) ELSE Limit
  IN  [k \in 1..count |-> Trials[Nth(trials, k)].task]

AnyTasks(signature) ==  \* a bug: a task of an earlier cluster is chosen again
  TasksOf(FirstTrials(signature))

\* What a cluster adds: tasks that are not selected yet.
Chosen(signature) ==
  TasksOf({i \in FirstTrials(signature) : Trials[i].task \notin ToSet(job.selected)})

-----------------------------------------------------------------------------
\* build_deepresearch_challenge_set.

RegressionInit ==
  \E baseline \in BaselineReports, policy \in RegressionPolicies, old \in BOOLEAN :
    job = [tool |-> "regression", pc |-> "cluster", policy |-> policy, baseline |-> baseline,
           left |-> {}, selected |-> << >>, files |-> IF old THEN {"old report"} ELSE {},
           candidate |-> None, result |-> None]

Fails == job' = [job EXCEPT !.pc = "ended", !.result = "error"]

\* A report of another manifest is refused.
GroupTrials ==
  /\ Running("regression", "cluster")
  /\ IF job.baseline.of_manifest
     THEN job' = [job EXCEPT !.pc = "select", !.left = Signatures]
     ELSE Fails

Room == Len(job.selected) < ChallengePolicy.max_tasks

\* The next cluster; clusters no other one is before are in some fixed order.
TakeCluster ==
  /\ Running("regression", "select") /\ Room
  /\ \E s \in job.left :
       /\ ~\E other \in job.left : Before(other, s)
       /\ job' = [job EXCEPT !.selected = @ \o Chosen(s), !.left = @ \ {s}]

\* The score of the worst trial of a task, -1 without one.
WorstScore(task) ==
  LET own == {i \in DOMAIN Trials : Trials[i].task = task}
  IN  IF own = {} THEN -1
      ELSE Min({IF Trials[i].score = None THEN -1 ELSE Trials[i].score : i \in own})

\* Without a failure the first of the tasks with the lowest score is kept.
TakeSentinel ==
  /\ Running("regression", "select") /\ Signatures = {} /\ job.selected = << >>
  /\ LET worst == {i \in DOMAIN ManifestTasks : \A j \in DOMAIN ManifestTasks :
                     WorstScore(ManifestTasks[i]) <= WorstScore(ManifestTasks[j])}
     IN  job' = [job EXCEPT !.selected = <<ManifestTasks[Min(worst)]>>]

Selection == job.selected # << >> /\ (job.left = {} \/ ~Room)

\* Tasks the manifest does not have are dropped; an earlier set is never replaced.
FinishSelection ==
  /\ Running("regression", "select") /\ Selection
  /\ IF ToSet(job.selected) \cap ToSet(ManifestTasks) = {} \/ job.files # {}
     THEN Fails
     ELSE job' = [job EXCEPT !.pc = "manifest"]

\* The manifest is written first, and either write may fail, leaving nothing or
\* a part of the file behind.
Writes(name, next) ==
  \/ job' = [job EXCEPT !.pc = next, !.files = @ \cup {name}]
  \/ \E left \in SUBSET {name} :
       job' = [job EXCEPT !.pc = "ended", !.result = "error", !.files = @ \cup left]

WriteManifest == Running("regression", "manifest") /\ Writes("manifest", "report")

WriteReport == Running("regression", "report") /\ Writes("report", "compare")

-----------------------------------------------------------------------------
\* compare_deepresearch_benchmarks; the candidate's report is whatever the
\* benchmark made of its trials.

\* The index keeps the last of several trials of one task and number, which no
\* report the benchmark wrote has.
LastTrials(report) ==
  {i \in DOMAIN report.trials : \A j \in DOMAIN report.trials :
     /\ report.trials[j].task = report.trials[i].task
     /\ report.trials[j].trial = report.trials[i].trial
     => j <= i}

PairedTrials(base, cand) ==
  {p \in LastTrials(base) \X LastTrials(cand) :
     /\ base.trials[p[1]].task = cand.trials[p[2]].task
     /\ base.trials[p[1]].trial = cand.trials[p[2]].trial}

\* Candidate trials without a baseline; baseline trials without a candidate
\* are not looked for.
Unpaired(base, cand) ==
  {j \in LastTrials(cand) : \A p \in PairedTrials(base, cand) : p[2] # j}

NewSafetyFailures(base, cand, p) ==
  (cand.trials[p[2]].failures \ base.trials[p[1]].failures) \cap SafetyFailures

SafetyRegressions(base, cand) ==
  UNION {{p} \X NewSafetyFailures(base, cand, p) : p \in PairedTrials(base, cand)}

\* Sums and counts of the values that were measured, over the paired trials.
Measures(report, indices, field) ==
  LET known == {i \in indices : report.trials[i][field] # None}
  IN  [n |-> Cardinality(known),
       sum |-> MapThenSumSet(LAMBDA i : report.trials[i][field], known)]

\* A quotient in units of 10^-4, rounded, halves to the even neighbour.
Rounded(a, b) ==
  LET q == (10000 * a) \div b
      rest == 2 * ((10000 * a) % b)
  IN  IF rest > b \/ (rest = b /\ q % 2 = 1) THEN q + 1 ELSE q

\* _mean, of values that are given in 1/unit
Mean(m, unit) == IF m.n = 0 THEN None ELSE Rounded(m.sum, unit * m.n)

\* The means are rounded before they are subtracted or divided, and the ratio
\* again; a score delta that is missing holds the candidate, a ratio does not.
MeanDelta(b, c, d) ==
  /\ Mean(b, 100) # None /\ Mean(c, 100) # None
  /\ Mean(c, 100) - Mean(b, 100) >= 100 * d

RatioWithin(b, c, limit) ==
  Mean(b, 1) \notin {None, 0} /\ Mean(c, 1) # None =>
    Rounded(Mean(c, 1), Mean(b, 1)) <= 100 * limit

TracesPaired(report, indices) == {report.trials[i].trace : i \in indices} \ {None}

LiveSystem(base, cand) == base.live /\ cand.live

RegressionPromotes(base, cand, policy) ==
  LET pairs == PairedTrials(base, cand)
      bs == {p[1] : p \in pairs}
      cs == {p[2] : p \in pairs}
      n == Cardinality(pairs)
      passed == Cardinality({j \in cs : cand.trials[j].passed})
      passedBefore == Cardinality({i \in bs : base.trials[i].passed})
  IN  /\ n > 0
      /\ Unpaired(base, cand) = {}
      /\ 100 * passed >= policy.min_pass * n
      /\ 100 * (passed - passedBefore) >= policy.min_delta * n
      /\ MeanDelta(Measures(base, bs, "score"), Measures(cand, cs, "score"), policy.min_score)
      /\ RatioWithin(Measures(base, bs, "latency"), Measures(cand, cs, "latency"),
                     policy.max_latency)
      /\ Cardinality(SafetyRegressions(base, cand)) <= policy.max_safety
      /\ policy.fresh => /\ TracesPaired(cand, cs) # {}
                         /\ TracesPaired(cand, cs) \cap TracesPaired(base, bs) = {}
      /\ policy.live => LiveSystem(base, cand)
      /\ policy.judge => cand.support # None /\ cand.support >= policy.min_support

CompareReports ==
  /\ Running("regression", "compare")
  /\ \E cand \in CandidateReports :
       job' = [job EXCEPT !.pc = "ended", !.candidate = cand,
                 !.result = IF RegressionPromotes(job.baseline, cand, job.policy)
                            THEN "promote" ELSE "hold"]

RegressionNext ==
  \/ GroupTrials \/ TakeCluster \/ TakeSentinel \/ FinishSelection
  \/ WriteManifest \/ WriteReport \/ CompareReports

-----------------------------------------------------------------------------
\* A challenge set is never empty, repeats no task and keeps to its limit; it
\* has a task of every kind of failure unless it is full, and then no kind that
\* was left out had more safety failures than one that was taken; its report
\* is only written next to its manifest.
ChallengeCoversFailures ==
  job.tool = "regression" /\ job.pc \in {"manifest", "report", "compare"} =>
    /\ Len(job.selected) \in 1..ChallengePolicy.max_tasks
    /\ Cardinality(ToSet(job.selected)) = Len(job.selected)
    /\ \A s \in Signatures :
         \/ \E i \in Cluster(s) : Trials[i].task \in ToSet(job.selected)
         \/ ~Room /\ s \in job.left
    /\ \A s \in job.left, taken \in Signatures \ job.left : SafetyTrials(s) <= SafetyTrials(taken)
    /\ "report" \in job.files => "manifest" \in job.files

\* A candidate is only promoted if every trial its report counts has a baseline
\* and none is worse on a safety rule than the baseline's trial of the same task
\* and number, where the policy allows no such regression, and, where it asks
\* for fresh traces, no compared trial shows the trace of any compared baseline
\* trial.  Of several trials of one task and number the last one counts.
RegressionPromotionsHold ==
  EndedWith("regression", "promote") =>
    /\ \A j \in LastTrials(job.candidate) : \E i \in LastTrials(job.baseline) :
         /\ Trials[i].task = job.candidate.trials[j].task
         /\ Trials[i].trial = job.candidate.trials[j].trial
    /\ job.policy.max_safety = 0 =>
         \A i \in LastTrials(job.baseline), j \in LastTrials(job.candidate) :
           LET b == Trials[i]
               c == job.candidate.trials[j]
           IN  b.task = c.task /\ b.trial = c.trial =>
                 \A f \in SafetyFailures : f \in c.failures => f \in b.failures
    /\ job.policy.fresh =>
         \A i \in LastTrials(job.baseline), j \in LastTrials(job.candidate) :
           (\E k \in LastTrials(job.candidate) :
              job.candidate.trials[k].task = Trials[i].task
              /\ job.candidate.trials[k].trial = Trials[i].trial)
           /\ Trials[i].trace # None => Trials[i].trace # job.candidate.trials[j].trace
=============================================================================

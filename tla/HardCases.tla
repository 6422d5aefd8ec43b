------------------------------ MODULE HardCases ------------------------------
(***************************************************************************)
(* From a stability report to a challenge set: mine_gepa_hard_cases        *)
(* (mining.py) queues the samples worth a look, a reviewer decides each,   *)
(* and curate_hard_cases (curation.py) turns the decisions into a set, or  *)
(* refuses them all.                                                       *)
(***************************************************************************)
EXTENDS Job, Integers, Sequences, FiniteSets, SequencesExt

CONSTANTS
  SampleKinds,     \* bound: what a sample of the report may look like
  SampleTasks,     \* the task of each sample of the report
  MiningPolicy,    \* HardCaseMiningPolicy
  Digest,          \* the hash of each task id under split_seed, in percent
  TrainRatio, ValidationRatio   \* in percent; the rest is the test split

Side == [passed : BOOLEAN, safe : BOOLEAN, score : 0..10000,
         failed : SUBSET {"quality", "safety"}]

ASSUME SampleAssumption ==
  /\ SampleKinds \subseteq [baseline : Side, candidate : Side]
  /\ SampleTasks \in Seq(DOMAIN Digest) /\ SampleTasks # << >>
ASSUME MiningAssumption ==
  MiningPolicy \in [max_cases : Nat \ {0}, max_per_signature : Nat \ {0},
                    candidate_failures : BOOLEAN, score_regressions : BOOLEAN,
                    resolved_failures : BOOLEAN]
ASSUME SplitAssumption ==
  /\ \A t \in DOMAIN Digest : Digest[t] \in 0..99
  /\ TrainRatio \in Nat /\ ValidationRatio \in Nat /\ TrainRatio + ValidationRatio <= 100

-----------------------------------------------------------------------------
\* _entry_for_sample: the first rule that applies, and is included, decides.

ScoreDelta(s) == s.candidate.score - s.baseline.score

SafetyRegression(s) == s.baseline.safe /\ ~s.candidate.safe

CandidateFailure(s) == ~s.candidate.passed \/ s.candidate.score < 10000

CaseKind(s) ==
  IF MiningPolicy.candidate_failures /\ SafetyRegression(s) THEN "safety_regression"
  ELSE IF MiningPolicy.candidate_failures /\ CandidateFailure(s) THEN "candidate_failure"
  ELSE IF MiningPolicy.score_regressions /\ ScoreDelta(s) < 0 THEN "score_regression"
  ELSE IF MiningPolicy.resolved_failures /\ ~s.baseline.passed /\ s.candidate.passed
       THEN "resolved_baseline_failure"
  ELSE None

OrElse(failed, reason) == IF failed = {} THEN {reason} ELSE failed

FailureSignature(s) ==
  CASE CaseKind(s) = "safety_regression" -> s.candidate.failed \cup {"safety.regression"}
    [] CaseKind(s) = "candidate_failure" ->
         OrElse(s.candidate.failed, "replay.expectation_mismatch")
    [] CaseKind(s) = "score_regression" -> OrElse(s.candidate.failed, "score.paired_regression")
    [] OTHER -> OrElse(s.baseline.failed, "baseline.expectation_mismatch")

SeverityWeight(s) ==
  CASE CaseKind(s) = "safety_regression" -> 100
    [] CaseKind(s) = "candidate_failure" -> IF s.candidate.safe THEN 70 ELSE 100
    [] CaseKind(s) = "score_regression" -> 70
    [] OTHER -> 40

AtLeastZero(n) == IF n > 0 THEN n ELSE 0

\* priority_score, in 1/10000.
CasePriority(s) ==
  SeverityWeight(s) * 10000 + AtLeastZero(-ScoreDelta(s)) * 20 + (10000 - s.candidate.score) * 10
  + (IF CaseKind(s) = "resolved_baseline_failure" THEN AtLeastZero(ScoreDelta(s)) * 10 ELSE 0)

\* The most urgent first; ties are broken by the hash of the case, which is some
\* fixed order of the samples.
MoreUrgent(samples, i, j) ==
  \/ CasePriority(samples[i]) > CasePriority(samples[j])
  \/ CasePriority(samples[i]) = CasePriority(samples[j]) /\ i < j

MostUrgent(samples, cases) ==
  CHOOSE i \in cases : \A j \in cases \ {i} : MoreUrgent(samples, i, j)

Eligible(samples) == {i \in DOMAIN samples : CaseKind(samples[i]) # None}

\* A bucket holds the cases of one kind and signature.
BucketKey(s) == <<CaseKind(s), FailureSignature(s)>>

Bucket(samples, i) ==
  {j \in Eligible(samples) : BucketKey(samples[j]) = BucketKey(samples[i])}

\* The buckets, each named by its most urgent case.
Buckets(samples) ==
  LET heads == {i \in Eligible(samples) : i = MostUrgent(samples, Bucket(samples, i))}
  IN  [b \in heads |-> Bucket(samples, b)]

-----------------------------------------------------------------------------
\* The round robin over the buckets, one visit per step, the bucket with the most
\* urgent case first and its most urgent case first.

MiningInit ==
  \E samples \in [DOMAIN SampleTasks -> SampleKinds] :
    job = [tool |-> "hard cases", pc |-> "mine", samples |-> samples,
           left |-> Buckets(samples), taken |-> [b \in DOMAIN Buckets(samples) |-> 0],
           round |-> DOMAIN Buckets(samples), progressed |-> FALSE, selected |-> << >>,
           complete |-> FALSE, curated |-> {}, rejected |-> {}, result |-> None]

Mining == Running("hard cases", "mine")

QueueIsFull == Len(job.selected) >= MiningPolicy.max_cases

Exhausted(b) ==
  job.taken[b] >= MiningPolicy.max_per_signature \/ job.left[b] = {}

\* The bucket the round visits next.
NextBucket == MostUrgent(job.samples, job.round)

Take(b, rest) ==  \* the rest of the round once the bucket was visited
  LET case == MostUrgent(job.samples, job.left[b])
  IN  job' = [job EXCEPT !.selected = Append(@, case), !.left[b] = @ \ {case},
                         !.taken[b] = @ + 1, !.round = rest, !.progressed = TRUE]

GreedyTake ==  \* a bug: a bucket is emptied before the next one is visited
  /\ Mining /\ ~QueueIsFull
  /\ job.round # {} /\ ~Exhausted(NextBucket)
  /\ Take(NextBucket, job.round)

TakeCase ==
  /\ Mining /\ ~QueueIsFull
  /\ job.round # {} /\ ~Exhausted(NextBucket)
  /\ Take(NextBucket, job.round \ {NextBucket})

SkipBucket ==
  /\ Mining /\ ~QueueIsFull
  /\ job.round # {} /\ Exhausted(NextBucket)
  /\ job' = [job EXCEPT !.round = @ \ {NextBucket}]

\* After the last bucket another round begins if this one took anything.
NextRound ==
  /\ Mining /\ ~QueueIsFull
  /\ job.round = {} /\ job.progressed
  /\ job' = [job EXCEPT !.round = DOMAIN job.left, !.progressed = FALSE]

MiningEnds ==
  /\ Mining
  /\ QueueIsFull \/ (job.round = {} /\ ~job.progressed)
  /\ job' = [job EXCEPT !.pc = IF job.selected = << >> THEN "ended" ELSE "curate"]

-----------------------------------------------------------------------------
\* Curation of what a reviewer (external) decided of the queued cases.

CaseDecisions == {<<"reject", "duplicate">>, <<"regression_guard", "confirmed_fix">>,
              <<"training_candidate", "confirmed_failure">>,
              <<"training_candidate", "confirmed_fix">>}

Resolution == [case : DOMAIN SampleTasks, decision : CaseDecisions]

TrainingSplit(task) ==
  IF Digest[task] < TrainRatio THEN "train"
  ELSE IF Digest[task] < TrainRatio + ValidationRatio THEN "validation"
  ELSE "test"

SplitByCase(resolution) ==  \* a bug: the samples of a task are scattered
  IF resolution.decision[1] = "regression_guard" THEN "regression"
  ELSE IF resolution.case = 1 THEN "train" ELSE "test"

CaseSplit(resolution) ==
  IF resolution.decision[1] = "regression_guard" THEN "regression"
  ELSE TrainingSplit(SampleTasks[resolution.case])

CasesOf(resolutions) == {resolutions[k].case : k \in DOMAIN resolutions}

\* No case is decided twice.
DecidedOnce(resolutions) == Len(resolutions) = Cardinality(CasesOf(resolutions))

\* Only cases of the queue are decided and, where adjudication has to be
\* complete (require_complete), all of them.  A queue that mining wrote has no
\* case twice: its ids are hashes of the tasks and samples of the report.
CoversQueue(resolutions, complete) ==
  /\ CasesOf(resolutions) \subseteq ToSet(job.selected)
  /\ complete => CasesOf(resolutions) = ToSet(job.selected)

\* A guard needs a confirmed fix of a resolved failure, a training case a
\* confirmed failure.
Fits(resolution) ==
  CASE resolution.decision[1] = "regression_guard" ->
         /\ CaseKind(job.samples[resolution.case]) = "resolved_baseline_failure"
         /\ resolution.decision[2] = "confirmed_fix"
    [] resolution.decision[1] = "training_candidate" ->
         resolution.decision[2] = "confirmed_failure"
    [] OTHER -> TRUE

IsRejected(resolution) == resolution.decision[1] = "reject"

Curated(resolution) ==
  [case |-> resolution.case, decision |-> resolution.decision[1], split |-> CaseSplit(resolution)]

Accepted(resolutions, complete) ==
  /\ DecidedOnce(resolutions) /\ CoversQueue(resolutions, complete)
  /\ \A k \in DOMAIN resolutions : Fits(resolutions[k])

Refuses == job' = [job EXCEPT !.pc = "ended", !.result = "refused"]

\* Decisions about another data set or version are refused.
OtherSource == Running("hard cases", "curate") /\ Refuses

\* One resolution that does not fit refuses them all.
Curate ==
  /\ Running("hard cases", "curate")
  /\ \E n \in 1..Len(job.selected) : \E resolutions \in [1..n -> Resolution], complete \in BOOLEAN :
       IF Accepted(resolutions, complete)
       THEN LET made == {resolutions[k] : k \in 1..n}
            IN  job' = [job EXCEPT
                  !.pc = "ended", !.result = "curated", !.complete = complete,
                  !.curated = {Curated(r) : r \in {q \in made : ~IsRejected(q)}},
                  !.rejected = {r.case : r \in {q \in made : IsRejected(q)}}]
       ELSE Refuses

MiningNext ==
  \/ TakeCase \/ SkipBucket \/ NextRound \/ MiningEnds
  \/ OtherSource \/ Curate

-----------------------------------------------------------------------------
\* The queue is shared out evenly: no bucket gets a case more than another one
\* has, and one more at most, unless the other has run dry or reached its
\* limit; when mining ends without filling the queue, nothing was left behind.
QueueIsShared ==
  job.tool = "hard cases" =>
    /\ Len(job.selected) <= MiningPolicy.max_cases
    /\ \A a, b \in DOMAIN job.left :
         job.taken[a] > job.taken[b] + 1 => Exhausted(b)
    /\ job.pc # "mine" /\ ~QueueIsFull => \A b \in DOMAIN job.left : Exhausted(b)

\* A set that is written accounts once for every case that was decided, which is
\* every queued one where adjudication has to be complete; a guard comes from a
\* failure the candidate resolved, and the training cases of one task never sit
\* in different splits.
CurationKeepsTasksTogether ==
  EndedWith("hard cases", "curated") =>
    /\ LET decided == {c.case : c \in job.curated} \cup job.rejected
       IN  /\ Cardinality(job.curated) + Cardinality(job.rejected) = Cardinality(decided)
           /\ decided \subseteq ToSet(job.selected)
           /\ job.complete => decided = ToSet(job.selected)
    /\ \A a, b \in job.curated :
         /\ a.decision = "regression_guard" =>
              ~job.samples[a.case].baseline.passed /\ job.samples[a.case].candidate.passed
         /\ /\ SampleTasks[a.case] = SampleTasks[b.case]
            /\ a.decision = "training_candidate" /\ b.decision = "training_candidate"
            => a.split = b.split
=============================================================================

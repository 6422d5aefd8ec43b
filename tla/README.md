# AgentTraceLab in TLA+

A verification development for AgentTraceLab: a trace store with a deterministic
evaluator, a qualitative judge and a human review queue, and around it offline
tools that benchmark, replay, mine, calibrate and optimize agents. The code is
`src/agenttracelab/` (Python); `src/` paths below are relative to the repository.

The modules model what is hard to test there: what concurrent calls and deaths of
a process do to the store, and what a benchmark reports when its target is late,
silent or wrong. TLC checks small instances; TLAPS proves the invariants for every
value of the constants.

## Inventory

| Component | State it keeps | Operations | Talks to |
|---|---|---|---|
| Trace store, `storage.py` | tables `traces`, `evaluations`, `judge_reports`, `review_items` | `save_*`, `get_*`, `find_review_item`, `list_*`, one transaction each (`save_trace` reads, then writes) | called by the service |
| Trace service, `service.py` | none of its own | `import_otlp`, `import_wasmhatch`, `judge_trace`, `queue_review`, `resolve_review_item`, `export_resolved_reviews`, derived records | store, evaluator, judge |
| HTTP API and CLI, `api.py`, `cli.py` | server threads, processes, output files | one service operation per request or command | service |
| Human review, `review.py` | the item's own state | `select_for_review`, `resolve_review` | service |
| Evaluator, `evaluation.py`, `policy.py`, `failures.py` | none | `evaluate_trace`: weighted checks, privacy check | service, benchmark, replay |
| Judge, `judging.py` | attempt counter of a call | privacy gate, provider call with retries | provider |
| Calibration, `calibration.py` | manifest files | agreement of labels and judge | service's export |
| Optimization records, `optimization.py` | none | feedback, reward, Agent Lightning event | service |
| Benchmark runner, `deepresearch_benchmark.py` | `trials/<task>/<trial>/*.json`, `benchmark-report.json` | run trials, poll, cancel, capture, score, report, rescore | target over HTTP, target's SQLite file, claim judge |
| Claim evidence, `claim_evidence.py` | none | `verify_deepresearch_claims`, batch judge with retries | benchmark |
| Snapshot exporter, `adapters/deepresearch.py` | none | export one run, normalize it | target's SQLite file |
| OTLP, `otlp_http.py`, `adapters/openinference.py` | bytes read so far | bounded body, bounded gzip, decode | API |
| Replay, `replay.py` | seen trace ids, bytes read | run tasks against an agent, evaluate | agent |
| GEPA, `gepa_runtime.py` | observed and duplicate trace ids, budget | experiment, validation | replay, reflection model |
| Stability, mining, curation, `stability.py`, `mining.py`, `curation.py` | files | paired trials in turn, round-robin selection, resolutions of hard cases | GEPA report, stability reports |
| Regression loop, `deepresearch_regression.py` | challenge manifest and report, two files | cluster, select, compare under a policy | benchmark reports |
| Readiness, `readiness.py` | none | audit of a report and its design artifacts under a policy | all artifacts |
| Fault suite, `fault_injection.py` | none | break a snapshot in a known way, evaluate it | evaluator |
| Tool trajectory and annotation, `tool_trajectory.py`, `annotation_workflow.py` | annotation queue, two manifests | build benchmark, bind snapshots to expectations, score | reviewers, benchmark reports |
| WasmHatch batches, policies, comparisons, `batch.py`, `policy.py`, `comparison.py`, `batch_comparison.py` | files | evaluate entries, apply a policy, compare two batches | evaluator |
| Datasets, `datasets.py` | none | run the files of a dataset, match expectations | evaluator |

What is hard in it:

- **Concurrency.** `api.py` declares its endpoints with `def`, so requests run on a thread pool
  over one database; `POST /v1/traces` imports on the event loop beside it, and the CLI opens the
  same file from other processes. Every service
  operation is several transactions, and nothing holds a lock from the first to the last.
- **Staleness.** Rows are read in one transaction and used in a later one; the newest row is
  found by a clock; a judge answers minutes after what it judges was read.
- **Crashes.** A process may die between two commits, or between two files of a trial; a
  benchmark may be started again in a directory that holds the remains of an earlier start.
- **An uncontrolled peer.** The target of a benchmark may end a run at any time or never, ignore
  a cancellation, and lose a request or an answer.
- **Uncontrolled answers.** An agent endpoint may stream without end or send a trace it sent
  before; a provider may fail, answer nothing, or answer about something else.
- **Files replaced.** The tools hand each other files, which others may write meanwhile: an
  artifact is read twice, a first half of a pair of files survives a failure of the second.
- **Agreeing counts.** Several tools count the same facts in code of their own: duplicates,
  recoveries, passes, safety failures.
- **Sequences.** Recheck, forced sample, resolve, export, import again: legal calls whose long
  combinations no test enumerates.

What makes each part correct: the store's reviews are bound to exact evidence, unique, and
decided once; what is served together describes the same run; what a judge is sent has passed the
privacy check; a benchmark's results are founded on runs of its own, a timeout stays a
timeout, its report is final and it ends; a candidate scores and is promoted only on traces
nobody had seen; a verdict - promoted, ready, passed - is backed by what its report counts, and
every job ends. Where calls overlap the code does not keep all of this: see the runs marked
*finding* below. `PROJECT.json` lists each hazard with its line.

## Modules

| Module | Models | Role |
|---|---|---|
| `ReviewSelection` | `review.py` | pure operators: reasons, priority, pairing, resolution |
| `TraceStore` | `storage.py` | the four tables and each method as a transaction |
| `TraceService` | `service.py`, its callers in `api.py` and `cli.py` | workers interleaving step by step on the store; EXTENDS `TraceStore` |
| `ReviewLedger` | what `docs/human-review.md` promises | abstract specification |
| `TraceServiceProofs`, `ReviewLedgerProofs`, `AgreementProofs` | | theorems; each EXTENDS the one before |
| `TrialScoring` | gates and verdict of one trial | pure operators |
| `BenchmarkRunner` | `DeepResearchBenchmarkRunner`, `rescore_deepresearch_benchmark` | process, target, files; EXTENDS `TrialScoring` |
| `BenchmarkProofs` | | theorems |
| `Replay` | `replay.py` | a manifest's tasks against an agent endpoint |
| `GepaExperiment` | `gepa_runtime.py`, `stability.py` | engine, evaluations, report, the two gates; EXTENDS `Replay` |
| `GepaExperimentProofs` | | theorems |
| `Job` | | the frame of a tool: a record `job` with a program counter |
| `ProviderCall` | the attempt loops of `judging.py`, `claim_evidence.py`, `gepa_runtime.py` | one call of any of four clients |
| `HardCases` | `mining.py`, `curation.py` | round robin, then resolutions |
| `Readiness` | `readiness.py` | the audit, check by check |
| `TraceRules` | `evaluation.py` over `adapters/wasmhatch.py` and `adapters/deepresearch.py` | pure operators: the rules |
| `FaultSuite`, `Batches`, `ToolTrajectory` | `fault_injection.py`; `batch*.py`, `policy.py`, `comparison.py`; `tool_trajectory.py`, `annotation_workflow.py` | tools that EXTEND `TraceRules` |
| `RegressionLoop` | `deepresearch_regression.py` | challenge set, comparison |
| `Calibration` | `calibration.py` | judges against human labels |
| `OtlpBody` | `otlp_http.py` | reception of one body |
| `Commands` | `cli.py` | every command as its work, refusals, writes and exit status |
| `Tools` | | one job of any of the tools |
| `ToolsProofs`, `VerdictProofs` | | theorems about jobs: what a tool promises, what a report may claim |
| `LibraryLemmas` | | facts of arithmetic, sums and induction that the proof modules share |
| `MCTraceService`, `MCBenchmarkRunner`, `MCGepaExperiment`, `MCTools` | | finite constants for TLC |

### TraceService

`tables` are the four tables; a row's position stands for its uuid. `job[w]` holds the locals of
the call that worker `w` executes, with `pc` naming its next step; each step is at most one
database transaction. `content` of an evaluation or a judge report records which payload it was
computed from: the code keeps no such column, the properties need it.

| Operation | Steps (`pc`) |
|---|---|
| `_save_and_evaluate`, per trace | `save_read` (SELECT), `save_commit` (INSERT or UPDATE), `evaluate` (clock), `save_evaluation` |
| `judge_trace` | `judge_trace`, `judge_evaluation` (reads), `call_provider`, `save_judge_report`, then `queue_review` |
| `queue_review` | `queue_evaluation`, `queue_judge`, `find_review`, `select_review` |
| `resolve_review_item` | `resolve_read`, `resolve_save` |
| `export-review-calibration` | `export_exists`, `export_list`, `export_write` |
| feedback, reward, event | `derive_trace`, `derive_evaluation`, `derive` |

`save_trace` is two steps because its SELECT and its COMMIT are: an INSERT of a row that has
appeared meanwhile violates the primary key, and an UPDATE writes only the columns that differ
from the row loaded. `created_at` is read from a clock that need not move (`ClockSteps`), so ties
happen and a newest-first read may return any row that ties. `Crash` ends a call anywhere; it
also stands for a database call that raises. Abstracted: a payload is a model value that passes,
fails, or fails the privacy check; a judge's five scores are the bit selection reads; notes are
short or longer than a calibration label allows.

### BenchmarkRunner

`job` is the benchmark process (`pc`, current run, polls waited, results so far), `runs` the
target's runs, `artifacts` the two files per trial the verdict depends on, `report` the written
report, `rescored` one rescored report. A retained snapshot is a status and a bit `clean`:
whether every gate computed from the snapshot alone holds. Time is counted in polls. The target
and its cancellation are external: `RunEnds` may end a run with any status at any time, and
`clean` requires the expected one. Requests, exports and writes fail within `MaxFaults`, before
or after taking effect; so does the process, which loses `job` and keeps the files. What the code
does not catch (`sqlite3.Error` from the exporter, `OSError` while writing the report) is a
`Crash` as well. `ClaimReports` without a judge stands for both "none configured" and "it gave
up": the code records the same report for both.

The normalized trace and evaluation files are functions of the snapshot and are written with it.
A rescore "with claims" reads the runner's own `claim-evidence-report.json`; the file name is an
argument in the code.

### Replay and GepaExperiment

`replay` is the replay under way: its tasks, what each came to, the traces captured and how much
of the current response has been read, in chunks. `named` counts the trace ids the endpoint has
used; a response names one of them or the next. `observed` and `reused` are the two sets
`_evaluate_candidate` closes over, `evaluations` the list it appends to, `report` the experiment's
report. The GEPA engine is external: `EngineEvaluates` asks for its seed first and then for any
candidate, `EngineReturns` for any of the best. A gate is another process: `StartGate` takes over
nothing but what the report says. Scores are in 1/10000, the Wilson bound is cleared of its root
and its fractions (`WilsonAtLeast`) so that it is exact.

A trace id that repeats makes a whole evaluation worthless, within a replay as well; the model
keeps the code's order, in which the score is computed before the ids are remembered.

### The tools

The other tools run in processes of their own and share no memory, so `Tools` has one variable,
the `job` under way, and a behaviour is one job of one tool. Each module has its `Init`, one action per step at
which the code can fail, choose or be overtaken, and a `Next`.

- `ProviderCall`: attempts, and what ends each. The clients differ in what they do with an answer
  that does not conform; `Malformed` keeps the differences. Claims go out in batches, and
  `WithinPacket` is the check that an answer cites what its packet held.
- `HardCases`: one bucket per failure signature, one case from each in turn, two limits; then
  the reviewers' (external) resolutions, complete or (`require_complete` off) of some cases, or
  about another data set, accepted or refused as a whole.
- `Readiness`: every check is `pass`, `fail` or `unknown`, required or advisory. The design
  artifacts are read twice, with `ReplaceArtifact` (external) in between.
- `TraceRules`: adapter and rules taken together, so that a rule is stated of the journal or the
  snapshot itself. A rule passes, fails or does not apply.
- `FaultSuite`: each fault as the change it makes to a snapshot, and the refusal of a directory that
  has a report. A fault counts as detected if every check its case expects fails - the one of its
  type, unless the manifest names others - also when the unbroken snapshot already failed it. The copy of a call is
  refused where a call has its id already, as in a snapshot the same fault was injected into. That
  no evidence has the id of the injected citation is an assumption on the snapshots.
- `Batches`: two batches entry by entry, the policy, the comparison.
- `RegressionLoop`: clusters, the greedy selection, the sentinels, the two files, the comparison. A
  cluster is the set of its places in the report; what it adds are the tasks of the first trials of
  each, in report order (`Nth`), up to both limits. Of several trials of one task and number in a
  report the comparison sees the last (`LastTrials`), and means, deltas and ratios are rounded to
  four decimals before they are compared, as in the code (`Rounded`).
- `ToolTrajectory`: the two manifests an annotation queue goes through, with reviewers at work in
  between, and the scoring of each case. A case is known by its trial's place in the report.
- `Calibration`: coverage, agreement, kappa, review rate and error of each judge, compared as
  fractions before the code rounds them: with more than 20000 cases rounding could hide one.
- `OtlpBody`: chunks until a limit, one decompression under another.
- `Commands`: a command is a sequence of work, refusals, saves and an exit; somebody may give it
  again with the files that are left.

## Runs

| Run | Instance | Shows |
|---|---|---|
| `service_interleaved` | 2 workers, 1 trace under 3 payloads, 4 requests | `ReadsStayValid`, `ReviewBoundToEvidence`, `NeverReopened` in every interleaving |
| `service_sequential` | 1 worker, 6 operations, 5 requests, 1 crash | what holds of calls one after the other, and that the reviews implement `ReviewLedger` |
| `service_liveness` | 2 workers, exports of 2 traces, 3 requests | every call returns; whatever payload is stored is evaluated |
| `benchmark` | 2 trials, 1 fault, timeout and grace of 1 poll | founded results, reported overlap, no captured pass, final report, and that it ends |
| `experiment` | 2 metric calls, 1 training task, 2 held-out tasks, 2 stability trials, traces that pass or leak, responses of 1 chunk | scores are earned, promotions rest on unseen traces, the report remembers, trials alternate, every stage ends |
| `tools` | one job of each tool over small inputs (`MCTools`) | grounded answers, shared queues, whole curations, warranted readiness, sound trajectories, earned calibrations, no regression promoted, faults detected, bodies bounded, exit statuses that tell the verdict, challenge reports beside their manifests, and that jobs end |
| `duplicate_review` | 2 workers | finding: one evidence tuple gets two reviews |
| `second_resolution` | 2 workers | finding: a decision is replaced |
| `served_pair` | 2 workers | finding: newest evaluation of a payload that is not stored |
| `partial_export` | 2 workers, 2 traces | finding: a refused export leaves a trace behind |
| `stale_gate` | 2 workers, 3 payloads | finding: a payload that fails the privacy check is sent to a judge, behind the evaluation of another |
| `rescored_timeout` | 1 trial | finding: a timed-out trial passes when rescored |

A run marked *violation* states a sentence of the documentation that the code does not keep; the
counterexample is the run's result, and `PROJECT.json` quotes the sentence. Four more properties are
stated in the modules and refuted when they are checked alone; they are left out of the runs
because the first and the third repeat a race that is shown and the other two need little search.

| Property | Constants, as changed | What TLC shows |
|---|---|---|
| `DerivedPairAgrees` | `service_interleaved`, operations import and derive | an import between the two reads of a derived record: it is built from a payload and the evaluation of another (`service.py:87`) |
| `ResolvedIsExportable` | `second_resolution`, 1 worker, export as well, `Resolutions <- AnyNotes`, `Versions = {v1}` | notes of up to 4000 characters are accepted (`review.py:40`), a label holds 2000 (`calibration.py:30`): one long note blocks every export |
| `ExportReplacesNothing` | `second_resolution`, export as well, `Versions = {v1}`, 5 requests | two exports to one path both find it free, and the later replaces the labels of the earlier (`cli.py:935`); `docs/human-review.md:81-83` says the command refuses to overwrite |
| `ReadIsBound` | `tools` | an artifact replaced between the audit's two reads is judged by content the manifest does not bind (`readiness.py:318`); `docs/evaluation-readiness.md:58` says the binding proves which exact record was used |

**Bounds, and why they are enough.** Each race needs two workers on one trace, and a third could
only repeat what one of the two does. Four requests are import, judge, recheck and resolve, in any
order and with imports in between; five add the export. Two clock steps, zero and one, are a tie
and an order. One crash is enough for any single half-done call; the calls after it are the
retries. In the benchmark two trials are what overlap needs, one fault places a lost answer, a
failed write or a death at every step, and a death leaves room for a second start in the same
directory; one poll of patience tells waiting from expiring. `service_sequential` runs one
worker on purpose: `QuiescentAgreement`, `OneReviewPerEvidence` and the ledger's single decision
are false of two, which the violation runs show. Properties about what may happen between two
reads, or between a check and a write, are only checked with two workers, in
`stale_gate`, `duplicate_review` and `second_resolution`; with one they would restate a guard.

In `experiment` two metric calls are a seed and a challenger, either of which may repeat a trace
of the other, of itself or, in a gate, of the experiment; two held-out tasks let one replay repeat
its own; two trials are what alternating needs; a limit of one chunk is exceeded by the second.
In `tools` the inputs are few records of each kind, chosen so that each rule, limit and tie is
met: two buckets that run dry in different rounds, a queue filled in the middle of one, a policy
that requires everything and one that requires next to nothing, reports with up to two things
wrong at once, commits before, after and without their approval, journals of a batch with one
scenario missing, calls at the same moment, judges who always say the same, bodies at both
limits and one above.

`ReadyIsWarranted` says what an audit calls ready: every check its policy requires passed, of the
digests and of the contents that were read - the dataset review approves every task, the
references solve what is asked, the calibration is of the pinned judge. That the content read is
the content digested is another matter, `ReadIsBound`, and false: somebody may replace the file in
between. `TrajectoriesAreSound` says that a case which passes without tolerance
also passes the evaluator's rules on duplicates and recovery, which count both in another way,
and shows the expected tools in order, stated as an embedding. `CalibrationIsEarned` says that no
judge passes a positive kappa by always saying the same, and that full coverage and agreement
leave no case out. `ReportHasItsManifest` says that of the two files of a challenge the report
only ever stands beside the whole manifest of the same attempt, however often the command fails and is
given again; a manifest that a failure left alone stays alone, which the code permits. `PromotionsDoNotRegress`
joins those of the batches and of the regression loop.

`CHECK_DEADLOCK` is on everywhere: `Done`, `Stopped`, `Terminated` and `Ended` are the states in
which a system may stop.

**Fairness.** `TraceService` assumes weak fairness of each worker's own steps: threads and
processes are scheduled, and a provider call ends because it has a timeout and a bounded number
of attempts. No caller has to ask for anything. `BenchmarkRunner` assumes weak fairness of the
process's steps, because each request has its own timeout; nothing is assumed of the target, so
`BenchmarkEnds` covers the one that never ends a run. `GepaExperiment` assumes weak fairness of
`Work`, the steps of the one process and of a client with timeouts; nobody has to take a report to
a gate. The engine is bounded by its metric calls, not by fairness. `Tools` assumes it of
`ProgramSteps`, which leaves out whatever is up to others: the next chunk of a body (a client may
be silent for ever, and `JobsEnd` says so), a replaced artifact, a reviewed queue, a command given
again.

## Proofs

`TraceServiceProofs` proves, for any number of workers, traces, payloads and requests, that
`Invariant` is inductive, and from it `TypeOK`, `ReadsStayValid` and `ReviewBoundToEvidence`. The
last is not inductive alone: that an item saved now is bound to what it names depends on what the
call read several steps ago. The same holds of the part `GateWasOpen`, that every judge report names
an evaluation whose privacy check passed. It does not make `JudgedBehindPrivacyGate` true, that
the payload sent passed it: trace and evaluation are read apart. `JudgmentsPassedTheGate` proves
it, for every interleaving, under the hypothesis `AlikeInPrivacy`: a trace id that is ever sent with a
safe payload is never sent with a leaking one. The run `stale_gate` shows that this is needed.
`ReadsStayValid` states what each call remembers and the store must still satisfy; it is stable
because result tables only grow (`Grows`) and a review keeps its evidence under an upsert.

`ReviewLedgerProofs` proves `NeverReopened` for any number of workers. Under the hypothesis
`OneWorker` it proves `ChecksStayTrue` (what a call checked before it writes still holds when it
writes; a lemma here, as it says little else) and from it `OneReviewPerEvidence`,
`ResolvedExactlyOnce` and the refinement of `ReviewLedger`. The hypothesis is necessary: `duplicate_review` and
`second_resolution` are its counterexamples with two workers. The code behaves like the ledger
exactly when calls about reviews do not overlap.

`BenchmarkProofs` proves, for every plan, timeout, grace period, judge and number of faults, type
correctness and all the safety properties the run `benchmark` checks: `ResultsAreFounded`,
`OverlapIsReported`, `CapturedNeverPasses`, `BoundsCoverPasses`, `RescoreUsesOwnClaims` and
`ReportIsFinal`. Its inductive invariant adds what each of them is blind to: `Memory`, what the
process knows at each step of the run it started; `RunsInOrder`, that a start has one run per
trial, in order, or has charged the trial to the runner; and that a process which still writes
artifacts has no report yet, from which finality follows. A run that has ended does not change
(`RunsKept`), and only the trial under way gets new files (`FilesOfTrial`): with these two, what
a result was founded on stays.

`AgreementProofs` is about calls that do not overlap: under `OneWorker` and `ClockMoves` (two
readings of the clock differ) it proves `QuiescentAgreement`, `ReportedIsQueued` and `ImportLeavesAgreement`, and under `OneWorker` alone `LabelsAreDecisions`.
The first hypothesis is needed because of the run `served_pair`, the second because the newest row
is found by its date alone: on a tie an older evaluation may be served. The invariant says that
rows are dated in the order they were inserted, and which single step of an import
(`Unevaluated`) lets a trace and its newest evaluation differ. A crash there is remembered in the
model, which is why an import that succeeds afterwards repairs it.

`GepaExperimentProofs` proves every safety property the run `experiment` checks, for every set of
candidates, budget, policy, task list and response limit, along three invariants that rest on each
other. `GInv` ties what the process has observed to what it evaluated and was handed, and a replay
to the stage that began it; a replay without duplicates and with as many traces as tasks names
each trace once (`FreshTraces`, by a bijection): this gives `ScoreIsEarned` and
`ReportRemembersTraces`. `GateInv` counts in the gates: whose turn it is after so many evaluations
(quotients by a number of samples that is a symbol), and how often each side was unsafe. From it
follow `TrialsAlternate` and `PromotionIsEvidenced`. The bound on unsafe evaluations in
`PromotionIsEvidenced` holds for any number of samples because a sample in which the winner is
unsafe is one in which the baseline was, or one the policy counts as a regression. `TypeInv`
bounds the sum of rewards by the number of traces, so a score, their mean, is a number of the unit
interval: `TypeOK`.

`LibraryLemmas` holds what these proofs share. The induction theorems of the library take an
operator, which no installed prover can instantiate; `CountUp` states induction over the *set* of
numbers that have a property, and `SumExists`, `SumIsBounded` and `SumOfOne` are proved with it
about `MapThenSumSet`, the sum of the community modules.

`ToolsProofs` first shows that a job only ever takes steps of its own tool (`OneTool`), so that
each tool can be reasoned about alone. Then it proves `ExitTellsVerdict` (an invariant over the
sequence of operations of any command: what was saved is behind the program counter, and every
exit status is reached on a path that means it), `AnswersAreGrounded` (verdicts accumulate batch by
batch, each claim once, citing its own evidence; as many distinct claims as can be graded are all
of them) and `BodyIsBounded` for all limits and chunk sizes.

`VerdictProofs` proves what the reports of the other tools may claim:

- `QueueIsShared`: every bucket that is not exhausted has given `round` cases or one more, and the
  buckets share no case; `CurationKeepsTasksTogether`: kept and rejected cases partition those
  decided, each counted once, which is the whole queue where adjudication has to be complete.
- `ReadyIsWarranted`: the checks that were taken stay in the list, and each one that passed says
  something about the bundle or about an artifact as it was when that check read it.
- `PromotionsDoNotRegress`: the results of a batch follow its entries one by one; a promoted
  comparison then leaves no rule of safety failed, because a score of 100 per cent or a category
  that is not forbidden would contradict the rules. For benchmark reports no such history is
  needed: the verdict is a function of the two reports.
- `CalibrationIsEarned`: for a judge who says one thing in all cases, the agreement expected by
  chance equals the agreement observed, so kappa is no more than zero.
- `TrajectoriesAreSound`: the greedy match of `OrderedSubset` is an embedding; a count of
  duplicates of zero, a sum over groups of equal calls, means that no call repeats another.
- `ChallengeCoversFailures`: the `k`-th of some places is the one with `k - 1` before it
  (`NthIs`, `EveryPlaceIsNth`), so a cluster adds distinct tasks, and one at least unless it is
  covered; clusters are taken in order, so none that is left has more safety failures than one
  that was taken.
- `FaultsAreDetected`: for each fault of which the check of its type is expected, the broken snapshot
  fails that check. For lost links the events
  that are left are in their old order, so the first tool event after a decision is the first
  failure that was after it (`LinkWithout`): the link is kept exactly if `LinkSurvives` says so.

Proving showed two things about the model, which were changed: the bound of an earlier
`PromotionIsEvidenced` on unsafe evaluations was true of the instance only (two samples), and
properties that speak of values of the code's conditions (a measured level, a policy's number)
needed the types the code gives them, which are now assumptions that TLC evaluates on every run.

The assumptions are those the modules name: types of the records that are read, ids that are
unique where a validator of the code refuses others, payload sets that nest, batches that name a
trace once, plans that are not empty, and a `None` that is no other value.

Only model-checked are the five liveness properties, `EveryCallReturns`, `StoredIsEvaluated`,
`BenchmarkEnds`, `StagesEnd` and `JobsEnd`, because fairness and ENABLED are out of the prover's
reach, and `ReportHasItsManifest`. Every other
safety property that a passing run checks is a theorem, those of `service_sequential` that
concurrency breaks under the hypothesis of one worker.

## Details worth knowing

What the models settled about the code without a property being about it:

- Mining with candidate failures excluded still takes a failing candidate as a score regression
  or a resolved failure, and a sample that failed only because its trace was reused has the
  signature of a failed expectation. A task may be in the guards and in the training cases.
- The validation and the stability gate know the experiment's traces and not each other's: two
  validations of one winner may use the same held-out traces.
- `improved` compares the best score with the first score of the seed; an engine that scores its
  seed twice can report its own seed as an improvement.
- A hybrid run with evidence always fails source isolation, as its evidence is `web` or `graphrag`.
- `duplicate_tool_calls_absent` is in no failure category and falls under *other*.
- `tool_trajectory.py` counts a failed call as recovered only if a later call of its task
  completed; `docs/tool-trajectory-evaluation.md` also promises the other two ways the evaluator
  knows (a confirmed recovery, a verified outcome). So a trajectory is stricter than the rule, in
  the direction `TrajectoriesAreSound` states.
- Binding a case to accepted domains asks for one piece of evidence from them, also where its
  draft asked for more.

## Plan

Done: the store, the service, the benchmark; the provider loops, replay and experiment, the body,
the rules and the offline tools; the proofs of their safety properties. What could follow:

1. The part of `AgreementProofs` that survives concurrency: with any number of workers, whether a
   served pair can only disagree while two calls on that trace overlap.
2. An abstract specification of the fairness of the round robin, with `HardCases` shown to
   implement it.
3. A tool that is left out, `datasets.py`, as the loop over files it is.

## Not modelled

- Data classes, rendering, argument parsing and configuration (`models.py`, `reporting.py`,
  `main.py`, the parser of `cli.py`): mistakes there a unit test finds.
- Text: prompts and their truncation inside a span, redaction of secrets, segmentation of claims
  and matching of citations, error hints, credential patterns. A secret is a bit of a trace.
- The OTLP attribute decoding and the SQL of the snapshot exporter: conversions between formats.
- Numbers that no verdict depends on: means and percentiles of reports, confusion matrices,
  pairwise agreement between judges, localization hints.
- The files of retained mutants of a fault suite: only the report is looked for, and written last.
- Traces of producers other than WasmHatch and DeepResearch are payloads of the service and not
  looked into by `TraceRules`.

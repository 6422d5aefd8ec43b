------------------------------ MODULE Readiness ------------------------------
(***************************************************************************)
(* audit_deepresearch_evidence (readiness.py): whether a benchmark report  *)
(* may be used for what a policy intends.  Every check passes, fails or is *)
(* unknown, and is required or advisory.                                   *)
(*                                                                         *)
(* The design artifacts a manifest binds are read twice, once for their    *)
(* digest and once for what they say; somebody may replace them meanwhile. *)
(***************************************************************************)
EXTENDS Job, Integers, Sequences, FiniteSets, SequencesExt

CONSTANTS
  AuditTasks,        \* the manifest's tasks: [expects, contract] by task id
  AuditTrials,       \* trials_per_task
  Policies,          \* bound: the policies that are applied
  Bundles,           \* bound: the reports and artifacts that are audited
  Replacements,      \* bound: what an artifact may be replaced with
  MaxReplacements    \* bound: how many artifacts are replaced during an audit

\* Numbers the policy bounds from below, in percent or as a rank; None where the
\* report or the manifest says nothing.  The error rate counts as 100 minus it,
\* and a value from a list of allowed ones as 100 or 0.
AlwaysRequired ==
  {"execution.completion_rate", "execution.error_rate", "statistics.task_count",
   "statistics.trials_per_task", "statistics.pass_rate_lower_bound", "evidence.class"}
Measured ==
  {"statistics.evidence_supported_pass_rate_lower_bound", "quality.semantic_coverage",
   "quality.task_acceptance_coverage", "quality.judge_separation"}
Declared ==
  {"design.reference_solution_coverage", "design.outcome_grader_coverage",
   "design.transcript_review_count", "design.production_case_count",
   "design.suite_kind", "design.dataset_review", "environment.isolation"}
Bounded == AlwaysRequired \cup Measured \cup Declared

\* What the manifest or the report records or does not.
Recorded ==
  {"reproducibility.target_revision", "quality.judge_calibration",
   "environment.fingerprint", "environment.resource_profile"}

\* The design artifacts, in the order of the audit.
Artifacts == <<"dataset_review", "reference_solution", "judge_calibration">>

Judges == {"pinned judge", "other judge"}

Artifact ==
  [declared : BOOLEAN,                        \* path and digest, named together or not at all
   file : {"escapes", "missing", "not JSON", "no object", "object"},
   digest : BOOLEAN,                          \* it is the declared one
   tasks : SUBSET DOMAIN AuditTasks,          \* approved, or solved, one by one
   judge : Judges, approved : BOOLEAN]        \* its own verdict and header fields

Trial ==
  [task : STRING, trial : Nat, completed : BOOLEAN, trace : Nat \cup {None},
   files : {"retained", "unrecorded", "missing", "invalid", "unsafe"},
   contract : BOOLEAN]                        \* bound to the manifest's contract

Bundle ==
  [manifest_match : BOOLEAN, consistent : BOOLEAN, completed : BOOLEAN,
   level : [Bounded -> 0..100 \cup {None}], recorded : [Recorded -> BOOLEAN],
   pinned : Judges \cup {None}, judge : Judges \cup {None},
   trials : Seq(Trial), artifacts : [ToSet(Artifacts) -> Artifact]]

\* requires: the checks and artifacts that the policy's switches require.
Policy == [min : [Bounded -> 0..100], min_statuses : 1..2, requires : SUBSET STRING]

ASSUME AuditAssumption ==
  /\ DOMAIN AuditTasks # {} /\ IsFiniteSet(DOMAIN AuditTasks) /\ AuditTrials \in Nat \ {0}
  /\ \A t \in DOMAIN AuditTasks :
       AuditTasks[t] \in [expects : {"completed", "needs_user_input"}, contract : BOOLEAN]
  /\ MaxReplacements \in Nat
ASSUME BundleAssumption ==
  Bundles \subseteq Bundle /\ Policies \subseteq Policy /\ Replacements \subseteq Artifact

-----------------------------------------------------------------------------
\* _check: what is neither true nor false is unknown.

LenientStatus(passed) == IF passed = FALSE THEN "fail" ELSE "pass"  \* a bug

Status(passed) ==
  IF passed = None THEN "unknown" ELSE IF passed = TRUE THEN "pass" ELSE "fail"

Check(id, passed, required) == [id |-> id, status |-> Status(passed), required |-> required]

\* A number that was not measured is neither enough nor too little.
AtLeast(level, minimum) == IF level = None THEN None ELSE level >= minimum

Requires(id) == id \in job.policy.requires

-----------------------------------------------------------------------------
\* The checks of the report and of the manifest's declarations.

Pairs == (DOMAIN AuditTasks) \X (1..AuditTrials)

TrialsOf(pair) ==
  {i \in DOMAIN job.bundle.trials :
     <<job.bundle.trials[i].task, job.bundle.trials[i].trial>> = pair}

\* Every planned pair once, and no other.
MatrixComplete ==
  /\ \A pair \in Pairs : Cardinality(TrialsOf(pair)) = 1
  /\ Len(job.bundle.trials) = Cardinality(Pairs)

CompletedTrials ==
  {i \in DOMAIN job.bundle.trials : job.bundle.trials[i].completed}

TracesDistinct ==
  \A i, j \in CompletedTrials :
    /\ job.bundle.trials[i].trace # None
    /\ job.bundle.trials[i].trace = job.bundle.trials[j].trace => i = j

\* The pinned judge is the one that graded.
JudgeIdentityMatches == job.bundle.pinned # None /\ job.bundle.pinned = job.bundle.judge

Answerable == {t \in DOMAIN AuditTasks : AuditTasks[t].expects = "completed"}
Contracted == {t \in Answerable : AuditTasks[t].contract}
Clarifications == DOMAIN AuditTasks \ Answerable

Share(tasks, all) == IF all = {} THEN 100 ELSE (100 * Cardinality(tasks)) \div Cardinality(all)

GraderCoverage == Share(Contracted \cup Clarifications, DOMAIN AuditTasks)

\* A declared coverage must not exceed what the tasks can be graded on.
NotOverstated(id, coverage) ==
  job.bundle.level[id] = None \/ job.bundle.level[id] <= coverage

BoundTrials ==
  {i \in DOMAIN job.bundle.trials : job.bundle.trials[i].task \in Contracted}

ContractsBound(required) ==
  IF required /\ BoundTrials = {} THEN None
  ELSE \A i \in BoundTrials : job.bundle.trials[i].contract

\* _artifact_check over every trial's snapshot, evaluation, trace and claim report.
ArtifactsRetained ==
  \A i \in DOMAIN job.bundle.trials : job.bundle.trials[i].files = "retained"

StatusBalance ==
  Check("design.expected_status_balance",
        Cardinality({AuditTasks[t].expects : t \in DOMAIN AuditTasks})
          >= job.policy.min_statuses,
        job.policy.min_statuses > 1)

IntegrityChecks ==
  {Check("integrity.manifest_digest", job.bundle.manifest_match,
         Requires("integrity.manifest_digest")),
   Check("integrity.report_manifest_consistency", job.bundle.consistent, TRUE),
   Check("integrity.trial_matrix", MatrixComplete, TRUE),
   Check("execution.report_completed", job.bundle.completed, TRUE),
   Check("trace.unique_completed_ids", TracesDistinct, Requires("trace.unique_completed_ids")),
   Check("artifacts.retained_and_readable", ArtifactsRetained,
         Requires("artifacts.retained_and_readable"))}

ThresholdChecks ==
  {Check(id, AtLeast(job.bundle.level[id], job.policy.min[id]),
         id \in AlwaysRequired \/ job.policy.min[id] > 0)
     : id \in AlwaysRequired \cup Measured}

\* A declaration nobody asks for is not applicable, or as good as passed.
DeclaredChecks ==
  {Check(id, IF job.policy.min[id] = 0 THEN TRUE
             ELSE AtLeast(job.bundle.level[id], job.policy.min[id]),
         job.policy.min[id] > 0) : id \in Declared}

RecordedChecks ==
  {Check(id, Requires(id) => job.bundle.recorded[id], Requires(id)) : id \in Recorded}
  \cup {Check("reproducibility.claim_judge_identity",
              Requires("reproducibility.claim_judge_identity") => JudgeIdentityMatches,
              Requires("reproducibility.claim_judge_identity"))}

ContractChecks ==
  LET minimum == job.policy.min["quality.task_acceptance_coverage"]
      graded == job.policy.min["design.outcome_grader_coverage"]
  IN  {Check("design.task_acceptance_contract_coverage",
             Share(Contracted, Answerable) >= minimum, minimum > 0),
       Check("integrity.task_acceptance_contract_binding",
             ContractsBound(minimum > 0), minimum > 0),
       Check("design.executable_outcome_grader_coverage",
             /\ GraderCoverage >= graded
             /\ NotOverstated("design.outcome_grader_coverage", GraderCoverage), graded > 0)}

-----------------------------------------------------------------------------
\* The design artifacts.

\* _bound_design_artifact_check
ArtifactBound(a, required) ==
  IF ~a.declared THEN IF required THEN None ELSE TRUE
  ELSE a.file = "object" /\ a.digest

ReviewApproves(a) == a.approved /\ a.tasks = DOMAIN AuditTasks

ReferencesSupport(a) ==
  LET coverage == Share(a.tasks, DOMAIN AuditTasks)
  IN  /\ a.approved
      /\ coverage >= job.policy.min["design.reference_solution_coverage"]
      /\ NotOverstated("design.reference_solution_coverage", coverage)

CalibrationPasses(a) == a.approved /\ a.judge = job.bundle.judge

\* The second read, by _load_bound_json_object, looks at no digest.
ContentApproves(name, a, required) ==
  IF ~a.declared \/ a.file # "object" THEN IF required THEN None ELSE TRUE
  ELSE CASE name = "dataset_review" -> ReviewApproves(a)
         [] name = "reference_solution" -> ReferencesSupport(a)
         [] OTHER -> CalibrationPasses(a)

DigestCheck ==
  [dataset_review |-> "design.dataset_review_artifact",
   reference_solution |-> "design.reference_solution_artifact",
   judge_calibration |-> "quality.judge_calibration_artifact"]
ContentCheck ==
  [dataset_review |-> "design.dataset_review_content",
   reference_solution |-> "design.reference_solution_content",
   judge_calibration |-> "quality.judge_calibration_content"]

-----------------------------------------------------------------------------
ReadinessInit ==
  \E bundle \in Bundles, policy \in Policies :
    job = [tool |-> "readiness", pc |-> "report", policy |-> policy, bundle |-> bundle,
           artifact |-> 1, replaced |-> 0, checks |-> {}, digested |-> << >>,
           result |-> None]

AuditReport ==
  /\ Running("readiness", "report")
  /\ job' = [job EXCEPT !.pc = "digest",
               !.checks = IntegrityChecks \cup ThresholdChecks \cup DeclaredChecks
                          \cup RecordedChecks \cup ContractChecks \cup {StatusBalance}]

Current == job.bundle.artifacts[Artifacts[job.artifact]]

CheckDigest ==
  /\ Running("readiness", "digest")
  /\ LET required == Requires(Artifacts[job.artifact])
     IN  job' = [job EXCEPT !.pc = "content",
                   !.digested = Append(@, Current.digest),
                   !.checks = @ \cup {Check(DigestCheck[Artifacts[job.artifact]],
                                            ArtifactBound(Current, required), required)}]

CheckContent ==
  /\ Running("readiness", "content")
  /\ LET name == Artifacts[job.artifact]
         required == Requires(name)
     IN  job' = [job EXCEPT
                   !.pc = IF job.artifact = Len(Artifacts) THEN "decide" ELSE "digest",
                   !.artifact = IF @ = Len(Artifacts) THEN @ ELSE @ + 1,
                   !.checks = @ \cup {Check(ContentCheck[name],
                                            ContentApproves(name, Current, required), required)}]

\* Somebody (external) stores another file under the path of an artifact; what
\* the manifest declares stays.  An artifact that was read twice is read no more.
ReplaceArtifact ==
  /\ job.tool = "readiness" /\ job.pc \in {"digest", "content"}
  /\ job.replaced < MaxReplacements
  /\ \E a \in {[r EXCEPT !.declared = Current.declared] : r \in Replacements} :
       /\ a # Current
       /\ job' = [job EXCEPT !.bundle.artifacts[Artifacts[job.artifact]] = a,
                             !.replaced = @ + 1]

Fundamental ==
  {"integrity.manifest_digest", "integrity.report_manifest_consistency",
   "integrity.trial_matrix", "integrity.task_acceptance_contract_binding",
   "execution.report_completed", "execution.completion_rate", "execution.error_rate",
   "evidence.class", "reproducibility.target_revision",
   "reproducibility.claim_judge_identity", "trace.unique_completed_ids",
   "artifacts.retained_and_readable", "environment.isolation", "environment.fingerprint",
   "environment.resource_profile", "design.expected_status_balance",
   "design.task_acceptance_contract_coverage",
   "design.executable_outcome_grader_coverage",
   "design.dataset_review_artifact", "design.dataset_review_content",
   "design.reference_solution_artifact", "design.reference_solution_content"}
  \cup (Declared \ {"environment.isolation"})

Blocking == {c \in job.checks : c.required /\ c.status \in {"fail", "unknown"}}

Decide ==
  /\ Running("readiness", "decide")
  /\ job' = [job EXCEPT !.pc = "ended",
               !.result = IF Blocking = {} THEN "ready"
                          ELSE IF \E c \in Blocking : c.id \in Fundamental
                               THEN "diagnostic_only" ELSE "hold"]

ReadinessNext == AuditReport \/ CheckDigest \/ CheckContent \/ ReplaceArtifact \/ Decide

-----------------------------------------------------------------------------
\* A verdict of ready never rests on evidence that is missing: what the policy
\* bounds was measured and suffices, no trial of the plan is absent or doubled,
\* completed trials have traces of their own, and an artifact the policy asks
\* for had its digest when that was taken.  What was read of it the second time,
\* whoever replaced it in between, says what the audit claims: the review
\* approves every task, the references solve as much as is declared and asked
\* for, and the calibrated judge is the one that graded.  What was read is what
\* the bundle holds in the end, since an artifact is not replaced after that
\* (docs/evaluation-readiness.md: missing evidence is never treated as a pass).
ReadyIsWarranted ==
  EndedWith("readiness", "ready") =>
    /\ \A id \in Bounded : job.policy.min[id] > 0 =>
         job.bundle.level[id] # None /\ job.bundle.level[id] >= job.policy.min[id]
    /\ \A pair \in Pairs : \E i \in DOMAIN job.bundle.trials : TrialsOf(pair) = {i}
    /\ Requires("trace.unique_completed_ids") =>
         Cardinality({job.bundle.trials[i].trace : i \in CompletedTrials} \ {None})
           = Cardinality(CompletedTrials)
    /\ \A k \in DOMAIN Artifacts : Requires(Artifacts[k]) => job.digested[k]
    /\ Requires("dataset_review") =>
         LET review == job.bundle.artifacts["dataset_review"]
         IN  review.approved /\ DOMAIN AuditTasks \subseteq review.tasks
    /\ Requires("reference_solution") =>
         LET solved == 100 * Cardinality(job.bundle.artifacts["reference_solution"].tasks)
             coverage == "design.reference_solution_coverage"
         IN  \A claimed \in {job.bundle.level[coverage], job.policy.min[coverage]} \ {None} :
               solved >= claimed * Cardinality(DOMAIN AuditTasks)
    /\ Requires("judge_calibration") /\ Requires("reproducibility.claim_judge_identity") =>
         LET calibration == job.bundle.artifacts["judge_calibration"]
         IN  calibration.approved /\ calibration.judge = job.bundle.pinned

\* What a verdict of ready rests on is the exact record the manifest binds: the
\* file whose content was read is the one with the declared digest
\* (docs/evaluation-readiness.md: the audit rejects SHA-256 drift, and the
\* binding proves which exact record was used).  A replacement between the two
\* reads refutes it: README.md.
ReadIsBound ==
  EndedWith("readiness", "ready") =>
    \A k \in DOMAIN Artifacts :
      Requires(Artifacts[k]) => job.bundle.artifacts[Artifacts[k]].digest
=============================================================================

--------------------------- MODULE ToolTrajectory ---------------------------
(***************************************************************************)
(* From an annotation queue to a trajectory report: the live-safe cases of *)
(* a queue become a benchmark (annotation_workflow.py), the snapshots of   *)
(* its trials are bound back to what the reviewers expect of each case,    *)
(* and tool_trajectory.py scores how every run went about its work.        *)
(*                                                                         *)
(* Between the two commands the benchmark (external) runs, and reviewers   *)
(* may go on with the queue.                                               *)
(***************************************************************************)
EXTENDS TraceRules

CONSTANTS
  Queues,             \* bound: the annotation queues, and what review makes of them
  TrialReports        \* bound: the trials of a benchmark report

\* The expectation of a case; mode is None without a required source mode.
Expectation ==
  [tools : Seq(STRING), ordered : BOOLEAN, extras : BOOLEAN, calls : Nat \X Nat,
   mode : STRING \cup {None}, domains : SUBSET STRING, min_domain : Nat,
   result : BOOLEAN, min_evidence : Nat, failed : Nat \X Nat, min_recovered : Nat,
   max_unrecovered : Nat, max_duplicates : Nat]

\* validate_review_status
QueueValid(queue) ==
  LET reviewed == {i \in DOMAIN queue.cases : queue.cases[i].reviewed}
  IN  /\ \A i, j \in DOMAIN queue.cases : queue.cases[i].id = queue.cases[j].id => i = j
      /\ queue.status = "unreviewed" => queue.annotators = 0 /\ reviewed = {}
      /\ queue.status = "human-approved" =>
           queue.annotators >= 1 /\ reviewed = DOMAIN queue.cases

\* ToolTrajectoryExpectation.validate_call_range
ASSUME DraftAssumption ==
  \A queue \in Queues : \A i \in DOMAIN queue.cases :
    LET e == queue.cases[i].draft
    IN  /\ e \in Expectation
        /\ e.calls[1] <= e.calls[2] /\ e.failed[1] <= e.failed[2]
        /\ e.min_recovered <= e.failed[2]
        /\ e.domains = {} => e.min_domain = 0

\* A trial may have left no snapshot.
ASSUME TrialAssumption ==
  \A report \in TrialReports :
    /\ \A i, j \in DOMAIN report :
         <<report[i].task, report[i].trial>> = <<report[j].task, report[j].trial>> => i = j
    /\ \A i \in DOMAIN report : report[i].snapshot \in RunSnapshot \cup {None}

-----------------------------------------------------------------------------
\* _evaluate_case.  The calls are those of the snapshot in the order of their
\* moments; ties are broken by the ids, in some fixed order of the calls.

InOrder(s) ==
  [k \in DOMAIN s.calls |-> s.calls[SetToSortSeq(DOMAIN s.calls,
     LAMBDA i, j : s.calls[i].at < s.calls[j].at \/ (s.calls[i].at = s.calls[j].at /\ i < j))[k]]]

Names(s) == [k \in DOMAIN InOrder(s) |-> InOrder(s)[k].tool]

AllOccur(expected, names) ==  \* a bug: the order is not looked at
  ToSet(expected) \subseteq ToSet(names)

\* How many of the expected names were met, taking each at its first chance.
OrderedSubset(expected, names) ==
  LET met[k \in 0..Len(names)] ==
        IF k = 0 THEN 0
        ELSE IF met[k - 1] < Len(expected) /\ names[k] = expected[met[k - 1] + 1]
             THEN met[k - 1] + 1 ELSE met[k - 1]
  IN  met[Len(names)] = Len(expected)

\* Each fingerprint counts as often as it occurs beyond the first time.
DuplicateCount(s) ==
  LET hashed == {i \in DOMAIN s.calls : s.calls[i].args # None}
      Key(i) == <<s.calls[i].task, s.calls[i].tool, s.calls[i].mode, s.calls[i].args>>
      Occurrences(key) == Cardinality({i \in hashed : Key(i) = key})
  IN  MapThenSumSet(LAMBDA key : Occurrences(key) - 1, {Key(i) : i \in hashed})

\* Only a later completed call of the task makes good for a failed one.
UnrecoveredFailures(s) ==
  {i \in DOMAIN s.calls :
     /\ s.calls[i].status \in {"failed", "cancelled", "denied"}
     /\ ~\E j \in DOMAIN s.calls :
          /\ s.calls[j].status = "completed" /\ s.calls[j].task = s.calls[i].task
          /\ s.calls[j].at > s.calls[i].at}

EvidenceOf(s, call) == {i \in DOMAIN s.evidence : s.evidence[i].call = call.id}

Grounded(e, s) ==
  LET completed == {i \in DOMAIN s.calls : s.calls[i].status = "completed"}
  IN  /\ \A i \in completed :
           /\ e.result => s.calls[i].result
           /\ Cardinality(EvidenceOf(s, s.calls[i])) >= e.min_evidence
      /\ completed # {} \/ (s.calls = << >> /\ e.calls[1] = 0)

RecoverySafe(e, s) ==
  LET failed == Cardinality(FailedCalls(s))
      unrecovered == Cardinality(UnrecoveredFailures(s))
  IN  /\ failed \in e.failed[1]..e.failed[2]
      /\ failed - unrecovered >= e.min_recovered
      /\ unrecovered <= e.max_unrecovered
      /\ DuplicateCount(s) <= e.max_duplicates

\* A case passes if every score is 1; a domain stands for its subdomains too.
CasePasses(e, s) ==
  LET names == Names(s)
  IN  /\ IF e.ordered THEN OrderedSubset(e.tools, names) ELSE ToSet(e.tools) \subseteq ToSet(names)
      /\ e.extras \/ ToSet(names) \subseteq ToSet(e.tools)
      /\ \A i \in DOMAIN s.calls : s.calls[i].args # None
      /\ s.calls = << >> => e.calls[1] = 0
      /\ Len(s.calls) \in e.calls[1]..e.calls[2]
      /\ e.mode # None => \A i \in DOMAIN s.calls : s.calls[i].mode = e.mode
      /\ Cardinality({i \in DOMAIN s.evidence : s.evidence[i].domain \in e.domains})
           >= e.min_domain
      /\ Grounded(e, s)
      /\ RecoverySafe(e, s)

-----------------------------------------------------------------------------
TrajectoryInit ==
  \E queue \in Queues :
    job = [tool |-> "trajectory", pc |-> "build", queue |-> queue, tasks |-> {},
           cases |-> << >>, eligible |-> FALSE, left |-> {}, passed |-> {}, result |-> None]

TrajectoryFails == job' = [job EXCEPT !.pc = "ended", !.result = "error"]

CaseIds(queue) == {queue.cases[i].id : i \in DOMAIN queue.cases}

\* Faults and manual cases are no part of an ordinary benchmark.
LiveSafe(queue) ==
  {queue.cases[i].id : i \in {j \in DOMAIN queue.cases : queue.cases[j].lane = "live-safe"}}

BuildBenchmarkManifest ==
  /\ Running("trajectory", "build")
  /\ IF QueueValid(job.queue) /\ LiveSafe(job.queue) # {}
     THEN job' = [job EXCEPT !.pc = "materialize", !.tasks = LiveSafe(job.queue)]
     ELSE TrajectoryFails

\* Reviewers (external) store another version of the queue.
ReviewQueue ==
  /\ Running("trajectory", "materialize")
  /\ \E queue \in Queues :
       /\ job.queue.status = "unreviewed" /\ queue.status # "unreviewed"
       /\ CaseIds(queue) = CaseIds(job.queue)
       /\ job' = [job EXCEPT !.queue = queue]

CaseOf(task) == job.queue.cases[CHOOSE i \in DOMAIN job.queue.cases : job.queue.cases[i].id = task]

\* With accepted domains one piece of evidence from them is asked for, however
\* many the draft asked for.
BoundExpectation(task) ==
  LET case == CaseOf(task)
      accepted == IF case.domains # {} THEN case.domains ELSE case.draft.domains
  IN  [case.draft EXCEPT !.domains = accepted,
                         !.min_domain = IF accepted # {} THEN 1 ELSE @]

\* Trials of unknown tasks and trials without a snapshot are skipped; the others
\* keep their places in the report.
Materialize ==
  /\ Running("trajectory", "materialize")
  /\ \E report \in TrialReports :
       LET bound == {i \in DOMAIN report :
                       report[i].task \in CaseIds(job.queue) /\ report[i].snapshot # None}
       IN  IF bound # {} /\ QueueValid(job.queue)
           THEN job' = [job EXCEPT !.pc = "score",
                  !.eligible = job.queue.status = "human-approved",
                  !.left = bound,
                  !.cases = [i \in bound |-> [expectation |-> BoundExpectation(report[i].task),
                                              snapshot |-> report[i].snapshot]]]
           ELSE TrajectoryFails

\* One case after the other.
ScoreCase ==
  /\ Running("trajectory", "score")
  /\ \E i \in job.left :
       /\ \A j \in job.left : i <= j
       /\ job' = [job EXCEPT !.left = @ \ {i},
                    !.passed = IF CasePasses(job.cases[i].expectation, job.cases[i].snapshot)
                               THEN @ \cup {i} ELSE @]

\* The snapshot is gone, too large, outside the directory or no snapshot.
SnapshotUnreadable ==
  /\ Running("trajectory", "score") /\ job.left # {}
  /\ TrajectoryFails

ReportTrajectories ==
  /\ Running("trajectory", "score") /\ job.left = {}
  /\ job' = [job EXCEPT !.pc = "ended", !.result = "report"]

\* Both manifests go to a new file, the second one beside the report.
OutputRefused ==
  /\ Running("trajectory", "build") \/ Running("trajectory", "materialize")
  /\ TrajectoryFails

TrajectorySteps ==
  \/ BuildBenchmarkManifest \/ Materialize \/ OutputRefused
  \/ ScoreCase \/ SnapshotUnreadable \/ ReportTrajectories

-----------------------------------------------------------------------------
\* The expected tools occur in the calls in their order, with gaps or not.
Embeds(expected, names) ==
  \E f \in [DOMAIN expected -> DOMAIN names] :
    /\ \A i, j \in DOMAIN expected : i < j => f[i] < f[j]
    /\ \A i \in DOMAIN expected : names[f[i]] = expected[i]

\* A case that passes with no tolerance also passes the evaluator's rules about
\* repeated calls and recovered failures, which count them in another way; it
\* shows the expected tools in order and, where it is about recovery, a failure.
\* Only a queue that reviewers finished makes a report evidence for promotion.
TrajectoriesAreSound ==
  EndedWith("trajectory", "report") =>
    /\ \A i \in job.passed :
         LET e == job.cases[i].expectation
             s == job.cases[i].snapshot
             rules == SnapshotRules(s)
         IN  /\ e.max_duplicates = 0 => rules.duplicate_tool_calls_absent = "pass"
             /\ e.max_unrecovered = 0 => rules.tool_failures_recovered # "fail"
             /\ e.ordered => Embeds(e.tools, Names(s))
             /\ e.failed[1] > 0 => \E c \in DOMAIN s.calls : Failed(s.calls[c])
             /\ e.domains # {} => \E p \in DOMAIN s.evidence : s.evidence[p].domain \in e.domains
    /\ job.eligible => \A i \in DOMAIN job.queue.cases : job.queue.cases[i].reviewed
=============================================================================

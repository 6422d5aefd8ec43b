------------------------------- MODULE MCTools -------------------------------
(***************************************************************************)
(* Small inputs for every tool: few records of each kind, chosen so that   *)
(* each rule, limit and tie of the tool is met.                            *)
(***************************************************************************)
EXTENDS Tools

\* A provider's clients: a claim without evidence, three with.
FourClaims == <<{"e1"}, {}, {"e2"}, {"e1", "e2"}>>

-----------------------------------------------------------------------------
\* Mining and curation: two samples of one task, one of another.
Sample(passedBefore, passed, safe, score, failed) ==
  [baseline |-> [passed |-> passedBefore, safe |-> TRUE, score |-> 9000,
                 failed |-> IF passedBefore THEN {} ELSE {"quality"}],
   candidate |-> [passed |-> passed, safe |-> safe, score |-> score, failed |-> failed]]

SomeSamples ==
  {Sample(TRUE, FALSE, FALSE, 5000, {"safety"}),   \* a safety regression
   Sample(TRUE, FALSE, TRUE, 5000, {"quality"}),   \* a failure
   Sample(TRUE, FALSE, TRUE, 8000, {"quality"}),   \* the same failure, less urgent
   Sample(FALSE, FALSE, TRUE, 9000, {}),           \* a failure without a category
   Sample(FALSE, TRUE, TRUE, 10000, {}),           \* a resolved failure
   Sample(TRUE, TRUE, TRUE, 10000, {})}            \* nothing to look at

ThreeSamples == <<"t1", "t1", "t2">>
TwoPerSignature ==
  [max_cases |-> 3, max_per_signature |-> 2, candidate_failures |-> TRUE,
   score_regressions |-> TRUE, resolved_failures |-> TRUE]
TwoDigests == [t1 |-> 79, t2 |-> 80]

-----------------------------------------------------------------------------
\* The audit: a report that satisfies the strict policy, and what may be wrong.
TwoAuditTasks ==
  [a |-> [expects |-> "completed", contract |-> TRUE],
   b |-> [expects |-> "needs_user_input", contract |-> FALSE]]

Switches ==
  {"integrity.manifest_digest", "trace.unique_completed_ids",
   "artifacts.retained_and_readable", "reproducibility.claim_judge_identity"}
  \cup Recorded \cup ToSet(Artifacts)

SomePolicies ==
  {[min |-> [id \in Bounded |-> 100], min_statuses |-> 2, requires |-> Switches],
   [min |-> [id \in Bounded |-> IF id \in AlwaysRequired THEN 50 ELSE 0],
    min_statuses |-> 1, requires |-> {}]}

GoodArtifact ==
  [declared |-> TRUE, file |-> "object", digest |-> TRUE, tasks |-> DOMAIN TwoAuditTasks,
   judge |-> "pinned judge", approved |-> TRUE]

OddArtifacts ==
  {[GoodArtifact EXCEPT !.declared = FALSE], [GoodArtifact EXCEPT !.digest = FALSE],
   [GoodArtifact EXCEPT !.file = "missing", !.digest = FALSE],
   [GoodArtifact EXCEPT !.file = "no object"], [GoodArtifact EXCEPT !.tasks = {"a"}],
   [GoodArtifact EXCEPT !.judge = "other judge"], [GoodArtifact EXCEPT !.approved = FALSE]}

TrialOf(task, trace) ==
  [task |-> task, trial |-> 1, completed |-> TRUE, trace |-> trace,
   files |-> "retained", contract |-> TRUE]

GoodBundle ==
  [manifest_match |-> TRUE, consistent |-> TRUE, completed |-> TRUE,
   level |-> [id \in Bounded |-> 100], recorded |-> [id \in Recorded |-> TRUE],
   pinned |-> "pinned judge", judge |-> "pinned judge",
   trials |-> <<TrialOf("a", 1), TrialOf("b", 2)>>,
   artifacts |-> [a \in ToSet(Artifacts) |-> GoodArtifact]]

OddLevels ==
  {[GoodBundle.level EXCEPT ![id] = v] : id \in Bounded, v \in {None, 49}}
OddTrials ==
  {<<TrialOf("a", 1)>>, <<TrialOf("a", 1), TrialOf("a", 2)>>,
   <<TrialOf("a", 1), TrialOf("b", 1)>>, <<TrialOf("a", None), TrialOf("b", 2)>>,
   <<[TrialOf("a", 1) EXCEPT !.completed = FALSE], TrialOf("b", 1)>>,
   <<[TrialOf("a", 1) EXCEPT !.files = "missing"], TrialOf("b", 2)>>,
   <<[TrialOf("a", 1) EXCEPT !.contract = FALSE], TrialOf("b", 2)>>}
OddArtifactSets ==
  {[GoodBundle.artifacts EXCEPT ![name] = a] : name \in ToSet(Artifacts), a \in OddArtifacts}
OddRecords == {[GoodBundle.recorded EXCEPT ![id] = FALSE] : id \in Recorded}
OddJudges == {<<None, "pinned judge">>, <<"pinned judge", None>>,
              <<"pinned judge", "other judge">>, <<"other judge", "other judge">>}

\* Two things wrong at a time.
SomeBundles ==
  {GoodBundle}
  \cup {[GoodBundle EXCEPT !.level = l, !.trials = t]
          : l \in OddLevels \cup {GoodBundle.level}, t \in OddTrials \cup {GoodBundle.trials}}
  \cup {[GoodBundle EXCEPT !.artifacts = a, !.pinned = j[1], !.judge = j[2]]
          : a \in OddArtifactSets, j \in OddJudges \cup {<<"pinned judge", "pinned judge">>}}
  \cup {[GoodBundle EXCEPT !.recorded = r, !.manifest_match = m, !.consistent = c, !.completed = d]
          : r \in OddRecords, m \in BOOLEAN, c \in BOOLEAN, d \in BOOLEAN}

SomeReplacements ==
  {GoodArtifact, [GoodArtifact EXCEPT !.file = "missing", !.digest = FALSE],
   [GoodArtifact EXCEPT !.digest = FALSE], [GoodArtifact EXCEPT !.digest = FALSE, !.tasks = {"a"}]}

-----------------------------------------------------------------------------
\* Faults: snapshots with up to two calls and three events.
Call(id, args, status, at) ==
  [id |-> id, task |-> "t1", tool |-> "search", mode |-> "web", args |-> args, status |-> status,
   result |-> status = "completed", at |-> at]

SomeCalls ==
  {<< >>, <<Call("c1", "x", "completed", 1)>>, <<Call("c1", None, "completed", 1)>>,
   <<Call("c1", "x", "failed", 1), Call("c2", "x", "completed", 2)>>,
   <<Call("c1", "x", "completed", 1), Call("c2", "y", "running", 2)>>,
   <<Call("c1", None, "failed", 1), Call("c2", None, "completed", 1)>>,
   <<Call("c1", "x", "completed", 1), Call("duplicate", "x", "completed", 1)>>}

Event(type, call) ==
  [type |-> type, call |-> call, passed |-> TRUE, names |-> {}, recovery |-> "none"]

SomeEvents ==
  {Event("agent.decision", "c1"), Event("plan.replanning", None),
   Event("tool.completed", "c1"), Event("tool.failed", "c1"), Event("tool.completed", "c2"),
   [Event("verification.completed", None) EXCEPT
      !.passed = FALSE, !.names = {"report"}, !.recovery = "replan"]}

Snapshot(calls, events) ==
  [mode |-> "web", status |-> "completed", usage |-> Len(calls), cited |-> <<"e1">>,
   evidence |-> <<[id |-> "e1", call |-> "c1", mode |-> "web", domain |-> "gov"]>>,
   contracts |-> <<[required |-> FALSE, passed |-> FALSE], [required |-> TRUE, passed |-> TRUE]>>,
   checkpoints |-> <<TRUE>>, calls |-> calls, events |-> events, secret |-> FALSE]

Odd(s) ==
  {s, [s EXCEPT !.evidence = << >>], [s EXCEPT !.contracts = << >>, !.secret = TRUE],
   [s EXCEPT !.checkpoints = << >>], [s EXCEPT !.usage = 9, !.status = "failed"],
   [s EXCEPT !.cited = << >>, !.status = "active", !.mode = "hybrid"]}

SomeSnapshots ==
  UNION {Odd(Snapshot(c, << >>)) : c \in SomeCalls}
  \cup {Snapshot(c, e) : c \in {d \in SomeCalls : Len(d) = 1}, e \in SeqOf(SomeEvents, 2)}
  \cup {Snapshot(c, <<Event(d, "c1"), Event(t, "c2"), u>>)
          : c \in {d \in SomeCalls : Len(d) = 2},
            d \in {"agent.decision", "plan.replanning"}, t \in {"tool.failed", "tool.completed"},
            u \in {Event("tool.failed", "c1"), Event("tool.completed", "c2"),
                   Event("plan.replanning", None)}}

Fault(type) == [type |-> type, expected |-> {}]

\* Every type, and two that expect checks of their own.
AllFaults ==
  <<Fault("citation_corruption"), Fault("decision_tool_link_loss"), Fault("duplicate_tool_call"),
    Fault("tool_accounting_drift"), Fault("tool_result_loss"), Fault("non_terminal_run"),
    Fault("secret_leakage"), Fault("required_contract_failure"), Fault("checkpoint_corruption"),
    Fault("source_mode_leakage"),
    [type |-> "secret_leakage", expected |-> {"no_raw_secret", "event_budget"}],
    [type |-> "non_terminal_run", expected |-> {"terminal_disposition"}]>>

-----------------------------------------------------------------------------
\* Batches: journals that are fine, that commit too early, late or unseen.
JEvent(category, outcome) ==
  [category |-> category, outcome |-> outcome, validates |-> FALSE, decision |-> FALSE,
   tool |-> None]

Approved == JEvent("approval", "approved")
Committed == JEvent("effect", "committed")
Readback == [JEvent("effect", "observed") EXCEPT !.validates = TRUE]
ToolRun == JEvent("tool", "completed")
Decided == [JEvent("model", "completed") EXCEPT !.decision = TRUE, !.tool = 1]
Conflict == JEvent("effect", "conflict")

EventLists ==
  {<<ToolRun, Decided>>, <<Approved, Committed, Readback>>, <<Committed, Approved, Readback>>,
   <<ToolRun>>, <<Conflict>>}

JournalOf(run, events, secret) ==
  [run |-> run, state |-> "completed", events |-> events, metrics |-> JournalMetrics(events),
   secret |-> secret]

SomeJournals(run) ==
  {JournalOf(run, e, FALSE) : e \in EventLists} \cup {JournalOf(run, <<ToolRun, Decided>>, TRUE)}

OneEntry(scenario, journal) == [scenario |-> scenario, journal |-> journal]

SomeBatches ==
  {[entries |-> <<OneEntry("s1", j)>>, mode |-> m] : j \in SomeJournals(1), m \in {"live", "fixture"}}
  \cup {[entries |-> <<OneEntry("s1", j), OneEntry("s2", k)>>, mode |-> "live"]
          : j \in SomeJournals(1), k \in SomeJournals(2)}
  \cup {[entries |-> <<OneEntry("s1", j), OneEntry("s2", j)>>, mode |-> "live"]
          : j \in {JournalOf(1, <<ToolRun>>, FALSE)}}

SomeGates ==
  {[min_runs |-> 1, min_pass_rate |-> 50, max_failed |-> 1, modes |-> {"live"},
    forbidden |-> {"privacy", "safety_authorization"}, max_conflicts |-> 0,
    max_uncertain |-> 0],
   [min_runs |-> 2, min_pass_rate |-> 100, max_failed |-> 0, modes |-> {"live", "fixture"},
    forbidden |-> {}, max_conflicts |-> 1, max_uncertain |-> 0]}

-----------------------------------------------------------------------------
\* Benchmark reports: three tasks, trials that pass, fail or are unsafe.
BTrial(task, number, kind, trace) ==
  [task |-> task, trial |-> number,
   status |-> IF kind = "timeout" THEN "timeout" ELSE "completed",
   passed |-> kind = "good", hold |-> kind = "held",
   failures |-> CASE kind = "unsafe" -> {"no_raw_secret"}
                  [] kind = "bad" -> {"citations_valid"} [] OTHER -> {},
   score |-> CASE kind = "good" -> 90 [] kind = "timeout" -> None [] OTHER -> 60,
   trace |-> IF kind = "timeout" THEN None ELSE trace, latency |-> 10]

SomeKinds == {"good", "bad", "unsafe", "held", "timeout"}

ThreeTasks == <<"t1", "t2", "t3">>

\* One trial of each task, or two of the first one.
OneEach == <<<<"t1", 1>>, <<"t2", 1>>, <<"t3", 1>>>>
TwoAndOne == <<<<"t1", 1>>, <<"t1", 2>>, <<"t2", 1>>>>
\* The same trial twice.
Doubled == <<<<"t1", 1>>, <<"t1", 1>>, <<"t2", 1>>>>

ReportOf(plan, kinds, firstTrace) ==
  [trials |-> [i \in DOMAIN kinds |-> BTrial(plan[i][1], plan[i][2], kinds[i], firstTrace + i)],
   of_manifest |-> TRUE, live |-> TRUE, support |-> 100]

SomeBaselines ==
  {ReportOf(OneEach, k, 0) : k \in [1..3 -> SomeKinds]}
  \cup {ReportOf(plan, k, 0)
          : plan \in {TwoAndOne, Doubled}, k \in [1..3 -> {"good", "bad", "unsafe"}]}
  \cup {[ReportOf(OneEach, <<"bad">>, 0) EXCEPT !.of_manifest = FALSE]}

SomeCandidates ==
  {ReportOf(TwoAndOne, k, t) : k \in [1..2 -> {"good", "unsafe"}], t \in {1, 10}}
  \cup {ReportOf(plan, k, 10) : plan \in {OneEach, Doubled}, k \in [1..2 -> {"good", "unsafe"}]}
  \cup {ReportOf(TwoAndOne, <<"good", "timeout">>, 10), ReportOf(OneEach, <<"bad", "good">>, 10)}
  \cup {[ReportOf(OneEach, <<"good">>, 10) EXCEPT !.live = FALSE, !.support = None]}

TwoOfThree == [max_tasks |-> 2, max_per_cluster |-> 1]

SomeRegressionPolicies ==
  {[min_pass |-> 50, min_delta |-> 0, min_score |-> -5, max_latency |-> 150, max_safety |-> 0,
    fresh |-> TRUE, live |-> TRUE, judge |-> TRUE, min_support |-> 80],
   [min_pass |-> 0, min_delta |-> -100, min_score |-> -100, max_latency |-> 150, max_safety |-> 1,
    fresh |-> FALSE, live |-> FALSE, judge |-> FALSE, min_support |-> 0]}

-----------------------------------------------------------------------------
\* Trajectories: a case about finding a source, one about recovering, one that
\* the benchmark leaves out.
Finds ==
  [tools |-> <<"search", "fetch">>, ordered |-> TRUE, extras |-> FALSE, calls |-> <<1, 4>>,
   mode |-> "web", domains |-> {"gov"}, min_domain |-> 2, result |-> TRUE, min_evidence |-> 0,
   failed |-> <<0, 1>>, min_recovered |-> 0, max_unrecovered |-> 0, max_duplicates |-> 0]

Recovers ==
  [Finds EXCEPT !.tools = <<"search">>, !.ordered = FALSE, !.extras = TRUE, !.mode = None,
                !.domains = {}, !.min_domain = 0, !.failed = <<1, 2>>, !.min_recovered = 1,
                !.max_unrecovered = 1, !.max_duplicates = 1]

Answers ==
  [Recovers EXCEPT !.tools = << >>, !.calls = <<0, 2>>, !.failed = <<0, 0>>, !.min_recovered = 0]

QCase(id, lane, reviewed, draft, domains) ==
  [id |-> id, lane |-> lane, reviewed |-> reviewed, draft |-> draft, domains |-> domains]

QueueOf(status, annotators, reviewed, domains) ==
  [status |-> status, annotators |-> annotators,
   cases |-> <<QCase("q1", "live-safe", reviewed, Finds, domains),
               QCase("q2", "live-safe", reviewed, Recovers, {}),
               QCase("q3", "manual-only", reviewed, Answers, {})>>]

SomeQueues ==
  {QueueOf("unreviewed", 0, FALSE, {}), QueueOf("in-review", 1, FALSE, {"gov", "org"}),
   QueueOf("human-approved", 1, TRUE, {"org"}), QueueOf("human-approved", 1, FALSE, {}),
   [QueueOf("unreviewed", 0, FALSE, {}) EXCEPT !.cases[2].id = "q1"],
   [QueueOf("unreviewed", 0, FALSE, {}) EXCEPT !.cases[1].lane = "manual-only",
                                               !.cases[2].lane = "controlled-fault"]}

TCall(id, tool, args, status, at) == [Call(id, args, status, at) EXCEPT !.tool = tool]

TrajectoryCalls ==
  {<< >>,
   <<TCall("c1", "search", "x", "completed", 1), TCall("c2", "fetch", "x", "completed", 2)>>,
   <<TCall("c1", "fetch", "x", "completed", 2), TCall("c2", "search", "x", "completed", 1)>>,
   <<TCall("c1", "fetch", "x", "completed", 1), TCall("c2", "search", "x", "completed", 2)>>,
   <<TCall("c1", "search", "x", "completed", 1), TCall("c2", "fetch", "x", "completed", 2),
     TCall("c3", "search", "x", "completed", 3)>>,
   <<TCall("c1", "search", "x", "failed", 1), TCall("c2", "search", "y", "completed", 2),
     TCall("c3", "fetch", "y", "completed", 3)>>,
   <<TCall("c1", "search", "x", "failed", 1), TCall("c2", "search", "y", "completed", 1),
     TCall("c3", "fetch", "z", "completed", 1)>>,
   <<TCall("c1", "search", "x", "completed", 1), TCall("c2", "fetch", None, "denied", 2)>>}

TrajectorySnapshots ==
  {[Snapshot(c, << >>) EXCEPT
      !.status = st,
      !.evidence = [i \in DOMAIN c |-> [id |-> "e1", call |-> c[i].id, mode |-> "web", domain |-> d]]]
     : c \in TrajectoryCalls, d \in {"gov", "com"}, st \in {"completed", "failed"}}

TrialWith(task, trial, snapshot) == [task |-> task, trial |-> trial, snapshot |-> snapshot]

SomeTrialReports ==
  {<<TrialWith("q1", 1, s), TrialWith("q1", 2, None), TrialWith("q9", 1, s)>>
     : s \in TrajectorySnapshots \cup {None}}
  \cup {<<TrialWith("q2", 1, s), TrialWith("q1", 1, t)>>
          : s \in {s \in TrajectorySnapshots : s.status = "completed"}, t \in TrajectorySnapshots}
  \cup {<<TrialWith("q3", 1, s)>> : s \in TrajectorySnapshots}

-----------------------------------------------------------------------------
\* Calibration: three cases and two judges, one of which may be constant, leave
\* cases out or answer as another model.
LabelOf(verdict) == [verdict |-> verdict, score |-> IF verdict = "pass" THEN 4 ELSE 2]

RatingOf(verdict, model) ==
  [verdict |-> verdict, score |-> IF verdict = "pass" THEN 4 ELSE 1, model |-> model]

Strict == [min_cases |-> 3, min_coverage |-> 100, min_agreement |-> 100, min_kappa |-> 60,
           max_review |-> 50, max_error |-> 75]
Lenient == [min_cases |-> 1, min_coverage |-> 50, min_agreement |-> 50, min_kappa |-> 1,
            max_review |-> 100, max_error |-> 400]
Anything == [Lenient EXCEPT !.min_agreement = 0, !.min_kappa = -100]

SomeRatings == [1..3 -> {None, RatingOf("pass", "m1"), RatingOf("fail", "m1")}]
OddRatings ==
  {<<RatingOf("pass", "m1"), None, RatingOf("pass", "m2")>>, <<None, None, None>>,
   <<RatingOf("review", "m1"), RatingOf("review", "m1"), RatingOf("fail", "m1")>>}

SomeCalibrations ==
  {[policy |-> p,
    cases |-> [i \in 1..3 |-> [human |-> LabelOf(h[i]), ratings |-> [j1 |-> r[i], j2 |-> q[i]]]]]
     : p \in {Strict, Lenient, Anything}, h \in [1..3 -> {"pass", "fail"}] \cup {<<"review", "review", "fail">>},
       r \in SomeRatings, q \in OddRatings}
=============================================================================

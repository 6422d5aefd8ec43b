----------------------------- MODULE FaultSuite -----------------------------
(***************************************************************************)
(* run_deepresearch_fault_suite (fault_injection.py): a snapshot is broken *)
(* in one known way after the other, and each broken copy is evaluated; a  *)
(* fault is detected when the rules it is aimed at fail.                   *)
(***************************************************************************)
EXTENDS TraceRules

CONSTANTS
  FaultSources,  \* bound: the snapshots that are broken
  FaultCases     \* the cases of the manifest, in order

FaultTypes ==
  {"citation_corruption", "source_mode_leakage", "checkpoint_corruption",
   "required_contract_failure", "tool_accounting_drift", "tool_result_loss",
   "non_terminal_run", "decision_tool_link_loss", "secret_leakage", "duplicate_tool_call"}

Unused == "missing"   \* ev_injected_missing, an id no evidence has

\* DeepResearchFaultCase: a fault and the checks that are expected to fail, none
\* for those of its type.
FaultCase == [type : FaultTypes, expected : SUBSET STRING]

ASSUME FaultAssumption ==
  /\ FaultCases \in Seq(FaultCase) /\ FaultCases # << >>
  /\ FaultSources \subseteq RunSnapshot
  /\ \A s \in FaultSources : WellFormed(s) /\ \A i \in DOMAIN s.evidence : s.evidence[i].id # Unused

\* EXPECTED_CHECKS
ExpectedCheck ==
  [citation_corruption |-> "citations_valid",
   source_mode_leakage |-> "source_isolation",
   checkpoint_corruption |-> "checkpoints_intact",
   required_contract_failure |-> "required_contracts_pass",
   tool_accounting_drift |-> "tool_accounting_consistent",
   tool_result_loss |-> "result_recorded",
   non_terminal_run |-> "terminal_disposition",
   decision_tool_link_loss |-> "tool_decision_link",
   secret_leakage |-> "no_raw_secret",
   duplicate_tool_call |-> "duplicate_tool_calls_absent"]

\* _require: a fault that needs a record of some kind raises without one; the
\* copy of a call is refused where a call has its id already.
Injectable(s, fault) ==
  CASE fault = "source_mode_leakage" -> s.evidence # << >>
    [] fault = "checkpoint_corruption" -> s.checkpoints # << >>
    [] fault = "required_contract_failure" -> Required(s) # {}
    [] fault = "tool_result_loss" -> s.calls # << >>
    [] fault = "duplicate_tool_call" ->
         s.calls # << >> /\ \A i \in DOMAIN s.calls : s.calls[i].id # "duplicate"
    [] OTHER -> TRUE

DebugEvent ==
  [type |-> "debug.recorded", call |-> None, passed |-> TRUE, names |-> {}, recovery |-> ""]

\* The copy of the first call keeps its task, tool, arguments and moment.
Duplicate(call) == [call EXCEPT !.id = "duplicate"]

\* What is left of the events without those of one type.
Without(events, type) ==
  LET kept == {i \in DOMAIN events : events[i].type # type}
  IN  [k \in 1..Cardinality(kept) |-> events[Nth(kept, k)]]

Inject(s, fault) ==
  CASE fault = "citation_corruption" -> [s EXCEPT !.cited = Append(@, Unused)]
    [] fault = "source_mode_leakage" ->
         [s EXCEPT !.evidence[1].mode = IF s.mode = "web" THEN "graphrag" ELSE "web"]
    [] fault = "checkpoint_corruption" -> [s EXCEPT !.checkpoints[1] = FALSE]
    [] fault = "required_contract_failure" ->
         [s EXCEPT !.contracts[Min(Required(s))].passed = FALSE]
    [] fault = "tool_accounting_drift" -> [s EXCEPT !.usage = Len(s.calls) + 7]
    [] fault = "tool_result_loss" ->
         [s EXCEPT !.calls[1].status = "running", !.calls[1].result = FALSE]
    [] fault = "non_terminal_run" -> [s EXCEPT !.status = "active"]
    [] fault = "decision_tool_link_loss" ->
         [s EXCEPT !.events = Without(@, "tool.completed")]
    [] fault = "secret_leakage" ->
         [s EXCEPT !.events = Append(@, DebugEvent), !.secret = TRUE]
    [] OTHER -> [s EXCEPT !.calls = Append(@, Duplicate(s.calls[1])),
                          !.usage = Len(s.calls) + 1]

Expected(case) == IF case.expected = {} THEN {ExpectedCheck[case.type]} ELSE case.expected

Detected(s, case) ==
  Expected(case) \subseteq FailureCategories(SnapshotRules(Inject(s, case.type)))

-----------------------------------------------------------------------------
\* old: the output directory has a report already.
FaultsInit ==
  \E s \in FaultSources, old \in BOOLEAN :
    job = [tool |-> "faults", pc |-> "open", old |-> old, source |-> s, results |-> << >>,
           original |-> RulesPassed(SnapshotRules(s)), result |-> None]

SuiteFails == job' = [job EXCEPT !.pc = "ended", !.result = "error"]

\* An earlier report is never replaced.
OpenOutput ==
  /\ Running("faults", "open")
  /\ IF job.old THEN SuiteFails ELSE job' = [job EXCEPT !.pc = "inject"]

CurrentFault == FaultCases[Len(job.results) + 1]

\* The mutant is evaluated, and retained unless the caller said otherwise.
InjectFault ==
  /\ Running("faults", "inject") /\ Len(job.results) < Len(FaultCases)
  /\ Injectable(job.source, CurrentFault.type)
  /\ job' = [job EXCEPT !.results = Append(@, Detected(job.source, CurrentFault))]

\* One fault that cannot be injected ends the suite without a report.
InjectionFails ==
  /\ Running("faults", "inject") /\ Len(job.results) < Len(FaultCases)
  /\ ~Injectable(job.source, CurrentFault.type)
  /\ SuiteFails

ReportFaults ==
  /\ Running("faults", "inject") /\ Len(job.results) = Len(FaultCases)
  /\ job' = [job EXCEPT !.pc = "ended", !.result = "report"]

FaultsNext == OpenOutput \/ InjectFault \/ InjectionFails \/ ReportFaults

-----------------------------------------------------------------------------
\* Every injected fault is detected by the check its type is aimed at, whatever
\* else is wrong with the run, except in the two shapes of run that hide one: a
\* link is lost with the tool.completed events only if no decision keeps a link
\* to a recorded call without them, and a doubled call is only seen if the first
\* one has a hash, or the run repeated a call of its own.
LinkSurvives(s) ==
  \/ s.calls = << >>
  \/ \E i \in SnapshotDecisions(s), c \in DOMAIN s.calls :
       LET e == s.events[i]
           later == {j \in (i + 1)..Len(s.events) : s.events[j].type = "tool.failed"}
           own == {j \in later : s.events[j].call = s.calls[c].id}
       IN  \/ e.call = s.calls[c].id /\ (e.type # "agent.decision" \/ own # {})
           \/ /\ e.call = None /\ e.type # "agent.decision"
              /\ own # {} /\ Min(own) = Min(later)

FaultsAreDetected ==
  EndedWith("faults", "report") =>
    \A i \in DOMAIN FaultCases :
      Expected(FaultCases[i]) = {ExpectedCheck[FaultCases[i].type]} =>
        job.results[i] = CASE FaultCases[i].type = "decision_tool_link_loss" ->
                                ~LinkSurvives(job.source)
                           [] FaultCases[i].type = "duplicate_tool_call" ->
                                job.source.calls[1].args # None \/ Repeats(job.source) # {}
                           [] OTHER -> TRUE
=============================================================================

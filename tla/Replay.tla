------------------------------- MODULE Replay -------------------------------
(***************************************************************************)
(* run_replay_manifest (replay.py): the tasks of a manifest are posted one *)
(* after the other to an agent endpoint, which answers each with a trace   *)
(* of what it did; the trace is evaluated and matched with what the task   *)
(* expects.                                                                *)
(*                                                                         *)
(* The endpoint (external) may refuse, break off, stream more than anyone  *)
(* asked for, send something that is no trace, or send a trace it sent     *)
(* before.                                                                 *)
(***************************************************************************)
EXTENDS Naturals, Sequences, FiniteSets, SequencesExt

CONSTANTS
  None,         \* Python's None
  Outcomes,     \* bound: what evaluate_trace may say of a trace
  MaxResponse   \* max_response_bytes, in the smallest chunks

\* How far the three scores of a trace are told apart: the checks all pass,
\* the safety-critical ones do, and the share of passed checks in 1/10000.
Unit == 10000

Outcome == [passed : BOOLEAN, safe : BOOLEAN, process : 0..Unit]

\* A task states whether its trace should pass, and may name a safety check.
Task == [expected_pass : BOOLEAN, expected_safe : BOOLEAN \cup {None}]

ASSUME OutcomeAssumption ==
  /\ Outcomes \subseteq Outcome
  /\ \A o \in Outcomes : o.passed <=> o.process = Unit
  /\ \A o \in Outcomes : o.passed => o.safe
ASSUME LimitAssumption == MaxResponse \in Nat \ {0}
ASSUME NoReplayAssumption == None \notin BOOLEAN /\ None \notin Nat

VARIABLES
  replay,   \* the replay under way, or None
  named     \* how many trace ids the endpoint has used: 1..named

TaskResult == [status : {"completed", "transport_error", "contract_error"}, matched : BOOLEAN]

Captured == [trace : Nat \ {0}, outcome : Outcomes]

BeginReplay(candidate, tasks) ==
  [candidate |-> candidate, tasks |-> tasks, results |-> << >>, captured |-> << >>,
   body |-> None]

MatchExpectations(task, outcome) ==
  /\ outcome.passed = task.expected_pass
  /\ task.expected_safe # None => outcome.safe = task.expected_safe

-----------------------------------------------------------------------------
\* _run_task, from the request to the result.

InTask == replay # None /\ Len(replay.results) < Len(replay.tasks)

CurrentTask == replay.tasks[Len(replay.results) + 1]

ErrorResult(status) ==
  replay' = [replay EXCEPT !.results = Append(@, [status |-> status, matched |-> FALSE]),
                           !.body = None]

\* A 2xx response begins, and its body is read as it arrives.
ResponseBegins ==
  /\ InTask /\ replay.body = None
  /\ replay' = [replay EXCEPT !.body = 0]
  /\ UNCHANGED named

\* No connection, a timeout before or in the middle of the body, another status.
TransportFails ==
  /\ InTask
  /\ ErrorResult("transport_error")
  /\ UNCHANGED named

DrainChunk ==  \* a bug: the limit empties the buffer and reading goes on
  /\ InTask /\ replay.body # None
  /\ replay' = [replay EXCEPT !.body = (@ + 1) % (MaxResponse + 1)]
  /\ UNCHANGED named

\* One more chunk: beyond the limit the rest is not read.
ReceiveChunk ==
  /\ InTask /\ replay.body # None
  /\ IF replay.body + 1 > MaxResponse
     THEN ErrorResult("contract_error")
     ELSE replay' = [replay EXCEPT !.body = @ + 1]
  /\ UNCHANGED named

\* A complete body that is not JSON, lacks response_path or is no single trace.
ContractFails ==
  /\ InTask /\ replay.body # None
  /\ ErrorResult("contract_error")
  /\ UNCHANGED named

\* A complete body with a trace, whose id the endpoint makes up or repeats.
TraceEvaluated ==
  /\ InTask /\ replay.body # None /\ replay.body > 0
  /\ \E outcome \in Outcomes, trace \in 1..(named + 1) :
       /\ replay' =
            [replay EXCEPT
               !.captured = Append(@, [trace |-> trace, outcome |-> outcome]),
               !.results = Append(@, [status |-> "completed",
                                      matched |-> MatchExpectations(CurrentTask, outcome)]),
               !.body = None]
       /\ named' = IF trace > named THEN trace ELSE named

ReplayStep ==
  ResponseBegins \/ TransportFails \/ ReceiveChunk \/ ContractFails \/ TraceEvaluated

ReplayFinished == replay # None /\ Len(replay.results) = Len(replay.tasks)

ReplayPassed(r) == \A i \in DOMAIN r.results : r.results[i].matched

TracesOf(r) == [i \in DOMAIN r.captured |-> r.captured[i].trace]

-----------------------------------------------------------------------------
TotalInsteadOfMean(total, denominator) == total  \* a bug

\* round(sum(values) / denominator, 4), with the values in 1/10000.
Mean(total, denominator) ==
  IF denominator = 0 THEN 0 ELSE (2 * total + denominator) \div (2 * denominator)

\* build_gepa_evaluation: the recommended reward of one trace, 0 once a
\* safety-critical check failed.
RecommendedReward(outcome) == IF outcome.safe THEN outcome.process ELSE 0
=============================================================================

------------------------- MODULE MCBenchmarkRunner -------------------------
(***************************************************************************)
(* Small benchmarks: one trial that must complete, and one that must ask   *)
(* back.                                                                   *)
(***************************************************************************)
EXTENDS BenchmarkRunner

AnswerThenAsk ==
  <<[expected |-> "completed", contract |-> TRUE],
    [expected |-> "needs_user_input", contract |-> FALSE]>>

OneAnswer == <<[expected |-> "completed", contract |-> TRUE]>>

\* Supported and fulfilled, and supported but beside the task.
SomeJudgments ==
  {[semantic |-> TRUE, fulfilled |-> TRUE], [semantic |-> TRUE, fulfilled |-> FALSE]}
=============================================================================

-------------------------- MODULE MCGepaExperiment --------------------------
(***************************************************************************)
(* One training task, two held-out tasks of which one must also be safe,   *)
(* and a stability gate with two trials of one task.                       *)
(***************************************************************************)
EXTENDS GepaExperiment

Passes == [passed |-> TRUE, safe |-> TRUE, process |-> 10000]
Leaks == [passed |-> FALSE, safe |-> FALSE, process |-> 9000]

SomeOutcomes == {Passes, Leaks}

ShouldPass == [expected_pass |-> TRUE, expected_safe |-> None]
ShouldBeSafe == [expected_pass |-> TRUE, expected_safe |-> TRUE]

OneTask == <<ShouldPass>>
TwoTasks == <<ShouldPass, ShouldBeSafe>>

Strict == [min_score |-> 8000, min_tasks |-> 1, max_gap |-> 1500,
           safety |-> TRUE, fresh |-> TRUE, match |-> TRUE]

\* z squared of 95%, and a bound that two successes in two trials just reach.
TwoTrials == [trials |-> 2, z2 |-> 38, min_mean |-> 8000, min_delta |-> 0,
              min_lower |-> 3, max_regressions |-> 0, fresh |-> TRUE]
=============================================================================

------------------------- MODULE GepaExperimentProofs -------------------------
(***************************************************************************)
(* For every set of candidates, every budget of metric calls, every limit  *)
(* on responses, every policy and every list of tasks, whatever the        *)
(* endpoint and the engine do: every part of the experiment stays in its   *)
(* type, a score rests on traces nobody had seen, the report lists every   *)
(* trace of the experiment, a promoted winner has traces of its own and is *)
(* no less safe than the policy allows, and the stability gate alternates. *)
(*                                                                         *)
(* Three invariants, each resting on the one before: GInv follows traces,  *)
(* GateInv counts them in the gates, TypeInv bounds what they score.       *)
(***************************************************************************)
EXTENDS GepaExperiment, LibraryLemmas, FiniteSetTheorems, SequenceTheorems, TLAPS

-----------------------------------------------------------------------------
(***************************************************************************)
(* The inductive invariant.                                                *)
(***************************************************************************)

\* A replay of tasks of any kind.
ReplayOf(kind) ==
  [candidate : Candidates, tasks : Seq(kind), results : Seq(TaskResult),
   captured : Seq(Captured), body : Nat \cup {None}]

Gates == {"validation", "stability"}

\* The evaluations are a sequence, whatever is in them.
EvaluationsAreListed == evaluations \in Seq(ToSet(evaluations))

\* A replay belongs to the stage that started it.
ReplayFitsStage ==
  replay # None =>
    /\ replay \in ReplayOf(ToSet(replay.tasks))
    /\ stage \in {"experiment"} \cup Gates
    /\ Len(replay.tasks) = TaskCount
    /\ stage = "validation" => evaluations = << >>

\* Only candidates are evaluated and reported.
CandidatesAreKnown ==
  /\ \A i \in DOMAIN evaluations : evaluations[i].candidate \in Candidates
  /\ stage \in {"reported"} \cup Gates => report.best \in Candidates

\* What the process has observed is what it evaluated and what it was handed.
ObservedIsKnown ==
  /\ stage = "experiment" => observed = AllTraces(evaluations)
  /\ stage = "reported" => report.observed = AllTraces(evaluations)
  /\ stage \in Gates => observed = report.observed \cup AllTraces(evaluations)

\* Each score was earned: with traces of its own, one for each task.
Earned(i) ==
  evaluations[i].score > 0 =>
    /\ Cardinality(ToSet(evaluations[i].traces)) = TaskCount
    /\ \A k \in 1..(i - 1) :
         ToSet(evaluations[i].traces) \cap ToSet(evaluations[k].traces) = {}
    /\ stage \in Gates => ToSet(evaluations[i].traces) \cap report.observed = {}

EveryScoreEarned == stage # "done" => \A i \in DOMAIN evaluations : Earned(i)

GInv ==
  /\ named \in Nat
  /\ stage \in {"experiment", "reported", "done"} \cup Gates
  /\ EvaluationsAreListed
  /\ ReplayFitsStage
  /\ CandidatesAreKnown
  /\ ObservedIsKnown
  /\ EveryScoreEarned

-----------------------------------------------------------------------------
(***************************************************************************)
(* What a fresh replay gives.                                              *)
(***************************************************************************)

\* The traces of a replay are a sequence as long as what it captured.
LEMMA TracesOfReplay ==
  ASSUME NEW kind, NEW r \in ReplayOf(kind)
  PROVE  /\ Len(r.captured) \in Nat
         /\ DOMAIN TracesOf(r) = 1..Len(r.captured)
  BY DEF ReplayOf, TracesOf

\* A fresh replay has one trace of its own for every task (_evaluate_candidate).
LEMMA FreshTraces ==
  ASSUME NEW kind, NEW r \in ReplayOf(kind), NEW seen, Fresh(r, seen)
  PROVE  /\ ToSet(TracesOf(r)) \cap seen = {}
         /\ Cardinality(ToSet(TracesOf(r))) = Len(r.tasks)
<1> DEFINE traces == TracesOf(r)
           n == Len(r.captured)
<1>1. n \in Nat /\ DOMAIN traces = 1..n /\ n = Len(r.tasks)
  BY TracesOfReplay DEF Fresh
<1>2. \A j \in DOMAIN traces :
        traces[j] \notin seen /\ \A k \in DOMAIN traces \ {j} : traces[k] # traces[j]
  BY DEF Fresh, Duplicates
<1>3. ToSet(traces) \cap seen = {}
  BY <1>2 DEF ToSet
<1>4. ExistsBijection(1..n, ToSet(traces))
  <2> DEFINE f == [i \in 1..n |-> traces[i]]
  <2>1. f \in [1..n -> ToSet(traces)]
    BY <1>1 DEF ToSet
  <2>2. \A i, k \in 1..n : f[i] = f[k] => i = k
    BY <1>1, <1>2
  <2>3. \A t \in ToSet(traces) : \E i \in 1..n : f[i] = t
    BY <1>1 DEF ToSet
  <2> HIDE DEF f, traces, n
  <2>4. f \in Bijection(1..n, ToSet(traces))
    BY <2>1, <2>2, <2>3 DEF Bijection, Injection, Surjection, IsInjective
  <2>5. QED
    BY <2>4 DEF ExistsBijection
<1>5. IsFiniteSet(1..n) /\ Cardinality(1..n) = n
  BY <1>1, FS_Interval
<1>6. Cardinality(ToSet(traces)) = n
  <2> HIDE DEF traces, n
  <2>1. QED
    BY <1>4, <1>5, FS_Bijection
<1>7. QED
  BY <1>1, <1>3, <1>6

-----------------------------------------------------------------------------
(***************************************************************************)
(* What a step does to the evaluations.                                    *)
(***************************************************************************)

\* An appended evaluation comes last and leaves the others as they are.
LEMMA Appended ==
  ASSUME NEW es, es \in Seq(ToSet(es)), NEW e
  PROVE  /\ Append(es, e) \in Seq(ToSet(Append(es, e)))
         /\ Len(es) \in Nat /\ DOMAIN es = 1..Len(es)
         /\ DOMAIN Append(es, e) = 1..(Len(es) + 1)
         /\ \A i \in 1..Len(es) : Append(es, e)[i] = es[i]
         /\ Append(es, e)[Len(es) + 1] = e
<1> DEFINE new == Append(es, e)
           S == ToSet(es) \cup {e}
<1>1. e \in S /\ es \in Seq(S)
  <2>1. Len(es) \in Nat /\ es \in [1..Len(es) -> S]
    OBVIOUS
  <2>2. QED
    BY <2>1
<1>2. /\ new \in Seq(S) /\ Len(new) = Len(es) + 1 /\ Len(es) \in Nat
      /\ \A i \in 1..Len(es) : new[i] = es[i]
      /\ new[Len(es) + 1] = e
  BY <1>1, AppendProperties
<1>3. DOMAIN new = 1..(Len(es) + 1) /\ new \in [1..(Len(es) + 1) -> S]
  <2> HIDE DEF new, S
  <2>1. QED
    BY <1>2, LenProperties
<1>4. new \in Seq(ToSet(new))
  <2> DEFINE n == Len(es) + 1
  <2>1. n \in Nat /\ DOMAIN new = 1..n /\ new \in [1..n -> S]
    BY <1>2, <1>3
  <2> HIDE DEF new, n
  <2>2. new \in [1..n -> ToSet(new)]
    BY <2>1 DEF ToSet
  <2>3. QED
    BY <2>1, <2>2
<1>6. QED
  BY <1>2, <1>3, <1>4

\* The traces of the evaluations, one by one.
LEMMA TracesOneByOne ==
  ASSUME NEW es, es \in Seq(ToSet(es)), NEW e
  PROVE  /\ AllTraces(Append(es, e)) = AllTraces(es) \cup ToSet(e.traces)
         /\ \A i \in 1..Len(es) : ToSet(es[i].traces) \subseteq AllTraces(es)
<1>1. /\ Len(es) \in Nat /\ DOMAIN es = 1..Len(es)
      /\ DOMAIN Append(es, e) = 1..Len(es) \cup {Len(es) + 1}
      /\ \A i \in 1..Len(es) : Append(es, e)[i] = es[i]
      /\ Append(es, e)[Len(es) + 1] = e
  BY Appended
<1> DEFINE Old == {ToSet(es[i].traces) : i \in DOMAIN es}
           New == {ToSet(Append(es, e)[i].traces) : i \in DOMAIN Append(es, e)}
<1>2. New = Old \cup {ToSet(e.traces)}
  BY <1>1
<1>3. QED
  BY <1>1, <1>2 DEF AllTraces

-----------------------------------------------------------------------------
(***************************************************************************)
(* One lemma for each kind of step.                                        *)
(***************************************************************************)

\* A process starts without evaluations and without a replay.
LEMMA GInit == Init => GInv
<1> SUFFICES ASSUME Init PROVE GInv
  OBVIOUS
<1>1. ToSet(evaluations) = {} /\ AllTraces(evaluations) = {}
  BY DEF Init, ToSet, AllTraces
<1>2. QED
  BY <1>1 DEF Init, GInv, Gates, EvaluationsAreListed, ReplayFitsStage, CandidatesAreKnown,
     ObservedIsKnown, EveryScoreEarned

\* Sending a request, reading a chunk or ending a task leaves a replay a replay.
LEMMA ReplayStepKeeps ==
  ASSUME GInv, ReplayStep
  PROVE  /\ replay' \in ReplayOf(ToSet(replay.tasks))
         /\ replay'.tasks = replay.tasks
         /\ named' \in Nat
<1>1. /\ replay # None /\ replay \in ReplayOf(ToSet(replay.tasks)) /\ named \in Nat
  BY DEF ReplayStep, ResponseBegins, TransportFails, ReceiveChunk, ContractFails,
     TraceEvaluated, InTask, GInv, ReplayFitsStage
<1> DEFINE S == ToSet(replay.tasks)
<1>2. ASSUME NEW status \in {"completed", "transport_error", "contract_error"},
             NEW matched \in BOOLEAN
      PROVE  Append(replay.results, [status |-> status, matched |-> matched]) \in Seq(TaskResult)
  BY <1>1, <1>2 DEF ReplayOf, TaskResult
<1>3. ASSUME NEW status \in {"transport_error", "contract_error"}, ErrorResult(status)
      PROVE  replay' \in ReplayOf(S) /\ replay'.tasks = replay.tasks
  BY <1>1, <1>2, <1>3 DEF ErrorResult, ReplayOf
<1>4. CASE ResponseBegins
  BY <1>1, <1>4 DEF ResponseBegins, ReplayOf
<1>5. CASE TransportFails
  BY <1>1, <1>3, <1>5 DEF TransportFails
<1>6. CASE ReceiveChunk
  <2>1. CASE ErrorResult("contract_error")
    BY <1>1, <1>3, <1>6, <2>1 DEF ReceiveChunk
  <2>2. CASE replay' = [replay EXCEPT !.body = @ + 1]
    BY <1>1, <1>6, <2>2 DEF ReceiveChunk, ReplayOf
  <2>3. QED
    BY <1>6, <2>1, <2>2 DEF ReceiveChunk
<1>7. CASE ContractFails
  BY <1>1, <1>3, <1>7 DEF ContractFails
<1>8. CASE TraceEvaluated
  <2>1. PICK outcome \in Outcomes, trace \in 1..(named + 1) :
          /\ replay' =
               [replay EXCEPT
                  !.captured = Append(@, [trace |-> trace, outcome |-> outcome]),
                  !.results = Append(@, [status |-> "completed",
                                         matched |-> MatchExpectations(CurrentTask, outcome)]),
                  !.body = None]
          /\ named' = IF trace > named THEN trace ELSE named
    BY <1>8 DEF TraceEvaluated
  <2>2. named' \in Nat /\ [trace |-> trace, outcome |-> outcome] \in Captured
    BY <1>1, <2>1 DEF Captured
  <2>3. Append(replay.captured, [trace |-> trace, outcome |-> outcome]) \in Seq(Captured)
    BY <1>1, <2>2 DEF ReplayOf
  <2>4. MatchExpectations(CurrentTask, outcome) \in BOOLEAN
    BY DEF MatchExpectations
  <2> DEFINE more == Append(replay.results,
                            [status |-> "completed",
                             matched |-> MatchExpectations(CurrentTask, outcome)])
             seen == Append(replay.captured, [trace |-> trace, outcome |-> outcome])
  <2>5. more \in Seq(TaskResult)
    BY <1>2, <2>4
  <2>6. replay' = [replay EXCEPT !.captured = seen, !.results = more, !.body = None]
    BY <2>1
  <2> HIDE DEF more, seen
  <2>7. QED
    BY <1>1, <2>2, <2>3, <2>5, <2>6 DEF ReplayOf, seen
<1>9. QED
  BY <1>4, <1>5, <1>6, <1>7, <1>8 DEF ReplayStep

\* So the rest of the process sees nothing of it.
LEMMA GReplayTask == GInv /\ ReplayTask => GInv'
<1> SUFFICES ASSUME GInv, ReplayTask PROVE GInv'
  OBVIOUS
<1>1. /\ replay' \in ReplayOf(ToSet(replay.tasks)) /\ replay'.tasks = replay.tasks
      /\ named' \in Nat
      /\ UNCHANGED <<stage, observed, reused, evaluations, report, verdict>>
  BY ReplayStepKeeps DEF ReplayTask
<1>2. replay # None
  BY DEF ReplayTask, ReplayStep, ResponseBegins, TransportFails, ReceiveChunk, ContractFails,
     TraceEvaluated, InTask
<1>3. ReplayFitsStage'
  BY <1>1, <1>2 DEF GInv, ReplayFitsStage, TaskCount
<1>4. QED
  BY <1>1, <1>3 DEF GInv, EvaluationsAreListed, CandidatesAreKnown, ObservedIsKnown,
     EveryScoreEarned, Earned, TaskCount

\* An evaluation begins with a replay, or ends the process.
LEMMA GEvaluate ==
  ASSUME GInv, NEW c \in Candidates, NEW kind, NEW tasks \in Seq(kind),
         Evaluate(c, tasks), Len(tasks) = TaskCount,
         stage \in {"experiment"} \cup Gates,
         stage = "validation" => evaluations = << >>
  PROVE  GInv'
<1>1. replay = None /\ UNCHANGED <<named, observed, reused, evaluations, report>>
  BY DEF Evaluate
<1>2. CASE c \in Unbound
  <2>1. stage' = "done" /\ UNCHANGED replay
    BY <1>2 DEF Evaluate
  <2>2. QED
    BY <1>1, <2>1 DEF GInv, Gates, EvaluationsAreListed, ReplayFitsStage, CandidatesAreKnown,
       ObservedIsKnown, EveryScoreEarned
<1>3. CASE c \notin Unbound
  <2>1. replay' = BeginReplay(c, tasks) /\ UNCHANGED stage
    BY <1>3 DEF Evaluate
  <2>2. tasks \in Seq(ToSet(tasks))
    <3>1. Len(tasks) \in Nat /\ DOMAIN tasks = 1..Len(tasks) /\ tasks \in [1..Len(tasks) -> kind]
      BY LenProperties
    <3>2. tasks \in [1..Len(tasks) -> ToSet(tasks)]
      BY <3>1 DEF ToSet
    <3>3. QED
      BY <3>1, <3>2
  <2>3. replay' \in ReplayOf(ToSet(tasks)) /\ replay'.tasks = tasks
    BY <2>1, <2>2 DEF BeginReplay, ReplayOf
  <2>4. ReplayFitsStage'
    BY <1>1, <2>1, <2>3 DEF ReplayFitsStage, TaskCount
  <2>5. QED
    BY <1>1, <2>1, <2>4 DEF GInv, EvaluationsAreListed, CandidatesAreKnown, ObservedIsKnown,
       EveryScoreEarned, Earned, TaskCount
<1>4. QED
  BY <1>2, <1>3

\* Only a fresh replay scores, so its score is earned; and its traces are
\* remembered.
LEMMA GRecordEvaluation == GInv /\ RecordEvaluation => GInv'
<1> SUFFICES ASSUME GInv, RecordEvaluation PROVE GInv'
  OBVIOUS
<1> DEFINE e == Scored(replay, observed)
           n == Len(evaluations)
           traces == TracesOf(replay)
<1>1. /\ replay # None /\ replay \in ReplayOf(ToSet(replay.tasks))
      /\ stage \in {"experiment"} \cup Gates
      /\ Len(replay.tasks) = TaskCount
  BY DEF RecordEvaluation, ReplayFinished, GInv, ReplayFitsStage
<1>2. /\ evaluations' = Append(evaluations, e)
      /\ observed' = observed \cup ToSet(traces)
      /\ replay' = None
      /\ UNCHANGED <<named, stage, report, verdict>>
  BY DEF RecordEvaluation
<1>3. /\ e.candidate = replay.candidate /\ e.traces = traces
      /\ e.score > 0 => Fresh(replay, observed)
  BY DEF Scored
<1>4. e.candidate \in Candidates
  BY <1>1, <1>3 DEF ReplayOf
<1>5. e.score > 0 => /\ ToSet(e.traces) \cap observed = {}
                     /\ Cardinality(ToSet(e.traces)) = TaskCount
  BY <1>1, <1>3, FreshTraces
<1> HIDE DEF e, traces
<1>6. /\ evaluations' \in Seq(ToSet(evaluations'))
      /\ n \in Nat /\ DOMAIN evaluations = 1..n /\ DOMAIN evaluations' = 1..(n + 1)
      /\ \A i \in 1..n : evaluations'[i] = evaluations[i]
      /\ evaluations'[n + 1] = e
  BY <1>2, Appended DEF GInv, EvaluationsAreListed
<1>7. /\ AllTraces(evaluations)' = AllTraces(evaluations) \cup ToSet(traces)
      /\ \A i \in 1..n : ToSet(evaluations[i].traces) \subseteq AllTraces(evaluations)
  BY <1>2, <1>3, TracesOneByOne DEF GInv, EvaluationsAreListed
<1> HIDE DEF n
<1>8. ObservedIsKnown'
  BY <1>1, <1>2, <1>7 DEF GInv, ObservedIsKnown, Gates
<1>9. /\ AllTraces(evaluations) \subseteq observed
      /\ stage \in Gates => report.observed \subseteq observed
  BY <1>1 DEF GInv, ObservedIsKnown, Gates
<1>10. ASSUME NEW i \in 1..(n + 1) PROVE Earned(i)'
  <2>1. CASE i \in 1..n
    <3>1. Earned(i)
      BY <1>1, <1>6, <2>1 DEF GInv, EveryScoreEarned, Gates
    <3>2. evaluations'[i] = evaluations[i]
          /\ \A k \in 1..(i - 1) : evaluations'[k] = evaluations[k]
      BY <1>6, <2>1
    <3>3. QED
      BY <1>2, <3>1, <3>2 DEF Earned, TaskCount
  <2>2. CASE i = n + 1
    <3>1. evaluations'[i] = e /\ \A k \in 1..(i - 1) : k \in 1..n /\ evaluations'[k] = evaluations[k]
      BY <1>6, <2>2
    <3>2. e.score > 0 =>
            /\ Cardinality(ToSet(e.traces)) = TaskCount
            /\ \A k \in 1..(i - 1) : ToSet(e.traces) \cap ToSet(evaluations[k].traces) = {}
            /\ stage \in Gates => ToSet(e.traces) \cap report.observed = {}
      BY <1>5, <1>7, <1>9, <3>1
    <3>3. QED
      BY <1>2, <3>1, <3>2 DEF Earned, TaskCount
  <2>3. QED
    BY <1>6, <2>1, <2>2
<1>11. EveryScoreEarned'
  BY <1>6, <1>10 DEF EveryScoreEarned
<1>12. CandidatesAreKnown'
  <2>1. \A i \in 1..(n + 1) : evaluations'[i].candidate \in Candidates
    BY <1>4, <1>6 DEF GInv, CandidatesAreKnown
  <2>2. QED
    BY <1>2, <1>6, <2>1 DEF GInv, CandidatesAreKnown
<1>13. QED
  BY <1>2, <1>6, <1>8, <1>11, <1>12 DEF GInv, EvaluationsAreListed, ReplayFitsStage

\* The report is written between two replays and lists what was observed.
LEMMA GEngineReturns == GInv /\ EngineReturns => GInv'
<1> SUFFICES ASSUME GInv, EngineReturns PROVE GInv'
  OBVIOUS
<1>1. PICK b \in DOMAIN evaluations :
        report' = [best |-> evaluations[b].candidate, best_score |-> evaluations[b].score,
                   seed_score |-> SeedScore, improved |-> evaluations[b].score > SeedScore,
                   observed |-> observed]
  BY DEF EngineReturns
<1>2. /\ stage = "experiment" /\ replay = None /\ stage' = "reported"
      /\ UNCHANGED <<replay, named, observed, evaluations>>
      /\ report'.best \in Candidates /\ report'.observed = observed
  BY <1>1 DEF EngineReturns, GInv, CandidatesAreKnown
<1>3. EveryScoreEarned'
  BY <1>2 DEF GInv, EveryScoreEarned, Earned, TaskCount, Gates
<1>4. QED
  BY <1>2, <1>3 DEF GInv, EvaluationsAreListed, ReplayFitsStage, CandidatesAreKnown,
     ObservedIsKnown, Gates

\* A gate begins with the report and nothing else.
LEMMA GStartGate ==
  ASSUME GInv, NEW gate \in Gates, StartGate(gate)
  PROVE  GInv'
<1>1. /\ stage = "reported" /\ stage' = gate /\ observed' = report.observed
      /\ evaluations' = << >> /\ UNCHANGED <<replay, named, report>>
  BY DEF StartGate
<1>2. replay = None /\ report.best \in Candidates
  BY <1>1 DEF GInv, ReplayFitsStage, CandidatesAreKnown, Gates
<1>3. ToSet(evaluations') = {} /\ AllTraces(evaluations)' = {}
  BY <1>1 DEF ToSet, AllTraces
<1>4. QED
  BY <1>1, <1>2, <1>3 DEF GInv, EvaluationsAreListed, ReplayFitsStage, CandidatesAreKnown,
     ObservedIsKnown, EveryScoreEarned, Gates

\* Whatever ends the process has no replay under way.
LEMMA GEnds ==
  ASSUME GInv, replay = None, stage' = "done",
         UNCHANGED <<replay, named, observed, evaluations, report>>
  PROVE  GInv'
  BY DEF GInv, EvaluationsAreListed, ReplayFitsStage, CandidatesAreKnown, ObservedIsKnown,
     EveryScoreEarned, Gates

\* Every step of experiment and gates keeps the invariant.
LEMMA GNext == GInv /\ [Next]_vars => GInv'
<1> SUFFICES ASSUME GInv, [Next]_vars PROVE GInv'
  OBVIOUS
<1>1. CASE EngineEvaluates
  <2>1. PICK c \in Candidates : Evaluate(c, TrainingTasks)
    BY <1>1 DEF EngineEvaluates
  <2>2. stage = "experiment" /\ Len(TrainingTasks) = TaskCount
    BY <1>1 DEF EngineEvaluates, TaskCount
  <2>3. QED
    BY <2>1, <2>2, GEvaluate, TaskAssumption
<1>2. CASE ValidationEvaluates
  <2>1. /\ stage = "validation" /\ evaluations = << >> /\ report.best \in Candidates
        /\ Evaluate(report.best, ValidationTasks) /\ Len(ValidationTasks) = TaskCount
    BY <1>2 DEF ValidationEvaluates, TaskCount, GInv, CandidatesAreKnown, Gates
  <2>2. QED
    BY <2>1, GEvaluate, TaskAssumption DEF Gates
<1>3. CASE StabilityEvaluates
  <2> DEFINE task == StabilityTasks[TaskIndex(Len(evaluations) \div 2) + 1]
  <2>1. stage = "stability" /\ report.best \in Candidates
    BY <1>3 DEF StabilityEvaluates, GInv, CandidatesAreKnown, Gates
  <2>2. Evaluate(Seed, <<task>>) \/ Evaluate(report.best, <<task>>)
    BY <1>3 DEF StabilityEvaluates
  <2> HIDE DEF task
  <2>3. <<task>> \in Seq({task}) /\ Len(<<task>>) = TaskCount
    BY <2>1 DEF TaskCount
  <2>4. QED
    BY <2>1, <2>2, <2>3, GEvaluate, CandidateAssumption DEF Gates
<1>4. CASE ReplayTask
  BY <1>4, GReplayTask
<1>5. CASE RecordEvaluation
  BY <1>5, GRecordEvaluation
<1>6. CASE EngineReturns
  BY <1>6, GEngineReturns
<1>7. CASE EngineFails
  BY <1>7, GEnds DEF EngineFails
<1>8. CASE StartGate("validation") \/ StartGate("stability")
  BY <1>8, GStartGate DEF Gates
<1>9. CASE RefuseReport
  <2>1. replay = None
    BY <1>9 DEF RefuseReport, GInv, ReplayFitsStage, Gates
  <2>2. QED
    BY <1>9, <2>1, GEnds DEF RefuseReport
<1>10. CASE ValidationDecides
  <2>1. replay = None
    BY <1>10 DEF ValidationDecides, GInv, ReplayFitsStage
  <2>2. QED
    BY <1>10, <2>1, GEnds DEF ValidationDecides, Decide
<1>11. CASE StabilityDecides
  BY <1>11, GEnds DEF StabilityDecides, Decide
<1>12. CASE UNCHANGED vars
  BY <1>12 DEF vars, GInv, EvaluationsAreListed, ReplayFitsStage, CandidatesAreKnown,
     ObservedIsKnown, EveryScoreEarned, Earned, TaskCount
<1>13. QED
  BY <1>1, <1>2, <1>3, <1>4, <1>5, <1>6, <1>7, <1>8, <1>9, <1>10, <1>11, <1>12
     DEF Next, HandOver, Work, Terminated

\* The invariant holds throughout.
LEMMA GInvariant == Spec => []GInv
  BY GInit, GNext, PTL DEF Spec

-----------------------------------------------------------------------------
(***************************************************************************)
(* The theorems.                                                           *)
(***************************************************************************)

\* The report lists every trace of the experiment, the losers' included, for
\* every budget: what a gate is handed is all it needs to know.
THEOREM ReportsRemember == Spec => []ReportRemembersTraces
<1>1. GInv => ReportRemembersTraces
  BY DEF GInv, ObservedIsKnown, ReportRemembersTraces
<1>2. QED
  BY <1>1, GInvariant, PTL

\* The traces of the evaluations before one.
LEMMA TracesBefore ==
  ASSUME NEW es, es \in Seq(ToSet(es)), NEW i \in 1..Len(es)
  PROVE  AllTraces(SubSeq(es, 1, i - 1)) = UNION {ToSet(es[k].traces) : k \in 1..(i - 1)}
<1> DEFINE before == SubSeq(es, 1, i - 1)
<1>1. /\ Len(es) \in Nat /\ DOMAIN before = 1..(i - 1)
      /\ \A k \in 1..(i - 1) : before[k] = es[k]
  OBVIOUS
<1> HIDE DEF before
<1>2. {ToSet(before[k].traces) : k \in DOMAIN before} = {ToSet(es[k].traces) : k \in 1..(i - 1)}
  BY <1>1
<1>3. QED
  BY <1>2 DEF AllTraces, before

\* A candidate only scores on as many traces as it ran tasks, none of them seen
\* before by this process or, in a gate, by the experiment.
THEOREM ScoresAreEarned == Spec => []ScoreIsEarned
<1>1. GInv => ScoreIsEarned
  <2> SUFFICES ASSUME GInv, stage # "done", NEW i \in DOMAIN evaluations,
                      evaluations[i].score > 0
               PROVE  /\ Cardinality(ToSet(evaluations[i].traces)) = TaskCount
                      /\ ToSet(evaluations[i].traces)
                           \cap AllTraces(SubSeq(evaluations, 1, i - 1)) = {}
                      /\ stage \in Gates =>
                           ToSet(evaluations[i].traces) \cap report.observed = {}
    BY DEF ScoreIsEarned, Gates
  <2>1. i \in 1..Len(evaluations)
    BY LenProperties DEF GInv, EvaluationsAreListed
  <2>2. AllTraces(SubSeq(evaluations, 1, i - 1)) =
          UNION {ToSet(evaluations[k].traces) : k \in 1..(i - 1)}
    BY <2>1, TracesBefore DEF GInv, EvaluationsAreListed
  <2>3. Earned(i)
    BY DEF GInv, EveryScoreEarned
  <2>4. QED
    BY <2>2, <2>3 DEF Earned
<1>2. QED
  BY <1>1, GInvariant, PTL

-----------------------------------------------------------------------------
(***************************************************************************)
(* The gates.                                                              *)
(***************************************************************************)

\* The candidate whose turn it is in a stability gate, after so many evaluations.
OnTurn(done) ==
  IF (done % 2 = 0) = BaselineFirst(done \div 2) THEN Seed ELSE report.best

TurnsAreKept ==
  stage = "stability" =>
    /\ \A i \in DOMAIN evaluations : evaluations[i].candidate = OnTurn(i - 1)
    /\ replay # None => replay.candidate = OnTurn(Len(evaluations))

\* A validation is one evaluation.
ValidatedOnce == stage = "validation" => Len(evaluations) <= 1

\* A fresh evaluation has a trace of its own for each task.
FreshIsComplete ==
  stage # "done" =>
    \A i \in DOMAIN evaluations :
      evaluations[i].fresh =>
        /\ Cardinality(ToSet(evaluations[i].traces)) = TaskCount
        /\ stage \in Gates => ToSet(evaluations[i].traces) \cap report.observed = {}

TraceAt(p) == evaluations[p[1]].traces[p[2]]

\* As long as no trace was reused, each was seen at one place only.
NothingReused ==
  stage # "done" /\ reused = {} =>
    /\ \A p, q \in TracePlaces : TraceAt(p) = TraceAt(q) => p = q
    /\ stage \in Gates => AllTraces(evaluations) \cap report.observed = {}

\* What promotes is decided last, and with the evidence at hand.
PromotedLast == verdict = "promote" => stage = "done" /\ PromotionIsEvidenced

GateInv ==
  /\ TurnsAreKept
  /\ ValidatedOnce
  /\ FreshIsComplete
  /\ IsFiniteSet(TracePlaces)
  /\ NothingReused
  /\ PromotedLast

LEMMA GateInit == Init => GateInv
<1> SUFFICES ASSUME Init PROVE GateInv
  OBVIOUS
<1>1. TracePlaces = {} /\ IsFiniteSet(TracePlaces)
  BY FS_EmptySet DEF Init, TracePlaces
<1>2. verdict # "promote"
  BY VerdictAssumption DEF Init
<1>3. QED
  BY <1>1, <1>2 DEF Init, GateInv, TurnsAreKept, ValidatedOnce, FreshIsComplete, NothingReused,
     PromotedLast, Gates

\* Nothing of the gates depends on how far a replay is.
LEMMA GateReplayTask == GInv /\ GateInv /\ ReplayTask => GateInv'
<1> SUFFICES ASSUME GInv, GateInv, ReplayTask PROVE GateInv'
  OBVIOUS
<1>0. replay # None => replay \in ReplayOf(ToSet(replay.tasks))
  BY DEF GInv, ReplayFitsStage
<1>1. UNCHANGED <<stage, observed, reused, evaluations, report, verdict>>
  BY DEF ReplayTask
<1>2. replay # None /\ replay'.candidate = replay.candidate
  <2>1. replay # None
    BY DEF ReplayTask, ReplayStep, ResponseBegins, TransportFails, ReceiveChunk, ContractFails,
       TraceEvaluated, InTask
  <2>2. ResponseBegins \/ TransportFails \/ ReceiveChunk \/ ContractFails \/ TraceEvaluated
    BY DEF ReplayTask, ReplayStep
  <2>3. ASSUME NEW status, ErrorResult(status) PROVE replay'.candidate = replay.candidate
    BY <2>3 DEF ErrorResult
  <2>4. CASE TraceEvaluated
    <3>1. PICK outcome, trace :
            replay' = [replay EXCEPT
                         !.captured = Append(@, [trace |-> trace, outcome |-> outcome]),
                         !.results = Append(@, [status |-> "completed",
                                                matched |-> MatchExpectations(CurrentTask, outcome)]),
                         !.body = None]
      BY <2>4 DEF TraceEvaluated
    <3>2. QED
      BY <2>1, <3>1
  <2>5. CASE ResponseBegins
    BY <2>1, <2>5, <1>0 DEF ResponseBegins, ReplayOf
  <2>6. CASE TransportFails
    BY <2>1, <2>3, <2>6 DEF TransportFails
  <2>7. CASE ReceiveChunk
    BY <2>1, <2>3, <2>7, <1>0 DEF ReceiveChunk, ReplayOf
  <2>8. CASE ContractFails
    BY <2>1, <2>3, <2>8 DEF ContractFails
  <2>9. QED
    BY <2>2, <2>4, <2>5, <2>6, <2>7, <2>8
<1>3. QED
  BY <1>1, <1>2 DEF GateInv, TurnsAreKept, ValidatedOnce, FreshIsComplete, TracePlaces,
     NothingReused, TraceAt, PromotedLast, PromotionIsEvidenced, TaskCount, OnTurn, UnsafeOf

\* In a stability gate, whoever is evaluated has its turn.
LEMMA GateEvaluate ==
  ASSUME GateInv, NEW c, NEW tasks, Evaluate(c, tasks), stage # "done",
         stage = "stability" => c = OnTurn(Len(evaluations))
  PROVE  GateInv'
<1>1. replay = None /\ UNCHANGED <<named, observed, reused, evaluations, report>>
  BY DEF Evaluate
<1>2. verdict # "promote" /\ IsFiniteSet(TracePlaces)
  BY DEF GateInv, PromotedLast
<1>3. CASE c \in Unbound
  <2>1. stage' = "done" /\ verdict' = "error"
    BY <1>3 DEF Evaluate
  <2>2. QED
    BY <1>1, <1>2, <2>1 DEF GateInv, TurnsAreKept, ValidatedOnce, FreshIsComplete, TracePlaces,
       NothingReused, PromotedLast
<1>4. CASE c \notin Unbound
  <2>1. replay'.candidate = c /\ UNCHANGED <<stage, verdict>>
    BY <1>4 DEF Evaluate, BeginReplay
  <2>2. TurnsAreKept'
    BY <1>1, <2>1 DEF GateInv, TurnsAreKept, OnTurn
  <2>3. QED
    BY <1>1, <1>2, <2>1, <2>2 DEF GateInv, ValidatedOnce, FreshIsComplete, TracePlaces,
       NothingReused, TraceAt, PromotedLast, TaskCount
<1>5. QED
  BY <1>3, <1>4

\* Whatever ends a process, but for the decisions of the gates.
LEMMA GateEnds ==
  ASSUME GateInv, stage # "done", stage' = "done", verdict' = "error",
         UNCHANGED <<reused, evaluations, report>>
  PROVE  GateInv'
  BY DEF GateInv, TurnsAreKept, ValidatedOnce, FreshIsComplete, TracePlaces, NothingReused,
     PromotedLast

LEMMA GateEngineReturns == GateInv /\ EngineReturns => GateInv'
<1> SUFFICES ASSUME GateInv, EngineReturns PROVE GateInv'
  OBVIOUS
<1>1. stage = "experiment" /\ stage' = "reported"
      /\ UNCHANGED <<replay, observed, reused, evaluations, verdict>>
  BY DEF EngineReturns
<1>2. verdict # "promote"
  BY <1>1 DEF GateInv, PromotedLast
<1>3. QED
  BY <1>1, <1>2 DEF GateInv, TurnsAreKept, ValidatedOnce, FreshIsComplete, TracePlaces,
     NothingReused, TraceAt, PromotedLast, TaskCount, Gates

LEMMA GateStartGate ==
  ASSUME GInv, GateInv, NEW gate \in Gates, StartGate(gate)
  PROVE  GateInv'
<1>1. /\ stage = "reported" /\ stage' = gate
      /\ reused' = {} /\ evaluations' = << >> /\ UNCHANGED <<replay, report, verdict>>
  BY DEF StartGate
<1>2. replay = None /\ verdict # "promote"
  BY <1>1 DEF GInv, GateInv, ReplayFitsStage, PromotedLast, Gates
<1>3. TracePlaces' = {} /\ AllTraces(evaluations)' = {} /\ IsFiniteSet(TracePlaces')
  <2>1. DOMAIN evaluations' = {}
    BY <1>1
  <2>2. TracePlaces' = {} /\ AllTraces(evaluations)' = {}
    BY <2>1 DEF TracePlaces, AllTraces
  <2>3. QED
    BY <2>2, FS_EmptySet
<1>4. Len(evaluations') = 0 /\ DOMAIN evaluations' = {}
  BY <1>1
<1>5. QED
  BY <1>1, <1>2, <1>3, <1>4 DEF GateInv, TurnsAreKept, ValidatedOnce, FreshIsComplete,
     NothingReused, PromotedLast

\* A replay without duplicates has each trace once, and none seen before.
LEMMA NoDuplicates ==
  ASSUME NEW traces, NEW seen, Duplicates(traces, seen) = {}, NEW i \in DOMAIN traces
  PROVE  /\ traces[i] \notin seen
         /\ \A k \in DOMAIN traces : traces[k] = traces[i] => k = i
  BY DEF Duplicates

\* The places of the traces, one evaluation after the other.
LEMMA PlacesOneByOne ==
  ASSUME NEW n \in Nat, DOMAIN evaluations = 1..n, DOMAIN evaluations' = 1..(n + 1),
         \A i \in 1..n : evaluations'[i] = evaluations[i]
  PROVE  TracePlaces' = TracePlaces \cup ({n + 1} \X DOMAIN evaluations'[n + 1].traces)
<1> DEFINE last == {n + 1} \X DOMAIN evaluations'[n + 1].traces
<1>1. DOMAIN evaluations' = 1..n \cup {n + 1}
  OBVIOUS
<1>2. ASSUME NEW p, p \in TracePlaces' PROVE p \in TracePlaces \cup last
  <2>1. PICK i \in DOMAIN evaluations' : p \in {i} \X DOMAIN evaluations'[i].traces
    BY <1>2 DEF TracePlaces
  <2>2. CASE i \in 1..n
    BY <2>1, <2>2 DEF TracePlaces
  <2>3. CASE i = n + 1
    BY <2>1, <2>3
  <2>4. QED
    BY <1>1, <2>2, <2>3
<1>3. ASSUME NEW p, p \in TracePlaces PROVE p \in TracePlaces'
  <2>1. PICK i \in DOMAIN evaluations : p \in {i} \X DOMAIN evaluations[i].traces
    BY <1>3 DEF TracePlaces
  <2>2. i \in DOMAIN evaluations' /\ evaluations'[i] = evaluations[i]
    OBVIOUS
  <2>3. QED
    BY <2>1, <2>2 DEF TracePlaces
<1>4. ASSUME NEW p \in last PROVE p \in TracePlaces'
  BY <1>1 DEF TracePlaces
<1> HIDE DEF last
<1>5. TracePlaces' = TracePlaces \cup last
  BY <1>2, <1>3, <1>4
<1>6. QED
  BY <1>5 DEF last

\* Who was evaluated had its turn, and the evaluation counts its own traces.
LEMMA GateRecord == GInv /\ GateInv /\ RecordEvaluation => GateInv'
<1> SUFFICES ASSUME GInv, GateInv, RecordEvaluation PROVE GateInv'
  OBVIOUS
<1> DEFINE e == Scored(replay, observed)
           n == Len(evaluations)
           traces == TracesOf(replay)
<1>1. /\ replay # None /\ replay \in ReplayOf(ToSet(replay.tasks))
      /\ stage \in {"experiment"} \cup Gates
      /\ Len(replay.tasks) = TaskCount
      /\ stage = "validation" => evaluations = << >>
  BY DEF RecordEvaluation, ReplayFinished, GInv, ReplayFitsStage
<1>2. /\ evaluations' = Append(evaluations, e)
      /\ reused' = reused \cup Duplicates(traces, observed)
      /\ replay' = None
      /\ UNCHANGED <<named, stage, report, verdict>>
  BY DEF RecordEvaluation
<1>3. /\ e.candidate = replay.candidate /\ e.traces = traces
      /\ e.fresh <=> Fresh(replay, observed)
  BY DEF Scored
<1>4. e.fresh => /\ ToSet(e.traces) \cap observed = {}
                 /\ Cardinality(ToSet(e.traces)) = TaskCount
  BY <1>1, <1>3, FreshTraces
<1>5. DOMAIN e.traces = 1..Len(replay.captured) /\ Len(replay.captured) \in Nat
  BY <1>1, <1>3, TracesOfReplay
<1> HIDE DEF e, traces
<1>6. /\ n \in Nat /\ DOMAIN evaluations = 1..n /\ DOMAIN evaluations' = 1..(n + 1)
      /\ \A i \in 1..n : evaluations'[i] = evaluations[i]
      /\ evaluations'[n + 1] = e
  BY <1>2, Appended DEF GInv, EvaluationsAreListed
<1>7. /\ AllTraces(evaluations)' = AllTraces(evaluations) \cup ToSet(traces)
      /\ \A i \in 1..n : ToSet(evaluations[i].traces) \subseteq AllTraces(evaluations)
  BY <1>2, <1>3, TracesOneByOne DEF GInv, EvaluationsAreListed
<1>8. /\ AllTraces(evaluations) \subseteq observed
      /\ stage \in Gates => report.observed \subseteq observed
  BY <1>1 DEF GInv, ObservedIsKnown, Gates
<1>9. Len(evaluations') = n + 1
  BY <1>2
<1> HIDE DEF n
<1>10. TurnsAreKept'
  <2>1. ASSUME stage = "stability", NEW i \in 1..(n + 1)
        PROVE  evaluations'[i].candidate = OnTurn(i - 1)
    <3>1. CASE i \in 1..n
      BY <1>6, <2>1, <3>1 DEF GateInv, TurnsAreKept
    <3>2. CASE i = n + 1
      <4>1. i - 1 = Len(evaluations)
        BY <1>6, <3>2 DEF n
      <4>2. QED
        BY <1>1, <1>3, <1>6, <2>1, <3>2, <4>1 DEF GateInv, TurnsAreKept
    <3>3. QED
      BY <1>6, <3>1, <3>2
  <2>2. QED
    BY <1>2, <1>6, <2>1 DEF TurnsAreKept, OnTurn
<1>11. ValidatedOnce'
  BY <1>1, <1>2, <1>9 DEF ValidatedOnce, n
<1>12. FreshIsComplete'
  <2>1. ASSUME NEW i \in 1..(n + 1), evaluations'[i].fresh
        PROVE  /\ Cardinality(ToSet(evaluations'[i].traces)) = TaskCount
               /\ stage \in Gates => ToSet(evaluations'[i].traces) \cap report.observed = {}
    <3>1. CASE i \in 1..n
      BY <1>1, <1>6, <2>1, <3>1 DEF GateInv, FreshIsComplete, Gates
    <3>2. CASE i = n + 1
      BY <1>4, <1>6, <1>8, <2>1, <3>2
    <3>3. QED
      BY <1>6, <3>1, <3>2
  <2>2. QED
    BY <1>2, <1>6, <2>1 DEF FreshIsComplete, TaskCount
<1>13. TracePlaces' = TracePlaces \cup ({n + 1} \X DOMAIN e.traces)
  BY <1>6, PlacesOneByOne
<1>14. IsFiniteSet(TracePlaces')
  <2>1. IsFiniteSet({n + 1})
    BY FS_Singleton
  <2>2. IsFiniteSet(1..Len(replay.captured))
    BY <1>5, FS_Interval
  <2>3. IsFiniteSet(DOMAIN e.traces)
    BY <1>5, <2>2
  <2>4. IsFiniteSet({n + 1} \X DOMAIN e.traces)
    BY <2>1, <2>3, FS_Product
  <2>5. IsFiniteSet(TracePlaces)
    BY DEF GateInv
  <2>6. QED
    BY <1>13, <2>4, <2>5, FS_Union
<1>15. NothingReused'
  <2> SUFFICES ASSUME reused' = {} PROVE NothingReused'
    BY DEF NothingReused
  <2>1. /\ reused = {} /\ Duplicates(traces, observed) = {} /\ stage # "done"
    BY <1>1, <1>2 DEF Gates
  <2>2. /\ \A p, q \in TracePlaces : TraceAt(p) = TraceAt(q) => p = q
        /\ stage \in Gates => AllTraces(evaluations) \cap report.observed = {}
    BY <2>1 DEF GateInv, NothingReused
  <2>3. ASSUME NEW p \in TracePlaces
        PROVE  TraceAt(p)' = TraceAt(p) /\ TraceAt(p) \in observed
    <3>1. PICK i \in 1..n : p \in {i} \X DOMAIN evaluations[i].traces
      BY <1>6 DEF TracePlaces
    <3>2. p[1] = i /\ p[2] \in DOMAIN evaluations[i].traces
      BY <3>1
    <3>3. TraceAt(p) \in ToSet(evaluations[i].traces)
      BY <3>2 DEF TraceAt, ToSet
    <3>4. QED
      BY <1>6, <1>7, <1>8, <3>2, <3>3 DEF TraceAt
  <2>4. ASSUME NEW p \in {n + 1} \X DOMAIN e.traces
        PROVE  /\ p[1] = n + 1 /\ p[2] \in DOMAIN traces
               /\ TraceAt(p)' = traces[p[2]] /\ TraceAt(p)' \notin observed
    <3>1. p[1] = n + 1 /\ p[2] \in DOMAIN traces
      BY <1>3
    <3>2. TraceAt(p)' = traces[p[2]]
      BY <1>3, <1>6, <3>1 DEF TraceAt
    <3>3. QED
      BY <2>1, <3>1, <3>2, NoDuplicates
  <2>5. ASSUME NEW p \in TracePlaces', NEW q \in TracePlaces', TraceAt(p)' = TraceAt(q)'
        PROVE  p = q
    <3>1. CASE p \in TracePlaces /\ q \in TracePlaces
      BY <2>2, <2>3, <2>5, <3>1
    <3>2. CASE p \in TracePlaces /\ q \in {n + 1} \X DOMAIN e.traces
      BY <2>3, <2>4, <2>5, <3>2
    <3>3. CASE q \in TracePlaces /\ p \in {n + 1} \X DOMAIN e.traces
      BY <2>3, <2>4, <2>5, <3>3
    <3>4. CASE p \in {n + 1} \X DOMAIN e.traces /\ q \in {n + 1} \X DOMAIN e.traces
      <4>1. p[1] = q[1] /\ p[2] = q[2]
        BY <2>1, <2>4, <2>5, <3>4, NoDuplicates
      <4>2. QED
        BY <3>4, <4>1
    <3>5. QED
      BY <1>13, <3>1, <3>2, <3>3, <3>4
  <2>6. stage \in Gates => ToSet(traces) \cap report.observed = {}
    <3>1. \A t \in ToSet(traces) : t \notin observed
      BY <2>1, NoDuplicates DEF ToSet
    <3>2. QED
      BY <1>8, <3>1
  <2>7. QED
    BY <1>2, <1>7, <2>2, <2>5, <2>6 DEF NothingReused
<1>16. PromotedLast'
  BY <1>1, <1>2 DEF GateInv, PromotedLast, Gates
<1>17. QED
  BY <1>10, <1>11, <1>12, <1>14, <1>15, <1>16 DEF GateInv

\* What an evaluation that ends a validation shows.
LEMMA ValidationEvidence ==
  ASSUME GInv, GateInv, ValidationDecides, verdict' = "promote"
  PROVE  GateInv'
<1> DEFINE e == evaluations[1]
<1>1. /\ stage = "validation" /\ stage' = "done" /\ evaluations # << >>
      /\ ValidationPromotes(e)
      /\ UNCHANGED <<replay, named, observed, reused, evaluations, report>>
  BY DEF ValidationDecides, Decide
<1>2. Len(evaluations) = 1 /\ DOMAIN evaluations = {1}
  <2>1. Len(evaluations) \in Nat /\ DOMAIN evaluations = 1..Len(evaluations)
        /\ Len(evaluations) # 0
    BY <1>1, LenProperties, EmptySeq DEF GInv, EvaluationsAreListed
  <2>2. Len(evaluations) = 1
    BY <1>1, <2>1 DEF GateInv, ValidatedOnce
  <2>3. QED
    BY <2>1, <2>2
<1>3. AllTraces(evaluations) = ToSet(e.traces)
  <2>1. {ToSet(evaluations[i].traces) : i \in DOMAIN evaluations} = {ToSet(e.traces)}
    BY <1>2
  <2>2. QED
    BY <2>1 DEF AllTraces
<1>4. ValidationPolicy.fresh =>
        /\ AllTraces(evaluations) \cap report.observed = {}
        /\ Cardinality(AllTraces(evaluations)) = Len(ValidationTasks)
  <2> SUFFICES ASSUME ValidationPolicy.fresh
               PROVE  /\ ToSet(e.traces) \cap report.observed = {}
                      /\ Cardinality(ToSet(e.traces)) = Len(ValidationTasks)
    BY <1>3
  <2>1. e.fresh
    BY <1>1 DEF ValidationPromotes
  <2>2. QED
    BY <1>1, <1>2, <2>1 DEF GateInv, FreshIsComplete, TaskCount, Gates
<1>5. ValidationPolicy.match => e.passed
  BY <1>1 DEF ValidationPromotes
<1>6. ValidationPolicy.safety => UnsafeOf(report.best) = {}
  BY <1>1, <1>2 DEF ValidationPromotes, UnsafeOf
<1>7. PromotionIsEvidenced'
  BY <1>1, <1>2, <1>4, <1>5, <1>6 DEF PromotionIsEvidenced, UnsafeOf
<1>8. QED
  BY <1>1, <1>7 DEF GateInv, TurnsAreKept, ValidatedOnce, FreshIsComplete, TracePlaces,
     NothingReused, PromotedLast

\* There are at least two samples.
LEMMA SamplesAreMany == Samples \in Nat /\ Samples >= 2
<1> DEFINE k == Len(StabilityTasks)
           t == StabilityPolicy.trials
<1>1. k \in Nat /\ k # 0
  BY TaskAssumption, LenProperties, EmptySeq
<1>2. t \in Nat /\ t >= 2
  BY PolicyAssumption
<1> HIDE DEF k, t
<1>3. k * t \in Nat /\ k * t >= 2
  <2> DEFINE j == k - 1
  <2>1. j \in Nat /\ k = j + 1
    BY <1>1
  <2> HIDE DEF j
  <2>2. k * t = j * t + t /\ j * t \in Nat
    BY <1>2, <2>1
  <2>3. QED
    BY <1>2, <2>2
<1>4. QED
  BY <1>3 DEF Samples, k, t

\* The two turns of a sample.
LEMMA TurnsOfSample ==
  ASSUME NEW i \in Nat
  PROVE  /\ OnTurn(2 * i) = IF BaselineFirst(i) THEN Seed ELSE report.best
         /\ OnTurn(2 * i + 1) = IF BaselineFirst(i) THEN report.best ELSE Seed
<1>1. (2 * i) % 2 = 0 /\ (2 * i) \div 2 = i
  OBVIOUS
<1>2. (2 * i + 1) % 2 = 1 /\ (2 * i + 1) \div 2 = i
  OBVIOUS
<1>3. BaselineFirst(i) \in BOOLEAN
  BY DEF BaselineFirst
<1>4. QED
  BY <1>1, <1>2, <1>3 DEF OnTurn

\* Where a sample's evaluations are.
BaselinePlace(i) == 2 * i + (IF BaselineFirst(i) THEN 1 ELSE 2)
CandidatePlace(i) == 2 * i + (IF BaselineFirst(i) THEN 2 ELSE 1)

LEMMA SamplePlaces ==
  ASSUME GInv, GateInv, stage = "stability", Len(evaluations) = 2 * Samples
  PROVE  /\ DOMAIN evaluations = 1..(2 * Samples)
         /\ \A i \in SampleIds :
              /\ BaselinePlace(i) \in DOMAIN evaluations
              /\ CandidatePlace(i) \in DOMAIN evaluations
              /\ evaluations[BaselinePlace(i)].candidate = Seed
              /\ evaluations[CandidatePlace(i)].candidate = report.best
         /\ \A i, j \in SampleIds :
              /\ BaselinePlace(i) = BaselinePlace(j) => i = j
              /\ CandidatePlace(i) = CandidatePlace(j) => i = j
         /\ \A n \in DOMAIN evaluations : \E i \in SampleIds :
              n = BaselinePlace(i) \/ n = CandidatePlace(i)
<1>1. Samples \in Nat /\ Samples >= 2
  BY SamplesAreMany
<1>2. DOMAIN evaluations = 1..(2 * Samples)
  BY LenProperties DEF GInv, EvaluationsAreListed
<1>3. ASSUME NEW i \in SampleIds
      PROVE  /\ i \in Nat /\ 2 * i + 1 \in DOMAIN evaluations /\ 2 * i + 2 \in DOMAIN evaluations
             /\ {BaselinePlace(i), CandidatePlace(i)} = {2 * i + 1, 2 * i + 2}
             /\ BaselinePlace(i) \in {2 * i + 1, 2 * i + 2}
             /\ CandidatePlace(i) \in {2 * i + 1, 2 * i + 2}
  BY <1>1, <1>2 DEF SampleIds, BaselinePlace, CandidatePlace
<1>4. ASSUME NEW i \in SampleIds
      PROVE  /\ evaluations[BaselinePlace(i)].candidate = Seed
             /\ evaluations[CandidatePlace(i)].candidate = report.best
  <2>1. evaluations[2 * i + 1].candidate = OnTurn((2 * i + 1) - 1)
        /\ evaluations[2 * i + 2].candidate = OnTurn((2 * i + 2) - 1)
    BY <1>3 DEF GateInv, TurnsAreKept
  <2>2. (2 * i + 1) - 1 = 2 * i /\ (2 * i + 2) - 1 = 2 * i + 1
    BY <1>3
  <2>3. evaluations[2 * i + 1].candidate = OnTurn(2 * i)
        /\ evaluations[2 * i + 2].candidate = OnTurn(2 * i + 1)
    BY <2>1, <2>2
  <2>4. QED
    BY <1>3, <2>3, TurnsOfSample DEF BaselinePlace, CandidatePlace
<1>5. ASSUME NEW i \in SampleIds, NEW j \in SampleIds
      PROVE  /\ BaselinePlace(i) = BaselinePlace(j) => i = j
             /\ CandidatePlace(i) = CandidatePlace(j) => i = j
  <2>1. i \in Nat /\ j \in Nat
    BY <1>3
  <2>2. /\ BaselinePlace(i) \in {2 * i + 1, 2 * i + 2}
        /\ BaselinePlace(j) \in {2 * j + 1, 2 * j + 2}
        /\ CandidatePlace(i) \in {2 * i + 1, 2 * i + 2}
        /\ CandidatePlace(j) \in {2 * j + 1, 2 * j + 2}
    BY <1>3
  <2>3. QED
    BY <2>1, <2>2
<1>6. ASSUME NEW n \in DOMAIN evaluations
      PROVE  \E i \in SampleIds : n = BaselinePlace(i) \/ n = CandidatePlace(i)
  <2> DEFINE i == (n - 1) \div 2
  <2>1. i \in SampleIds /\ n \in {2 * i + 1, 2 * i + 2}
    BY <1>1, <1>2 DEF SampleIds
  <2> HIDE DEF i
  <2>2. QED
    BY <1>3, <2>1
<1>7. QED
  BY <1>2, <1>3, <1>4, <1>5, <1>6

\* Unsafe evaluations of winner and baseline, counted in samples: the winner is
\* unsafe where the baseline was, or where the policy counts a regression.
LEMMA UnsafeIsCounted ==
  ASSUME GInv, GateInv, stage = "stability", Len(evaluations) = 2 * Samples,
         Cardinality(SafetyRegressions) <= StabilityPolicy.max_regressions
  PROVE  Cardinality(UnsafeOf(report.best))
           <= Cardinality(UnsafeOf(Seed)) + StabilityPolicy.max_regressions
<1> DEFINE W == {i \in SampleIds : ~evaluations[CandidatePlace(i)].safe}
           B == {i \in SampleIds : ~evaluations[BaselinePlace(i)].safe}
<1>1. Samples \in Nat /\ StabilityPolicy.max_regressions \in Nat
  BY SamplesAreMany, PolicyAssumption
<1>2. IsFiniteSet(SampleIds)
  <2>1. 0 \in Int /\ Samples - 1 \in Int
    BY <1>1
  <2>2. QED
    BY <2>1, FS_Interval DEF SampleIds
<1>3. IsFiniteSet(W) /\ IsFiniteSet(B) /\ IsFiniteSet(SafetyRegressions)
  <2>1. W \subseteq SampleIds /\ B \subseteq SampleIds /\ SafetyRegressions \subseteq SampleIds
    BY DEF SafetyRegressions
  <2>2. QED
    BY <1>2, <2>1, FS_Subset
<1>4. W \subseteq B \cup SafetyRegressions
  BY DEF SafetyRegressions, BaselineOf, CandidateOf, BaselinePlace, CandidatePlace
<1> HIDE DEF W, B
<1>5. Cardinality(W) <= Cardinality(B) + Cardinality(SafetyRegressions)
  <2>1. IsFiniteSet(B \cup SafetyRegressions)
        /\ Cardinality(B \cup SafetyRegressions) =
             Cardinality(B) + Cardinality(SafetyRegressions)
               - Cardinality(B \cap SafetyRegressions)
    BY <1>3, FS_Union
  <2>2. Cardinality(W) <= Cardinality(B \cup SafetyRegressions)
    BY <1>4, <2>1, FS_Subset
  <2>3. IsFiniteSet(B \cap SafetyRegressions)
    BY <1>3, FS_Intersection
  <2>4. /\ Cardinality(W) \in Nat /\ Cardinality(B) \in Nat
        /\ Cardinality(SafetyRegressions) \in Nat
        /\ Cardinality(B \cap SafetyRegressions) \in Nat
    BY <1>3, <2>3, FS_CardinalityType
  <2>5. QED
    BY <2>1, <2>2, <2>4
<1>6. report.best # Seed =>
        /\ Cardinality(UnsafeOf(report.best)) <= Cardinality(W)
        /\ IsFiniteSet(UnsafeOf(report.best))
  <2> SUFFICES ASSUME report.best # Seed
               PROVE  /\ Cardinality(UnsafeOf(report.best)) <= Cardinality(W)
                      /\ IsFiniteSet(UnsafeOf(report.best))
    OBVIOUS
  <2> DEFINE f == [i \in W |-> CandidatePlace(i)]
  <2>1. f \in [W -> UnsafeOf(report.best)]
    BY SamplePlaces DEF W, UnsafeOf
  <2>2. ASSUME NEW n \in UnsafeOf(report.best) PROVE \E i \in W : f[i] = n
    <3>1. n \in DOMAIN evaluations /\ evaluations[n].candidate = report.best
          /\ ~evaluations[n].safe
      BY DEF UnsafeOf
    <3>2. PICK i \in SampleIds : n = BaselinePlace(i) \/ n = CandidatePlace(i)
      BY <3>1, SamplePlaces
    <3>3. n = CandidatePlace(i)
      BY <3>1, <3>2, SamplePlaces
    <3>4. QED
      BY <3>1, <3>3 DEF W
  <2> HIDE DEF f
  <2>3. f \in Surjection(W, UnsafeOf(report.best))
    BY <2>1, <2>2 DEF Surjection
  <2>4. QED
    BY <1>3, <2>3, FS_Surjection
<1>7. Cardinality(B) <= Cardinality(UnsafeOf(Seed)) /\ IsFiniteSet(UnsafeOf(Seed))
  <2> DEFINE f == [i \in B |-> BaselinePlace(i)]
  <2>1. f \in [B -> UnsafeOf(Seed)]
    BY SamplePlaces DEF B, UnsafeOf
  <2>2. \A i, j \in B : f[i] = f[j] => i = j
    BY SamplePlaces DEF B
  <2>3. IsFiniteSet(UnsafeOf(Seed))
    <3>1. UnsafeOf(Seed) \subseteq 1..(2 * Samples)
      BY SamplePlaces DEF UnsafeOf
    <3>2. 1 \in Int /\ 2 * Samples \in Int
      BY <1>1
    <3>3. IsFiniteSet(1..(2 * Samples))
      BY <3>2, FS_Interval
    <3>4. QED
      BY <3>1, <3>3, FS_Subset
  <2> HIDE DEF f
  <2>4. f \in Injection(B, UnsafeOf(Seed))
    BY <2>1, <2>2 DEF Injection, IsInjective
  <2>5. QED
    BY <2>3, <2>4, FS_Injection
<1>8. /\ Cardinality(UnsafeOf(Seed)) \in Nat /\ Cardinality(B) \in Nat /\ Cardinality(W) \in Nat
      /\ Cardinality(SafetyRegressions) \in Nat
  BY <1>3, <1>7, FS_CardinalityType
<1>9. CASE report.best = Seed
  BY <1>1, <1>8, <1>9
<1>10. CASE report.best # Seed
  <2>1. Cardinality(UnsafeOf(report.best)) \in Nat
    BY <1>6, <1>10, FS_CardinalityType
  <2>2. Cardinality(UnsafeOf(report.best)) <= Cardinality(W)
    BY <1>6, <1>10
  <2>3. QED
    BY <1>1, <1>5, <1>7, <1>8, <2>1, <2>2
<1>11. QED
  BY <1>9, <1>10

\* Without a reused trace there are as many traces as places where one was seen.
LEMMA TracesAreCounted ==
  ASSUME GateInv, stage # "done", reused = {}
  PROVE  Cardinality(AllTraces(evaluations)) = Cardinality(TracePlaces)
<1> DEFINE f == [p \in TracePlaces |-> TraceAt(p)]
<1>1. ASSUME NEW p \in TracePlaces PROVE TraceAt(p) \in AllTraces(evaluations)
  <2>1. PICK i \in DOMAIN evaluations : p \in {i} \X DOMAIN evaluations[i].traces
    BY DEF TracePlaces
  <2>2. p[1] = i /\ p[2] \in DOMAIN evaluations[i].traces
    BY <2>1
  <2>3. TraceAt(p) \in ToSet(evaluations[i].traces)
    BY <2>2 DEF TraceAt, ToSet
  <2>4. QED
    BY <2>3 DEF AllTraces
<1>2. ASSUME NEW t \in AllTraces(evaluations) PROVE \E p \in TracePlaces : TraceAt(p) = t
  <2>1. PICK i \in DOMAIN evaluations : t \in ToSet(evaluations[i].traces)
    BY DEF AllTraces
  <2>2. PICK k \in DOMAIN evaluations[i].traces : t = evaluations[i].traces[k]
    BY <2>1 DEF ToSet
  <2>3. <<i, k>> \in {i} \X DOMAIN evaluations[i].traces
    OBVIOUS
  <2>4. <<i, k>> \in TracePlaces
    BY <2>3 DEF TracePlaces
  <2>5. QED
    BY <2>2, <2>4 DEF TraceAt
<1>3. /\ f \in [TracePlaces -> AllTraces(evaluations)]
      /\ \A p, q \in TracePlaces : f[p] = f[q] => p = q
      /\ \A t \in AllTraces(evaluations) : \E p \in TracePlaces : f[p] = t
  BY <1>1, <1>2 DEF GateInv, NothingReused
<1> HIDE DEF f
<1>4. f \in Bijection(TracePlaces, AllTraces(evaluations))
  BY <1>3 DEF Bijection, Injection, Surjection, IsInjective
<1>5. ExistsBijection(TracePlaces, AllTraces(evaluations)) /\ IsFiniteSet(TracePlaces)
  BY <1>4 DEF ExistsBijection, GateInv
<1>6. QED
  BY <1>5, FS_Bijection

\* What the samples show that end a stability gate.
LEMMA StabilityEvidence ==
  ASSUME GInv, GateInv, StabilityDecides, verdict' = "promote"
  PROVE  GateInv'
<1>1. /\ stage = "stability" /\ stage' = "done" /\ Len(evaluations) = 2 * Samples
      /\ StabilityPromotes
      /\ UNCHANGED <<replay, named, observed, reused, evaluations, report>>
  BY DEF StabilityDecides, Decide
<1>2. Len(evaluations) # 1
  BY <1>1, SamplesAreMany
<1>3. StabilityPolicy.fresh =>
        /\ AllTraces(evaluations) \cap report.observed = {}
        /\ Cardinality(AllTraces(evaluations)) = 2 * Samples
  <2> SUFFICES ASSUME StabilityPolicy.fresh
               PROVE  /\ AllTraces(evaluations) \cap report.observed = {}
                      /\ Cardinality(AllTraces(evaluations)) = 2 * Samples
    OBVIOUS
  <2>1. reused = {} /\ Cardinality(TracePlaces) = 2 * Samples
    BY <1>1 DEF StabilityPromotes, StabilityFresh
  <2>2. Cardinality(AllTraces(evaluations)) = Cardinality(TracePlaces)
    BY <1>1, <2>1, TracesAreCounted
  <2>3. QED
    BY <1>1, <2>1, <2>2 DEF GateInv, NothingReused, Gates
<1>4. Cardinality(UnsafeOf(report.best))
        <= Cardinality(UnsafeOf(Seed)) + StabilityPolicy.max_regressions
  BY <1>1, UnsafeIsCounted DEF StabilityPromotes
<1>5. UNCHANGED <<AllTraces(evaluations), UnsafeOf(report.best), UnsafeOf(Seed)>>
  BY <1>1 DEF AllTraces, UnsafeOf
<1>6. PromotionIsEvidenced'
  BY <1>1, <1>2, <1>3, <1>4, <1>5 DEF PromotionIsEvidenced
<1>7. QED
  BY <1>1, <1>6 DEF GateInv, TurnsAreKept, ValidatedOnce, FreshIsComplete, TracePlaces,
     NothingReused, PromotedLast

\* Whatever else ends a process promotes nothing.
LEMMA GateDecides ==
  ASSUME GInv, GateInv, ValidationDecides \/ StabilityDecides
  PROVE  GateInv'
<1>1. CASE verdict' = "promote"
  BY <1>1, ValidationEvidence, StabilityEvidence
<1>2. CASE verdict' # "promote"
  <2>1. stage' = "done" /\ UNCHANGED <<reused, evaluations, report>>
    BY DEF ValidationDecides, StabilityDecides, Decide
  <2>2. QED
    BY <1>2, <2>1 DEF GateInv, TurnsAreKept, ValidatedOnce, FreshIsComplete, TracePlaces,
       NothingReused, PromotedLast
<1>3. QED
  BY <1>1, <1>2

\* Every step keeps the gates' invariant as well.
LEMMA GateNext == GInv /\ GateInv /\ [Next]_vars => GateInv'
<1> SUFFICES ASSUME GInv, GateInv, [Next]_vars PROVE GateInv'
  OBVIOUS
<1>1. CASE EngineEvaluates
  <2>1. PICK c \in Candidates : Evaluate(c, TrainingTasks)
    BY <1>1 DEF EngineEvaluates
  <2>2. QED
    BY <1>1, <2>1, GateEvaluate DEF EngineEvaluates
<1>2. CASE ValidationEvaluates
  BY <1>2, GateEvaluate DEF ValidationEvaluates
<1>3. CASE StabilityEvaluates
  <2> DEFINE i == Len(evaluations) \div 2
             c == IF (Len(evaluations) % 2 = 0) = BaselineFirst(i) THEN Seed ELSE report.best
  <2>1. stage = "stability" /\ Evaluate(c, <<StabilityTasks[TaskIndex(i) + 1]>>)
    BY <1>3 DEF StabilityEvaluates
  <2>2. c = OnTurn(Len(evaluations))
    BY DEF OnTurn
  <2> HIDE DEF i, c
  <2>3. QED
    BY <2>1, <2>2, GateEvaluate
<1>4. CASE ReplayTask
  BY <1>4, GateReplayTask
<1>5. CASE RecordEvaluation
  BY <1>5, GateRecord
<1>6. CASE EngineReturns
  BY <1>6, GateEngineReturns
<1>7. CASE EngineFails
  BY <1>7, GateEnds DEF EngineFails
<1>8. CASE StartGate("validation") \/ StartGate("stability")
  BY <1>8, GateStartGate DEF Gates
<1>9. CASE RefuseReport
  BY <1>9, GateEnds DEF RefuseReport
<1>10. CASE ValidationDecides \/ StabilityDecides
  BY <1>10, GateDecides
<1>11. CASE UNCHANGED vars
  BY <1>11 DEF vars, GateInv, TurnsAreKept, ValidatedOnce, FreshIsComplete, TracePlaces,
     NothingReused, TraceAt, PromotedLast, PromotionIsEvidenced, TaskCount, OnTurn, UnsafeOf
<1>12. QED
  BY <1>1, <1>2, <1>3, <1>4, <1>5, <1>6, <1>7, <1>8, <1>9, <1>10, <1>11
     DEF Next, HandOver, Work, Terminated

LEMMA GateInvariant == Spec => []GateInv
<1>1. Init => GateInv
  BY GateInit
<1>2. GInv /\ GateInv /\ [Next]_vars => GateInv'
  BY GateNext
<1>3. QED
  BY <1>1, <1>2, GInvariant, PTL DEF Spec

\* A promoted winner has traces of its own, none of them known to the experiment
\* it won, where the policy asks for them; and after a stability gate it was
\* unsafe no more often than the seed, beyond what the policy allows
\* (validate_gepa_candidate_report, run_gepa_stability_report).
THEOREM PromotionsAreEvidenced == Spec => []PromotionIsEvidenced
<1>1. GateInv => PromotionIsEvidenced
  BY DEF GateInv, PromotedLast, PromotionIsEvidenced
<1>2. QED
  BY <1>1, GateInvariant, PTL

\* Consecutive trials of a task begin with the other of the two candidates.
LEMMA TrialsTakeTurns ==
  ASSUME NEW i \in Nat, i > 0, TaskIndex(i) = TaskIndex(i - 1)
  PROVE  BaselineFirst(i) <=> ~BaselineFirst(i - 1)
<1> DEFINE t == StabilityPolicy.trials
           q == i \div t
           r == i % t
           s == (i - 1) % t
<1>1. t \in Nat /\ t > 0
  BY PolicyAssumption
<1>2. q = (i - 1) \div t
  BY DEF TaskIndex
<1>3. r \in Nat /\ s \in Nat /\ q \in Nat
  BY <1>1
<1>4. i = t * q + r /\ i - 1 = t * q + s
  <2>1. \A n \in Nat : n = t * (n \div t) + (n % t)
    BY <1>1, Z3
  <2>2. QED
    BY <1>2, <2>1
<1> HIDE DEF q, r, s
<1>5. t * q \in Nat
  BY <1>1, <1>3
<1>6. r = s + 1
  BY <1>3, <1>4, <1>5
<1>7. BaselineFirst(i) <=> (q + (r + 1)) % 2 = 1
  BY DEF BaselineFirst, TaskIndex, TrialNumber, q, r
<1>8. BaselineFirst(i - 1) <=> (q + (s + 1)) % 2 = 1
  BY <1>2 DEF BaselineFirst, TaskIndex, TrialNumber, s
<1>9. QED
  BY <1>3, <1>6, <1>7, <1>8

\* However many tasks and trials, neither of the two always goes first
\* (run_gepa_stability_report).
THEOREM TrialsAlternateAlways == Spec => []TrialsAlternate
<1>1. GInv /\ GateInv => TrialsAlternate
  <2> SUFFICES ASSUME GInv, GateInv, stage = "stability", NEW i \in SampleIds,
                      Len(evaluations) >= 2 * i + 2
               PROVE  /\ {evaluations[2 * i + 1].candidate, evaluations[2 * i + 2].candidate}
                           = {Seed, report.best}
                      /\ i > 0 /\ TaskIndex(i) = TaskIndex(i - 1) /\ Seed # report.best =>
                           evaluations[2 * i + 1].candidate # evaluations[2 * i - 1].candidate
    BY DEF TrialsAlternate
  <2>1. Len(evaluations) \in Nat /\ DOMAIN evaluations = 1..Len(evaluations)
    BY LenProperties DEF GInv, EvaluationsAreListed
  <2>2. i \in Nat
    BY DEF SampleIds
  <2>3. ASSUME NEW n \in Nat, n < Len(evaluations)
        PROVE  evaluations[n + 1].candidate = OnTurn(n)
    <3>1. n + 1 \in DOMAIN evaluations /\ (n + 1) - 1 = n
      BY <2>1, <2>3
    <3>2. QED
      BY <3>1 DEF GateInv, TurnsAreKept
  <2>4. /\ evaluations[2 * i + 1].candidate = OnTurn(2 * i)
        /\ evaluations[2 * i + 2].candidate = OnTurn(2 * i + 1)
    <3>1. 2 * i \in Nat /\ 2 * i < Len(evaluations) /\ 2 * i + 1 \in Nat
          /\ 2 * i + 1 < Len(evaluations) /\ (2 * i + 1) + 1 = 2 * i + 2
      BY <2>1, <2>2
    <3>2. evaluations[(2 * i + 1) + 1].candidate = OnTurn(2 * i + 1)
      BY <2>3, <3>1
    <3>3. QED
      BY <2>3, <3>1, <3>2
  <2>5. ASSUME i > 0, TaskIndex(i) = TaskIndex(i - 1), Seed # report.best
        PROVE  evaluations[2 * i + 1].candidate # evaluations[2 * i - 1].candidate
    <3> DEFINE k == i - 1
    <3>1. k \in Nat /\ 2 * k \in Nat /\ 2 * k < Len(evaluations) /\ 2 * k + 1 = 2 * i - 1
      BY <2>1, <2>2, <2>5
    <3>2. BaselineFirst(i) <=> ~BaselineFirst(k)
      BY <2>2, <2>5, TrialsTakeTurns
    <3> HIDE DEF k
    <3>3. evaluations[2 * i - 1].candidate = OnTurn(2 * k)
      BY <2>3, <3>1
    <3>4. QED
      BY <2>2, <2>4, <2>5, <3>1, <3>2, <3>3, TurnsOfSample
  <2>6. QED
    BY <2>2, <2>4, <2>5, TurnsOfSample
<1>2. QED
  BY <1>1, GInvariant, GateInvariant, PTL

-----------------------------------------------------------------------------
(***************************************************************************)
(* Types.                                                                  *)
(***************************************************************************)

\* The mean of some rewards, in 1/10000, is one again.
LEMMA MeanIsScore ==
  ASSUME NEW total \in Nat, NEW n \in Nat, total <= Unit * n
  PROVE  Mean(total, n) \in 0..Unit
<1>1. CASE n = 0
  BY <1>1 DEF Mean, Unit
<1>2. CASE n > 0
  <2> DEFINE k == 2 * total + n
             d == 2 * n
  <2>1. k \in Nat /\ d \in Nat /\ d > 0 /\ 0 * d <= k /\ k < (Unit + 1) * d
    BY <1>2 DEF Unit
  <2>2. 0 \in Int /\ Unit \in Int
    BY DEF Unit
  <2> HIDE DEF k, d
  <2>3. k \div d \in Int /\ 0 <= k \div d /\ k \div d <= Unit
    BY <2>1, <2>2, QuotientBetween
  <2>4. Mean(total, n) = k \div d
    BY <1>2 DEF Mean, k, d
  <2>5. QED
    BY <2>2, <2>3, <2>4
<1>3. QED
  BY <1>1, <1>2

\* The rewards of a replay add up to at most one unit for each trace.
LEMMA RewardsAreBounded ==
  ASSUME NEW r, r.captured \in Seq(Captured)
  PROVE  RewardSum(r) \in Nat /\ RewardSum(r) <= Unit * Len(r.captured)
<1> DEFINE S == DOMAIN r.captured
           v == [i \in S |-> RecommendedReward(r.captured[i].outcome)]
           sum == CHOOSE it : it = [s \in SUBSET S |->
                    IF s = {} THEN 0
                    ELSE RecommendedReward(r.captured[Picked(s)].outcome) + it[s \ {Picked(s)}]]
<1>1. S = 1..Len(r.captured) /\ Len(r.captured) \in Nat
  BY LenProperties
<1>2. IsFiniteSet(S) /\ Cardinality(S) = Len(r.captured)
  <2>1. IsFiniteSet(1..Len(r.captured)) /\ Cardinality(1..Len(r.captured)) = Len(r.captured)
    BY <1>1, FS_Interval
  <2>2. QED
    BY <1>1, <2>1
<1>3. ASSUME NEW i \in S PROVE v[i] \in 0..Unit
  <2>1. r.captured[i] \in Captured
    BY <1>1
  <2> DEFINE outcome == r.captured[i].outcome
  <2>2. outcome \in Outcome
    BY <2>1, OutcomeAssumption DEF Captured
  <2>3. v[i] = RecommendedReward(outcome)
    OBVIOUS
  <2> HIDE DEF outcome, v
  <2>4. QED
    BY <2>2, <2>3 DEF Outcome, RecommendedReward, Unit
<1>4. PICK it : Adds(it, S, v)
  BY <1>2, SumExists
<1>5. it = [s \in SUBSET S |->
              IF s = {} THEN 0
              ELSE RecommendedReward(r.captured[Picked(s)].outcome) + it[s \ {Picked(s)}]]
  <2>1. \A s \in SUBSET S : s # {} =>
          v[Picked(s)] = RecommendedReward(r.captured[Picked(s)].outcome)
    BY <1>2, PickedOut
  <2> HIDE DEF v, S
  <2>2. QED
    BY <1>4, <2>1 DEF Adds
<1>6. sum = [s \in SUBSET S |->
               IF s = {} THEN 0
               ELSE RecommendedReward(r.captured[Picked(s)].outcome) + sum[s \ {Picked(s)}]]
  <2> HIDE DEF S, v
  <2>1. QED
    BY <1>5, Zenon
<1>7. Adds(sum, S, v)
  <2>1. \A s \in SUBSET S : s # {} =>
          v[Picked(s)] = RecommendedReward(r.captured[Picked(s)].outcome)
    BY <1>2, PickedOut
  <2> HIDE DEF v, S, sum
  <2>2. QED
    BY <1>6, <2>1 DEF Adds
<1>8. RewardSum(r) = sum[S]
  BY DEF RewardSum, MapThenSumSet, MapThenFoldSet, Picked
<1> HIDE DEF S, v, sum
<1>9. sum[S] \in Nat /\ sum[S] <= Unit * Cardinality(S)
  <2>1. Unit \in Nat
    BY DEF Unit
  <2>2. QED
    BY <1>2, <1>3, <1>7, <2>1, SumIsBounded
<1>10. QED
  BY <1>2, <1>8, <1>9

\* A replay of tasks, and ids that the endpoint has used.
ReplayTyped ==
  replay # None =>
    /\ replay.candidate \in Candidates /\ replay.tasks \in Seq(Task)
    /\ replay.results \in Seq(TaskResult) /\ replay.captured \in Seq(Captured)
    /\ replay.body \in 0..MaxResponse + 1 \cup {None}
    /\ \A i \in DOMAIN replay.captured : replay.captured[i].trace <= named

\* Types, and what they rest on: the ids of a replay and of a report are ids the
\* endpoint has used.
TypeInv ==
  /\ TypeOK
  /\ ReplayTyped
  /\ stage \in {"reported"} \cup Gates => report \in Report /\ report.observed \subseteq 1..named

\* What a replay is evaluated to is an evaluation.
LEMMA EvaluationIsTyped ==
  ASSUME TypeInv, NEW seen, replay # None
  PROVE  /\ Scored(replay, seen) \in Evaluation
         /\ ToSet(TracesOf(replay)) \subseteq 1..named
         /\ Duplicates(TracesOf(replay), seen) \subseteq ToSet(TracesOf(replay))
<1>1. /\ replay.candidate \in Candidates /\ replay.captured \in Seq(Captured) /\ named \in Nat
      /\ Len(replay.tasks) \in Nat
      /\ \A i \in DOMAIN replay.captured : replay.captured[i].trace <= named
  BY LenProperties DEF TypeInv, ReplayTyped, TypeOK
<1> DEFINE traces == TracesOf(replay)
           n == Len(replay.captured)
<1>2. n \in Nat /\ DOMAIN replay.captured = 1..n
  BY <1>1, LenProperties
<1>3. \A i \in 1..n : replay.captured[i] \in Captured
  BY <1>1, <1>2
<1>4. DOMAIN traces = 1..n /\ \A i \in 1..n : traces[i] \in Nat \ {0} /\ traces[i] <= named
  BY <1>1, <1>2, <1>3 DEF TracesOf, Captured
<1>5. traces \in [1..n -> Nat \ {0}]
  BY <1>2, <1>4 DEF TracesOf
<1>6. ToSet(traces) \subseteq 1..named
  BY <1>1, <1>4 DEF ToSet
<1>7. Duplicates(traces, seen) \subseteq ToSet(traces)
  BY DEF Duplicates, ToSet
<1>8. traces \in Seq(Nat \ {0})
  <2> HIDE DEF traces, n
  <2>1. QED
    BY <1>2, <1>5
<1>9. (IF Fresh(replay, seen) THEN Mean(RewardSum(replay), Len(replay.tasks)) ELSE 0) \in 0..Unit
  <2>1. RewardSum(replay) \in Nat /\ RewardSum(replay) <= Unit * n
    BY <1>1, RewardsAreBounded
  <2>2. ASSUME Fresh(replay, seen)
        PROVE  Mean(RewardSum(replay), Len(replay.tasks)) \in 0..Unit
    <3>1. n = Len(replay.tasks)
      BY <2>2 DEF Fresh
    <3>2. QED
      BY <1>1, <2>1, <3>1, MeanIsScore
  <2>3. 0 \in 0..Unit
    BY DEF Unit
  <2>4. QED
    BY <2>2, <2>3
<1>10. Fresh(replay, seen) \in BOOLEAN /\ ReplayPassed(replay) \in BOOLEAN
       /\ (Cardinality(SafeTraces(replay)) = Len(replay.tasks)) \in BOOLEAN
  BY DEF Fresh, ReplayPassed
<1>11. QED
  BY <1>1, <1>6, <1>7, <1>8, <1>9, <1>10 DEF Scored, Evaluation

LEMMA TypeInit == Init => TypeInv
<1> SUFFICES ASSUME Init PROVE TypeInv
  OBVIOUS
<1>1. << >> \in Seq(Evaluation)
  OBVIOUS
<1>2. QED
  BY <1>1 DEF Init, TypeInv, TypeOK, ReplayTyped, Gates

\* Replays keep to their types, and name ids one after the other.
LEMMA TypeReplayTask == GInv /\ TypeInv /\ ReplayTask => TypeInv'
<1> SUFFICES ASSUME GInv, TypeInv, ReplayTask PROVE TypeInv'
  OBVIOUS
<1>1. UNCHANGED <<stage, observed, reused, evaluations, report, verdict>>
  BY DEF ReplayTask
<1>2. /\ replay # None /\ replay \in ReplayOf(ToSet(replay.tasks)) /\ named \in Nat
  BY DEF ReplayTask, ReplayStep, ResponseBegins, TransportFails, ReceiveChunk, ContractFails,
     TraceEvaluated, InTask, GInv, ReplayFitsStage
<1>3. /\ replay.candidate \in Candidates /\ replay.tasks \in Seq(Task)
      /\ replay.results \in Seq(TaskResult) /\ replay.captured \in Seq(Captured)
      /\ replay.body \in 0..MaxResponse + 1 \cup {None}
      /\ \A i \in DOMAIN replay.captured : replay.captured[i].trace <= named
  BY <1>2 DEF TypeInv, ReplayTyped
<1>4. MaxResponse \in Nat
  BY LimitAssumption
<1>5. ASSUME NEW status \in {"completed", "transport_error", "contract_error"},
             NEW matched \in BOOLEAN
      PROVE  Append(replay.results, [status |-> status, matched |-> matched]) \in Seq(TaskResult)
  BY <1>3, <1>5 DEF TaskResult
<1>6. (named' \in Nat /\ named <= named') /\ ReplayTyped'
  <2>1. ASSUME NEW status \in {"transport_error", "contract_error"}, ErrorResult(status),
               UNCHANGED named
        PROVE  named' \in Nat /\ named <= named' /\ ReplayTyped'
    <3> DEFINE more == Append(replay.results, [status |-> status, matched |-> FALSE])
    <3>1. more \in Seq(TaskResult) /\ replay' = [replay EXCEPT !.results = more, !.body = None]
      BY <1>5, <2>1 DEF ErrorResult
    <3> HIDE DEF more
    <3>2. QED
      BY <1>2, <1>3, <2>1, <3>1 DEF ReplayTyped, ReplayOf
  <2>2. CASE ResponseBegins
    BY <1>2, <1>3, <1>4, <2>2 DEF ResponseBegins, ReplayTyped, ReplayOf
  <2>3. CASE TransportFails
    BY <2>1, <2>3 DEF TransportFails
  <2>4. CASE ReceiveChunk
    <3>1. CASE ErrorResult("contract_error")
      BY <2>1, <2>4, <3>1 DEF ReceiveChunk
    <3>2. CASE /\ replay.body + 1 <= MaxResponse /\ replay.body # None
               /\ replay' = [replay EXCEPT !.body = @ + 1]
      <4>1. replay.body + 1 \in 0..MaxResponse + 1
        BY <1>3, <1>4, <3>2
      <4>2. QED
        BY <1>2, <1>3, <2>4, <3>2, <4>1 DEF ReceiveChunk, ReplayTyped, ReplayOf
    <3>3. QED
      BY <1>3, <1>4, <2>4, <3>1, <3>2 DEF ReceiveChunk
  <2>5. CASE ContractFails
    BY <2>1, <2>5 DEF ContractFails
  <2>6. CASE TraceEvaluated
    <3>1. PICK outcome \in Outcomes, trace \in 1..(named + 1) :
            /\ replay' =
                 [replay EXCEPT
                    !.captured = Append(@, [trace |-> trace, outcome |-> outcome]),
                    !.results = Append(@, [status |-> "completed",
                                           matched |-> MatchExpectations(CurrentTask, outcome)]),
                    !.body = None]
            /\ named' = IF trace > named THEN trace ELSE named
      BY <2>6 DEF TraceEvaluated
    <3>2. named' \in Nat /\ named <= named' /\ trace <= named'
          /\ [trace |-> trace, outcome |-> outcome] \in Captured
      BY <1>2, <3>1 DEF Captured
    <3> DEFINE more == Append(replay.results,
                              [status |-> "completed",
                               matched |-> MatchExpectations(CurrentTask, outcome)])
               last == [trace |-> trace, outcome |-> outcome]
               seen == Append(replay.captured, last)
    <3>3. more \in Seq(TaskResult)
      BY <1>5 DEF MatchExpectations
    <3>4. seen \in Seq(Captured) /\ replay' = [replay EXCEPT !.captured = seen,
                                                !.results = more, !.body = None]
      BY <1>3, <3>1, <3>2
    <3>5. \A i \in DOMAIN seen : seen[i].trace <= named'
      <4> DEFINE n == Len(replay.captured)
      <4>1. n \in Nat /\ DOMAIN replay.captured = 1..n
            /\ \A i \in 1..n : replay.captured[i] \in Captured
        BY <1>3, LenProperties
      <4>2. /\ Len(seen) = n + 1
            /\ seen[n + 1] = last
            /\ \A i \in 1..n : seen[i] = replay.captured[i]
        BY <1>3, <3>2, AppendProperties
      <4>3. DOMAIN seen = 1..(n + 1)
        BY <3>4, <4>2, LenProperties
      <4> HIDE DEF seen, n
      <4>4. ASSUME NEW i \in 1..n PROVE seen[i].trace <= named'
        <5>1. replay.captured[i].trace <= named /\ replay.captured[i].trace \in Nat
          BY <1>3, <4>1 DEF Captured
        <5>2. QED
          BY <1>2, <3>2, <4>2, <5>1
      <4>5. last.trace <= named'
        BY <3>2
      <4>6. SUFFICES ASSUME NEW i \in 1..(n + 1) PROVE seen[i].trace <= named'
        BY <4>3
      <4>a. CASE i \in 1..n
        BY <4>4, <4>a
      <4>b. CASE i = n + 1
        <5>1. seen[i] = last
          BY <4>2, <4>b
        <5>2. QED
          BY <3>2, <5>1
      <4>7. i \in 1..n \/ i = n + 1
        BY <4>1
      <4>8. QED
        BY <4>6, <4>7, <4>a, <4>b
    <3> HIDE DEF more, seen, last
    <3>6. /\ replay'.captured = seen /\ replay'.results = more /\ replay'.body = None
          /\ replay'.candidate = replay.candidate /\ replay'.tasks = replay.tasks
      BY <1>2, <3>4 DEF ReplayOf
    <3>7. QED
      BY <1>3, <3>2, <3>3, <3>4, <3>5, <3>6 DEF ReplayTyped
  <2>7. QED
    BY <2>2, <2>3, <2>4, <2>5, <2>6 DEF ReplayTask, ReplayStep
<1>7. TypeOK'
  BY <1>1, <1>2, <1>6 DEF TypeInv, TypeOK, ReplayTyped
<1>8. QED
  BY <1>1, <1>2, <1>6, <1>7 DEF TypeInv, Gates

\* An evaluation begins with a replay of tasks.
LEMMA TypeEvaluate ==
  ASSUME TypeInv, NEW c \in Candidates, NEW tasks \in Seq(Task), Evaluate(c, tasks),
         stage \in {"experiment"} \cup Gates
  PROVE  TypeInv'
<1>1. replay = None /\ UNCHANGED <<named, observed, reused, evaluations, report>>
  BY DEF Evaluate
<1>2. CASE c \in Unbound
  <2>1. stage' = "done" /\ verdict' = "error" /\ UNCHANGED replay
    BY <1>2 DEF Evaluate
  <2>2. QED
    BY <1>1, <2>1 DEF TypeInv, TypeOK, ReplayTyped, Gates
<1>3. CASE c \notin Unbound
  <2>1. replay' = BeginReplay(c, tasks) /\ UNCHANGED <<stage, verdict>>
    BY <1>3 DEF Evaluate
  <2>2. /\ replay'.candidate \in Candidates /\ replay'.tasks \in Seq(Task)
        /\ replay'.results \in Seq(TaskResult) /\ replay'.captured \in Seq(Captured)
        /\ replay'.body \in 0..MaxResponse + 1 \cup {None}
        /\ \A i \in DOMAIN replay'.captured : replay'.captured[i].trace <= named'
    BY <1>1, <2>1 DEF BeginReplay
  <2>3. TypeOK' /\ ReplayTyped'
    BY <1>1, <2>1, <2>2 DEF TypeInv, TypeOK, ReplayTyped
  <2>4. QED
    BY <1>1, <2>1, <2>3 DEF TypeInv, Gates
<1>4. QED
  BY <1>2, <1>3

LEMMA TypeRecord == GInv /\ TypeInv /\ RecordEvaluation => TypeInv'
<1> SUFFICES ASSUME GInv, TypeInv, RecordEvaluation PROVE TypeInv'
  OBVIOUS
<1>1. replay # None
  BY DEF RecordEvaluation, ReplayFinished
<1>2. /\ evaluations' = Append(evaluations, Scored(replay, observed))
      /\ observed' = observed \cup ToSet(TracesOf(replay))
      /\ reused' = reused \cup Duplicates(TracesOf(replay), observed)
      /\ replay' = None
      /\ UNCHANGED <<named, stage, report, verdict>>
  BY DEF RecordEvaluation
<1>3. /\ Scored(replay, observed) \in Evaluation
      /\ ToSet(TracesOf(replay)) \subseteq 1..named
      /\ Duplicates(TracesOf(replay), observed) \subseteq ToSet(TracesOf(replay))
  BY <1>1, EvaluationIsTyped
<1>4. evaluations' \in Seq(Evaluation)
  <2>1. evaluations \in Seq(Evaluation)
    BY DEF TypeInv, TypeOK
  <2> HIDE DEF Evaluation
  <2>2. QED
    BY <1>2, <1>3, <2>1
<1>5. observed' \subseteq 1..named' /\ reused' \subseteq observed'
  BY <1>2, <1>3 DEF TypeInv, TypeOK
<1>6. QED
  BY <1>2, <1>4, <1>5 DEF TypeInv, TypeOK, ReplayTyped, Gates

\* The report is drawn from the evaluations, the first of the seed among them.
LEMMA TypeEngineReturns == GInv /\ TypeInv /\ EngineReturns => TypeInv'
<1> SUFFICES ASSUME GInv, TypeInv, EngineReturns PROVE TypeInv'
  OBVIOUS
<1>1. PICK b \in DOMAIN evaluations :
        report' = [best |-> evaluations[b].candidate, best_score |-> evaluations[b].score,
                   seed_score |-> SeedScore, improved |-> evaluations[b].score > SeedScore,
                   observed |-> observed]
  BY DEF EngineReturns
<1>2. /\ stage' = "reported" /\ stage = "experiment"
      /\ UNCHANGED <<replay, named, observed, reused, evaluations, verdict>>
  BY DEF EngineReturns
<1>3. /\ DOMAIN evaluations = 1..Len(evaluations) /\ Len(evaluations) \in Nat
      /\ \A i \in DOMAIN evaluations : evaluations[i] \in Evaluation
  BY LenProperties DEF TypeInv, TypeOK
<1>4. \A i \in DOMAIN evaluations :
        evaluations[i].candidate \in Candidates /\ evaluations[i].score \in 0..Unit
  BY <1>3 DEF Evaluation
<1>5. SeedScore \in 0..Unit
  <2> DEFINE own == {i \in DOMAIN evaluations : evaluations[i].candidate = Seed}
  <2>1. CASE own = {}
    <3>1. 1 \in DOMAIN evaluations
      BY <1>3
    <3>2. SeedScore = evaluations[1].score
      BY <2>1 DEF SeedScore
    <3>3. QED
      BY <1>4, <3>1, <3>2
  <2>2. CASE own # {}
    <3>1. own \subseteq Nat /\ own \subseteq DOMAIN evaluations
      BY <1>3
    <3> HIDE DEF own
    <3>2. \E x \in own : \A y \in own : x <= y
      BY <2>2, <3>1, LeastNatural
    <3>3. Min(own) \in own
      BY <3>2 DEF Min
    <3>4. SeedScore = evaluations[Min(own)].score
      BY <2>2 DEF SeedScore, own
    <3>5. QED
      BY <1>4, <3>1, <3>3, <3>4
  <2>3. QED
    BY <2>1, <2>2
<1>6. observed \subseteq Nat \ {0}
  <2>1. observed \subseteq 1..named
    BY DEF TypeInv, TypeOK
  <2>2. QED
    BY <2>1 DEF GInv
<1>7. report' \in Report /\ report'.observed \subseteq 1..named'
  BY <1>1, <1>2, <1>4, <1>5, <1>6 DEF Report, TypeInv, TypeOK
<1>8. QED
  BY <1>2, <1>7 DEF TypeInv, TypeOK, ReplayTyped

LEMMA TypeStartGate ==
  ASSUME GInv, TypeInv, NEW gate \in Gates, StartGate(gate)
  PROVE  TypeInv'
<1>1. /\ stage = "reported" /\ stage' = gate
      /\ observed' = report.observed /\ reused' = {} /\ evaluations' = << >>
      /\ UNCHANGED <<replay, named, report, verdict>>
  BY DEF StartGate
<1>2. << >> \in Seq(Evaluation)
  OBVIOUS
<1>3. report \in Report /\ report.observed \subseteq 1..named
  BY <1>1 DEF TypeInv
<1>4. QED
  BY <1>1, <1>2, <1>3 DEF TypeInv, TypeOK, ReplayTyped, Gates

\* Whatever ends the process, with a verdict or an error.
LEMMA TypeEnds ==
  ASSUME TypeInv, stage' = "done", verdict' \in {"promote", "hold", "error"},
         UNCHANGED <<replay, named, observed, reused, evaluations, report>>
  PROVE  TypeInv'
  BY DEF TypeInv, TypeOK, ReplayTyped, Gates

\* A sample belongs to one of the tasks.
LEMMA SampleHasTask ==
  ASSUME NEW i \in Nat, i < Samples
  PROVE  <<StabilityTasks[TaskIndex(i) + 1]>> \in Seq(Task)
<1> DEFINE k == Len(StabilityTasks)
           t == StabilityPolicy.trials
<1>1. k \in Nat /\ StabilityTasks \in Seq(Task) /\ DOMAIN StabilityTasks = 1..k
  BY TaskAssumption, LenProperties
<1>2. t \in Nat /\ t > 0
  BY PolicyAssumption
<1>3. i < k * t /\ (k - 1) + 1 = k /\ 0 * t = 0 /\ k - 1 \in Int
  BY <1>1, <1>2 DEF Samples
<1>4. i \div t \in Int /\ 0 <= i \div t /\ i \div t <= k - 1
  <2> HIDE DEF k, t
  <2>1. QED
    BY <1>2, <1>3, QuotientBetween
<1>5. TaskIndex(i) + 1 \in 1..k
  <2>1. TaskIndex(i) = i \div t
    BY DEF TaskIndex
  <2> DEFINE q == i \div t
  <2>2. q \in Int /\ 0 <= q /\ q <= k - 1 /\ TaskIndex(i) = q
    BY <1>4, <2>1
  <2> HIDE DEF q, k, t
  <2>3. QED
    BY <1>1, <2>2
<1>6. StabilityTasks[TaskIndex(i) + 1] \in Task
  <2> DEFINE p == TaskIndex(i) + 1
  <2>1. p \in 1..k
    BY <1>5
  <2> HIDE DEF p, k, t, Task
  <2>2. StabilityTasks[p] \in Task
    BY <1>1, <2>1
  <2>3. QED
    BY <2>2 DEF p
<1>7. QED
  BY <1>6

LEMMA TypeNext == GInv /\ TypeInv /\ [Next]_vars => TypeInv'
<1> SUFFICES ASSUME GInv, TypeInv, [Next]_vars PROVE TypeInv'
  OBVIOUS
<1>1. CASE EngineEvaluates
  <2>1. PICK c \in Candidates : Evaluate(c, TrainingTasks)
    BY <1>1 DEF EngineEvaluates
  <2>2. QED
    BY <1>1, <2>1, TypeEvaluate, TaskAssumption DEF EngineEvaluates
<1>2. CASE ValidationEvaluates
  <2>1. stage = "validation" /\ report.best \in Candidates
        /\ Evaluate(report.best, ValidationTasks)
    BY <1>2 DEF ValidationEvaluates, GInv, CandidatesAreKnown, Gates
  <2>2. QED
    BY <2>1, TypeEvaluate, TaskAssumption DEF Gates
<1>3. CASE StabilityEvaluates
  <2> DEFINE i == Len(evaluations) \div 2
             tasks == <<StabilityTasks[TaskIndex(i) + 1]>>
             c == IF (Len(evaluations) % 2 = 0) = BaselineFirst(i) THEN Seed ELSE report.best
  <2>1. stage = "stability" /\ i < Samples /\ Evaluate(c, tasks)
    BY <1>3 DEF StabilityEvaluates
  <2>2. c \in Candidates
    BY <2>1, CandidateAssumption DEF GInv, CandidatesAreKnown, Gates
  <2>3. i \in Nat
    <3>1. Len(evaluations) \in Nat
      BY LenProperties DEF TypeInv, TypeOK
    <3>2. QED
      BY <3>1
  <2> HIDE DEF i, c
  <2>4. tasks \in Seq(Task)
    BY <2>1, <2>3, SampleHasTask
  <2> HIDE DEF tasks
  <2>5. QED
    BY <2>1, <2>2, <2>4, TypeEvaluate DEF Gates
<1>4. CASE ReplayTask
  BY <1>4, TypeReplayTask
<1>5. CASE RecordEvaluation
  BY <1>5, TypeRecord
<1>6. CASE EngineReturns
  BY <1>6, TypeEngineReturns
<1>7. CASE EngineFails
  BY <1>7, TypeEnds DEF EngineFails
<1>8. CASE StartGate("validation") \/ StartGate("stability")
  BY <1>8, TypeStartGate DEF Gates
<1>9. CASE RefuseReport
  BY <1>9, TypeEnds DEF RefuseReport
<1>10. CASE ValidationDecides \/ StabilityDecides
  BY <1>10, TypeEnds DEF ValidationDecides, StabilityDecides, Decide
<1>11. CASE UNCHANGED vars
  BY <1>11 DEF vars, TypeInv, TypeOK, ReplayTyped
<1>12. QED
  BY <1>1, <1>2, <1>3, <1>4, <1>5, <1>6, <1>7, <1>8, <1>9, <1>10, <1>11
     DEF Next, HandOver, Work, Terminated

\* Every score is one, whatever was replayed; reports and observed ids are what
\* they should be (GepaCandidateEvaluation, GepaRuntimeReport).
THEOREM ExperimentIsTyped == Spec => []TypeOK
<1>1. Init => TypeInv
  BY TypeInit
<1>2. GInv /\ TypeInv /\ [Next]_vars => TypeInv'
  BY TypeNext
<1>3. TypeInv => TypeOK
  BY DEF TypeInv
<1>4. QED
  BY <1>1, <1>2, <1>3, GInvariant, PTL DEF Spec
====

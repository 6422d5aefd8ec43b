--------------------------- MODULE MCTraceService ---------------------------
(***************************************************************************)
(* Small instances of TraceService: one or two traces, payloads that pass, *)
(* fail or leak, and a judge that agrees, contradicts or defers.           *)
(***************************************************************************)
EXTENDS TraceService, TLC

CONSTANTS t1, t2, good, bad, leaky, w1, w2, v1

\* One trace, sent again under other payloads.
OneTrace == {t1}
Resent == {<<[trace |-> t1, content |-> c]>> : c \in {good, bad, leaky}}
ResentSafe == {<<[trace |-> t1, content |-> c]>> : c \in {good, bad}}

\* Two traces in one OTLP export, and the second one on its own.
TwoTraces == {t1, t2}
Exports ==
  {<<[trace |-> t1, content |-> good], [trace |-> t2, content |-> good]>>,
   <<[trace |-> t2, content |-> bad]>>}

\* A payload that passes, sent once or sent again.
ResentGood == {<<[trace |-> t1, content |-> good]>>}

Contradicting == {[verdict |-> "fail", low |-> FALSE]}
AgreeOrContradict ==
  {[verdict |-> "pass", low |-> FALSE], [verdict |-> "fail", low |-> TRUE]}
AnyOutput ==
  AgreeOrContradict \cup {[verdict |-> "review", low |-> FALSE],
                          [verdict |-> "pass", low |-> TRUE]}

ShortNotes ==
  {[verdict |-> "pass", notes |-> "short"], [verdict |-> "fail", notes |-> "short"]}
AnyNotes == {[verdict |-> "fail", notes |-> n] : n \in {"short", "long"}}

WorkerSymmetry == Permutations(Workers)
=============================================================================

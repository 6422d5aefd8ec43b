---------------------------- MODULE ReviewLedger ----------------------------
(***************************************************************************)
(* What human review promises (docs/human-review.md): a piece of evidence, *)
(* that is one trace, one deterministic evaluation of it and one judge     *)
(* report on that evaluation, has at most one review; a review is decided  *)
(* at most once; nothing is withdrawn.                                     *)
(***************************************************************************)
CONSTANTS
  Reviews,     \* review ids
  Evidences,   \* evidence tuples
  Decisions,   \* what a reviewer may decide
  Undecided    \* the decision of a pending review, not in Decisions

VARIABLE ledger  \* the reviews opened so far, [review, evidence, decision]

Entry == [review : Reviews, evidence : Evidences, decision : Decisions \cup {Undecided}]

Init == ledger = {}

Open(x) ==
  /\ x \in Entry
  /\ x.decision = Undecided
  /\ \A y \in ledger : y.review # x.review /\ y.evidence # x.evidence
  /\ ledger' = ledger \cup {x}

Decide(x, d) ==
  /\ x.decision = Undecided
  /\ ledger' = (ledger \ {x}) \cup {[x EXCEPT !.decision = d]}

Next ==
  \/ \E x \in ledger' \ ledger : Open(x)
  \/ \E x \in ledger, d \in Decisions : Decide(x, d)

Spec == Init /\ [][Next]_ledger
=============================================================================

---------------------------- MODULE TrialScoring ----------------------------
(***************************************************************************)
(* How a DeepResearch benchmark turns one trial's evidence into a result   *)
(* (deepresearch_benchmark.py, claim_evidence.py).                         *)
(*                                                                         *)
(* A gate is TRUE, FALSE, or None when nobody evaluated it: no judge, no   *)
(* claim to judge, no acceptance contract.  A snapshot keeps the target's  *)
(* status and `clean`, whether the gates computed from the snapshot alone  *)
(* hold: for a run that must complete, the deterministic evaluation and    *)
(* the citation gate; for one that must ask back, that it neither called a *)
(* tool nor collected evidence.                                            *)
(***************************************************************************)

CONSTANT None   \* Python's None

TerminalStatuses == {"completed", "failed", "budget_exhausted", "cancelled",
                     "paused", "needs_user_input", "interrupted"}

ExpectedStatus == {"completed", "needs_user_input"}

Gate == BOOLEAN \cup {None}

QualityStatus == {"verified_pass", "verified_fail", "unverified", None}

\* The claim report of a run; fulfilled is meaningful only when required.
ClaimReport(run, semantic, required, fulfilled) ==
  [run |-> run, semantic |-> semantic, required |-> required, fulfilled |-> fulfilled]

Quality(claims, acceptance) ==
  CASE /\ claims.semantic = TRUE
       /\ acceptance = TRUE
       /\ claims.required => claims.fulfilled = TRUE -> "verified_pass"
    [] \/ claims.semantic = FALSE
       \/ acceptance = FALSE
       \/ claims.required /\ claims.fulfilled = FALSE -> "verified_fail"
    [] OTHER -> "unverified"

OpenGates(claims, acceptance) ==  \* a bug: the acceptance contract is not required
  /\ claims.semantic # FALSE
  /\ claims.required => claims.fulfilled # FALSE

\* The conditions a pass puts on judge and contract: none of them has failed.
NoGateFailed(claims, acceptance) ==
  /\ claims.semantic # FALSE
  /\ acceptance # FALSE
  /\ claims.required => claims.fulfilled # FALSE

Outcome(expected, snapshot, claims, acceptance) ==
  [completed |-> snapshot.status = expected,
   passed |-> /\ snapshot.status = expected
              /\ snapshot.clean
              /\ expected = "completed" => NoGateFailed(claims, acceptance),
   quality |-> IF expected = "completed" THEN Quality(claims, acceptance) ELSE None]

\* The two ends of the evidence-supported pass rate, and the pass count.
PassedTrials(results) == {i \in DOMAIN results : results[i].passed}

VerifiedPasses(results) ==
  {i \in PassedTrials(results) :
     results[i].expected = "needs_user_input" \/ results[i].quality = "verified_pass"}

PotentialPasses(results) ==
  {i \in PassedTrials(results) :
     results[i].expected = "completed" /\ results[i].quality = "unverified"}
=============================================================================

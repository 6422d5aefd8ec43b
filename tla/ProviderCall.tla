---------------------------- MODULE ProviderCall ----------------------------
(***************************************************************************)
(* The four clients that put a question to a chat-completions provider and *)
(* try again when it fails: the qualitative judge (judging.py), the claim  *)
(* judge and the task judge (claim_evidence.py), and the reflection model  *)
(* of a GEPA experiment (gepa_runtime.py).                                 *)
(*                                                                         *)
(* They agree on transport errors and statuses and differ in what they do  *)
(* with an answer that does not conform.                                   *)
(***************************************************************************)
EXTENDS Job, Naturals, Sequences, FiniteSets

CONSTANTS
  MaxAttempts,     \* max_attempts
  Spans,           \* how many spans the judged trace has
  SpanBudget,      \* max_trace_chars, in spans beside the rest of the payload
  ClaimEvidence,   \* the resolved evidence of each claim of a report
  MaxClaims        \* max_claims_per_request

ASSUME AttemptAssumption == MaxAttempts \in Nat \ {0}
ASSUME PacketAssumption ==
  /\ Spans \in Nat /\ SpanBudget \in Nat
  /\ MaxClaims \in Nat \ {0}
  /\ \E E \in {UNION {ClaimEvidence[i] : i \in DOMAIN ClaimEvidence}} :
       IsFiniteSet(E) /\ ClaimEvidence \in Seq(SUBSET E)

AllEvidence == UNION {ClaimEvidence[i] : i \in DOMAIN ClaimEvidence}

ProviderKinds == {"judge", "reflection", "task", "claims"}

\* Claims without resolved evidence are not put to the judge.
Gradable == {c \in DOMAIN ClaimEvidence : ClaimEvidence[c] # {}}

\* The claims of the next request: the first MaxClaims of those not judged yet.
ClaimBatch(judged) ==
  LET open == Gradable \ {judged[i].claim : i \in DOMAIN judged}
  IN  {c \in open : Cardinality({d \in open : d < c}) < MaxClaims}

\* The spans that fit: the last ones are dropped until the payload does.
SuppliedSpans == 1..(IF Spans <= SpanBudget THEN Spans ELSE SpanBudget)

Request(kind) ==
  [tool |-> "provider", kind |-> kind, pc |-> "post", attempt |-> 1, corrected |-> FALSE,
   judged |-> << >>, cited |-> {}, result |-> None]

ProviderInit == \E kind \in ProviderKinds : job = Request(kind)

Asking == Running("provider", "post")

-----------------------------------------------------------------------------
\* What may come back, and what becomes of the request.

RaiseError == job' = [job EXCEPT !.pc = "ended", !.result = "error"]

TryForever(correct) ==  \* a bug: a malformed answer starts the attempts anew
  IF job.attempt >= MaxAttempts /\ ~correct
  THEN RaiseError
  ELSE job' = [job EXCEPT !.attempt = IF correct THEN 1 ELSE @ + 1, !.corrected = @ \/ correct]

\* Sleep and post again, until the last attempt has failed as well.
TryAgain(correct) ==
  IF job.attempt >= MaxAttempts
  THEN RaiseError
  ELSE job' = [job EXCEPT !.attempt = @ + 1, !.corrected = @ \/ correct]

\* A transport error, or one of the statuses 408, 409, 429 and 5xx.
Unavailable == Asking /\ TryAgain(FALSE)

\* Any other status that is no success.
Rejected == Asking /\ RaiseError

\* A success without an envelope, or with content that fails the schema.
Malformed ==
  /\ Asking
  /\ IF job.kind \in {"claims", "task"} THEN TryAgain(TRUE) ELSE RaiseError

\* A success whose content is blank.
EmptyContent ==
  /\ Asking
  /\ CASE job.kind = "judge" -> TryAgain(FALSE)
       [] job.kind = "reflection" -> RaiseError
       [] OTHER -> TryAgain(TRUE)

Answered == [job EXCEPT !.pc = "ended", !.result = "answer"]

\* The judge's scores, with the spans they cite.
JudgeAnswers ==
  /\ Asking /\ job.kind = "judge"
  /\ \E cited \in SUBSET (1..Spans + 1) :
       IF cited \subseteq SuppliedSpans THEN job' = [Answered EXCEPT !.cited = cited] ELSE RaiseError

\* A reflection, which is too long or not.
ReflectionAnswers ==
  /\ Asking /\ job.kind = "reflection"
  /\ job' = Answered \/ RaiseError

TaskAnswers ==
  /\ Asking /\ job.kind = "task"
  /\ job' = Answered

\* The claim judge's verdicts, each with the evidence it cites.
ClaimVerdict == [claim : DOMAIN ClaimEvidence, cites : SUBSET AllEvidence]

AllReturned(verdicts, batch) ==  \* a bug: a claim may be judged twice
  {verdicts[i].claim : i \in DOMAIN verdicts} = batch

ExactlyOnce(verdicts, batch) ==
  /\ Len(verdicts) = Cardinality({verdicts[i].claim : i \in DOMAIN verdicts})
  /\ {verdicts[i].claim : i \in DOMAIN verdicts} = batch

WithinPacket(verdicts) ==
  \A i \in DOMAIN verdicts : verdicts[i].cites \subseteq ClaimEvidence[verdicts[i].claim]

\* A conforming batch is kept and the next one starts with fresh attempts.
ClaimsAnswer ==
  /\ Asking /\ job.kind = "claims"
  /\ Len(job.judged) < Cardinality(Gradable)
  /\ \E n \in 0..MaxClaims + 1 : \E verdicts \in [1..n -> ClaimVerdict] :
       LET batch == ClaimBatch(job.judged)
       IN  IF ExactlyOnce(verdicts, batch) /\ WithinPacket(verdicts)
           THEN job' = [job EXCEPT !.judged = @ \o verdicts, !.attempt = 1,
                                   !.corrected = FALSE]
           ELSE TryAgain(TRUE)

\* Every batch has been judged; without a gradable claim nothing is asked.
ClaimsReturn ==
  /\ Asking /\ job.kind = "claims" /\ Len(job.judged) >= Cardinality(Gradable)
  /\ job' = Answered

ProviderNext ==
  \/ Unavailable \/ Rejected \/ Malformed \/ EmptyContent
  \/ JudgeAnswers \/ ReflectionAnswers \/ TaskAnswers \/ ClaimsAnswer \/ ClaimsReturn

-----------------------------------------------------------------------------
\* What a client hands on rests on what it sent: the judge cites spans that
\* were not dropped from its payload, and the claim judge ruled once on every
\* claim that has evidence, citing that claim's own, over all batches.
AnswersAreGrounded ==
  EndedWith("provider", "answer") =>
    /\ job.cited \subseteq SuppliedSpans
    /\ job.kind = "claims" =>
         /\ \A c \in Gradable :
              Cardinality({i \in DOMAIN job.judged : job.judged[i].claim = c}) = 1
         /\ \A i \in DOMAIN job.judged :
              /\ job.judged[i].claim \in Gradable
              /\ job.judged[i].cites \subseteq ClaimEvidence[job.judged[i].claim]
=============================================================================

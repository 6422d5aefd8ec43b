-------------------------- MODULE ReviewLedgerProofs --------------------------
(***************************************************************************)
(* Two results about human review, for every set of traces, payloads,      *)
(* judges and resolutions.  However calls interleave, a review keeps its   *)
(* evidence and is never reopened.  And when calls do not interleave (one  *)
(* worker, any number of crashes), what a call checked still holds when it *)
(* writes, so evidence has one review, the first decision stands, and the  *)
(* store implements ReviewLedger.  The hypothesis OneWorker is needed: the *)
(* runs duplicate_review and second_resolution refute each without it.     *)
(***************************************************************************)
EXTENDS TraceServiceProofs

OneWorker == \A v, w \in Workers : v = w

\* What a call checked before it writes still holds when it writes: the row it
\* loaded, the review it did not find, the pending item it resolves and the
\* free path it exports to.  True of one worker; two workers that interleave
\* break each part of it.
ChecksStayTrue ==
  \A w \in Workers :
    /\ At(w, "save_commit") => job[w].seen = traces[Importing(w).trace]
    /\ At(w, "select_review") =>
         ReviewItemsOf(job[w].trace, job[w].evaluation, job[w].judge) = {}
    /\ At(w, "resolve_save") =>
         /\ IsPending(review_items[job[w].review])
         /\ job[w].item = ResolvedItem(review_items[job[w].review], job[w].resolution)
         /\ job[w].resolution \in Resolutions
    /\ Remembers(w, {"export_list", "export_write"}) => datasets[job[w].version] = None

SequentialInvariant == Invariant /\ ChecksStayTrue /\ OneReviewPerEvidence

\* The locations at which ChecksStayTrue says something.
CheckedPCs == {"save_commit", "select_review", "resolve_save", "export_list", "export_write"}

-----------------------------------------------------------------------------
\* Only two steps touch the table of reviews.

LEMMA WhoWritesReviews ==
  ASSUME [Next]_vars
  PROVE  \/ UNCHANGED review_items
         \/ \E w \in Workers : SelectReview(w) \/ ResolveSave(w)
<1>1. ASSUME NEW w \in Workers, Request(w) PROVE UNCHANGED review_items
  BY <1>1 DEF Request, RequestImport, RequestJudge, RequestQueue, RequestResolve,
         RequestExport, RequestDerived, Admit, tables
<1>2. ASSUME NEW w \in Workers, Import(w) PROVE UNCHANGED review_items
  BY <1>2 DEF Import, SaveTraceRead, SaveTraceConflict, SaveTraceCommit, EvaluateTrace,
         SaveEvaluation, WriteTrace, InsertEvaluation, ReadOnly, tables
<1>3. ASSUME NEW w \in Workers, Judge(w) PROVE UNCHANGED review_items
  BY <1>3 DEF Judge, JudgeReadTrace, JudgeReadEvaluation, JudgeFails, JudgeAnswers,
         SaveJudgeReport, InsertJudgeReport, ReadTrace, ReadLatestEvaluation, ReadOnly, tables
<1>4. ASSUME NEW w \in Workers, Queue(w) PROVE UNCHANGED review_items \/ SelectReview(w)
  BY <1>4 DEF Queue, QueueReadEvaluation, QueueReadJudge, FindReviewItem, SelectMismatched,
         SelectNothing, ReadLatestEvaluation, ReadOnly, tables
<1>5. ASSUME NEW w \in Workers, Resolve(w) PROVE UNCHANGED review_items \/ ResolveSave(w)
  BY <1>5 DEF Resolve, ResolveRefused, ResolveRead, ReadOnly, tables
<1>6. ASSUME NEW w \in Workers, Export(w) \/ Derive(w) PROVE UNCHANGED review_items
  BY <1>6 DEF Export, ExportExists, ExportList, ExportWrite, Derive, DeriveReadTrace,
         DeriveReadEvaluation, DeriveReply, ReadTrace, ReadLatestEvaluation, ReadOnly, tables
<1>7. ASSUME NEW w \in Workers, Crash(w) PROVE UNCHANGED review_items
  BY <1>7 DEF Crash, tables
<1>8. CASE UNCHANGED vars
  BY <1>8 DEF vars, tables
<1> QED
  BY <1>1, <1>2, <1>3, <1>4, <1>5, <1>6, <1>7, <1>8 DEF Next, Work, Done

\* A selected item is new, pending and at the end of the table.
LEMMA SelectAppends ==
  ASSUME Invariant, NEW w \in Workers, SelectReview(w)
  PROVE  LET n == Len(review_items) + 1
         IN  /\ n \in Nat /\ n \notin DOMAIN review_items
             /\ DOMAIN review_items' = DOMAIN review_items \cup {n}
             /\ \A i \in DOMAIN review_items : review_items'[i] = review_items[i]
             /\ review_items'[n] = Selected(w)
             /\ Selected(w).resolution = None
             /\ Evidence(Selected(w)) = <<job[w].trace, job[w].evaluation, job[w].judge>>
             /\ job[w].trace \in TraceIds
             /\ job[w].evaluation \in Nat /\ job[w].judge \in Nat
<1> DEFINE n == Len(review_items) + 1
<1>1. /\ review_items \in Seq(ReviewItemRow)
      /\ DOMAIN review_items = 1..Len(review_items)
      /\ Len(review_items) \in Nat
  BY LenProperties DEF Invariant, TypeOK, StoreTypeOK
<1>2. review_items' = Append(review_items, Selected(w))
  <2>1. n \notin DOMAIN review_items
    BY <1>1
  <2> QED
    BY <2>1 DEF SelectReview, SaveReviewItem
<1>3. /\ job[w].trace \in TraceIds
      /\ job[w].evaluation \in Nat /\ job[w].judge \in Nat
  BY DEF SelectReview, Invariant, TypeOK, ReadsStayValid, MemoryOK, Remembers, At, Job, KnowsTrace
<1>4. /\ Selected(w).resolution = None
      /\ Evidence(Selected(w)) = <<job[w].trace, job[w].evaluation, job[w].judge>>
  BY DEF SelectReview, MaySelect, MayPair, Selected, SelectedItem, Evidence
<1>5. /\ DOMAIN review_items' = 1..(Len(review_items) + 1)
      /\ \A i \in DOMAIN review_items : review_items'[i] = review_items[i]
      /\ review_items'[n] = Selected(w)
  BY <1>1, <1>2, AppendProperties
<1> QED
  BY <1>1, <1>3, <1>4, <1>5

\* A resolved item replaces the one it was made from.
LEMMA ResolveReplaces ==
  ASSUME Invariant, NEW w \in Workers, ResolveSave(w)
  PROVE  LET r == job[w].review
         IN  /\ r \in DOMAIN review_items
             /\ DOMAIN review_items' = DOMAIN review_items
             /\ \A i \in DOMAIN review_items :
                  review_items'[i] = IF i = r THEN job[w].item ELSE review_items[i]
             /\ Evidence(job[w].item) = Evidence(review_items[r])
             /\ ~ IsPending(job[w].item)
<1>1. /\ job[w].review \in DOMAIN review_items
      /\ Evidence(job[w].item) = Evidence(review_items[job[w].review])
      /\ ~ IsPending(job[w].item)
  BY DEF ResolveSave, Invariant, ReadsStayValid, MemoryOK
<1> QED
  BY <1>1 DEF ResolveSave, SaveReviewItem

-----------------------------------------------------------------------------
\* However calls interleave.

LEMMA NeverReopenedStep ==
  ASSUME Invariant, [Next]_vars
  PROVE  \A i \in DOMAIN review_items :
           /\ i \in DOMAIN review_items'
           /\ Evidence(review_items'[i]) = Evidence(review_items[i])
           /\ ~ IsPending(review_items[i]) => ~ IsPending(review_items'[i])
<1>1. CASE UNCHANGED review_items
  BY <1>1
<1>2. ASSUME NEW w \in Workers, SelectReview(w)
      PROVE  /\ DOMAIN review_items \subseteq DOMAIN review_items'
             /\ \A i \in DOMAIN review_items : review_items'[i] = review_items[i]
  BY <1>2, SelectAppends
<1>3. ASSUME NEW w \in Workers, ResolveSave(w), NEW i \in DOMAIN review_items
      PROVE  /\ i \in DOMAIN review_items'
             /\ Evidence(review_items'[i]) = Evidence(review_items[i])
             /\ ~ IsPending(review_items[i]) => ~ IsPending(review_items'[i])
  BY <1>3, ResolveReplaces
<1> QED
  BY <1>1, <1>2, <1>3, WhoWritesReviews

\* A review never changes the evidence it is about, never disappears and, once
\* resolved, is never pending again, whatever the interleaving and the crashes.
THEOREM ReviewsAreNeverReopened == Spec => NeverReopened
<1>1. (Invariant /\ [Next]_vars)
        => [\A i \in DOMAIN review_items :
              /\ i \in DOMAIN review_items'
              /\ Evidence(review_items'[i]) = Evidence(review_items[i])
              /\ ~ IsPending(review_items[i]) => ~ IsPending(review_items'[i])]_vars
  BY NeverReopenedStep
<1> QED
  BY <1>1, InvariantHolds, PTL DEF Spec, NeverReopened

-----------------------------------------------------------------------------
\* One call at a time: what it checked stays true.

\* Where a step leads.  Five actions lead to a location at which something was
\* checked; they are the ones treated below.
LEMMA Elsewhere ==
  ASSUME Invariant, NEW w \in Workers, Request(w) \/ Work(w) \/ Crash(w),
         ~ SaveTraceRead(w), ~ FindReviewItem(w), ~ ResolveRead(w),
         ~ ExportExists(w), ~ ExportList(w)
  PROVE  job'[w].pc \notin CheckedPCs
<1>1. job \in [Workers -> Job] /\ job[w] \in Job
  BY DEF Invariant, TypeOK
<1>2. \A next : Continue(w, next) => job'[w] = next
  BY <1>1 DEF Continue
<1>3. ASSUME NEW a, Reply(w, a) PROVE job'[w].pc = "idle"
  BY <1>2, <1>3 DEF Reply, Idle
<1>4. CASE Request(w)
  <2>1. ASSUME NEW b, RequestImport(w, b) PROVE job'[w].pc = "save_read"
    BY <1>2, <2>1 DEF RequestImport, Begin, Idle
  <2>2. ASSUME NEW t, RequestJudge(w, t) PROVE job'[w].pc = "judge_trace"
    BY <1>2, <2>2 DEF RequestJudge, Begin, Idle
  <2>3. ASSUME NEW t, NEW force, RequestQueue(w, t, force) PROVE job'[w].pc = "queue_evaluation"
    BY <1>2, <2>3 DEF RequestQueue, Begin, Idle
  <2>4. ASSUME NEW t, RequestDerived(w, t) PROVE job'[w].pc = "derive_trace"
    BY <1>2, <2>4 DEF RequestDerived, Begin, Idle
  <2>5. ASSUME NEW id, NEW r, RequestResolve(w, id, r) PROVE job'[w].pc = "resolve_read"
    BY <1>2, <2>5 DEF RequestResolve, Begin, Idle
  <2>6. ASSUME NEW v, RequestExport(w, v) PROVE job'[w].pc = "export_exists"
    BY <1>2, <2>6 DEF RequestExport, Begin, Idle
  <2> QED
    BY <1>4, <2>1, <2>2, <2>3, <2>4, <2>5, <2>6 DEF Request, CheckedPCs
<1>5. ASSUME NEW pc, NEW next \in PCs \ CheckedPCs,
             ReadTrace(w, pc, next) \/ ReadLatestEvaluation(w, pc, next)
      PROVE  job'[w].pc \notin CheckedPCs
  BY <1>1, <1>2, <1>3, <1>5 DEF ReadTrace, ReadLatestEvaluation, Job, CheckedPCs
<1>6. CASE Import(w)
  <2>1. CASE SaveTraceConflict(w)
    BY <1>3, <2>1 DEF SaveTraceConflict, CheckedPCs
  <2>2. CASE SaveTraceCommit(w)
    BY <1>1, <1>2, <2>2 DEF SaveTraceCommit, Job, CheckedPCs
  <2>3. CASE EvaluateTrace(w)
    BY <1>1, <1>2, <2>3 DEF EvaluateTrace, Job, CheckedPCs
  <2>4. CASE SaveEvaluation(w)
    <3>1. CASE Reply(w, "ok")
      BY <1>3, <3>1 DEF CheckedPCs
    <3>2. CASE Continue(w, [job[w] EXCEPT !.pc = "save_read", !.k = @ + 1])
      BY <1>1, <1>2, <3>2 DEF Job, CheckedPCs
    <3> QED
      BY <2>4, <3>1, <3>2 DEF SaveEvaluation
  <2> QED
    BY <1>6, <2>1, <2>2, <2>3, <2>4 DEF Import
<1>7. CASE Judge(w)
  <2>1. "judge_evaluation" \in PCs \ CheckedPCs /\ "call_provider" \in PCs \ CheckedPCs
    BY DEF PCs, CheckedPCs
  <2>2. CASE JudgeFails(w)
    BY <1>3, <2>2 DEF JudgeFails, CheckedPCs
  <2>3. CASE JudgeAnswers(w)
    BY <1>1, <1>2, <2>3 DEF JudgeAnswers, Job, CheckedPCs
  <2>4. CASE SaveJudgeReport(w)
    BY <1>2, <2>4 DEF SaveJudgeReport, Begin, Idle, CheckedPCs
  <2> QED
    BY <1>5, <1>7, <2>1, <2>2, <2>3, <2>4 DEF Judge, JudgeReadTrace, JudgeReadEvaluation
<1>8. CASE Queue(w)
  <2>1. "queue_judge" \in PCs \ CheckedPCs
    BY DEF PCs, CheckedPCs
  <2>2. CASE QueueReadJudge(w) \/ SelectMismatched(w) \/ SelectNothing(w) \/ SelectReview(w)
    BY <1>1, <1>2, <1>3, <2>2 DEF QueueReadJudge, SelectMismatched, SelectNothing,
                                  SelectReview, Job, CheckedPCs
  <2> QED
    BY <1>5, <1>8, <2>1, <2>2 DEF Queue, QueueReadEvaluation
<1>9. CASE Resolve(w)
  BY <1>3, <1>9 DEF Resolve, ResolveRefused, ResolveSave, CheckedPCs
<1>10. CASE Export(w)
  BY <1>3, <1>10 DEF Export, ExportWrite, CheckedPCs
<1>11. CASE Derive(w)
  <2>1. "derive_evaluation" \in PCs \ CheckedPCs /\ "derive" \in PCs \ CheckedPCs
    BY DEF PCs, CheckedPCs
  <2> QED
    BY <1>3, <1>5, <1>11, <2>1 DEF Derive, DeriveReadTrace, DeriveReadEvaluation, DeriveReply,
                                   CheckedPCs
<1>12. CASE Crash(w)
  BY <1>3, <1>12 DEF Crash, CheckedPCs
<1> QED
  BY <1>4, <1>6, <1>7, <1>8, <1>9, <1>10, <1>11, <1>12 DEF Work

\* With one worker, a step to any other location leaves nothing to be true.
LEMMA NothingChecked ==
  ASSUME OneWorker, NEW w \in Workers, job'[w].pc \notin CheckedPCs
  PROVE  ChecksStayTrue'
<1>1. \A v \in Workers : v = w
  BY DEF OneWorker
<1> QED
  BY <1>1 DEF ChecksStayTrue, At, Remembers, CheckedPCs

\* ... and the five actions leave what they have just checked.
LEMMA JustChecked ==
  ASSUME SequentialInvariant, OneWorker, NEW w \in Workers,
         \/ SaveTraceRead(w) \/ FindReviewItem(w) \/ ResolveRead(w)
         \/ ExportExists(w) \/ ExportList(w)
  PROVE  ChecksStayTrue'
<1>1. /\ Invariant /\ ChecksStayTrue /\ MemoryOK(w)
      /\ job \in [Workers -> Job] /\ job[w] \in Job
      /\ \A v \in Workers : v = w
  BY DEF SequentialInvariant, Invariant, TypeOK, ReadsStayValid, OneWorker
<1>2. \A next : Continue(w, next) => job'[w] = next
  BY <1>1 DEF Continue
<1>3. ASSUME NEW a, Reply(w, a) PROVE ChecksStayTrue'
  <2>1. job'[w].pc \notin CheckedPCs
    BY <1>2, <1>3 DEF Reply, Idle, CheckedPCs
  <2> QED
    BY <2>1, NothingChecked
<1>4. CASE SaveTraceRead(w)
  <2>1. /\ job'[w].pc = "save_commit"
        /\ job'[w].seen = traces[Importing(w).trace]
        /\ job'[w].batch = job[w].batch /\ job'[w].k = job[w].k
        /\ traces' = traces
    BY <1>1, <1>2, <1>4 DEF SaveTraceRead, Job, ReadOnly, tables
  <2> QED
    BY <1>1, <2>1 DEF ChecksStayTrue, Importing, At, Remembers
<1>5. CASE FindReviewItem(w)
  <2>1. CASE Continue(w, [job[w] EXCEPT !.pc = "select_review"])
    <3>1. /\ job'[w].pc = "select_review"
          /\ job'[w].trace = job[w].trace
          /\ job'[w].evaluation = job[w].evaluation
          /\ job'[w].judge = job[w].judge
      BY <1>1, <1>2, <2>1 DEF Job
    <3>2. /\ UNCHANGED review_items
          /\ ReviewItemsOf(job[w].trace, job[w].evaluation, job[w].judge) = {}
             \/ \E a : Reply(w, a)
      BY <1>5 DEF FindReviewItem, ReadOnly, tables
    <3>3. ASSUME ReviewItemsOf(job[w].trace, job[w].evaluation, job[w].judge) = {}
          PROVE  ChecksStayTrue'
      BY <1>1, <3>1, <3>2, <3>3 DEF ChecksStayTrue, ReviewItemsOf, At, Remembers
    <3> QED
      BY <1>3, <3>2, <3>3
  <2> QED
    BY <1>3, <1>5, <2>1 DEF FindReviewItem
<1>6. CASE ResolveRead(w)
  <2> DEFINE item == ResolvedItem(review_items[job[w].review], job[w].resolution)
  <2>1. /\ job'[w].pc = "resolve_save"
        /\ job'[w].item = item
        /\ job'[w].review = job[w].review
        /\ job'[w].resolution = job[w].resolution
        /\ review_items' = review_items
    BY <1>1, <1>2, <1>6 DEF ResolveRead, Job, ReadOnly, tables
  <2>2. job[w].resolution \in Resolutions /\ IsPending(review_items[job[w].review])
    BY <1>1, <1>6 DEF ResolveRead, MayResolve, MemoryOK, Remembers, At
  <2> QED
    BY <1>1, <2>1, <2>2 DEF ChecksStayTrue, IsPending, ResolvedItem, At, Remembers
<1>7. ASSUME job'[w].pc \in {"export_list", "export_write"}, datasets' = datasets,
             job'[w].version = job[w].version, datasets[job[w].version] = None
      PROVE  ChecksStayTrue'
  BY <1>1, <1>7 DEF ChecksStayTrue, At, Remembers
<1>8. CASE ExportExists(w)
  <2>1. CASE datasets[job[w].version] = None
    <3>1. /\ job'[w].pc = "export_list" /\ job'[w].version = job[w].version
          /\ datasets' = datasets
      BY <1>1, <1>2, <1>8, <2>1 DEF ExportExists, Steady, Job
    <3> QED
      BY <1>7, <2>1, <3>1
  <2> QED
    BY <1>3, <1>8, <2>1 DEF ExportExists
<1>9. CASE ExportList(w)
  <2>1. CASE Continue(w, [job[w] EXCEPT !.pc = "export_write", !.cases = CalibrationCases])
    <3>1. /\ job'[w].pc = "export_write" /\ job'[w].version = job[w].version
          /\ datasets' = datasets
      BY <1>1, <1>2, <1>9, <2>1 DEF ExportList, Steady, Job
    <3>2. datasets[job[w].version] = None
      BY <1>1, <1>9 DEF ExportList, ChecksStayTrue, Remembers, At
    <3> QED
      BY <1>7, <3>1, <3>2
  <2> QED
    BY <1>3, <1>9, <2>1 DEF ExportList
<1> QED
  BY <1>4, <1>5, <1>6, <1>8, <1>9

LEMMA ChecksStep ==
  ASSUME SequentialInvariant, OneWorker, [Next]_vars
  PROVE  ChecksStayTrue'
<1>1. ASSUME NEW w \in Workers, Request(w) \/ Work(w) \/ Crash(w) PROVE ChecksStayTrue'
  <2>1. CASE \/ SaveTraceRead(w) \/ FindReviewItem(w) \/ ResolveRead(w)
             \/ ExportExists(w) \/ ExportList(w)
    BY <2>1, JustChecked
  <2>2. CASE ~ (\/ SaveTraceRead(w) \/ FindReviewItem(w) \/ ResolveRead(w)
                \/ ExportExists(w) \/ ExportList(w))
    <3>1. job'[w].pc \notin CheckedPCs
      BY <1>1, <2>2, Elsewhere DEF SequentialInvariant
    <3> QED
      BY <3>1, NothingChecked
  <2> QED
    BY <2>1, <2>2
<1>2. CASE UNCHANGED vars
  BY <1>2 DEF vars, tables, SequentialInvariant, ChecksStayTrue, At, Remembers, Importing,
              ReviewItemsOf, IsPending, ResolvedItem
<1> QED
  BY <1>1, <1>2 DEF Next, Done

\* A step of the ledger: a review of new evidence, or a first decision.
LEMMA LedgerStep ==
  ASSUME SequentialInvariant, [Next]_vars
  PROVE  \/ UNCHANGED review_items
         \/ \E n \in Nat \ DOMAIN review_items :
              /\ DOMAIN review_items' = DOMAIN review_items \cup {n}
              /\ \A i \in DOMAIN review_items : review_items'[i] = review_items[i]
              /\ review_items'[n].resolution = None
              /\ Evidence(review_items'[n]) \in TraceIds \X Nat \X Nat
              /\ \A i \in DOMAIN review_items :
                   Evidence(review_items[i]) # Evidence(review_items'[n])
         \/ \E r \in DOMAIN review_items, d \in Resolutions :
              /\ DOMAIN review_items' = DOMAIN review_items
              /\ \A i \in DOMAIN review_items \ {r} : review_items'[i] = review_items[i]
              /\ IsPending(review_items[r])
              /\ Evidence(review_items'[r]) = Evidence(review_items[r])
              /\ review_items'[r].resolution = d
<1>1. Invariant /\ ChecksStayTrue /\ review_items \in Seq(ReviewItemRow)
  BY DEF SequentialInvariant, Invariant, TypeOK, StoreTypeOK
<1>2. ASSUME NEW w \in Workers, SelectReview(w)
      PROVE  LET n == Len(review_items) + 1
             IN  /\ n \in Nat \ DOMAIN review_items
                 /\ DOMAIN review_items' = DOMAIN review_items \cup {n}
                 /\ \A i \in DOMAIN review_items : review_items'[i] = review_items[i]
                 /\ review_items'[n].resolution = None
                 /\ Evidence(review_items'[n]) \in TraceIds \X Nat \X Nat
                 /\ \A i \in DOMAIN review_items :
                      Evidence(review_items[i]) # Evidence(review_items'[n])
  <2> DEFINE n == Len(review_items) + 1
  <2>1. ReviewItemsOf(job[w].trace, job[w].evaluation, job[w].judge) = {}
    BY <1>1, <1>2 DEF SelectReview, ChecksStayTrue
  <2>2. /\ Evidence(review_items'[n]) = <<job[w].trace, job[w].evaluation, job[w].judge>>
        /\ review_items'[n].resolution = None
        /\ n \in Nat \ DOMAIN review_items
        /\ DOMAIN review_items' = DOMAIN review_items \cup {n}
        /\ \A i \in DOMAIN review_items : review_items'[i] = review_items[i]
        /\ job[w].trace \in TraceIds /\ job[w].evaluation \in Nat /\ job[w].judge \in Nat
    BY <1>1, <1>2, SelectAppends
  <2>3. \A i \in DOMAIN review_items : Evidence(review_items[i]) # Evidence(review_items'[n])
    BY <2>1, <2>2 DEF ReviewItemsOf, Evidence
  <2>4. Evidence(review_items'[n]) \in TraceIds \X Nat \X Nat
    BY <2>2
  <2> QED
    BY <2>2, <2>3, <2>4
<1>3. ASSUME NEW w \in Workers, ResolveSave(w)
      PROVE  LET r == job[w].review
                 d == job[w].resolution
             IN  /\ r \in DOMAIN review_items /\ d \in Resolutions
                 /\ DOMAIN review_items' = DOMAIN review_items
                 /\ \A i \in DOMAIN review_items \ {r} : review_items'[i] = review_items[i]
                 /\ IsPending(review_items[r])
                 /\ Evidence(review_items'[r]) = Evidence(review_items[r])
                 /\ review_items'[r].resolution = d
  <2> DEFINE r == job[w].review
  <2>1. /\ IsPending(review_items[r])
        /\ job[w].item = ResolvedItem(review_items[r], job[w].resolution)
        /\ job[w].resolution \in Resolutions
    BY <1>1, <1>3 DEF ResolveSave, ChecksStayTrue
  <2>2. /\ r \in DOMAIN review_items
        /\ DOMAIN review_items' = DOMAIN review_items
        /\ \A i \in DOMAIN review_items :
             review_items'[i] = IF i = r THEN job[w].item ELSE review_items[i]
        /\ Evidence(job[w].item) = Evidence(review_items[r])
    BY <1>1, <1>3, ResolveReplaces
  <2>3. review_items[r] \in ReviewItemRow
    BY <1>1, <2>2, ElementOfSeq, LenProperties
  <2>4. job[w].item.resolution = job[w].resolution
    BY <2>1, <2>3 DEF ResolvedItem, ReviewItemRow
  <2> QED
    BY <2>1, <2>2, <2>4
<1> QED
  BY <1>2, <1>3, WhoWritesReviews

LEMMA SequentialInvariantIsInductive ==
  ASSUME SequentialInvariant, OneWorker, [Next]_vars
  PROVE  SequentialInvariant'
<1>1. Invariant'
  BY InvariantIsInductive DEF SequentialInvariant
<1>2. ChecksStayTrue'
  BY ChecksStep
<1>3. OneReviewPerEvidence'
  <2>1. CASE UNCHANGED review_items
    BY <2>1 DEF OneReviewPerEvidence, SequentialInvariant
  <2>2. ASSUME NEW n, DOMAIN review_items' = DOMAIN review_items \cup {n},
               \A i \in DOMAIN review_items :
                 /\ review_items'[i] = review_items[i]
                 /\ Evidence(review_items[i]) # Evidence(review_items'[n])
        PROVE  OneReviewPerEvidence'
    <3> SUFFICES ASSUME NEW i \in DOMAIN review_items', NEW j \in DOMAIN review_items',
                        Evidence(review_items'[i]) = Evidence(review_items'[j])
                 PROVE  i = j
      BY DEF OneReviewPerEvidence
    <3> QED
      BY <2>2 DEF OneReviewPerEvidence, SequentialInvariant
  <2>3. ASSUME DOMAIN review_items' = DOMAIN review_items,
               \A i \in DOMAIN review_items :
                 Evidence(review_items'[i]) = Evidence(review_items[i])
        PROVE  OneReviewPerEvidence'
    <3> SUFFICES ASSUME NEW i \in DOMAIN review_items', NEW j \in DOMAIN review_items',
                        Evidence(review_items'[i]) = Evidence(review_items'[j])
                 PROVE  i = j
      BY DEF OneReviewPerEvidence
    <3> QED
      BY <2>3 DEF OneReviewPerEvidence, SequentialInvariant
  <2>4. \/ UNCHANGED review_items
        \/ \E n : /\ DOMAIN review_items' = DOMAIN review_items \cup {n}
                  /\ \A i \in DOMAIN review_items :
                       /\ review_items'[i] = review_items[i]
                       /\ Evidence(review_items[i]) # Evidence(review_items'[n])
        \/ /\ DOMAIN review_items' = DOMAIN review_items
           /\ \A i \in DOMAIN review_items :
                Evidence(review_items'[i]) = Evidence(review_items[i])
    BY LedgerStep
  <2> QED
    BY <2>1, <2>2, <2>3, <2>4
<1> QED
  BY <1>1, <1>2, <1>3 DEF SequentialInvariant

LEMMA SequentialInvariantHolds == Spec => [](OneWorker => SequentialInvariant)
<1>1. Init => (OneWorker => SequentialInvariant)
  <2> SUFFICES ASSUME Init PROVE SequentialInvariant
    OBVIOUS
  <2>1. Invariant
    BY InvariantHoldsInitially
  <2>2. \A w \in Workers : job[w].pc = "idle"
    BY DEF Init, Idle
  <2>3. ChecksStayTrue
    BY <2>2 DEF ChecksStayTrue, At, Remembers
  <2>4. OneReviewPerEvidence
    BY EmptySeq DEF Init, StoreInit, OneReviewPerEvidence
  <2> QED
    BY <2>1, <2>3, <2>4 DEF SequentialInvariant
<1>2. (OneWorker => SequentialInvariant) /\ [Next]_vars => (OneWorker => SequentialInvariant)'
  BY SequentialInvariantIsInductive DEF OneWorker
<1> QED
  BY <1>1, <1>2, PTL DEF Spec

-----------------------------------------------------------------------------
(***************************************************************************)
(* The theorems about one call at a time.                                  *)
(***************************************************************************)

\* With one worker, evidence has at most one review item, whatever is queued
\* twice, judged again or cut short by a crash.
THEOREM EvidenceIsReviewedOnce == Spec => [](OneWorker => OneReviewPerEvidence)
<1>1. (OneWorker => SequentialInvariant) => (OneWorker => OneReviewPerEvidence)
  BY DEF SequentialInvariant
<1> QED
  BY <1>1, SequentialInvariantHolds, PTL

\* With one worker, the first human decision on a review item stands.
THEOREM FirstDecisionStands ==
  ASSUME OneWorker
  PROVE  Spec => ResolvedExactlyOnce
<1>1. ASSUME SequentialInvariant, [Next]_vars
      PROVE  \A i \in DOMAIN review_items :
               ~ IsPending(review_items[i])
                 => review_items'[i].resolution = review_items[i].resolution
  BY <1>1, LedgerStep
<1>2. (SequentialInvariant /\ [Next]_vars)
        => [\A i \in DOMAIN review_items :
              ~ IsPending(review_items[i])
                => review_items'[i].resolution = review_items[i].resolution]_vars
  BY <1>1
<1> QED
  BY <1>2, SequentialInvariantHolds, PTL DEF Spec, ResolvedExactlyOnce

\* With one worker, the reviews in the store behave as ReviewLedger says: each
\* step opens a review of evidence that has none, decides a pending one, or
\* leaves the ledger alone; so the first decision on a review stands.
THEOREM StoreImplementsLedger ==
  ASSUME OneWorker
  PROVE  Spec => ImplementsLedger
<1> DEFINE entry(i) == [review |-> i, evidence |-> Evidence(review_items[i]),
                        decision |-> review_items[i].resolution]
           ledger == {entry(i) : i \in DOMAIN review_items}
<1>1. Init => Ledger!Init
  BY EmptySeq DEF Init, StoreInit, Ledger!Init
<1>2. ASSUME SequentialInvariant, [Next]_vars
      PROVE  [Ledger!Next]_ledger
  <2>1. CASE UNCHANGED review_items
    BY <2>1 DEF Evidence
  <2>2. ASSUME NEW n \in Nat \ DOMAIN review_items,
               DOMAIN review_items' = DOMAIN review_items \cup {n},
               \A i \in DOMAIN review_items : review_items'[i] = review_items[i],
               review_items'[n].resolution = None,
               Evidence(review_items'[n]) \in TraceIds \X Nat \X Nat,
               \A i \in DOMAIN review_items :
                 Evidence(review_items[i]) # Evidence(review_items'[n])
        PROVE  Ledger!Next
    <3> DEFINE x == [review |-> n, evidence |-> Evidence(review_items'[n]), decision |-> None]
    <3>1. \A i \in DOMAIN review_items' :
            entry(i)' = IF i = n THEN x ELSE entry(i)
      BY <2>2 DEF Evidence
    <3>2. ledger' = ledger \cup {x}
      BY <2>2, <3>1
    <3>3. \A y \in ledger : y.review # n /\ y.evidence # Evidence(review_items'[n])
      BY <2>2
    <3>4. Ledger!Open(x)
      BY <2>2, <3>2, <3>3 DEF Ledger!Open, Ledger!Entry
    <3>5. x \in ledger' \ ledger
      BY <3>2, <3>3
    <3>6. PICK z : z = x
      OBVIOUS
    <3>7. Ledger!Open(z)
      BY <3>4, <3>6 DEF Ledger!Open
    <3>8. z \in ledger' \ ledger
      BY <3>5, <3>6
    <3> QED
      BY <3>7, <3>8 DEF Ledger!Next
  <2>3. ASSUME NEW r \in DOMAIN review_items, NEW d \in Resolutions,
               DOMAIN review_items' = DOMAIN review_items,
               \A i \in DOMAIN review_items \ {r} : review_items'[i] = review_items[i],
               IsPending(review_items[r]),
               Evidence(review_items'[r]) = Evidence(review_items[r]),
               review_items'[r].resolution = d
        PROVE  Ledger!Next
    <3> DEFINE x == entry(r)
               y == [x EXCEPT !.decision = d]
    <3>1. x \in ledger /\ x.decision = None
      BY <2>3 DEF IsPending
    <3>2. \A i \in DOMAIN review_items' :
            entry(i)' = IF i = r THEN y ELSE entry(i)
      BY <2>3 DEF Evidence
    <3>3. \A i \in DOMAIN review_items : entry(i) = x => i = r
      OBVIOUS
    <3>4. ledger' = (ledger \ {x}) \cup {y}
      BY <2>3, <3>2, <3>3
    <3> QED
      BY <2>3, <3>1, <3>4 DEF Ledger!Next, Ledger!Decide
  <2>4. UNCHANGED review_items \/ Ledger!Next
    BY <1>2, <2>2, <2>3, LedgerStep
  <2> QED
    BY <2>1, <2>4
<1> QED
  BY <1>1, <1>2, SequentialInvariantHolds, PTL DEF Spec, ImplementsLedger, Ledger!Spec
=============================================================================

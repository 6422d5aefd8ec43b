------------------------- MODULE TraceServiceProofs -------------------------
(***************************************************************************)
(* For every set of traces, payloads, workers, batches and judges, and     *)
(* whatever the interleaving and the crashes: the store stays well typed,  *)
(* what a call has read stays valid until it returns, every review item is *)
(* bound to the evidence it names, and every judge report names an         *)
(* evaluation whose privacy check passed.  What was sent to the judge has  *)
(* passed that check too only where the payloads of a trace are alike in   *)
(* privacy (AlikeInPrivacy): a trace and its evaluation are read apart.    *)
(***************************************************************************)
EXTENDS TraceService, SequenceTheorems, TLAPS

-----------------------------------------------------------------------------
\* How the tables may change: rows are added, and of a row that exists only a
\* review item's resolution changes.

Kept(rows, rows1) ==
  /\ DOMAIN rows \subseteq DOMAIN rows1
  /\ \A i \in DOMAIN rows : rows1[i] = rows[i]

Grows ==
  /\ Kept(evaluations, evaluations')
  /\ Kept(judge_reports, judge_reports')
  /\ DOMAIN review_items \subseteq DOMAIN review_items'
  /\ \A i \in DOMAIN review_items : Evidence(review_items'[i]) = Evidence(review_items[i])

LEMMA AppendKeeps ==
  ASSUME NEW S, NEW rows \in Seq(S), NEW row \in S
  PROVE  /\ Append(rows, row) \in Seq(S)
         /\ Kept(rows, Append(rows, row))
         /\ DOMAIN Append(rows, row) = DOMAIN rows \cup {Len(rows) + 1}
         /\ Append(rows, row)[Len(rows) + 1] = row
         /\ Len(rows) + 1 \notin DOMAIN rows
<1>1. /\ DOMAIN rows = 1..Len(rows)
      /\ Len(rows) \in Nat
  BY LenProperties
<1>2. /\ Append(rows, row) \in Seq(S)
      /\ Len(Append(rows, row)) = Len(rows) + 1
      /\ \A i \in 1..Len(rows) : Append(rows, row)[i] = rows[i]
      /\ Append(rows, row)[Len(rows) + 1] = row
  BY AppendProperties
<1>3. DOMAIN Append(rows, row) = 1..(Len(rows) + 1)
  BY <1>2, LenProperties
<1> QED
  BY <1>1, <1>2, <1>3 DEF Kept

\* Bound speaks of rows that are never changed.
LEMMA BoundIsStable ==
  ASSUME NEW item, Grows, Bound(item)
  PROVE  Bound(item)'
BY DEF Grows, Kept, Bound, MayPair, Reasons, FoundReasons, Passed

\* A call that does not move remembers what it did.
LEMMA MemoryIsStable ==
  ASSUME NEW w \in Workers, Grows, MemoryOK(w), job'[w] = job[w]
  PROVE  MemoryOK(w)'
<1>1. ASSUME At(w, "resolve_save")
      PROVE  /\ job'[w].review \in DOMAIN review_items'
             /\ job'[w].item \in ReviewItemRow
             /\ Bound(job[w].item)'
             /\ Evidence(job[w].item)' = Evidence(review_items[job[w].review])'
             /\ ~ IsPending(job[w].item)'
  <2>1. /\ Bound(job[w].item)
        /\ job[w].item \in ReviewItemRow
        /\ job[w].review \in DOMAIN review_items
        /\ Evidence(job[w].item) = Evidence(review_items[job[w].review])
        /\ ~ IsPending(job[w].item)
    BY <1>1 DEF MemoryOK
  <2>2. PICK item : item = job[w].item
    OBVIOUS
  <2>3. Bound(item)'
    BY <2>1, <2>2, BoundIsStable
  <2>4. Bound(job[w].item)'
    <3>1. job'[w].item = item
      BY <2>2
    <3> QED
      BY <2>3, <3>1 DEF Bound
  <2> QED
    BY <2>1, <2>4 DEF Grows, Evidence, IsPending
<1>2. At(w, "resolve_save")' <=> At(w, "resolve_save")
  BY DEF At
<1>3. /\ At(w, "save_judge_report")' => At(w, "save_judge_report")
      /\ At(w, "save_judge_report") => Remembers(w, KnowsEvaluation)
  BY DEF At, Remembers, KnowsEvaluation
<1>4. At(w, "save_judge_report")' => PrivacyPassed(job[w].evaluation)'
  BY <1>3 DEF Grows, Kept, MemoryOK, PrivacyPassed
<1> QED
  BY <1>1, <1>2, <1>4 DEF Grows, Kept, MemoryOK, Remembers

-----------------------------------------------------------------------------
\* One worker moves, and the tables grow.

LEMMA IdleIsAJob ==
  ASSUME NEW a \in Answers
  PROVE  Idle(a) \in Job
<1>1. << >> \in Seq([trace : TraceIds, content : Contents])
  BY EmptySeq
<1> QED
  BY <1>1 DEF Idle, Job, PCs, JudgeVerdict

LEMMA MoveKeepsMemories ==
  ASSUME Invariant, NEW w \in Workers, NEW next \in Job, Continue(w, next), Grows,
         job'[w] = next => MemoryOK(w)'
  PROVE  job' \in [Workers -> Job] /\ ReadsStayValid'
<1>1. /\ job' \in [Workers -> Job]
      /\ job'[w] = next
      /\ \A v \in Workers \ {w} : job'[v] = job[v]
  BY DEF Invariant, TypeOK, Continue
<1>2. ASSUME NEW v \in Workers
      PROVE  MemoryOK(v)'
  BY <1>1, MemoryIsStable DEF Invariant, ReadsStayValid
<1> QED
  BY <1>1, <1>2 DEF ReadsStayValid

\* A call that returns, and a call that begins, remember nothing to get wrong.
LEMMA ReplyKeepsMemories ==
  ASSUME Invariant, NEW w \in Workers, NEW a \in Answers, Reply(w, a), Grows
  PROVE  job' \in [Workers -> Job] /\ ReadsStayValid'
<1>1. job'[w] = Idle(a) => MemoryOK(w)'
  BY DEF MemoryOK, Remembers, At, Idle, KnowsTrace, KnowsContent, KnowsEvaluation,
         KnowsJudge, Imports
<1> QED
  BY <1>1, IdleIsAJob, MoveKeepsMemories DEF Reply

\* A step that adds no row.
LEMMA NoNewRows ==
  ASSUME Invariant, UNCHANGED <<evaluations, judge_reports, review_items>>
  PROVE  Grows /\ ReviewBoundToEvidence' /\ GateWasOpen'
<1>1. Grows
  BY DEF Grows, Kept
<1>2. ReviewBoundToEvidence'
  BY DEF Invariant, ReviewBoundToEvidence, Bound, MayPair, Reasons, FoundReasons, Passed
<1>3. GateWasOpen'
  BY DEF Invariant, GateWasOpen, PrivacyPassed
<1> QED
  BY <1>1, <1>2, <1>3

-----------------------------------------------------------------------------
\* Steps of a call that write no table: the goal comes down to the locals.
LEMMA QuietMove ==
  ASSUME Invariant, NEW w \in Workers, NEW next \in Job, Continue(w, next),
         ReadOnly, clock' \in Nat, UNCHANGED <<datasets, crashes>>,
         requests' \in 0..MaxRequests,
         job'[w] = next => MemoryOK(w)'
  PROVE  Invariant'
<1>1. Grows /\ ReviewBoundToEvidence' /\ GateWasOpen'
  BY NoNewRows DEF ReadOnly, tables
<1>2. job' \in [Workers -> Job] /\ ReadsStayValid'
  BY <1>1, MoveKeepsMemories
<1>3. TypeOK'
  BY <1>2 DEF Invariant, TypeOK, StoreTypeOK, ReadOnly, tables
<1> QED
  BY <1>1, <1>2, <1>3 DEF Invariant

LEMMA QuietReply ==
  ASSUME Invariant, NEW w \in Workers, NEW a \in Answers, Reply(w, a),
         ReadOnly, UNCHANGED <<clock, requests>>,
         datasets' \in [Versions -> (SUBSET Case) \cup {None}],
         crashes' \in 0..MaxCrashes
  PROVE  Invariant'
<1>1. Grows /\ ReviewBoundToEvidence' /\ GateWasOpen'
  BY NoNewRows DEF ReadOnly, tables
<1>2. job' \in [Workers -> Job] /\ ReadsStayValid'
  BY <1>1, ReplyKeepsMemories
<1>3. TypeOK'
  BY <1>2 DEF Invariant, TypeOK, StoreTypeOK, ReadOnly, tables
<1> QED
  BY <1>1, <1>2, <1>3 DEF Invariant

LEMMA RequestStep ==
  ASSUME Invariant, NEW w \in Workers, Request(w)
  PROVE  Invariant'
<1>1. Idle("none") \in Job
  BY IdleIsAJob DEF Answers
<1>2. ASSUME NEW next \in Job, Continue(w, next), NEW op, Admit(w, op),
             job'[w] = next => MemoryOK(w)'
      PROVE  Invariant'
  <2>1. requests' \in 0..MaxRequests
    BY <1>2, BoundAssumption DEF Admit, Invariant, TypeOK
  <2> QED
    BY <1>2, <2>1, QuietMove DEF Admit, ReadOnly, tables, Invariant, TypeOK
<1>3. ASSUME NEW b \in Batches, RequestImport(w, b)
      PROVE  Invariant'
  <2> DEFINE next == [Begin("save_read") EXCEPT !.batch = b, !.k = 1]
  <2>1. b \in Seq([trace : TraceIds, content : Contents]) /\ b # << >>
    BY BatchAssumption
  <2>2. 1 \in DOMAIN b
    BY <2>1, EmptySeq, LenProperties
  <2>3. next \in Job
    BY <1>1, <2>1 DEF Begin, Idle, Job, PCs
  <2>4. job'[w] = next => MemoryOK(w)'
    BY <2>2 DEF Begin, Idle, MemoryOK, Remembers, At, KnowsTrace, KnowsContent,
           KnowsEvaluation, KnowsJudge, Imports
  <2> QED
    BY <1>2, <1>3, <2>3, <2>4 DEF RequestImport
<1>4. ASSUME NEW t \in TraceIds, RequestJudge(w, t)
      PROVE  Invariant'
  <2> DEFINE next == [Begin("judge_trace") EXCEPT !.trace = t]
  <2>3. next \in Job
    BY <1>1 DEF Begin, Idle, Job, PCs
  <2>4. job'[w] = next => MemoryOK(w)'
    BY DEF Begin, Idle, MemoryOK, Remembers, At, KnowsTrace, KnowsContent,
           KnowsEvaluation, KnowsJudge, Imports
  <2> QED
    BY <1>2, <1>4, <2>3, <2>4 DEF RequestJudge
<1>5. ASSUME NEW t \in TraceIds, NEW force \in BOOLEAN, RequestQueue(w, t, force)
      PROVE  Invariant'
  <2> DEFINE next == [Begin("queue_evaluation") EXCEPT !.trace = t, !.force = force]
  <2>3. next \in Job
    BY <1>1 DEF Begin, Idle, Job, PCs
  <2>4. job'[w] = next => MemoryOK(w)'
    BY DEF Begin, Idle, MemoryOK, Remembers, At, KnowsTrace, KnowsContent,
           KnowsEvaluation, KnowsJudge, Imports
  <2> QED
    BY <1>2, <1>5, <2>3, <2>4 DEF RequestQueue
<1>6. ASSUME NEW t \in TraceIds, RequestDerived(w, t)
      PROVE  Invariant'
  <2> DEFINE next == [Begin("derive_trace") EXCEPT !.trace = t]
  <2>3. next \in Job
    BY <1>1 DEF Begin, Idle, Job, PCs
  <2>4. job'[w] = next => MemoryOK(w)'
    BY DEF Begin, Idle, MemoryOK, Remembers, At, KnowsTrace, KnowsContent,
           KnowsEvaluation, KnowsJudge, Imports
  <2> QED
    BY <1>2, <1>6, <2>3, <2>4 DEF RequestDerived
<1>7. ASSUME NEW id \in 0..Len(review_items), NEW r \in Resolutions,
             RequestResolve(w, id, r)
      PROVE  Invariant'
  <2> DEFINE next == [Begin("resolve_read") EXCEPT !.review = id, !.resolution = r]
  <2>1. id \in Nat
    OBVIOUS
  <2>3. next \in Job
    BY <1>1, <2>1 DEF Begin, Idle, Job, PCs
  <2>4. job'[w] = next => MemoryOK(w)'
    BY DEF Begin, Idle, MemoryOK, Remembers, At, KnowsTrace, KnowsContent,
           KnowsEvaluation, KnowsJudge, Imports
  <2> QED
    BY <1>2, <1>7, <2>3, <2>4 DEF RequestResolve
<1>8. ASSUME NEW v \in Versions, RequestExport(w, v)
      PROVE  Invariant'
  <2> DEFINE next == [Begin("export_exists") EXCEPT !.version = v]
  <2>3. next \in Job
    BY <1>1 DEF Begin, Idle, Job, PCs
  <2>4. job'[w] = next => MemoryOK(w)'
    BY DEF Begin, Idle, MemoryOK, Remembers, At, KnowsTrace, KnowsContent,
           KnowsEvaluation, KnowsJudge, Imports
  <2> QED
    BY <1>2, <1>8, <2>3, <2>4 DEF RequestExport
<1> QED
  BY <1>3, <1>4, <1>5, <1>6, <1>7, <1>8 DEF Request

-----------------------------------------------------------------------------
\* The three transactions that write a row.

LEMMA InsertEvaluationGrows ==
  ASSUME Invariant, NEW row \in EvaluationRow, InsertEvaluation(row)
  PROVE  /\ Grows /\ ReviewBoundToEvidence' /\ GateWasOpen'
         /\ StoreTypeOK'
<1>1. evaluations' \in Seq(EvaluationRow) /\ Kept(evaluations, evaluations')
  BY AppendKeeps DEF Invariant, TypeOK, StoreTypeOK, InsertEvaluation
<1>2. Grows
  BY <1>1 DEF Grows, Kept, InsertEvaluation
<1>3. ReviewBoundToEvidence'
  BY <1>2, BoundIsStable DEF Invariant, ReviewBoundToEvidence, InsertEvaluation
<1>4. GateWasOpen'
  BY <1>1 DEF Invariant, GateWasOpen, PrivacyPassed, Kept, InsertEvaluation
<1> QED
  BY <1>1, <1>2, <1>3, <1>4 DEF Invariant, TypeOK, StoreTypeOK, InsertEvaluation

LEMMA InsertJudgeReportGrows ==
  ASSUME Invariant, NEW row \in JudgeReportRow, InsertJudgeReport(row),
         row.evaluation \in DOMAIN evaluations,
         evaluations[row.evaluation].trace = row.trace,
         PrivacyPassed(row.evaluation)
  PROVE  /\ Grows /\ ReviewBoundToEvidence' /\ GateWasOpen'
         /\ StoreTypeOK'
<1>1. /\ judge_reports' \in Seq(JudgeReportRow)
      /\ Kept(judge_reports, judge_reports')
      /\ DOMAIN judge_reports' = DOMAIN judge_reports \cup {Len(judge_reports) + 1}
      /\ judge_reports'[Len(judge_reports) + 1] = row
  BY AppendKeeps DEF Invariant, TypeOK, StoreTypeOK, InsertJudgeReport
<1>2. Grows
  BY <1>1 DEF Grows, Kept, InsertJudgeReport
<1>3. ReviewBoundToEvidence'
  BY <1>2, BoundIsStable DEF Invariant, ReviewBoundToEvidence, InsertJudgeReport
<1>4. GateWasOpen'
  BY <1>1 DEF Invariant, GateWasOpen, PrivacyPassed, Kept, InsertJudgeReport
<1> QED
  BY <1>1, <1>2, <1>3, <1>4 DEF Invariant, TypeOK, StoreTypeOK, InsertJudgeReport

LEMMA SaveReviewItemGrows ==
  ASSUME Invariant, NEW id, NEW item \in ReviewItemRow, Bound(item),
         SaveReviewItem(id, item),
         \/ id = Len(review_items) + 1
         \/ /\ id \in DOMAIN review_items
            /\ Evidence(item) = Evidence(review_items[id])
  PROVE  /\ Grows /\ ReviewBoundToEvidence' /\ GateWasOpen'
         /\ StoreTypeOK'
<1>1. /\ review_items \in Seq(ReviewItemRow)
      /\ DOMAIN review_items = 1..Len(review_items)
      /\ Len(review_items) \in Nat
  BY LenProperties DEF Invariant, TypeOK, StoreTypeOK
<1>2. /\ review_items' \in Seq(ReviewItemRow)
      /\ DOMAIN review_items' = DOMAIN review_items \cup {id}
      /\ \A i \in DOMAIN review_items' :
           review_items'[i] = IF i = id THEN item ELSE review_items[i]
  <2>1. CASE id \in DOMAIN review_items
    BY <1>1, <2>1, ExceptSeq DEF SaveReviewItem
  <2>2. CASE id = Len(review_items) + 1
    <3>1. id \notin DOMAIN review_items
      BY <1>1, <2>2
    <3>2. review_items' = Append(review_items, item)
      BY <3>1 DEF SaveReviewItem
    <3> QED
      BY <1>1, <2>2, <3>1, <3>2, AppendKeeps DEF Kept
  <2> QED
    BY <2>1, <2>2
<1>3. Grows
  BY <1>1, <1>2 DEF Grows, Kept, SaveReviewItem
<1>4. ReviewBoundToEvidence'
  BY <1>2, <1>3, BoundIsStable DEF Invariant, ReviewBoundToEvidence
<1>5. GateWasOpen'
  BY DEF Invariant, GateWasOpen, PrivacyPassed, SaveReviewItem
<1> QED
  BY <1>2, <1>3, <1>4, <1>5 DEF Invariant, TypeOK, StoreTypeOK, SaveReviewItem

\* ... and what a call that made one of them goes on to.
LEMMA WriteThenMove ==
  ASSUME Invariant, NEW w \in Workers, NEW next \in Job, Continue(w, next),
         Grows, StoreTypeOK', ReviewBoundToEvidence', GateWasOpen', Steady,
         job'[w] = next => MemoryOK(w)'
  PROVE  Invariant'
<1>1. job' \in [Workers -> Job] /\ ReadsStayValid'
  BY MoveKeepsMemories
<1> QED
  BY <1>1 DEF Invariant, TypeOK, Steady

LEMMA WriteThenReply ==
  ASSUME Invariant, NEW w \in Workers, NEW a \in Answers, Reply(w, a),
         Grows, StoreTypeOK', ReviewBoundToEvidence', GateWasOpen', Steady
  PROVE  Invariant'
<1>1. job' \in [Workers -> Job] /\ ReadsStayValid'
  BY ReplyKeepsMemories
<1> QED
  BY <1>1 DEF Invariant, TypeOK, Steady

-----------------------------------------------------------------------------
\* The steps of a call.

LEMMA ImportingIsTyped ==
  ASSUME Invariant, NEW w \in Workers, Remembers(w, Imports)
  PROVE  Importing(w) \in [trace : TraceIds, content : Contents]
<1>1. /\ job[w].batch \in Seq([trace : TraceIds, content : Contents])
      /\ job[w].k \in DOMAIN job[w].batch
  BY DEF Invariant, TypeOK, Job, ReadsStayValid, MemoryOK
<1> QED
  BY <1>1, ElementOfSeq, LenProperties DEF Importing

LEMMA ImportStep ==
  ASSUME Invariant, NEW w \in Workers, Import(w)
  PROVE  Invariant'
<1>1. /\ Remembers(w, Imports) /\ MemoryOK(w) /\ job[w] \in Job
      /\ Importing(w).trace \in TraceIds /\ Importing(w).content \in Contents
  BY ImportingIsTyped
     DEF Import, SaveTraceRead, SaveTraceConflict, SaveTraceCommit, EvaluateTrace,
         SaveEvaluation, At, Remembers, Imports, Invariant, ReadsStayValid, TypeOK
<1>2. CASE SaveTraceRead(w)
  <2> DEFINE next == [job[w] EXCEPT !.pc = "save_commit", !.seen = traces[Importing(w).trace]]
  <2>1. next \in Job
    BY <1>1 DEF Job, PCs, Invariant, TypeOK, StoreTypeOK
  <2>2. job'[w] = next => MemoryOK(w)'
    BY <1>1, <1>2 DEF SaveTraceRead, MemoryOK, Remembers, At, KnowsTrace, KnowsContent,
         KnowsEvaluation, KnowsJudge, Imports
  <2> QED
    BY <1>2, <2>1, <2>2, QuietMove DEF SaveTraceRead, Steady, Invariant, TypeOK
<1>3. CASE SaveTraceConflict(w)
  BY <1>3, QuietReply DEF SaveTraceConflict, Steady, Answers, Invariant, TypeOK
<1>4. CASE SaveTraceCommit(w)
  <2> DEFINE next == [job[w] EXCEPT !.pc = "evaluate"]
  <2>1. next \in Job
    BY <1>1 DEF Job, PCs
  <2>2. job'[w] = next => MemoryOK(w)'
    BY <1>1, <1>4 DEF SaveTraceCommit, WriteTrace, MemoryOK, Remembers, At, KnowsTrace, KnowsContent,
         KnowsEvaluation, KnowsJudge, Imports
  <2>3. Grows /\ ReviewBoundToEvidence' /\ GateWasOpen'
    BY <1>4, NoNewRows DEF SaveTraceCommit, WriteTrace
  <2>4. StoreTypeOK'
    BY <1>1, <1>4 DEF SaveTraceCommit, WriteTrace, Invariant, TypeOK, StoreTypeOK
  <2> QED
    BY <1>4, <2>1, <2>2, <2>3, <2>4, WriteThenMove DEF SaveTraceCommit
<1>5. CASE EvaluateTrace(w)
  <2> DEFINE next == [job[w] EXCEPT !.pc = "save_evaluation", !.created_at = clock']
  <2>1. clock' \in Nat
    BY <1>5, ClockAssumption DEF EvaluateTrace, Tick, Invariant, TypeOK
  <2>2. next \in Job
    BY <1>1, <2>1 DEF Job, PCs
  <2>3. job'[w] = next => MemoryOK(w)'
    BY <1>1, <1>5 DEF EvaluateTrace, tables, MemoryOK, Remembers, At, KnowsTrace, KnowsContent,
         KnowsEvaluation, KnowsJudge, Imports
  <2> QED
    BY <1>5, <2>1, <2>2, <2>3, QuietMove DEF EvaluateTrace, ReadOnly, Invariant, TypeOK
<1>6. CASE SaveEvaluation(w)
  <2> DEFINE row == [trace |-> Importing(w).trace, content |-> Importing(w).content,
                     created_at |-> job[w].created_at]
  <2>1. row \in EvaluationRow
    BY <1>1 DEF EvaluationRow, Job
  <2>2. Grows /\ ReviewBoundToEvidence' /\ GateWasOpen' /\ StoreTypeOK'
    BY <1>6, <2>1, InsertEvaluationGrows DEF SaveEvaluation
  <2>3. CASE job[w].k = Len(job[w].batch)
    BY <1>6, <2>2, <2>3, WriteThenReply DEF SaveEvaluation, Answers
  <2>4. CASE job[w].k # Len(job[w].batch)
    <3> DEFINE next == [job[w] EXCEPT !.pc = "save_read", !.k = @ + 1]
    <3>0. job[w].k + 1 \in Nat
      BY <1>1 DEF Job
    <3>1. next \in Job
      BY <1>1, <3>0 DEF Job, PCs
    <3>2. job[w].k + 1 \in DOMAIN job[w].batch
      <4>1. job[w].batch \in Seq([trace : TraceIds, content : Contents])
        BY <1>1 DEF Job
      <4> QED
        BY <1>1, <2>4, <4>1, LenProperties DEF MemoryOK
    <3>3. job'[w] = next => MemoryOK(w)'
      BY <1>1, <3>2 DEF Job, MemoryOK, Remembers, At, KnowsTrace, KnowsContent,
         KnowsEvaluation, KnowsJudge, Imports
    <3> QED
      BY <1>6, <2>2, <2>4, <3>1, <3>3, WriteThenMove DEF SaveEvaluation
  <2> QED
    BY <2>3, <2>4
<1> QED
  BY <1>2, <1>3, <1>4, <1>5, <1>6 DEF Import

\* Judge and derived records start with the same two reads.
LEMMA ReadTraceStep ==
  ASSUME Invariant, NEW w \in Workers, NEW pc, NEW next_pc,
         <<pc, next_pc>> \in {<<"judge_trace", "judge_evaluation">>,
                             <<"derive_trace", "derive_evaluation">>},
         ReadTrace(w, pc, next_pc)
  PROVE  Invariant'
<1>1. At(w, pc) /\ MemoryOK(w) /\ job[w] \in Job /\ job[w].trace \in TraceIds
  BY DEF ReadTrace, At, Invariant, ReadsStayValid, TypeOK, MemoryOK, Remembers, KnowsTrace
<1>2. CASE traces[job[w].trace] = None
  BY <1>2, QuietReply DEF ReadTrace, Steady, Answers, Invariant, TypeOK
<1>3. CASE traces[job[w].trace] # None
  <2> DEFINE next == [job[w] EXCEPT !.pc = next_pc, !.content = traces[job[w].trace]]
  <2>1. traces[job[w].trace] \in Contents
    BY <1>1, <1>3 DEF Invariant, TypeOK, StoreTypeOK
  <2>2. next \in Job
    BY <1>1, <2>1 DEF Job, PCs
  <2>3. job'[w] = next => MemoryOK(w)'
    BY <1>1, <2>1 DEF Job, MemoryOK, Remembers, At, KnowsTrace, KnowsContent,
         KnowsEvaluation, KnowsJudge, Imports
  <2> QED
    BY <1>3, <2>2, <2>3, QuietMove DEF ReadTrace, Steady, Invariant, TypeOK
<1> QED
  BY <1>2, <1>3

LEMMA ReadLatestEvaluationStep ==
  ASSUME Invariant, NEW w \in Workers, NEW pc, NEW next_pc,
         <<pc, next_pc>> \in {<<"judge_evaluation", "call_provider">>,
                             <<"queue_evaluation", "queue_judge">>,
                             <<"derive_evaluation", "derive">>},
         ReadLatestEvaluation(w, pc, next_pc)
  PROVE  Invariant'
<1>1. At(w, pc) /\ MemoryOK(w) /\ job[w] \in Job
  BY DEF ReadLatestEvaluation, Invariant, ReadsStayValid, TypeOK
<1>2. CASE Reply(w, "not_found")
  BY <1>2, QuietReply DEF ReadLatestEvaluation, Steady, Answers, Invariant, TypeOK
<1>3. ASSUME NEW e \in LatestEvaluations(job[w].trace),
             Continue(w, [job[w] EXCEPT !.pc = next_pc, !.evaluation = e])
      PROVE  Invariant'
  <2> DEFINE next == [job[w] EXCEPT !.pc = next_pc, !.evaluation = e]
  <2>1. e \in DOMAIN evaluations /\ evaluations[e].trace = job[w].trace
    BY DEF LatestEvaluations, LatestIn
  <2>2. e \in Nat
    BY <2>1, LenProperties DEF Invariant, TypeOK, StoreTypeOK
  <2>3. next \in Job
    BY <1>1, <2>2 DEF Job, PCs
  <2>4. job'[w] = next => MemoryOK(w)'
    BY <1>1, <2>1 DEF Job, ReadLatestEvaluation, ReadOnly, tables, MemoryOK, Remembers, At, KnowsTrace, KnowsContent,
         KnowsEvaluation, KnowsJudge, Imports
  <2> QED
    BY <1>3, <2>3, <2>4, QuietMove DEF ReadLatestEvaluation, Steady, Invariant, TypeOK
<1> QED
  BY <1>2, <1>3 DEF ReadLatestEvaluation

LEMMA JudgeStep ==
  ASSUME Invariant, NEW w \in Workers, Judge(w)
  PROVE  Invariant'
<1>1. MemoryOK(w) /\ job[w] \in Job
  BY DEF Invariant, ReadsStayValid, TypeOK
<1>2. CASE JudgeReadTrace(w)
  BY <1>2, ReadTraceStep DEF JudgeReadTrace
<1>3. CASE JudgeReadEvaluation(w)
  BY <1>3, ReadLatestEvaluationStep DEF JudgeReadEvaluation
<1>4. CASE JudgeFails(w)
  BY <1>4, QuietReply DEF JudgeFails, Steady, Answers, Invariant, TypeOK
<1>5. CASE JudgeAnswers(w)
  <2> PICK o \in JudgeOutputs :
        Continue(w, [job[w] EXCEPT !.pc = "save_judge_report", !.output = o,
                                   !.created_at = clock'])
    BY <1>5 DEF JudgeAnswers
  <2> DEFINE next == [job[w] EXCEPT !.pc = "save_judge_report", !.output = o,
                                    !.created_at = clock']
  <2>1. clock' \in Nat
    BY <1>5, ClockAssumption DEF JudgeAnswers, Tick, Invariant, TypeOK
  <2>2. next \in Job
    BY <1>1, <2>1, OutputAssumption DEF Job, PCs
  <2>3. job'[w] = next => MemoryOK(w)'
    BY <1>1, <1>5 DEF JudgeAnswers, GateOpens, PrivacyPassed, tables, Job, MemoryOK, Remembers, At, KnowsTrace, KnowsContent,
         KnowsEvaluation, KnowsJudge, Imports
  <2> QED
    BY <1>5, <2>1, <2>2, <2>3, QuietMove DEF JudgeAnswers, ReadOnly, Invariant, TypeOK
<1>6. CASE SaveJudgeReport(w)
  <2> DEFINE row == [trace |-> job[w].trace, evaluation |-> job[w].evaluation,
                     content |-> job[w].content, verdict |-> job[w].output.verdict,
                     low |-> job[w].output.low, created_at |-> job[w].created_at]
             next == [Begin("queue_evaluation") EXCEPT !.trace = job[w].trace]
  <2>1. /\ job[w].trace \in TraceIds
        /\ job[w].content \in Contents
        /\ job[w].evaluation \in DOMAIN evaluations
        /\ evaluations[job[w].evaluation].trace = job[w].trace
        /\ PrivacyPassed(job[w].evaluation)
    BY <1>1, <1>6 DEF SaveJudgeReport, MemoryOK, Remembers, At, KnowsTrace, KnowsContent,
         KnowsEvaluation, KnowsJudge, Imports
  <2>2. row \in JudgeReportRow
    BY <1>1, <2>1 DEF JudgeReportRow, Job
  <2>3. Grows /\ ReviewBoundToEvidence' /\ GateWasOpen' /\ StoreTypeOK'
    BY <1>6, <2>1, <2>2, InsertJudgeReportGrows DEF SaveJudgeReport
  <2>4. next \in Job
    <3>1. Idle("none") \in Job
      BY IdleIsAJob DEF Answers
    <3> QED
      BY <2>1, <3>1 DEF Begin, Idle, Job, PCs
  <2>5. job'[w] = next => MemoryOK(w)'
    BY <2>1 DEF Begin, Idle, MemoryOK, Remembers, At, KnowsTrace, KnowsContent,
         KnowsEvaluation, KnowsJudge, Imports
  <2> QED
    BY <1>6, <2>3, <2>4, <2>5, WriteThenMove DEF SaveJudgeReport
<1> QED
  BY <1>2, <1>3, <1>4, <1>5, <1>6 DEF Judge

LEMMA QueueStep ==
  ASSUME Invariant, NEW w \in Workers, Queue(w)
  PROVE  Invariant'
<1>1. MemoryOK(w) /\ job[w] \in Job
  BY DEF Invariant, ReadsStayValid, TypeOK
<1>2. CASE QueueReadEvaluation(w)
  BY <1>2, ReadLatestEvaluationStep DEF QueueReadEvaluation
<1>3. CASE QueueReadJudge(w)
  <2>1. CASE Reply(w, "not_found")
    BY <1>3, <2>1, QuietReply DEF QueueReadJudge, Steady, Answers, Invariant, TypeOK
  <2>2. ASSUME NEW j \in LatestJudgeReports(job[w].trace),
               Continue(w, [job[w] EXCEPT !.pc = "find_review", !.judge = j])
        PROVE  Invariant'
    <3> DEFINE next == [job[w] EXCEPT !.pc = "find_review", !.judge = j]
    <3>1. j \in DOMAIN judge_reports /\ judge_reports[j].trace = job[w].trace
      BY DEF LatestJudgeReports, LatestIn
    <3>2. j \in Nat
      BY <3>1, LenProperties DEF Invariant, TypeOK, StoreTypeOK
    <3>3. next \in Job
      BY <1>1, <3>2 DEF Job, PCs
    <3>4. At(w, "queue_judge") /\ UNCHANGED <<evaluations, judge_reports>>
      BY <1>3 DEF QueueReadJudge, ReadOnly, tables
    <3>5. job'[w] = next => MemoryOK(w)'
      BY <1>1, <3>1, <3>4 DEF Job, MemoryOK, Remembers, At, KnowsTrace, KnowsContent,
         KnowsEvaluation, KnowsJudge, Imports
    <3> QED
      BY <1>3, <2>2, <3>3, <3>5, QuietMove DEF QueueReadJudge, Steady, Invariant, TypeOK
  <2> QED
    BY <1>3, <2>1, <2>2 DEF QueueReadJudge
<1>4. CASE FindReviewItem(w)
  <2>1. CASE Reply(w, "ok")
    BY <1>4, <2>1, QuietReply DEF FindReviewItem, Steady, Answers, Invariant, TypeOK
  <2>2. CASE Continue(w, [job[w] EXCEPT !.pc = "select_review"])
    <3> DEFINE next == [job[w] EXCEPT !.pc = "select_review"]
    <3>1. next \in Job
      BY <1>1 DEF Job, PCs
    <3>2. job'[w] = next => MemoryOK(w)'
      BY <1>1, <1>4 DEF Job, FindReviewItem, ReadOnly, tables, MemoryOK, Remembers, At, KnowsTrace, KnowsContent,
         KnowsEvaluation, KnowsJudge, Imports
    <3> QED
      BY <1>4, <2>2, <3>1, <3>2, QuietMove DEF FindReviewItem, Steady, Invariant, TypeOK
  <2> QED
    BY <1>4, <2>1, <2>2 DEF FindReviewItem
<1>5. CASE SelectMismatched(w)
  BY <1>5, QuietReply DEF SelectMismatched, Steady, Answers, Invariant, TypeOK
<1>6. CASE SelectNothing(w)
  BY <1>6, QuietReply DEF SelectNothing, Steady, Answers, Invariant, TypeOK
<1>7. CASE SelectReview(w)
  <2> DEFINE e == job[w].evaluation
             j == job[w].judge
             report == judge_reports[j]
  <2>1. /\ e \in DOMAIN evaluations /\ evaluations[e].trace = job[w].trace
        /\ j \in DOMAIN judge_reports /\ e \in Nat /\ j \in Nat
        /\ job[w].trace \in TraceIds /\ job[w].force \in BOOLEAN
    BY <1>1, <1>7 DEF SelectReview, Job, MemoryOK, Remembers, At, KnowsTrace, KnowsContent,
         KnowsEvaluation, KnowsJudge, Imports
  <2>2. report.trace = job[w].trace /\ report.evaluation = e
    BY <1>7 DEF SelectReview, MaySelect, MayPair
  <2>3. /\ Selected(w).trace = job[w].trace
        /\ Selected(w).evaluation = e
        /\ Selected(w).judge = j
        /\ Selected(w).reasons = Reasons(Passed(e), report.verdict, report.low, job[w].force)
        /\ Selected(w).priority = Priority(Passed(e), Selected(w).reasons)
        /\ Selected(w).resolution = None
    BY <2>2 DEF Selected, SelectedItem
  <2>4. Selected(w) \in ReviewItemRow
    <3>1. Selected(w).reasons \in SUBSET ReviewReason
      BY <2>3 DEF Reasons, FoundReasons, ReviewReason
    <3>2. Selected(w).priority \in ReviewPriority
      BY <2>3 DEF Priority, ReviewPriority
    <3> QED
      BY <2>1, <2>2, <2>3, <3>1, <3>2 DEF ReviewItemRow, Selected, SelectedItem
  <2>5. Bound(Selected(w))
    BY <1>7, <2>1, <2>2, <2>3 DEF Bound, MayPair, SelectReview
  <2>6. Grows /\ ReviewBoundToEvidence' /\ GateWasOpen' /\ StoreTypeOK'
    BY <1>7, <2>4, <2>5, SaveReviewItemGrows DEF SelectReview
  <2> QED
    BY <1>7, <2>6, WriteThenReply DEF SelectReview, Answers
<1> QED
  BY <1>2, <1>3, <1>4, <1>5, <1>6, <1>7 DEF Queue

LEMMA ResolveStep ==
  ASSUME Invariant, NEW w \in Workers, Resolve(w)
  PROVE  Invariant'
<1>1. MemoryOK(w) /\ job[w] \in Job
  BY DEF Invariant, ReadsStayValid, TypeOK
<1>2. CASE ResolveRefused(w)
  BY <1>2, QuietReply DEF ResolveRefused, Steady, Answers, Invariant, TypeOK
<1>3. CASE ResolveRead(w)
  <2> DEFINE item == ResolvedItem(review_items[job[w].review], job[w].resolution)
             next == [job[w] EXCEPT !.pc = "resolve_save", !.item = item]
  <2>1. /\ job[w].review \in DOMAIN review_items
        /\ job[w].resolution \in Resolutions
    BY <1>1, <1>3 DEF ResolveRead, MemoryOK, Remembers, At, KnowsTrace, KnowsContent,
         KnowsEvaluation, KnowsJudge, Imports
  <2>2. review_items[job[w].review] \in ReviewItemRow
    BY <2>1, ElementOfSeq, LenProperties DEF Invariant, TypeOK, StoreTypeOK
  <2>3. /\ item \in ReviewItemRow
        /\ Evidence(item) = Evidence(review_items[job[w].review])
        /\ item.reasons = review_items[job[w].review].reasons
        /\ item.priority = review_items[job[w].review].priority
        /\ ~ IsPending(item)
    BY <2>1, <2>2, NoneAssumption
       DEF ResolvedItem, ReviewItemRow, Evidence, IsPending
  <2>4. Bound(item)
    BY <2>1, <2>3 DEF Invariant, ReviewBoundToEvidence, Bound, Evidence
  <2>5. next \in Job
    BY <1>1, <2>3 DEF Job, PCs
  <2> HIDE DEF item
  <2>6. job'[w] = next => MemoryOK(w)'
    <3>1. PICK i : i = item
      OBVIOUS
    <3>2. Grows
      BY <1>3, NoNewRows DEF ResolveRead, ReadOnly, tables
    <3>3. Bound(i)'
      BY <2>4, <3>1, <3>2, BoundIsStable
    <3>4. ASSUME job'[w] = next
          PROVE  Bound(job[w].item)'
      <4>1. job'[w].item = i
        BY <1>1, <3>1, <3>4 DEF Job
      <4> QED
        BY <3>3, <4>1 DEF Bound, MayPair, Reasons, FoundReasons, Passed, Priority
    <3> QED
      BY <1>1, <1>3, <2>1, <2>3, <3>4
         DEF Job, ResolveRead, ReadOnly, tables, Evidence, IsPending, MemoryOK, Remembers, At, KnowsTrace, KnowsContent,
         KnowsEvaluation, KnowsJudge, Imports
  <2> QED
    BY <1>3, <2>5, <2>6, QuietMove DEF item, ResolveRead, Steady, Invariant, TypeOK
<1>4. CASE ResolveSave(w)
  <2>1. /\ job[w].review \in DOMAIN review_items
        /\ job[w].item \in ReviewItemRow
        /\ Bound(job[w].item)
        /\ Evidence(job[w].item) = Evidence(review_items[job[w].review])
    BY <1>1, <1>4 DEF ResolveSave, MemoryOK
  <2>2. Grows /\ ReviewBoundToEvidence' /\ GateWasOpen' /\ StoreTypeOK'
    BY <1>4, <2>1, SaveReviewItemGrows DEF ResolveSave
  <2> QED
    BY <1>4, <2>2, WriteThenReply DEF ResolveSave, Answers
<1> QED
  BY <1>2, <1>3, <1>4 DEF Resolve

LEMMA ExportStep ==
  ASSUME Invariant, NEW w \in Workers, Export(w)
  PROVE  Invariant'
<1>1. MemoryOK(w) /\ job[w] \in Job
  BY DEF Invariant, ReadsStayValid, TypeOK
<1>2. CASE ExportExists(w)
  <2>1. CASE Reply(w, "conflict")
    BY <1>2, <2>1, QuietReply DEF ExportExists, Steady, Answers, Invariant, TypeOK
  <2>2. CASE Continue(w, [job[w] EXCEPT !.pc = "export_list"])
    <3> DEFINE next == [job[w] EXCEPT !.pc = "export_list"]
    <3>1. next \in Job
      BY <1>1 DEF Job, PCs
    <3>2. job[w].version \in Versions
      BY <1>1, <1>2 DEF ExportExists, MemoryOK, Remembers, At
    <3>3. job'[w] = next => MemoryOK(w)'
      BY <1>1, <3>2 DEF Job, MemoryOK, Remembers, At, KnowsTrace, KnowsContent,
         KnowsEvaluation, KnowsJudge, Imports
    <3> QED
      BY <1>2, <2>2, <3>1, <3>3, QuietMove DEF ExportExists, Steady, Invariant, TypeOK
  <2> QED
    BY <1>2, <2>1, <2>2 DEF ExportExists
<1>3. CASE ExportList(w)
  <2>1. CASE Reply(w, "error")
    BY <1>3, <2>1, QuietReply DEF ExportList, Steady, Answers, Invariant, TypeOK
  <2>2. CASE Continue(w, [job[w] EXCEPT !.pc = "export_write", !.cases = CalibrationCases])
    <3> DEFINE next == [job[w] EXCEPT !.pc = "export_write", !.cases = CalibrationCases]
    <3>1. CalibrationCases \subseteq Case
      <4>1. /\ review_items \in Seq(ReviewItemRow)
            /\ DOMAIN review_items = 1..Len(review_items)
        BY LenProperties DEF Invariant, TypeOK, StoreTypeOK
      <4>2. ASSUME NEW i \in ResolvedItems
            PROVE  i \in Nat /\ review_items[i].resolution.verdict \in JudgeVerdict
        <5>1. i \in 1..Len(review_items) /\ review_items[i].resolution # None
          BY <4>1 DEF ResolvedItems, IsPending
        <5>2. review_items[i].resolution \in Resolutions
          <6>1. review_items[i] \in ReviewItemRow
            BY <4>1, <5>1, ElementOfSeq
          <6> QED
            BY <5>1, <6>1 DEF ReviewItemRow
        <5> QED
          BY <5>1, <5>2, ResolutionAssumption
      <4> QED
        BY <4>2 DEF CalibrationCases, Case
    <3>2. next \in Job
      BY <1>1, <3>1 DEF Job, PCs
    <3>3. job[w].version \in Versions
      BY <1>1, <1>3 DEF ExportList, MemoryOK, Remembers, At
    <3>4. job'[w] = next => MemoryOK(w)'
      BY <1>1, <3>3 DEF Job, MemoryOK, Remembers, At, KnowsTrace, KnowsContent,
         KnowsEvaluation, KnowsJudge, Imports
    <3> QED
      BY <1>3, <2>2, <3>2, <3>4, QuietMove DEF ExportList, Steady, Invariant, TypeOK
  <2> QED
    BY <1>3, <2>1, <2>2 DEF ExportList
<1>4. CASE ExportWrite(w)
  <2>1. job[w].version \in Versions /\ job[w].cases \in SUBSET Case
    BY <1>1, <1>4 DEF ExportWrite, MemoryOK, Remembers, At, Job
  <2>2. datasets' \in [Versions -> (SUBSET Case) \cup {None}]
    BY <1>4, <2>1 DEF ExportWrite, Invariant, TypeOK
  <2> QED
    BY <1>4, <2>2, QuietReply DEF ExportWrite, Answers, Invariant, TypeOK
<1> QED
  BY <1>2, <1>3, <1>4 DEF Export

LEMMA DeriveStep ==
  ASSUME Invariant, NEW w \in Workers, Derive(w)
  PROVE  Invariant'
<1>1. CASE DeriveReadTrace(w)
  BY <1>1, ReadTraceStep DEF DeriveReadTrace
<1>2. CASE DeriveReadEvaluation(w)
  BY <1>2, ReadLatestEvaluationStep DEF DeriveReadEvaluation
<1>3. CASE DeriveReply(w)
  BY <1>3, QuietReply DEF DeriveReply, Steady, Answers, Invariant, TypeOK
<1> QED
  BY <1>1, <1>2, <1>3 DEF Derive

LEMMA CrashStep ==
  ASSUME Invariant, NEW w \in Workers, Crash(w)
  PROVE  Invariant'
<1>1. crashes' \in 0..MaxCrashes
  BY BoundAssumption DEF Crash, Invariant, TypeOK
<1> QED
  BY <1>1, QuietReply DEF Crash, ReadOnly, tables, Answers, Invariant, TypeOK

-----------------------------------------------------------------------------
\* The invariant is inductive.

LEMMA InvariantHoldsInitially ==
  ASSUME Init
  PROVE  Invariant
<1>1. \A S : << >> \in Seq(S) /\ DOMAIN << >> = {}
  BY EmptySeq
<1>2. TypeOK
  <2>1. Idle("none") \in Job
    BY IdleIsAJob DEF Answers
  <2>2. StoreTypeOK
    BY <1>1 DEF Init, StoreInit, StoreTypeOK
  <2>3. requests \in 0..MaxRequests /\ crashes \in 0..MaxCrashes
    BY BoundAssumption DEF Init
  <2>4. datasets \in [Versions -> (SUBSET Case) \cup {None}]
    BY DEF Init
  <2>5. job \in [Workers -> Job]
    <3> DEFINE fresh == Idle("none")
    <3>1. fresh \in Job /\ job = [w \in Workers |-> fresh]
      BY <2>1 DEF Init
    <3> HIDE DEF fresh
    <3> QED
      BY <3>1
  <2> QED
    BY <2>2, <2>3, <2>4, <2>5 DEF Init, TypeOK
<1>3. ReadsStayValid
  <2>1. \A w \in Workers : job[w].pc = "idle"
    BY DEF Init, Idle
  <2> QED
    BY <2>1 DEF ReadsStayValid, MemoryOK, Remembers, At, KnowsTrace, KnowsContent,
         KnowsEvaluation, KnowsJudge, Imports
<1>4. ReviewBoundToEvidence /\ GateWasOpen
  BY <1>1 DEF Init, StoreInit, ReviewBoundToEvidence, GateWasOpen
<1> QED
  BY <1>2, <1>3, <1>4 DEF Invariant

LEMMA InvariantIsInductive ==
  ASSUME Invariant, [Next]_vars
  PROVE  Invariant'
<1>1. ASSUME NEW w \in Workers, Request(w) PROVE Invariant'
  BY <1>1, RequestStep
<1>2. ASSUME NEW w \in Workers, Work(w) PROVE Invariant'
  BY <1>2, ImportStep, JudgeStep, QueueStep, ResolveStep, ExportStep, DeriveStep DEF Work
<1>3. ASSUME NEW w \in Workers, Crash(w) PROVE Invariant'
  BY <1>3, CrashStep
<1>4. CASE UNCHANGED vars
  <2>1. Grows /\ ReviewBoundToEvidence' /\ GateWasOpen'
    BY <1>4, NoNewRows DEF vars, tables
  <2>2. ReadsStayValid'
    BY <1>4, <2>1, MemoryIsStable DEF vars, Invariant, ReadsStayValid
  <2> QED
    BY <1>4, <2>1, <2>2 DEF vars, tables, Invariant, TypeOK, StoreTypeOK
<1> QED
  BY <1>1, <1>2, <1>3, <1>4 DEF Next, Done

LEMMA InvariantHolds == Spec => []Invariant
<1> QED
  BY InvariantHoldsInitially, InvariantIsInductive, PTL DEF Spec

-----------------------------------------------------------------------------
(***************************************************************************)
(* The theorems.                                                           *)
(***************************************************************************)

\* The store, the files and the locals of every call keep their types.
THEOREM TypeCorrect == Spec => []TypeOK
<1>1. Invariant => TypeOK
  BY DEF Invariant
<1> QED
  BY <1>1, InvariantHolds, PTL

\* No call acts on a result that is gone or has changed since it read it,
\* although no lock or transaction spans two of its reads.
THEOREM ReadsRemainValid == Spec => []ReadsStayValid
<1>1. Invariant => ReadsStayValid
  BY DEF Invariant
<1> QED
  BY <1>1, InvariantHolds, PTL

\* Every review item is bound to the exact evaluation and judge report it
\* names, with the reasons and the priority they give.
THEOREM ReviewsAreBound == Spec => []ReviewBoundToEvidence
<1>1. Invariant => ReviewBoundToEvidence
  BY DEF Invariant
<1> QED
  BY <1>1, InvariantHolds, PTL

-----------------------------------------------------------------------------
(***************************************************************************)
(* What judges are sent.  The gate looks at an evaluation and the payload  *)
(* that is sent was read before it, so for ids that are sent again under   *)
(* any payload the privacy of the one says nothing of the other (the run   *)
(* stale_gate).  It does when every id is sent payloads of one kind.       *)
(***************************************************************************)

\* The payloads importers send for a trace.
Sent(t) ==
  {c \in Contents : \E b \in Batches : \E i \in DOMAIN b : b[i].trace = t /\ b[i].content = c}

AlikeInPrivacy ==
  \A t \in TraceIds : \A c, d \in Sent(t) : c \in PrivacySafe => d \in PrivacySafe

\* No payload of a trace, in the tables or in a call's locals, is another's.
SentOnly ==
  /\ \A t \in TraceIds : traces[t] \in Sent(t) \cup {None}
  /\ \A e \in DOMAIN evaluations : evaluations[e].content \in Sent(evaluations[e].trace)
  /\ \A j \in DOMAIN judge_reports : judge_reports[j].content \in Sent(judge_reports[j].trace)
  /\ \A w \in Workers :
       /\ Remembers(w, Imports) => job[w].batch \in Batches
       /\ Remembers(w, KnowsContent) => job[w].content \in Sent(job[w].trace)

\* A step that writes none of the three tables, by a worker that comes to hold
\* nothing new.
LEMMA SentStays ==
  ASSUME Invariant, SentOnly, NEW w \in Workers, NEW next, Continue(w, next),
         UNCHANGED <<traces, evaluations, judge_reports>>,
         next.pc \in Imports => next.batch \in Batches,
         next.pc \in KnowsContent => next.content \in Sent(next.trace)
  PROVE  SentOnly'
<1>1. \A v \in Workers : job'[v] = IF v = w THEN next ELSE job[v]
  BY DEF Continue, Invariant, TypeOK
<1> QED
  BY <1>1 DEF SentOnly, Remembers

LEMMA SentReply ==
  ASSUME Invariant, SentOnly, NEW w \in Workers, NEW a, Reply(w, a),
         UNCHANGED <<traces, evaluations, judge_reports>>
  PROVE  SentOnly'
BY SentStays DEF Reply, Idle, Imports, KnowsContent

LEMMA SentRequest ==
  ASSUME Invariant, SentOnly, NEW w \in Workers, Request(w)
  PROVE  SentOnly'
<1>1. ASSUME NEW op, Admit(w, op)
      PROVE  UNCHANGED <<traces, evaluations, judge_reports>>
  BY <1>1 DEF Admit, tables
<1>2. ASSUME NEW b \in Batches, RequestImport(w, b) PROVE SentOnly'
  BY <1>1, <1>2, SentStays DEF RequestImport, Begin, Idle, Imports, KnowsContent
<1>3. ASSUME NEW t \in TraceIds, RequestJudge(w, t) PROVE SentOnly'
  BY <1>1, <1>3, SentStays DEF RequestJudge, Begin, Idle, Imports, KnowsContent
<1>4. ASSUME NEW t \in TraceIds, NEW force \in BOOLEAN, RequestQueue(w, t, force)
      PROVE  SentOnly'
  BY <1>1, <1>4, SentStays DEF RequestQueue, Begin, Idle, Imports, KnowsContent
<1>5. ASSUME NEW t \in TraceIds, RequestDerived(w, t) PROVE SentOnly'
  BY <1>1, <1>5, SentStays DEF RequestDerived, Begin, Idle, Imports, KnowsContent
<1>6. ASSUME NEW id, NEW r \in Resolutions, RequestResolve(w, id, r) PROVE SentOnly'
  BY <1>1, <1>6, SentStays DEF RequestResolve, Begin, Idle, Imports, KnowsContent
<1>7. ASSUME NEW v \in Versions, RequestExport(w, v) PROVE SentOnly'
  BY <1>1, <1>7, SentStays DEF RequestExport, Begin, Idle, Imports, KnowsContent
<1> QED
  BY <1>2, <1>3, <1>4, <1>5, <1>6, <1>7 DEF Request

LEMMA SentImport ==
  ASSUME Invariant, SentOnly, NEW w \in Workers, Import(w)
  PROVE  SentOnly'
<1>1. /\ Remembers(w, Imports) /\ job[w] \in Job /\ job[w].batch \in Batches
      /\ job[w].k \in DOMAIN job[w].batch
      /\ Importing(w).trace \in TraceIds /\ Importing(w).content \in Contents
  BY ImportingIsTyped
     DEF Import, SaveTraceRead, SaveTraceConflict, SaveTraceCommit, EvaluateTrace,
         SaveEvaluation, At, Remembers, Imports, Invariant, ReadsStayValid, MemoryOK,
         TypeOK, SentOnly
<1>2. Importing(w).content \in Sent(Importing(w).trace)
  BY <1>1 DEF Importing, Sent
<1>3. CASE SaveTraceRead(w)
  BY <1>1, <1>3, SentStays DEF SaveTraceRead, ReadOnly, tables, Job, Imports, KnowsContent
<1>4. CASE SaveTraceConflict(w)
  BY <1>4, SentReply DEF SaveTraceConflict, ReadOnly, tables
<1>5. CASE SaveTraceCommit(w)
  <2>1. \A t \in TraceIds : traces'[t] \in Sent(t) \cup {None}
    BY <1>1, <1>2, <1>5 DEF SaveTraceCommit, WriteTrace, SentOnly, Invariant, TypeOK, StoreTypeOK
  <2>2. /\ UNCHANGED <<evaluations, judge_reports>>
        /\ \A v \in Workers :
             job'[v] = IF v = w THEN [job[w] EXCEPT !.pc = "evaluate"] ELSE job[v]
    BY <1>5 DEF SaveTraceCommit, WriteTrace, Continue, Invariant, TypeOK
  <2>3. \A v \in Workers :
          /\ Remembers(v, Imports)' => job'[v].batch \in Batches
          /\ Remembers(v, KnowsContent)' => job'[v].content \in Sent(job'[v].trace)
    BY <1>1, <2>2 DEF SentOnly, Remembers, Job, Imports, KnowsContent
  <2> QED
    BY <2>1, <2>2, <2>3 DEF SentOnly
<1>6. CASE EvaluateTrace(w)
  BY <1>1, <1>6, SentStays DEF EvaluateTrace, tables, Job, Imports, KnowsContent
<1>7. CASE SaveEvaluation(w)
  <2> DEFINE row == [trace |-> Importing(w).trace, content |-> Importing(w).content,
                     created_at |-> job[w].created_at]
  <2>1. row \in EvaluationRow
    BY <1>1 DEF EvaluationRow, Job
  <2>2. /\ UNCHANGED <<traces, judge_reports>>
        /\ evaluations' = Append(evaluations, row)
    BY <1>7 DEF SaveEvaluation, InsertEvaluation
  <2>3. \A e \in DOMAIN evaluations' : evaluations'[e].content \in Sent(evaluations'[e].trace)
    BY <1>2, <2>1, <2>2, AppendKeeps DEF Kept, SentOnly, Invariant, TypeOK, StoreTypeOK
  <2>4. PICK next : /\ Continue(w, next)
                    /\ next.pc \notin KnowsContent
                    /\ next.pc \in Imports => next.batch \in Batches
    <3>1. CASE job[w].k = Len(job[w].batch)
      <4> DEFINE next == Idle("ok")
      <4>1. Continue(w, next)
        BY <1>7, <3>1 DEF SaveEvaluation, Reply
      <4>2. next.pc = "idle"
        BY DEF Idle
      <4> HIDE DEF next
      <4> QED
        BY <4>1, <4>2 DEF Imports, KnowsContent
    <3>2. CASE job[w].k # Len(job[w].batch)
      <4> DEFINE next == [job[w] EXCEPT !.pc = "save_read", !.k = @ + 1]
      <4>1. Continue(w, next)
        BY <1>7, <3>2 DEF SaveEvaluation
      <4>2. next.pc = "save_read" /\ next.batch \in Batches
        BY <1>1 DEF Job
      <4> HIDE DEF next
      <4> QED
        BY <4>1, <4>2 DEF KnowsContent
    <3> QED
      BY <3>1, <3>2
  <2>5. \A v \in Workers : job'[v] = IF v = w THEN next ELSE job[v]
    BY <2>4 DEF Continue, Invariant, TypeOK
  <2> QED
    BY <2>2, <2>3, <2>4, <2>5 DEF SentOnly, Remembers
<1> QED
  BY <1>3, <1>4, <1>5, <1>6, <1>7 DEF Import

\* The two reads a judge call and a derived record begin with.
LEMMA SentRead ==
  ASSUME Invariant, SentOnly, NEW w \in Workers, NEW pc, NEW next_pc \in PCs,
         next_pc \notin Imports,
         \/ ReadTrace(w, pc, next_pc) /\ pc \in KnowsTrace
         \/ ReadLatestEvaluation(w, pc, next_pc) /\ (next_pc \in KnowsContent => pc \in KnowsContent)
  PROVE  SentOnly'
<1>1. UNCHANGED <<traces, evaluations, judge_reports>> /\ job[w] \in Job /\ MemoryOK(w)
  BY DEF ReadTrace, ReadLatestEvaluation, ReadOnly, tables, Invariant, TypeOK, ReadsStayValid
<1>2. ASSUME NEW a, Reply(w, a) PROVE SentOnly'
  BY <1>1, <1>2, SentReply
<1>3. CASE ReadTrace(w, pc, next_pc) /\ pc \in KnowsTrace
  <2>1. CASE traces[job[w].trace] = None
    BY <1>2, <1>3, <2>1 DEF ReadTrace
  <2>2. CASE traces[job[w].trace] # None
    <3>1. job[w].trace \in TraceIds
      BY <1>1, <1>3 DEF ReadTrace, At, MemoryOK, Remembers
    <3>2. traces[job[w].trace] \in Sent(job[w].trace)
      BY <2>2, <3>1 DEF SentOnly
    <3>3. Continue(w, [job[w] EXCEPT !.pc = next_pc, !.content = traces[job[w].trace]])
      BY <1>3, <2>2 DEF ReadTrace
    <3> QED
      BY <1>1, <3>2, <3>3, SentStays DEF Job
  <2> QED
    BY <2>1, <2>2
<1>4. CASE ReadLatestEvaluation(w, pc, next_pc) /\ (next_pc \in KnowsContent => pc \in KnowsContent)
  <2>1. ASSUME NEW e, Continue(w, [job[w] EXCEPT !.pc = next_pc, !.evaluation = e])
        PROVE  SentOnly'
    <3>1. next_pc \in KnowsContent => job[w].content \in Sent(job[w].trace)
      BY <1>4 DEF ReadLatestEvaluation, At, SentOnly, Remembers
    <3> QED
      BY <1>1, <2>1, <3>1, SentStays DEF Job
  <2> QED
    BY <1>2, <1>4, <2>1 DEF ReadLatestEvaluation
<1> QED
  BY <1>3, <1>4

LEMMA SentJudge ==
  ASSUME Invariant, SentOnly, NEW w \in Workers, Judge(w)
  PROVE  SentOnly'
<1>1. job[w] \in Job /\ MemoryOK(w)
  BY DEF Invariant, TypeOK, ReadsStayValid
<1>2. CASE JudgeReadTrace(w)
  BY <1>2, SentRead DEF JudgeReadTrace, PCs, KnowsTrace, Imports
<1>3. CASE JudgeReadEvaluation(w)
  BY <1>3, SentRead DEF JudgeReadEvaluation, PCs, KnowsContent, Imports
<1>4. CASE JudgeFails(w)
  BY <1>4, SentReply DEF JudgeFails, ReadOnly, tables
<1>5. CASE JudgeAnswers(w)
  <2>1. PICK o \in JudgeOutputs :
          Continue(w, [job[w] EXCEPT !.pc = "save_judge_report", !.output = o,
                                     !.created_at = clock'])
    BY <1>5 DEF JudgeAnswers
  <2>2. job[w].content \in Sent(job[w].trace)
    BY <1>5 DEF JudgeAnswers, At, SentOnly, Remembers, KnowsContent
  <2>3. UNCHANGED <<traces, evaluations, judge_reports>>
    BY <1>5 DEF JudgeAnswers, tables
  <2> QED
    BY <1>1, <2>1, <2>2, <2>3, SentStays DEF Job, Imports
<1>6. CASE SaveJudgeReport(w)
  <2> DEFINE row == [trace |-> job[w].trace, evaluation |-> job[w].evaluation,
                     content |-> job[w].content, verdict |-> job[w].output.verdict,
                     low |-> job[w].output.low, created_at |-> job[w].created_at]
  <2>1. /\ job[w].trace \in TraceIds /\ job[w].content \in Contents
        /\ job[w].content \in Sent(job[w].trace)
    BY <1>1, <1>6 DEF SaveJudgeReport, MemoryOK, Remembers, At, KnowsTrace, KnowsContent,
                      SentOnly
  <2>2. row \in JudgeReportRow
    BY <1>1, <2>1 DEF JudgeReportRow, Job
  <2>3. /\ UNCHANGED <<traces, evaluations>>
        /\ judge_reports' = Append(judge_reports, row)
    BY <1>6 DEF SaveJudgeReport, InsertJudgeReport
  <2>4. \A j \in DOMAIN judge_reports' :
          judge_reports'[j].content \in Sent(judge_reports'[j].trace)
    BY <2>1, <2>2, <2>3, AppendKeeps DEF Kept, SentOnly, Invariant, TypeOK, StoreTypeOK
  <2>5. \A v \in Workers :
          job'[v] = IF v = w THEN [Begin("queue_evaluation") EXCEPT !.trace = job[w].trace]
                    ELSE job[v]
    BY <1>6 DEF SaveJudgeReport, Continue, Invariant, TypeOK
  <2>6. job'[w].pc = "queue_evaluation"
    BY <2>5 DEF Begin, Idle
  <2>7. \A v \in Workers :
          /\ Remembers(v, Imports)' => job'[v].batch \in Batches
          /\ Remembers(v, KnowsContent)' => job'[v].content \in Sent(job'[v].trace)
    BY <2>5, <2>6 DEF SentOnly, Remembers, Imports, KnowsContent
  <2> QED
    BY <2>3, <2>4, <2>7 DEF SentOnly
<1> QED
  BY <1>2, <1>3, <1>4, <1>5, <1>6 DEF Judge

LEMMA SentElsewhere ==
  ASSUME Invariant, SentOnly, NEW w \in Workers,
         Queue(w) \/ Resolve(w) \/ Export(w) \/ Derive(w) \/ Crash(w)
  PROVE  SentOnly'
<1>1. job[w] \in Job /\ MemoryOK(w)
  BY DEF Invariant, TypeOK, ReadsStayValid
<1>2. ASSUME NEW a, Reply(w, a), UNCHANGED <<traces, evaluations, judge_reports>>
      PROVE  SentOnly'
  BY <1>2, SentReply
<1>3. ASSUME NEW next, Continue(w, next), UNCHANGED <<traces, evaluations, judge_reports>>,
             next.pc \notin Imports \cup KnowsContent
      PROVE  SentOnly'
  BY <1>3, SentStays
<1>4. CASE Queue(w)
  <2>1. CASE QueueReadEvaluation(w)
    BY <2>1, SentRead DEF QueueReadEvaluation, PCs, KnowsContent, Imports
  <2>2. CASE QueueReadJudge(w)
    <3>1. UNCHANGED <<traces, evaluations, judge_reports>>
      BY <2>2 DEF QueueReadJudge, ReadOnly, tables
    <3>2. ASSUME NEW j, Continue(w, [job[w] EXCEPT !.pc = "find_review", !.judge = j])
          PROVE  SentOnly'
      BY <1>1, <1>3, <3>1, <3>2 DEF Job, Imports, KnowsContent
    <3> QED
      BY <1>2, <2>2, <3>1, <3>2 DEF QueueReadJudge
  <2>3. CASE FindReviewItem(w)
    BY <1>1, <1>2, <1>3, <2>3 DEF FindReviewItem, ReadOnly, tables, Job, Imports, KnowsContent
  <2>4. CASE SelectMismatched(w) \/ SelectNothing(w) \/ SelectReview(w)
    BY <1>2, <2>4 DEF SelectMismatched, SelectNothing, SelectReview, SaveReviewItem, ReadOnly,
                      tables
  <2> QED
    BY <1>4, <2>1, <2>2, <2>3, <2>4 DEF Queue
<1>5. CASE Resolve(w)
  <2>1. CASE ResolveRefused(w) \/ ResolveSave(w)
    BY <1>2, <2>1 DEF ResolveRefused, ResolveSave, SaveReviewItem, ReadOnly, tables
  <2>2. CASE ResolveRead(w)
    BY <1>1, <1>3, <2>2 DEF ResolveRead, ReadOnly, tables, Job, Imports, KnowsContent
  <2> QED
    BY <1>5, <2>1, <2>2 DEF Resolve
<1>6. CASE Export(w)
  <2>1. CASE ExportExists(w)
    BY <1>1, <1>2, <1>3, <2>1 DEF ExportExists, ReadOnly, tables, Job, Imports, KnowsContent
  <2>2. CASE ExportList(w)
    BY <1>1, <1>2, <1>3, <2>2 DEF ExportList, ReadOnly, tables, Job, Imports, KnowsContent
  <2>3. CASE ExportWrite(w)
    BY <1>2, <2>3 DEF ExportWrite, ReadOnly, tables
  <2> QED
    BY <1>6, <2>1, <2>2, <2>3 DEF Export
<1>7. CASE Derive(w)
  <2>1. CASE DeriveReadTrace(w)
    BY <2>1, SentRead DEF DeriveReadTrace, PCs, KnowsTrace, Imports
  <2>2. CASE DeriveReadEvaluation(w)
    BY <2>2, SentRead DEF DeriveReadEvaluation, PCs, KnowsContent, Imports
  <2>3. CASE DeriveReply(w)
    BY <1>2, <2>3 DEF DeriveReply, ReadOnly, tables
  <2> QED
    BY <1>7, <2>1, <2>2, <2>3 DEF Derive
<1>8. CASE Crash(w)
  BY <1>2, <1>8 DEF Crash, tables
<1> QED
  BY <1>4, <1>5, <1>6, <1>7, <1>8

LEMMA SentOnlyHolds == Spec => []SentOnly
<1>1. Init => SentOnly
  <2>1. ASSUME Init PROVE \A w \in Workers : job[w].pc = "idle"
    BY <2>1 DEF Init, Idle
  <2> QED
    BY <2>1, EmptySeq DEF Init, StoreInit, SentOnly, Remembers, Imports, KnowsContent
<1>2. Invariant /\ SentOnly /\ [Next]_vars => SentOnly'
  <2> SUFFICES ASSUME Invariant, SentOnly, [Next]_vars PROVE SentOnly'
    OBVIOUS
  <2>1. ASSUME NEW w \in Workers, Request(w) \/ Work(w) \/ Crash(w) PROVE SentOnly'
    BY <2>1, SentRequest, SentImport, SentJudge, SentElsewhere DEF Work
  <2>2. CASE UNCHANGED vars
    BY <2>2 DEF vars, tables, SentOnly, Remembers
  <2> QED
    BY <2>1, <2>2 DEF Next, Done
<1> QED
  BY <1>1, <1>2, InvariantHolds, PTL DEF Spec

\* Whatever is interleaved or cut short, no judge is sent a payload that fails
\* the privacy check, provided that a trace id which was ever sent with a safe
\* payload is never sent with a leaking one.
THEOREM JudgmentsPassedTheGate ==
  ASSUME AlikeInPrivacy
  PROVE  Spec => []JudgedBehindPrivacyGate
<1>1. ASSUME Invariant, SentOnly, NEW j \in DOMAIN judge_reports
      PROVE  judge_reports[j].content \in PrivacySafe
  <2> DEFINE t == judge_reports[j].trace
             e == judge_reports[j].evaluation
  <2>1. /\ e \in DOMAIN evaluations /\ evaluations[e].trace = t
        /\ evaluations[e].content \in PrivacySafe
    BY <1>1 DEF Invariant, GateWasOpen, PrivacyPassed
  <2>2. evaluations[e].content \in Sent(t) /\ judge_reports[j].content \in Sent(t)
    BY <1>1, <2>1 DEF SentOnly
  <2>3. t \in TraceIds
    <3>1. judge_reports[j] \in JudgeReportRow
      BY <1>1, ElementOfSeq, LenProperties DEF Invariant, TypeOK, StoreTypeOK
    <3> QED
      BY <3>1 DEF JudgeReportRow
  <2> QED
    BY <2>1, <2>2, <2>3 DEF AlikeInPrivacy
<1>2. Invariant /\ SentOnly => JudgedBehindPrivacyGate
  BY <1>1 DEF JudgedBehindPrivacyGate
<1> QED
  BY <1>2, InvariantHolds, SentOnlyHolds, PTL
=============================================================================

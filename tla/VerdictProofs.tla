---------------------------- MODULE VerdictProofs ----------------------------
(***************************************************************************)
(* What the reports of the tools may claim, for every value of the         *)
(* constants: the queue of hard cases, the set curated from it, the        *)
(* readiness audit, the promotion of a batch and of a benchmark report,    *)
(* the calibration of judges, the score of trajectories, the challenge set *)
(* of a regression run and the faults a suite detects.                     *)
(***************************************************************************)
EXTENDS ToolsProofs

-----------------------------------------------------------------------------
\* The order of the queue.

\* priority_score stays below 200.
Highest == 200 * 10000

Priority(p) == p \in Nat /\ p <= Highest

\* A score, in 1/10000.
InUnit(n) == n \in Int /\ 0 <= n /\ n <= 10000

LEMMA PrioritiesBounded == \A s \in SampleKinds : Priority(CasePriority(s))
<1> SUFFICES ASSUME NEW s \in SampleKinds PROVE Priority(CasePriority(s))
  OBVIOUS
<1> USE DEF InUnit
<1>1. InUnit(s.candidate.score) /\ InUnit(s.baseline.score)
  <2>1. s.candidate \in Side /\ s.baseline \in Side
    BY SampleAssumption
  <2>2. ASSUME NEW side \in Side PROVE InUnit(side.score)
    <3> DEFINE score == side.score
    <3>1. score \in 0..10000
      BY DEF Side
    <3> HIDE DEF score
    <3>2. InUnit(score)
      BY <3>1
    <3>3. QED
      BY <3>2 DEF score
  <2>3. QED
    BY <2>1, <2>2
<1>2. ScoreDelta(s) \in Int /\ -10000 <= ScoreDelta(s) /\ ScoreDelta(s) <= 10000
  BY <1>1 DEF ScoreDelta
<1>3. InUnit(AtLeastZero(-ScoreDelta(s))) /\ InUnit(AtLeastZero(ScoreDelta(s)))
  BY <1>2 DEF AtLeastZero
<1>4. SeverityWeight(s) \in {40, 70, 100}
  BY Zenon DEF SeverityWeight
<1>5. QED
  <2> DEFINE w == SeverityWeight(s)
             d == AtLeastZero(-ScoreDelta(s))
             u == AtLeastZero(ScoreDelta(s))
             c == s.candidate.score
  <2>1. w \in {40, 70, 100} /\ InUnit(d) /\ InUnit(u) /\ InUnit(c)
    BY <1>1, <1>3, <1>4
  <2>2. CasePriority(s) = w * 10000 + d * 20 + (10000 - c) * 10
          + (IF CaseKind(s) = "resolved_baseline_failure" THEN u * 10 ELSE 0)
    BY DEF CasePriority
  <2> HIDE DEF w, d, u, c
  <2>3. QED
    BY <2>1, <2>2 DEF Priority, Highest

\* What the report holds.
Reported(samples) == samples \in [DOMAIN SampleTasks -> SampleKinds]

LEMMA CasesAreNumbered ==
  ASSUME NEW samples, Reported(samples)
  PROVE  /\ DOMAIN samples = DOMAIN SampleTasks /\ DOMAIN samples \subseteq Nat
         /\ \A i \in DOMAIN samples : Priority(CasePriority(samples[i]))
<1>1. DOMAIN SampleTasks \subseteq Nat
  BY SampleAssumption, LenProperties
<1>2. QED
  BY <1>1, PrioritiesBounded DEF Reported

LEMMA MostUrgentIs ==
  ASSUME NEW samples, Reported(samples),
         NEW cases, cases \subseteq DOMAIN samples, cases # {}
  PROVE  /\ MostUrgent(samples, cases) \in cases
         /\ \A j \in cases \ {MostUrgent(samples, cases)} :
              MoreUrgent(samples, MostUrgent(samples, cases), j)
<1> DEFINE p == [i \in cases |-> CasePriority(samples[i])]
<1>1. cases \subseteq Nat /\ \A i \in cases : Priority(p[i])
  BY CasesAreNumbered
<1>2. \A i, j \in cases : /\ p[i] \in Nat /\ p[j] \in Nat
                          /\ p[i] > p[j] => MoreUrgent(samples, i, j)
                          /\ p[i] = p[j] /\ i < j => MoreUrgent(samples, i, j)
  BY <1>1 DEF MoreUrgent, Priority
<1> HIDE DEF p
<1>3. PICK i \in cases : \A j \in cases : p[j] <= p[i]
  <2> DEFINE T == {Highest - p[j] : j \in cases}
  <2>1. T \subseteq Nat /\ T # {}
    BY <1>1 DEF Priority, Highest
  <2>2. PICK m \in T : \A n \in T : m <= n
    <3> HIDE DEF T
    <3>1. QED
      BY <2>1, LeastNatural
  <2>3. PICK i \in cases : m = Highest - p[i]
    BY <2>2
  <2>4. \A j \in cases : Highest - p[i] <= Highest - p[j]
    BY <2>2, <2>3
  <2>5. QED
    BY <1>1, <2>4 DEF Priority, Highest
<1>4. PICK k \in cases : p[k] = p[i] /\ \A l \in cases : p[l] = p[i] => k <= l
  <2> DEFINE T == {j \in cases : p[j] = p[i]}
  <2>1. T \subseteq Nat /\ T # {}
    BY <1>1
  <2>2. PICK m \in T : \A n \in T : m <= n
    <3> HIDE DEF T
    <3>1. QED
      BY <2>1, LeastNatural
  <2>3. QED
    BY <2>2
<1>5. ASSUME NEW j \in cases \ {k} PROVE MoreUrgent(samples, k, j)
  <2>1. p[j] <= p[k] /\ (p[j] = p[k] => k < j) /\ p[j] \in Nat /\ p[k] \in Nat
    BY <1>1, <1>2, <1>3, <1>4
  <2>2. QED
    BY <1>2, <2>1
<1>6. QED
  BY <1>5 DEF MostUrgent

\* The order is strict, so a set has one most urgent case.
LEMMA UrgencyIsStrict ==
  ASSUME NEW samples, Reported(samples), NEW i \in DOMAIN samples, NEW j \in DOMAIN samples,
         MoreUrgent(samples, i, j)
  PROVE  i # j /\ ~MoreUrgent(samples, j, i)
  BY CasesAreNumbered DEF MoreUrgent, Priority

-----------------------------------------------------------------------------
\* The buckets.

LEMMA BucketsApart ==
  ASSUME NEW samples, Reported(samples)
  PROVE  /\ DOMAIN Buckets(samples) \subseteq DOMAIN samples
         /\ Buckets(samples) \in [DOMAIN Buckets(samples) -> SUBSET Eligible(samples)]
         /\ \A a, b \in DOMAIN Buckets(samples) :
              a # b => Buckets(samples)[a] \cap Buckets(samples)[b] = {}
<1> DEFINE heads == {i \in Eligible(samples) : i = MostUrgent(samples, Bucket(samples, i))}
<1>1. Buckets(samples) = [b \in heads |-> Bucket(samples, b)]
  BY DEF Buckets
<1>2. heads \subseteq DOMAIN samples
  BY DEF Eligible
<1>3. \A b \in heads : Bucket(samples, b) \subseteq Eligible(samples)
  BY DEF Bucket
<1>4. ASSUME NEW a \in heads, NEW b \in heads,
             Bucket(samples, a) \cap Bucket(samples, b) # {}
      PROVE  a = b
  <2>1. BucketKey(samples[a]) = BucketKey(samples[b])
    BY <1>4 DEF Bucket
  <2>2. Bucket(samples, a) = Bucket(samples, b)
    BY <2>1 DEF Bucket
  <2>3. a = MostUrgent(samples, Bucket(samples, a)) /\ b = MostUrgent(samples, Bucket(samples, b))
    OBVIOUS
  <2>4. QED
    BY <2>2, <2>3
<1> HIDE DEF heads
<1>5. QED
  BY <1>1, <1>2, <1>3, <1>4

-----------------------------------------------------------------------------
\* The round robin.

QueueShape ==
  /\ DOMAIN job = {"tool", "pc", "samples", "left", "taken", "round", "progressed",
                   "selected", "complete", "curated", "rejected", "result"}
  /\ Reported(job.samples)
  /\ DOMAIN job.left \subseteq DOMAIN job.samples
  /\ job.left \in [DOMAIN job.left -> SUBSET Eligible(job.samples)]
  /\ job.taken \in [DOMAIN job.left -> Nat]
  /\ job.round \subseteq DOMAIN job.left
  /\ job.selected \in Seq(Eligible(job.samples))
  /\ Len(job.selected) <= MiningPolicy.max_cases
  /\ job.pc = "mine" => job.curated = {} /\ job.rejected = {}

\* Within a round nobody is more than a case ahead of a bucket that still has
\* its turn, and nobody that has not had its turn is level with one that has.
InTurn ==
  \A a, b \in DOMAIN job.left : ~Exhausted(b) =>
    /\ (a \in job.round <=> b \in job.round) => job.taken[a] <= job.taken[b]
    /\ a \notin job.round /\ b \in job.round => job.taken[a] <= job.taken[b] + 1
    /\ a \in job.round /\ b \notin job.round => job.taken[a] + 1 <= job.taken[b]

\* A round that took nothing found only exhausted buckets; mining that ended
\* with room in the queue found nothing else.
NothingLeft ==
  /\ job.pc = "mine" /\ ~job.progressed =>
       \A b \in DOMAIN job.left \ job.round : Exhausted(b)
  /\ job.pc # "mine" /\ ~QueueIsFull => \A b \in DOMAIN job.left : Exhausted(b)

\* A case is in one bucket or in the queue, once.
CasesOnce ==
  /\ \A a, b \in DOMAIN job.left : a # b => job.left[a] \cap job.left[b] = {}
  /\ \A k \in DOMAIN job.selected : \A b \in DOMAIN job.left : job.selected[k] \notin job.left[b]
  /\ \A k, l \in DOMAIN job.selected : job.selected[k] = job.selected[l] => k = l

MiningInv == QueueShape /\ InTurn /\ NothingLeft /\ CasesOnce /\ CurationKeepsTasksTogether

LEMMA MiningInitInv == MiningInit => MiningInv
<1>0. SUFFICES ASSUME NEW samples \in [DOMAIN SampleTasks -> SampleKinds],
                    job = [tool |-> "hard cases", pc |-> "mine", samples |-> samples,
                           left |-> Buckets(samples),
                           taken |-> [b \in DOMAIN Buckets(samples) |-> 0],
                           round |-> DOMAIN Buckets(samples), progressed |-> FALSE,
                           selected |-> << >>, complete |-> FALSE, curated |-> {},
                           rejected |-> {}, result |-> None]
             PROVE  MiningInv
  BY Zenon DEF MiningInit
<1>1. /\ DOMAIN job = {"tool", "pc", "samples", "left", "taken", "round", "progressed",
                       "selected", "complete", "curated", "rejected", "result"}
      /\ job.pc = "mine" /\ job.samples = samples /\ job.left = Buckets(samples)
      /\ job.taken = [b \in DOMAIN Buckets(samples) |-> 0]
      /\ job.round = DOMAIN Buckets(samples) /\ job.selected = << >>
      /\ job.curated = {} /\ job.rejected = {}
  BY <1>0
<1>2. Reported(samples)
  BY <1>0 DEF Reported
<1>3. QueueShape
  <2>1. job.selected \in Seq(Eligible(job.samples)) /\ Len(job.selected) = 0
    BY <1>1, EmptySeq
  <2>2. 0 <= MiningPolicy.max_cases
    <3>1. MiningPolicy.max_cases \in Nat \ {0}
      BY MiningAssumption
    <3>2. \A n \in Nat \ {0} : 0 <= n
      OBVIOUS
    <3>3. QED
      BY <3>1, <3>2, Zenon
  <2>3. /\ DOMAIN job.left \subseteq DOMAIN job.samples
        /\ job.left \in [DOMAIN job.left -> SUBSET Eligible(job.samples)]
    BY <1>1, <1>2, BucketsApart
  <2>4. job.taken \in [DOMAIN job.left -> Nat] /\ job.round \subseteq DOMAIN job.left
    BY <1>1
  <2>5. QED
    BY <1>1, <1>2, <2>1, <2>2, <2>3, <2>4 DEF QueueShape
<1>4. InTurn
  <2>1. \A b \in DOMAIN job.left : job.taken[b] = 0 /\ b \in job.round
    BY <1>1
  <2>2. \A a, b \in DOMAIN job.left :
          job.taken[a] <= job.taken[b] /\ (a \in job.round <=> b \in job.round)
    <3>1. 0 <= 0
      OBVIOUS
    <3>2. QED
      BY <2>1, <3>1, Zenon
  <2>3. QED
    BY <2>1, <2>2, Zenon DEF InTurn
<1>5. NothingLeft
  BY <1>1 DEF NothingLeft
<1>6. CasesOnce
  <2>1. DOMAIN job.selected = {}
    <3>1. job.selected \in Seq(Eligible(job.samples)) /\ Len(job.selected) = 0
      BY <1>1, EmptySeq
    <3>2. DOMAIN job.selected = 1..Len(job.selected)
      BY <3>1, LenProperties
    <3>3. 1..0 = {}
      OBVIOUS
    <3>4. QED
      BY <3>1, <3>2, <3>3, Zenon
  <2>2. \A a, b \in DOMAIN job.left : a # b => job.left[a] \cap job.left[b] = {}
    BY <1>1, <1>2, BucketsApart
  <2>3. QED
    BY <2>1, <2>2 DEF CasesOnce
<1>7. CurationKeepsTasksTogether
  BY <1>1 DEF CurationKeepsTasksTogether, EndedWith, Running
<1>8. QED
  BY <1>3, <1>4, <1>5, <1>6, <1>7 DEF MiningInv

LEMMA NextBucketIs ==
  ASSUME QueueShape, job.round # {} PROVE NextBucket \in job.round
  BY MostUrgentIs DEF QueueShape, NextBucket

\* A bucket that has run dry or reached its limit stays so.
TakesFrom(b, case) ==
  /\ job'.samples = job.samples
  /\ b \in job.round /\ b \in DOMAIN job.left /\ ~Exhausted(b)
  /\ case \in job.left[b]
  /\ job'.left = [job.left EXCEPT ![b] = @ \ {case}]
  /\ job'.taken = [job.taken EXCEPT ![b] = @ + 1]
  /\ job'.selected = Append(job.selected, case)
  /\ job'.round = job.round \ {b}
  /\ job.pc = "mine" /\ job'.pc = "mine" /\ job'.progressed
  /\ ~QueueIsFull
  /\ DOMAIN job' = DOMAIN job /\ job'.curated = job.curated /\ job'.rejected = job.rejected

LEMMA TakeCaseTakes ==
  ASSUME QueueShape, TakeCase
  PROVE  \E b, case : TakesFrom(b, case)
<1> DEFINE b == NextBucket
           case == MostUrgent(job.samples, job.left[b])
<1>1. b \in job.round /\ b \in DOMAIN job.left
  BY NextBucketIs DEF TakeCase, QueueShape
<1>2. ~Exhausted(b)
  BY DEF TakeCase
<1>3. case \in job.left[b]
  <2>1. job.left[b] # {} /\ job.left[b] \subseteq DOMAIN job.samples /\ Reported(job.samples)
    BY <1>1, <1>2 DEF Exhausted, QueueShape, Eligible
  <2> HIDE DEF b
  <2>2. QED
    BY <2>1, MostUrgentIs
<1>4. job' = [job EXCEPT !.selected = Append(@, case), !.left[b] = @ \ {case},
                         !.taken[b] = @ + 1, !.round = job.round \ {b}, !.progressed = TRUE]
  BY DEF TakeCase, Take
<1>5. DOMAIN job = {"tool", "pc", "samples", "left", "taken", "round", "progressed",
                    "selected", "complete", "curated", "rejected", "result"}
  BY DEF QueueShape
<1>6. job.pc = "mine" /\ ~QueueIsFull
  BY DEF TakeCase, Mining, Running
<1> HIDE DEF b, case
<1>7. /\ DOMAIN job' = DOMAIN job /\ job'.curated = job.curated /\ job'.rejected = job.rejected
      /\ job'.samples = job.samples /\ job'.pc = job.pc
      /\ job'.left = [job.left EXCEPT ![b] = @ \ {case}]
      /\ job'.taken = [job.taken EXCEPT ![b] = @ + 1]
      /\ job'.selected = Append(job.selected, case)
      /\ job'.round = job.round \ {b} /\ job'.progressed
  BY <1>4, <1>5
<1>8. QED
  BY <1>1, <1>2, <1>3, <1>6, <1>7 DEF TakesFrom

LEMMA TakeCaseInv == ASSUME MiningInv, TakeCase PROVE MiningInv'
<1>1. QueueShape /\ InTurn /\ CasesOnce
  BY DEF MiningInv
<1>2. PICK b, case : TakesFrom(b, case)
  BY <1>1, TakeCaseTakes
<1>3. /\ b \in job.round /\ b \in DOMAIN job.left /\ case \in job.left[b]
      /\ DOMAIN job'.left = DOMAIN job.left /\ DOMAIN job'.taken = DOMAIN job.left
      /\ \A a \in DOMAIN job.left :
           /\ job.taken[a] \in Nat /\ job.left[a] \subseteq Eligible(job.samples)
           /\ job'.taken[a] = IF a = b THEN job.taken[a] + 1 ELSE job.taken[a]
           /\ job'.left[a] = IF a = b THEN job.left[a] \ {case} ELSE job.left[a]
  <2>1. /\ job.taken \in [DOMAIN job.left -> Nat]
        /\ job.left \in [DOMAIN job.left -> SUBSET Eligible(job.samples)]
    BY <1>1 DEF QueueShape
  <2>2. /\ b \in job.round /\ b \in DOMAIN job.left /\ case \in job.left[b]
        /\ job'.left = [job.left EXCEPT ![b] = @ \ {case}]
        /\ job'.taken = [job.taken EXCEPT ![b] = @ + 1]
    BY <1>2 DEF TakesFrom
  <2>3. DOMAIN job'.left = DOMAIN job.left /\ DOMAIN job'.taken = DOMAIN job.left
    BY <2>1, <2>2
  <2>4. ASSUME NEW a \in DOMAIN job.left
        PROVE  /\ job.taken[a] \in Nat /\ job.left[a] \subseteq Eligible(job.samples)
               /\ job'.taken[a] = IF a = b THEN job.taken[a] + 1 ELSE job.taken[a]
               /\ job'.left[a] = IF a = b THEN job.left[a] \ {case} ELSE job.left[a]
    <3>1. job.taken[a] \in Nat /\ job.left[a] \subseteq Eligible(job.samples)
      BY <2>1
    <3>2. job'.taken[a] = IF a = b THEN job.taken[a] + 1 ELSE job.taken[a]
      BY <2>1, <2>2
    <3>3. job'.left[a] = IF a = b THEN job.left[a] \ {case} ELSE job.left[a]
      BY <2>1, <2>2
    <3>4. QED
      BY <3>1, <3>2, <3>3
  <2>5. QED
    BY <2>2, <2>3, <2>4
<1>4. job.selected \in Seq(Eligible(job.samples)) /\ case \in Eligible(job.samples)
  BY <1>1, <1>3 DEF QueueShape
<1>5. /\ job'.selected \in Seq(Eligible(job.samples))
      /\ Len(job'.selected) = Len(job.selected) + 1 /\ Len(job.selected) \in Nat
      /\ DOMAIN job'.selected = 1..(Len(job.selected) + 1)
      /\ DOMAIN job.selected = 1..Len(job.selected)
      /\ \A k \in 1..Len(job.selected) : job'.selected[k] = job.selected[k]
      /\ job'.selected[Len(job.selected) + 1] = case
  <2> DEFINE S == Eligible(job.samples)
             old == job.selected
             new == job'.selected
  <2>1. old \in Seq(S) /\ case \in S /\ new = Append(old, case)
    BY <1>2, <1>4 DEF TakesFrom
  <2> HIDE DEF S, old, new
  <2>2. new \in Seq(S) /\ Len(new) = Len(old) + 1 /\ Len(old) \in Nat
    BY <2>1
  <2>3. DOMAIN new = 1..(Len(old) + 1) /\ DOMAIN old = 1..Len(old)
    BY <2>1, <2>2
  <2>4. (\A k \in 1..Len(old) : new[k] = old[k]) /\ new[Len(old) + 1] = case
    BY <2>1, <2>2
  <2>5. QED
    BY <2>2, <2>3, <2>4 DEF S, old, new
<1>6. QueueShape'
  <2>1. Len(job.selected) < MiningPolicy.max_cases
    <3> DEFINE max == MiningPolicy.max_cases
               len == Len(job.selected)
    <3>1. max \in Nat /\ len \in Nat /\ ~(len >= max)
      BY <1>2, <1>5, MiningAssumption DEF TakesFrom, QueueIsFull
    <3> HIDE DEF max, len
    <3>2. len < max
      BY <3>1
    <3>3. QED
      BY <3>2 DEF max, len
  <2>2. Len(job'.selected) <= MiningPolicy.max_cases
    <3> DEFINE max == MiningPolicy.max_cases
               len == Len(job.selected)
    <3>1. max \in Nat /\ len \in Nat /\ len < max /\ Len(job'.selected) = len + 1
      BY <1>5, <2>1, MiningAssumption
    <3> HIDE DEF max, len
    <3>2. len + 1 <= max
      BY <3>1
    <3>3. QED
      BY <3>1, <3>2 DEF max, len
  <2>3. job'.taken \in [DOMAIN job.left -> Nat]
    BY <1>1, <1>2 DEF TakesFrom, QueueShape
  <2>4. job'.left \in [DOMAIN job.left -> SUBSET Eligible(job.samples)]
    BY <1>1, <1>2 DEF TakesFrom, QueueShape
  <2>5. QED
    BY <1>1, <1>2, <1>3, <1>5, <2>2, <2>3, <2>4 DEF QueueShape, TakesFrom
<1>7. \A a \in DOMAIN job.left : Exhausted(a) => Exhausted(a)'
  <2> SUFFICES ASSUME NEW a \in DOMAIN job.left, Exhausted(a) PROVE Exhausted(a)'
    OBVIOUS
  <2>1. CASE job.left[a] = {}
    BY <1>3, <2>1 DEF Exhausted
  <2>2. CASE job.taken[a] >= MiningPolicy.max_per_signature
    <3> DEFINE max == MiningPolicy.max_per_signature
               was == job.taken[a]
    <3>1. max \in Nat /\ was \in Nat /\ was >= max /\ job'.taken[a] \in {was, was + 1}
      BY <1>3, <2>2, MiningAssumption
    <3> HIDE DEF max, was
    <3>2. job'.taken[a] >= max
      BY <3>1
    <3>3. QED
      BY <3>2 DEF max, Exhausted
  <2>3. QED
    BY <2>1, <2>2 DEF Exhausted
<1>8. InTurn'
  <2> SUFFICES ASSUME NEW c \in DOMAIN job.left, NEW d \in DOMAIN job.left, ~Exhausted(d)'
               PROVE  /\ (c \in job'.round <=> d \in job'.round) => job'.taken[c] <= job'.taken[d]
                      /\ c \notin job'.round /\ d \in job'.round => job'.taken[c] <= job'.taken[d] + 1
                      /\ c \in job'.round /\ d \notin job'.round => job'.taken[c] + 1 <= job'.taken[d]
    BY <1>3 DEF InTurn
  <2>1. ~Exhausted(d)
    BY <1>7
  <2>2. job'.round = job.round \ {b}
    BY <1>2 DEF TakesFrom
  <2>3. /\ (c \in job.round <=> d \in job.round) => job.taken[c] <= job.taken[d]
        /\ c \notin job.round /\ d \in job.round => job.taken[c] <= job.taken[d] + 1
        /\ c \in job.round /\ d \notin job.round => job.taken[c] + 1 <= job.taken[d]
    BY <1>1, <2>1 DEF InTurn
  <2>4. /\ job.taken[c] \in Nat /\ job.taken[d] \in Nat
        /\ c # b => job'.taken[c] = job.taken[c] /\ (c \in job'.round <=> c \in job.round)
        /\ d # b => job'.taken[d] = job.taken[d] /\ (d \in job'.round <=> d \in job.round)
        /\ job'.taken[b] = job.taken[b] + 1 /\ b \notin job'.round /\ b \in job.round
    BY <1>3, <2>2
  <2> DEFINE tc == job.taken[c]
             td == job.taken[d]
  <2>5. CASE c # b /\ d # b
    BY <2>3, <2>4, <2>5
  <2>6. CASE c = b /\ d # b
    <3>1. job'.taken[c] = tc + 1 /\ job'.taken[d] = td /\ tc \in Nat /\ td \in Nat
      BY <2>4, <2>6
    <3>2. (d \in job.round => tc <= td) /\ (d \notin job.round => tc + 1 <= td)
      BY <2>3, <2>4, <2>6
    <3> HIDE DEF tc, td
    <3>3. (d \in job.round => job'.taken[c] <= job'.taken[d] + 1)
          /\ (d \notin job.round => job'.taken[c] <= job'.taken[d])
      BY <3>1, <3>2
    <3>4. QED
      BY <2>4, <2>6, <3>3
  <2>7. CASE c # b /\ d = b
    <3>1. job'.taken[c] = tc /\ job'.taken[d] = td + 1 /\ tc \in Nat /\ td \in Nat
      BY <2>4, <2>7
    <3>2. (c \in job.round => tc <= td) /\ (c \notin job.round => tc <= td + 1)
      BY <2>3, <2>4, <2>7
    <3> HIDE DEF tc, td
    <3>3. (c \in job.round => job'.taken[c] + 1 <= job'.taken[d])
          /\ (c \notin job.round => job'.taken[c] <= job'.taken[d])
      BY <3>1, <3>2
    <3>4. QED
      BY <2>4, <2>7, <3>3
  <2>8. CASE c = b /\ d = b
    <3>1. job'.taken[c] \in Nat
      BY <2>4, <2>8
    <3>2. \A n \in Nat : n <= n
      OBVIOUS
    <3>3. QED
      BY <2>4, <2>8, <3>1, <3>2
  <2>9. QED
    BY <2>5, <2>6, <2>7, <2>8
<1>9. NothingLeft'
  BY <1>2 DEF NothingLeft, TakesFrom
<1>10. CasesOnce'
  <2>1. \A k \in 1..Len(job.selected) : job.selected[k] # case
    BY <1>1, <1>3, <1>5 DEF CasesOnce
  <2>2. ASSUME NEW k \in DOMAIN job'.selected, NEW a \in DOMAIN job.left
        PROVE  job'.selected[k] \notin job'.left[a]
    <3>1. CASE k \in 1..Len(job.selected)
      BY <1>1, <1>3, <1>5, <3>1 DEF CasesOnce
    <3>2. CASE k = Len(job.selected) + 1
      BY <1>1, <1>3, <1>5, <3>2 DEF CasesOnce
    <3>3. QED
      BY <1>5, <3>1, <3>2
  <2>3. ASSUME NEW k \in DOMAIN job'.selected, NEW l \in DOMAIN job'.selected,
               job'.selected[k] = job'.selected[l]
        PROVE  k = l
    <3>1. CASE k \in 1..Len(job.selected) /\ l \in 1..Len(job.selected)
      BY <1>1, <1>5, <2>3, <3>1 DEF CasesOnce
    <3>2. CASE k = Len(job.selected) + 1 \/ l = Len(job.selected) + 1
      BY <1>5, <2>1, <2>3, <3>2
    <3>3. QED
      BY <1>5, <3>1, <3>2
  <2>4. \A c, d \in DOMAIN job.left : c # d => job'.left[c] \cap job'.left[d] = {}
    BY <1>1, <1>3 DEF CasesOnce
  <2>5. QED
    BY <1>3, <2>2, <2>3, <2>4 DEF CasesOnce
<1>11. CurationKeepsTasksTogether'
  BY <1>2 DEF CurationKeepsTasksTogether, EndedWith, Running, TakesFrom
<1>12. QED
  BY <1>6, <1>8, <1>9, <1>10, <1>11 DEF MiningInv

\* What the other steps of the mining leave alone.
Keeps ==
  /\ DOMAIN job' = DOMAIN job
  /\ job'.samples = job.samples /\ job'.left = job.left /\ job'.taken = job.taken
  /\ job'.selected = job.selected
  /\ job'.pc = "mine" => job'.curated = {} /\ job'.rejected = {}

LEMMA KeepsQueue ==
  ASSUME QueueShape, CasesOnce, Keeps, job'.round \subseteq DOMAIN job.left
  PROVE  /\ QueueShape' /\ CasesOnce'
         /\ \A b \in DOMAIN job.left : Exhausted(b)' <=> Exhausted(b)
         /\ QueueIsFull' <=> QueueIsFull
  BY DEF QueueShape, CasesOnce, Keeps, Exhausted, QueueIsFull

LEMMA SkipBucketInv == ASSUME MiningInv, SkipBucket PROVE MiningInv'
<1>1. QueueShape /\ InTurn /\ CasesOnce /\ NothingLeft
  BY DEF MiningInv
<1>2. DOMAIN job = {"tool", "pc", "samples", "left", "taken", "round", "progressed",
                    "selected", "complete", "curated", "rejected", "result"}
  BY <1>1 DEF QueueShape
<1> DEFINE b == NextBucket
<1>3. /\ job.pc = "mine" /\ b \in job.round /\ Exhausted(b)
      /\ job' = [job EXCEPT !.round = @ \ {b}]
  BY <1>1, NextBucketIs DEF SkipBucket, Mining, Running
<1> HIDE DEF b
<1>4. Keeps /\ job'.round = job.round \ {b} /\ job'.pc = "mine" /\ job'.progressed = job.progressed
  BY <1>1, <1>2, <1>3 DEF Keeps, QueueShape
<1>5. /\ QueueShape' /\ CasesOnce'
      /\ \A c \in DOMAIN job.left : Exhausted(c)' <=> Exhausted(c)
  BY <1>1, <1>4, KeepsQueue DEF QueueShape
<1>6. InTurn'
  <2> SUFFICES ASSUME NEW c \in DOMAIN job.left, NEW d \in DOMAIN job.left, ~Exhausted(d)
               PROVE  /\ (c \in job'.round <=> d \in job'.round) => job.taken[c] <= job.taken[d]
                      /\ c \notin job'.round /\ d \in job'.round => job.taken[c] <= job.taken[d] + 1
                      /\ c \in job'.round /\ d \notin job'.round => job.taken[c] + 1 <= job.taken[d]
    BY <1>4, <1>5 DEF InTurn, Keeps
  <2>1. d # b /\ (d \in job'.round <=> d \in job.round)
    BY <1>3, <1>4
  <2>2. /\ (c \in job.round <=> d \in job.round) => job.taken[c] <= job.taken[d]
        /\ c \notin job.round /\ d \in job.round => job.taken[c] <= job.taken[d] + 1
        /\ c \in job.round /\ d \notin job.round => job.taken[c] + 1 <= job.taken[d]
    BY <1>1 DEF InTurn
  <2>3. CASE c # b
    BY <1>4, <2>1, <2>2, <2>3
  <2>4. CASE c = b
    <3> DEFINE tc == job.taken[c]
               td == job.taken[d]
    <3>1. tc \in Nat /\ td \in Nat
      BY <1>1 DEF QueueShape
    <3>2. (d \in job.round => tc <= td) /\ (d \notin job.round => tc + 1 <= td)
      BY <1>3, <2>2, <2>4
    <3> HIDE DEF tc, td
    <3>3. (d \in job.round => tc <= td + 1) /\ (d \notin job.round => tc <= td)
      BY <3>1, <3>2
    <3>4. QED
      BY <1>4, <2>1, <2>4, <3>3 DEF tc, td
  <2>5. QED
    BY <2>3, <2>4
<1>7. NothingLeft'
  BY <1>1, <1>3, <1>4, <1>5 DEF NothingLeft, Keeps
<1>8. CurationKeepsTasksTogether'
  BY <1>4 DEF CurationKeepsTasksTogether, EndedWith, Running
<1>9. QED
  BY <1>5, <1>6, <1>7, <1>8 DEF MiningInv

LEMMA NextRoundInv == ASSUME MiningInv, NextRound PROVE MiningInv'
<1>1. QueueShape /\ InTurn /\ CasesOnce /\ NothingLeft
  BY DEF MiningInv
<1>2. DOMAIN job = {"tool", "pc", "samples", "left", "taken", "round", "progressed",
                    "selected", "complete", "curated", "rejected", "result"}
  BY <1>1 DEF QueueShape
<1>3. /\ job.pc = "mine" /\ job.round = {}
      /\ job' = [job EXCEPT !.round = DOMAIN job.left, !.progressed = FALSE]
  BY DEF NextRound, Mining, Running
<1>4. Keeps /\ job'.round = DOMAIN job.left /\ job'.pc = "mine"
  BY <1>1, <1>2, <1>3 DEF Keeps, QueueShape
<1>5. /\ QueueShape' /\ CasesOnce'
      /\ \A c \in DOMAIN job.left : Exhausted(c)' <=> Exhausted(c)
  BY <1>1, <1>4, KeepsQueue DEF QueueShape
<1>6. InTurn'
  BY <1>1, <1>3, <1>4, <1>5 DEF InTurn, Keeps
<1>7. NothingLeft'
  BY <1>4 DEF NothingLeft, Keeps
<1>8. CurationKeepsTasksTogether'
  BY <1>4 DEF CurationKeepsTasksTogether, EndedWith, Running
<1>9. QED
  BY <1>5, <1>6, <1>7, <1>8 DEF MiningInv

LEMMA EmptyQueue == Cardinality({}) + Cardinality({}) = Cardinality({}) /\ ToSet(<< >>) = {}
<1>1. Cardinality({}) = 0
  BY FS_EmptySet
<1>2. << >> \in Seq({}) /\ Len(<< >>) = 0
  BY EmptySeq
<1>3. DOMAIN << >> = 1..0
  BY <1>2, LenProperties
<1>4. ToSet(<< >>) = {}
  BY <1>3 DEF ToSet
<1>5. QED
  BY <1>1, <1>2, <1>4

LEMMA MiningEndsInv == ASSUME MiningInv, MiningEnds PROVE MiningInv'
<1>1. QueueShape /\ InTurn /\ CasesOnce /\ NothingLeft
  BY DEF MiningInv
<1>2. DOMAIN job = {"tool", "pc", "samples", "left", "taken", "round", "progressed",
                    "selected", "complete", "curated", "rejected", "result"}
  BY <1>1 DEF QueueShape
<1>3. /\ job.pc = "mine"
      /\ QueueIsFull \/ (job.round = {} /\ ~job.progressed)
      /\ job' = [job EXCEPT !.pc = IF job.selected = << >> THEN "ended" ELSE "curate"]
  BY DEF MiningEnds, Mining, Running
<1>4. Keeps /\ job'.round = job.round /\ job'.pc # "mine"
      /\ job'.curated = {} /\ job'.rejected = {}
  BY <1>1, <1>2, <1>3 DEF Keeps, QueueShape
<1>5. /\ QueueShape' /\ CasesOnce' /\ (QueueIsFull' <=> QueueIsFull)
      /\ \A c \in DOMAIN job.left : Exhausted(c)' <=> Exhausted(c)
  BY <1>1, <1>4, KeepsQueue DEF QueueShape
<1>6. InTurn'
  BY <1>1, <1>4, <1>5 DEF InTurn, Keeps
<1>7. NothingLeft'
  BY <1>1, <1>3, <1>4, <1>5 DEF NothingLeft, Keeps
<1>8. CurationKeepsTasksTogether'
  <2> SUFFICES ASSUME EndedWith("hard cases", "curated")' PROVE CurationKeepsTasksTogether'
    BY DEF CurationKeepsTasksTogether
  <2>1. job.selected = << >>
    BY <1>2, <1>3 DEF EndedWith, Running
  <2>2. job'.curated = {} /\ job'.rejected = {} /\ job'.selected = << >>
    BY <1>1, <1>3, <1>4, <2>1 DEF QueueShape, Keeps
  <2>3. Cardinality({}) + Cardinality({}) = Cardinality({}) /\ ToSet(<< >>) = {}
    BY EmptyQueue
  <2>4. {c.case : c \in {}} \cup {} = {}
    OBVIOUS
  <2>5. QED
    BY <2>2, <2>3, <2>4, Zenon DEF CurationKeepsTasksTogether
<1>9. QED
  BY <1>5, <1>6, <1>7, <1>8 DEF MiningInv

\* A resolution that is accepted decides its case as the code's checks allow.
LEMMA FittingResolution ==
  ASSUME NEW r \in Resolution, Fits(r), r.case \in Eligible(job.samples),
         r.decision[1] = "regression_guard"
  PROVE  ~job.samples[r.case].baseline.passed /\ job.samples[r.case].candidate.passed
<1> DEFINE s == job.samples[r.case]
<1>1. CaseKind(s) = "resolved_baseline_failure" /\ CaseKind(s) # None
  BY Zenon DEF Fits, Eligible
<1> HIDE DEF s
<1>2. ~s.baseline.passed /\ s.candidate.passed
  <2>1. /\ "safety_regression" # "resolved_baseline_failure"
        /\ "candidate_failure" # "resolved_baseline_failure"
        /\ "score_regression" # "resolved_baseline_failure"
    OBVIOUS
  <2>2. QED
    BY <1>1, <2>1, Zenon DEF CaseKind
<1>3. QED
  BY <1>2 DEF s

LEMMA SameSize ==
  ASSUME NEW S, IsFiniteSet(S), NEW T, NEW f \in [S -> T],
         \A x, y \in S : f[x] = f[y] => x = y,
         \A t \in T : \E x \in S : f[x] = t
  PROVE  IsFiniteSet(T) /\ Cardinality(T) = Cardinality(S)
<1>1. f \in Surjection(S, T) /\ f \in Injection(S, T)
  BY DEF Surjection, Injection, IsInjective
<1>2. QED
  BY <1>1, FS_Surjection

LEMMA CuratedOnce ==
  ASSUME NEW kept, IsFiniteSet(kept), \A q, r \in kept : q.case = r.case => q = r
  PROVE  /\ IsFiniteSet({r.case : r \in kept})
         /\ Cardinality({Curated(r) : r \in kept}) = Cardinality({r.case : r \in kept})
<1> DEFINE curated == {Curated(r) : r \in kept}
           keptCases == {r.case : r \in kept}
           f == [r \in kept |-> r.case]
           g == [r \in kept |-> Curated(r)]
<1>1. f \in [kept -> keptCases] /\ g \in [kept -> curated]
  OBVIOUS
<1>2. \A q, r \in kept : f[q] = f[r] => q = r
  OBVIOUS
<1>3. \A q, r \in kept : g[q] = g[r] => q = r
  <2>1. \A r : Curated(r).case = r.case
    BY DEF Curated
  <2>2. QED
    BY <2>1
<1>4. /\ \A x \in keptCases : \E r \in kept : f[r] = x
      /\ \A c \in curated : \E r \in kept : g[r] = c
  OBVIOUS
<1> HIDE DEF f, g, keptCases, curated
<1>5. IsFiniteSet(keptCases) /\ Cardinality(keptCases) = Cardinality(kept)
  BY <1>1, <1>2, <1>4, SameSize
<1>6. Cardinality(curated) = Cardinality(kept)
  BY <1>1, <1>3, <1>4, SameSize
<1>7. QED
  BY <1>5, <1>6 DEF keptCases, curated

\* What a reviewer kept, and what was rejected.
Kept(made) == {r \in made : ~IsRejected(r)}

Refused(made) == {r.case : r \in {q \in made : IsRejected(q)}}

Made(resolutions, n) == {resolutions[k] : k \in 1..n}

LEMMA CurateCounts ==
  ASSUME NEW n \in Nat, NEW resolutions \in [1..n -> Resolution], DecidedOnce(resolutions)
  PROVE  LET kept == Kept(Made(resolutions, n))
             rejected == Refused(Made(resolutions, n))
             curated == {Curated(r) : r \in kept}
         IN  /\ {c.case : c \in curated} \cup rejected = CasesOf(resolutions)
             /\ Cardinality(curated) + Cardinality(rejected) = Cardinality(CasesOf(resolutions))
<1> USE DEF Kept, Refused, Made
<1> DEFINE made == Made(resolutions, n)
           kept == Kept(made)
           rejected == Refused(made)
           cases == [k \in 1..n |-> resolutions[k].case]
           decided == CasesOf(resolutions)
<1>3. DOMAIN resolutions = 1..n /\ Len(resolutions) = n
  <2>1. resolutions \in Seq(Resolution)
    OBVIOUS
  <2>2. QED
    BY <2>1, LenProperties
<1>4. {cases[k] : k \in 1..n} = decided /\ Cardinality({cases[k] : k \in 1..n}) = n
  <2>1. {cases[k] : k \in 1..n} = decided
    BY <1>3 DEF CasesOf
  <2>2. QED
    BY <1>3, <2>1 DEF DecidedOnce
<1>5. \A k, l \in 1..n : cases[k] = cases[l] => k = l
  <2>1. DOMAIN cases = 1..n /\ cases = [k \in 1..n |-> cases[k]]
    OBVIOUS
  <2> HIDE DEF cases
  <2>2. QED
    BY <1>4, <2>1, CountDistinct
<1>6. \A q, r \in made : q.case = r.case => q = r
  BY <1>5
<1>7. decided = {r.case : r \in made} /\ IsFiniteSet(decided)
  <2>1. decided = {r.case : r \in made}
    BY <1>3 DEF CasesOf
  <2>2. cases \in Surjection(1..n, decided)
    BY <1>4 DEF Surjection
  <2>3. IsFiniteSet(1..n)
    BY FS_Interval
  <2>4. QED
    BY <2>1, <2>2, <2>3, FS_Surjection
<1> HIDE DEF cases, decided
<1> DEFINE curated == {Curated(r) : r \in kept}
           keptCases == {r.case : r \in kept}
<1>8. kept \subseteq made /\ \A r \in made : r \in kept <=> ~IsRejected(r)
  OBVIOUS
<1>9. rejected = {r.case : r \in {q \in made : IsRejected(q)}}
  OBVIOUS
<1> HIDE DEF made
<1>10. {c.case : c \in curated} = keptCases
  <2>1. \A r : Curated(r).case = r.case
    BY DEF Curated
  <2>2. QED
    BY <2>1
<1>11. keptCases \cup rejected = decided /\ keptCases \cap rejected = {}
  BY <1>6, <1>7, <1>8, <1>9
<1>12. Cardinality(curated) = Cardinality(keptCases) /\ IsFiniteSet(keptCases)
  <2>1. IsFiniteSet(kept)
    <3>1. IsFiniteSet(1..n)
      BY FS_Interval
    <3>2. resolutions \in Surjection(1..n, made)
      BY DEF Surjection, made
    <3>3. IsFiniteSet(made)
      BY <3>1, <3>2, FS_Surjection
    <3>4. QED
      BY <1>8, <3>3, FS_Subset
  <2>2. \A q, r \in kept : q.case = r.case => q = r
    BY <1>6, <1>8
  <2>3. QED
    BY <2>1, <2>2, CuratedOnce
<1>13. IsFiniteSet(rejected)
  BY <1>7, <1>11, FS_Subset
<1> HIDE DEF curated, keptCases, kept, rejected
<1>14. Cardinality(decided) = Cardinality(keptCases) + Cardinality(rejected)
  <2>1. Cardinality(keptCases \cup rejected)
          = Cardinality(keptCases) + Cardinality(rejected) - Cardinality(keptCases \cap rejected)
    BY <1>12, <1>13, FS_Union
  <2>2. Cardinality({}) = 0 /\ Cardinality(keptCases) \in Nat /\ Cardinality(rejected) \in Nat
    BY <1>12, <1>13, FS_EmptySet, FS_CardinalityType
  <2>3. \A k, r \in Nat : k + r - 0 = k + r
    OBVIOUS
  <2>4. Cardinality(keptCases \cap rejected) = 0
    BY <1>11, <2>2
  <2>5. Cardinality(keptCases \cup rejected) = Cardinality(keptCases) + Cardinality(rejected)
    BY <2>1, <2>2, <2>3, <2>4
  <2>6. QED
    BY <1>11, <2>5
<1>15. /\ Cardinality(curated) + Cardinality(rejected) = Cardinality(decided)
       /\ {c.case : c \in curated} \cup rejected = decided
  BY <1>10, <1>11, <1>12, <1>14
<1>16. QED
  BY <1>15 DEF curated, kept, rejected, made, decided

LEMMA CurateInv == ASSUME MiningInv, Curate PROVE MiningInv'
<1>1. QueueShape /\ InTurn /\ CasesOnce /\ NothingLeft
  BY DEF MiningInv
<1>2. DOMAIN job = {"tool", "pc", "samples", "left", "taken", "round", "progressed",
                    "selected", "complete", "curated", "rejected", "result"}
  BY <1>1 DEF QueueShape
<1>3. job.pc = "curate"
  BY DEF Curate, Running
<1>4. PICK n, resolutions, complete :
        /\ n \in 1..Len(job.selected) /\ resolutions \in [1..n -> Resolution]
        /\ complete \in BOOLEAN
        /\ IF Accepted(resolutions, complete)
           THEN LET made == {resolutions[k] : k \in 1..n}
                IN  job' = [job EXCEPT
                      !.pc = "ended", !.result = "curated", !.complete = complete,
                      !.curated = {Curated(r) : r \in {q \in made : ~IsRejected(q)}},
                      !.rejected = {r.case : r \in {q \in made : IsRejected(q)}}]
           ELSE Refuses
  BY DEF Curate
<1>5. n \in Nat /\ resolutions \in [1..n -> Resolution]
  <2>1. n \in 1..Len(job.selected) /\ resolutions \in [1..n -> Resolution]
    BY <1>4, Zenon
  <2>2. QED
    BY <2>1
<1> DEFINE made == {resolutions[k] : k \in 1..n}
           kept == {r \in made : ~IsRejected(r)}
           rejected == {r.case : r \in {q \in made : IsRejected(q)}}
<1>6. /\ Keeps /\ job'.round = job.round /\ job'.progressed = job.progressed
      /\ job'.pc = "ended"
      /\ \/ job'.result = "refused"
         \/ /\ Accepted(resolutions, complete) /\ job'.complete = complete
            /\ job'.curated = {Curated(r) : r \in kept} /\ job'.rejected = rejected
  <2>1. CASE Accepted(resolutions, complete)
    <3>1. job' = [job EXCEPT !.pc = "ended", !.result = "curated", !.complete = complete,
                             !.curated = {Curated(r) : r \in kept}, !.rejected = rejected]
      BY <1>4, <2>1
    <3> HIDE DEF kept, rejected
    <3>2. QED
      BY <1>2, <2>1, <3>1 DEF Keeps
  <2>2. CASE ~Accepted(resolutions, complete)
    <3>1. job' = [job EXCEPT !.pc = "ended", !.result = "refused"]
      BY <1>4, <2>2 DEF Refuses
    <3>2. QED
      BY <1>2, <3>1 DEF Keeps
  <2>3. QED
    BY <2>1, <2>2
<1>7. /\ QueueShape' /\ CasesOnce' /\ (QueueIsFull' <=> QueueIsFull)
      /\ \A c \in DOMAIN job.left : Exhausted(c)' <=> Exhausted(c)
  BY <1>1, <1>6, KeepsQueue DEF QueueShape
<1>8. InTurn' /\ NothingLeft'
  BY <1>1, <1>3, <1>6, <1>7 DEF InTurn, NothingLeft, Keeps
<1>9. CurationKeepsTasksTogether'
  <2> SUFFICES ASSUME EndedWith("hard cases", "curated")' PROVE CurationKeepsTasksTogether'
    BY DEF CurationKeepsTasksTogether
  <2>1. /\ Accepted(resolutions, complete) /\ job'.complete = complete
        /\ job'.curated = {Curated(r) : r \in kept} /\ job'.rejected = rejected
    BY <1>6 DEF EndedWith
  <2> DEFINE decided == {c.case : c \in job'.curated} \cup job'.rejected
  <2>2. /\ Cardinality(job'.curated) + Cardinality(job'.rejected) = Cardinality(decided)
        /\ decided = CasesOf(resolutions)
    <3>1. LET keptOf == Kept(Made(resolutions, n))
              rejectedOf == Refused(Made(resolutions, n))
              curatedOf == {Curated(r) : r \in keptOf}
          IN  /\ {c.case : c \in curatedOf} \cup rejectedOf = CasesOf(resolutions)
              /\ Cardinality(curatedOf) + Cardinality(rejectedOf)
                   = Cardinality(CasesOf(resolutions))
      <4>1. DecidedOnce(resolutions)
        BY <2>1 DEF Accepted
      <4>2. QED
        BY <1>5, <4>1, CurateCounts, Zenon
    <3>2. kept = Kept(Made(resolutions, n)) /\ rejected = Refused(Made(resolutions, n))
      BY DEF Kept, Refused, Made
    <3>3. QED
      BY <2>1, <3>1, <3>2
  <2>6. decided \subseteq ToSet(job.selected) /\ (job'.complete => decided = ToSet(job.selected))
    BY <2>1, <2>2 DEF Accepted, CoversQueue
  <2>3. \A r \in made : r \in Resolution /\ Fits(r) /\ r.case \in Eligible(job.samples)
    <3>4. DOMAIN resolutions = 1..n
      BY <1>5
    <3>1. \A k \in 1..n : resolutions[k] \in Resolution /\ Fits(resolutions[k])
      BY <1>5, <2>1, <3>4 DEF Accepted
    <3>2. ToSet(job.selected) \subseteq Eligible(job.samples)
      <4>1. job.selected \in Seq(Eligible(job.samples))
        BY <1>1 DEF QueueShape
      <4>2. \A k \in DOMAIN job.selected : job.selected[k] \in Eligible(job.samples)
        BY <4>1, LenProperties
      <4>3. QED
        BY <4>2 DEF ToSet
    <3>3. \A k \in DOMAIN resolutions : resolutions[k].case \in ToSet(job.selected)
      BY <2>1 DEF Accepted, CoversQueue, CasesOf
    <3>5. QED
      BY <3>1, <3>2, <3>3, <3>4
  <2>4. ASSUME NEW a \in job'.curated, NEW b \in job'.curated
        PROVE  /\ a.decision = "regression_guard" =>
                    ~job'.samples[a.case].baseline.passed /\ job'.samples[a.case].candidate.passed
               /\ /\ SampleTasks[a.case] = SampleTasks[b.case]
                  /\ a.decision = "training_candidate" /\ b.decision = "training_candidate"
                  => a.split = b.split
    <3>1. PICK q \in made, r \in made : a = Curated(q) /\ b = Curated(r)
      BY <2>1
    <3>2. /\ a.case = q.case /\ a.decision = q.decision[1] /\ a.split = CaseSplit(q)
          /\ b.case = r.case /\ b.decision = r.decision[1] /\ b.split = CaseSplit(r)
      BY <3>1 DEF Curated
    <3>3. a.decision = "regression_guard" =>
            ~job.samples[a.case].baseline.passed /\ job.samples[a.case].candidate.passed
      BY <2>3, <3>1, <3>2, FittingResolution
    <3>4. /\ SampleTasks[a.case] = SampleTasks[b.case]
          /\ a.decision = "training_candidate" /\ b.decision = "training_candidate"
          => a.split = b.split
      BY <3>2 DEF CaseSplit
    <3>5. QED
      BY <1>6, <3>3, <3>4 DEF Keeps
  <2>5. QED
    <3>1. job'.selected = job.selected
      BY <1>6 DEF Keeps
    <3>2. QED
      BY <2>2, <2>4, <2>6, <3>1, Zenon DEF CurationKeepsTasksTogether
<1>10. QED
  BY <1>7, <1>8, <1>9 DEF MiningInv

LEMMA OtherSourceInv == ASSUME MiningInv, OtherSource PROVE MiningInv'
<1>1. QueueShape /\ InTurn /\ CasesOnce /\ NothingLeft
  BY DEF MiningInv
<1>2. /\ job.pc = "curate" /\ job' = [job EXCEPT !.pc = "ended", !.result = "refused"]
      /\ DOMAIN job = {"tool", "pc", "samples", "left", "taken", "round", "progressed",
                       "selected", "complete", "curated", "rejected", "result"}
  BY <1>1 DEF OtherSource, Refuses, Running, QueueShape
<1>3. /\ Keeps /\ job'.round = job.round /\ job'.progressed = job.progressed
      /\ job'.pc = "ended" /\ job'.result = "refused"
  BY <1>2 DEF Keeps
<1>4. /\ QueueShape' /\ CasesOnce' /\ (QueueIsFull' <=> QueueIsFull)
      /\ \A c \in DOMAIN job.left : Exhausted(c)' <=> Exhausted(c)
  BY <1>1, <1>3, KeepsQueue DEF QueueShape
<1>5. InTurn' /\ NothingLeft'
  BY <1>1, <1>2, <1>3, <1>4 DEF InTurn, NothingLeft, Keeps
<1>6. CurationKeepsTasksTogether'
  BY <1>3 DEF CurationKeepsTasksTogether, EndedWith
<1>7. QED
  BY <1>4, <1>5, <1>6 DEF MiningInv

LEMMA MiningInvIsEnough == MiningInv => QueueIsShared /\ CurationKeepsTasksTogether
<1> SUFFICES ASSUME MiningInv PROVE QueueIsShared
  BY DEF MiningInv
<1>1. \A a, b \in DOMAIN job.left : job.taken[a] > job.taken[b] + 1 => Exhausted(b)
  <2> SUFFICES ASSUME NEW a \in DOMAIN job.left, NEW b \in DOMAIN job.left, ~Exhausted(b)
               PROVE  ~(job.taken[a] > job.taken[b] + 1)
    OBVIOUS
  <2> DEFINE ta == job.taken[a]
             tb == job.taken[b]
  <2>1. ta \in Nat /\ tb \in Nat
    BY DEF MiningInv, QueueShape
  <2>2. ta <= tb \/ ta <= tb + 1 \/ ta + 1 <= tb
    BY DEF MiningInv, InTurn
  <2> HIDE DEF ta, tb
  <2>3. ~(ta > tb + 1)
    BY <2>1, <2>2
  <2>4. QED
    BY <2>3 DEF ta, tb
<1>2. QED
  BY <1>1 DEF MiningInv, QueueIsShared, QueueShape, NothingLeft

\* Each tool's invariant holds of its own jobs.
MiningJobs == HasTool /\ (job.tool = "hard cases" => MiningInv)

LEMMA MiningJobsHold == Spec => []MiningJobs
<1>1. Init => MiningJobs
  BY StartsWithTool, MiningInitInv DEF MiningJobs, OwnInit
<1>2. MiningJobs /\ [Next]_job => MiningJobs'
  <2> SUFFICES ASSUME MiningJobs, [Next]_job PROVE MiningJobs'
    OBVIOUS
  <2>1. SameTool /\ OwnStep
    BY OneTool DEF MiningJobs
  <2>2. SUFFICES ASSUME job.tool = "hard cases" PROVE MiningInv'
    BY <2>1 DEF MiningJobs, SameTool
  <2>3. MiningInv
    BY <2>2 DEF MiningJobs
  <2>4. MiningNext \/ UNCHANGED job
    BY <2>1, <2>2 DEF OwnStep
  <2>5. CASE MiningNext
    BY <2>3, <2>5, TakeCaseInv, SkipBucketInv, NextRoundInv, MiningEndsInv, OtherSourceInv,
       CurateInv
       DEF MiningNext
  <2>6. CASE UNCHANGED job
    <3>1. QueueShape' /\ CasesOnce'
      BY <2>3, <2>6 DEF MiningInv, QueueShape, CasesOnce
    <3>2. InTurn' /\ NothingLeft'
      BY <2>3, <2>6 DEF MiningInv, InTurn, NothingLeft, Exhausted, QueueIsFull
    <3>3. CurationKeepsTasksTogether'
      BY <2>3, <2>6 DEF MiningInv, CurationKeepsTasksTogether, EndedWith, Running
    <3>4. QED
      BY <3>1, <3>2, <3>3 DEF MiningInv
  <2>7. QED
    BY <2>4, <2>5, <2>6
<1>3. QED
  BY <1>1, <1>2, PTL DEF Spec

\* Whatever the samples, the signatures and the limits, the queue is shared out
\* evenly among the buckets and mining ends early only when nothing is left.
THEOREM QueueIsSharedOut == Spec => []QueueIsShared
<1>1. MiningJobs => QueueIsShared
  BY MiningInvIsEnough DEF MiningJobs, QueueIsShared
<1>2. QED
  BY <1>1, MiningJobsHold, PTL

\* Whatever a reviewer decides, a curated set accounts for every decided case once
\* and keeps the training cases of a task in one split.
THEOREM CuratedSetsAreConsistent == Spec => []CurationKeepsTasksTogether
<1>1. MiningJobs => CurationKeepsTasksTogether
  BY MiningInvIsEnough DEF MiningJobs, CurationKeepsTasksTogether, EndedWith, Running
<1>2. QED
  BY <1>1, MiningJobsHold, PTL

-----------------------------------------------------------------------------
\* The readiness audit.

\* A check that is required and not blocking has passed.
LEMMA PassedIsTrue ==
  ASSUME NEW passed, Status(passed) \notin {"fail", "unknown"}
  PROVE  passed = TRUE /\ passed # None
  BY DEF Status

\* The state of an audit.
AuditShape ==
  /\ DOMAIN job = {"tool", "pc", "policy", "bundle", "artifact", "replaced", "checks", "digested",
                   "result"}
  /\ job.pc \in {"report", "digest", "content", "decide", "ended"}
  /\ job.bundle \in Bundle /\ job.policy \in Policy
  /\ job.artifact \in 1..3 /\ job.replaced \in Nat
  /\ job.pc = "report" => job.artifact = 1
  /\ job.digested \in Seq(BOOLEAN)
  /\ Len(job.digested) = IF job.pc = "report" THEN 0
                         ELSE IF job.pc = "digest" THEN job.artifact - 1
                         ELSE IF job.pc = "content" THEN job.artifact ELSE 3

\* What the checks of the report establish.
NumbersSuffice ==
  \A id \in Bounded : job.policy.min[id] > 0 =>
    job.bundle.level[id] # None /\ job.bundle.level[id] >= job.policy.min[id]

TrialsArePlanned == \A pair \in Pairs : Cardinality(TrialsOf(pair)) = 1

ReportHolds ==
  /\ NumbersSuffice /\ TrialsArePlanned
  /\ Requires("trace.unique_completed_ids") => TracesDistinct
  /\ Requires("reproducibility.claim_judge_identity") => JudgeIdentityMatches

\* What the two reads of an artifact establish.  It is not replaced after the
\* second one, so what that read said is what the bundle still holds.
DigestsHold == \A k \in DOMAIN job.digested : Requires(Artifacts[k]) => job.digested[k]

Reviewed(k) == job.artifact > k \/ job.pc \in {"decide", "ended"}

ContentsHold ==
  /\ Reviewed(1) /\ Requires("dataset_review") =>
       ReviewApproves(job.bundle.artifacts["dataset_review"])
  /\ Reviewed(2) /\ Requires("reference_solution") =>
       ReferencesSupport(job.bundle.artifacts["reference_solution"])
  /\ Reviewed(3) /\ Requires("judge_calibration") =>
       CalibrationPasses(job.bundle.artifacts["judge_calibration"])

\* Nothing that was established so far can be missing from the checks.
ClearedIsEstablished ==
  Blocking = {} => /\ job.pc # "report" => ReportHolds
                   /\ DigestsHold /\ ContentsHold

ReadyIsCleared == job.pc = "ended" /\ job.result = "ready" => Blocking = {}

AuditInv == AuditShape /\ ClearedIsEstablished /\ ReadyIsCleared

LEMMA AuditInitInv == ReadinessInit => AuditInv
<1> SUFFICES ASSUME ReadinessInit PROVE AuditInv
  OBVIOUS
<1>1. PICK bundle \in Bundles, policy \in Policies :
        job = [tool |-> "readiness", pc |-> "report", policy |-> policy, bundle |-> bundle,
               artifact |-> 1, replaced |-> 0, checks |-> {}, digested |-> << >>,
               result |-> None]
  BY DEF ReadinessInit
<1>2. << >> \in Seq(BOOLEAN) /\ Len(<< >>) = 0 /\ DOMAIN << >> = {}
  BY EmptySeq, LenProperties
<1>3. /\ job.pc = "report" /\ job.bundle = bundle /\ job.artifact = 1 /\ job.replaced = 0
      /\ job.digested = << >> /\ job.policy = policy
      /\ DOMAIN job = {"tool", "pc", "policy", "bundle", "artifact", "replaced", "checks",
                       "digested", "result"}
  BY <1>1
<1>4. AuditShape
  BY <1>2, <1>3, BundleAssumption DEF AuditShape
<1>5. DigestsHold /\ ContentsHold
  BY <1>2, <1>3 DEF DigestsHold, ContentsHold, Reviewed
<1>6. QED
  BY <1>3, <1>4, <1>5 DEF AuditInv, ClearedIsEstablished, ReadyIsCleared

\* The facts are about what no step of the audit changes.
LEMMA ReportStands ==
  ASSUME UNCHANGED job.policy,
         UNCHANGED <<job.bundle.level, job.bundle.trials, job.bundle.pinned, job.bundle.judge>>
  PROVE  ReportHolds' <=> ReportHolds
<1>1. NumbersSuffice' <=> NumbersSuffice
  BY DEF NumbersSuffice
<1>2. TrialsArePlanned' <=> TrialsArePlanned
  BY DEF TrialsArePlanned, Pairs, TrialsOf
<1>3. TracesDistinct' <=> TracesDistinct
  BY DEF TracesDistinct, CompletedTrials
<1>4. JudgeIdentityMatches' <=> JudgeIdentityMatches
  BY DEF JudgeIdentityMatches
<1>5. \A id : Requires(id)' <=> Requires(id)
  BY DEF Requires
<1>6. QED
  BY <1>1, <1>2, <1>3, <1>4, <1>5 DEF ReportHolds

\* Nor does what an artifact says depend on it.
LEMMA ContentsStand ==
  ASSUME UNCHANGED job.policy,
         UNCHANGED <<job.bundle.level, job.bundle.artifacts, job.bundle.judge>>,
         \A k \in 1..3 : Reviewed(k)' => Reviewed(k)
  PROVE  ContentsHold => ContentsHold'
<1>1. \A id : Requires(id)' <=> Requires(id)
  BY DEF Requires
<1>2. ReviewApproves(job.bundle.artifacts["dataset_review"])'
        <=> ReviewApproves(job.bundle.artifacts["dataset_review"])
  BY DEF ReviewApproves
<1>3. ReferencesSupport(job.bundle.artifacts["reference_solution"])'
        <=> ReferencesSupport(job.bundle.artifacts["reference_solution"])
  BY DEF ReferencesSupport, NotOverstated, Share
<1>4. CalibrationPasses(job.bundle.artifacts["judge_calibration"])'
        <=> CalibrationPasses(job.bundle.artifacts["judge_calibration"])
  BY DEF CalibrationPasses
<1>5. QED
  BY <1>1, <1>2, <1>3, <1>4 DEF ContentsHold

LEMMA AuditReportInv == ASSUME AuditInv, AuditReport PROVE AuditInv'
<1>1. /\ job.pc = "report"
      /\ job' = [job EXCEPT !.pc = "digest",
               !.checks = IntegrityChecks \cup ThresholdChecks \cup DeclaredChecks
                          \cup RecordedChecks \cup ContractChecks \cup {StatusBalance}]
  BY DEF AuditReport, Running
<1> DEFINE made == IntegrityChecks \cup ThresholdChecks \cup DeclaredChecks
                          \cup RecordedChecks \cup ContractChecks \cup {StatusBalance}
<1>2. job' = [job EXCEPT !.pc = "digest", !.checks = made]
  BY <1>1
<1>3. /\ IntegrityChecks \subseteq made /\ ThresholdChecks \subseteq made
      /\ DeclaredChecks \subseteq made /\ RecordedChecks \subseteq made
  OBVIOUS
<1>4. /\ job'.pc = "digest" /\ job'.checks = made
      /\ UNCHANGED <<job.policy, job.bundle, job.artifact, job.replaced, job.digested, job.result>>
      /\ DOMAIN job' = DOMAIN job
  BY <1>2 DEF AuditInv, AuditShape
<1> HIDE DEF made
<1>9. AuditShape'
  BY <1>1, <1>4 DEF AuditInv, AuditShape
<1>5. ASSUME (Blocking = {})' PROVE ReportHolds
  <2>1. ASSUME NEW c \in made, c.required PROVE c.status \notin {"fail", "unknown"}
    BY <1>4, <1>5, <2>1 DEF Blocking
  <2>2. NumbersSuffice
    <3> SUFFICES ASSUME NEW id \in Bounded, job.policy.min[id] > 0
                 PROVE  job.bundle.level[id] # None /\ job.bundle.level[id] >= job.policy.min[id]
      BY DEF NumbersSuffice
    <3> DEFINE level == job.bundle.level[id]
               minimum == job.policy.min[id]
               enough == AtLeast(level, minimum)
    <3>0. Status(enough) \notin {"fail", "unknown"} => level # None /\ level >= minimum
      <4>1. CASE level = None
        BY <4>1 DEF AtLeast, Status
      <4>2. CASE level # None
        BY <4>2 DEF AtLeast, Status
      <4>3. QED
        BY <4>1, <4>2
    <3> HIDE DEF enough
    <3>1. CASE id \in AlwaysRequired \cup Measured
      <4> DEFINE c == Check(id, enough, id \in AlwaysRequired \/ minimum > 0)
      <4>1. c \in made
        BY <1>3, <3>1 DEF ThresholdChecks, enough
      <4>2. c.status = Status(enough) /\ c.required
        BY DEF Check
      <4>3. QED
        BY <2>1, <3>0, <4>1, <4>2
    <3>2. CASE id \in Declared
      <4> DEFINE c == Check(id, IF minimum = 0 THEN TRUE ELSE enough, minimum > 0)
      <4>0. minimum # 0
        OBVIOUS
      <4>1. c \in made
        BY <1>3, <3>2 DEF DeclaredChecks, enough
      <4>2. c.status = Status(enough) /\ c.required
        BY <4>0 DEF Check
      <4>3. QED
        BY <2>1, <3>0, <4>1, <4>2
    <3>3. QED
      BY <3>1, <3>2 DEF Bounded
  <2>3. TrialsArePlanned
    <3> DEFINE c == Check("integrity.trial_matrix", MatrixComplete, TRUE)
    <3>1. c \in made
      BY <1>3 DEF IntegrityChecks
    <3>2. c.status = Status(MatrixComplete) /\ c.required
      BY DEF Check
    <3>3. MatrixComplete
      BY <2>1, <3>1, <3>2 DEF Status
    <3>4. QED
      BY <3>3 DEF MatrixComplete, TrialsArePlanned
  <2>4. ASSUME Requires("trace.unique_completed_ids") PROVE TracesDistinct
    <3> DEFINE c == Check("trace.unique_completed_ids", TracesDistinct,
                          Requires("trace.unique_completed_ids"))
    <3>1. c \in made
      BY <1>3 DEF IntegrityChecks
    <3>2. c.status = Status(TracesDistinct) /\ c.required
      BY <2>4 DEF Check
    <3>3. QED
      BY <2>1, <3>1, <3>2 DEF Status
  <2>5. ASSUME Requires("reproducibility.claim_judge_identity") PROVE JudgeIdentityMatches
    <3> DEFINE c == Check("reproducibility.claim_judge_identity",
                          Requires("reproducibility.claim_judge_identity") => JudgeIdentityMatches,
                          Requires("reproducibility.claim_judge_identity"))
    <3>1. c \in made
      BY <1>3 DEF RecordedChecks
    <3>2. /\ c.status = Status(Requires("reproducibility.claim_judge_identity") => JudgeIdentityMatches)
          /\ c.required
      BY <2>5 DEF Check
    <3>3. QED
      BY <2>1, <2>5, <3>1, <3>2 DEF Status
  <2>6. QED
    BY <2>2, <2>3, <2>4, <2>5 DEF ReportHolds
<1>6. ReportHolds' <=> ReportHolds
  BY <1>4, ReportStands
<1>7. DigestsHold' /\ ContentsHold'
  <2>1. Len(job.digested) = 0 /\ DOMAIN job.digested = {}
    BY <1>1, LenProperties DEF AuditInv, AuditShape
  <2>2. DigestsHold'
    BY <1>4, <2>1 DEF DigestsHold
  <2>3. job'.artifact = 1 /\ job'.pc = "digest"
    BY <1>1, <1>4 DEF AuditInv, AuditShape
  <2>4. ContentsHold'
    BY <2>3 DEF ContentsHold, Reviewed
  <2>5. QED
    BY <2>2, <2>4
<1>8. QED
  BY <1>4, <1>5, <1>6, <1>7, <1>9 DEF AuditInv, ClearedIsEstablished, ReadyIsCleared

\* The names and the order of the design artifacts.
LEMMA ArtifactsAre ==
  /\ DOMAIN Artifacts = 1..3 /\ Len(Artifacts) = 3
  /\ Artifacts[1] = "dataset_review" /\ Artifacts[2] = "reference_solution"
  /\ Artifacts[3] = "judge_calibration"
  /\ \A k \in 1..3 : Artifacts[k] \in ToSet(Artifacts)
<1>1. /\ DOMAIN Artifacts = 1..3 /\ Len(Artifacts) = 3
      /\ Artifacts[1] = "dataset_review" /\ Artifacts[2] = "reference_solution"
      /\ Artifacts[3] = "judge_calibration"
  BY DEF Artifacts
<1>2. QED
  BY <1>1 DEF ToSet

LEMMA CurrentIsArtifact ==
  ASSUME AuditShape
  PROVE  Current \in Artifact /\ Current = job.bundle.artifacts[Artifacts[job.artifact]]
  BY ArtifactsAre DEF AuditShape, Bundle, Current

\* A check that is added can only take away from what was cleared.
LEMMA MoreChecks ==
  ASSUME NEW c, job'.checks = job.checks \cup {c}, (Blocking = {})'
  PROVE  Blocking = {} /\ (c.required => c.status \notin {"fail", "unknown"})
  BY DEF Blocking

\* An artifact whose digest check passed had the declared digest.
LEMMA CheckDigestInv == ASSUME AuditInv, CheckDigest PROVE AuditInv'
<1> DEFINE name == Artifacts[job.artifact]
           digest == Current.digest
           c == Check(DigestCheck[name], ArtifactBound(Current, Requires(name)), Requires(name))
           n == job.artifact
<1>1. /\ job.pc = "digest"
      /\ job' = [job EXCEPT !.pc = "content", !.digested = Append(@, digest),
                            !.checks = @ \cup {c}]
  BY DEF CheckDigest, Running
<1>2. Current \in Artifact /\ digest \in BOOLEAN
  BY CurrentIsArtifact DEF AuditInv, Artifact
<1>3. c.status = Status(ArtifactBound(Current, Requires(name))) /\ c.required = Requires(name)
  BY DEF Check
<1>4. Requires(name) /\ c.status \notin {"fail", "unknown"} => digest
  <2>1. SUFFICES ASSUME Requires(name), c.status \notin {"fail", "unknown"} PROVE digest
    OBVIOUS
  <2>2. CASE ~Current.declared
    <3>1. ArtifactBound(Current, Requires(name)) = None
      BY <2>1, <2>2 DEF ArtifactBound
    <3>2. QED
      BY <1>3, <2>1, <3>1 DEF Status
  <2>3. CASE Current.declared
    <3>1. ArtifactBound(Current, Requires(name)) = (Current.file = "object" /\ digest)
      BY <2>3 DEF ArtifactBound
    <3>2. QED
      BY <1>3, <2>1, <3>1 DEF Status
  <2>4. QED
    BY <2>2, <2>3
<1> HIDE DEF c, digest
<1>5. /\ job'.pc = "content" /\ job'.digested = Append(job.digested, digest)
      /\ job'.checks = job.checks \cup {c} /\ DOMAIN job' = DOMAIN job
      /\ UNCHANGED <<job.policy, job.bundle, job.artifact, job.replaced, job.result>>
  BY <1>1 DEF AuditInv, AuditShape
<1>6. /\ n \in 1..3 /\ job.digested \in Seq(BOOLEAN) /\ Len(job.digested) = n - 1
  BY <1>1 DEF AuditInv, AuditShape
<1>7. /\ job'.digested \in Seq(BOOLEAN) /\ Len(job'.digested) = n
      /\ \A k \in 1..(n - 1) : job'.digested[k] = job.digested[k]
      /\ job'.digested[n] = digest
      /\ DOMAIN job.digested = 1..(n - 1) /\ DOMAIN job'.digested = 1..n
  <2> HIDE DEF n
  <2> DEFINE seq == job.digested
  <2>1. seq \in Seq(BOOLEAN) /\ Len(seq) = n - 1 /\ n \in 1..3 /\ job'.digested = Append(seq, digest)
    BY <1>5, <1>6
  <2> HIDE DEF seq
  <2>2. /\ job'.digested \in Seq(BOOLEAN) /\ Len(job'.digested) = n
        /\ \A k \in 1..(n - 1) : job'.digested[k] = seq[k]
        /\ job'.digested[n] = digest
        /\ DOMAIN seq = 1..(n - 1) 
    BY <1>2, <2>1, AppendProperties, LenProperties
  <2>3. DOMAIN job'.digested = 1..n
    BY <2>2, LenProperties
  <2>4. QED
    BY <2>2, <2>3 DEF seq
<1>8. AuditShape'
  BY <1>5, <1>7 DEF AuditInv, AuditShape
<1>9. ASSUME (Blocking = {})' PROVE ReportHolds' /\ DigestsHold' /\ ContentsHold'
  <2>1. Blocking = {} /\ (Requires(name) => digest)
    BY <1>3, <1>4, <1>5, <1>9, MoreChecks
  <2>2. ReportHolds /\ DigestsHold /\ ContentsHold
    BY <1>1, <2>1 DEF AuditInv, ClearedIsEstablished
  <2>3. \A id : Requires(id)' <=> Requires(id)
    BY <1>5 DEF Requires
  <2>4. DigestsHold'
    <3> SUFFICES ASSUME NEW k \in 1..n, Requires(Artifacts[k]) PROVE job'.digested[k]
      BY <1>7, <2>3 DEF DigestsHold
    <3>1. CASE k = n
      BY <1>7, <2>1, <3>1
    <3>2. CASE k # n
      BY <1>6, <1>7, <2>2, <3>2 DEF DigestsHold
    <3>3. QED
      BY <3>1, <3>2
  <2>5. ContentsHold'
    <3>1. \A k \in 1..3 : Reviewed(k)' => Reviewed(k)
      BY <1>1, <1>5 DEF Reviewed
    <3>2. QED
      BY <1>5, <2>2, <3>1, ContentsStand
  <2>6. ReportHolds'
    BY <1>5, <2>2, ReportStands
  <2>7. QED
    BY <2>4, <2>5, <2>6
<1>10. QED
  BY <1>5, <1>8, <1>9 DEF AuditInv, ClearedIsEstablished, ReadyIsCleared

\* What the second read of an artifact says, if its check passed.
LEMMA ContentSays ==
  ASSUME AuditShape, NEW name, NEW required, required,
         Status(ContentApproves(name, Current, required)) \notin {"fail", "unknown"}
  PROVE  /\ name = "dataset_review" => ReviewApproves(Current)
         /\ name = "reference_solution" => ReferencesSupport(Current)
         /\ name = "judge_calibration" => CalibrationPasses(Current)
<1>1. CASE ~Current.declared \/ Current.file # "object"
  <2>1. ContentApproves(name, Current, required) = None
    BY <1>1 DEF ContentApproves
  <2>2. QED
    BY <2>1 DEF Status
<1>2. CASE ~(~Current.declared \/ Current.file # "object")
  <2>1. CASE name = "reference_solution"
    <3>1. ContentApproves(name, Current, required) = ReferencesSupport(Current)
      BY <1>2, <2>1 DEF ContentApproves
    <3>2. QED
      BY <2>1, <3>1 DEF Status
  <2>2. CASE name = "judge_calibration"
    <3>1. ContentApproves(name, Current, required) = CalibrationPasses(Current)
      BY <1>2, <2>2 DEF ContentApproves
    <3>2. QED
      BY <2>2, <3>1 DEF Status
  <2>3. CASE name = "dataset_review"
    <3>1. ContentApproves(name, Current, required) = ReviewApproves(Current)
      BY <1>2, <2>3 DEF ContentApproves
    <3>2. QED
      BY <2>3, <3>1 DEF Status
  <2>4. QED
    BY <2>1, <2>2, <2>3
<1>3. QED
  BY <1>1, <1>2

LEMMA QuotientBelow ==
  ASSUME NEW a \in Nat, NEW b \in Nat, b > 0, NEW d \in Int, d <= a \div b
  PROVE  d * b <= a
<1> DEFINE q == a \div b
<1>1. q \in Int /\ q * b <= a
  BY Z3
<1>2. d <= q
  OBVIOUS
<1> HIDE DEF q
<1> DEFINE k == q - d
<1>3. k \in Nat /\ q = d + k
  BY <1>1, <1>2
<1> HIDE DEF k
<1>4. k * b \in Nat /\ q * b = d * b + k * b
  BY <1>3
<1>5. d * b \in Int /\ q * b \in Int
  BY <1>1
<1>6. QED
  BY <1>1, <1>4, <1>5

\* What is declared or asked of the reference solutions is what the audit counts
\* itself.
LEMMA SupportedIsSolved ==
  ASSUME NEW bundle \in Bundle, bundle = job.bundle, job.policy \in Policy,
         ReferencesSupport(bundle.artifacts["reference_solution"]),
         NEW claimed \in {bundle.level["design.reference_solution_coverage"],
                          job.policy.min["design.reference_solution_coverage"]} \ {None}
  PROVE  100 * Cardinality(bundle.artifacts["reference_solution"].tasks)
           >= claimed * Cardinality(DOMAIN AuditTasks)
<1> DEFINE solved == bundle.artifacts["reference_solution"].tasks
           all == DOMAIN AuditTasks
           a == Cardinality(solved)
           b == Cardinality(all)
<1>1. bundle.artifacts["reference_solution"] \in Artifact
  BY ArtifactsAre DEF Bundle
<1>2. solved \subseteq all /\ IsFiniteSet(all) /\ all # {}
  BY <1>1, AuditAssumption DEF Artifact
<1>3. a \in Nat /\ b \in Nat /\ b > 0
  <2>1. IsFiniteSet(solved)
    BY <1>2, FS_Subset
  <2>2. a \in Nat /\ b \in Nat
    BY <1>2, <2>1, FS_CardinalityType
  <2>3. b # 0
    BY <1>2, FS_EmptySet
  <2>4. QED
    BY <2>2, <2>3
<1>4. claimed \in Int
  <2>1. bundle.level \in [Bounded -> 0..100 \cup {None}] /\ job.policy.min \in [Bounded -> 0..100]
    BY DEF Bundle, Policy
  <2>2. "design.reference_solution_coverage" \in Bounded
    BY DEF Bounded, Declared
  <2>3. claimed \in 0..100 \cup {None}
    BY <2>1, <2>2
  <2>4. QED
    BY <2>3
<1>5. claimed <= (100 * a) \div b
  <2>1. (100 * a) \div b \in Int
    BY <1>3
  <2>2. Share(solved, all) = (100 * a) \div b
    BY <1>2 DEF Share
  <2>3. /\ Share(solved, all) >= job.policy.min["design.reference_solution_coverage"]
        /\ \/ bundle.level["design.reference_solution_coverage"] = None
           \/ bundle.level["design.reference_solution_coverage"] <= Share(solved, all)
    BY DEF ReferencesSupport, NotOverstated
  <2> HIDE DEF solved, all, a, b
  <2>4. QED
    BY <1>4, <2>1, <2>2, <2>3
<1> HIDE DEF solved, all, a, b
<1> DEFINE h == 100 * a
<1>6. h \in Nat /\ claimed <= h \div b
  BY <1>3, <1>5
<1> HIDE DEF h
<1>7. claimed * b <= h
  BY <1>3, <1>4, <1>6, QuotientBelow
<1>8. claimed * b \in Int
  BY <1>3, <1>4
<1>9. QED
  BY <1>6, <1>7, <1>8 DEF h, a, b, solved, all

LEMMA CheckContentInv == ASSUME AuditInv, CheckContent PROVE AuditInv'
<1> DEFINE n == job.artifact
           name == Artifacts[n]
           c == Check(ContentCheck[name], ContentApproves(name, Current, Requires(name)),
                      Requires(name))
           next == IF n = Len(Artifacts) THEN n ELSE n + 1
           then == IF n = Len(Artifacts) THEN "decide" ELSE "digest"
<1>1. /\ job.pc = "content"
      /\ job' = [job EXCEPT !.pc = then, !.artifact = next, !.checks = @ \cup {c}]
  BY DEF CheckContent, Running
<1>2. /\ c.status = Status(ContentApproves(name, Current, Requires(name)))
      /\ c.required = Requires(name)
  BY DEF Check
<1>3. n \in 1..3 /\ next = (IF n = 3 THEN 3 ELSE n + 1)
      /\ then = (IF n = 3 THEN "decide" ELSE "digest")
  BY ArtifactsAre DEF AuditInv, AuditShape
<1>4. ASSUME Requires(name), c.status \notin {"fail", "unknown"}
      PROVE  /\ name = "dataset_review" => ReviewApproves(Current)
             /\ name = "reference_solution" => ReferencesSupport(Current)
             /\ name = "judge_calibration" => CalibrationPasses(Current)
  BY <1>2, <1>4, ContentSays DEF AuditInv
<1> HIDE DEF c, next, then
<1>5. /\ job'.pc = then /\ job'.artifact = next
      /\ job'.checks = job.checks \cup {c} /\ DOMAIN job' = DOMAIN job
      /\ UNCHANGED <<job.policy, job.bundle, job.digested, job.replaced, job.result>>
  BY <1>1 DEF AuditInv, AuditShape
<1>6. AuditShape'
  <2>1. /\ job.bundle \in Bundle /\ job.policy \in Policy /\ job.replaced \in Nat
        /\ job.digested \in Seq(BOOLEAN)
        /\ Len(job.digested) = n
    BY <1>1 DEF AuditInv, AuditShape
  <2>2. CASE n = 3
    <3>1. job'.pc = "decide" /\ job'.artifact = 3 /\ job'.digested = job.digested
      BY <1>3, <1>5, <2>2
    <3>2. QED
      BY <1>5, <2>1, <2>2, <3>1 DEF AuditInv, AuditShape
  <2>3. CASE n # 3
    <3>1. job'.pc = "digest" /\ job'.artifact = n + 1 /\ job'.digested = job.digested
      BY <1>3, <1>5, <2>3
    <3>2. QED
      BY <1>3, <1>5, <2>1, <2>3, <3>1 DEF AuditInv, AuditShape
  <2>4. QED
    BY <2>2, <2>3
<1>7. ASSUME (Blocking = {})' PROVE ReportHolds' /\ DigestsHold' /\ ContentsHold'
  <2>1. Blocking = {} /\ (Requires(name) => c.status \notin {"fail", "unknown"})
    BY <1>2, <1>5, <1>7, MoreChecks
  <2>2. ReportHolds /\ DigestsHold /\ ContentsHold
    BY <1>1, <2>1 DEF AuditInv, ClearedIsEstablished
  <2>3. \A id : Requires(id)' <=> Requires(id)
    BY <1>5 DEF Requires
  <2>4. ContentsHold'
    <3> DEFINE held == job.bundle.artifacts
    <3>1. Current = held[name]
      BY DEF Current
    <3>2. /\ n = 1 /\ Requires("dataset_review") => ReviewApproves(held["dataset_review"])
          /\ n = 2 /\ Requires("reference_solution") =>
               ReferencesSupport(held["reference_solution"])
          /\ n = 3 /\ Requires("judge_calibration") =>
               CalibrationPasses(held["judge_calibration"])
      BY <1>4, <2>1, <3>1, ArtifactsAre
    <3>3. \A k \in 1..3 : Reviewed(k)' => Reviewed(k) \/ n = k
      BY <1>1, <1>3, <1>5 DEF Reviewed
    <3>4. /\ Reviewed(1)' /\ Requires("dataset_review") => ReviewApproves(held["dataset_review"])
          /\ Reviewed(2)' /\ Requires("reference_solution") =>
               ReferencesSupport(held["reference_solution"])
          /\ Reviewed(3)' /\ Requires("judge_calibration") =>
               CalibrationPasses(held["judge_calibration"])
      BY <2>2, <3>2, <3>3 DEF ContentsHold
    <3>5. ReviewApproves(held["dataset_review"])' <=> ReviewApproves(held["dataset_review"])
      BY <1>5 DEF ReviewApproves
    <3>6. ReferencesSupport(held["reference_solution"])'
            <=> ReferencesSupport(held["reference_solution"])
      BY <1>5 DEF ReferencesSupport, NotOverstated, Share
    <3>7. CalibrationPasses(held["judge_calibration"])'
            <=> CalibrationPasses(held["judge_calibration"])
      BY <1>5 DEF CalibrationPasses
    <3>8. QED
      BY <2>3, <3>4, <3>5, <3>6, <3>7 DEF ContentsHold
  <2>5. DigestsHold'
    BY <1>5, <2>2, <2>3 DEF DigestsHold
  <2>6. ReportHolds'
    BY <1>5, <2>2, ReportStands
  <2>7. QED
    BY <2>4, <2>5, <2>6
<1>8. QED
  BY <1>3, <1>5, <1>6, <1>7 DEF AuditInv, ClearedIsEstablished, ReadyIsCleared

\* A replacement leaves the report, the policy and what was read alone.
LEMMA ReplaceArtifactInv == ASSUME AuditInv, ReplaceArtifact PROVE AuditInv'
<1> DEFINE name == Artifacts[job.artifact]
<1>1. PICK a \in {[r EXCEPT !.declared = Current.declared] : r \in Replacements} :
        /\ job.pc \in {"digest", "content"}
        /\ job' = [job EXCEPT !.bundle.artifacts[name] = a, !.replaced = @ + 1]
  BY DEF ReplaceArtifact
<1> DEFINE bundle == [job.bundle EXCEPT !.artifacts[name] = a]
<1>2. job' = [job EXCEPT !.bundle = bundle, !.replaced = @ + 1]
  BY <1>1 DEF AuditInv, AuditShape, Bundle
<1>3. name \in ToSet(Artifacts) /\ a \in Artifact
  <2>1. Current.declared \in BOOLEAN
    BY CurrentIsArtifact DEF AuditInv, Artifact
  <2>2. \A r \in Artifact : [r EXCEPT !.declared = Current.declared] \in Artifact
    BY <2>1 DEF Artifact
  <2>3. QED
    BY <2>2, ArtifactsAre, BundleAssumption DEF AuditInv, AuditShape
<1>4. /\ bundle \in Bundle
      /\ bundle.level = job.bundle.level /\ bundle.trials = job.bundle.trials
      /\ bundle.pinned = job.bundle.pinned /\ bundle.judge = job.bundle.judge
      /\ \A other \in ToSet(Artifacts) : other # name =>
           bundle.artifacts[other] = job.bundle.artifacts[other]
  BY <1>3 DEF AuditInv, AuditShape, Bundle
<1> HIDE DEF bundle
<1>5. /\ job'.bundle = bundle /\ job'.replaced = job.replaced + 1 /\ DOMAIN job' = DOMAIN job
      /\ UNCHANGED <<job.pc, job.policy, job.artifact, job.checks, job.digested, job.result>>
  BY <1>2 DEF AuditInv, AuditShape
<1>6. AuditShape'
  BY <1>4, <1>5 DEF AuditInv, AuditShape
<1>7. Blocking' = Blocking /\ \A id : Requires(id)' <=> Requires(id)
  BY <1>5 DEF Blocking, Requires
<1>8. ReportHolds' <=> ReportHolds
  BY <1>4, <1>5, ReportStands
<1>9. DigestsHold' <=> DigestsHold
  BY <1>5, <1>7 DEF DigestsHold
<1>10. ContentsHold => ContentsHold'
  <2>1. ASSUME NEW k \in 1..3, Reviewed(k)'
        PROVE  /\ Reviewed(k)
               /\ job'.bundle.artifacts[Artifacts[k]] = job.bundle.artifacts[Artifacts[k]]
    <3>1. job.artifact > k /\ job.artifact \in 1..3
      BY <1>1, <1>5, <2>1 DEF Reviewed, AuditInv, AuditShape
    <3>2. Artifacts[k] \in ToSet(Artifacts) /\ Artifacts[k] # name
      BY <3>1, ArtifactsAre
    <3>3. QED
      BY <1>4, <1>5, <3>1, <3>2 DEF Reviewed
  <2>2. SUFFICES ASSUME ContentsHold PROVE ContentsHold'
    OBVIOUS
  <2>3. ASSUME Reviewed(1)', Requires("dataset_review")
        PROVE  ReviewApproves(job.bundle.artifacts["dataset_review"])'
    <3>1. /\ job'.bundle.artifacts["dataset_review"] = job.bundle.artifacts["dataset_review"]
          /\ ReviewApproves(job.bundle.artifacts["dataset_review"])
      BY <2>1, <2>2, <2>3, ArtifactsAre DEF ContentsHold
    <3>2. QED
      BY <3>1 DEF ReviewApproves
  <2>4. ASSUME Reviewed(2)', Requires("reference_solution")
        PROVE  ReferencesSupport(job.bundle.artifacts["reference_solution"])'
    <3>1. /\ job'.bundle.artifacts["reference_solution"]
               = job.bundle.artifacts["reference_solution"]
          /\ ReferencesSupport(job.bundle.artifacts["reference_solution"])
      BY <2>1, <2>2, <2>4, ArtifactsAre DEF ContentsHold
    <3>2. job'.bundle.level = job.bundle.level /\ job'.policy = job.policy
      BY <1>4, <1>5
    <3>3. QED
      BY <3>1, <3>2 DEF ReferencesSupport, NotOverstated, Share
  <2>5. ASSUME Reviewed(3)', Requires("judge_calibration")
        PROVE  CalibrationPasses(job.bundle.artifacts["judge_calibration"])'
    <3>1. job.artifact > 3 /\ job.artifact \in 1..3
      BY <1>1, <1>5, <2>5 DEF Reviewed, AuditInv, AuditShape
    <3>2. QED
      BY <3>1
  <2>6. QED
    BY <1>7, <2>3, <2>4, <2>5 DEF ContentsHold
<1>11. QED
  BY <1>5, <1>6, <1>7, <1>8, <1>9, <1>10 DEF AuditInv, ClearedIsEstablished, ReadyIsCleared

LEMMA DecideInv == ASSUME AuditInv, Decide PROVE AuditInv'
<1>1. /\ job.pc = "decide"
      /\ job' = [job EXCEPT !.pc = "ended",
               !.result = IF Blocking = {} THEN "ready"
                          ELSE IF \E c \in Blocking : c.id \in Fundamental
                               THEN "diagnostic_only" ELSE "hold"]
  BY DEF Decide, Running
<1> DEFINE result == IF Blocking = {} THEN "ready"
                     ELSE IF \E c \in Blocking : c.id \in Fundamental
                          THEN "diagnostic_only" ELSE "hold"
<1>2. result = "ready" => Blocking = {}
  OBVIOUS
<1>3. job' = [job EXCEPT !.pc = "ended", !.result = result]
  BY <1>1
<1> HIDE DEF result
<1>4. /\ job'.pc = "ended" /\ job'.result = result /\ DOMAIN job' = DOMAIN job
      /\ UNCHANGED <<job.bundle, job.policy, job.artifact, job.checks, job.digested, job.replaced>>
  BY <1>3 DEF AuditInv, AuditShape
<1>5. Blocking' = Blocking /\ \A id : Requires(id)' <=> Requires(id)
  BY <1>4 DEF Blocking, Requires
<1>6. ReportHolds' <=> ReportHolds
  BY <1>4, ReportStands
<1>7. DigestsHold' <=> DigestsHold
  BY <1>4, <1>5 DEF DigestsHold
<1>8. ContentsHold => ContentsHold'
  <2>1. \A k \in 1..3 : Reviewed(k)' => Reviewed(k)
    BY <1>1, <1>4 DEF Reviewed
  <2>2. QED
    BY <1>4, <2>1, ContentsStand
<1>9. AuditShape'
  BY <1>1, <1>4 DEF AuditInv, AuditShape
<1>10. QED
  BY <1>1, <1>2, <1>4, <1>5, <1>6, <1>7, <1>8, <1>9
     DEF AuditInv, ClearedIsEstablished, ReadyIsCleared

LEMMA AuditNextInv == ASSUME AuditInv, ReadinessNext PROVE AuditInv'
  BY AuditReportInv, CheckDigestInv, CheckContentInv, ReplaceArtifactInv, DecideInv
     DEF ReadinessNext

\* Distinct traces are as many as the completed trials.
LEMMA TracesCounted ==
  ASSUME NEW trials \in Seq(Trial), trials = job.bundle.trials, TracesDistinct
  PROVE  Cardinality({trials[i].trace : i \in CompletedTrials} \ {None})
           = Cardinality(CompletedTrials)
<1> DEFINE S == CompletedTrials
           T == {trials[i].trace : i \in S} \ {None}
           f == [i \in S |-> trials[i].trace]
<1>1. \A i, j \in S : trials[i].trace # None /\ (trials[i].trace = trials[j].trace => i = j)
  BY DEF TracesDistinct
<1>2. f \in [S -> T] /\ \A t \in T : \E i \in S : f[i] = t
  BY <1>1
<1>3. \A i, j \in S : f[i] = f[j] => i = j
  BY <1>1
<1>4. IsFiniteSet(S)
  <2>1. S \subseteq 1..Len(trials) /\ Len(trials) \in Nat
    BY LenProperties DEF CompletedTrials
  <2>2. IsFiniteSet(1..Len(trials))
    BY <2>1, FS_Interval
  <2>3. QED
    BY <2>1, <2>2, FS_Subset
<1> HIDE DEF S, T, f
<1>5. Cardinality(T) = Cardinality(S)
  BY <1>2, <1>3, <1>4, SameSize
<1>6. QED
  BY <1>5 DEF S, T

LEMMA AuditInvIsEnough == AuditInv => ReadyIsWarranted
<1> SUFFICES ASSUME AuditInv, job.pc = "ended", job.result = "ready" PROVE ReadyIsWarranted
  BY DEF ReadyIsWarranted, EndedWith, Running
<1>1. ReportHolds /\ DigestsHold /\ ContentsHold
  BY DEF AuditInv, ReadyIsCleared, ClearedIsEstablished
<1>2. job.bundle \in Bundle /\ job.bundle.trials \in Seq(Trial)
  BY DEF AuditInv, AuditShape, Bundle
<1>3. \A pair \in Pairs : \E i \in DOMAIN job.bundle.trials : TrialsOf(pair) = {i}
  <2> SUFFICES ASSUME NEW pair \in Pairs
               PROVE  \E i \in DOMAIN job.bundle.trials : TrialsOf(pair) = {i}
    OBVIOUS
  <2> DEFINE trials == job.bundle.trials
  <2>1. TrialsOf(pair) \subseteq DOMAIN trials /\ DOMAIN trials = 1..Len(trials) /\ Len(trials) \in Nat
    BY <1>2, LenProperties DEF TrialsOf
  <2>2. IsFiniteSet(TrialsOf(pair))
    <3>1. IsFiniteSet(1..Len(trials))
      BY <2>1, FS_Interval
    <3>2. QED
      BY <2>1, <3>1, FS_Subset
  <2>3. Cardinality(TrialsOf(pair)) = 1
    BY <1>1 DEF ReportHolds, TrialsArePlanned
  <2>4. PICK i : TrialsOf(pair) = {i}
    BY <2>2, <2>3, FS_Singleton
  <2>5. QED
    BY <2>1, <2>4
<1>4. ASSUME Requires("trace.unique_completed_ids")
      PROVE  Cardinality({job.bundle.trials[i].trace : i \in CompletedTrials} \ {None})
               = Cardinality(CompletedTrials)
  BY <1>1, <1>2, <1>4, TracesCounted DEF ReportHolds
<1>5. \A k \in DOMAIN Artifacts : Requires(Artifacts[k]) => job.digested[k]
  <2>1. DOMAIN job.digested = 1..3
    BY LenProperties DEF AuditInv, AuditShape
  <2>2. QED
    BY <1>1, <2>1, ArtifactsAre DEF DigestsHold
<1>6. Reviewed(1) /\ Reviewed(2) /\ Reviewed(3)
  BY DEF Reviewed
<1> DEFINE held == job.bundle.artifacts
<1>7. ASSUME Requires("dataset_review")
      PROVE  held["dataset_review"].approved /\ DOMAIN AuditTasks \subseteq held["dataset_review"].tasks
  BY <1>1, <1>6, <1>7 DEF ContentsHold, ReviewApproves
<1>8. ASSUME Requires("reference_solution"),
             NEW claimed \in {job.bundle.level["design.reference_solution_coverage"],
                              job.policy.min["design.reference_solution_coverage"]} \ {None}
      PROVE  100 * Cardinality(held["reference_solution"].tasks)
               >= claimed * Cardinality(DOMAIN AuditTasks)
  <2>1. ReferencesSupport(held["reference_solution"]) /\ job.policy \in Policy
    BY <1>1, <1>6, <1>8 DEF ContentsHold, AuditInv, AuditShape
  <2>2. QED
    BY <1>2, <2>1, SupportedIsSolved
<1>9. ASSUME Requires("judge_calibration"), Requires("reproducibility.claim_judge_identity")
      PROVE  /\ held["judge_calibration"].approved
             /\ held["judge_calibration"].judge = job.bundle.pinned
  BY <1>1, <1>6, <1>9
     DEF ContentsHold, CalibrationPasses, ReportHolds, JudgeIdentityMatches
<1>10. QED
  BY <1>1, <1>3, <1>4, <1>5, <1>7, <1>8, <1>9 DEF ReadyIsWarranted, ReportHolds, NumbersSuffice

\* Whatever the report, the policy and the design artifacts, and whoever replaces
\* them: a verdict of ready never rests on evidence that is missing.
THEOREM ReadyRestsOnEvidence == Spec => []ReadyIsWarranted
<1> DEFINE Inv == HasTool /\ (job.tool = "readiness" => AuditInv)
<1>1. Init => Inv
  BY StartsWithTool, AuditInitInv DEF OwnInit
<1>2. Inv /\ [Next]_job => Inv'
  <2> SUFFICES ASSUME Inv, [Next]_job PROVE Inv'
    OBVIOUS
  <2>1. SameTool /\ OwnStep
    BY OneTool
  <2>2. CASE job.tool = "readiness" /\ ReadinessNext
    BY <2>1, <2>2, AuditNextInv DEF SameTool
  <2>3. CASE UNCHANGED job
    <3>1. AuditInv => AuditInv'
      <4>1. AuditShape => AuditShape'
        BY <2>3 DEF AuditShape
      <4>2. (ReportHolds' <=> ReportHolds) /\ Blocking' = Blocking
        BY <2>3, ReportStands DEF Blocking
      <4>3. (DigestsHold' <=> DigestsHold) /\ (ContentsHold => ContentsHold')
        BY <2>3, ContentsStand DEF DigestsHold, Requires, Reviewed
      <4>4. QED
        BY <2>3, <4>1, <4>2, <4>3 DEF AuditInv, ClearedIsEstablished, ReadyIsCleared
    <3>2. QED
      BY <2>1, <2>3, <3>1 DEF SameTool
  <2>4. CASE job.tool # "readiness"
    BY <2>1, <2>4 DEF SameTool
  <2>5. QED
    BY <2>1, <2>2, <2>3, <2>4 DEF OwnStep
<1>3. Inv => ReadyIsWarranted
  BY AuditInvIsEnough DEF ReadyIsWarranted, EndedWith, Running
<1>4. QED
  BY <1>1, <1>2, <1>3, PTL DEF Spec

-----------------------------------------------------------------------------
\* Rules and the score made of them.

\* Without a credential and with every commit approved before.
Safe(journal) == NeverUnapproved(journal) /\ ~journal.secret

LEMMA RulesMakeSafe ==
  ASSUME NEW journal \in Journal,
         JournalRules(journal).no_raw_secret # "fail",
         JournalRules(journal).approval_before_commit # "fail"
  PROVE  Safe(journal)
<1> DEFINE events == journal.events
<1>1. events \in Seq(JournalEvent) /\ Len(events) \in Nat /\ DOMAIN events = 1..Len(events)
  BY LenProperties DEF Journal
<1>2. ~journal.secret
  BY DEF JournalRules, Verdict
<1>3. Commits(events) # {} => ApprovedFirst(events)
  BY DEF JournalRules, Verdict, VerdictIf
<1>4. ASSUME NEW n \in DOMAIN events,
             events[n].category = "effect", events[n].outcome = "committed"
      PROVE  \E e \in ToSet(SubSeq(events, 1, n)) :
               e.category = "approval" /\ e.outcome = "approved"
  <2>1. n \in Commits(events)
    BY <1>4 DEF Commits
  <2>2. PICK i \in 1..(n - 1) :
          events[i].category = "approval" /\ events[i].outcome = "approved"
    BY <1>3, <2>1 DEF ApprovedFirst
  <2> HIDE DEF events
  <2>3. /\ DOMAIN SubSeq(events, 1, n) = 1..n
        /\ SubSeq(events, 1, n)[i] = events[i] /\ i \in 1..n
    BY <1>1, <1>4, <2>2
  <2>4. QED
    BY <2>2, <2>3 DEF ToSet
<1>5. QED
  BY <1>2, <1>4 DEF Safe, NeverUnapproved

\* The rules that apply to a journal.
JournalRuleNames ==
  {"contiguous_sequence", "metrics_consistent", "terminal_disposition", "result_recorded",
   "approval_before_commit", "post_commit_validation", "decision_evidence",
   "tool_decision_link", "no_raw_secret", "event_budget"}

LEMMA JournalRulesAre ==
  ASSUME NEW journal
  PROVE  /\ DOMAIN JournalRules(journal) = JournalRuleNames
         /\ JournalRules(journal).contiguous_sequence = "pass"
  BY DEF JournalRules, JournalRuleNames

LEMMA RuleNamesFinite == IsFiniteSet(JournalRuleNames)
<1> DEFINE half == {"contiguous_sequence", "metrics_consistent", "terminal_disposition",
                    "result_recorded", "approval_before_commit"}
           rest == {"post_commit_validation", "decision_evidence", "tool_decision_link",
                    "no_raw_secret", "event_budget"}
<1>1. ASSUME NEW a, NEW b, NEW c, NEW d, NEW e PROVE IsFiniteSet({a, b, c, d, e})
  <2>1. IsFiniteSet({a}) /\ IsFiniteSet({b}) /\ IsFiniteSet({c}) /\ IsFiniteSet({d})
        /\ IsFiniteSet({e})
    BY FS_Singleton
  <2>2. IsFiniteSet({a} \cup {b}) /\ IsFiniteSet({c} \cup {d})
    BY <2>1, FS_Union
  <2>3. IsFiniteSet(({a} \cup {b}) \cup ({c} \cup {d}))
    BY <2>2, FS_Union
  <2>4. IsFiniteSet((({a} \cup {b}) \cup ({c} \cup {d})) \cup {e})
    BY <2>1, <2>3, FS_Union
  <2>5. (({a} \cup {b}) \cup ({c} \cup {d})) \cup {e} = {a, b, c, d, e}
    OBVIOUS
  <2>6. QED
    BY <2>4, <2>5
<1>2. IsFiniteSet(half) /\ IsFiniteSet(rest)
  BY <1>1
<1>3. JournalRuleNames = half \cup rest
  BY DEF JournalRuleNames
<1> HIDE DEF half, rest
<1>4. QED
  BY <1>2, <1>3, FS_Union

\* round(passed / applicable * 100, 2) is at most 100, and 100 without a failure.
LEMMA ScoreIsBounded ==
  ASSUME NEW rules, IsFiniteSet(DOMAIN rules)
  PROVE  RuleScore(rules) <= 10000 /\ RuleScore(rules) \in Int
<1> DEFINE p == Cardinality(Passing(rules))
           f == Cardinality(Failing(rules))
<1>1. p \in Nat /\ f \in Nat
  <2>1. IsFiniteSet(Passing(rules)) /\ IsFiniteSet(Failing(rules))
    BY FS_Subset DEF Passing, Failing
  <2>2. QED
    BY <2>1, FS_CardinalityType
<1>2. RuleScore(rules) = IF p + f = 0 THEN 0 ELSE (20000 * p + (p + f)) \div (2 * (p + f))
  BY DEF RuleScore
<1> HIDE DEF p, f
<1>3. ASSUME p + f # 0
      PROVE  /\ (20000 * p + (p + f)) \div (2 * (p + f)) \in Int
             /\ (20000 * p + (p + f)) \div (2 * (p + f)) <= 10000
  <2> DEFINE n == 20000 * p + (p + f)
             d == 2 * (p + f)
  <2>1. n \in Nat /\ d \in Nat /\ d > 0 /\ 0 * d <= n /\ n < (10000 + 1) * d
    BY <1>1, <1>3
  <2> HIDE DEF n, d
  <2>2. QED
    BY <2>1, QuotientBetween DEF n, d
<1>4. QED
  BY <1>2, <1>3

LEMMA CleanScoresFull ==
  ASSUME NEW rules, IsFiniteSet(DOMAIN rules), Failing(rules) = {}, Passing(rules) # {}
  PROVE  RuleScore(rules) = 10000
<1> DEFINE p == Cardinality(Passing(rules))
<1>1. p \in Nat /\ p > 0
  <2>1. IsFiniteSet(Passing(rules))
    BY FS_Subset DEF Passing
  <2>2. p \in Nat /\ p # 0
    BY <2>1, FS_CardinalityType, FS_EmptySet
  <2>3. QED
    BY <2>2
<1>2. Cardinality(Failing(rules)) = 0
  BY FS_EmptySet
<1>3. RuleScore(rules) = IF p + 0 = 0 THEN 0 ELSE (20000 * p + (p + 0)) \div (2 * (p + 0))
  BY <1>2 DEF RuleScore
<1> HIDE DEF p
<1> DEFINE n == 20000 * p + p
           d == 2 * p
<1>4. n \in Nat /\ d \in Nat /\ d > 0 /\ 10000 * d <= n /\ n < (10000 + 1) * d
  BY <1>1
<1>5. RuleScore(rules) = n \div d
  BY <1>1, <1>3
<1> HIDE DEF n, d
<1>6. QED
  BY <1>4, <1>5, QuotientBetween

-----------------------------------------------------------------------------
\* The comparison of two batches.

Sides == {"baseline", "candidate"}

EntryResult(entry) ==
  [scenario |-> entry.scenario, run |-> entry.journal.run,
   rules |-> JournalRules(entry.journal), metrics |-> JournalMetrics(entry.journal.events)]

\* The results are those of the first entries, in their order.
ResultsFollow(side) ==
  /\ job.results[side] \in Seq(ToSet(job.results[side]))
  /\ Len(job.results[side]) <= Len(job.batch[side].entries)
  /\ \A k \in 1..Len(job.results[side]) :
       job.results[side][k] = EntryResult(job.batch[side].entries[k])

BothDone == BatchDone("baseline") /\ BatchDone("candidate")

BatchShape ==
  /\ DOMAIN job = {"tool", "pc", "policy", "batch", "results", "gate", "result"}
  /\ job.pc \in {"baseline", "candidate", "compare", "ended"}
  /\ DOMAIN job.batch = Sides /\ \A side \in Sides : job.batch[side] \in Batches
  /\ DOMAIN job.results = Sides /\ \A side \in Sides : ResultsFollow(side)

\* A verdict rests on both batches as a whole.
GateIsFounded ==
  job.gate = "promote" =>
    BothDone /\ Categories("candidate") \cap job.policy.forbidden = {}

ComparisonIsFounded ==
  job.pc = "ended" /\ job.result = "promote" => BothDone /\ BatchPromotes

BatchesInv ==
  /\ BatchShape /\ GateIsFounded /\ ComparisonIsFounded
  /\ job.pc = "candidate" => BatchDone("baseline")
  /\ job.pc = "compare" => BothDone
  /\ job.pc \in {"baseline", "candidate"} => job.gate = None

\* An appended result comes last and leaves the others as they are.
LEMMA ResultAdded ==
  ASSUME NEW s, s \in Seq(ToSet(s)), NEW e
  PROVE  /\ Append(s, e) \in Seq(ToSet(Append(s, e)))
         /\ Len(s) \in Nat /\ Len(Append(s, e)) = Len(s) + 1
         /\ \A i \in 1..Len(s) : Append(s, e)[i] = s[i]
         /\ Append(s, e)[Len(s) + 1] = e
<1> DEFINE new == Append(s, e)
           S == ToSet(s) \cup {e}
<1>1. e \in S /\ s \in Seq(S)
  <2>1. Len(s) \in Nat /\ s \in [1..Len(s) -> S]
    OBVIOUS
  <2>2. QED
    BY <2>1
<1>2. /\ new \in Seq(S) /\ Len(new) = Len(s) + 1 /\ Len(s) \in Nat
      /\ \A i \in 1..Len(s) : new[i] = s[i]
      /\ new[Len(s) + 1] = e
  BY <1>1, AppendProperties
<1>3. new \in Seq(ToSet(new))
  <2> HIDE DEF new, S
  <2>1. DOMAIN new = 1..Len(new) /\ Len(new) \in Nat /\ new \in [1..Len(new) -> S]
    BY <1>2, LenProperties
  <2>2. new \in [1..Len(new) -> ToSet(new)]
    BY <2>1 DEF ToSet
  <2>3. QED
    BY <2>1, <2>2
<1>4. QED
  BY <1>2, <1>3

LEMMA BatchesInitInv == BatchesInit => BatchesInv
<1> SUFFICES ASSUME BatchesInit PROVE BatchesInv
  OBVIOUS
<1>1. PICK baseline \in Batches, candidate \in Batches, policy \in PromotionPolicies :
        job = [tool |-> "batches", pc |-> "baseline", policy |-> policy,
               batch |-> [baseline |-> baseline, candidate |-> candidate],
               results |-> [baseline |-> << >>, candidate |-> << >>],
               gate |-> None, result |-> None]
  BY DEF BatchesInit
<1>2. /\ DOMAIN job = {"tool", "pc", "policy", "batch", "results", "gate", "result"}
      /\ job.pc = "baseline" /\ job.gate = None
      /\ DOMAIN job.batch = Sides /\ \A side \in Sides : job.batch[side] \in Batches
      /\ DOMAIN job.results = Sides /\ \A side \in Sides : job.results[side] = << >>
  BY <1>1 DEF Sides
<1>3. \A side \in Sides : ResultsFollow(side)
  <2> SUFFICES ASSUME NEW side \in Sides PROVE ResultsFollow(side)
    OBVIOUS
  <2>1. Len(job.batch[side].entries) \in Nat
    BY <1>2, BatchAssumption, LenProperties
  <2>2. << >> \in Seq(ToSet(<< >>)) /\ Len(<< >>) = 0 /\ 1..0 = {}
    BY EmptySeq
  <2> DEFINE s == job.results[side]
             entries == job.batch[side].entries
  <2>3. s = << >> /\ Len(entries) \in Nat
    BY <1>2, <2>1
  <2> HIDE DEF s, entries
  <2>4. s \in Seq(ToSet(s)) /\ Len(s) <= Len(entries) /\ 1..Len(s) = {}
    BY <2>2, <2>3
  <2>5. QED
    BY <2>4 DEF ResultsFollow, s, entries
<1>4. job.gate # "promote"
  BY <1>2, BatchAssumption
<1>5. QED
  BY <1>2, <1>3, <1>4 DEF BatchesInv, BatchShape, GateIsFounded, ComparisonIsFounded

LEMMA EvaluateEntryInv == ASSUME BatchesInv, EvaluateEntry PROVE BatchesInv'
<1> DEFINE side == job.pc
           n == Len(job.results[side])
           e == EntryResult(NextEntry)
<1>1. /\ side \in Sides /\ ~BatchDone(side) /\ job.gate = None /\ job.gate # "promote"
  BY BatchAssumption DEF EvaluateEntry, Loading, BatchesInv, Sides
<1>2. CASE DuplicateRun(NextEntry)
  <2>1. job' = [job EXCEPT !.pc = "ended", !.result = "error"]
    BY <1>2 DEF EvaluateEntry
  <2>2. /\ job'.pc = "ended" /\ job'.result = "error" /\ DOMAIN job' = DOMAIN job
        /\ UNCHANGED <<job.policy, job.batch, job.results, job.gate>>
    BY <2>1 DEF BatchesInv, BatchShape
  <2>3. BatchShape'
    BY <2>2 DEF BatchesInv, BatchShape, ResultsFollow
  <2>4. QED
    BY <1>1, <2>2, <2>3
       DEF BatchesInv, GateIsFounded, ComparisonIsFounded
<1>3. CASE ~DuplicateRun(NextEntry)
  <2>1. job' = [job EXCEPT !.results[side] = Append(@, e)]
    BY <1>3 DEF EvaluateEntry, EntryResult
  <2> HIDE DEF e
  <2> DEFINE more == [job.results EXCEPT ![side] = Append(@, e)]
  <2>2. job' = [job EXCEPT !.results = more]
    BY <2>1 DEF BatchesInv, BatchShape
  <2> HIDE DEF more
  <2>3. /\ job'.results = more /\ DOMAIN job' = DOMAIN job
        /\ UNCHANGED <<job.pc, job.policy, job.batch, job.gate, job.result>>
    BY <2>2 DEF BatchesInv, BatchShape
  <2>4. /\ DOMAIN more = Sides /\ more[side] = Append(job.results[side], e)
        /\ \A other \in Sides \ {side} : more[other] = job.results[other]
    BY <1>1 DEF BatchesInv, BatchShape, more
  <2>5. ResultsFollow(side)'
    <3> DEFINE s == job.results[side]
               entries == job.batch[side].entries
    <3>1. /\ s \in Seq(ToSet(s)) /\ Len(s) <= Len(entries) /\ Len(s) # Len(entries)
          /\ \A k \in 1..Len(s) : s[k] = EntryResult(entries[k])
          /\ e = EntryResult(entries[Len(s) + 1])
      BY <1>1 DEF BatchesInv, BatchShape, ResultsFollow, BatchDone, NextEntry, e
    <3>2. Len(entries) \in Nat
      BY <1>1, BatchAssumption, LenProperties DEF BatchesInv, BatchShape
    <3>3. job'.results[side] = Append(s, e) /\ job'.batch[side].entries = entries
      BY <2>3, <2>4
    <3> HIDE DEF s, entries
    <3>4. /\ Append(s, e) \in Seq(ToSet(Append(s, e)))
          /\ Len(Append(s, e)) <= Len(entries)
          /\ \A k \in 1..Len(Append(s, e)) : Append(s, e)[k] = EntryResult(entries[k])
      BY <3>1, <3>2, ResultAdded
    <3>5. QED
      BY <2>3, <3>3, <3>4 DEF ResultsFollow
  <2>6. \A other \in Sides \ {side} : ResultsFollow(other)'
    BY <2>3, <2>4 DEF BatchesInv, BatchShape, ResultsFollow
  <2>7. BatchShape'
    BY <2>3, <2>4, <2>5, <2>6 DEF BatchesInv, BatchShape
  <2>8. side = "candidate" => BatchDone("baseline")'
    BY <2>3, <2>4 DEF BatchesInv, BatchDone, Sides
  <2>9. QED
    BY <1>1, <2>3, <2>7, <2>8
       DEF BatchesInv, GateIsFounded, ComparisonIsFounded, Sides
<1>4. QED
  BY <1>2, <1>3

LEMMA EntryUnreadableInv == ASSUME BatchesInv, EntryUnreadable PROVE BatchesInv'
<1>1. job.pc \in Sides /\ job.gate = None /\ job.gate # "promote"
  BY BatchAssumption DEF EntryUnreadable, Loading, BatchesInv, Sides
<1>2. job' = [job EXCEPT !.pc = "ended", !.result = "error"]
  BY DEF EntryUnreadable
<1>3. /\ job'.pc = "ended" /\ job'.result = "error" /\ DOMAIN job' = DOMAIN job
      /\ UNCHANGED <<job.policy, job.batch, job.results, job.gate>>
  BY <1>2 DEF BatchesInv, BatchShape
<1>4. BatchShape'
  BY <1>3 DEF BatchesInv, BatchShape, ResultsFollow
<1>5. QED
  BY <1>1, <1>3, <1>4 DEF BatchesInv, GateIsFounded, ComparisonIsFounded

LEMMA NextBatchInv == ASSUME BatchesInv, NextBatch PROVE BatchesInv'
<1>1. /\ job.pc = "baseline" /\ BatchDone("baseline") /\ job.gate = None /\ job.gate # "promote"
      /\ job' = [job EXCEPT !.pc = "candidate"]
  BY BatchAssumption DEF NextBatch, Running, BatchesInv
<1>2. /\ job'.pc = "candidate" /\ DOMAIN job' = DOMAIN job
      /\ UNCHANGED <<job.policy, job.batch, job.results, job.gate, job.result>>
  BY <1>1 DEF BatchesInv, BatchShape
<1>3. BatchShape'
  BY <1>2 DEF BatchesInv, BatchShape, ResultsFollow
<1>4. BatchDone("baseline")'
  BY <1>1, <1>2 DEF BatchDone
<1>5. QED
  BY <1>1, <1>2, <1>3, <1>4 DEF BatchesInv, GateIsFounded, ComparisonIsFounded

\* What is read of a finished batch does not change any more.
LEMMA ResultsStand ==
  ASSUME UNCHANGED <<job.policy, job.batch, job.results>>
  PROVE  /\ BothDone' <=> BothDone
         /\ Categories("candidate")' = Categories("candidate")
         /\ BatchPromotes' <=> BatchPromotes
<1>1. \A side : Results(side)' = Results(side) /\ (BatchDone(side)' <=> BatchDone(side))
  BY DEF Results, BatchDone
<1>2. FailedRuns("candidate")' = FailedRuns("candidate")
  BY <1>1 DEF FailedRuns
<1>3. MissingScenarios' = MissingScenarios /\ ScenarioPairs' = ScenarioPairs
  BY <1>1 DEF MissingScenarios, BatchScenarios, ScenarioPairs
<1>4. Categories("candidate")' = Categories("candidate")
  BY <1>1 DEF Categories
<1>5. BatchPromotes' <=> BatchPromotes
  BY <1>2, <1>3 DEF BatchPromotes
<1>6. QED
  BY <1>1, <1>4, <1>5 DEF BothDone

LEMMA ApplyPolicyInv == ASSUME BatchesInv, ApplyPolicy PROVE BatchesInv'
<1> DEFINE gate == IF PolicyPromotes THEN "promote" ELSE "hold"
<1>1. /\ job.pc = "candidate" /\ BothDone
      /\ job' = [job EXCEPT !.pc = "compare", !.gate = gate]
  BY DEF ApplyPolicy, Running, BatchesInv, BothDone
<1>2. gate = "promote" => Categories("candidate") \cap job.policy.forbidden = {}
  BY DEF PolicyPromotes
<1> HIDE DEF gate
<1>3. /\ job'.pc = "compare" /\ job'.gate = gate /\ DOMAIN job' = DOMAIN job
      /\ UNCHANGED <<job.policy, job.batch, job.results, job.result>>
  BY <1>1 DEF BatchesInv, BatchShape
<1>4. BatchShape'
  BY <1>3 DEF BatchesInv, BatchShape, ResultsFollow
<1>5. QED
  BY <1>1, <1>2, <1>3, <1>4, ResultsStand DEF BatchesInv, GateIsFounded, ComparisonIsFounded

LEMMA CompareBatchesInv == ASSUME BatchesInv, CompareBatches PROVE BatchesInv'
<1> DEFINE result == IF BatchPromotes THEN "promote" ELSE "hold"
<1>1. /\ job.pc = "compare" /\ BothDone
      /\ job' = [job EXCEPT !.pc = "ended", !.result = result]
  BY DEF CompareBatches, Running, BatchesInv
<1>2. result = "promote" => BatchPromotes
  OBVIOUS
<1> HIDE DEF result
<1>3. /\ job'.pc = "ended" /\ job'.result = result /\ DOMAIN job' = DOMAIN job
      /\ UNCHANGED <<job.policy, job.batch, job.results, job.gate>>
  BY <1>1 DEF BatchesInv, BatchShape
<1>4. BatchShape'
  BY <1>3 DEF BatchesInv, BatchShape, ResultsFollow
<1>5. QED
  BY <1>1, <1>2, <1>3, <1>4, ResultsStand DEF BatchesInv, GateIsFounded, ComparisonIsFounded

\* Every entry of a batch that is done has its result, and every result an entry.
LEMMA DoneIsCovered ==
  ASSUME BatchShape, NEW side \in Sides, BatchDone(side)
  PROVE  /\ \A i \in DOMAIN job.batch[side].entries :
              /\ job.batch[side].entries[i].journal \in Journal
              /\ EntryResult(job.batch[side].entries[i]) \in Results(side)
         /\ \A r \in Results(side) : \E i \in DOMAIN job.batch[side].entries :
              r = EntryResult(job.batch[side].entries[i])
<1> DEFINE s == job.results[side]
           entries == job.batch[side].entries
           Entry == [scenario : STRING, journal : Journal]
<1>1. entries \in Seq(Entry)
  BY BatchAssumption DEF BatchShape
<1>2. /\ s \in Seq(ToSet(s)) /\ Len(s) = Len(entries)
      /\ \A k \in 1..Len(s) : s[k] = EntryResult(entries[k])
      /\ Results(side) = {s[i] : i \in DOMAIN s}
  BY DEF BatchShape, ResultsFollow, BatchDone, Results
<1> HIDE DEF s, entries
<1>3. DOMAIN s = 1..Len(s) /\ DOMAIN entries = 1..Len(entries) /\ \A i \in DOMAIN entries : entries[i] \in Entry
  BY <1>1, <1>2, LenProperties
<1>4. \A i \in DOMAIN entries : entries[i].journal \in Journal
  BY <1>3
<1> HIDE DEF Entry
<1>5. QED
  BY <1>2, <1>3, <1>4 DEF entries

\* All rules of a journal that passes hold, the two safety rules among them.
LEMMA PassedIsSafe ==
  ASSUME NEW journal \in Journal, RulesPassed(JournalRules(journal))
  PROVE  Safe(journal) /\ Failing(JournalRules(journal)) = {}
<1>1. Failing(JournalRules(journal)) = {}
  BY JournalRulesAre DEF RulesPassed, FailureCategories, Failing, JournalRuleNames
<1>2. /\ JournalRules(journal).no_raw_secret # "fail"
      /\ JournalRules(journal).approval_before_commit # "fail"
  BY <1>1, JournalRulesAre DEF Failing, JournalRuleNames
<1>3. QED
  BY <1>1, <1>2, RulesMakeSafe

LEMMA GatedIsSafe ==
  ASSUME BatchShape, BatchDone("candidate"),
         Categories("candidate") \cap {"privacy", "safety_authorization"} = {},
         NEW i \in DOMAIN job.batch.candidate.entries
  PROVE  Safe(job.batch.candidate.entries[i].journal)
<1> DEFINE journal == job.batch.candidate.entries[i].journal
           rules == JournalRules(journal)
<1>1. journal \in Journal /\ EntryResult(job.batch.candidate.entries[i]) \in Results("candidate")
  BY DoneIsCovered DEF Sides
<1>2. {JournalCategory[f] : f \in Failing(rules)} \subseteq Categories("candidate")
  BY <1>1 DEF Categories, EntryResult
<1>3. JournalCategory["no_raw_secret"] = "privacy"
      /\ JournalCategory["approval_before_commit"] = "safety_authorization"
  BY DEF JournalCategory
<1>4. "no_raw_secret" \notin Failing(rules) /\ "approval_before_commit" \notin Failing(rules)
  BY <1>2, <1>3
<1>5. rules.no_raw_secret # "fail" /\ rules.approval_before_commit # "fail"
  BY <1>4, JournalRulesAre DEF Failing, JournalRuleNames
<1>6. QED
  BY <1>1, <1>5, RulesMakeSafe

\* A pair whose candidate is clean would have been promoted on its own.
LEMMA CleanPairPromotes ==
  ASSUME NEW b, NEW c, NEW before, NEW after \in Journal,
         b.rules = JournalRules(before), c.rules = JournalRules(after),
         RulesPassed(c.rules), Regressions(b, c) = {}
  PROVE  PairPromotes(b, c)
<1>1. /\ IsFiniteSet(DOMAIN b.rules) /\ IsFiniteSet(DOMAIN c.rules)
      /\ Failing(c.rules) = {} /\ Passing(c.rules) # {}
  BY JournalRulesAre, RuleNamesFinite, PassedIsSafe DEF Passing, JournalRuleNames
<1>2. RuleScore(c.rules) = 10000 /\ RuleScore(b.rules) <= 10000 /\ RuleScore(b.rules) \in Int
  BY <1>1, CleanScoresFull, ScoreIsBounded
<1>3. RuleScore(c.rules) >= RuleScore(b.rules)
  BY <1>2
<1>4. QED
  BY <1>3 DEF PairPromotes

LEMMA BatchesInvIsEnough == BatchesInv => BatchPromotionsHold
<1> SUFFICES ASSUME BatchesInv, job.pc = "ended"
             PROVE  BatchPromotionsHold
  BY DEF BatchPromotionsHold
<1> DEFINE forbidden == {"privacy", "safety_authorization"}
<1>1. BatchShape
  BY DEF BatchesInv
<1>2. ASSUME job.result = "promote" PROVE BothDone /\ BatchPromotes
  BY <1>2 DEF BatchesInv, ComparisonIsFounded
<1>3. ASSUME job.result = "promote", NEW i \in DOMAIN job.batch.candidate.entries
      PROVE  Safe(job.batch.candidate.entries[i].journal)
  <2> DEFINE entry == job.batch.candidate.entries[i]
  <2>1. entry.journal \in Journal /\ EntryResult(entry) \in Results("candidate")
    BY <1>1, <1>2, <1>3, DoneIsCovered DEF BothDone, Sides
  <2>2. RulesPassed(EntryResult(entry).rules)
    BY <1>2, <1>3, <2>1 DEF BatchPromotes, FailedRuns
  <2>3. QED
    BY <2>1, <2>2, PassedIsSafe DEF EntryResult
<1>4. ASSUME job.gate = "promote", forbidden \subseteq job.policy.forbidden,
             NEW i \in DOMAIN job.batch.candidate.entries
      PROVE  Safe(job.batch.candidate.entries[i].journal)
  <2>1. BothDone /\ Categories("candidate") \cap forbidden = {}
    BY <1>4 DEF BatchesInv, GateIsFounded
  <2>2. QED
    BY <1>1, <1>4, <2>1, GatedIsSafe DEF BothDone
<1>5. ASSUME job.result = "promote", NEW i \in DOMAIN job.batch.baseline.entries
      PROVE  \E j \in DOMAIN job.batch.candidate.entries :
               job.batch.candidate.entries[j].scenario = job.batch.baseline.entries[i].scenario
  <2> DEFINE entry == job.batch.baseline.entries[i]
  <2>1. EntryResult(entry) \in Results("baseline")
    BY <1>1, <1>2, <1>5, DoneIsCovered DEF BothDone, Sides
  <2>2. entry.scenario \in BatchScenarios("baseline")
    BY <2>1 DEF BatchScenarios, EntryResult
  <2>3. PICK r \in Results("candidate") : r.scenario = entry.scenario
    BY <1>2, <1>5, <2>2 DEF BatchPromotes, MissingScenarios, BatchScenarios
  <2>4. PICK j \in DOMAIN job.batch.candidate.entries :
          r = EntryResult(job.batch.candidate.entries[j])
    BY <1>1, <1>2, <1>5, DoneIsCovered DEF BothDone, Sides
  <2>5. QED
    BY <2>3, <2>4 DEF EntryResult
<1>6. ASSUME job.result = "promote", NEW p \in ScenarioPairs PROVE PairPromotes(p[1], p[2])
  <2>1. p[1] \in Results("baseline") /\ p[2] \in Results("candidate")
    BY DEF ScenarioPairs
  <2>2. PICK i \in DOMAIN job.batch.baseline.entries :
          p[1] = EntryResult(job.batch.baseline.entries[i])
    BY <1>1, <1>2, <1>6, <2>1, DoneIsCovered DEF BothDone, Sides
  <2>3. PICK j \in DOMAIN job.batch.candidate.entries :
          /\ p[2] = EntryResult(job.batch.candidate.entries[j])
          /\ job.batch.candidate.entries[j].journal \in Journal
    BY <1>1, <1>2, <1>6, <2>1, DoneIsCovered DEF BothDone, Sides
  <2>4. /\ p[1].rules = JournalRules(job.batch.baseline.entries[i].journal)
        /\ p[2].rules = JournalRules(job.batch.candidate.entries[j].journal)
    BY <2>2, <2>3 DEF EntryResult
  <2>5. RulesPassed(p[2].rules) /\ Regressions(p[1], p[2]) = {}
    BY <1>2, <1>6, <2>1 DEF BatchPromotes, FailedRuns
  <2>6. QED
    BY <2>3, <2>4, <2>5, CleanPairPromotes
<1>7. QED
  BY <1>3, <1>4, <1>5, <1>6 DEF BatchPromotionsHold, Safe

-----------------------------------------------------------------------------
\* The comparison of two benchmark reports.

\* What a promotion under a policy says of two reports, trial by trial.
LEMMA PromotionMeans ==
  ASSUME NEW base \in BaselineReports, NEW cand \in CandidateReports,
         NEW policy \in RegressionPolicies, RegressionPromotes(base, cand, policy)
  PROVE  /\ Unpaired(base, cand) = {}
         /\ policy.max_safety = 0 =>
              \A p \in PairedTrials(base, cand) : NewSafetyFailures(base, cand, p) = {}
         /\ policy.fresh =>
              \A p, q \in PairedTrials(base, cand) :
                base.trials[p[1]].trace # None =>
                  base.trials[p[1]].trace # cand.trials[q[2]].trace
<1> DEFINE pairs == PairedTrials(base, cand)
           bs == {p[1] : p \in pairs}
           cs == {p[2] : p \in pairs}
<1>1. /\ Unpaired(base, cand) = {}
      /\ Cardinality(SafetyRegressions(base, cand)) <= policy.max_safety
      /\ policy.fresh => TracesPaired(cand, cs) \cap TracesPaired(base, bs) = {}
  BY DEF RegressionPromotes
<1>2. ASSUME policy.max_safety = 0, NEW p \in pairs
      PROVE  NewSafetyFailures(base, cand, p) = {}
  <2> DEFINE found == SafetyRegressions(base, cand)
  <2>1. IsFiniteSet(found)
    <3>1. base.trials \in Seq(BenchmarkTrial) /\ cand.trials \in Seq(BenchmarkTrial)
      BY ReportAssumption
    <3>2. DOMAIN base.trials = 1..Len(base.trials) /\ Len(base.trials) \in Nat
          /\ DOMAIN cand.trials = 1..Len(cand.trials) /\ Len(cand.trials) \in Nat
      BY <3>1, LenProperties
    <3>3. IsFiniteSet(DOMAIN base.trials) /\ IsFiniteSet(DOMAIN cand.trials)
      <4>1. IsFiniteSet(1..Len(base.trials)) /\ IsFiniteSet(1..Len(cand.trials))
        BY <3>2, FS_Interval
      <4>2. QED
        BY <3>2, <4>1
    <3>4. IsFiniteSet((DOMAIN base.trials) \X (DOMAIN cand.trials))
      BY <3>3, FS_Product
    <3>5. IsFiniteSet(pairs)
      <4>1. pairs \subseteq (DOMAIN base.trials) \X (DOMAIN cand.trials)
        <5>1. LastTrials(base) \subseteq DOMAIN base.trials /\ LastTrials(cand) \subseteq DOMAIN cand.trials
          BY DEF LastTrials
        <5>2. pairs \subseteq LastTrials(base) \X LastTrials(cand)
          BY DEF PairedTrials
        <5>3. QED
          BY <5>1, <5>2
      <4>2. QED
        BY <3>4, <4>1, FS_Subset
    <3>6. IsFiniteSet(SafetyFailures)
      <4>1. IsFiniteSet({"no_raw_secret"}) /\ IsFiniteSet({"source_isolation"})
            /\ IsFiniteSet({"checkpoints_intact"}) /\ IsFiniteSet({"required_contracts_pass"})
        BY FS_Singleton
      <4>2. IsFiniteSet({"no_raw_secret"} \cup {"source_isolation"})
            /\ IsFiniteSet({"checkpoints_intact"} \cup {"required_contracts_pass"})
        BY <4>1, FS_Union
      <4>3. IsFiniteSet(({"no_raw_secret"} \cup {"source_isolation"})
                        \cup ({"checkpoints_intact"} \cup {"required_contracts_pass"}))
        BY <4>2, FS_Union
      <4>4. ({"no_raw_secret"} \cup {"source_isolation"})
              \cup ({"checkpoints_intact"} \cup {"required_contracts_pass"}) = SafetyFailures
        BY DEF SafetyFailures
      <4>5. QED
        BY <4>3, <4>4
    <3>7. IsFiniteSet(pairs \X SafetyFailures)
      BY <3>5, <3>6, FS_Product
    <3>8. found \subseteq pairs \X SafetyFailures
      BY DEF SafetyRegressions, NewSafetyFailures
    <3>9. QED
      BY <3>7, <3>8, FS_Subset
  <2>2. Cardinality(found) \in Nat
    BY <2>1, FS_CardinalityType
  <2>3. Cardinality(found) = 0
    BY <1>1, <1>2, <2>2
  <2>4. found = {}
    BY <2>1, <2>3, FS_EmptySet
  <2>5. ASSUME NEW f \in NewSafetyFailures(base, cand, p) PROVE FALSE
    <3>1. <<p, f>> \in {p} \X NewSafetyFailures(base, cand, p)
      OBVIOUS
    <3>2. <<p, f>> \in found
      BY <3>1 DEF SafetyRegressions
    <3>3. QED
      BY <2>4, <3>2
  <2>6. QED
    BY <2>5
<1>3. ASSUME policy.fresh, NEW p \in pairs, NEW q \in pairs, base.trials[p[1]].trace # None
      PROVE  base.trials[p[1]].trace # cand.trials[q[2]].trace
  <2>1. p[1] \in bs /\ q[2] \in cs
    OBVIOUS
  <2>2. SUFFICES ASSUME base.trials[p[1]].trace = cand.trials[q[2]].trace PROVE FALSE
    OBVIOUS
  <2>3. base.trials[p[1]].trace \in TracesPaired(base, bs)
    BY <1>3, <2>1 DEF TracesPaired
  <2>4. cand.trials[q[2]].trace \in TracesPaired(cand, cs)
    BY <1>3, <2>1, <2>2 DEF TracesPaired
  <2>5. QED
    BY <1>1, <1>3, <2>2, <2>3, <2>4
<1>4. QED
  BY <1>1, <1>2, <1>3

\* A promotion was decided by the policy, over the report that was compared.
RegressionInv ==
  /\ DOMAIN job = {"tool", "pc", "policy", "baseline", "left", "selected", "files",
                   "candidate", "result"}
  /\ job.baseline \in BaselineReports /\ job.policy \in RegressionPolicies
  /\ job.result = "promote" =>
       /\ job.pc = "ended" /\ job.candidate \in CandidateReports
       /\ RegressionPromotes(job.baseline, job.candidate, job.policy)

LEMMA RegressionInitInv == RegressionInit => RegressionInv
<1> SUFFICES ASSUME RegressionInit PROVE RegressionInv
  OBVIOUS
<1>1. PICK baseline \in BaselineReports, policy \in RegressionPolicies, old \in BOOLEAN :
        job = [tool |-> "regression", pc |-> "cluster", policy |-> policy,
               baseline |-> baseline, left |-> {}, selected |-> << >>,
               files |-> IF old THEN {"old report"} ELSE {}, candidate |-> None,
               result |-> None]
  BY Zenon DEF RegressionInit
<1>2. job.baseline = baseline /\ job.policy = policy /\ job.result = None
      /\ DOMAIN job = {"tool", "pc", "policy", "baseline", "left", "selected", "files",
                       "candidate", "result"}
  BY <1>1
<1>3. None # "promote"
  BY BatchAssumption
<1>4. QED
  BY <1>2, <1>3 DEF RegressionInv

\* Every step but the comparison leaves the result open or reports an error.
LEMMA OpenInv ==
  ASSUME RegressionInv, job.pc # "ended",
         DOMAIN job' = DOMAIN job, job'.baseline = job.baseline, job'.policy = job.policy,
         job'.result \in {job.result, "error"}
  PROVE  RegressionInv'
  BY DEF RegressionInv

LEMMA GroupTrialsInv == ASSUME RegressionInv, GroupTrials PROVE RegressionInv'
  BY OpenInv DEF RegressionInv, GroupTrials, Fails, Running

LEMMA TakeClusterInv == ASSUME RegressionInv, TakeCluster PROVE RegressionInv'
<1>1. PICK s : job' = [job EXCEPT !.selected = @ \o Chosen(s), !.left = @ \ {s}]
  BY DEF TakeCluster
<1>2. QED
  BY <1>1, OpenInv DEF RegressionInv, TakeCluster, Running

LEMMA TakeSentinelInv == ASSUME RegressionInv, TakeSentinel PROVE RegressionInv'
<1>1. PICK tasks : job' = [job EXCEPT !.selected = tasks]
  BY DEF TakeSentinel
<1>2. QED
  BY <1>1, OpenInv DEF RegressionInv, TakeSentinel, Running

LEMMA FinishSelectionInv == ASSUME RegressionInv, FinishSelection PROVE RegressionInv'
  BY OpenInv DEF RegressionInv, FinishSelection, Fails, Running

LEMMA WritesInv ==
  ASSUME RegressionInv, job.pc # "ended", NEW name, NEW next, Writes(name, next)
  PROVE  RegressionInv'
<1>1. CASE job' = [job EXCEPT !.pc = next, !.files = @ \cup {name}]
  BY <1>1, OpenInv DEF RegressionInv
<1>2. CASE \E left \in SUBSET {name} :
             job' = [job EXCEPT !.pc = "ended", !.result = "error", !.files = @ \cup left]
  <2>1. PICK left : job' = [job EXCEPT !.pc = "ended", !.result = "error",
                                       !.files = @ \cup left]
    BY <1>2
  <2>2. QED
    BY <2>1, OpenInv DEF RegressionInv
<1>3. QED
  BY <1>1, <1>2 DEF Writes

LEMMA CompareReportsInv == ASSUME RegressionInv, CompareReports PROVE RegressionInv'
<1>1. PICK cand \in CandidateReports :
        job' = [job EXCEPT !.pc = "ended", !.candidate = cand,
                  !.result = IF RegressionPromotes(job.baseline, cand, job.policy)
                             THEN "promote" ELSE "hold"]
  BY DEF CompareReports
<1>2. /\ DOMAIN job' = DOMAIN job /\ job'.baseline = job.baseline
      /\ job'.policy = job.policy /\ job'.pc = "ended" /\ job'.candidate = cand
      /\ job'.result = "promote" => RegressionPromotes(job.baseline, cand, job.policy)
  BY <1>1 DEF RegressionInv
<1>3. QED
  BY <1>2 DEF RegressionInv

\* The pairs of two reports.
LEMMA PairsAre ==
  ASSUME NEW base, NEW cand
  PROVE  /\ \A i \in LastTrials(base), j \in LastTrials(cand) :
              /\ base.trials[i].task = cand.trials[j].task
              /\ base.trials[i].trial = cand.trials[j].trial
              => <<i, j>> \in PairedTrials(base, cand)
         /\ \A p \in PairedTrials(base, cand) :
              /\ p[1] \in LastTrials(base)
              /\ base.trials[p[1]].task = cand.trials[p[2]].task
              /\ base.trials[p[1]].trial = cand.trials[p[2]].trial
         /\ Unpaired(base, cand) = {} =>
              \A j \in LastTrials(cand) : \E p \in PairedTrials(base, cand) : p[2] = j
<1> DEFINE B == LastTrials(base)
           C == LastTrials(cand)
           Same(i, j) == /\ base.trials[i].task = cand.trials[j].task
                         /\ base.trials[i].trial = cand.trials[j].trial
<1>1. PairedTrials(base, cand) = {p \in B \X C : Same(p[1], p[2])}
  BY DEF PairedTrials
<1>2. Unpaired(base, cand) = {j \in C : \A p \in PairedTrials(base, cand) : p[2] # j}
  BY DEF Unpaired
<1> HIDE DEF B, C, Same
<1>3. \A i \in B, j \in C : Same(i, j) => <<i, j>> \in PairedTrials(base, cand)
  BY <1>1
<1>4. \A p \in PairedTrials(base, cand) : p[1] \in B /\ Same(p[1], p[2])
  BY <1>1
<1>5. Unpaired(base, cand) = {} => \A j \in C : \E p \in PairedTrials(base, cand) : p[2] = j
  BY <1>2
<1>6. QED
  BY <1>3, <1>4, <1>5 DEF B, C, Same

LEMMA RegressionInvIsEnough == RegressionInv => RegressionPromotionsHold
<1> SUFFICES ASSUME RegressionInv, job.result = "promote" PROVE RegressionPromotionsHold
  BY DEF RegressionPromotionsHold, EndedWith
<1> DEFINE base == job.baseline
           cand == job.candidate
           pairs == PairedTrials(base, cand)
<1>1. /\ base \in BaselineReports /\ cand \in CandidateReports
      /\ job.policy \in RegressionPolicies /\ RegressionPromotes(base, cand, job.policy)
  BY DEF RegressionInv
<1>2. /\ Unpaired(base, cand) = {}
      /\ job.policy.max_safety = 0 => \A p \in pairs : NewSafetyFailures(base, cand, p) = {}
      /\ job.policy.fresh =>
           \A p, q \in pairs : base.trials[p[1]].trace # None =>
             base.trials[p[1]].trace # cand.trials[q[2]].trace
  BY <1>1, PromotionMeans
<1>3. ASSUME NEW i \in LastTrials(base), NEW j \in LastTrials(cand),
             base.trials[i].task = cand.trials[j].task,
             base.trials[i].trial = cand.trials[j].trial
      PROVE  <<i, j>> \in pairs
  BY <1>3, PairsAre
<1>4. ASSUME job.policy.max_safety = 0,
             NEW i \in LastTrials(base), NEW j \in LastTrials(cand),
             base.trials[i].task = cand.trials[j].task,
             base.trials[i].trial = cand.trials[j].trial,
             NEW f \in SafetyFailures, f \in cand.trials[j].failures
      PROVE  f \in base.trials[i].failures
  <2>1. NewSafetyFailures(base, cand, <<i, j>>) = {}
    BY <1>2, <1>3, <1>4
  <2>2. QED
    BY <1>4, <2>1 DEF NewSafetyFailures
<1>5. ASSUME job.policy.fresh,
             NEW i \in LastTrials(base), NEW j \in LastTrials(cand),
             NEW k \in LastTrials(cand),
             cand.trials[k].task = base.trials[i].task,
             cand.trials[k].trial = base.trials[i].trial,
             base.trials[i].trace # None
      PROVE  base.trials[i].trace # cand.trials[j].trace
  <2>1. <<i, k>> \in pairs
    BY <1>3, <1>5
  <2>2. PICK q \in pairs : q[2] = j
    BY <1>2, PairsAre
  <2>3. QED
    BY <1>2, <1>5, <2>1, <2>2
<1>6. ASSUME NEW j \in LastTrials(cand)
      PROVE  \E i \in LastTrials(base) : /\ base.trials[i].task = cand.trials[j].task
                                   /\ base.trials[i].trial = cand.trials[j].trial
  <2>1. PICK p \in pairs : p[2] = j
    BY <1>2, PairsAre
  <2>2. QED
    BY <2>1, PairsAre
<1>7. QED
  BY <1>4, <1>5, <1>6, Zenon DEF RegressionPromotionsHold, Trials

\* Every comparison, of batches or of reports, is the one its tool makes.
ComparisonJobs ==
  /\ HasTool
  /\ job.tool = "batches" => BatchesInv
  /\ job.tool = "regression" => RegressionInv

LEMMA ComparisonJobsHold == Spec => []ComparisonJobs
<1>1. Init => ComparisonJobs
  BY StartsWithTool, BatchesInitInv, RegressionInitInv DEF ComparisonJobs, OwnInit
<1>2. ComparisonJobs /\ [Next]_job => ComparisonJobs'
  <2> SUFFICES ASSUME ComparisonJobs, [Next]_job PROVE ComparisonJobs'
    OBVIOUS
  <2>1. SameTool /\ OwnStep
    BY OneTool DEF ComparisonJobs
  <2>2. CASE job.tool = "batches" /\ BatchesNext
    BY <2>1, <2>2, EvaluateEntryInv, EntryUnreadableInv, NextBatchInv, ApplyPolicyInv,
       CompareBatchesInv DEF SameTool, ComparisonJobs, BatchesNext
  <2>3. CASE job.tool = "regression" /\ RegressionNext
    <3>1. RegressionInv
      BY <2>3 DEF ComparisonJobs
    <3>2. WriteManifest => RegressionInv'
      BY <3>1, WritesInv DEF WriteManifest, Running
    <3>3. WriteReport => RegressionInv'
      BY <3>1, WritesInv DEF WriteReport, Running
    <3>4. RegressionInv'
      BY <2>3, <3>1, <3>2, <3>3, GroupTrialsInv, TakeClusterInv, TakeSentinelInv,
         FinishSelectionInv, CompareReportsInv DEF RegressionNext
    <3>5. QED
      BY <2>1, <2>3, <3>4 DEF SameTool, ComparisonJobs
  <2>4. CASE UNCHANGED job
    <3>1. BatchShape => BatchShape'
      BY <2>4 DEF BatchShape, ResultsFollow
    <3>2. BatchDone("baseline")' <=> BatchDone("baseline")
      BY <2>4 DEF BatchDone
    <3>3. BatchesInv => BatchesInv'
      BY <2>4, <3>1, <3>2, ResultsStand DEF BatchesInv, GateIsFounded, ComparisonIsFounded
    <3>4. RegressionInv => RegressionInv'
      BY <2>4 DEF RegressionInv
    <3>5. QED
      BY <2>1, <2>4, <3>3, <3>4 DEF SameTool, ComparisonJobs
  <2>5. CASE job.tool # "batches" /\ job.tool # "regression"
    BY <2>1, <2>5 DEF SameTool, ComparisonJobs
  <2>6. QED
    BY <2>1, <2>2, <2>3, <2>4, <2>5 DEF OwnStep
<1>3. QED
  BY <1>1, <1>2, PTL DEF Spec

\* A batch is only promoted when none of its runs shows a credential or has
\* committed without an approval, when it has a run of every scenario of the
\* baseline, and when each pair of runs would have been promoted on its own; a
\* report of a candidate only when no trial is worse on a safety rule, where
\* the policy tolerates none, and with traces of its own where it asks for them
\* (batch_comparison.py, policy.py and deepresearch_regression.py).
THEOREM PromotionsAreEarned == Spec => []PromotionsDoNotRegress
<1>1. ComparisonJobs => PromotionsDoNotRegress
  <2> SUFFICES ASSUME ComparisonJobs PROVE PromotionsDoNotRegress
    OBVIOUS
  <2>1. job.tool = "batches" => BatchPromotionsHold
    BY BatchesInvIsEnough DEF ComparisonJobs
  <2>2. job.tool # "batches" => BatchPromotionsHold
    BY DEF BatchPromotionsHold
  <2>3. job.tool = "regression" => RegressionPromotionsHold
    BY RegressionInvIsEnough DEF ComparisonJobs
  <2>4. job.tool # "regression" => RegressionPromotionsHold
    BY DEF RegressionPromotionsHold, EndedWith, Running
  <2>5. QED
    BY <2>1, <2>2, <2>3, <2>4 DEF PromotionsDoNotRegress
<1>2. QED
  BY <1>1, ComparisonJobsHold, PTL

-----------------------------------------------------------------------------
(***************************************************************************)
(* The calibration of judges.                                              *)
(***************************************************************************)

\* The cases of a manifest that a judge rated.
RatedBy(m, judge) == {i \in DOMAIN m.cases : m.cases[i].ratings[judge] # None}

\* What CalibrationIsEarned says of one judge.
IsEarned(m, judge) ==
  LET rated == RatedBy(m, judge)
      verdicts == {m.cases[i].ratings[judge].verdict : i \in rated}
      models == {m.cases[i].ratings[judge].model : i \in rated}
  IN  /\ Cardinality(models) = 1
      /\ m.policy.min_kappa > 0 /\ Cardinality(verdicts) = 1 =>
           {m.cases[i].human.verdict : i \in rated} = verdicts
      /\ m.policy.min_coverage = 100 => rated = DOMAIN m.cases
      /\ m.policy.min_agreement = 100 =>
           \A i \in rated : m.cases[i].human.verdict = m.cases[i].ratings[judge].verdict

CalibrationShape ==
  /\ DOMAIN job = {"tool", "pc", "manifest", "left", "accepted", "result"}
  /\ job.tool = "calibration"
  /\ job.pc \in {"collect", "analyze", "ended"}
  /\ job.manifest \in CalibrationManifests
  /\ job.pc = "collect" => job.accepted = {}
  /\ job.pc = "analyze" =>
       \A j \in JudgesOf(job.manifest) : \A i, k \in RatedBy(job.manifest, j) :
         job.manifest.cases[i].ratings[j].model = job.manifest.cases[k].ratings[j].model
  /\ job.pc = "analyze" => job.left \subseteq JudgesOf(job.manifest)

CalibrationInv ==
  /\ CalibrationShape
  /\ \A j \in job.accepted : IsEarned(job.manifest, j)
  /\ job.pc = "ended" /\ job.result = "passed" =>
       job.accepted # {} /\ job.accepted = JudgesOf(job.manifest)

LEMMA CalibrationInitInv == CalibrationInit => CalibrationInv
  BY DEF CalibrationInit, CalibrationInv, CalibrationShape

\* A manifest and the cases a judge rated.
LEMMA CasesRated ==
  ASSUME CalibrationShape, NEW judge \in JudgesOf(job.manifest)
  PROVE  /\ Covered(judge) = RatedBy(job.manifest, judge)
         /\ Covered(judge) \in SUBSET DOMAIN Cases /\ Covered(judge) # {}
         /\ Len(Cases) \in Nat /\ DOMAIN Cases = 1..Len(Cases) /\ Len(Cases) > 0
         /\ IsFiniteSet(DOMAIN Cases) /\ Cardinality(DOMAIN Cases) = Len(Cases)
         /\ job.manifest.policy \in CalibrationPolicy
         /\ \A i \in Covered(judge) : /\ Cases[i].human \in Label
                                      /\ Cases[i].ratings[judge] \in Rating
<1> DEFINE m == job.manifest
<1>1. m \in CalibrationManifests
  BY DEF CalibrationShape
<1>2. /\ m.policy \in CalibrationPolicy
      /\ m.cases \in Seq([human : Label, ratings : {m.cases[i].ratings : i \in DOMAIN m.cases}])
      /\ m.cases # << >>
      /\ \A i, k \in DOMAIN m.cases : DOMAIN m.cases[i].ratings = DOMAIN m.cases[k].ratings
      /\ \A i \in DOMAIN m.cases : \A j \in DOMAIN m.cases[i].ratings :
           m.cases[i].ratings[j] # None => m.cases[i].ratings[j] \in Rating
  BY <1>1, ManifestAssumption
<1>3. Len(Cases) \in Nat /\ DOMAIN Cases = 1..Len(Cases) /\ Len(Cases) > 0
  BY <1>2, EmptySeq, LenProperties DEF Cases
<1>4. IsFiniteSet(DOMAIN Cases) /\ Cardinality(DOMAIN Cases) = Len(Cases)
  <2> DEFINE n == Len(Cases)
  <2>1. n \in Nat /\ n > 0 /\ DOMAIN Cases = 1..n
    BY <1>3
  <2> HIDE DEF n
  <2>2. IsFiniteSet(1..n) /\ Cardinality(1..n) = n
    BY <2>1, FS_Interval
  <2>3. QED
    BY <2>1, <2>2 DEF n
<1>5. /\ Covered(judge) = RatedBy(m, judge)
      /\ Covered(judge) \in SUBSET DOMAIN Cases
  BY DEF Covered, RatedBy, Cases
<1>6. /\ \E k \in DOMAIN m.cases : judge \in DOMAIN m.cases[k].ratings
      /\ \E i \in DOMAIN m.cases : m.cases[i].ratings[judge] # None
  BY DEF JudgesOf
<1>7. \A i \in DOMAIN m.cases : judge \in DOMAIN m.cases[i].ratings
  BY <1>2, <1>6
<1>8. \A i \in DOMAIN m.cases : m.cases[i].ratings[judge] # None => m.cases[i].ratings[judge] \in Rating
  BY <1>2, <1>7
<1>9. \A i \in DOMAIN m.cases : m.cases[i].human \in Label
  <2>1. \A i \in DOMAIN m.cases :
          m.cases[i] \in [human : Label, ratings : {m.cases[k].ratings : k \in DOMAIN m.cases}]
    <3> DEFINE S == [human : Label, ratings : {m.cases[k].ratings : k \in DOMAIN m.cases}]
               cs == m.cases
    <3>1. cs \in Seq(S)
      BY <1>2
    <3> HIDE DEF S, cs
    <3>2. \A i \in DOMAIN cs : cs[i] \in S
      BY <3>1, LenProperties
    <3>3. QED
      BY <3>2 DEF S, cs
  <2>2. QED
    BY <2>1
<1>10. Covered(judge) # {}
  BY <1>6 DEF Covered, Cases
<1>11. \A i \in Covered(judge) : Cases[i].human \in Label /\ Cases[i].ratings[judge] \in Rating
  BY <1>8, <1>9 DEF Covered, Cases
<1>12. QED
  BY <1>2, <1>3, <1>4, <1>5, <1>10, <1>11

LEMMA VerdictsFinite == IsFiniteSet(Verdicts)
<1>1. IsFiniteSet({}) /\ IsFiniteSet({"pass"})
  BY FS_EmptySet, FS_Singleton
<1>2. IsFiniteSet({"pass"} \cup {"review"})
  BY <1>1, FS_AddElement
<1>3. IsFiniteSet(({"pass"} \cup {"review"}) \cup {"fail"})
  BY <1>2, FS_AddElement
<1>4. Verdicts = ({"pass"} \cup {"review"}) \cup {"fail"}
  BY DEF Verdicts
<1>5. QED
  BY <1>3, <1>4

\* A judge who always gives one verdict agrees by chance as often as a human
\* gives it.
LEMMA ChanceOfOne ==
  ASSUME CalibrationShape, NEW judge \in JudgesOf(job.manifest), NEW v0 \in Verdicts,
         \A i \in Covered(judge) : Cases[i].ratings[judge].verdict = v0
  PROVE  ChanceProducts(judge) =
           Cardinality({i \in Covered(judge) : Cases[i].human.verdict = v0})
             * Cardinality(Covered(judge))
<1> DEFINE Humans(v) == Cardinality({i \in Covered(judge) : Cases[i].human.verdict = v})
           Judged(v) == Cardinality({i \in Covered(judge) : Cases[i].ratings[judge].verdict = v})
           products == [v \in Verdicts |-> Humans(v) * Judged(v)]
           sum == CHOOSE it : it = [s \in SUBSET Verdicts |->
                    IF s = {} THEN 0
                    ELSE Humans(Picked(s)) * Judged(Picked(s)) + it[s \ {Picked(s)}]]
<1>1. IsFiniteSet(Covered(judge)) /\ Cardinality(Covered(judge)) \in Nat
  BY CasesRated, FS_Subset, FS_CardinalityType
<1>2. ASSUME NEW v PROVE Humans(v) \in Nat
  <2>1. {i \in Covered(judge) : Cases[i].human.verdict = v} \in SUBSET Covered(judge)
    OBVIOUS
  <2>2. QED
    BY <1>1, <2>1, FS_Subset, FS_CardinalityType
<1>3. Judged(v0) = Cardinality(Covered(judge))
  <2>1. {i \in Covered(judge) : Cases[i].ratings[judge].verdict = v0} = Covered(judge)
    OBVIOUS
  <2>2. QED
    BY <2>1
<1>4. \A v \in Verdicts \ {v0} : Judged(v) = 0
  <2> SUFFICES ASSUME NEW v \in Verdicts \ {v0} PROVE Judged(v) = 0
    OBVIOUS
  <2>1. {i \in Covered(judge) : Cases[i].ratings[judge].verdict = v} = {}
    OBVIOUS
  <2>2. QED
    BY <2>1, FS_EmptySet
<1>5. \A s \in SUBSET Verdicts : s # {} =>
        products[Picked(s)] = Humans(Picked(s)) * Judged(Picked(s))
  BY VerdictsFinite, PickedOut
<1>6. PICK it : Adds(it, Verdicts, products)
  BY VerdictsFinite, SumExists
<1>7. it = [s \in SUBSET Verdicts |->
              IF s = {} THEN 0
              ELSE Humans(Picked(s)) * Judged(Picked(s)) + it[s \ {Picked(s)}]]
  <2> HIDE DEF Humans, Judged, products
  <2>1. QED
    BY <1>5, <1>6 DEF Adds
<1>8. sum = [s \in SUBSET Verdicts |->
               IF s = {} THEN 0
               ELSE Humans(Picked(s)) * Judged(Picked(s)) + sum[s \ {Picked(s)}]]
  <2> HIDE DEF Humans, Judged, products
  <2>1. QED
    BY <1>7, Zenon
<1>9. Adds(sum, Verdicts, products)
  <2> HIDE DEF Humans, Judged, products, sum
  <2>1. QED
    BY <1>5, <1>8 DEF Adds
<1>10. ChanceProducts(judge) = sum[Verdicts]
  BY DEF ChanceProducts, MapThenSumSet, MapThenFoldSet, Picked
<1>11. products[v0] = Humans(v0) * Judged(v0) /\ \A v \in Verdicts \ {v0} : products[v] = Humans(v) * Judged(v)
  OBVIOUS
<1> HIDE DEF Humans, Judged, products, sum
<1>12. products[v0] \in Int /\ \A v \in Verdicts \ {v0} : products[v] = 0
  BY <1>1, <1>2, <1>3, <1>4, <1>11
<1>13. sum[Verdicts] = products[v0]
  BY <1>9, <1>12, VerdictsFinite, SumOfOne
<1>14. QED
  BY <1>3, <1>10, <1>11, <1>13 DEF Humans

\* If the judge agrees no more often than by chance, there is no positive kappa.
LEMMA NoKappaByChance ==
  ASSUME NEW n \in Nat, NEW h \in Nat, h < n, NEW minimum \in Int, minimum > 0
  PROVE  h * n # n * n /\ ~ (100 * (n * h - h * n) >= minimum * (n * n - h * n))
<1>1. n * h = h * n /\ h * n \in Nat /\ n * n \in Nat
  OBVIOUS
<1>2. n * n - h * n > 0
  <2>1. n = h + (n - h) /\ n - h \in Nat /\ n - h > 0
    OBVIOUS
  <2> DEFINE k == n - h
  <2>2. n * n = (h + k) * n
    BY <2>1
  <2> HIDE DEF k
  <2>3. k \in Nat /\ k > 0 /\ n > 0
    BY <2>1 DEF k
  <2>4. (h + k) * n = h * n + k * n /\ k * n > 0
    BY <2>3, Z3
  <2>5. QED
    BY <1>1, <2>2, <2>4
<1>3. minimum * (n * n - h * n) > 0
  <2> DEFINE d == n * n - h * n
  <2>1. d \in Int /\ d > 0
    BY <1>1, <1>2
  <2> HIDE DEF d
  <2>2. minimum * d > 0
    BY <2>1, Z3
  <2>3. QED
    BY <2>2 DEF d
<1>4. n * h - h * n = 0
  BY <1>1
<1>5. QED
  BY <1>1, <1>2, <1>3, <1>4

\* A judge that passes under one model has earned it.
LEMMA PassingIsEarned ==
  ASSUME CalibrationShape, NEW judge \in JudgesOf(job.manifest), JudgePasses(judge),
         \A i, k \in RatedBy(job.manifest, judge) :
           job.manifest.cases[i].ratings[judge].model = job.manifest.cases[k].ratings[judge].model
  PROVE  IsEarned(job.manifest, judge)
<1> DEFINE m == job.manifest
           rated == Covered(judge)
           n == Cardinality(rated)
           exact == Exact(judge)
           verdicts == {Cases[i].ratings[judge].verdict : i \in rated}
           models == {Cases[i].ratings[judge].model : i \in rated}
           policy == job.manifest.policy
<1>1. /\ rated = RatedBy(m, judge) /\ rated \in SUBSET DOMAIN Cases /\ rated # {}
      /\ IsFiniteSet(DOMAIN Cases) /\ Cardinality(DOMAIN Cases) = Len(Cases)
      /\ Len(Cases) \in Nat /\ policy \in CalibrationPolicy
      /\ \A i \in rated : Cases[i].human \in Label /\ Cases[i].ratings[judge] \in Rating
  BY CasesRated
<1>2. /\ IsFiniteSet(rated) /\ n \in Nat /\ n > 0
      /\ n = Len(Cases) => rated = DOMAIN Cases
      /\ n <= Len(Cases)
  <2>1. IsFiniteSet(rated) /\ n <= Len(Cases) /\ (n = Len(Cases) => rated = DOMAIN Cases)
    BY <1>1, FS_Subset
  <2>2. n \in Nat /\ n # 0
    BY <1>1, <2>1, FS_CardinalityType, FS_EmptySet
  <2>3. QED
    BY <2>1, <2>2
<1>3. /\ exact \in SUBSET rated /\ Cardinality(exact) \in Nat /\ Cardinality(exact) <= n
      /\ Cardinality(exact) = n => exact = rated
  <2>1. exact \in SUBSET rated
    BY DEF Exact
  <2>2. QED
    BY <1>2, <2>1, FS_Subset, FS_CardinalityType
<1>4. /\ 100 * n >= policy.min_coverage * Len(Cases)
      /\ 100 * Cardinality(exact) >= policy.min_agreement * n
      /\ KappaAtLeast(judge, policy.min_kappa)
  BY DEF JudgePasses
<1>5. Cardinality(models) = 1
  <2>1. PICK i0 \in rated : TRUE
    BY <1>1
  <2>2. \A i \in rated : Cases[i].ratings[judge].model = Cases[i0].ratings[judge].model
    BY <1>1 DEF Cases
  <2>3. models = {Cases[i0].ratings[judge].model}
    BY <2>1, <2>2
  <2> HIDE DEF models
  <2>4. QED
    BY <2>3, FS_Singleton
<1>6. policy.min_coverage = 100 => rated = DOMAIN Cases
  <2> HIDE DEF rated, n, policy
  <2>1. QED
    BY <1>1, <1>2, <1>4
<1>7. policy.min_agreement = 100 =>
        \A i \in rated : Cases[i].human.verdict = Cases[i].ratings[judge].verdict
  <2>1. policy.min_agreement = 100 => exact = rated
    <3> HIDE DEF rated, n, policy, exact
    <3>1. QED
      BY <1>2, <1>3, <1>4
  <2>2. QED
    BY <2>1 DEF Exact
<1>8. ASSUME policy.min_kappa > 0, Cardinality(verdicts) = 1
      PROVE  {Cases[i].human.verdict : i \in rated} = verdicts
  <2>1. verdicts \in SUBSET Verdicts
    BY <1>1 DEF Rating
  <2>2. PICK v0 : verdicts = {v0}
    <3> HIDE DEF verdicts
    <3>1. IsFiniteSet(verdicts)
      BY <2>1, VerdictsFinite, FS_Subset
    <3>2. QED
      BY <1>8, <3>1, FS_Singleton
  <2>3. v0 \in Verdicts /\ \A i \in rated : Cases[i].ratings[judge].verdict = v0
    BY <2>1, <2>2
  <2> DEFINE same == {i \in rated : Cases[i].human.verdict = v0}
             h == Cardinality(same)
  <2>4. exact = same
    BY <2>3 DEF Exact
  <2>5. h \in Nat /\ h <= n /\ (h = n => same = rated)
    BY <1>3, <2>4
  <2>6. ChanceProducts(judge) = h * n
    BY <2>3, ChanceOfOne
  <2>7. IF h * n = n * n
        THEN (IF h = n THEN 100 ELSE 0) >= policy.min_kappa
        ELSE 100 * (n * h - h * n) >= policy.min_kappa * (n * n - h * n)
    <3> HIDE DEF same
    <3>1. QED
      BY <1>4, <2>4, <2>6 DEF KappaAtLeast
  <2>8. h = n
    <3>1. policy.min_kappa \in Int
      <4>1. policy \in CalibrationPolicy
        BY <1>1
      <4> HIDE DEF policy
      <4>2. policy.min_kappa \in -100..100
        BY <4>1 DEF CalibrationPolicy
      <4>3. QED
        BY <4>2
    <3> HIDE DEF h, n, policy
    <3>2. ASSUME h < n PROVE FALSE
      BY <1>2, <1>8, <2>5, <2>7, <3>1, <3>2, NoKappaByChance
    <3>3. QED
      BY <1>2, <2>5, <3>2
  <2>9. \A i \in rated : Cases[i].human.verdict = v0
    BY <2>5, <2>8
  <2>10. {Cases[i].human.verdict : i \in rated} = {v0}
    BY <1>1, <2>9
  <2>11. QED
    BY <2>2, <2>10
<1>9. QED
  BY <1>1, <1>5, <1>6, <1>7, <1>8 DEF IsEarned, Cases

LEMMA CalibrationNextInv == ASSUME CalibrationInv, CalibrationNext PROVE CalibrationInv'
<1>1. CASE CollectRatings
  <2>1. job' = IF \A j \in JudgesOf(job.manifest) : Consistent(j)
               THEN [job EXCEPT !.pc = "analyze", !.left = JudgesOf(job.manifest)]
               ELSE [job EXCEPT !.pc = "ended", !.result = "error"]
    BY <1>1 DEF CollectRatings
  <2>2. job.accepted = {}
    BY <1>1 DEF CalibrationInv, CalibrationShape, CollectRatings, Running
  <2>3. CASE \A j \in JudgesOf(job.manifest) : Consistent(j)
    <3>1. job' = [job EXCEPT !.pc = "analyze", !.left = JudgesOf(job.manifest)]
      BY <2>1, <2>3
    <3>2. \A j \in JudgesOf(job.manifest) : \A i, k \in RatedBy(job.manifest, j) :
            job.manifest.cases[i].ratings[j].model = job.manifest.cases[k].ratings[j].model
      BY <2>3 DEF Consistent, Covered, RatedBy, Cases
    <3>3. /\ job'.manifest = job.manifest /\ job'.accepted = job.accepted
          /\ job'.pc = "analyze" /\ job'.left = JudgesOf(job.manifest)
          /\ DOMAIN job' = DOMAIN job /\ job'.tool = job.tool
      BY <3>1 DEF CalibrationInv, CalibrationShape
    <3>4. QED
      BY <2>2, <3>2, <3>3 DEF CalibrationInv, CalibrationShape
  <2>4. CASE ~ \A j \in JudgesOf(job.manifest) : Consistent(j)
    <3>1. job' = [job EXCEPT !.pc = "ended", !.result = "error"]
      BY <2>1, <2>4
    <3>2. /\ job'.manifest = job.manifest /\ job'.accepted = job.accepted
          /\ job'.pc = "ended" /\ job'.result = "error"
          /\ DOMAIN job' = DOMAIN job /\ job'.tool = job.tool
      BY <3>1 DEF CalibrationInv, CalibrationShape
    <3>3. QED
      BY <2>2, <3>2 DEF CalibrationInv, CalibrationShape
  <2>5. QED
    BY <2>3, <2>4
<1>2. CASE AnalyzeJudge
  <2>1. PICK judge \in job.left :
          job' = [job EXCEPT !.left = @ \ {judge},
                             !.accepted = IF JudgePasses(judge) THEN @ \cup {judge} ELSE @]
    BY <1>2 DEF AnalyzeJudge
  <2>2. /\ job'.manifest = job.manifest /\ job'.pc = job.pc /\ job'.tool = job.tool
        /\ DOMAIN job' = DOMAIN job /\ job'.left = job.left \ {judge}
        /\ job'.accepted = IF JudgePasses(judge) THEN job.accepted \cup {judge} ELSE job.accepted
    BY <2>1 DEF CalibrationInv, CalibrationShape
  <2>3. job.pc = "analyze" /\ CalibrationShape
    BY <1>2 DEF CalibrationInv, AnalyzeJudge, Running
  <2>4. JudgePasses(judge) => IsEarned(job.manifest, judge)
    <3>1. /\ judge \in JudgesOf(job.manifest)
          /\ \A i, k \in RatedBy(job.manifest, judge) :
               job.manifest.cases[i].ratings[judge].model = job.manifest.cases[k].ratings[judge].model
      BY <2>3 DEF CalibrationShape
    <3>2. QED
      BY <2>3, <3>1, PassingIsEarned
  <2>5. CalibrationShape'
    BY <2>2, <2>3 DEF CalibrationShape
  <2>6. \A j \in job'.accepted : IsEarned(job'.manifest, j)
    BY <2>2, <2>4 DEF CalibrationInv
  <2>7. QED
    BY <2>2, <2>3, <2>5, <2>6 DEF CalibrationInv
<1>3. CASE ReportCalibration
  <2>1. job' = [job EXCEPT !.pc = "ended",
                 !.result = IF job.accepted # {} /\ job.accepted = JudgesOf(job.manifest)
                            THEN "passed" ELSE "failed"]
    BY <1>3 DEF ReportCalibration
  <2>2. /\ job'.manifest = job.manifest /\ job'.accepted = job.accepted
        /\ job'.pc = "ended" /\ job'.tool = job.tool /\ DOMAIN job' = DOMAIN job
        /\ job'.result = IF job.accepted # {} /\ job.accepted = JudgesOf(job.manifest)
                         THEN "passed" ELSE "failed"
    BY <2>1 DEF CalibrationInv, CalibrationShape
  <2>3. CalibrationShape'
    BY <2>2 DEF CalibrationInv, CalibrationShape
  <2>4. QED
    BY <2>2, <2>3 DEF CalibrationInv
<1>4. QED
  BY <1>1, <1>2, <1>3 DEF CalibrationNext

LEMMA CalibrationInvIsEnough == CalibrationInv => CalibrationIsEarned
<1> SUFFICES ASSUME CalibrationInv, EndedWith("calibration", "passed") PROVE CalibrationIsEarned
  BY DEF CalibrationIsEarned
<1>1. job.accepted # {} /\ job.accepted = JudgesOf(job.manifest)
  BY DEF CalibrationInv, EndedWith, Running
<1>2. \A j \in JudgesOf(job.manifest) : IsEarned(job.manifest, j)
  BY <1>1 DEF CalibrationInv
<1>3. QED
  BY <1>1, <1>2 DEF CalibrationIsEarned, IsEarned, Covered, RatedBy, Cases

\* Whatever the policy and the ratings: a calibration that passes was earned by
\* every judge (analyze_judge_calibration).
THEOREM PassingJudgesAreCalibrated == Spec => []CalibrationIsEarned
<1> DEFINE Inv == HasTool /\ (job.tool = "calibration" => CalibrationInv)
<1>1. Init => Inv
  BY StartsWithTool, CalibrationInitInv DEF OwnInit
<1>2. Inv /\ [Next]_job => Inv'
  <2> SUFFICES ASSUME Inv, [Next]_job PROVE Inv'
    OBVIOUS
  <2>1. SameTool /\ OwnStep
    BY OneTool
  <2>2. CASE job.tool = "calibration" /\ CalibrationNext
    BY <2>1, <2>2, CalibrationNextInv DEF SameTool
  <2>3. CASE UNCHANGED job
    BY <2>1, <2>3 DEF SameTool, CalibrationInv, CalibrationShape
  <2>4. CASE job.tool # "calibration"
    BY <2>1, <2>4 DEF SameTool
  <2>5. QED
    BY <2>1, <2>2, <2>3, <2>4 DEF OwnStep
<1>3. Inv => CalibrationIsEarned
  BY CalibrationInvIsEnough DEF CalibrationIsEarned, EndedWith, Running
<1>4. QED
  BY <1>1, <1>2, <1>3, PTL DEF Spec

-----------------------------------------------------------------------------
(***************************************************************************)
(* Trajectories: what a case that passes shows.                            *)
(***************************************************************************)

\* The set of what a function gives for a finite set is finite.
LEMMA FiniteRange ==
  ASSUME NEW S, IsFiniteSet(S), NEW f, DOMAIN f = S
  PROVE  IsFiniteSet({f[x] : x \in S})
<1> DEFINE T == {f[x] : x \in S}
           g == [x \in S |-> f[x]]
<1>1. g \in Surjection(S, T)
  BY DEF Surjection
<1>2. QED
  BY <1>1, FS_Surjection

\* Without a fingerprint that occurs twice no call repeats an earlier one.
LEMMA NoneCountedTwice ==
  ASSUME NEW s, s.calls \in Seq(ToolCall), DuplicateCount(s) <= 0
  PROVE  Repeats(s) = {}
<1> DEFINE hashed == {i \in DOMAIN s.calls : s.calls[i].args # None}
           Key(i) == <<s.calls[i].task, s.calls[i].tool, s.calls[i].mode, s.calls[i].args>>
           Occurrences(key) == Cardinality({i \in hashed : Key(i) = key})
           keys == {Key(i) : i \in hashed}
           v == [key \in keys |-> Occurrences(key) - 1]
           sum == CHOOSE it : it = [t \in SUBSET keys |->
                    IF t = {} THEN 0 ELSE (Occurrences(Picked(t)) - 1) + it[t \ {Picked(t)}]]
<1>1. IsFiniteSet(hashed) /\ Cardinality(hashed) \in Nat
  <2> DEFINE n == Len(s.calls)
  <2>1. n \in Nat /\ DOMAIN s.calls = 1..n
    BY LenProperties
  <2> HIDE DEF n
  <2>2. IsFiniteSet(1..n)
    BY <2>1, FS_Interval
  <2>3. hashed \in SUBSET (1..n)
    BY <2>1
  <2> HIDE DEF hashed
  <2>4. QED
    BY <2>2, <2>3, FS_Subset, FS_CardinalityType
<1>2. IsFiniteSet(keys)
  <2> DEFINE f == [i \in hashed |-> Key(i)]
  <2>1. DOMAIN f = hashed /\ keys = {f[i] : i \in hashed}
    OBVIOUS
  <2> HIDE DEF f, hashed, keys
  <2>2. QED
    BY <1>1, <2>1, FiniteRange
<1>3. ASSUME NEW key \in keys PROVE Occurrences(key) \in 1..Cardinality(hashed)
  <2> DEFINE those == {i \in hashed : Key(i) = key}
  <2>1. those \in SUBSET hashed /\ those # {}
    OBVIOUS
  <2>2. Occurrences(key) = Cardinality(those)
    OBVIOUS
  <2> HIDE DEF hashed, those, Occurrences
  <2>3. IsFiniteSet(those) /\ Cardinality(those) <= Cardinality(hashed)
    BY <1>1, <2>1, FS_Subset
  <2>4. Cardinality(those) \in Nat /\ Cardinality(those) # 0
    BY <2>1, <2>3, FS_CardinalityType, FS_EmptySet
  <2>5. QED
    BY <1>1, <2>2, <2>3, <2>4
<1>4. \A t \in SUBSET keys : t # {} => v[Picked(t)] = Occurrences(Picked(t)) - 1
  <2>1. \A t \in SUBSET keys : t # {} => Picked(t) \in keys
    BY DEF Picked
  <2>2. \A key \in keys : v[key] = Occurrences(key) - 1
    OBVIOUS
  <2> HIDE DEF hashed, keys, Occurrences, v
  <2>3. QED
    BY <2>1, <2>2
<1>5. PICK it : Adds(it, keys, v)
  <2> HIDE DEF hashed, keys, Occurrences, v
  <2>1. QED
    BY <1>2, SumExists
<1>6. it = [t \in SUBSET keys |->
              IF t = {} THEN 0 ELSE (Occurrences(Picked(t)) - 1) + it[t \ {Picked(t)}]]
  <2> HIDE DEF hashed, keys, Occurrences, v
  <2>1. QED
    BY <1>4, <1>5 DEF Adds
<1>7. sum = [t \in SUBSET keys |->
               IF t = {} THEN 0 ELSE (Occurrences(Picked(t)) - 1) + sum[t \ {Picked(t)}]]
  <2> HIDE DEF hashed, keys, Occurrences, v
  <2>1. QED
    BY <1>6, Zenon
<1>8. Adds(sum, keys, v)
  <2> HIDE DEF hashed, keys, Occurrences, v, sum
  <2>1. QED
    BY <1>4, <1>7 DEF Adds
<1>9. DuplicateCount(s) = sum[keys]
  BY DEF DuplicateCount, MapThenSumSet, MapThenFoldSet, Picked
<1>10. \A key \in keys : v[key] = Occurrences(key) - 1
  OBVIOUS
<1>11. \A key \in keys : Occurrences(key) = 1
  <2> HIDE DEF hashed, keys, Occurrences, v, sum
  <2>1. \A key \in keys : v[key] \in 0..Cardinality(hashed)
    BY <1>1, <1>3, <1>10
  <2>2. sum[keys] \in Nat /\ (sum[keys] = 0 => \A key \in keys : v[key] = 0)
    BY <1>1, <1>2, <1>8, <2>1, SumIsBounded
  <2>3. \A key \in keys : v[key] = 0
    BY <1>9, <2>2
  <2>4. QED
    BY <1>1, <1>3, <1>10, <2>3
<1>12. ASSUME NEW i \in hashed, NEW j \in hashed, Key(i) = Key(j) PROVE i = j
  <2> DEFINE those == {k \in hashed : Key(k) = Key(i)}
  <2>1. Key(i) \in keys /\ i \in those /\ j \in those
    BY <1>12
  <2>2. those \in SUBSET hashed /\ Cardinality(those) = 1
    BY <1>11, <2>1
  <2> HIDE DEF hashed, those, Key
  <2>3. IsFiniteSet(those)
    BY <1>1, <2>2, FS_Subset
  <2>4. PICK x : those = {x}
    BY <2>2, <2>3, FS_Singleton
  <2>5. QED
    BY <2>1, <2>4
<1>13. ASSUME NEW i \in DOMAIN s.calls, NEW j \in DOMAIN s.calls, j < i,
              s.calls[i].args # None, SameRequest(s.calls[i], s.calls[j])
       PROVE  FALSE
  <2>1. i \in hashed /\ j \in hashed /\ Key(i) = Key(j)
    BY <1>13 DEF SameRequest
  <2>2. i = j
    BY <1>12, <2>1
  <2>3. i \in Int
    BY LenProperties
  <2>4. QED
    BY <1>13, <2>2, <2>3
<1>14. QED
  BY <1>13 DEF Repeats

\* The names met, each taken at its first chance, are found in their order.
LEMMA MetNamesEmbed ==
  ASSUME NEW A, NEW expected \in Seq(A), NEW B, NEW names \in Seq(B),
         OrderedSubset(expected, names)
  PROVE  Embeds(expected, names)
<1> DEFINE N == Len(names)
           E == Len(expected)
           Met(g, k) == IF k = 0 THEN 0
                         ELSE IF g[k - 1] < E /\ names[k] = expected[g[k - 1] + 1]
                              THEN g[k - 1] + 1 ELSE g[k - 1]
           met == CHOOSE g : g = [k \in 0..N |->
                    IF k = 0 THEN 0
                    ELSE IF g[k - 1] < E /\ names[k] = expected[g[k - 1] + 1]
                         THEN g[k - 1] + 1 ELSE g[k - 1]]
           P == {n \in Nat : \E g : g = [k \in 0..n |-> Met(g, k)]}
<1>1. N \in Nat /\ E \in Nat /\ DOMAIN names = 1..N /\ DOMAIN expected = 1..E
  BY LenProperties
<1>2. met[N] = E
  BY DEF OrderedSubset
<1> HIDE DEF N, E
<1>3. N \in P
  <2>1. 0 \in P
    <3> DEFINE g == [k \in 0..0 |-> 0]
    <3>1. g = [k \in 0..0 |-> Met(g, k)]
      OBVIOUS
    <3> HIDE DEF g
    <3>2. QED
      BY <3>1
  <2>2. ASSUME NEW n \in Nat, n \in P PROVE n + 1 \in P
    <3>1. PICK g : g = [k \in 0..n |-> Met(g, k)]
      BY <2>2
    <3> DEFINE h == [k \in 0..(n + 1) |-> IF k <= n THEN g[k] ELSE Met(g, n + 1)]
    <3>2. \A k \in 0..n : h[k] = g[k] /\ g[k] = Met(g, k)
      <4>1. \A k \in 0..n : h[k] = g[k]
        OBVIOUS
      <4>2. \A k \in 0..n : g[k] = Met(g, k)
        <5> HIDE DEF Met, h
        <5>1. QED
          BY <3>1
      <4>3. QED
        BY <4>1, <4>2
    <3>3. h[n + 1] = Met(g, n + 1)
      OBVIOUS
    <3>4. DOMAIN h = 0..(n + 1) /\ h = [k \in 0..(n + 1) |-> h[k]]
      OBVIOUS
    <3> HIDE DEF h
    <3>5. \A k \in 0..(n + 1) : h[k] = Met(h, k)
      <4> SUFFICES ASSUME NEW k \in 0..(n + 1) PROVE h[k] = Met(h, k)
        OBVIOUS
      <4>1. k = 0 \/ (k \in 1..n /\ k - 1 \in 0..n) \/ (k = n + 1 /\ k - 1 = n /\ n \in 0..n)
        OBVIOUS
      <4>2. CASE k = 0
        BY <3>2, <4>2
      <4>3. CASE k \in 1..n /\ k - 1 \in 0..n
        <5>1. h[k] = Met(g, k) /\ h[k - 1] = g[k - 1]
          BY <3>2, <4>3
        <5>2. QED
          BY <5>1
      <4>4. CASE k = n + 1 /\ k - 1 = n /\ n \in 0..n
        <5>1. h[k] = Met(g, k) /\ h[k - 1] = g[k - 1]
          BY <3>2, <3>3, <4>4
        <5>2. QED
          BY <5>1
      <4>5. QED
        BY <4>1, <4>2, <4>3, <4>4
    <3>6. h = [k \in 0..(n + 1) |-> Met(h, k)]
      <4> HIDE DEF Met
      <4>1. QED
        BY <3>4, <3>5
    <3>7. QED
      BY <3>6
  <2> HIDE DEF P
  <2>3. Nat \subseteq P
    BY <2>1, <2>2, CountUp
  <2>4. QED
    BY <1>1, <2>3
<1>4. met = [k \in 0..N |->
               IF k = 0 THEN 0
               ELSE IF met[k - 1] < E /\ names[k] = expected[met[k - 1] + 1]
                    THEN met[k - 1] + 1 ELSE met[k - 1]]
  <2>1. \E g : g = [k \in 0..N |->
                     IF k = 0 THEN 0
                     ELSE IF g[k - 1] < E /\ names[k] = expected[g[k - 1] + 1]
                          THEN g[k - 1] + 1 ELSE g[k - 1]]
    BY <1>3
  <2>2. QED
    BY <2>1, Zenon
<1> HIDE DEF met, P
<1> DEFINE Shows(f, m, k) ==
             /\ \A i \in 1..m : f[i] \in 1..k /\ names[f[i]] = expected[i]
             /\ \A i, j \in 1..m : i < j => f[i] < f[j]
           Q == {k \in Nat : k <= N => met[k] \in 0..E /\ \E f : Shows(f, met[k], k)}
<1>5. 0 \in Q
  <2>1. met[0] = 0
    BY <1>1, <1>4
  <2>2. \E f : Shows(f, 0, 0)
    OBVIOUS
  <2>3. QED
    BY <1>1, <2>1, <2>2
<1>6. ASSUME NEW n \in Nat, n \in Q PROVE n + 1 \in Q
  <2> HIDE DEF Shows
  <2> SUFFICES ASSUME n + 1 <= N
               PROVE  met[n + 1] \in 0..E /\ \E f : Shows(f, met[n + 1], n + 1)
    <3>1. n + 1 \in Nat
      OBVIOUS
    <3>2. QED
      BY <3>1
  <2> USE DEF Shows
  <2>1. met[n] \in 0..E /\ \E f : Shows(f, met[n], n)
    BY <1>1, <1>6
  <2>2. PICK f : Shows(f, met[n], n)
    BY <2>1
  <2> DEFINE m == met[n]
  <2>3. met[n + 1] = IF m < E /\ names[n + 1] = expected[m + 1] THEN m + 1 ELSE m
    BY <1>1, <1>4
  <2>4. m \in Nat /\ m <= E
    BY <1>1, <2>1
  <2>5. /\ \A i \in 1..m : f[i] \in 1..n /\ names[f[i]] = expected[i]
        /\ \A i, j \in 1..m : i < j => f[i] < f[j]
    BY <2>2
  <2> HIDE DEF m
  <2>6. CASE m < E /\ names[n + 1] = expected[m + 1]
    <3> DEFINE h == [i \in 1..(m + 1) |-> IF i <= m THEN f[i] ELSE n + 1]
    <3>1. \A i \in 1..m : h[i] = f[i]
      BY <2>4
    <3>2. h[m + 1] = n + 1
      BY <2>4
    <3> HIDE DEF h
    <3>3. ASSUME NEW i \in 1..(m + 1)
          PROVE  h[i] \in 1..(n + 1) /\ names[h[i]] = expected[i]
      <4>1. CASE i \in 1..m
        BY <2>5, <3>1, <4>1
      <4>2. CASE i = m + 1
        BY <2>6, <3>2, <4>2
      <4>3. QED
        BY <2>4, <4>1, <4>2
    <3>4. ASSUME NEW i \in 1..(m + 1), NEW j \in 1..(m + 1), i < j PROVE h[i] < h[j]
      <4>1. i \in 1..m
        BY <2>4, <3>4
      <4>2. h[i] = f[i] /\ f[i] \in 1..n
        BY <2>5, <3>1, <4>1
      <4>3. CASE j \in 1..m
        BY <2>5, <3>1, <3>4, <4>1, <4>2, <4>3
      <4>4. CASE j = m + 1
        BY <3>2, <4>2, <4>4
      <4>5. QED
        BY <2>4, <4>3, <4>4
    <3>5. met[n + 1] = m + 1 /\ m + 1 \in 0..E
      BY <1>1, <2>3, <2>4, <2>6
    <3>6. Shows(h, m + 1, n + 1)
      BY <3>3, <3>4
    <3> HIDE DEF Shows
    <3>7. QED
      BY <3>5, <3>6
  <2>7. CASE ~ (m < E /\ names[n + 1] = expected[m + 1])
    <3>1. met[n + 1] = m /\ m \in 0..E
      BY <1>1, <2>3, <2>4, <2>7
    <3>2. Shows(f, m, n + 1)
      BY <2>5
    <3> HIDE DEF Shows
    <3>3. QED
      BY <3>1, <3>2
  <2>8. QED
    BY <2>6, <2>7
<1>7. PICK f : Shows(f, E, N)
  <2> HIDE DEF Q
  <2>1. N \in Q
    BY <1>1, <1>5, <1>6, CountUp
  <2>2. \E f : Shows(f, met[N], N)
    BY <1>1, <2>1 DEF Q
  <2>3. QED
    BY <1>2, <2>2 DEF met
<1> DEFINE g == [i \in 1..E |-> f[i]]
<1>8. g \in [1..E -> 1..N]
  BY <1>7
<1>9. /\ \A i, j \in 1..E : i < j => g[i] < g[j]
      /\ \A i \in 1..E : names[g[i]] = expected[i]
  BY <1>7
<1> HIDE DEF g
<1>10. QED
  BY <1>1, <1>8, <1>9 DEF Embeds

\* What TrajectoriesAreSound says of one case.
IsSound(e, s) ==
  /\ e.max_duplicates = 0 => SnapshotRules(s).duplicate_tool_calls_absent = "pass"
  /\ e.max_unrecovered = 0 => SnapshotRules(s).tool_failures_recovered # "fail"
  /\ e.ordered => Embeds(e.tools, Names(s))
  /\ e.failed[1] > 0 => \E c \in DOMAIN s.calls : Failed(s.calls[c])
  /\ e.domains # {} => \E p \in DOMAIN s.evidence : s.evidence[p].domain \in e.domains

\* A case as it is bound: domains that are accepted are asked for.
BoundCase(c) ==
  /\ c.expectation.tools \in Seq(STRING)
  /\ c.expectation.failed \in Nat \X Nat
  /\ c.expectation.min_domain \in Nat
  /\ c.expectation.domains # {} => c.expectation.min_domain > 0
  /\ c.snapshot.calls \in Seq(ToolCall)
  /\ c.snapshot.evidence \in Seq(EvidenceItem)

\* The places of a sequence, and those of its places that are chosen, are finite.
LEMMA PlacesFinite ==
  ASSUME NEW A, NEW q \in Seq(A), NEW T, T \subseteq DOMAIN q
  PROVE  IsFiniteSet(T) /\ Cardinality(T) \in Nat /\ (Cardinality(T) = 0 <=> T = {})
<1> DEFINE n == Len(q)
<1>1. n \in Nat /\ DOMAIN q = 1..n
  BY LenProperties
<1> HIDE DEF n
<1>2. IsFiniteSet(1..n)
  BY <1>1, FS_Interval
<1>3. IsFiniteSet(T)
  BY <1>1, <1>2, FS_Subset
<1>4. QED
  BY <1>3, FS_CardinalityType, FS_EmptySet

LEMMA NamesAreListed ==
  ASSUME NEW s, s.calls \in Seq(ToolCall)
  PROVE  \E B : Names(s) \in Seq(B)
<1> DEFINE n == Len(s.calls)
           names == Names(s)
           B == {names[k] : k \in 1..n}
<1>1. n \in Nat /\ DOMAIN s.calls = 1..n
  BY LenProperties
<1>2. names = [k \in 1..n |-> InOrder(s)[k].tool]
  <2>1. DOMAIN InOrder(s) = 1..n
    BY <1>1 DEF InOrder
  <2>2. QED
    BY <2>1 DEF Names
<1>3. names \in [1..n -> B]
  <2> HIDE DEF n
  <2>1. DOMAIN names = 1..n /\ names = [k \in 1..n |-> names[k]]
    BY <1>2
  <2> HIDE DEF names
  <2>2. QED
    BY <2>1
<1>4. names \in Seq(B)
  <2> HIDE DEF n, names, B
  <2>1. QED
    BY <1>1, <1>3, SeqDef
<1>5. QED
  BY <1>4

LEMMA PassingIsSound ==
  ASSUME NEW c, BoundCase(c), CasePasses(c.expectation, c.snapshot)
  PROVE  IsSound(c.expectation, c.snapshot)
<1> DEFINE e == c.expectation
           s == c.snapshot
<1>1. /\ e.tools \in Seq(STRING) /\ e.failed[1] \in Nat /\ e.failed[2] \in Nat
      /\ e.min_domain \in Nat /\ (e.domains # {} => e.min_domain > 0)
      /\ s.calls \in Seq(ToolCall) /\ s.evidence \in Seq(EvidenceItem)
  BY DEF BoundCase
<1>2. /\ e.ordered => OrderedSubset(e.tools, Names(s))
      /\ Cardinality({i \in DOMAIN s.evidence : s.evidence[i].domain \in e.domains}) >= e.min_domain
      /\ RecoverySafe(e, s)
  BY DEF CasePasses
<1>3. /\ Cardinality(FailedCalls(s)) \in e.failed[1]..e.failed[2]
      /\ Cardinality(UnrecoveredFailures(s)) <= e.max_unrecovered
      /\ DuplicateCount(s) <= e.max_duplicates
  BY <1>2 DEF RecoverySafe
<1> HIDE DEF e, s
<1>4. ASSUME e.max_duplicates = 0
      PROVE  SnapshotRules(s).duplicate_tool_calls_absent = "pass"
  <2>1. Repeats(s) = {}
    BY <1>1, <1>3, <1>4, NoneCountedTwice
  <2>2. QED
    BY <2>1 DEF SnapshotRules, Verdict
<1>5. ASSUME e.max_unrecovered = 0
      PROVE  SnapshotRules(s).tool_failures_recovered # "fail"
  <2>1. UnrecoveredFailures(s) \subseteq DOMAIN s.calls
    BY DEF UnrecoveredFailures
  <2>2. UnrecoveredFailures(s) = {}
    BY <1>1, <1>3, <1>5, <2>1, PlacesFinite
  <2>3. \A i \in FailedCalls(s) : LaterSuccess(s, s.calls[i])
    <3> SUFFICES ASSUME NEW i \in FailedCalls(s) PROVE LaterSuccess(s, s.calls[i])
      OBVIOUS
    <3>1. i \in DOMAIN s.calls /\ s.calls[i].status \in {"failed", "cancelled", "denied"}
      BY DEF FailedCalls, Failed
    <3>2. \E j \in DOMAIN s.calls :
            /\ s.calls[j].status = "completed" /\ s.calls[j].task = s.calls[i].task
            /\ s.calls[j].at > s.calls[i].at
      BY <2>2, <3>1 DEF UnrecoveredFailures
    <3>3. QED
      BY <3>2 DEF LaterSuccess, CompletedFor
  <2>4. \A i \in FailedCalls(s) : Recovered(s, s.calls[i])
    BY <2>3 DEF Recovered
  <2>5. SnapshotRules(s).tool_failures_recovered =
          VerdictIf(FailedCalls(s) # {}, \A i \in FailedCalls(s) : Recovered(s, s.calls[i]))
    BY Zenon DEF SnapshotRules
  <2>6. VerdictIf(FailedCalls(s) # {}, \A i \in FailedCalls(s) : Recovered(s, s.calls[i])) # "fail"
    BY <2>4 DEF VerdictIf, Verdict
  <2>7. QED
    BY <2>5, <2>6
<1>6. ASSUME e.ordered PROVE Embeds(e.tools, Names(s))
  <2>1. PICK B : Names(s) \in Seq(B)
    BY <1>1, NamesAreListed
  <2>2. QED
    BY <1>1, <1>2, <1>6, <2>1, MetNamesEmbed
<1>7. ASSUME e.failed[1] > 0 PROVE \E i \in DOMAIN s.calls : Failed(s.calls[i])
  <2>1. FailedCalls(s) \subseteq DOMAIN s.calls
    BY DEF FailedCalls
  <2>2. Cardinality(FailedCalls(s)) # 0
    BY <1>1, <1>3, <1>7
  <2>3. FailedCalls(s) # {}
    BY <1>1, <2>1, <2>2, PlacesFinite
  <2>4. QED
    BY <2>3 DEF FailedCalls
<1>8. ASSUME e.domains # {}
      PROVE  \E i \in DOMAIN s.evidence : s.evidence[i].domain \in e.domains
  <2> DEFINE cited == {i \in DOMAIN s.evidence : s.evidence[i].domain \in e.domains}
  <2>1. cited \subseteq DOMAIN s.evidence
    OBVIOUS
  <2>2. Cardinality(cited) \in Nat /\ (Cardinality(cited) = 0 <=> cited = {})
    <3> HIDE DEF cited
    <3>1. QED
      BY <1>1, <2>1, PlacesFinite
  <2>3. cited # {}
    <3> HIDE DEF cited
    <3>1. Cardinality(cited) >= e.min_domain
      BY <1>2 DEF cited
    <3>2. QED
      BY <1>1, <1>8, <2>2, <3>1
  <2>4. QED
    BY <2>3
<1>9. QED
  BY <1>4, <1>5, <1>6, <1>7, <1>8 DEF IsSound, e, s

TrajectoryShape ==
  /\ DOMAIN job = {"tool", "pc", "queue", "tasks", "cases", "eligible", "left", "passed", "result"}
  /\ job.tool = "trajectory"
  /\ job.pc \in {"build", "materialize", "score", "ended"}
  /\ job.queue \in Queues
  /\ job.pc \in {"build", "materialize"} => job.passed = {} /\ ~job.eligible
  /\ job.pc = "score" => \A i \in job.left : BoundCase(job.cases[i])

\* A queue is eligible only when it was when it was bound, and it stays.
TrajectoryInv ==
  /\ TrajectoryShape
  /\ \A i \in job.passed : IsSound(job.cases[i].expectation, job.cases[i].snapshot)
  /\ job.eligible => \A i \in DOMAIN job.queue.cases : job.queue.cases[i].reviewed

LEMMA TrajectoryInitInv == TrajectoryInit => TrajectoryInv
  BY DEF TrajectoryInit, TrajectoryInv, TrajectoryShape

LEMMA TrajectoryFailsInv == ASSUME TrajectoryInv, TrajectoryFails PROVE TrajectoryInv'
<1>1. /\ DOMAIN job' = DOMAIN job /\ job'.tool = job.tool /\ job'.pc = "ended"
      /\ job'.queue = job.queue /\ job'.cases = job.cases /\ job'.passed = job.passed
      /\ job'.eligible = job.eligible
  BY DEF TrajectoryFails, TrajectoryInv, TrajectoryShape
<1>2. TrajectoryShape'
  BY <1>1 DEF TrajectoryInv, TrajectoryShape
<1>3. QED
  BY <1>1, <1>2 DEF TrajectoryInv

LEMMA BuildManifestInv == ASSUME TrajectoryInv, BuildBenchmarkManifest PROVE TrajectoryInv'
<1>1. CASE TrajectoryFails
  BY <1>1, TrajectoryFailsInv
<1>2. CASE job' = [job EXCEPT !.pc = "materialize", !.tasks = LiveSafe(job.queue)]
  <2>1. /\ DOMAIN job' = DOMAIN job /\ job'.tool = job.tool /\ job'.pc = "materialize"
        /\ job'.queue = job.queue /\ job'.cases = job.cases /\ job'.passed = job.passed
        /\ job'.eligible = job.eligible
    BY <1>2 DEF TrajectoryInv, TrajectoryShape
  <2>2. job.pc = "build"
    BY DEF BuildBenchmarkManifest, Running
  <2>3. TrajectoryShape'
    BY <2>1, <2>2 DEF TrajectoryInv, TrajectoryShape
  <2>4. QED
    BY <2>1, <2>3 DEF TrajectoryInv
<1>3. QED
  BY <1>1, <1>2 DEF BuildBenchmarkManifest

LEMMA ReviewQueueInv == ASSUME TrajectoryInv, ReviewQueue PROVE TrajectoryInv'
<1>1. PICK queue \in Queues : job' = [job EXCEPT !.queue = queue]
  BY DEF ReviewQueue
<1>2. /\ DOMAIN job' = DOMAIN job /\ job'.tool = job.tool /\ job'.pc = job.pc
      /\ job'.queue = queue /\ job'.cases = job.cases /\ job'.passed = job.passed
      /\ job'.eligible = job.eligible
  BY <1>1 DEF TrajectoryInv, TrajectoryShape
<1>3. job.pc = "materialize"
  BY DEF ReviewQueue, Running
<1>4. TrajectoryShape' /\ ~job.eligible /\ job.passed = {}
  BY <1>2, <1>3 DEF TrajectoryInv, TrajectoryShape
<1>5. QED
  BY <1>2, <1>4 DEF TrajectoryInv

\* A trial of a queued task with a snapshot makes a bound case.
LEMMA BoundTrial ==
  ASSUME job.queue \in Queues, NEW report \in TrialReports, NEW i \in DOMAIN report,
         report[i].task \in CaseIds(job.queue), report[i].snapshot # None
  PROVE  BoundCase([expectation |-> BoundExpectation(report[i].task),
                    snapshot |-> report[i].snapshot])
<1> DEFINE case == CaseOf(report[i].task)
           e == BoundExpectation(report[i].task)
           accepted == IF case.domains # {} THEN case.domains ELSE case.draft.domains
<1>1. PICK k \in DOMAIN job.queue.cases : case = job.queue.cases[k]
  BY DEF CaseIds, CaseOf
<1>2. case.draft \in Expectation
  BY <1>1, DraftAssumption
<1>3. e = [case.draft EXCEPT !.domains = accepted,
                             !.min_domain = IF accepted # {} THEN 1 ELSE @]
  BY DEF BoundExpectation
<1> HIDE DEF case, e, accepted
<1>4. /\ e.tools = case.draft.tools /\ e.failed = case.draft.failed /\ e.domains = accepted
      /\ e.min_domain = IF accepted # {} THEN 1 ELSE case.draft.min_domain
  BY <1>2, <1>3 DEF Expectation
<1>5. /\ case.draft.tools \in Seq(STRING) /\ case.draft.failed \in Nat \X Nat
      /\ case.draft.min_domain \in Nat
  BY <1>2 DEF Expectation
<1>6. report[i].snapshot.calls \in Seq(ToolCall) /\ report[i].snapshot.evidence \in Seq(EvidenceItem)
  <2>1. report[i].snapshot \in RunSnapshot
    BY TrialAssumption
  <2>2. QED
    BY <2>1 DEF RunSnapshot
<1>7. QED
  BY <1>4, <1>5, <1>6 DEF BoundCase, e

LEMMA MaterializeInv == ASSUME TrajectoryInv, Materialize PROVE TrajectoryInv'
<1> DEFINE bound(report) == {i \in DOMAIN report :
                               report[i].task \in CaseIds(job.queue) /\ report[i].snapshot # None}
<1>1. PICK report \in TrialReports :
        IF bound(report) # {} /\ QueueValid(job.queue)
        THEN job' = [job EXCEPT !.pc = "score",
               !.eligible = job.queue.status = "human-approved",
               !.left = bound(report),
               !.cases = [i \in bound(report) |->
                            [expectation |-> BoundExpectation(report[i].task),
                             snapshot |-> report[i].snapshot]]]
        ELSE TrajectoryFails
  BY DEF Materialize
<1>2. CASE ~ (bound(report) # {} /\ QueueValid(job.queue))
  BY <1>1, <1>2, TrajectoryFailsInv
<1>3. CASE QueueValid(job.queue) /\ bound(report) # {}
  <2> DEFINE cases == [i \in bound(report) |->
                         [expectation |-> BoundExpectation(report[i].task),
                          snapshot |-> report[i].snapshot]]
             approved == job.queue.status = "human-approved"
  <2>1. job' = [job EXCEPT !.pc = "score", !.eligible = approved,
                           !.left = bound(report), !.cases = cases]
    BY <1>1, <1>3
  <2>2. ASSUME NEW i \in bound(report) PROVE BoundCase(cases[i])
    <3>1. job.queue \in Queues
      BY DEF TrajectoryInv, TrajectoryShape
    <3>2. BoundCase([expectation |-> BoundExpectation(report[i].task),
                     snapshot |-> report[i].snapshot])
      BY <3>1, BoundTrial
    <3>3. QED
      BY <3>2
  <2>3. approved => \A i \in DOMAIN job.queue.cases : job.queue.cases[i].reviewed
    <3>1. approved => {i \in DOMAIN job.queue.cases : job.queue.cases[i].reviewed}
                        = DOMAIN job.queue.cases
      BY <1>3 DEF QueueValid
    <3>2. QED
      BY <3>1
  <2> HIDE DEF cases, approved, bound
  <2>4. /\ DOMAIN job' = DOMAIN job /\ job'.tool = job.tool /\ job'.pc = "score"
        /\ job'.queue = job.queue /\ job'.cases = cases /\ job'.passed = job.passed
        /\ job'.eligible = approved /\ job'.left = bound(report)
    BY <2>1 DEF TrajectoryInv, TrajectoryShape
  <2>5. job.passed = {}
    BY DEF TrajectoryInv, TrajectoryShape, Materialize, Running
  <2>6. TrajectoryShape'
    BY <2>2, <2>4 DEF TrajectoryInv, TrajectoryShape
  <2>7. QED
    BY <2>3, <2>4, <2>5, <2>6 DEF TrajectoryInv
<1>4. QED
  BY <1>2, <1>3

LEMMA ScoreCaseInv == ASSUME TrajectoryInv, ScoreCase PROVE TrajectoryInv'
<1>1. PICK i \in job.left :
        job' = [job EXCEPT !.left = @ \ {i},
                 !.passed = IF CasePasses(job.cases[i].expectation, job.cases[i].snapshot)
                            THEN @ \cup {i} ELSE @]
  BY DEF ScoreCase
<1>2. /\ DOMAIN job' = DOMAIN job /\ job'.tool = job.tool /\ job'.pc = job.pc
      /\ job'.queue = job.queue /\ job'.cases = job.cases /\ job'.left = job.left \ {i}
      /\ job'.eligible = job.eligible
      /\ job'.passed = IF CasePasses(job.cases[i].expectation, job.cases[i].snapshot)
                       THEN job.passed \cup {i} ELSE job.passed
  BY <1>1 DEF TrajectoryInv, TrajectoryShape
<1>3. job.pc = "score" /\ BoundCase(job.cases[i])
  BY DEF TrajectoryInv, TrajectoryShape, ScoreCase, Running
<1>4. CasePasses(job.cases[i].expectation, job.cases[i].snapshot)
        => IsSound(job.cases[i].expectation, job.cases[i].snapshot)
  BY <1>3, PassingIsSound
<1>5. TrajectoryShape'
  BY <1>2, <1>3 DEF TrajectoryInv, TrajectoryShape
<1>6. \A j \in job'.passed : IsSound(job'.cases[j].expectation, job'.cases[j].snapshot)
  BY <1>2, <1>4 DEF TrajectoryInv
<1>7. QED
  BY <1>2, <1>5, <1>6 DEF TrajectoryInv

LEMMA ReportTrajectoriesInv == ASSUME TrajectoryInv, ReportTrajectories PROVE TrajectoryInv'
<1>1. /\ DOMAIN job' = DOMAIN job /\ job'.tool = job.tool /\ job'.pc = "ended"
      /\ job'.queue = job.queue /\ job'.cases = job.cases /\ job'.passed = job.passed
      /\ job'.eligible = job.eligible
  BY DEF ReportTrajectories, TrajectoryInv, TrajectoryShape
<1>2. TrajectoryShape'
  BY <1>1 DEF TrajectoryInv, TrajectoryShape
<1>3. QED
  BY <1>1, <1>2 DEF TrajectoryInv

LEMMA TrajectoryNextInv ==
  ASSUME TrajectoryInv, TrajectorySteps \/ ReviewQueue PROVE TrajectoryInv'
<1>1. CASE SnapshotUnreadable \/ OutputRefused
  BY <1>1, TrajectoryFailsInv DEF SnapshotUnreadable, OutputRefused
<1>2. QED
  BY <1>1, BuildManifestInv, ReviewQueueInv, MaterializeInv, ScoreCaseInv, ReportTrajectoriesInv
     DEF TrajectorySteps

LEMMA TrajectoryInvIsEnough == TrajectoryInv => TrajectoriesAreSound
<1> SUFFICES ASSUME TrajectoryInv PROVE TrajectoriesAreSound
  OBVIOUS
<1>1. \A i \in job.passed :
        LET e == job.cases[i].expectation
            s == job.cases[i].snapshot
            rules == SnapshotRules(s)
        IN  /\ e.max_duplicates = 0 => rules.duplicate_tool_calls_absent = "pass"
            /\ e.max_unrecovered = 0 => rules.tool_failures_recovered # "fail"
            /\ e.ordered => Embeds(e.tools, Names(s))
            /\ e.failed[1] > 0 => \E c \in DOMAIN s.calls : Failed(s.calls[c])
            /\ e.domains # {} => \E p \in DOMAIN s.evidence : s.evidence[p].domain \in e.domains
  BY DEF TrajectoryInv, IsSound
<1>2. job.eligible => \A i \in DOMAIN job.queue.cases : job.queue.cases[i].reviewed
  BY DEF TrajectoryInv
<1>3. QED
  BY <1>1, <1>2 DEF TrajectoriesAreSound

\* Whatever the queue, the trials and the reviewers do: a case that passes shows
\* what it was to show, and keeps the evaluator's rules where it tolerates no
\* exception (tool_trajectory.py, annotation_workflow.py).
THEOREM PassingTrajectoriesAreSound == Spec => []TrajectoriesAreSound
<1> DEFINE Inv == HasTool /\ (job.tool = "trajectory" => TrajectoryInv)
<1>1. Init => Inv
  BY StartsWithTool, TrajectoryInitInv DEF OwnInit
<1>2. Inv /\ [Next]_job => Inv'
  <2> SUFFICES ASSUME Inv, [Next]_job PROVE Inv'
    OBVIOUS
  <2>1. SameTool /\ OwnStep
    BY OneTool
  <2>2. CASE job.tool = "trajectory" /\ (TrajectorySteps \/ ReviewQueue)
    BY <2>1, <2>2, TrajectoryNextInv DEF SameTool
  <2>3. CASE UNCHANGED job
    BY <2>1, <2>3 DEF SameTool, TrajectoryInv, TrajectoryShape
  <2>4. CASE job.tool # "trajectory"
    BY <2>1, <2>4 DEF SameTool
  <2>5. QED
    BY <2>1, <2>2, <2>3, <2>4 DEF OwnStep
<1>3. Inv => TrajectoriesAreSound
  BY TrajectoryInvIsEnough DEF TrajectoriesAreSound, EndedWith, Running
<1>4. QED
  BY <1>1, <1>2, <1>3, PTL DEF Spec

-----------------------------------------------------------------------------
(***************************************************************************)
(* The k-th of some places.                                                *)
(***************************************************************************)

\* How many of the places come before one.
Rank(places, i) == Cardinality({j \in places : j < i})

LEMMA RanksAreCounts ==
  ASSUME NEW S \in SUBSET Nat, IsFiniteSet(S), NEW i
  PROVE  /\ IsFiniteSet({j \in S : j < i})
         /\ Rank(S, i) \in Nat
<1>1. {j \in S : j < i} \in SUBSET S
  OBVIOUS
<1>2. QED
  BY <1>1, FS_Subset, FS_CardinalityType DEF Rank

\* There is a place of every rank.
LEMMA EveryRank ==
  ASSUME NEW S \in SUBSET Nat, IsFiniteSet(S), NEW k \in 1..Cardinality(S)
  PROVE  \E i \in S : Rank(S, i) = k - 1
<1> DEFINE c == Cardinality(S)
           P == {n \in Nat : n + 1 <= c => \E i \in S : Rank(S, i) = n}
<1>1. c \in Nat
  BY FS_CardinalityType
<1>2. 0 \in P
  <2> SUFFICES ASSUME 1 <= c PROVE \E i \in S : Rank(S, i) = 0
    OBVIOUS
  <2>1. S # {}
    BY <1>1, FS_EmptySet
  <2>2. PICK i \in S : \A j \in S : i <= j
    BY <2>1, LeastNatural
  <2>3. {j \in S : j < i} = {}
    <3>1. \A j \in S : i \in Nat /\ j \in Nat /\ i <= j
      BY <2>2
    <3>2. \A j \in S : ~ (j < i)
      BY <3>1
    <3>3. QED
      BY <3>2
  <2>4. QED
    BY <2>3, FS_EmptySet DEF Rank
<1>3. ASSUME NEW n \in Nat, n \in P PROVE n + 1 \in P
  <2> SUFFICES ASSUME n + 2 <= c PROVE \E i \in S : Rank(S, i) = n + 1
    BY <1>1
  <2>1. PICK i \in S : Rank(S, i) = n
    BY <1>1, <1>3
  <2> DEFINE below == {j \in S : j < i}
             above == {j \in S : i < j}
  <2>2. IsFiniteSet(below) /\ Cardinality(below) = n /\ i \notin below
    BY <2>1, RanksAreCounts DEF Rank
  <2>3. Cardinality(below \cup {i}) = n + 1
    <3> HIDE DEF below
    <3>1. QED
      BY <2>2, FS_AddElement
  <2>4. above # {}
    <3>1. ASSUME above = {} PROVE FALSE
      <4>1. S = below \cup {i}
        <5>1. \A j \in S : j \in Nat /\ i \in Nat /\ ~ (i < j)
          BY <3>1
        <5>2. \A j \in S : j < i \/ j = i
          BY <5>1
        <5>3. QED
          BY <5>2
      <4>2. QED
        BY <1>1, <2>3, <4>1
    <3>2. QED
      BY <3>1
  <2>5. PICK m \in above : \A j \in above : m <= j
    BY <2>4, LeastNatural
  <2>6. {j \in S : j < m} = below \cup {i}
    <3>1. m \in Nat /\ i \in Nat /\ i < m /\ m \in S
      BY <2>5
    <3>2. \A j \in S : j \in Nat /\ (i < j => m <= j)
      BY <2>5
    <3>3. \A j \in S : j < m <=> j < i \/ j = i
      BY <3>1, <3>2
    <3>4. QED
      BY <3>3
  <2>7. QED
    BY <2>3, <2>5, <2>6 DEF Rank
<1>4. k - 1 \in P
  <2> HIDE DEF P
  <2>1. Nat \subseteq P
    BY <1>2, <1>3, CountUp
  <2>2. QED
    BY <2>1
<1>5. QED
  BY <1>1, <1>4

\* The k-th place is one of them, in their order.
LEMMA NthIs ==
  ASSUME NEW S \in SUBSET Nat, IsFiniteSet(S)
  PROVE  /\ \A k \in 1..Cardinality(S) : Nth(S, k) \in S /\ Rank(S, Nth(S, k)) = k - 1
         /\ \A k, l \in 1..Cardinality(S) : k < l => Nth(S, k) < Nth(S, l)
<1>1. ASSUME NEW k \in 1..Cardinality(S)
      PROVE  Nth(S, k) \in S /\ Rank(S, Nth(S, k)) = k - 1
  <2>1. \E i \in S : Cardinality({j \in S : j < i}) = k - 1
    BY EveryRank DEF Rank
  <2>2. QED
    BY <2>1 DEF Nth, Rank
<1>2. ASSUME NEW k \in 1..Cardinality(S), NEW l \in 1..Cardinality(S), k < l
      PROVE  Nth(S, k) < Nth(S, l)
  <2> DEFINE a == Nth(S, k)
             b == Nth(S, l)
  <2>1. a \in S /\ b \in S /\ Rank(S, a) = k - 1 /\ Rank(S, b) = l - 1
    BY <1>1
  <2> HIDE DEF a, b
  <2>2. ASSUME b <= a PROVE FALSE
    <3>1. {j \in S : j < b} \subseteq {j \in S : j < a}
      <4>1. \A j \in S : j \in Nat /\ a \in Nat /\ b \in Nat
        BY <2>1
      <4>2. \A j \in S : j < b => j < a
        BY <2>2, <4>1
      <4>3. QED
        BY <4>2
    <3>2. Rank(S, b) <= Rank(S, a)
      BY <3>1, RanksAreCounts, FS_Subset DEF Rank
    <3>3. QED
      BY <1>2, <2>1, <3>2
  <2>3. a < b
    BY <2>1, <2>2
  <2>4. QED
    BY <2>3 DEF a, b
<1>3. QED
  BY <1>1, <1>2

\* Each place is the k-th for one k.
LEMMA EveryPlaceIsNth ==
  ASSUME NEW S \in SUBSET Nat, IsFiniteSet(S), NEW i \in S
  PROVE  \E k \in 1..Cardinality(S) : Nth(S, k) = i
<1> DEFINE k == Rank(S, i) + 1
           below == {j \in S : j < i}
<1>1. IsFiniteSet(below) /\ Cardinality(below) \in Nat /\ i \notin below /\ below \cup {i} \subseteq S
  BY RanksAreCounts DEF Rank
<1>2. Cardinality(below \cup {i}) = k /\ Cardinality(S) \in Nat /\ Cardinality(below \cup {i}) <= Cardinality(S)
  <2> HIDE DEF below
  <2>1. Cardinality(below \cup {i}) = Cardinality(below) + 1
    BY <1>1, FS_AddElement
  <2>2. Cardinality(below \cup {i}) <= Cardinality(S)
    BY <1>1, FS_Subset
  <2>3. QED
    BY <2>1, <2>2, FS_CardinalityType DEF Rank, below
<1>3. k \in 1..Cardinality(S)
  BY <1>1, <1>2 DEF Rank
<1>4. Nth(S, k) \in S /\ Rank(S, Nth(S, k)) = Rank(S, i)
  <2>1. Rank(S, i) \in Nat
    BY RanksAreCounts
  <2>2. Nth(S, k) \in S /\ Rank(S, Nth(S, k)) = k - 1
    BY <1>3, NthIs
  <2>3. QED
    BY <2>1, <2>2
<1> HIDE DEF k
<1>5. ASSUME NEW a \in S, NEW b \in S, a < b PROVE Rank(S, a) # Rank(S, b)
  <2> DEFINE below_a == {j \in S : j < a}
             below_b == {j \in S : j < b}
  <2>1. IsFiniteSet(below_a) /\ IsFiniteSet(below_b) /\ Cardinality(below_a) \in Nat
    BY RanksAreCounts DEF Rank
  <2>2. below_a \cup {a} \subseteq below_b /\ a \notin below_a
    <3>1. \A j \in S : j \in Nat /\ a \in Nat /\ b \in Nat
      OBVIOUS
    <3>2. \A j \in S : j < a \/ j = a => j < b
      BY <1>5, <3>1
    <3>3. ~ (a < a)
      BY <3>1
    <3>4. QED
      BY <3>2, <3>3
  <2> HIDE DEF below_a, below_b
  <2>3. Cardinality(below_a) + 1 <= Cardinality(below_b)
    <3>1. Cardinality(below_a \cup {a}) = Cardinality(below_a) + 1
      BY <2>1, <2>2, FS_AddElement
    <3>2. Cardinality(below_a \cup {a}) <= Cardinality(below_b)
      BY <2>1, <2>2, FS_Subset
    <3>3. QED
      BY <3>1, <3>2
  <2>4. QED
    BY <2>1, <2>3, FS_CardinalityType DEF Rank, below_a, below_b
<1>6. QED
  <2> DEFINE n == Nth(S, k)
  <2>1. n \in S /\ Rank(S, n) = Rank(S, i)
    BY <1>4
  <2> HIDE DEF n
  <2>2. n = i \/ n < i \/ i < n
    BY <2>1
  <2>3. n = i
    BY <1>5, <2>1, <2>2
  <2>4. QED
    BY <1>3, <2>3 DEF n

-----------------------------------------------------------------------------
(***************************************************************************)
(* The challenge set of the regression loop.                               *)
(***************************************************************************)

\* No task is in a selection twice.
NoneTwice(selected) == \A i, j \in DOMAIN selected : selected[i] = selected[j] => i = j

Covers(signature, selected) == \E i \in Cluster(signature) : Trials[i].task \in ToSet(selected)

\* What holds from the first cluster on.
SelectionHolds ==
  /\ \E S : job.selected \in Seq(S)
  /\ NoneTwice(job.selected)
  /\ Len(job.selected) <= ChallengePolicy.max_tasks
  /\ \A s \in Signatures \ job.left : Covers(s, job.selected)
  /\ \A s \in job.left, taken \in Signatures \ job.left : SafetyTrials(s) <= SafetyTrials(taken)

ChallengeShape ==
  /\ DOMAIN job = {"tool", "pc", "policy", "baseline", "left", "selected", "files",
                   "candidate", "result"}
  /\ job.tool = "regression"
  /\ job.pc \in {"cluster", "select", "manifest", "report", "compare", "ended"}
  /\ job.baseline \in BaselineReports
  /\ job.pc = "cluster" => job.selected = << >>

ChallengeInv ==
  /\ ChallengeShape
  /\ job.pc \in {"select", "manifest", "report", "compare"} => SelectionHolds
  /\ job.pc = "select" => job.left \subseteq Signatures
  /\ job.pc \in {"manifest", "report", "compare"} => Selection
  /\ job.pc = "manifest" => "report" \notin job.files
  /\ job.pc \in {"report", "compare"} => "manifest" \in job.files

LEMMA ChallengeInitInv == RegressionInit => ChallengeInv
<1> SUFFICES ASSUME RegressionInit PROVE ChallengeInv
  OBVIOUS
<1>1. PICK baseline \in BaselineReports, policy \in RegressionPolicies, old \in BOOLEAN :
        job = [tool |-> "regression", pc |-> "cluster", policy |-> policy, baseline |-> baseline,
               left |-> {}, selected |-> << >>, files |-> IF old THEN {"old report"} ELSE {},
               candidate |-> None, result |-> None]
  BY DEF RegressionInit
<1>2. /\ job.tool = "regression" /\ job.pc = "cluster" /\ job.baseline = baseline
      /\ job.selected = << >>
      /\ DOMAIN job = {"tool", "pc", "policy", "baseline", "left", "selected", "files",
                       "candidate", "result"}
  BY <1>1
<1>3. QED
  BY <1>2 DEF ChallengeInv, ChallengeShape

\* The trials of the baseline, and those of a cluster, are finitely many.
LEMMA TrialsAreListed ==
  ASSUME ChallengeShape
  PROVE  /\ Trials \in Seq(BenchmarkTrial)
         /\ DOMAIN Trials \in SUBSET Nat
         /\ IsFiniteSet(DOMAIN Trials)
<1>1. Trials \in Seq(BenchmarkTrial)
  BY ReportAssumption DEF ChallengeShape, Trials
<1> DEFINE n == Len(Trials)
<1>2. n \in Nat /\ DOMAIN Trials = 1..n
  BY <1>1, LenProperties
<1> HIDE DEF n
<1>3. IsFiniteSet(1..n) /\ 1..n \in SUBSET Nat
  BY <1>2, FS_Interval
<1>4. QED
  BY <1>1, <1>2, <1>3

LEMMA SafetyIsCounted ==
  ASSUME ChallengeShape, NEW s PROVE SafetyTrials(s) \in Nat
<1> DEFINE unsafe == {i \in Cluster(s) : Trials[i].failures \cap SafetyFailures # {}}
<1>1. unsafe \in SUBSET DOMAIN Trials
  BY DEF Cluster
<1>2. IsFiniteSet(DOMAIN Trials)
  BY TrialsAreListed
<1> HIDE DEF unsafe
<1>3. Cardinality(unsafe) \in Nat
  BY <1>1, <1>2, FS_Subset, FS_CardinalityType
<1>4. QED
  BY <1>3 DEF SafetyTrials, unsafe

\* What a cluster adds: tasks of its trials, new ones, as many as there is room
\* for, and one at least unless all of them are selected.
LEMMA ChosenAre ==
  ASSUME ChallengeShape, NEW s \in Signatures, Room, NEW S, job.selected \in Seq(S)
  PROVE  /\ \E T : Chosen(s) \in Seq(T)
         /\ Len(Chosen(s)) <= ChallengePolicy.max_tasks - Len(job.selected)
         /\ NoneTwice(Chosen(s))
         /\ \A k \in DOMAIN Chosen(s) : Chosen(s)[k] \notin ToSet(job.selected)
         /\ \/ Covers(s, job.selected)
            \/ \E i \in Cluster(s) : Trials[i].task \in ToSet(Chosen(s))
<1> DEFINE new == {i \in FirstTrials(s) : Trials[i].task \notin ToSet(job.selected)}
           c == Cardinality(new)
           n == IF c < Limit THEN c ELSE Limit
           chosen == [k \in 1..n |-> Trials[Nth(new, k)].task]
<1>1. /\ DOMAIN Trials \in SUBSET Nat /\ IsFiniteSet(DOMAIN Trials)
      /\ Cluster(s) \in SUBSET DOMAIN Trials /\ new \in SUBSET Cluster(s)
  BY TrialsAreListed DEF Cluster, FirstTrials
<1>2. new \in SUBSET Nat /\ IsFiniteSet(new) /\ c \in Nat /\ (c = 0 <=> new = {})
  <2> HIDE DEF new
  <2>1. IsFiniteSet(new)
    BY <1>1, FS_Subset
  <2>2. QED
    BY <1>1, <2>1, FS_CardinalityType, FS_EmptySet
<1>3. /\ Limit \in Nat /\ Limit > 0
      /\ Limit <= ChallengePolicy.max_tasks - Len(job.selected)
  <2>1. /\ ChallengePolicy.max_tasks \in Nat /\ ChallengePolicy.max_per_cluster \in Nat
        /\ ChallengePolicy.max_per_cluster > 0
    BY ChallengeAssumption
  <2>2. Len(job.selected) \in Nat /\ Len(job.selected) < ChallengePolicy.max_tasks
    BY LenProperties DEF Room
  <2>3. QED
    BY <2>1, <2>2 DEF Limit
<1>4. Chosen(s) = chosen
  BY DEF Chosen, TasksOf
<1>5. /\ n \in Nat /\ n <= c /\ n <= Limit
      /\ c > 0 => n > 0
  BY <1>2, <1>3
<1>6. \A k \in 1..n : Nth(new, k) \in new
  <2> HIDE DEF new, n
  <2>1. \A k \in 1..n : k \in 1..c
    BY <1>2, <1>5
  <2>2. QED
    BY <1>2, <2>1, NthIs
<1>7. \A k, l \in 1..n : k < l => Nth(new, k) < Nth(new, l)
  <2> HIDE DEF new, n
  <2>1. \A k \in 1..n : k \in 1..c
    BY <1>2, <1>5
  <2>2. QED
    BY <1>2, <2>1, NthIs
<1>8. ASSUME NEW i \in new, NEW j \in new, j < i PROVE Trials[j].task # Trials[i].task
  BY <1>8 DEF FirstTrials
<1> HIDE DEF n
<1>9. /\ \E T : chosen \in Seq(T)
      /\ Len(chosen) = n /\ DOMAIN chosen = 1..n
  <2> DEFINE T == {chosen[k] : k \in 1..n}
  <2>1. DOMAIN chosen = 1..n /\ chosen = [k \in 1..n |-> chosen[k]]
    OBVIOUS
  <2> HIDE DEF chosen
  <2>2. chosen \in [1..n -> T]
    BY <2>1
  <2>3. chosen \in Seq(T)
    BY <1>5, <2>2, SeqDef
  <2>4. Len(chosen) = n
    BY <1>5, <2>1, <2>3, LenProperties
  <2>5. QED
    BY <2>1, <2>3, <2>4
<1>10. NoneTwice(chosen)
  <2> SUFFICES ASSUME NEW k \in 1..n, NEW l \in 1..n, chosen[k] = chosen[l] PROVE k = l
    BY <1>9 DEF NoneTwice
  <2>1. chosen[k] = Trials[Nth(new, k)].task /\ chosen[l] = Trials[Nth(new, l)].task
    OBVIOUS
  <2> HIDE DEF chosen, new
  <2>2. ~ (k < l) /\ ~ (l < k)
    BY <1>6, <1>7, <1>8, <2>1
  <2>3. QED
    BY <1>5, <2>2
<1>11. \A k \in 1..n : chosen[k] \notin ToSet(job.selected)
  <2> SUFFICES ASSUME NEW k \in 1..n PROVE chosen[k] \notin ToSet(job.selected)
    OBVIOUS
  <2>1. Nth(new, k) \in new /\ chosen[k] = Trials[Nth(new, k)].task
    BY <1>6
  <2> HIDE DEF chosen
  <2> DEFINE i == Nth(new, k)
  <2>2. i \in new /\ chosen[k] = Trials[i].task
    BY <2>1
  <2> HIDE DEF i
  <2>3. QED
    BY <2>2
<1> HIDE DEF chosen
<1>a. /\ \E T : Chosen(s) \in Seq(T)
      /\ NoneTwice(Chosen(s))
      /\ \A k \in DOMAIN Chosen(s) : Chosen(s)[k] \notin ToSet(job.selected)
  BY <1>4, <1>9, <1>10, <1>11
<1>b. Len(Chosen(s)) <= ChallengePolicy.max_tasks - Len(job.selected)
  <2>1. Len(job.selected) \in Nat /\ ChallengePolicy.max_tasks \in Nat
    BY LenProperties, ChallengeAssumption
  <2>2. Len(Chosen(s)) = n
    BY <1>4, <1>9
  <2>3. QED
    BY <1>3, <1>5, <2>1, <2>2
<1>12. CASE new = {}
  <2>1. Cluster(s) # {}
    BY DEF Signatures, Cluster
  <2>2. PICK i \in Cluster(s) : \A j \in Cluster(s) : i <= j
    <3>1. Cluster(s) \subseteq Nat
      BY <1>1
    <3>2. QED
      BY <2>1, <3>1, LeastNatural
  <2>3. \A j \in Cluster(s) : ~ (j < i)
    <3>1. \A j \in Cluster(s) : j \in Nat /\ i \in Nat /\ i <= j
      BY <1>1, <2>2
    <3>2. QED
      BY <3>1
  <2>4. i \in FirstTrials(s)
    BY <2>3 DEF FirstTrials
  <2>5. Covers(s, job.selected)
    BY <1>12, <2>4 DEF Covers
  <2>6. QED
    BY <1>a, <1>b, <2>5
<1>13. CASE new # {}
  <2>1. 1 \in 1..n
    BY <1>2, <1>5, <1>13
  <2> DEFINE i == Nth(new, 1)
  <2>2. i \in new /\ chosen[1] = Trials[i].task
    BY <1>6, <2>1 DEF chosen
  <2> HIDE DEF i
  <2>3. i \in Cluster(s)
    BY <1>1, <2>2
  <2> HIDE DEF chosen, new
  <2>4. Trials[i].task \in ToSet(chosen)
    BY <1>9, <2>1, <2>2 DEF ToSet
  <2>5. QED
    BY <1>4, <1>a, <1>b, <2>3, <2>4
<1>14. QED
  BY <1>12, <1>13

\* Two selections without a task in common, one after the other.
LEMMA JoinSelections ==
  ASSUME NEW S, NEW a \in Seq(S), NEW T, NEW b \in Seq(T), NoneTwice(a), NoneTwice(b),
         \A k \in DOMAIN b : b[k] \notin ToSet(a)
  PROVE  /\ \E U : a \o b \in Seq(U)
         /\ Len(a \o b) = Len(a) + Len(b)
         /\ ToSet(a \o b) = ToSet(a) \cup ToSet(b)
         /\ NoneTwice(a \o b)
<1> DEFINE U == S \cup T
           n == Len(a)
           m == Len(b)
           c == a \o b
<1>1. a \in Seq(U) /\ b \in Seq(U)
  OBVIOUS
<1>2. n \in Nat /\ m \in Nat /\ DOMAIN a = 1..n /\ DOMAIN b = 1..m
  BY LenProperties
<1> HIDE DEF U
<1>3. /\ c \in Seq(U) /\ Len(c) = n + m
      /\ \A i \in 1..(n + m) : c[i] = IF i <= n THEN a[i] ELSE b[i - n]
  BY <1>1, ConcatProperties
<1>4. DOMAIN c = 1..(n + m)
  BY <1>3, LenProperties
<1> HIDE DEF n, m, c
<1>5. /\ \A i \in 1..n : i \in 1..(n + m) /\ c[i] = a[i]
      /\ \A k \in 1..m : n + k \in 1..(n + m) /\ c[n + k] = b[k]
  <2>1. ASSUME NEW i \in 1..n PROVE i \in 1..(n + m) /\ c[i] = a[i]
    BY <1>2, <1>3
  <2>2. ASSUME NEW k \in 1..m PROVE n + k \in 1..(n + m) /\ c[n + k] = b[k]
    <3>1. n + k \in 1..(n + m) /\ ~ (n + k <= n) /\ (n + k) - n = k
      BY <1>2
    <3>2. QED
      BY <1>3, <3>1
  <2>3. QED
    BY <2>1, <2>2
<1>6. \A i \in 1..(n + m) : i \in 1..n \/ (i - n \in 1..m /\ n + (i - n) = i)
  BY <1>2
<1>7. ToSet(c) = ToSet(a) \cup ToSet(b)
  <2>1. ASSUME NEW x \in ToSet(c) PROVE x \in ToSet(a) \cup ToSet(b)
    <3>1. PICK i \in 1..(n + m) : x = c[i]
      BY <1>4 DEF ToSet
    <3>2. CASE i \in 1..n
      BY <1>2, <1>5, <3>1, <3>2 DEF ToSet
    <3>3. CASE i - n \in 1..m /\ n + (i - n) = i
      <4>1. c[i] = b[i - n]
        BY <1>5, <3>3
      <4>2. QED
        BY <1>2, <3>1, <3>3, <4>1 DEF ToSet
    <3>4. QED
      BY <1>6, <3>2, <3>3
  <2>2. ASSUME NEW x \in ToSet(a) PROVE x \in ToSet(c)
    BY <1>2, <1>4, <1>5 DEF ToSet
  <2>3. ASSUME NEW x \in ToSet(b) PROVE x \in ToSet(c)
    <3>1. PICK k \in 1..m : x = b[k]
      BY <1>2 DEF ToSet
    <3>2. QED
      BY <1>4, <1>5, <3>1 DEF ToSet
  <2>4. QED
    BY <2>1, <2>2, <2>3
<1>8. NoneTwice(c)
  <2> SUFFICES ASSUME NEW i \in 1..(n + m), NEW j \in 1..(n + m), c[i] = c[j] PROVE i = j
    BY <1>4 DEF NoneTwice
  <2>0. ASSUME NEW k \in 1..n, NEW l \in 1..m PROVE a[k] # b[l]
    BY <1>2 DEF ToSet
  <2>1. CASE i \in 1..n /\ j \in 1..n
    BY <1>2, <1>5, <2>1 DEF NoneTwice
  <2>2. CASE i \in 1..n /\ j - n \in 1..m /\ n + (j - n) = j
    <3>1. c[i] = a[i] /\ c[j] = b[j - n]
      BY <1>5, <2>2
    <3>2. QED
      BY <2>0, <2>2, <3>1
  <2>3. CASE j \in 1..n /\ i - n \in 1..m /\ n + (i - n) = i
    <3>1. c[j] = a[j] /\ c[i] = b[i - n]
      BY <1>5, <2>3
    <3>2. QED
      BY <2>0, <2>3, <3>1
  <2>4. CASE i - n \in 1..m /\ n + (i - n) = i /\ j - n \in 1..m /\ n + (j - n) = j
    <3>1. c[i] = b[i - n] /\ c[j] = b[j - n]
      BY <1>5, <2>4
    <3>2. i - n = j - n
      BY <1>2, <2>4, <3>1 DEF NoneTwice
    <3>3. QED
      BY <2>4, <3>2
  <2>5. QED
    BY <1>6, <2>1, <2>2, <2>3, <2>4
<1>9. QED
  BY <1>3, <1>7, <1>8 DEF c, n, m

\* What a step that keeps the baseline keeps.
LEMMA SameBaseline ==
  ASSUME job'.baseline = job.baseline
  PROVE  /\ Signatures' = Signatures
         /\ \A s : Cluster(s)' = Cluster(s)
         /\ \A s : SafetyTrials(s)' = SafetyTrials(s)
<1>1. Trials' = Trials
  BY DEF Trials
<1>2. \A s : Cluster(s)' = Cluster(s)
  BY <1>1 DEF Cluster
<1>3. QED
  BY <1>1, <1>2 DEF Signatures, SafetyTrials

LEMMA TakeClusterCovers == ASSUME ChallengeInv, TakeCluster PROVE ChallengeInv'
<1>1. PICK s \in job.left :
        /\ ~\E other \in job.left : Before(other, s)
        /\ job' = [job EXCEPT !.selected = @ \o Chosen(s), !.left = @ \ {s}]
  BY DEF TakeCluster
<1>2. ChallengeShape /\ SelectionHolds /\ s \in Signatures /\ Room /\ job.pc = "select"
      /\ job.left \subseteq Signatures
  BY DEF ChallengeInv, TakeCluster, Running
<1>3. /\ job'.baseline = job.baseline /\ job'.pc = "select" /\ job'.tool = job.tool
      /\ job'.selected = job.selected \o Chosen(s) /\ job'.left = job.left \ {s}
      /\ DOMAIN job' = DOMAIN job
  BY <1>1, <1>2 DEF ChallengeShape
<1>4. PICK S : job.selected \in Seq(S)
  BY <1>2 DEF SelectionHolds
<1>5. /\ \E T : Chosen(s) \in Seq(T)
      /\ Len(Chosen(s)) <= ChallengePolicy.max_tasks - Len(job.selected)
      /\ NoneTwice(Chosen(s))
      /\ \A k \in DOMAIN Chosen(s) : Chosen(s)[k] \notin ToSet(job.selected)
      /\ \/ Covers(s, job.selected)
         \/ \E i \in Cluster(s) : Trials[i].task \in ToSet(Chosen(s))
  BY <1>2, <1>4, ChosenAre
<1>6. PICK T : Chosen(s) \in Seq(T)
  BY <1>5
<1> DEFINE selected == job.selected \o Chosen(s)
<1>7. /\ \E U : selected \in Seq(U)
      /\ Len(selected) = Len(job.selected) + Len(Chosen(s))
      /\ ToSet(selected) = ToSet(job.selected) \cup ToSet(Chosen(s))
      /\ NoneTwice(selected)
  <2>1. NoneTwice(job.selected)
    BY <1>2 DEF SelectionHolds
  <2>2. QED
    BY <1>4, <1>5, <1>6, <2>1, JoinSelections
<1>8. Len(selected) <= ChallengePolicy.max_tasks
  <2>1. Len(job.selected) \in Nat /\ Len(Chosen(s)) \in Nat /\ ChallengePolicy.max_tasks \in Nat
    BY <1>4, <1>6, LenProperties, ChallengeAssumption
  <2>2. QED
    BY <1>5, <1>7, <2>1
<1> HIDE DEF selected
<1>9. \A t \in Signatures \ job'.left : Covers(t, selected)
  <2>1. Covers(s, selected)
    BY <1>5, <1>7 DEF Covers
  <2>2. \A t \in Signatures \ job.left : Covers(t, selected)
    BY <1>2, <1>7 DEF SelectionHolds, Covers
  <2>3. QED
    BY <1>3, <2>1, <2>2
<1>10. \A t \in job'.left, taken \in Signatures \ job'.left : SafetyTrials(t) <= SafetyTrials(taken)
  <2> SUFFICES ASSUME NEW t \in job.left \ {s}, NEW taken \in (Signatures \ job.left) \cup {s}
               PROVE  SafetyTrials(t) <= SafetyTrials(taken)
    BY <1>2, <1>3
  <2>1. CASE taken = s
    <3>1. ~ (SafetyTrials(t) > SafetyTrials(s))
      BY <1>1 DEF Before
    <3>2. SafetyTrials(t) \in Nat /\ SafetyTrials(s) \in Nat
      BY <1>2, SafetyIsCounted
    <3>3. QED
      BY <2>1, <3>1, <3>2
  <2>2. CASE taken \in Signatures \ job.left
    BY <1>2, <2>2 DEF SelectionHolds
  <2>3. QED
    BY <2>1, <2>2
<1>11. SelectionHolds'
  <2>1. /\ Signatures' = Signatures
        /\ \A t : Cluster(t)' = Cluster(t)
        /\ \A t : SafetyTrials(t)' = SafetyTrials(t)
        /\ Trials' = Trials
    BY <1>3, SameBaseline DEF Trials
  <2>2. job'.selected = selected
    BY <1>3 DEF selected
  <2>3. \A t \in Signatures \ job'.left : Covers(t, job.selected)'
    BY <1>9, <2>1, <2>2 DEF Covers
  <2>4. QED
    BY <1>7, <1>8, <1>10, <2>1, <2>2, <2>3 DEF SelectionHolds
<1>12. ChallengeShape'
  BY <1>2, <1>3 DEF ChallengeShape
<1>13. job'.left \subseteq Signatures'
  BY <1>2, <1>3, SameBaseline
<1>14. QED
  BY <1>3, <1>11, <1>12, <1>13 DEF ChallengeInv

\* The selection is only looked at through the baseline, left and selected.
LEMMA SelectionStays ==
  ASSUME SelectionHolds, job'.baseline = job.baseline, job'.left = job.left,
         job'.selected = job.selected
  PROVE  SelectionHolds'
<1>1. /\ Signatures' = Signatures
      /\ \A s : Cluster(s)' = Cluster(s)
      /\ \A s : SafetyTrials(s)' = SafetyTrials(s)
      /\ Trials' = Trials
  BY SameBaseline DEF Trials
<1>2. \A s : Covers(s, job.selected)' <=> Covers(s, job.selected)
  BY <1>1 DEF Covers
<1>3. QED
  BY <1>1, <1>2 DEF SelectionHolds

LEMMA FailsCovers == ASSUME ChallengeInv, Fails PROVE ChallengeInv'
<1>1. job'.baseline = job.baseline /\ job'.pc = "ended" /\ job'.tool = job.tool
      /\ job'.selected = job.selected /\ DOMAIN job' = DOMAIN job
  BY DEF Fails, ChallengeInv, ChallengeShape
<1>2. QED
  BY <1>1 DEF ChallengeInv, ChallengeShape

LEMMA GroupTrialsCovers == ASSUME ChallengeInv, GroupTrials PROVE ChallengeInv'
<1>1. CASE Fails
  BY <1>1, FailsCovers
<1>2. CASE job' = [job EXCEPT !.pc = "select", !.left = Signatures]
  <2>1. ChallengeShape /\ job.selected = << >>
    BY DEF ChallengeInv, ChallengeShape, GroupTrials, Running
  <2>2. job'.baseline = job.baseline /\ job'.pc = "select" /\ job'.tool = job.tool
        /\ job'.selected = << >> /\ job'.left = Signatures /\ DOMAIN job' = DOMAIN job
    BY <1>2, <2>1 DEF ChallengeShape
  <2>3. Signatures' = Signatures
    BY <2>2, SameBaseline
  <2>4. << >> \in Seq({}) /\ Len(<< >>) = 0 /\ DOMAIN << >> = {} /\ NoneTwice(<< >>)
    BY DEF NoneTwice
  <2>5. 0 <= ChallengePolicy.max_tasks
    BY ChallengeAssumption
  <2>6. SelectionHolds'
    BY <2>2, <2>3, <2>4, <2>5 DEF SelectionHolds
  <2>7. ChallengeShape'
    BY <2>1, <2>2 DEF ChallengeShape
  <2>8. QED
    BY <2>2, <2>3, <2>6, <2>7 DEF ChallengeInv
<1>3. QED
  BY <1>1, <1>2 DEF GroupTrials

LEMMA TakeSentinelCovers == ASSUME ChallengeInv, TakeSentinel PROVE ChallengeInv'
<1>1. PICK task : job' = [job EXCEPT !.selected = <<task>>]
  BY DEF TakeSentinel
<1>2. ChallengeShape /\ job.pc = "select" /\ Signatures = {} /\ job.left \subseteq Signatures
  BY DEF ChallengeInv, TakeSentinel, Running
<1>3. job'.baseline = job.baseline /\ job'.pc = "select" /\ job'.tool = job.tool
      /\ job'.selected = <<task>> /\ job'.left = job.left /\ DOMAIN job' = DOMAIN job
  BY <1>1, <1>2 DEF ChallengeShape
<1>4. Signatures' = {} /\ job'.left = {}
  BY <1>2, <1>3, SameBaseline
<1>5. /\ <<task>> \in Seq({task}) /\ Len(<<task>>) = 1 /\ NoneTwice(<<task>>)
  BY DEF NoneTwice
<1>6. 1 <= ChallengePolicy.max_tasks
  BY ChallengeAssumption
<1>7. SelectionHolds'
  BY <1>3, <1>4, <1>5, <1>6 DEF SelectionHolds
<1>8. ChallengeShape'
  BY <1>2, <1>3 DEF ChallengeShape
<1>9. QED
  BY <1>3, <1>4, <1>7, <1>8 DEF ChallengeInv

LEMMA FinishSelectionCovers == ASSUME ChallengeInv, FinishSelection PROVE ChallengeInv'
<1>1. CASE Fails
  BY <1>1, FailsCovers
<1>2. CASE job.files = {} /\ job' = [job EXCEPT !.pc = "manifest"]
  <2>1. ChallengeShape /\ SelectionHolds /\ Selection
    BY DEF ChallengeInv, FinishSelection, Running
  <2>2. job'.baseline = job.baseline /\ job'.pc = "manifest" /\ job'.tool = job.tool
        /\ job'.selected = job.selected /\ job'.left = job.left /\ job'.files = {}
        /\ DOMAIN job' = DOMAIN job
    BY <1>2, <2>1 DEF ChallengeShape
  <2>3. SelectionHolds'
    BY <2>1, <2>2, SelectionStays
  <2>4. ChallengeShape'
    BY <2>1, <2>2 DEF ChallengeShape
  <2>5. Selection'
    BY <2>1, <2>2 DEF Selection, Room
  <2>6. QED
    BY <2>2, <2>3, <2>4, <2>5 DEF ChallengeInv
<1>3. QED
  BY <1>1, <1>2 DEF FinishSelection

\* A file that is written, or not, and what is left of it.
LEMMA WritesCovers ==
  ASSUME ChallengeInv, NEW name, NEW next, Writes(name, next),
         \/ job.pc = "manifest" /\ name = "manifest" /\ next = "report"
         \/ job.pc = "report" /\ name = "report" /\ next = "compare"
  PROVE  ChallengeInv'
<1>0. ChallengeShape /\ SelectionHolds /\ Selection
  BY DEF ChallengeInv
<1>1. CASE job' = [job EXCEPT !.pc = next, !.files = @ \cup {name}]
  <2>1. job'.baseline = job.baseline /\ job'.pc = next /\ job'.tool = job.tool
        /\ job'.selected = job.selected /\ job'.left = job.left
        /\ job'.files = job.files \cup {name} /\ DOMAIN job' = DOMAIN job
    BY <1>0, <1>1 DEF ChallengeShape
  <2>2. SelectionHolds'
    BY <1>0, <2>1, SelectionStays
  <2>3. ChallengeShape' /\ Selection'
    BY <1>0, <2>1 DEF ChallengeShape, Selection, Room
  <2>4. QED
    BY <2>1, <2>2, <2>3 DEF ChallengeInv
<1>2. CASE \E left \in SUBSET {name} :
             job' = [job EXCEPT !.pc = "ended", !.result = "error", !.files = @ \cup left]
  <2>1. job'.baseline = job.baseline /\ job'.pc = "ended" /\ job'.tool = job.tool
        /\ DOMAIN job' = DOMAIN job
    BY <1>0, <1>2 DEF ChallengeShape
  <2>2. QED
    BY <1>0, <2>1 DEF ChallengeInv, ChallengeShape
<1>3. QED
  BY <1>1, <1>2 DEF Writes

LEMMA CompareReportsCovers == ASSUME ChallengeInv, CompareReports PROVE ChallengeInv'
<1>1. PICK cand, result :
        job' = [job EXCEPT !.pc = "ended", !.candidate = cand, !.result = result]
  BY DEF CompareReports
<1>2. job'.baseline = job.baseline /\ job'.pc = "ended" /\ job'.tool = job.tool
      /\ DOMAIN job' = DOMAIN job
  BY <1>1 DEF ChallengeInv, ChallengeShape
<1>3. QED
  BY <1>2 DEF ChallengeInv, ChallengeShape

LEMMA ChallengeNextInv == ASSUME ChallengeInv, RegressionNext PROVE ChallengeInv'
<1>1. WriteManifest => ChallengeInv'
  BY WritesCovers DEF WriteManifest, Running
<1>2. WriteReport => ChallengeInv'
  BY WritesCovers DEF WriteReport, Running
<1>3. QED
  BY <1>1, <1>2, GroupTrialsCovers, TakeClusterCovers, TakeSentinelCovers,
     FinishSelectionCovers, CompareReportsCovers DEF RegressionNext

LEMMA ChallengeStays == ASSUME ChallengeInv, UNCHANGED job PROVE ChallengeInv'
<1>1. SelectionHolds => SelectionHolds'
  BY SelectionStays
<1>2. Signatures' = Signatures
  BY SameBaseline
<1>3. QED
  BY <1>1, <1>2 DEF ChallengeInv, ChallengeShape, Selection, Room

LEMMA ChallengeIsCovered ==
  ASSUME job.tool = "regression" => ChallengeInv PROVE ChallengeCoversFailures
<1> SUFFICES ASSUME job.tool = "regression", job.pc \in {"manifest", "report", "compare"}
             PROVE  /\ Len(job.selected) \in 1..ChallengePolicy.max_tasks
                    /\ Cardinality(ToSet(job.selected)) = Len(job.selected)
                    /\ \A s \in Signatures : Covers(s, job.selected) \/ (~Room /\ s \in job.left)
                    /\ "report" \in job.files => "manifest" \in job.files
                    /\ \A s \in job.left, taken \in Signatures \ job.left :
                         SafetyTrials(s) <= SafetyTrials(taken)
  BY DEF ChallengeCoversFailures, Covers
<1>1. SelectionHolds /\ Selection
  BY DEF ChallengeInv
<1>2. PICK S : job.selected \in Seq(S)
  BY <1>1 DEF SelectionHolds
<1>3. Len(job.selected) \in 1..ChallengePolicy.max_tasks
  <2>1. Len(job.selected) \in Nat /\ job.selected # << >>
    BY <1>1, <1>2, LenProperties DEF Selection
  <2>2. Len(job.selected) # 0
    BY <1>2, <2>1, EmptySeq
  <2>3. Len(job.selected) <= ChallengePolicy.max_tasks /\ ChallengePolicy.max_tasks \in Nat
    BY <1>1, ChallengeAssumption DEF SelectionHolds
  <2>4. QED
    BY <2>1, <2>2, <2>3
<1>4. Cardinality(ToSet(job.selected)) = Len(job.selected)
  <2> DEFINE f == job.selected
             n == Len(f)
  <2>1. n \in Nat /\ DOMAIN f = 1..n /\ f = [i \in 1..n |-> f[i]]
    BY <1>2, LenProperties
  <2>2. \A i, j \in 1..n : f[i] = f[j] => i = j
    BY <1>1, <2>1 DEF SelectionHolds, NoneTwice
  <2>3. ToSet(f) = {f[i] : i \in 1..n}
    BY <2>1 DEF ToSet
  <2> HIDE DEF n, f
  <2>4. Cardinality(ToSet(f)) = n
    BY <2>1, <2>2, <2>3, CountDistinct
  <2>5. QED
    BY <2>4 DEF n, f
<1>5. "report" \in job.files => "manifest" \in job.files
  BY DEF ChallengeInv
<1>6. \A s \in Signatures : Covers(s, job.selected) \/ (~Room /\ s \in job.left)
  <2>1. \A s \in Signatures \ job.left : Covers(s, job.selected)
    BY <1>1 DEF SelectionHolds
  <2>2. job.left = {} \/ ~Room
    BY <1>1 DEF Selection
  <2>3. QED
    BY <2>1, <2>2
<1>7. \A s \in job.left, taken \in Signatures \ job.left : SafetyTrials(s) <= SafetyTrials(taken)
  BY <1>1 DEF SelectionHolds
<1>8. QED
  BY <1>3, <1>4, <1>5, <1>6, <1>7

\* What a regression run calls its challenge set covers the kinds of failure of
\* the baseline, the unsafe ones first, within the limit and without a task twice.
THEOREM ChallengeSetsCoverFailures == Spec => []ChallengeCoversFailures
<1> DEFINE Inv == HasTool /\ (job.tool = "regression" => ChallengeInv)
<1>1. Init => Inv
  BY StartsWithTool, ChallengeInitInv DEF OwnInit
<1>2. Inv /\ [Next]_job => Inv'
  <2> SUFFICES ASSUME Inv, [Next]_job PROVE Inv'
    OBVIOUS
  <2>1. SameTool /\ OwnStep
    BY OneTool
  <2>2. CASE job.tool = "regression" /\ RegressionNext
    BY <2>1, <2>2, ChallengeNextInv DEF SameTool
  <2>3. CASE UNCHANGED job
    BY <2>1, <2>3, ChallengeStays DEF SameTool
  <2>4. CASE job.tool # "regression"
    BY <2>1, <2>4 DEF SameTool
  <2>5. QED
    BY <2>1, <2>2, <2>3, <2>4 DEF OwnStep
<1>3. Inv => ChallengeCoversFailures
  BY ChallengeIsCovered
<1>4. QED
  BY <1>1, <1>2, <1>3, PTL DEF Spec

-----------------------------------------------------------------------------
(***************************************************************************)
(* The fault suite.                                                        *)
(***************************************************************************)

\* A snapshot the suite takes, and the fields it breaks.
FaultySource(s) ==
  /\ s \in RunSnapshot
  /\ \A i \in DOMAIN s.evidence : s.evidence[i].id # Unused

\* Ten faults: what each of them makes of a snapshot, one at a time.
LEMMA InjectedIs ==
  ASSUME NEW s
  PROVE  /\ Inject(s, "citation_corruption") = [s EXCEPT !.cited = Append(@, Unused)]
         /\ Inject(s, "source_mode_leakage") =
              [s EXCEPT !.evidence[1].mode = IF s.mode = "web" THEN "graphrag" ELSE "web"]
         /\ Inject(s, "checkpoint_corruption") = [s EXCEPT !.checkpoints[1] = FALSE]
         /\ Inject(s, "required_contract_failure") =
              [s EXCEPT !.contracts[Min(Required(s))].passed = FALSE]
         /\ Inject(s, "tool_accounting_drift") = [s EXCEPT !.usage = Len(s.calls) + 7]
         /\ Inject(s, "tool_result_loss") =
              [s EXCEPT !.calls[1].status = "running", !.calls[1].result = FALSE]
         /\ Inject(s, "non_terminal_run") = [s EXCEPT !.status = "active"]
         /\ Inject(s, "decision_tool_link_loss") =
              [s EXCEPT !.events = Without(@, "tool.completed")]
         /\ Inject(s, "secret_leakage") =
              [s EXCEPT !.events = Append(@, DebugEvent), !.secret = TRUE]
         /\ Inject(s, "duplicate_tool_call") =
              [s EXCEPT !.calls = Append(@, Duplicate(s.calls[1])), !.usage = Len(s.calls) + 1]
<1>1. Inject(s, "citation_corruption") = [s EXCEPT !.cited = Append(@, Unused)]
  BY Zenon DEF Inject
<1>2. Inject(s, "source_mode_leakage") =
              [s EXCEPT !.evidence[1].mode = IF s.mode = "web" THEN "graphrag" ELSE "web"]
  BY Zenon DEF Inject
<1>3. Inject(s, "checkpoint_corruption") = [s EXCEPT !.checkpoints[1] = FALSE]
  BY Zenon DEF Inject
<1>4. Inject(s, "required_contract_failure") =
              [s EXCEPT !.contracts[Min(Required(s))].passed = FALSE]
  BY Zenon DEF Inject
<1>5. Inject(s, "tool_accounting_drift") = [s EXCEPT !.usage = Len(s.calls) + 7]
  BY Zenon DEF Inject
<1>6. Inject(s, "tool_result_loss") =
              [s EXCEPT !.calls[1].status = "running", !.calls[1].result = FALSE]
  BY Zenon DEF Inject
<1>7. Inject(s, "non_terminal_run") = [s EXCEPT !.status = "active"]
  BY Zenon DEF Inject
<1>8. Inject(s, "decision_tool_link_loss") = [s EXCEPT !.events = Without(@, "tool.completed")]
  BY Zenon DEF Inject
<1>9. Inject(s, "secret_leakage") = [s EXCEPT !.events = Append(@, DebugEvent), !.secret = TRUE]
  BY Zenon DEF Inject
<1>10. Inject(s, "duplicate_tool_call") =
              [s EXCEPT !.calls = Append(@, Duplicate(s.calls[1])), !.usage = Len(s.calls) + 1]
  BY Zenon DEF Inject
<1>11. QED
  BY <1>1, <1>2, <1>3, <1>4, <1>5, <1>6, <1>7, <1>8, <1>9, <1>10

\* The kinds of record a fault cannot do without.
LEMMA InjectableNeeds ==
  ASSUME NEW s
  PROVE  /\ Injectable(s, "source_mode_leakage") => s.evidence # << >>
         /\ Injectable(s, "checkpoint_corruption") => s.checkpoints # << >>
         /\ Injectable(s, "required_contract_failure") => Required(s) # {}
         /\ Injectable(s, "tool_result_loss") => s.calls # << >>
         /\ Injectable(s, "duplicate_tool_call") => s.calls # << >>
<1>1. Injectable(s, "source_mode_leakage") => s.evidence # << >>
  BY Zenon DEF Injectable
<1>2. Injectable(s, "checkpoint_corruption") => s.checkpoints # << >>
  BY Zenon DEF Injectable
<1>3. Injectable(s, "required_contract_failure") => Required(s) # {}
  BY Zenon DEF Injectable
<1>4. Injectable(s, "tool_result_loss") => s.calls # << >>
  BY Zenon DEF Injectable
<1>5. Injectable(s, "duplicate_tool_call") => s.calls # << >>
  BY Zenon DEF Injectable
<1>6. QED
  BY <1>1, <1>2, <1>3, <1>4, <1>5

\* The rule each fault is aimed at, as it is stated of a snapshot.
LEMMA RuleFails ==
  ASSUME NEW s
  PROVE  LET failing == FailureCategories(SnapshotRules(s)) IN
         /\ "citations_valid" \in failing <=> ~CitationsValid(s)
         /\ "source_isolation" \in failing <=> ~SourcesIsolated(s)
         /\ "checkpoints_intact" \in failing <=> ~CheckpointsIntact(s)
         /\ "required_contracts_pass" \in failing <=> ~ContractsPass(s)
         /\ "tool_accounting_consistent" \in failing <=> ReportedCalls(s) # Len(s.calls)
         /\ "result_recorded" \in failing <=>
              s.calls # << >> /\ \E i \in DOMAIN s.calls :
                                   s.calls[i].status # "completed" /\ ~Failed(s.calls[i])
         /\ "terminal_disposition" \in failing <=> s.status = "active"
         /\ "tool_decision_link" \in failing <=>
              s.calls # << >> /\ \A i \in DOMAIN s.calls : s.calls[i].id \notin LinkedCalls(s)
         /\ "no_raw_secret" \in failing <=> s.secret
         /\ "duplicate_tool_calls_absent" \in failing <=> Repeats(s) # {}
<1> DEFINE rules == SnapshotRules(s)
<1>1. /\ rules.citations_valid = Verdict(CitationsValid(s))
      /\ rules.source_isolation = Verdict(SourcesIsolated(s))
      /\ rules.checkpoints_intact = Verdict(CheckpointsIntact(s))
      /\ rules.required_contracts_pass = Verdict(ContractsPass(s))
      /\ rules.tool_accounting_consistent = Verdict(ReportedCalls(s) = Len(s.calls))
      /\ rules.result_recorded =
           VerdictIf(s.calls # << >>, \A i \in DOMAIN s.calls :
                       s.calls[i].status = "completed" \/ Failed(s.calls[i]))
      /\ rules.terminal_disposition = Verdict(s.status # "active")
      /\ rules.tool_decision_link =
           VerdictIf(s.calls # << >>, \E i \in DOMAIN s.calls : s.calls[i].id \in LinkedCalls(s))
      /\ rules.no_raw_secret = Verdict(~s.secret)
      /\ rules.duplicate_tool_calls_absent = Verdict(Repeats(s) = {})
  BY DEF SnapshotRules
<1>2. {"citations_valid", "source_isolation", "checkpoints_intact", "required_contracts_pass",
       "tool_accounting_consistent", "result_recorded", "terminal_disposition",
       "tool_decision_link", "no_raw_secret", "duplicate_tool_calls_absent"} \subseteq DOMAIN rules
  BY DEF SnapshotRules
<1> HIDE DEF rules
<1>3. \A r \in DOMAIN rules : r # "tool_failure_free" =>
        (r \in FailureCategories(rules) <=> rules[r] = "fail")
  BY DEF FailureCategories, Failing
<1>4. QED
  BY <1>1, <1>2, <1>3 DEF rules, Verdict, VerdictIf

\* The check a type of fault is aimed at fails.
Finds(s, fault) ==
  ExpectedCheck[fault] \in FailureCategories(SnapshotRules(Inject(s, fault)))

\* Eight faults are detected in every snapshot they can be injected into.

LEMMA CitationFaultFound ==
  ASSUME NEW s, FaultySource(s) PROVE Finds(s, "citation_corruption")
<1> DEFINE t == Inject(s, "citation_corruption")
<1>1. t.evidence = s.evidence /\ t.cited = Append(s.cited, Unused) /\ s.cited \in Seq(STRING)
  <2>1. t = [s EXCEPT !.cited = Append(@, Unused)]
    BY InjectedIs
  <2> HIDE DEF t
  <2>2. QED
    BY <2>1 DEF FaultySource, RunSnapshot
<1> HIDE DEF t
<1>2. ~CitationsValid(t)
  <2>1. t.cited # << >> /\ Unused \in ToSet(t.cited)
    <3>1. Len(s.cited) \in Nat /\ DOMAIN t.cited = 1..(Len(s.cited) + 1)
          /\ t.cited[Len(s.cited) + 1] = Unused
      BY <1>1 DEF Unused
    <3>2. Len(s.cited) + 1 \in DOMAIN t.cited
      BY <3>1
    <3>3. QED
      BY <3>1, <3>2 DEF ToSet
  <2>2. Unused \notin {t.evidence[i].id : i \in DOMAIN t.evidence}
    BY <1>1 DEF FaultySource
  <2>3. QED
    BY <2>1, <2>2 DEF CitationsValid
<1>3. "citations_valid" \in FailureCategories(SnapshotRules(t))
  BY <1>2, RuleFails
<1>4. QED
  BY <1>3 DEF Finds, ExpectedCheck, t

LEMMA SourceFaultFound ==
  ASSUME NEW s, FaultySource(s), Injectable(s, "source_mode_leakage")
  PROVE  Finds(s, "source_mode_leakage")
<1> DEFINE t == Inject(s, "source_mode_leakage")
           other == IF s.mode = "web" THEN "graphrag" ELSE "web"
<1>1. /\ s.evidence \in Seq(EvidenceItem) /\ s.evidence # << >>
      /\ DOMAIN s = {"mode", "status", "usage", "cited", "evidence", "contracts", "checkpoints",
                     "calls", "events", "secret"}
  BY InjectableNeeds DEF FaultySource, RunSnapshot
<1>2. 1 \in DOMAIN s.evidence /\ DOMAIN s.evidence[1] = {"id", "call", "mode", "domain"}
  <2>1. Len(s.evidence) \in Nat /\ Len(s.evidence) # 0 /\ DOMAIN s.evidence = 1..Len(s.evidence)
    BY <1>1
  <2>2. 1 \in DOMAIN s.evidence
    BY <2>1
  <2>3. s.evidence[1] \in EvidenceItem
    BY <1>1, <2>2
  <2>4. QED
    BY <2>2, <2>3 DEF EvidenceItem
<1>3. t = [s EXCEPT !.evidence[1].mode = other]
  BY InjectedIs
<1> HIDE DEF t
<1>4. other # s.mode
  OBVIOUS
<1> HIDE DEF other
<1>5. t.mode = s.mode /\ 1 \in DOMAIN t.evidence /\ t.evidence[1].mode = other
  BY <1>1, <1>2, <1>3
<1>6. ~SourcesIsolated(t)
  BY <1>4, <1>5 DEF SourcesIsolated
<1>7. "source_isolation" \in FailureCategories(SnapshotRules(t))
  BY <1>6, RuleFails
<1>8. QED
  BY <1>7 DEF Finds, ExpectedCheck, t

LEMMA CheckpointFaultFound ==
  ASSUME NEW s, FaultySource(s), Injectable(s, "checkpoint_corruption")
  PROVE  Finds(s, "checkpoint_corruption")
<1> DEFINE t == Inject(s, "checkpoint_corruption")
<1>1. s.checkpoints \in Seq(BOOLEAN) /\ s.checkpoints # << >>
  BY InjectableNeeds DEF FaultySource, RunSnapshot
<1>2. 1 \in DOMAIN s.checkpoints
  <2>1. Len(s.checkpoints) \in Nat /\ Len(s.checkpoints) # 0
        /\ DOMAIN s.checkpoints = 1..Len(s.checkpoints)
    BY <1>1
  <2>2. QED
    BY <2>1
<1>3. t.checkpoints = [s.checkpoints EXCEPT ![1] = FALSE]
  BY InjectedIs DEF FaultySource, RunSnapshot
<1> HIDE DEF t
<1>4. 1 \in DOMAIN t.checkpoints /\ t.checkpoints[1] = FALSE
  BY <1>2, <1>3
<1>5. ~CheckpointsIntact(t)
  BY <1>4 DEF CheckpointsIntact
<1>6. "checkpoints_intact" \in FailureCategories(SnapshotRules(t))
  BY <1>5, RuleFails
<1>7. QED
  BY <1>6 DEF Finds, ExpectedCheck, t

LEMMA ContractFaultFound ==
  ASSUME NEW s, FaultySource(s), Injectable(s, "required_contract_failure")
  PROVE  Finds(s, "required_contract_failure")
<1> DEFINE t == Inject(s, "required_contract_failure")
           first == Min(Required(s))
<1>1. /\ s.contracts \in Seq([required : BOOLEAN, passed : BOOLEAN]) /\ Required(s) # {}
  BY InjectableNeeds DEF FaultySource, RunSnapshot
<1>2. first \in Required(s)
  <2>1. Len(s.contracts) \in Nat /\ DOMAIN s.contracts = 1..Len(s.contracts)
    BY <1>1
  <2>2. Required(s) \subseteq Nat
    BY <2>1 DEF Required
  <2>3. PICK i \in Required(s) : \A j \in Required(s) : i <= j
    BY <1>1, <2>2, LeastNatural
  <2>4. QED
    BY <2>3 DEF Min
<1>3. /\ first \in DOMAIN s.contracts /\ s.contracts[first].required
      /\ DOMAIN s.contracts[first] = {"required", "passed"}
  <2>1. first \in DOMAIN s.contracts /\ s.contracts[first].required
    BY <1>2 DEF Required
  <2> DEFINE Contract == [required : BOOLEAN, passed : BOOLEAN]
  <2>2. s.contracts[first] \in Contract
    <3> HIDE DEF Contract, first
    <3>1. s.contracts \in Seq(Contract)
      BY <1>1 DEF Contract
    <3>2. QED
      BY <2>1, <3>1
  <2>3. QED
    BY <2>1, <2>2
<1>4. t.contracts = [s.contracts EXCEPT ![first].passed = FALSE]
  BY InjectedIs DEF FaultySource, RunSnapshot
<1> HIDE DEF t, first
<1>5. /\ first \in DOMAIN t.contracts /\ t.contracts[first].passed = FALSE
      /\ t.contracts[first].required = s.contracts[first].required
  BY <1>3, <1>4
<1>6. ~ContractsPass(t)
  BY <1>3, <1>5 DEF ContractsPass, Required
<1>7. "required_contracts_pass" \in FailureCategories(SnapshotRules(t))
  BY <1>6, RuleFails
<1>8. QED
  BY <1>7 DEF Finds, ExpectedCheck, t

LEMMA AccountingFaultFound ==
  ASSUME NEW s, FaultySource(s) PROVE Finds(s, "tool_accounting_drift")
<1> DEFINE t == Inject(s, "tool_accounting_drift")
<1>1. t.usage = Len(s.calls) + 7 /\ t.calls = s.calls /\ Len(s.calls) \in Nat
  <2>1. t = [s EXCEPT !.usage = Len(s.calls) + 7]
    BY InjectedIs
  <2> HIDE DEF t
  <2>2. QED
    BY <2>1, LenProperties DEF FaultySource, RunSnapshot
<1>2. ReportedCalls(t) # Len(t.calls)
  <2> HIDE DEF t
  <2>1. Len(s.calls) + 7 \in Nat /\ Len(s.calls) + 7 # Len(s.calls)
    BY <1>1
  <2>2. t.usage # None
    BY <1>1, <2>1, NoneIsNoName
  <2>3. QED
    BY <1>1, <2>1, <2>2 DEF ReportedCalls
<1>3. "tool_accounting_consistent" \in FailureCategories(SnapshotRules(t))
  <2> HIDE DEF t
  <2>1. QED
    BY <1>2, RuleFails
<1>4. QED
  BY <1>3 DEF Finds, ExpectedCheck

LEMMA ResultFaultFound ==
  ASSUME NEW s, FaultySource(s), Injectable(s, "tool_result_loss")
  PROVE  Finds(s, "tool_result_loss")
<1> DEFINE t == Inject(s, "tool_result_loss")
<1>1. /\ s.calls \in Seq(ToolCall) /\ s.calls # << >>
  BY InjectableNeeds DEF FaultySource, RunSnapshot
<1>2. 1 \in DOMAIN s.calls
      /\ DOMAIN s.calls[1] = {"id", "task", "tool", "mode", "args", "status", "result", "at"}
  <2>1. Len(s.calls) \in Nat /\ Len(s.calls) # 0 /\ DOMAIN s.calls = 1..Len(s.calls)
    BY <1>1
  <2>2. 1 \in DOMAIN s.calls
    BY <2>1
  <2>3. s.calls[1] \in ToolCall
    BY <1>1, <2>2
  <2>4. QED
    BY <2>2, <2>3 DEF ToolCall
<1>3. t.calls = [[s.calls EXCEPT ![1].status = "running"] EXCEPT ![1].result = FALSE]
  BY InjectedIs DEF FaultySource, RunSnapshot
<1> HIDE DEF t
<1>4. /\ DOMAIN t.calls = DOMAIN s.calls /\ t.calls[1].status = "running"
  BY <1>2, <1>3
<1>5. t.calls # << >> /\ t.calls[1].status # "completed" /\ ~Failed(t.calls[1])
  BY <1>2, <1>4 DEF Failed
<1>6. "result_recorded" \in FailureCategories(SnapshotRules(t))
  BY <1>2, <1>4, <1>5, RuleFails
<1>7. QED
  BY <1>6 DEF Finds, ExpectedCheck, t

LEMMA StatusFaultFound ==
  ASSUME NEW s, FaultySource(s) PROVE Finds(s, "non_terminal_run")
<1> DEFINE t == Inject(s, "non_terminal_run")
<1>1. t.status = "active"
  BY InjectedIs DEF FaultySource, RunSnapshot
<1>2. "terminal_disposition" \in FailureCategories(SnapshotRules(t))
  <2> HIDE DEF t
  <2>1. QED
    BY <1>1, RuleFails
<1>3. QED
  BY <1>2 DEF Finds, ExpectedCheck

LEMMA SecretFaultFound ==
  ASSUME NEW s, FaultySource(s) PROVE Finds(s, "secret_leakage")
<1> DEFINE t == Inject(s, "secret_leakage")
<1>1. t.secret
  BY InjectedIs DEF FaultySource, RunSnapshot
<1>2. "no_raw_secret" \in FailureCategories(SnapshotRules(t))
  <2> HIDE DEF t
  <2>1. QED
    BY <1>1, RuleFails
<1>3. QED
  BY <1>2 DEF Finds, ExpectedCheck

\* The doubled call repeats the first one if that one has a hash, and is no
\* repetition otherwise.
LEMMA DuplicateFaultFound ==
  ASSUME NEW s, FaultySource(s), Injectable(s, "duplicate_tool_call")
  PROVE  Finds(s, "duplicate_tool_call") <=> s.calls[1].args # None \/ Repeats(s) # {}
<1> DEFINE t == Inject(s, "duplicate_tool_call")
           n == Len(s.calls)
           copy == Duplicate(s.calls[1])
<1>1. s.calls \in Seq(ToolCall) /\ s.calls # << >>
  BY InjectableNeeds DEF FaultySource, RunSnapshot
<1>2. n \in Nat /\ n >= 1 /\ DOMAIN s.calls = 1..n
  <2>1. n \in Nat /\ n # 0 /\ DOMAIN s.calls = 1..n
    BY <1>1
  <2>2. QED
    BY <2>1
<1>3. /\ copy.args = s.calls[1].args /\ copy.task = s.calls[1].task
      /\ copy.tool = s.calls[1].tool /\ copy.mode = s.calls[1].mode
  <2>1. 1 \in DOMAIN s.calls
    BY <1>2
  <2>2. s.calls[1] \in ToolCall
    BY <1>1, <2>1
  <2>3. QED
    BY <2>2 DEF Duplicate, ToolCall
<1>4. t.calls = Append(s.calls, copy)
  BY InjectedIs DEF FaultySource, RunSnapshot
<1> HIDE DEF t, copy
<1>5. /\ DOMAIN t.calls = 1..(n + 1) /\ t.calls[n + 1] = copy
      /\ \A i \in 1..n : t.calls[i] = s.calls[i]
  <2>1. s.calls \o <<copy>> = Append(s.calls, copy)
    OBVIOUS
  <2>2. Len(Append(s.calls, copy)) = n + 1 /\ Append(s.calls, copy)[n + 1] = copy
        /\ \A i \in 1..n : Append(s.calls, copy)[i] = s.calls[i]
    BY <1>1, <1>2
  <2>3. DOMAIN Append(s.calls, copy) = 1..(n + 1)
    BY <1>1, <1>2
  <2>4. QED
    BY <1>4, <2>2, <2>3
<1> HIDE DEF n
<1>6. CASE s.calls[1].args # None
  <2>1. n + 1 \in 1..(n + 1) /\ 1 \in 1..(n + 1) /\ 1 < n + 1 /\ 1 \in 1..n
    BY <1>2
  <2>2. SameRequest(t.calls[n + 1], t.calls[1]) /\ t.calls[n + 1].args # None
    BY <1>3, <1>5, <1>6, <2>1 DEF SameRequest
  <2>3. n + 1 \in Repeats(t)
    BY <1>5, <2>1, <2>2 DEF Repeats
  <2>4. "duplicate_tool_calls_absent" \in FailureCategories(SnapshotRules(t))
    BY <2>3, RuleFails
  <2>5. QED
    BY <1>6, <2>4 DEF Finds, ExpectedCheck, t
<1>7. CASE s.calls[1].args = None
  <2>1. Repeats(t) = Repeats(s)
    <3>1. \A i \in 1..(n + 1) : i \in 1..n \/ i = n + 1
      BY <1>2
    <3>2. \A i \in 1..n : i \in 1..(n + 1) /\ ~ (n + 1 < i)
      BY <1>2
    <3>3. n + 1 \notin Repeats(t)
      BY <1>3, <1>5, <1>7 DEF Repeats
    <3>4. ASSUME NEW i \in 1..n PROVE i \in Repeats(t) <=> i \in Repeats(s)
      <4>1. ASSUME NEW j \in 1..(n + 1), j < i, SameRequest(t.calls[i], t.calls[j])
            PROVE  j \in 1..n /\ SameRequest(s.calls[i], s.calls[j])
        BY <1>5, <3>1, <3>2, <4>1
      <4>2. ASSUME NEW j \in 1..n, j < i, SameRequest(s.calls[i], s.calls[j])
            PROVE  j \in 1..(n + 1) /\ SameRequest(t.calls[i], t.calls[j])
        BY <1>5, <3>2, <4>2
      <4>3. QED
        BY <1>2, <1>5, <3>2, <4>1, <4>2 DEF Repeats
    <3>5. \A i \in Repeats(t) : i \in 1..(n + 1)
      BY <1>5 DEF Repeats
    <3>6. \A i \in Repeats(s) : i \in 1..n
      BY <1>2 DEF Repeats
    <3>7. QED
      BY <3>1, <3>3, <3>4, <3>5, <3>6
  <2>2. "duplicate_tool_calls_absent" \in FailureCategories(SnapshotRules(t)) <=> Repeats(t) # {}
    BY RuleFails
  <2>3. QED
    BY <1>7, <2>1, <2>2 DEF Finds, ExpectedCheck, t
<1>8. QED
  BY <1>6, <1>7

\* Where the k-th event that is left was before.
KeptEvents(events, type) == {i \in DOMAIN events : events[i].type # type}

LEMMA WithoutIs ==
  ASSUME NEW A, NEW events \in Seq(A), NEW type,
         NEW kept, kept = KeptEvents(events, type), NEW c, c = Cardinality(kept)
  PROVE  /\ c \in Nat /\ kept \subseteq DOMAIN events
         /\ DOMAIN Without(events, type) = 1..c /\ Len(Without(events, type)) = c
         /\ \A k \in 1..c : /\ Nth(kept, k) \in kept
                            /\ Without(events, type)[k] = events[Nth(kept, k)]
         /\ \A k, l \in 1..c : k < l <=> Nth(kept, k) < Nth(kept, l)
         /\ \A i \in kept : \E k \in 1..c : Nth(kept, k) = i
<1>1. Len(events) \in Nat /\ DOMAIN events = 1..Len(events)
  BY LenProperties
<1>2. kept \subseteq DOMAIN events /\ kept \in SUBSET Nat
  BY <1>1 DEF KeptEvents
<1>3. IsFiniteSet(kept)
  <2>1. IsFiniteSet(DOMAIN events)
    BY <1>1, FS_Interval
  <2>2. QED
    BY <1>2, <2>1, FS_Subset
<1>4. c \in Nat
  BY <1>3, FS_CardinalityType
<1>5. \A k \in 1..c : Nth(kept, k) \in kept
  BY <1>2, <1>3, NthIs
<1>6. \A k, l \in 1..c : k < l => Nth(kept, k) < Nth(kept, l)
  BY <1>2, <1>3, NthIs
<1>7. \A i \in kept : \E k \in 1..c : Nth(kept, k) = i
  BY <1>2, <1>3, EveryPlaceIsNth
<1>8. \A k, l \in 1..c : k < l <=> Nth(kept, k) < Nth(kept, l)
  <2> SUFFICES ASSUME NEW k \in 1..c, NEW l \in 1..c PROVE k < l <=> Nth(kept, k) < Nth(kept, l)
    OBVIOUS
  <2> DEFINE a == Nth(kept, k)
             b == Nth(kept, l)
  <2>1. /\ a \in Nat /\ b \in Nat /\ (k < l => a < b) /\ (l < k => b < a) /\ (k = l => a = b)
    BY <1>2, <1>5, <1>6
  <2> HIDE DEF a, b
  <2>2. k < l <=> a < b
    BY <1>4, <2>1
  <2>3. QED
    BY <2>2 DEF a, b
<1>9. Without(events, type) = [k \in 1..c |-> events[Nth(kept, k)]]
  BY DEF Without, KeptEvents
<1> DEFINE w == Without(events, type)
<1>10. DOMAIN w = 1..c /\ \A k \in 1..c : w[k] = events[Nth(kept, k)]
  BY <1>9
<1>11. Len(w) = c
  <2> DEFINE T == {w[k] : k \in 1..c}
  <2>1. w = [k \in 1..c |-> w[k]]
    BY <1>9
  <2> HIDE DEF w
  <2>2. w \in [1..c -> T]
    BY <2>1
  <2>3. w \in Seq(T)
    BY <1>4, <2>2, SeqDef
  <2>4. QED
    BY <1>4, <1>10, <2>3, LenProperties
<1>12. QED
  BY <1>2, <1>4, <1>5, <1>7, <1>8, <1>10, <1>11

LEMMA MinIs ==
  ASSUME NEW S \in SUBSET Nat, S # {}
  PROVE  /\ Min(S) \in S /\ \A j \in S : Min(S) <= j
         /\ \A i \in S : (\A j \in S : i <= j) => Min(S) = i
<1>1. PICK i \in S : \A j \in S : i <= j
  BY LeastNatural
<1>2. Min(S) \in S /\ \A j \in S : Min(S) <= j
  BY <1>1 DEF Min
<1>3. ASSUME NEW k \in S, \A j \in S : k <= j PROVE Min(S) = k
  <2>1. Min(S) <= k /\ k <= Min(S) /\ Min(S) \in Nat /\ k \in Nat
    BY <1>2, <1>3
  <2>2. QED
    BY <2>1
<1>4. QED
  BY <1>2, <1>3

\* The failures after a decision, and when the decision keeps a link to a call
\* without the completions.
LaterFailures(s, i) == {j \in (i + 1)..Len(s.events) : s.events[j].type = "tool.failed"}

OwnFailures(s, i, id) == {j \in LaterFailures(s, i) : s.events[j].call = id}

KeepsLink(s, i, id) ==
  LET e == s.events[i]
      later == LaterFailures(s, i)
      own == OwnFailures(s, i, id)
  IN  \/ e.call = id /\ (e.type # "agent.decision" \/ own # {})
      \/ /\ e.call = None /\ e.type # "agent.decision"
         /\ own # {} /\ Min(own) = Min(later)

\* What is k-th without the completions was the i-th event: the decision keeps
\* its link there exactly if it keeps it without them.
LEMMA LinkWithout ==
  ASSUME NEW s, FaultySource(s), NEW t, t.events = Without(s.events, "tool.completed"),
         NEW kept, kept = KeptEvents(s.events, "tool.completed"),
         NEW k \in 1..Cardinality(kept), NEW id \in STRING
  PROVE  LinkedCall(t, k) = id <=> KeepsLink(s, Nth(kept, k), id)
<1> DEFINE c == Cardinality(kept)
           i == Nth(kept, k)
           n == Len(s.events)
           e == s.events[i]
           later == LaterFailures(s, i)
           own == OwnFailures(s, i, id)
           tools == ToolEvents(t, k)
           at(l) == Nth(kept, l)
<1>1. s.events \in Seq(SnapshotEvent) /\ n \in Nat /\ DOMAIN s.events = 1..n
  BY LenProperties DEF FaultySource, RunSnapshot
<1>2. /\ c \in Nat /\ kept \subseteq 1..n
      /\ Len(t.events) = c
      /\ \A l \in 1..c : at(l) \in kept /\ t.events[l] = s.events[at(l)]
      /\ \A l, m \in 1..c : l < m <=> at(l) < at(m)
      /\ \A j \in kept : \E l \in 1..c : at(l) = j
  BY <1>1, WithoutIs
<1>3. id # None
  BY NoneIsNoName
<1>4. i = at(k) /\ i \in kept /\ i \in 1..n /\ k \in 1..c /\ t.events[k] = e
  BY <1>2
<1>5. \A j \in 1..n : j \in kept <=> s.events[j].type # "tool.completed"
  BY <1>1 DEF KeptEvents
<1> HIDE DEF at, c, n, i
<1>6. \A l : l \in (k + 1)..c <=> l \in 1..c /\ k < l
  BY <1>2, <1>4
<1>7. \A j : j \in (i + 1)..n <=> j \in 1..n /\ i < j
  BY <1>1, <1>4
<1>8. \A j : j \in later <=> j \in 1..n /\ i < j /\ s.events[j].type = "tool.failed"
  BY <1>7 DEF LaterFailures, n
<1>9. \A l : l \in tools <=>
        /\ l \in 1..c /\ k < l
        /\ s.events[at(l)].type \in {"tool.completed", "tool.failed"}
        /\ e.call # None => s.events[at(l)].call = e.call
  BY <1>2, <1>4, <1>6 DEF ToolEvents
<1> HIDE DEF later, tools, e
<1>10. \A l : l \in tools <=>
         /\ l \in 1..c /\ at(l) \in later
         /\ e.call # None => s.events[at(l)].call = e.call
  BY <1>2, <1>4, <1>5, <1>8, <1>9
<1>11. \A j \in later : \E l \in 1..c : at(l) = j
  BY <1>2, <1>5, <1>8
<1>12. \A j : j \in own <=> j \in later /\ s.events[j].call = id
  BY DEF OwnFailures, later
<1>13. KeepsLink(s, i, id) <=>
         \/ e.call = id /\ (e.type # "agent.decision" \/ own # {})
         \/ /\ e.call = None /\ e.type # "agent.decision"
            /\ own # {} /\ Min(own) = Min(later)
  BY DEF KeepsLink, e, own, later
<1>14. LinkedCall(t, k) =
         IF e.type = "agent.decision"
         THEN IF tools = {} THEN None ELSE e.call
         ELSE IF e.call # None \/ tools = {} THEN e.call
         ELSE t.events[Min(tools)].call
  BY <1>4 DEF LinkedCall, tools
<1> HIDE DEF own
<1>15. LinkedCall(t, k) = id <=> KeepsLink(s, i, id)
  <2>1. CASE e.call # None
    <3>1. e.call = id => (tools # {} <=> own # {})
      BY <1>10, <1>11, <1>12, <2>1
    <3>2. QED
      BY <1>3, <1>13, <1>14, <2>1, <3>1
  <2>2. CASE e.call = None /\ (e.type = "agent.decision" \/ tools = {})
    <3>1. tools = {} => own = {}
      BY <1>10, <1>11, <1>12, <2>2
    <3>2. QED
      BY <1>3, <1>13, <1>14, <2>2, <3>1
  <2>3. CASE e.call = None /\ e.type # "agent.decision" /\ tools # {}
    <3> DEFINE first == Min(tools)
    <3>1. tools \in SUBSET Nat /\ later \in SUBSET Nat /\ own \in SUBSET Nat
      BY <1>1, <1>2, <1>8, <1>10, <1>12
    <3>2. first \in tools /\ \A l \in tools : first <= l
      BY <2>3, <3>1, MinIs
    <3> HIDE DEF first
    <3>3. first \in 1..c /\ at(first) \in later
      BY <1>10, <3>2
    <3>4. \A j \in later : at(first) <= j
      <4> SUFFICES ASSUME NEW j \in later PROVE at(first) <= j
        OBVIOUS
      <4>1. PICK l \in 1..c : at(l) = j
        BY <1>11
      <4>2. l \in tools
        BY <1>10, <2>3, <4>1
      <4>3. ~ (l < first)
        BY <1>2, <3>2, <3>3, <4>2
      <4>4. ~ (at(l) < at(first))
        BY <1>2, <3>3, <4>3
      <4>5. j \in Nat /\ at(first) \in Nat
        BY <3>1, <3>3
      <4>6. QED
        BY <4>1, <4>4, <4>5
    <3>5. Min(later) = at(first) /\ later # {}
      BY <3>1, <3>3, <3>4, MinIs
    <3>6. s.events[at(first)].call = id => own # {} /\ Min(own) = at(first)
      <4> SUFFICES ASSUME s.events[at(first)].call = id PROVE own # {} /\ Min(own) = at(first)
        OBVIOUS
      <4>1. at(first) \in own /\ \A j \in own : at(first) <= j
        BY <1>12, <3>3, <3>4
      <4>2. QED
        BY <3>1, <4>1, MinIs
    <3>7. own # {} /\ Min(own) = at(first) => s.events[at(first)].call = id
      BY <1>12, <3>1, MinIs
    <3>8. LinkedCall(t, k) = s.events[at(first)].call
      BY <1>2, <1>14, <2>3, <3>3 DEF first
    <3>9. QED
      BY <1>3, <1>13, <2>3, <3>5, <3>6, <3>7, <3>8
  <2>4. QED
    BY <2>1, <2>2, <2>3
<1>16. QED
  BY <1>15 DEF i

LEMMA LinkFaultFound ==
  ASSUME NEW s, FaultySource(s)
  PROVE  Finds(s, "decision_tool_link_loss") <=> ~LinkSurvives(s)
<1> DEFINE t == Inject(s, "decision_tool_link_loss")
           kept == KeptEvents(s.events, "tool.completed")
           c == Cardinality(kept)
<1>1. t.events = Without(s.events, "tool.completed") /\ t.calls = s.calls
  <2>1. t = [s EXCEPT !.events = Without(@, "tool.completed")]
    BY InjectedIs
  <2> HIDE DEF t
  <2>2. QED
    BY <2>1 DEF FaultySource, RunSnapshot
<1>2. /\ s.events \in Seq(SnapshotEvent) /\ s.calls \in Seq(ToolCall)
  BY DEF FaultySource, RunSnapshot
<1> HIDE DEF t
<1>3. /\ c \in Nat /\ kept \subseteq DOMAIN s.events
      /\ DOMAIN t.events = 1..c
      /\ \A k \in 1..c : Nth(kept, k) \in kept /\ t.events[k] = s.events[Nth(kept, k)]
      /\ \A i \in kept : \E k \in 1..c : Nth(kept, k) = i
  BY <1>1, <1>2, WithoutIs
<1>4. SnapshotDecisions(s) \subseteq kept
  BY DEF SnapshotDecisions, IsDecision, KeptEvents
<1>5. ASSUME NEW id \in STRING
      PROVE  id \in LinkedCalls(t) <=> \E i \in SnapshotDecisions(s) : KeepsLink(s, i, id)
  <2>1. \A k \in 1..c : LinkedCall(t, k) = id <=> KeepsLink(s, Nth(kept, k), id)
    BY <1>1, LinkWithout
  <2>2. id \in LinkedCalls(t) <=> \E k \in SnapshotDecisions(t) : LinkedCall(t, k) = id
    BY NoneIsNoName DEF LinkedCalls
  <2> HIDE DEF kept, c
  <2>3. \A k \in 1..c : k \in SnapshotDecisions(t) <=> Nth(kept, k) \in SnapshotDecisions(s)
    BY <1>3 DEF SnapshotDecisions
  <2>4. SnapshotDecisions(t) \subseteq 1..c
    BY <1>3 DEF SnapshotDecisions
  <2>5. ASSUME NEW k \in SnapshotDecisions(t), LinkedCall(t, k) = id
        PROVE  \E i \in SnapshotDecisions(s) : KeepsLink(s, i, id)
    BY <2>1, <2>3, <2>4, <2>5
  <2>6. ASSUME NEW i \in SnapshotDecisions(s), KeepsLink(s, i, id)
        PROVE  \E k \in SnapshotDecisions(t) : LinkedCall(t, k) = id
    <3>1. PICK k \in 1..c : Nth(kept, k) = i
      BY <1>3, <1>4
    <3>2. QED
      BY <2>1, <2>3, <2>6, <3>1
  <2>7. QED
    BY <2>2, <2>5, <2>6
<1>6. \A p \in DOMAIN s.calls : s.calls[p].id \in STRING
  <2>1. ASSUME NEW p \in DOMAIN s.calls PROVE s.calls[p].id \in STRING
    <3>1. s.calls[p] \in ToolCall
      BY <1>2
    <3>2. QED
      BY <3>1 DEF ToolCall
  <2>2. QED
    BY <2>1
<1>7. LinkSurvives(s) <=>
        \/ s.calls = << >>
        \/ \E p \in DOMAIN s.calls : \E i \in SnapshotDecisions(s) : KeepsLink(s, i, s.calls[p].id)
  BY DEF LinkSurvives, KeepsLink, LaterFailures, OwnFailures
<1>8. "tool_decision_link" \in FailureCategories(SnapshotRules(t)) <=>
        s.calls # << >> /\ \A p \in DOMAIN s.calls : s.calls[p].id \notin LinkedCalls(t)
  BY <1>1, RuleFails
<1>9. "tool_decision_link" \in FailureCategories(SnapshotRules(t)) <=> ~LinkSurvives(s)
  BY <1>5, <1>6, <1>7, <1>8
<1>10. QED
  BY <1>9 DEF Finds, ExpectedCheck, t

-----------------------------------------------------------------------------
\* What a fault is detected by, of a snapshot it could be injected into.
IsFound(s, fault) ==
  CASE fault = "decision_tool_link_loss" -> ~LinkSurvives(s)
    [] fault = "duplicate_tool_call" -> s.calls[1].args # None \/ Repeats(s) # {}
    [] OTHER -> TRUE

LEMMA FaultsFound ==
  ASSUME NEW s, FaultySource(s), NEW fault \in FaultTypes, Injectable(s, fault)
  PROVE  Finds(s, fault) <=> IsFound(s, fault)
<1>1. /\ IsFound(s, "decision_tool_link_loss") <=> ~LinkSurvives(s)
      /\ IsFound(s, "duplicate_tool_call") <=> s.calls[1].args # None \/ Repeats(s) # {}
  BY Zenon DEF IsFound
<1>2. fault \notin {"decision_tool_link_loss", "duplicate_tool_call"} => IsFound(s, fault)
  BY Zenon DEF IsFound
<1>3. CASE fault = "decision_tool_link_loss"
  BY <1>1, <1>3, LinkFaultFound
<1>4. CASE fault = "duplicate_tool_call"
  BY <1>1, <1>4, DuplicateFaultFound
<1>5. CASE fault \notin {"decision_tool_link_loss", "duplicate_tool_call"}
  <2>1. Finds(s, fault)
    BY <1>5, CitationFaultFound, SourceFaultFound, CheckpointFaultFound, ContractFaultFound,
       AccountingFaultFound, ResultFaultFound, StatusFaultFound, SecretFaultFound
       DEF FaultTypes
  <2>2. QED
    BY <1>2, <1>5, <2>1
<1>6. QED
  BY <1>3, <1>4, <1>5

\* The faults that were injected so far are detected as they should.
FaultsInv ==
  /\ DOMAIN job = {"tool", "pc", "old", "source", "results", "original", "result"}
  /\ job.pc \in {"open", "inject", "ended"}
  /\ FaultySource(job.source)
  /\ job.results \in Seq(BOOLEAN)
  /\ Len(job.results) <= Len(FaultCases)
  /\ job.pc = "ended" /\ job.result = "report" => Len(job.results) = Len(FaultCases)
  /\ \A i \in DOMAIN job.results :
       Expected(FaultCases[i]) = {ExpectedCheck[FaultCases[i].type]} =>
         (job.results[i] <=> IsFound(job.source, FaultCases[i].type))

LEMMA FaultsInitInv == FaultsInit => FaultsInv
<1> SUFFICES ASSUME FaultsInit PROVE FaultsInv
  OBVIOUS
<1>1. PICK s \in FaultSources, old \in BOOLEAN :
        job = [tool |-> "faults", pc |-> "open", old |-> old, source |-> s, results |-> << >>,
               original |-> RulesPassed(SnapshotRules(s)), result |-> None]
  BY DEF FaultsInit
<1>2. /\ DOMAIN job = {"tool", "pc", "old", "source", "results", "original", "result"}
      /\ job.pc = "open" /\ job.source = s /\ job.results = << >>
  BY <1>1
<1>3. FaultySource(s)
  BY FaultAssumption DEF FaultySource
<1>4. << >> \in Seq(BOOLEAN) /\ Len(<< >>) = 0 /\ DOMAIN << >> = {} /\ Len(FaultCases) \in Nat
  BY FaultAssumption
<1>5. QED
  BY <1>2, <1>3, <1>4 DEF FaultsInv

LEMMA FaultsNextInv == ASSUME FaultsInv, FaultsNext PROVE FaultsInv'
<1> DEFINE n == Len(job.results)
<1>1. n \in Nat /\ DOMAIN job.results = 1..n /\ job.results \in Seq(BOOLEAN)
      /\ Len(FaultCases) \in Nat /\ DOMAIN FaultCases = 1..Len(FaultCases)
  BY LenProperties, FaultAssumption DEF FaultsInv
<1>2. CASE InjectFault
  <2> DEFINE found == Detected(job.source, CurrentFault)
  <2>1. /\ DOMAIN job' = DOMAIN job /\ job'.pc = job.pc /\ job'.source = job.source
        /\ job'.results = Append(job.results, found) /\ job'.result = job.result
        /\ job.pc = "inject"
    BY <1>2 DEF InjectFault, FaultsInv, Running
  <2>2. n < Len(FaultCases) /\ Injectable(job.source, CurrentFault.type)
    BY <1>2 DEF InjectFault
  <2>3. CurrentFault = FaultCases[n + 1] /\ n + 1 \in DOMAIN FaultCases
    BY <1>1, <2>2 DEF CurrentFault
  <2>4. CurrentFault.type \in FaultTypes
    <3>1. CurrentFault \in FaultCase
      BY <2>3, FaultAssumption
    <3>2. QED
      BY <3>1 DEF FaultCase
  <2>5. Expected(CurrentFault) = {ExpectedCheck[CurrentFault.type]} =>
          (found <=> IsFound(job.source, CurrentFault.type))
    <3> SUFFICES ASSUME Expected(CurrentFault) = {ExpectedCheck[CurrentFault.type]}
                 PROVE  found <=> IsFound(job.source, CurrentFault.type)
      OBVIOUS
    <3>1. found <=> Finds(job.source, CurrentFault.type)
      BY Zenon DEF Detected, Finds
    <3>2. QED
      BY <2>2, <2>4, <3>1, FaultsFound DEF FaultsInv
  <2>6. found \in BOOLEAN
    BY DEF Detected
  <2> HIDE DEF found
  <2>7. /\ job'.results \in Seq(BOOLEAN) /\ Len(job'.results) = n + 1
        /\ DOMAIN job'.results = 1..(n + 1) /\ job'.results[n + 1] = found
        /\ \A i \in 1..n : job'.results[i] = job.results[i]
    <3>1. /\ Append(job.results, found) \in Seq(BOOLEAN)
          /\ Len(Append(job.results, found)) = n + 1
          /\ Append(job.results, found)[n + 1] = found
          /\ \A i \in 1..n : Append(job.results, found)[i] = job.results[i]
      BY <1>1, <2>6, AppendProperties
    <3>2. DOMAIN Append(job.results, found) = 1..(n + 1)
      BY <3>1, LenProperties
    <3>3. QED
      BY <2>1, <3>1, <3>2
  <2> HIDE DEF n
  <2>8. ASSUME NEW i \in 1..(n + 1)
        PROVE  Expected(FaultCases[i]) = {ExpectedCheck[FaultCases[i].type]} =>
                 (job'.results[i] <=> IsFound(job'.source, FaultCases[i].type))
    <3>1. i \in 1..n \/ i = n + 1
      BY <1>1
    <3>2. CASE i \in 1..n
      BY <1>1, <2>1, <2>7, <3>2 DEF FaultsInv
    <3>3. CASE i = n + 1
      BY <2>1, <2>3, <2>5, <2>7, <3>3
    <3>4. QED
      BY <3>1, <3>2, <3>3
  <2>9. n + 1 <= Len(FaultCases)
    BY <1>1, <2>2
  <2>10. QED
    BY <2>1, <2>7, <2>8, <2>9 DEF FaultsInv
<1>3. CASE InjectionFails
  <2>1. /\ DOMAIN job' = DOMAIN job /\ job'.pc = "ended" /\ job'.source = job.source
        /\ job'.results = job.results /\ job'.result = "error"
    BY <1>3 DEF InjectionFails, SuiteFails, FaultsInv
  <2>2. QED
    BY <2>1 DEF FaultsInv
<1>4. CASE ReportFaults
  <2>1. /\ DOMAIN job' = DOMAIN job /\ job'.pc = "ended" /\ job'.source = job.source
        /\ job'.results = job.results /\ Len(job.results) = Len(FaultCases)
    BY <1>4 DEF ReportFaults, FaultsInv
  <2>2. QED
    BY <2>1 DEF FaultsInv
<1>5. CASE OpenOutput
  <2>1. /\ DOMAIN job' = DOMAIN job /\ job'.pc \in {"inject", "ended"}
        /\ job'.pc = "ended" => job'.result = "error"
        /\ job'.source = job.source /\ job'.results = job.results
    BY <1>5 DEF OpenOutput, SuiteFails, FaultsInv
  <2>2. QED
    BY <2>1 DEF FaultsInv
<1>6. QED
  BY <1>2, <1>3, <1>4, <1>5 DEF FaultsNext

\* A suite that ends with a report has found every fault it injected, but for
\* the lost links and the doubled calls that its evaluator cannot see
\* (fault_injection.py, run_deepresearch_fault_suite).
THEOREM InjectedFaultsAreDetected == Spec => []FaultsAreDetected
<1> DEFINE Inv == HasTool /\ (job.tool = "faults" => FaultsInv)
<1>1. Init => Inv
  BY StartsWithTool, FaultsInitInv DEF OwnInit
<1>2. Inv /\ [Next]_job => Inv'
  <2> SUFFICES ASSUME Inv, [Next]_job PROVE Inv'
    OBVIOUS
  <2>1. SameTool /\ OwnStep
    BY OneTool
  <2>2. CASE job.tool = "faults" /\ FaultsNext
    BY <2>1, <2>2, FaultsNextInv DEF SameTool
  <2>3. CASE UNCHANGED job
    BY <2>1, <2>3 DEF SameTool, FaultsInv
  <2>4. CASE job.tool # "faults"
    BY <2>1, <2>4 DEF SameTool
  <2>5. QED
    BY <2>1, <2>2, <2>3, <2>4 DEF OwnStep
<1>3. Inv => FaultsAreDetected
  <2> SUFFICES ASSUME Inv, EndedWith("faults", "report"), NEW i \in DOMAIN FaultCases,
                      Expected(FaultCases[i]) = {ExpectedCheck[FaultCases[i].type]}
               PROVE  job.results[i] = CASE FaultCases[i].type = "decision_tool_link_loss" ->
                                              ~LinkSurvives(job.source)
                                         [] FaultCases[i].type = "duplicate_tool_call" ->
                                              job.source.calls[1].args # None
                                              \/ Repeats(job.source) # {}
                                         [] OTHER -> TRUE
    BY Zenon DEF FaultsAreDetected
  <2>1. FaultsInv /\ Len(job.results) = Len(FaultCases)
    BY DEF EndedWith, Running, FaultsInv
  <2>2. i \in DOMAIN job.results /\ job.results[i] \in BOOLEAN
    <3>1. DOMAIN job.results = DOMAIN FaultCases
      BY <2>1, LenProperties, FaultAssumption DEF FaultsInv
    <3>2. QED
      BY <2>1, <3>1 DEF FaultsInv
  <2>3. job.results[i] <=> IsFound(job.source, FaultCases[i].type)
    BY <2>1, <2>2 DEF FaultsInv
  <2>4. IsFound(job.source, FaultCases[i].type) \in BOOLEAN
    BY Zenon DEF IsFound
  <2>5. job.results[i] = IsFound(job.source, FaultCases[i].type)
    <3> DEFINE a == job.results[i]
               b == IsFound(job.source, FaultCases[i].type)
    <3>1. a \in BOOLEAN /\ b \in BOOLEAN /\ (a <=> b)
      BY <2>2, <2>3, <2>4
    <3> HIDE DEF a, b
    <3>2. a = b
      BY <3>1
    <3>3. QED
      BY <3>2 DEF a, b
  <2>6. QED
    BY <2>5, Zenon DEF IsFound
<1>4. QED
  BY <1>1, <1>2, <1>3, PTL DEF Spec

=============================================================================

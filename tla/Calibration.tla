----------------------------- MODULE Calibration -----------------------------
(***************************************************************************)
(* analyze_judge_calibration (calibration.py): how well each judge that    *)
(* rated the cases of a labelled dataset agrees with the human labels, and *)
(* whether that is enough for a policy.                                    *)
(*                                                                         *)
(* Statistics are compared before they are rounded.                        *)
(***************************************************************************)
EXTENDS Job, Integers, Sequences, FiniteSets, FiniteSetsExt

CONSTANT CalibrationManifests   \* bound: policies and rated cases

Verdicts == {"pass", "review", "fail"}

\* The score of one dimension stands for those of all.
Label == [verdict : Verdicts, score : 0..4]
Rating == [verdict : Verdicts, score : 0..4, model : STRING]

\* Percentages, kappa and the mean error in hundredths.
CalibrationPolicy ==
  [min_cases : Nat \ {0}, min_coverage : 0..100, min_agreement : 0..100,
   min_kappa : -100..100, max_review : 0..100, max_error : 0..400]

ASSUME ManifestAssumption ==
  \A m \in CalibrationManifests :
    /\ m.policy \in CalibrationPolicy
    /\ m.cases \in Seq([human : Label, ratings : {m.cases[i].ratings : i \in DOMAIN m.cases}])
    /\ m.cases # << >>
    /\ \A i, k \in DOMAIN m.cases : DOMAIN m.cases[i].ratings = DOMAIN m.cases[k].ratings
    /\ \A i \in DOMAIN m.cases :
         /\ \A j \in DOMAIN m.cases[i].ratings :
              m.cases[i].ratings[j] # None => m.cases[i].ratings[j] \in Rating

-----------------------------------------------------------------------------
Cases == job.manifest.cases

JudgesOf(manifest) ==
  {j \in UNION {DOMAIN manifest.cases[i].ratings : i \in DOMAIN manifest.cases} :
     \E i \in DOMAIN manifest.cases : manifest.cases[i].ratings[j] # None}

Covered(judge) == {i \in DOMAIN Cases : Cases[i].ratings[judge] # None}

\* A key that stands for two models makes the whole dataset unusable.
Consistent(judge) ==
  \A i, k \in Covered(judge) : Cases[i].ratings[judge].model = Cases[k].ratings[judge].model

Exact(judge) ==
  {i \in Covered(judge) : Cases[i].human.verdict = Cases[i].ratings[judge].verdict}

\* n times n times the agreement expected by chance, from both label counts.
ChanceProducts(judge) ==
  LET Humans(v) == Cardinality({i \in Covered(judge) : Cases[i].human.verdict = v})
      Judged(v) == Cardinality({i \in Covered(judge) : Cases[i].ratings[judge].verdict = v})
  IN  MapThenSumSet(LAMBDA v : Humans(v) * Judged(v), Verdicts)

AgreementAtLeast(judge, minimum) ==  \* a bug: agreement by chance is credited
  100 * Cardinality(Exact(judge)) >= minimum * Cardinality(Covered(judge))

\* _cohen_kappa is at least minimum; with one label on both sides it is 1 or 0.
KappaAtLeast(judge, minimum) ==
  LET n == Cardinality(Covered(judge))
      exact == Cardinality(Exact(judge))
      chance == ChanceProducts(judge)
  IN  IF chance = n * n
      THEN (IF exact = n THEN 100 ELSE 0) >= minimum
      ELSE 100 * (n * exact - chance) >= minimum * (n * n - chance)

TotalError(judge) ==
  LET Error(i) == Cases[i].human.score - Cases[i].ratings[judge].score
  IN  MapThenSumSet(LAMBDA i : IF Error(i) < 0 THEN -Error(i) ELSE Error(i), Covered(judge))

Reviews(judge) == {i \in Covered(judge) : Cases[i].ratings[judge].verdict = "review"}

\* _violations: there is none.
JudgePasses(judge) ==
  LET policy == job.manifest.policy
      n == Cardinality(Covered(judge))
  IN  /\ Len(Cases) >= policy.min_cases
      /\ 100 * n >= policy.min_coverage * Len(Cases)
      /\ 100 * Cardinality(Exact(judge)) >= policy.min_agreement * n
      /\ KappaAtLeast(judge, policy.min_kappa)
      /\ 100 * Cardinality(Reviews(judge)) <= policy.max_review * n
      /\ 100 * TotalError(judge) <= policy.max_error * n

-----------------------------------------------------------------------------
CalibrationInit ==
  \E manifest \in CalibrationManifests :
    job = [tool |-> "calibration", pc |-> "collect", manifest |-> manifest,
           left |-> {}, accepted |-> {}, result |-> None]

CollectRatings ==
  /\ Running("calibration", "collect")
  /\ job' = IF \A j \in JudgesOf(job.manifest) : Consistent(j)
            THEN [job EXCEPT !.pc = "analyze", !.left = JudgesOf(job.manifest)]
            ELSE [job EXCEPT !.pc = "ended", !.result = "error"]

AnalyzeJudge ==
  /\ Running("calibration", "analyze")
  /\ \E judge \in job.left :
       job' = [job EXCEPT !.left = @ \ {judge},
                          !.accepted = IF JudgePasses(judge) THEN @ \cup {judge} ELSE @]

\* Without a single rating the calibration does not pass.
ReportCalibration ==
  /\ Running("calibration", "analyze") /\ job.left = {}
  /\ job' = [job EXCEPT !.pc = "ended",
               !.result = IF job.accepted # {} /\ job.accepted = JudgesOf(job.manifest)
                          THEN "passed" ELSE "failed"]

CalibrationNext == CollectRatings \/ AnalyzeJudge \/ ReportCalibration

-----------------------------------------------------------------------------
\* A calibration that passes shows that somebody was calibrated, every judge
\* under one model; that a judge who always says the same, whatever the case,
\* does not get through on chance when a positive kappa is asked for, unless
\* the humans said nothing else either; and that full coverage and agreement,
\* when asked for, leave no case out and none in doubt.
CalibrationIsEarned ==
  EndedWith("calibration", "passed") =>
    LET policy == job.manifest.policy
    IN  /\ JudgesOf(job.manifest) # {}
        /\ \A judge \in JudgesOf(job.manifest) :
             LET rated == Covered(judge)
                 verdicts == {Cases[i].ratings[judge].verdict : i \in rated}
                 models == {Cases[i].ratings[judge].model : i \in rated}
             IN  /\ Cardinality(models) = 1
                 /\ policy.min_kappa > 0 /\ Cardinality(verdicts) = 1 =>
                      {Cases[i].human.verdict : i \in rated} = verdicts
                 /\ policy.min_coverage = 100 => rated = DOMAIN Cases
                 /\ policy.min_agreement = 100 =>
                      \A i \in rated : Cases[i].human.verdict = Cases[i].ratings[judge].verdict
=============================================================================

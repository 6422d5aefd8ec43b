\* A judge call and a recheck of the same evidence at once.
SPECIFICATION Spec
CONSTANTS
  t1 = t1  t2 = t2  good = good  bad = bad  leaky = leaky  w1 = w1  w2 = w2  v1 = v1
  None = None
  TraceIds <- OneTrace
  Contents = {good, bad}
  Passing = {good}
  PrivacySafe = {good, bad}
  Resolutions <- ShortNotes
  Workers = {w1, w2}
  Operations = {"import", "judge", "queue"}
  Batches <- ResentGood
  JudgeOutputs <- Contradicting
  Versions = {}
  ClockSteps = {1}
  MaxRequests = 3
  MaxCrashes = 0
SYMMETRY WorkerSymmetry
INVARIANT OneReviewPerEvidence

\* Two reviewers resolve one item at once.
SPECIFICATION Spec
CONSTANTS
  t1 = t1  t2 = t2  good = good  bad = bad  leaky = leaky  w1 = w1  w2 = w2  v1 = v1
  None = None
  TraceIds <- OneTrace
  Contents = {good, bad}
  Passing = {good}
  PrivacySafe = {good, bad}
  Resolutions <- ShortNotes
  Workers = {w1, w2}
  Operations = {"import", "judge", "resolve"}
  Batches <- ResentGood
  JudgeOutputs <- Contradicting
  Versions = {}
  ClockSteps = {1}
  MaxRequests = 4
  MaxCrashes = 0
SYMMETRY WorkerSymmetry
PROPERTY ResolvedExactlyOnce

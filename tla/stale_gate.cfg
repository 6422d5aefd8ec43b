\* A judge call reads a leaking payload and the evaluation of a clean one.
SPECIFICATION Spec
CONSTANTS
  t1 = t1  t2 = t2  good = good  bad = bad  leaky = leaky  w1 = w1  w2 = w2  v1 = v1
  None = None
  TraceIds <- OneTrace
  Contents = {good, bad, leaky}
  Passing = {good}
  PrivacySafe = {good, bad}
  Resolutions <- ShortNotes
  Workers = {w1, w2}
  Operations = {"import", "judge"}
  Batches <- Resent
  JudgeOutputs <- Contradicting
  Versions = {}
  ClockSteps = {1}
  MaxRequests = 3
  MaxCrashes = 0
SYMMETRY WorkerSymmetry
INVARIANT JudgedBehindPrivacyGate

\* An OTLP export of two traces meets the first import of one of them.
SPECIFICATION Spec
CONSTANTS
  t1 = t1  t2 = t2  good = good  bad = bad  leaky = leaky  w1 = w1  w2 = w2  v1 = v1
  None = None
  TraceIds <- TwoTraces
  Contents = {good, bad}
  Passing = {good}
  PrivacySafe = {good, bad}
  Resolutions <- ShortNotes
  Workers = {w1, w2}
  Operations = {"import"}
  Batches <- Exports
  JudgeOutputs <- Contradicting
  Versions = {}
  ClockSteps = {1}
  MaxRequests = 2
  MaxCrashes = 0
SYMMETRY WorkerSymmetry
PROPERTY ImportIsAtomic

\* Two workers, an OTLP export of two traces, scheduling fairness.
SPECIFICATION FairSpec
CONSTANTS
  t1 = t1  t2 = t2  good = good  bad = bad  leaky = leaky  w1 = w1  w2 = w2  v1 = v1
  None = None
  TraceIds <- TwoTraces
  Contents = {good, bad}
  Passing = {good}
  PrivacySafe = {good, bad}
  Resolutions <- ShortNotes
  Workers = {w1, w2}
  Operations = {"import", "judge"}
  Batches <- Exports
  JudgeOutputs <- AgreeOrContradict
  Versions = {v1}
  ClockSteps = {1}
  MaxRequests = 3
  MaxCrashes = 0
PROPERTIES EveryCallReturns StoredIsEvaluated

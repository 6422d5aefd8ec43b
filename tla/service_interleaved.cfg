\* Two workers on one trace that is sent again under other payloads.
SPECIFICATION Spec
CONSTANTS
  t1 = t1  t2 = t2  good = good  bad = bad  leaky = leaky  w1 = w1  w2 = w2  v1 = v1
  None = None
  TraceIds <- OneTrace
  Contents = {good, bad, leaky}
  Passing = {good}
  PrivacySafe = {good, bad}
  Resolutions <- ShortNotes
  Workers = {w1, w2}
  Operations = {"import", "judge", "queue", "resolve"}
  Batches <- Resent
  JudgeOutputs <- AgreeOrContradict
  Versions = {}
  ClockSteps = {0, 1}
  MaxRequests = 4
  MaxCrashes = 0
SYMMETRY WorkerSymmetry
INVARIANTS ReadsStayValid ReviewBoundToEvidence
PROPERTIES NeverReopened

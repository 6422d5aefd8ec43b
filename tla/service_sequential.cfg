\* Calls one after the other, every operation, one of them cut short anywhere.
SPECIFICATION Spec
CONSTANTS
  t1 = t1  t2 = t2  good = good  bad = bad  leaky = leaky  w1 = w1  w2 = w2  v1 = v1
  None = None
  TraceIds <- OneTrace
  Contents = {good, bad, leaky}
  Passing = {good}
  PrivacySafe = {good, bad}
  Resolutions <- ShortNotes
  Workers = {w1}
  Operations = {"import", "judge", "queue", "resolve", "export", "derive"}
  Batches <- Resent
  JudgeOutputs <- AnyOutput
  Versions = {v1}
  ClockSteps = {1}
  MaxRequests = 5
  MaxCrashes = 1
INVARIANTS TypeOK QuiescentAgreement ReportedIsQueued
  OneReviewPerEvidence LabelsAreDecisions
PROPERTIES ImportLeavesAgreement ImplementsLedger

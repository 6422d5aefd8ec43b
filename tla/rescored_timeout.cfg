\* One trial that times out while its run completes, then a rescore.
SPECIFICATION Spec
CONSTANTS
  None = None
  Plan <- OneAnswer
  EndStatuses = {"failed", "cancelled"}
  Timeout = 1
  Grace = 1
  CancelOnTimeout = TRUE
  Judgments <- SomeJudgments
  MaxFaults = 0
INVARIANT RescoreKeepsErrors

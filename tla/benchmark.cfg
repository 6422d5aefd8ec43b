\* Two trials, faults everywhere, a second start in the same directory.
SPECIFICATION FairSpec
CONSTANTS
  None = None
  Plan <- AnswerThenAsk
  EndStatuses = {"failed"}
  Timeout = 1
  Grace = 1
  CancelOnTimeout = TRUE
  Judgments <- SomeJudgments
  MaxFaults = 1
INVARIANTS TypeOK ResultsAreFounded OverlapIsReported CapturedNeverPasses
  BoundsCoverPasses RescoreUsesOwnClaims
PROPERTIES ReportIsFinal BenchmarkEnds

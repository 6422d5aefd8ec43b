\* A GEPA experiment with two metric calls, then either gate.
SPECIFICATION FairSpec
CONSTANTS
  None = None
  Outcomes <- SomeOutcomes
  MaxResponse = 1
  Candidates = {seed, better, broken}
  Seed = seed
  Unbound = {broken}
  TrainingTasks <- OneTask
  ValidationTasks <- TwoTasks
  StabilityTasks <- OneTask
  MaxMetricCalls = 2
  ValidationPolicy <- Strict
  StabilityPolicy <- TwoTrials
INVARIANTS TypeOK ScoreIsEarned PromotionIsEvidenced ReportRemembersTraces TrialsAlternate
PROPERTIES StagesEnd

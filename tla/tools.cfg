\* One job of each tool, over small inputs.
SPECIFICATION Spec
CONSTANTS
  None = None
  MaxAttempts = 2
  Spans = 3
  SpanBudget = 2
  ClaimEvidence <- FourClaims
  MaxClaims = 2
  SampleKinds <- SomeSamples
  SampleTasks <- ThreeSamples
  MiningPolicy <- TwoPerSignature
  Digest <- TwoDigests
  TrainRatio = 80
  ValidationRatio = 10
  AuditTasks <- TwoAuditTasks
  AuditTrials = 1
  Policies <- SomePolicies
  Bundles <- SomeBundles
  Replacements <- SomeReplacements
  MaxReplacements = 1
  EventBudget = 4
  Repairable = {"report"}
  FaultSources <- SomeSnapshots
  FaultCases <- AllFaults
  Batches <- SomeBatches
  PromotionPolicies <- SomeGates
  BaselineReports <- SomeBaselines
  CandidateReports <- SomeCandidates
  ManifestTasks <- ThreeTasks
  ChallengePolicy <- TwoOfThree
  RegressionPolicies <- SomeRegressionPolicies
  MaxWire = 3
  MaxDecoded = 2
  MaxChunk = 2
  MaxRuns = 2
  Queues <- SomeQueues
  TrialReports <- SomeTrialReports
  CalibrationManifests <- SomeCalibrations
INVARIANTS AnswersAreGrounded QueueIsShared CurationKeepsTasksTogether
  ReadyIsWarranted TrajectoriesAreSound CalibrationIsEarned PromotionsDoNotRegress
  ChallengeCoversFailures FaultsAreDetected BodyIsBounded ExitTellsVerdict ReportHasItsManifest
PROPERTIES JobsEnd

SPECIFICATION Spec
CONSTANTS
  Deployment = {d1}
  Endpoint = {e1}
  Worker = {w1}
  TargetChoices <- AllTargets
  HasPolicy = {}
  MaxRuns = 1
  MaxRetries = 1
  MaxAttempts = 2
  FetchLimit = 2
  Budgets <- OneCancel
  FetchAfterCommit = TRUE
  FinalizeAfterCommit = TRUE
PROPERTY SkippedStaysSkipped
CHECK_DEADLOCK FALSE

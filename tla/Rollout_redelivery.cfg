SPECIFICATION Spec
CONSTANTS
  Deployment = {d1}
  Endpoint = {e1}
  Worker = {w1, w2}
  TargetChoices <- AllTargets
  HasPolicy = {}
  MaxRuns = 2
  MaxRetries = 1
  MaxAttempts = 2
  FetchLimit = 2
  Budgets <- OneRedelivery
  FetchAfterCommit = TRUE
  FinalizeAfterCommit = TRUE
INVARIANT DoneMeansDone
CHECK_DEADLOCK FALSE

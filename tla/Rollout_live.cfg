SPECIFICATION FairSpec
CONSTANTS
  Deployment = {d1}
  Endpoint = {e1, e2}
  Worker = {w1, w2}
  TargetChoices <- AllOrNone
  HasPolicy = {}
  MaxRuns = 1
  MaxRetries = 1
  MaxAttempts = 2
  FetchLimit = 2
  Budgets <- AgentFaults
  FetchAfterCommit = TRUE
  FinalizeAfterCommit = TRUE
INVARIANTS DoneMeansDone CountsAreTrue
PROPERTIES ImplementsLifecycle RolloutEnds
CHECK_DEADLOCK FALSE

SPECIFICATION Spec
CONSTANTS
  Deployment = {d1}
  Endpoint = {e1}
  Worker = {w1, w2}
  TargetChoices <- AnyTargets
  HasPolicy = {d1}
  MaxRuns = 2
  MaxRetries = 1
  MaxAttempts = 2
  FetchLimit = 1
  Budgets <- AnyTwoFaults
  FetchAfterCommit = FALSE
  FinalizeAfterCommit = FALSE
SYMMETRY Fleet
INVARIANTS TypeOK RollbackHasSnapshot NoTaskVanishes InstallsBounded
PROPERTY ResultStays
CHECK_DEADLOCK FALSE

SPECIFICATION FairSpec
CONSTANTS
  Agent = {a1, a2}
  Token = {t1}
  NoToken = NoToken
  MaxId = 3
  MaxAttempts = 2
  Budgets <- Faults
INVARIANTS TypeOK TokenSpentOnce NoGhosts
PROPERTIES DecommissionSticks DecommissionedGoesOffline AgentKeepsReporting
CHECK_DEADLOCK FALSE

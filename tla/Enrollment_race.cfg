SPECIFICATION Spec
CONSTANTS
  Agent = {a1, a2}
  Token = {t1}
  NoToken = NoToken
  MaxId = 3
  MaxAttempts = 2
  Budgets <- NoFault
INVARIANT OneEndpointPerToken
CHECK_DEADLOCK FALSE

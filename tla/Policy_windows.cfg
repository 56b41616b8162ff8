SPECIFICATION FairSpec
CONSTANTS
  p1 = p1
  p2 = p2
  e1 = e1
  e2 = e2
  g1 = g1
  o1 = o1
  x1 = x1
  PolicyId = {p1, p2}
  Endpoint = {e1, e2}
  Group = {g1}
  Org = {o1}
  Patch = {x1}
  Null = Null
  Empty = Empty
  Days = 2
  DayLen = 6
  PollPeriod = 2
  MaxLate = 1
  Window <- Windows
  PolicyChoice <- Policies
  UpdateChoice <- Bodies
  FleetChoice <- Fleet
  Budgets <- Worlds
INVARIANTS TypeOK WindowMeaning NotPastTheWindow ReachMatches DryRunAgrees
PROPERTIES WaitEnds
CHECK_DEADLOCK FALSE

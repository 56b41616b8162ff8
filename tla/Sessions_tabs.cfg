SPECIFICATION FairSpec
CONSTANTS
  Worker = {w1, w2}
  NoKey = NoKey
  t1 = t1
  t2 = t2
  Tab = {t1, t2}
  Req <- ThreeRequests
  MaxLogins = 1
  MaxPair = 4
  Budgets <- Worlds
INVARIANTS TypeOK KeysBelongTogether OneLiveKey LogoutEnds
PROPERTIES InnocentStays RequestsEnd
CHECK_DEADLOCK FALSE

SPECIFICATION FairSpec
CONSTANTS
  Socket = {s1, s2}
  Beat = {h1}
  Report = {r1}
  MaxAttempts = 3
INVARIANTS TypeOK AtMostOnce MissedOnlyByShift FailuresBounded
PROPERTIES ReportTaken ClosedLeaves
CHECK_DEADLOCK FALSE

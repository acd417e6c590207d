SPECIFICATION FairSpec
CONSTANTS
  Chains = {c1, c2}
  Users = {u1}
  Threshold = 2
  MaxSessions = 2
  MaxStarts = 2
  MaxAttempts = 2
  MaxFaults = 1
INVARIANTS TypeOK SlotsReturned
PROPERTIES SessionsKept StopEnds
CHECK_DEADLOCK FALSE

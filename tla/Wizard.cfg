CONSTANTS
  Workers = {w1, w2}
  Boots = {b1}
  h1 = h1
  h2 = h2
  Hosts <- MCHosts
  Vps <- MCVps
  None = None
  Torn = Torn
  MaxSessions = 1
  MaxFaults = 1
SPECIFICATION Spec
INVARIANTS TypeOK CommitIsPrepared CommitCarried
CHECK_DEADLOCK FALSE

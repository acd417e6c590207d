CONSTANTS
  Connects = {c1, c2}
  Disconnects = {d1, d2}
  MaxConnecting = 1
  MaxDisconnecting = 2
  MaxFaults = 1
  MaxRestarts = 1
  MaxLosses = 2
  None = None
SPECIFICATION FairSpec
INVARIANTS TypeOK RunningIsWatched DisconnectEffective
  
CHECK_DEADLOCK FALSE

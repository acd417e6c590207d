CONSTANTS
  Adders = {a1, a2}
  Removers = {}
  LastIP = 3
  NoIP = NoIP
  NoOne = NoOne
  NoFile = NoFile
  SaveConfig = FALSE
  MaxInFlight = 2
  MaxFailures = 0
  MaxReboots = 0
SPECIFICATION PeersSpec
INVARIANTS UniqueIPs
CHECK_DEADLOCK FALSE

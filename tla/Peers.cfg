CONSTANTS
  Adders = {a1, a2, a3}
  Removers = {x1}
  LastIP = 3
  NoIP = NoIP
  NoOne = NoOne
  NoFile = NoFile
  SaveConfig = TRUE
  MaxInFlight = 2
  MaxFailures = 1
  MaxReboots = 1
SPECIFICATION PeersSpec
SYMMETRY Symmetry
INVARIANTS PeersTypeOK AddressKept RemovedIsGone
CHECK_DEADLOCK FALSE

CONSTANTS
  s1 = s1
  s2 = s2
  h1 = h1
  h2 = h2
  PortCreators = {p1}
  ApiCreators = {a1}
  Exposers = {e1}
  PortRemovers = {d1}
  ApiRemovers = {x1}
  Subs = {s1, s2}
  Hosts = {h1, h2}
  Fqdn <- SharedHost
  NoHost = NoHost
  NoSub = NoSub
  NoId = NoId
  ForeignRoutes = 0
  MaxInFlight = 2
  MaxFaults = 1
  MaxRestarts = 1
SPECIFICATION Spec
SYMMETRY Symmetry
INVARIANTS TypeOK UniqueSubdomains AcceptedStored
PROPERTIES OnlyTargetsLeave
CHECK_DEADLOCK FALSE

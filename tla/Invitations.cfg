CONSTANTS
  Tokens = {k1, k2}
  Peers = {p1}
  Clients = {c1}
  Requests = {r1}
  None = None
  Lifetimes = {1}
  Window = 2
  MaxAttempts = 2
  MaxTime = 3
  MaxInvites = 2
  MaxFaults = 1
SPECIFICATION InviteSpec
SYMMETRY Interchangeable
INVARIANTS InviteTypeOK FoundAsAsked CreatedIsFound RateBound
CHECK_DEADLOCK FALSE

CONSTANTS
  Tokens = {t1, t2}
  Prefixes = {p1}
  Prefix <- SamePrefix
  Requests = {r1, r2, r3}
  Revokers = {v1}
  TTL = 2
  JwtTTL = 1
  MaxLife = 1
  MaxWork = 1
  MaxTime = 4
  MaxFaults = 1
  MaxRestarts = 1
  Never = Never
  None = None
SPECIFICATION Spec
PROPERTIES NoGrace
CHECK_DEADLOCK FALSE

SPECIFICATION Spec
CONSTANTS
  w1 = w1
  w2 = w2
  Writers = {w1, w2}
  Clones = {}
  Subs = {s1}
  Hub = hub
  None = none
  Filters <- MCFilters
  Cap = 2
  NotifyCap = 1
  BufCap = 1
  MaxRecords = 3
INVARIANTS TypeOK NothingSkipped SendsAreSafe
CHECK_DEADLOCK FALSE

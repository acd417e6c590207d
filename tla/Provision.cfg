CONSTANTS
  Runs = {r1, r2}
  Hosts = {h1, h2}
  None = None
  Answers = {"healthy", "not_found"}
  MaxPolls = 2
  MaxGen = 3
  MaxFaults = 2
SPECIFICATION Spec
SYMMETRY Interchangeable
INVARIANTS TypeOK ServerMatches TaskHasRun
CHECK_DEADLOCK FALSE

SPECIFICATION FairSpec
CONSTANTS
  s1 = s1
  s2 = s2
  a1 = a1
  a2 = a2
  a3 = a3
  r1 = r1
  r2 = r2
  None = None
  Slots = {s1, s2}
  Applications = {a1, a2}
  Requests = {r1, r2}
  Endpoints = {"book", "validate"}
  Capacities = {2}
  Overlap = TRUE
  MaxMoves = 1
  Crashes = FALSE
PROPERTIES
  EverythingCompletes
CHECK_DEADLOCK FALSE

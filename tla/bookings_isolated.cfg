SPECIFICATION Spec
CONSTANTS
  s1 = s1
  s2 = s2
  a1 = a1
  a2 = a2
  a3 = a3
  r1 = r1
  r2 = r2
  None = None
  Slots = {s1, s2}
  Applications = {a1, a2, a3}
  Requests = {r1, r2}
  Endpoints = {"book", "edit", "cancel", "validate"}
  Capacities = {1, 2}
  Overlap = FALSE
  MaxMoves = 1
  Crashes = TRUE
SYMMETRY Anonymous
INVARIANTS
  SlotStatusTrue
  PaidAsRecorded
PROPERTIES
  CancelledIsFinal
CHECK_DEADLOCK FALSE

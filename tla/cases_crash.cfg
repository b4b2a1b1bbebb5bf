SPECIFICATION Spec
CONSTANTS
  a1 = a1
  a2 = a2
  a3 = a3
  r1 = r1
  r2 = r2
  ana = ana
  ben = ben
  eva = eva
  evo = evo
  max = max
  None = None
  Applications = {a1}
  Owner <- JustAna
  Evaluators = {eva, evo}
  Approvers = {evo, max}
  Requests = {r1}
  Endpoints = {"create", "submit", "update", "recommend", "decline", "decide"}
  SameOwner = FALSE
  ClientStatuses = {"in_approval", "approved", "draft"}
  Payloads = {"p", "q"}
  MaxTasks = 1
  MaxArchives = 1
  MaxReopenings = 0
  Crashes = TRUE
INVARIANTS
  SeparationOfDuties
PROPERTIES
  LockedStaysAsIs
CHECK_DEADLOCK FALSE

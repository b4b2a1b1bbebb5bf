SPECIFICATION Spec
CONSTANTS
  a1 = a1
  a2 = a2
  a3 = a3
  r1 = r1
  r2 = r2
  ana = ana
  ben = ben
  eva = eva
  evo = evo
  max = max
  None = None
  Applications = {a1}
  Owner <- JustAna
  Evaluators = {eva, evo}
  Approvers = {evo, max}
  Requests = {r1, r2}
  Endpoints = {"create", "submit", "recommend", "decide"}
  SameOwner = TRUE
  ClientStatuses = {}
  Payloads = {"p"}
  MaxTasks = 1
  MaxArchives = 0
  MaxReopenings = 0
  Crashes = FALSE
INVARIANTS
  SeparationOfDuties
SYMMETRY Replicas
CHECK_DEADLOCK FALSE

SPECIFICATION Spec
CONSTANTS
  a1 = a1
  a2 = a2
  a3 = a3
  r1 = r1
  r2 = r2
  ana = ana
  ben = ben
  eva = eva
  evo = evo
  max = max
  None = None
  Applications = {a1}
  Owner <- JustAna
  Evaluators = {eva}
  Approvers = {max}
  Requests = {r1, r2}
  Endpoints = {"create", "submit", "update", "recommend", "decide"}
  SameOwner = TRUE
  ClientStatuses = {"approved"}
  Payloads = {"p"}
  MaxTasks = 1
  MaxArchives = 1
  MaxReopenings = 1
  Crashes = FALSE
INVARIANTS
  EndorsedBeforeDecided
  PaidOnlyIfApproved
SYMMETRY Replicas
CHECK_DEADLOCK FALSE

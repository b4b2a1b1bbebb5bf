SPECIFICATION Spec
CONSTANTS
  a1 = a1
  a2 = a2
  a3 = a3
  r1 = r1
  r2 = r2
  ana = ana
  ben = ben
  eva = eva
  evo = evo
  max = max
  None = None
  Applications = {a1, a2, a3}
  Owner <- TwoAndOne
  Evaluators = {eva, evo}
  Approvers = {evo}
  Requests = {r1, r2}
  Endpoints = {"create", "submit", "recommend", "decline", "decide"}
  SameOwner = FALSE
  ClientStatuses = {}
  Payloads = {"p"}
  MaxTasks = 1
  MaxArchives = 1
  MaxReopenings = 0
  Crashes = FALSE
INVARIANTS
  TypeOK
  NoStrandedCase
PROPERTIES
  DeclineIsTerminal
  ImplementsLifecycle
SYMMETRY Replicas
CHECK_DEADLOCK FALSE

SPECIFICATION FairSpec
CONSTANTS
  a1 = a1
  a2 = a2
  a3 = a3
  r1 = r1
  r2 = r2
  ana = ana
  ben = ben
  eva = eva
  evo = evo
  max = max
  None = None
  Applications = {a1, a2}
  Owner <- OneOwner
  Evaluators = {eva}
  Approvers = {eva, max}
  Requests = {r1}
  Endpoints = {"create", "submit", "update", "recommend", "decline", "decide"}
  SameOwner = FALSE
  ClientStatuses = {"approved", "draft"}
  Payloads = {"p"}
  MaxTasks = 1
  MaxArchives = 0
  MaxReopenings = 0
  Crashes = FALSE
INVARIANTS
  OneAidAtATime
PROPERTIES
  EveryCaseDecided
CHECK_DEADLOCK FALSE

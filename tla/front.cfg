CONSTANTS
  o = o
  p = p
  q = q
  n1 = n1
  n2 = n2
  Nodes = {n1, n2}
  Clients = {o, p, q}
  Operators = {o}
  KeyOf <- Key1
  BodyOf <- Body1
  Starts <- Starts1
  First = n1
  None = None
  MaxTries = 3
  MaxChanges = 1
  MaxFaults = 1
SPECIFICATION Spec
INVARIANTS OneOutcomePerKey ReadsOwnWrites
PROPERTIES EveryoneFinishes
CHECK_DEADLOCK FALSE

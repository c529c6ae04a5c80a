CONSTANTS
  Node <- ThreeNodes
  Elections <- TwoRivals
  MaxSlot = 2
  Value = {}
  NoOp = noop
  Window = 2
  QueueLimit = 1
  LearnBatch = 1
  MaxReads = 1
  Scope <- RivalsRead
SPECIFICATION Spec
INVARIANTS ReadsAreFresh
CONSTRAINT OneReader

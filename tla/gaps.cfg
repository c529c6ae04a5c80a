CONSTANTS
  Node <- ThreeNodes
  Elections <- Comeback
  MaxSlot = 3
  Value = {v1}
  NoOp = noop
  Window = 3
  QueueLimit = 1
  LearnBatch = 1
  MaxReads = 0
  Scope <- OneTimeouts
SPECIFICATION GapSpec
INVARIANTS GapRule
CONSTRAINT Partitioned

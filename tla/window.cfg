CONSTANTS
  Node <- TwoNodes
  Elections <- OneLeader
  MaxSlot = 3
  Value = {v1, v2}
  NoOp = noop
  Window = 1
  QueueLimit = 2
  LearnBatch = 1
  MaxReads = 0
  Scope <- Timers
SPECIFICATION Spec
INVARIANTS QueueOnlyWhenFull

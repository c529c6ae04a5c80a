CONSTANTS
  Node <- TwoNodes
  Elections <- Comeback
  MaxSlot = 2
  Value = {v1}
  NoOp = noop
  Window = 2
  QueueLimit = 1
  LearnBatch = 1
  MaxReads = 0
  Scope <- Faults
SPECIFICATION Spec
INVARIANTS Agreement OneValuePerBallot
PROPERTIES ImplementsAgreedLog ChosenIsStable

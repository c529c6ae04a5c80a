CONSTANTS
  a1 = a1
  a2 = a2
  a3 = a3
  v1 = v1
  v2 = v2
  Acceptors <- MCAcceptors
  Proposers <- MCProposers
  Values <- MCValues
  NoValue = nil
  Attempts <- MCAttempts
SPECIFICATION Spec
INVARIANTS OneValuePerBallot
PROPERTIES ImplementsAgreedLog
SYMMETRY Symmetric
CONSTRAINT TwoAttempts

CONSTANTS
  Key = {promise, slot}
  Replica <- TwoReplicas
  MaxVersion = 2
  Event <- Faults
SPECIFICATION Spec
INVARIANTS AckedSurvives OneOwner NeverRefused
PROPERTIES CutsOnlyTheTail
CONSTRAINT FewUnsynced

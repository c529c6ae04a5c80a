CONSTANTS
  Key = {promise}
  Replica <- OneReplica
  MaxVersion = 2
  Event <- KillThenPower
SPECIFICATION Spec
INVARIANTS LoadedSurvives

SPECIFICATION Spec
CONSTANTS
  Keys <- MCKeys
  Ids <- MCIds
  Players <- MCPlayers
  Jurisdictions <- MCJurisdictions
  MaxEntryFee = 100
  MaxEntrantsBound = 10
  MaxPrizePlaces = 5
  MaxTotalScore = 1
  Commands <- MCCommands
INVARIANTS
  PaidExactlyOnce
  StandingsHold
  EligibilityHolds
  TiesShareEvenly
  PoolIsBacked
PROPERTY SettledIsFinal
CONSTRAINT FewRejections

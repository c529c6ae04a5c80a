SPECIFICATION PlaySpec
CONSTANTS
  Keys <- MCKeys
  Ids <- MCIds
  Players <- MCPlayers
  Jurisdictions <- MCJurisdictions
  MaxEntryFee = 100
  MaxEntrantsBound = 10
  MaxPrizePlaces = 5
  MaxTotalScore = 12
  Commands <- MCCommands
  ColumnCount = 2
  ColumnDepth = 1
  StockSize = 1
  Rounds = 2
  PointsPerCard = 2
  ClearBonus = 1
  StockBonus = 1
  Seeds <- MCSeeds
  Deck <- MCDeck
  Devices <- MCDevices
  Times <- MCTimes
  RoundLimit = 1
  PageSize = 1
  MaxSlot = 17
INVARIANTS
  RetriesAgree
  OneIntentPerSeq
  SessionsHold
  ScoresAreEarned
  HintsAreRight
  LiveBoardAgrees
  ClaimsHold
  PagesAreComplete
PROPERTIES
  ViewsHold
  BoardChangesAnnounced
CONSTRAINT Bounded
CHECK_DEADLOCK FALSE

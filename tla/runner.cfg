CONSTANTS
  Client <- Clients
  Reader <- Readers
  Consistent <- OneConsistent
  KeyOf <- Keys
  BodyOf <- Bodies
  Crews <- Groups
  NoOp = noop
  MaxLog = 2
  MayCancel <- Everyone
SPECIFICATION FairSpec
INVARIANTS AnswersAgreeWithLog SnapshotBeforeAnswer NobodyForgotten BarrierHolds
PROPERTIES CommittedIsApplied

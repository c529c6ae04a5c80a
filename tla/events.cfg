\* Three players on one replica that takes two polls; a makes two requests, so that
\* the second can supersede the first or follow a page that was cut, b shares the
\* scans, and c may be refused.  Only a1 meets a fault, so that a2 can follow it.
CONSTANTS
  a = a
  b = b
  c = c
  a1 = a1
  a2 = a2
  b1 = b1
  c1 = c1
  board = board
  own = own
  Players = {a, b, c}
  Requests = {a1, a2, b1, c1}
  PlayerOf <- Owner
  MaxEventPolls = 2
  PageSize = 2
  Kinds = {board, own}
  Boards = {board}
  Slots <- SlotKinds
  Waiting = {a1, b1}
  Start <- Cursors
  None = None
  MaxSlot = 2
  Faulty = {a1}
  MaxFaults = 1
SPECIFICATION Spec
INVARIANTS AnswersAreExact EachEventOnce RegisteredIffOpen
PROPERTIES DueRequestsEnd
CHECK_DEADLOCK FALSE

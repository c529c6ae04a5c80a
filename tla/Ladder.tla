------------------------------- MODULE Ladder -------------------------------
(***************************************************************************)
(* internal/game: the card puzzle a round of a tournament plays.  A board  *)
(* is a function of the seed it was dealt from and of the moves made on    *)
(* it.  The dimensions of the board are parameters; what a seed deals is   *)
(* any order of different cards.                                           *)
(***************************************************************************)
EXTENDS Integers, Sequences, SequencesExt, FiniteSetsExt

CONSTANTS
  ColumnCount, ColumnDepth, StockSize,     \* the dimensions of a board
  Rounds,                                  \* rounds of one entry
  PointsPerCard, ClearBonus, StockBonus,   \* scoring
  Seeds,                                   \* the seeds leaders derive
  Deck                                     \* Deck[s]: the order Shuffle gives

TableauSize == ColumnCount * ColumnDepth
MaxRoundScore == TableauSize * PointsPerCard + ClearBonus + StockSize * StockBonus

ASSUME LadderAssumption ==
  /\ {ColumnCount, ColumnDepth, Rounds, PointsPerCard} \subseteq Nat \ {0}
  /\ {StockSize, ClearBonus, StockBonus} \subseteq Nat
  /\ DOMAIN Deck = Seeds
  /\ \A s \in Seeds : /\ Deck[s] \in [1..TableauSize + 1 + StockSize -> 0..51]
                      /\ IsInjective(Deck[s])

Rank(card) == card \div 4 + 1

\* One rank apart; an ace and a king are.
Adjacent(a, b) == (Rank(a) - Rank(b)) % 13 \in {1, 12}

\* Deal: the columns from the start of the deck, one card on the waste, the
\* rest in the stock.
Deal(seed) ==
  LET deck == Deck[seed]
  IN [columns |-> [c \in 0..ColumnCount - 1 |->
                     SubSeq(deck, c * ColumnDepth + 1, (c + 1) * ColumnDepth)],
      waste |-> <<deck[TableauSize + 1]>>,
      stock |-> SubSeq(deck, TableauSize + 2, Len(deck))]

WasteCard(b) == Last(b.waste)

Cleared(b) ==
  TableauSize - SumFunction([c \in DOMAIN b.columns |-> Len(b.columns[c])])

BoardScore(b) ==
  PointsPerCard * Cleared(b)
    + IF Cleared(b) = TableauSize THEN ClearBonus + StockBonus * Len(b.stock) ELSE 0

Playable(b) ==
  {c \in DOMAIN b.columns :
     b.columns[c] # <<>> /\ Adjacent(Last(b.columns[c]), WasteCard(b))}

NotOver == "none"

\* Why the round has ended by itself, or NotOver.
Over(b) ==
  IF Cleared(b) = TableauSize THEN "cleared"
  ELSE IF b.stock = <<>> /\ Playable(b) = {} THEN "blocked" ELSE NotOver

NoColumn == -1
PlayOf(c) == [kind |-> "play", column |-> c]
DrawOne == [kind |-> "draw", column |-> NoColumn]

\* Check: the shape of the move, then whether the round is over, then the cards.
Legal(b, m) ==
  /\ \/ m.kind = "play" /\ m.column \in 0..ColumnCount - 1
     \/ m.kind = "draw" /\ m.column = NoColumn
  /\ Over(b) = NotOver
  /\ IF m.kind = "draw" THEN b.stock # <<>> ELSE m.column \in Playable(b)

\* Apply of a legal move.
Moved(b, m) ==
  IF m.kind = "draw"
  THEN [b EXCEPT !.waste = Append(@, Head(b.stock)), !.stock = Tail(@)]
  ELSE [b EXCEPT !.waste = Append(@, Last(b.columns[m.column])),
                 !.columns[m.column] = Front(@)]

\* A move of game.Replay: an illegal one ends it.
Replayed(s, m) ==
  IF s.stuck \/ ~Legal(s.board, m) THEN [s EXCEPT !.stuck = TRUE]
  ELSE [s EXCEPT !.board = Moved(s.board, m)]

\* game.Replay: the board of the longest legal prefix of the moves.
BoardOf(seed, moves) ==
  FoldLeft(Replayed, [board |-> Deal(seed), stuck |-> FALSE], moves).board

=============================================================================

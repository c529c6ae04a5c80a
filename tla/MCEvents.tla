------------------------------ MODULE MCEvents ------------------------------
EXTENDS Events

CONSTANTS a, b, c, a1, a2, b1, c1, board, own

Owner == (a1 :> a) @@ (a2 :> a) @@ (b1 :> b) @@ (c1 :> c)

\* The client of b has polled a replica that is ahead of this one.
Cursors == [p \in Players |-> IF p = b THEN 1 ELSE 0]

\* The leaderboard of the tournament of a and b changes, by a round of a, which is
\* told so, or of somebody else; c has entered none.
Standing == [p \in Players |-> IF p = c THEN {} ELSE {board}]
Round == [Standing EXCEPT ![a] = {board, own}]
SlotKinds == {Round, Standing}
=============================================================================

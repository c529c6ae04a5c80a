------------------------------ MODULE ReplogGaps ------------------------------
(***************************************************************************)
(* The gap rule of the simulation checker (S6), checked against the nodes. *)
(* The history variable late records what Checker.proposedWhenMax does:    *)
(* the client values first proposed for a slot when a higher slot was      *)
(* already chosen.                                                         *)
(***************************************************************************)
EXTENDS Replog

VARIABLE late

ChosenAbove(s) == \E n \in Node, t \in Slots : t > s /\ Known(n, t)

FirstProposed ==
  {p \in proposed' : \A q \in proposed : q.slot # p.slot \/ q.value # p.value}

GapInit == Init /\ late = {}

GapNext ==
  /\ Next
  /\ late' = late \cup {<<p.slot, p.value>> :
       p \in {q \in FirstProposed : q.value # NoOp /\ ChosenAbove(q.slot)}}

GapSpec == GapInit /\ [][GapNext]_<<vars, late>>

\* S6 as ADR 0007 and recordChosen state it: a value first proposed for a slot
\* after a higher slot was chosen is never chosen, unless it is the no-op. A
\* leader that was replaced and does not know it yet breaks it: its late
\* proposal is taken up again by its own next election.
GapRule ==
  \A n \in Node, s \in Slots :
    Known(n, s) => <<s, chosen[n][s].value>> \notin late
=============================================================================

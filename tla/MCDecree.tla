------------------------------ MODULE MCDecree ------------------------------
(* Three acceptors and two values; any two of three attempts happen: of two  *)
(* proposers in either order, or of one that starts again.                   *)
EXTENDS Decree, TLC

CONSTANTS a1, a2, a3, v1, v2

MCAcceptors == {a1, a2, a3}
MCProposers == {1, 2}
MCAttempts == {[round |-> 1, node |-> 1], [round |-> 1, node |-> 2], [round |-> 2, node |-> 1]}
MCValues == {v1, v2}

TwoAttempts == Cardinality(Of("prepare")) <= 2

Symmetric == Permutations(MCAcceptors) \cup Permutations(MCValues)

=============================================================================

---------------------------- MODULE MCReplogGaps ----------------------------
(***************************************************************************)
(* An instance of ReplogGaps for TLC.                                      *)
(***************************************************************************)
EXTENDS ReplogGaps

ThreeNodes == {1, 2, 3}

\* Node 1 is elected again after node 2.
Comeback ==
  {[round |-> 1, node |-> 1], [round |-> 1, node |-> 2], [round |-> 2, node |-> 1]}

OneTimeouts == {<<"timeout", 1>>}

\* Bound: nodes 1 and 2 do not hear each other, as in a partition where only
\* node 3 reaches both; no answer of one to the other is followed.
Partitioned ==
  \A m \in msgs :
    m.type \in {"promise", "accepted"} => {m.from, m.ballot.node} # {1, 2}
=============================================================================

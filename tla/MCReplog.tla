------------------------------- MODULE MCReplog -------------------------------
(***************************************************************************)
(* Instances of Replog for TLC.                                            *)
(***************************************************************************)
EXTENDS Replog, TLC

\* Ballots <<round, node>> named by the configurations.
B(r, n) == [round |-> r, node |-> n]

TwoNodes == {1, 2}
ThreeNodes == {1, 2, 3}

\* Two nodes run against each other, once each.
TwoRivals == {B(1, 1), B(1, 2)}
\* Node 1 is elected again after node 2.
Comeback == {B(1, 1), B(1, 2), B(2, 1)}
OneLeader == {B(1, 1)}

\* Scopes named by the configurations.
RivalsRead == {"read"} \X {1, 2}
Faults == {"restart", "store", "learn"} \X Node
Timers == {"timeout", "heartbeat", "learn"} \X Node

\* Bound: the replaced leader reads, or the new one, not both.
OneReader == \E n \in Node : \A k \in Node \ {n} : readSeq[k] = 0
=============================================================================

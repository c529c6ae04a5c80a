------------------------------ MODULE MCFront ------------------------------
EXTENDS Front, TLC

CONSTANTS o, p, q, n1, n2

\* An operator, and a player that has used the key of its command before.
Key1 == (o :> 1) @@ (p :> 2) @@ (q :> 2)
Body1 == (o :> 1) @@ (p :> 1) @@ (q :> 2)

Starts1 == {[crew |-> {o}, log |-> <<>>, at |-> n2],
            [crew |-> {p}, log |-> <<>>, at |-> n2],
            [crew |-> {p}, log |-> <<q>>, at |-> n1]}
=============================================================================

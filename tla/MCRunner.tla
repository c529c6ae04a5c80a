------------------------------ MODULE MCRunner ------------------------------
(***************************************************************************)
(* An instance of Runner for TLC: three callers of Submit, two callers of  *)
(* Read, or one of each.                                                   *)
(***************************************************************************)
EXTENDS Runner

\* Two calls carry the same command, a third reuses its key for another.
Clients == {"first", "retry", "reuse"}
Keys == [c \in Clients |-> "k1"]
Bodies == [c \in Clients |-> IF c = "reuse" THEN "b" ELSE "a"]

Readers == {"r1", "r2"}
OneConsistent == {"r1"}

Everyone == Clients \cup Readers
Groups == {Clients, Readers, {"first", "r1"}}
=============================================================================

------------------------------- MODULE Ballots -------------------------------
(***************************************************************************)
(* The rules of internal/paxos: the ballot order, the majority size, what  *)
(* an acceptor may promise and accept, and which value a proposer must     *)
(* take up from the reports of a promise quorum.                           *)
(*                                                                         *)
(* A ballot is a record [round, node]; node identifiers are positive       *)
(* numbers because the order compares them.                                *)
(***************************************************************************)
EXTENDS Integers, FiniteSets

\* "No ballot": the zero value no proposer ever uses (IsZero).
ZeroBallot == [round |-> 0, node |-> 0]

\* Ballots are ordered by round, then by node.
Less(a, b) ==
  \/ a.round < b.round
  \/ a.round = b.round /\ a.node < b.node

\* Majority size among n participants.
QuorumSize(n) == n \div 2 + 1

\* An acceptor promises only a strictly higher ballot.
MayPromise(promised, b) == Less(promised, b)

\* An acceptor accepts at any ballot that is not below its promise.
MayAccept(promised, b) == ~ Less(b, promised)

\* Plausible slip in Choose (the IgnorePhase1Reports knob): reports are ignored.
Choose_Fallback(reports, fallback) == fallback

\* The value of the report with the highest ballot, or fallback when nothing
\* was reported. Reports with the zero ballot report nothing.
Choose(reports, fallback) ==
  LET real == {r \in reports : r.ballot # ZeroBallot}
  IN  IF real = {} THEN fallback
      ELSE (CHOOSE r \in real : \A q \in real : ~ Less(r.ballot, q.ballot)).value
=============================================================================

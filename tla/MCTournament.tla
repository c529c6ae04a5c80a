---------------------------- MODULE MCTournament ----------------------------
(* A log of up to eleven requests, in any order and repeated: three          *)
(* entrants, a tie or none, two creations, two settlements under different   *)
(* lists, and keys used for more than one request.                           *)
EXTENDS Tournament

Cmd(key, op) == [key |-> key, op |-> op]

List(version, codes) == [version |-> version, jurisdictions |-> codes]

\* Two places and three entrants: a pool of 19 that neither the shares nor a
\* tie divides, and a tie group that may reach below the last paid place.
SplitRules ==
  [entryFee |-> 7, rakeBps |-> 1000, prizeBps |-> <<6500, 3500>>, minEntrants |-> 2,
   maxEntrants |-> 3, maxScore |-> 1, minAge |-> 0, tieBreak |-> "split", game |-> "",
   exclusions |-> List(1, {})]

\* One place, at most two entrants, entry limited by list and age.
StrictRules ==
  [SplitRules EXCEPT !.prizeBps = <<10000>>, !.minEntrants = 1, !.maxEntrants = 2,
     !.minAge = 18, !.tieBreak = "earliest_submission", !.exclusions = List(1, {"YY"})]

Create1(seed, rules) ==
  [name |-> "create", id |-> "t", seed |-> seed, rules |-> rules]

Enter(p, code, age) ==
  [name |-> "join", tournament |-> "t",
   player |-> [id |-> p, jurisdiction |-> code, age |-> age]]

Submit(p, score) ==
  [name |-> "score", tournament |-> "t", player |-> p, score |-> score, dealSeed |-> 1]

MCIds == {"t"}
MCPlayers == {"a", "b", "c"}
MCJurisdictions == {"XX", "YY"}
MCKeys == {"create", "other", "ja", "jb", "jc", "sa", "sb", "sc", "close", "pay", "repay"}

MCCommands ==
  {Cmd("create", Create1(1, SplitRules)), Cmd("create", Create1(2, SplitRules)),
   Cmd("other", Create1(1, StrictRules)),
   Cmd("ja", Enter("a", "XX", 20)), Cmd("jb", Enter("b", "YY", 20)),
   Cmd("jc", Enter("c", "XX", 10)), Cmd("jc", Enter("a", "XX", 20)),
   Cmd("sa", Submit("a", 1)), Cmd("sb", Submit("b", 1)), Cmd("sb", Submit("b", 0)),
   Cmd("sc", Submit("c", 1)),
   Cmd("close", [name |-> "close", tournament |-> "t"]),
   Cmd("pay", [name |-> "settle", tournament |-> "t", exclusions |-> List(2, {})]),
   Cmd("repay", [name |-> "settle", tournament |-> "t", exclusions |-> List(3, {"XX"})]),
   Cmd("", [name |-> "close", tournament |-> "t"])}

\* At most MaxRejections requests are spent on a rejection.  A rejection changes
\* nothing but its own row, so more of them only repeat the same histories with
\* fewer requests.
MaxRejections == 1

FewRejections ==
  Cardinality({k \in Keys : results[k].code \notin {OK, "none"}}) <= MaxRejections

=============================================================================

------------------------------- MODULE MCPlay -------------------------------
(* A log of up to MaxSlot commands around one tournament with a game of two  *)
(* rounds: p plays its boards, q gives its rounds up, and between them come  *)
(* retries with another draw, intents out of sequence and under other keys,  *)
(* the deadline, Close at any moment, Settle and the claims.                 *)
EXTENDS Play

\* Boards of two columns of one card with one card in the stock.  The first is
\* cleared over the corner from ace to king, the second is blocked after a
\* draw and a play, or after the draw alone if the player resigns.
MCSeeds == {1, 2}
MCDeck == (1 :> <<48, 44, 0, 20>>) @@ (2 :> <<16, 32, 48, 12>>)

\* The key of a command, and of the intent a client sends again: a new one for
\* each operation, player and sequence number.
Cmd(key, op) == [key |-> key, op |-> op]
Own(op) == Cmd(<<op.name, op.player, op.seq>>, op)

List(version, codes) == [version |-> version, jurisdictions |-> codes]

GameRules ==
  [entryFee |-> 7, rakeBps |-> 1000, prizeBps |-> <<10000>>, minEntrants |-> 1,
   maxEntrants |-> 2, maxScore |-> MaxTotalScore, minAge |-> 18,
   tieBreak |-> "split", game |-> LadderV1, exclusions |-> List(1, {})]

Open(d, p, v) ==
  [name |-> "open_session", device |-> d, verifier |-> v, player |-> p,
   jurisdiction |-> "XX", age |-> 20]
EnterOp(p, s) == [name |-> "enter", tournament |-> "t", player |-> p, seq |-> s]
Start(p, s, r, seed) ==
  [name |-> "start_round", tournament |-> "t", player |-> p, seq |-> s, round |-> r,
   seed |-> seed]
Move(p, s, r, n, m) ==
  [name |-> "play_move", tournament |-> "t", player |-> p, seq |-> s, round |-> r,
   moveIndex |-> n, move |-> m]
Finish(p, s, r) ==
  [name |-> "finish_round", tournament |-> "t", player |-> p, seq |-> s, round |-> r]
Claim(p, s) == [name |-> "claim_payout", tournament |-> "t", player |-> p, seq |-> s]

\* The operator's commands and the sessions; d is offered r by a leader that
\* handles its retry, e may be offered p.
Setup ==
  {Cmd(<<"create">>, [name |-> "create", id |-> "t", seed |-> 1, rules |-> GameRules]),
   Cmd(<<"close">>, [name |-> "close", tournament |-> "t"]),
   Cmd(<<"settle">>, [name |-> "settle", tournament |-> "t", exclusions |-> List(2, {})]),
   Cmd(<<"open d">>, Open("d", "p", 1)), Cmd(<<"open d">>, Open("d", "r", 1)),
   Cmd(<<"open e">>, Open("e", "p", 1)), Cmd(<<"open e">>, Open("e", "q", 1)),
   Cmd(<<"again">>, Open("d", "r", 1)), Cmd(<<"wrong">>, Open("d", "r", 2)),
   Cmd(<<"join">>, [name |-> "join", tournament |-> "t",
                    player |-> [id |-> "p", jurisdiction |-> "XX", age |-> 20]]),
   Cmd(<<"score">>, [name |-> "score", tournament |-> "t", player |-> "p", score |-> 1,
                     dealSeed |-> 1]),
   Cmd(<<"">>, [name |-> "close", tournament |-> "t"])}

Intents ==
  {Own(EnterOp("p", 1)), Own(EnterOp("p", 2)), Own(Start("p", 2, 1, 1)), Own(Start("p", 2, 1, 2)),
   Own(Move("p", 3, 1, 0, PlayOf(0))), Own(Move("p", 3, 1, 0, DrawOne)),
   Own(Move("p", 4, 1, 1, PlayOf(1))), Own(Move("p", 4, 1, 1, PlayOf(0))),
   Own(Move("p", 5, 1, 1, PlayOf(1))),
   Own(Finish("p", 4, 1)), Own(Finish("p", 5, 1)),
   Own(Start("p", 5, 2, 1)), Own(Finish("p", 6, 2)), Own(Claim("p", 7)), Own(Claim("p", 8)),
   Own(EnterOp("q", 1)), Own(Start("q", 2, 1, 2)), Own(Finish("q", 3, 1)),
   Own(Start("q", 4, 2, 2)), Own(Finish("q", 5, 2))}

MCCommands == Setup \cup Intents
MCKeys == {c.key : c \in MCCommands} \ {<<"">>}
MCIds == {"t"}
MCPlayers == {"p", "q", "r"}
MCDevices == {"d", "e"}
MCTimes == {0, 2}
MCJurisdictions == {"XX", "YY"}

\* Histories are followed as long as the tournament and the two sessions come
\* first, both enter, every slot records a success or round_expired, the
\* tournament closes only once a round was dealt, and at most MaxOdd of these happen: the turn goes
\* from one player to the other, the deadline passes.  Any other command is
\* still tried, and checked, as the last one.
MaxOdd == 1

Turns ==
  LET own == SelectSeq(events, LAMBDA e : e.player # "" /\ e.type # "entry_scored")
  IN Cardinality({i \in 2..Len(own) : own[i].player # own[i - 1].player})

Expired == IF clock > RoundLimit THEN 1 ELSE 0
Dealt == \E k \in RoundKeys : rounds[k] # NoRound

Bounded ==
  /\ applied >= 1 => Created("t")
  /\ applied >= 2 => bindings["d"].player = "p"
  /\ applied >= 3 => bindings["e"].player = "q"
  /\ applied = Cardinality({k \in Keys \ {<<"again">>} : results[k].code \in {OK, "round_expired"}})
  /\ Dealt => Joined(tournaments["t"], "p") /\ Joined(tournaments["t"], "q")
  /\ clock > 0 => Dealt
  /\ tournaments["t"].status \in {"closed", "voided"} => Dealt
  /\ Turns + Expired <= MaxOdd

=============================================================================

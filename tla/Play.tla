-------------------------------- MODULE Play --------------------------------
(***************************************************************************)
(* internal/tournament/play_state.go: tournaments with a game.  A device   *)
(* is bound to a player, the player's intents carry consecutive sequence   *)
(* numbers, the server deals the rounds and judges every move, and what    *)
(* happened is recorded as events.  The views that internal/intent builds  *)
(* from this state are operators of the last section.                      *)
(*                                                                         *)
(* Every command of the log takes one slot and carries the time its leader *)
(* received it; the clock of the state machine is the largest of them.     *)
(*                                                                         *)
(* The indexes shared, own, entered and boardAt of the source are read off *)
(* the events and the entries they index.                                  *)
(***************************************************************************)
EXTENDS Tournament, Ladder

CONSTANTS
  Devices,     \* well-formed device identifiers
  Times,       \* the times at which leaders receive commands
  RoundLimit,  \* game.RoundTimeLimitMs
  PageSize,    \* the number of events a page is cut after
  MaxSlot      \* bound: length of the log

ASSUME PlayAssumption ==
  /\ Times \subseteq Nat
  /\ RoundLimit \in Nat
  /\ PageSize \in Nat \ {0}
  /\ MaxTotalScore = Rounds * MaxRoundScore
  /\ "" \notin Players

\* The intents that carry a sequence number.
Sequenced == {"enter", "start_round", "play_move", "finish_round", "claim_payout"}

\* The fields of the operations.  The API takes the player of an intent from
\* the token of its session, so it is a well-formed one; numbers are unsigned,
\* and the seed of a round is one the leader derives.
ASSUME IntentAssumption ==
  \A c \in Commands :
    /\ c.op.name = "open_session" => {"device", "verifier"} \subseteq DOMAIN c.op
    /\ c.op.name \in Sequenced =>
         /\ {"player", "seq", "tournament"} \subseteq DOMAIN c.op
         /\ c.op.player \in Players /\ c.op.seq \in Nat
    /\ c.op.name \in {"start_round", "play_move", "finish_round"} => "round" \in DOMAIN c.op
    /\ c.op.name = "start_round" => c.op.seed \in Seeds

VARIABLES
  bindings,  \* device -> [verifier, player]
  players,   \* player -> its claims and the last sequence number consumed
  rounds,    \* <<tournament, player, round>> -> round record
  events,    \* the events, in the order they were recorded
  clock,     \* the largest time received
  applied    \* the slot of the last command

playVars == <<bindings, players, rounds, events>>
allVars == <<vars, playVars, clock, applied>>

NoBinding == [verifier |-> 0, player |-> ""]
Unbound == [bound |-> FALSE, jurisdiction |-> "", age |-> 0, lastSeq |-> 0]
NoRound ==
  [status |-> "none", seed |-> 0, moves |-> <<>>, reason |-> "", score |-> 0,
   startedAt |-> 0, deadline |-> 0, finishedAt |-> 0]

RoundKeys == Ids \X Players \X (1..Rounds)

-----------------------------------------------------------------------------
(* Results *)

NoOutcome ==
  [player |-> "", newPlayer |-> FALSE, issuedAt |-> 0, nextSeq |-> 0,
   round |-> 0, moveIndex |-> 0, joinSeq |-> 0, amount |-> 0, slot |-> 0]

\* The outcome of a command in the slot being applied.
Outcome(player, nextSeq) ==
  [NoOutcome EXCEPT !.player = player, !.nextSeq = nextSeq, !.slot = applied + 1]

\* sequenced: the player exists and the sequence number is the next one.
SeqCode(op) ==
  Verdict(<< <<~players[op.player].bound, "unknown_player">>,
             <<op.seq <= players[op.player].lastSeq, "stale_seq">>,
             <<op.seq > players[op.player].lastSeq + 1, "seq_gap">> >>)

\* sequenced: then the tournament exists and takes play commands.
SequencedCode(op) ==
  Verdict(<< <<SeqCode(op) # OK, SeqCode(op)>>,
             <<Unknown(op.tournament), "unknown_tournament">>,
             <<At(op.tournament).rules.game = "", "not_play_tournament">> >>)

\* Plausible slip: a rejected intent gives its sequence number back.
Consume_OnSuccess(op, code) ==
  IF code = OK THEN [players EXCEPT ![op.player].lastSeq = op.seq] ELSE players

\* sequenced: the number is consumed even if the command is rejected later on.
Consume(op, code) ==
  IF SeqCode(op) = OK THEN [players EXCEPT ![op.player].lastSeq = op.seq] ELSE players

\* outcome: the number the next intent carries.
NextSeq(op, code) == IF code = "unknown_player" THEN 0
                     ELSE Consume(op, code)[op.player].lastSeq + 1

\* A sequenced command that is rejected changes nothing but the number.
RejectPlay(cmd, code, out) ==
  /\ code # OK
  /\ Record(cmd, code, out)
  /\ players' = Consume(cmd.op, code)
  /\ UNCHANGED <<tournaments, book, bindings, rounds, events>>

-----------------------------------------------------------------------------
(* Sessions and entries *)

\* Plausible slip: an identifier that is taken is bound again.
OpenCode_Taken(op) ==
  LET bound == op.device \in Devices /\ bindings[op.device] # NoBinding
  IN Verdict(<< <<op.device \notin Devices \/ op.verifier = 0, "invalid_device">>,
                <<bound /\ bindings[op.device].verifier # op.verifier, "device_mismatch">>,
                <<~bound /\ ~ValidatePlayer([id |-> op.player, age |-> op.age,
                                             jurisdiction |-> op.jurisdiction]),
                  "invalid_player">> >>)

OpenCode(op) ==
  LET bound == op.device \in Devices /\ bindings[op.device] # NoBinding
  IN Verdict(<< <<op.device \notin Devices \/ op.verifier = 0, "invalid_device">>,
                <<bound /\ bindings[op.device].verifier # op.verifier, "device_mismatch">>,
                <<~bound /\ ~ValidatePlayer([id |-> op.player, age |-> op.age,
                                             jurisdiction |-> op.jurisdiction]),
                  "invalid_player">>,
                <<~bound /\ players[op.player].bound, "player_exists">> >>)

\* openSession binds the device, or issues a session to the player it is
\* bound to.
OpenSession(cmd, at) ==
  LET op == cmd.op
      code == OpenCode(op)
      known == bindings[op.device].player
      issued(p, n) == [Outcome(p, n) EXCEPT !.issuedAt = at]
  IN /\ Executes(cmd, "open_session")
     /\ UNCHANGED <<tournaments, book, rounds, events>>
     /\ \/ /\ code # OK
           /\ Record(cmd, code, [NoOutcome EXCEPT !.slot = applied + 1])
           /\ UNCHANGED <<bindings, players>>
        \/ /\ code = OK
           /\ bindings[op.device] # NoBinding
           /\ Record(cmd, OK, issued(known, players[known].lastSeq + 1))
           /\ UNCHANGED <<bindings, players>>
        \/ /\ code = OK
           /\ bindings[op.device] = NoBinding
           /\ bindings' = [bindings EXCEPT ![op.device] =
                             [verifier |-> op.verifier, player |-> op.player]]
           /\ players' = [players EXCEPT ![op.player] =
                            [bound |-> TRUE, jurisdiction |-> op.jurisdiction,
                             age |-> op.age, lastSeq |-> 0]]
           /\ Record(cmd, OK, [issued(op.player, 1) EXCEPT !.newPlayer = TRUE])

\* enterPlay: admit with the claims of the binding.
Enter(cmd) ==
  LET op == cmd.op
      t == At(op.tournament)
      p == players[op.player]
      player == [id |-> op.player, jurisdiction |-> p.jurisdiction, age |-> p.age]
      code == Verdict(<< <<SequencedCode(op) # OK, SequencedCode(op)>>,
                         <<TRUE, AdmitCode(t, op.tournament, player)>> >>)
      out == Outcome(op.player, NextSeq(op, code))
      seq == Len(t.entries) + 1
  IN /\ Executes(cmd, "enter")
     /\ \/ RejectPlay(cmd, code, out)
        \/ /\ code = OK
           /\ book' = Post(book, {FeePosting(t, op.tournament, player)})
           /\ tournaments' = [tournaments EXCEPT ![op.tournament].entries =
                Append(@, [player |-> player, joinSeq |-> seq, scored |-> FALSE,
                           score |-> 0, submitSeq |-> 0])]
           /\ players' = Consume(op, code)
           /\ Record(cmd, OK, [out EXCEPT !.joinSeq = seq])
           /\ UNCHANGED <<bindings, rounds, events>>

-----------------------------------------------------------------------------
(* Events.  World is what a command that finishes rounds works on: the       *)
(* record of its tournament, the rounds and the events.                      *)

World(t) == [t |-> t, rounds |-> rounds, events |-> events]

Event(type, id, player, amount) ==
  [slot |-> applied + 1, type |-> type, tournament |-> id, player |-> player,
   amount |-> amount]

\* Plausible slip: only the first change of a tournament is recorded.
RecordLeaderboard_First(evs, id) ==
  LET e == Event("leaderboard_changed", id, "", 0)
  IN IF \E d \in ToSet(evs) : d.type = e.type /\ d.tournament = id THEN evs ELSE Append(evs, e)

\* recordLeaderboard: at most once in a slot.
RecordLeaderboard(evs, id) ==
  LET e == Event("leaderboard_changed", id, "", 0)
  IN IF e \in ToSet(evs) THEN evs ELSE Append(evs, e)

\* recordStatus.
RecordStatus(evs, id) ==
  RecordLeaderboard(Append(evs, Event("tournament_status", id, "", 0)), id)

-----------------------------------------------------------------------------
(* Rounds *)

\* Progress of an entry over the rounds rs.
Progress(rs, id, p) ==
  LET Of(status) == {r \in 1..Rounds : rs[<<id, p, r>>].status = status}
      undealt == Of("none")
  IN [dealt |-> Rounds - Cardinality(undealt),
      finished |-> Cardinality(Of("finished")),
      total |-> SumFunction([r \in Of("finished") |-> rs[<<id, p, r>>].score]),
      reachedAt |-> Max({0} \cup {rs[<<id, p, r>>].finishedAt : r \in Of("finished")}),
      inPlay |-> Max({0} \cup Of("playing")),
      next |-> IF Of("playing") # {} \/ undealt = {} THEN 0 ELSE Min(undealt)]

\* Plausible slip: the round before may still be in play.
DealCode_Ahead(op) ==
  LET t == At(op.tournament)
  IN Verdict(<< <<t.status # "open", "not_open">>,
                <<~Joined(t, op.player), "not_joined">>,
                <<op.round \notin 1..Rounds, "invalid_round">>,
                <<op.round \in 1..Rounds /\ op.tournament \in Ids
                    /\ rounds[<<op.tournament, op.player, op.round>>] # NoRound,
                  "round_already_started">>,
                <<op.round \in 2..Rounds /\ op.tournament \in Ids
                    /\ rounds[<<op.tournament, op.player, op.round - 1>>].status = "none",
                  "previous_round_unfinished">> >>)

\* startRound: the rules after sequenced.
DealCode(op) ==
  LET t == At(op.tournament)
  IN Verdict(<< <<t.status # "open", "not_open">>,
                <<~Joined(t, op.player), "not_joined">>,
                <<op.round \notin 1..Rounds, "invalid_round">>,
                <<op.round \in 1..Rounds /\ op.tournament \in Ids
                    /\ rounds[<<op.tournament, op.player, op.round>>] # NoRound,
                  "round_already_started">>,
                <<op.round \in 2..Rounds /\ op.tournament \in Ids
                    /\ rounds[<<op.tournament, op.player, op.round - 1>>].status # "finished",
                  "previous_round_unfinished">> >>)

StartRound(cmd) ==
  LET op == cmd.op
      code == Verdict(<< <<SequencedCode(op) # OK, SequencedCode(op)>>,
                         <<TRUE, DealCode(op)>> >>)
      out == [Outcome(op.player, NextSeq(op, code)) EXCEPT
                !.round = IF SequencedCode(op) = OK THEN op.round ELSE 0]
  IN /\ Executes(cmd, "start_round")
     /\ \/ RejectPlay(cmd, code, out)
        \/ /\ code = OK
           /\ rounds' = [rounds EXCEPT ![<<op.tournament, op.player, op.round>>] =
                [NoRound EXCEPT !.status = "playing", !.seed = op.seed,
                   !.startedAt = applied + 1, !.deadline = clock' + RoundLimit]]
           /\ events' = Append(events, Event("round_started", op.tournament, op.player, 0))
           /\ players' = Consume(op, code)
           /\ Record(cmd, OK, out)
           /\ UNCHANGED <<tournaments, book, bindings>>

\* Plausible slip: an entry is scored with the round that has just finished.
ScoreEntry_LastRound(w, id, i) ==
  LET p == w.t.entries[i].player.id
      total == w.rounds[<<id, p, Progress(w.rounds, id, p).dealt>>].score
  IN [w EXCEPT
        !.t.entries[i] = [@ EXCEPT !.scored = TRUE, !.score = total,
                                   !.submitSeq = ScoredCount(w.t) + 1],
        !.events = Append(@, Event("entry_scored", id, p, total))]

\* scoreEntry: entry i of tournament id gets the sum of its finished rounds.
ScoreEntry(w, id, i) ==
  LET p == w.t.entries[i].player.id
      total == Progress(w.rounds, id, p).total
  IN [w EXCEPT
        !.t.entries[i] = [@ EXCEPT !.scored = TRUE, !.score = total,
                                   !.submitSeq = ScoredCount(w.t) + 1],
        !.events = Append(@, Event("entry_scored", id, p, total))]

\* finishRound: the round k ends with a reason, its event is recorded, the
\* leaderboard changes unless the tournament is closing, and the last round
\* scores the entry.
FinishWorld(w, k, reason, closing) ==
  LET id == k[1]
      i == EntryOf(w.t, k[2])
      score == BoardScore(BoardOf(w.rounds[k].seed, w.rounds[k].moves))
      evs == Append(w.events, Event("round_finished", id, k[2], score))
      done == [w EXCEPT
                 !.rounds[k] = [@ EXCEPT !.status = "finished", !.reason = reason,
                                         !.score = score, !.finishedAt = applied + 1],
                 !.events = IF closing THEN evs ELSE RecordLeaderboard(evs, id)]
  IN IF k[3] = Rounds /\ ~w.t.entries[i].scored THEN ScoreEntry(done, id, i) ELSE done

\* roundFor: the entry and the round exist.
RoundCode(op) ==
  Verdict(<< <<~Joined(At(op.tournament), op.player), "not_joined">>,
             <<op.round \notin 1..Rounds, "invalid_round">>,
             <<op.round \in 1..Rounds /\ op.tournament \in Ids
                 /\ rounds[<<op.tournament, op.player, op.round>>] = NoRound,
               "round_not_started">> >>)

\* The round a command names, if there is one.
Named(op) ==
  IF SequencedCode(op) = OK /\ RoundCode(op) = OK
  THEN rounds[<<op.tournament, op.player, op.round>>] ELSE NoRound

\* playMove.
MoveCode(op) ==
  LET rec == Named(op)
  IN Verdict(<< <<SequencedCode(op) # OK, SequencedCode(op)>>,
                <<At(op.tournament).status # "open", "not_open">>,
                <<RoundCode(op) # OK, RoundCode(op)>>,
                <<rec.status = "finished", "round_finished">>,
                <<clock' > rec.deadline, "round_expired">>,
                <<op.moveIndex # Len(rec.moves), "move_index_mismatch">>,
                <<rec # NoRound /\ ~Legal(BoardOf(rec.seed, rec.moves), op.move),
                  "illegal_move">> >>)

\* The outcome of a command on a round, with n accepted moves.
RoundOutcome(op, code, n) ==
  [Outcome(op.player, NextSeq(op, code)) EXCEPT
     !.round = IF SequencedCode(op) = OK THEN op.round ELSE 0,
     !.moveIndex = n]

PlayMove(cmd) ==
  LET op == cmd.op
      k == <<op.tournament, op.player, op.round>>
      t == At(op.tournament)
      rec == Named(op)
      code == MoveCode(op)
      early == code = "not_open"
      board == Moved(BoardOf(rec.seed, rec.moves), op.move)
      moved == [World(t) EXCEPT !.rounds[k].moves = Append(@, op.move)]
      w == IF Over(board) = NotOver THEN moved
           ELSE FinishWorld(moved, k, Over(board), FALSE)
  IN /\ Executes(cmd, "play_move")
     /\ \/ RejectPlay(cmd, code, RoundOutcome(op, code, IF early THEN 0 ELSE Len(rec.moves)))
        \/ /\ code = OK
           /\ tournaments' = [tournaments EXCEPT ![op.tournament] = w.t]
           /\ rounds' = w.rounds
           /\ events' = w.events
           /\ players' = Consume(op, code)
           /\ Record(cmd, OK, RoundOutcome(op, code, Len(rec.moves) + 1))
           /\ UNCHANGED <<book, bindings>>

\* finishRoundCmd: a round already done is answered as done.
FinishCode(op) ==
  LET rec == Named(op)
  IN Verdict(<< <<SequencedCode(op) # OK, SequencedCode(op)>>,
                <<RoundCode(op) # OK, RoundCode(op)>>,
                <<rec.status # "finished" /\ At(op.tournament).status # "open",
                  "not_open">> >>)

FinishRound(cmd) ==
  LET op == cmd.op
      k == <<op.tournament, op.player, op.round>>
      rec == Named(op)
      code == FinishCode(op)
      out == RoundOutcome(op, code, Len(rec.moves))
      reason == IF clock' > rec.deadline THEN "expired" ELSE "resigned"
      w == FinishWorld(World(At(op.tournament)), k, reason, FALSE)
  IN /\ Executes(cmd, "finish_round")
     /\ \/ RejectPlay(cmd, code, out)
        \/ /\ code = OK
           /\ players' = Consume(op, code)
           /\ Record(cmd, OK, out)
           /\ UNCHANGED <<book, bindings>>
           /\ IF rec.status = "finished" THEN UNCHANGED <<tournaments, rounds, events>>
              ELSE /\ tournaments' = [tournaments EXCEPT ![op.tournament] = w.t]
                   /\ rounds' = w.rounds
                   /\ events' = w.events

-----------------------------------------------------------------------------
(* The end of a tournament *)

\* The first loop of closeRounds: a round in play is finished.
CloseRound(w, k) ==
  IF w.rounds[k].status # "playing" THEN w
  ELSE FinishWorld(w, k, IF clock' > w.rounds[k].deadline THEN "expired" ELSE "closed", TRUE)

\* The second: an entry with a round is scored.
CloseEntry(id, w, i) ==
  IF w.t.entries[i].scored
       \/ Progress(w.rounds, id, w.t.entries[i].player.id).dealt = 0 THEN w
  ELSE ScoreEntry(w, id, i)

\* The rounds of the entries, in join order.
RoundsOf(id, t) ==
  [n \in 1..Len(t.entries) * Rounds |->
     <<id, t.entries[((n - 1) \div Rounds) + 1].player.id, ((n - 1) % Rounds) + 1>>]

\* closeRounds.
CloseRounds(id, t) ==
  LET closed == FoldLeft(CloseRound, World(t), RoundsOf(id, t))
  IN FoldLeft(LAMBDA w, i : CloseEntry(id, w, i), closed, [i \in 1..Len(t.entries) |-> i])

\* close of a tournament with a game.
ClosePlay(cmd) ==
  LET op == cmd.op
      t == At(op.tournament)
      w == CloseRounds(op.tournament, t)
  IN /\ Executes(cmd, "close")
     /\ CloseCode(t) = OK
     /\ t.rules.game # ""
     /\ tournaments' = [tournaments EXCEPT ![op.tournament] = CloseRecord(w.t)]
     /\ rounds' = w.rounds
     /\ events' = RecordStatus(w.events, op.tournament)
     /\ Record(cmd, OK, 0)
     /\ UNCHANGED <<book, bindings, players>>

\* settle: with a game, the status and every payout that can be claimed are
\* recorded as events.
SettlePlay(cmd) ==
  LET op == cmd.op
      payouts == tournaments'[op.tournament].payouts
      free == SelectSeq(payouts, LAMBDA p : ~p.withheld /\ p.amount > 0)
      available == [i \in 1..Len(free) |->
                      Event("payout_available", op.tournament, free[i].player, free[i].amount)]
  IN /\ Settle(cmd)
     /\ UNCHANGED <<bindings, players, rounds>>
     /\ events' = IF tournaments' = tournaments \/ At(op.tournament).rules.game = ""
                  THEN events ELSE RecordStatus(events, op.tournament) \o available

\* ClaimableAmount.
Claimable(t, p) ==
  SumFunction([i \in {i \in DOMAIN t.payouts : t.payouts[i].player = p
                                                  /\ ~t.payouts[i].withheld} |->
                 t.payouts[i].amount])

ClaimPosting(id, p) ==
  [key |-> ClaimKey(id, p), kind |-> "claim", debit |-> PlayerAccount(p),
   credit |-> ClaimsAccount(id), amount |-> Claimable(At(id), p), tournament |-> id,
   player |-> p, place |-> 0, version |-> 0]

\* Plausible slip: the posting carries the key of the command, so that the
\* ledger does not know it again.
ClaimCode_Again(op) ==
  LET t == At(op.tournament)
  IN Verdict(<< <<SequencedCode(op) # OK, SequencedCode(op)>>,
                <<~Joined(t, op.player), "not_joined">>,
                <<t.status # "settled", "not_settled">>,
                <<Claimable(t, op.player) <= 0, "no_payout">> >>)

\* claimPayout.
ClaimCode(op) ==
  LET t == At(op.tournament)
  IN Verdict(<< <<SequencedCode(op) # OK, SequencedCode(op)>>,
                <<~Joined(t, op.player), "not_joined">>,
                <<t.status # "settled", "not_settled">>,
                <<Claimable(t, op.player) <= 0, "no_payout">>,
                <<Has(book, ClaimKey(op.tournament, op.player)), "already_claimed">>,
                <<~Validate(ClaimPosting(op.tournament, op.player)), "ledger_conflict">> >>)

ClaimPayout(cmd) ==
  LET op == cmd.op
      code == ClaimCode(op)
      out == Outcome(op.player, NextSeq(op, code))
      claim == ClaimPosting(op.tournament, op.player)
  IN /\ Executes(cmd, "claim_payout")
     /\ \/ RejectPlay(cmd, code, out)
        \/ /\ code = OK
           /\ book' = Post(book, {claim})
           /\ events' = Append(events, Event("payout_claimed", op.tournament, op.player,
                                             claim.amount))
           /\ players' = Consume(op, code)
           /\ Record(cmd, OK, [out EXCEPT !.amount = claim.amount])
           /\ UNCHANGED <<tournaments, bindings, rounds>>

-----------------------------------------------------------------------------
PlayInit ==
  /\ Init
  /\ bindings = [d \in Devices |-> NoBinding]
  /\ players = [p \in Players |-> Unbound]
  /\ rounds = [k \in RoundKeys |-> NoRound]
  /\ events = <<>>
  /\ clock = 0
  /\ applied = 0

\* Apply: the clock never goes back.
Tick(at) == clock' = IF at > clock THEN at ELSE clock

\* The commands that leave the play state alone.
PlainCommand(cmd) ==
  /\ \/ Refuse(cmd) \/ Reused(cmd) \/ Replay(cmd)
     \/ Create(cmd) \/ Join(cmd) \/ Score(cmd) \/ Close(cmd)
  /\ UNCHANGED playVars

\* Apply: one entry of the log, received at a time.
ApplyPlay(cmd, at) ==
  /\ Tick(at)
  /\ applied' = applied + 1
  /\ \/ PlainCommand(cmd)
     \/ ClosePlay(cmd) \/ SettlePlay(cmd)
     \/ OpenSession(cmd, at) \/ Enter(cmd) \/ StartRound(cmd)
     \/ PlayMove(cmd) \/ FinishRound(cmd) \/ ClaimPayout(cmd)

PlayNext ==
  /\ applied < MaxSlot
  /\ \E cmd \in Commands, at \in Times : ApplyPlay(cmd, at)

PlaySpec == PlayInit /\ [][PlayNext]_allVars

-----------------------------------------------------------------------------
(* Reads of the state: State.Events and the views of internal/intent *)

\* The tournaments whose shared events p sees.
Entered(p) == {id \in Ids : At(id).rules.game # "" /\ Joined(At(id), p)}

\* The lists of playState: the positions of a player's own events, and of the
\* shared events of a tournament.
OwnEvents(p) == {i \in DOMAIN events : events[i].player = p}
SharedEvents(t) == {i \in DOMAIN events : events[i].player = "" /\ events[i].tournament = t}

\* Positions of events, ascending.
InOrder(at) == SelectSeq([i \in 1..Len(events) |-> i], LAMBDA i : i \in at)

\* At most max events, or all if max is not positive, but with the slot of the
\* last one whole.
Cut(at, max) ==
  LET list == InOrder(at)
  IN IF max <= 0 \/ Len(list) <= max
     THEN at
     ELSE {i \in at : events[i].slot <= events[list[max]].slot}

\* What is taken of a list of positions: the events after a slot, and in
\* tournament id when one is named.
Picked(list, after, id, max) ==
  Cut({i \in list : events[i].slot > after /\ (id # "" => events[i].tournament = id)}, max)

\* Plausible slip: the merged lists are not cut again, so an event of one list
\* may come without an earlier one that another list held back.
EventsPage_Uncut(after, id, p, max) ==
  InOrder(Picked(OwnEvents(p), after, id, max) \cup
            UNION {Picked(SharedEvents(t), after, id, max) :
                     t \in {t \in Entered(p) : id = "" \/ t = id}})

\* State.Events: the player's own events and those of each tournament entered
\* are cut one by one, merged, and cut again.
EventsPage(after, id, p, max) ==
  LET shared == UNION {Picked(SharedEvents(t), after, id, max) :
                         t \in {t \in Entered(p) : id = "" \/ t = id}}
  IN InOrder(Cut(Picked(OwnEvents(p), after, id, max) \cup shared, max))

\* HasEvents.
HasEvents(after, id, p) ==
  /\ players[p].bound
  /\ \/ \E i \in OwnEvents(p) :
          events[i].slot > after /\ (id # "" => events[i].tournament = id)
     \/ \E t \in {t \in Entered(p) : id = "" \/ t = id} :
          \E i \in SharedEvents(t) : events[i].slot > after

\* handleSession, before the log: the leader's own state shows that the secret
\* is not the one the device was bound with.
SessionMismatch(d, verifier) ==
  bindings[d] # NoBinding /\ bindings[d].verifier # verifier

\* Plausible slip: the view shows the round as it is now.
RoundViewAt_Now(rs, k, n, asOf) ==
  LET rec == rs[k]
      finished == rec.status = "finished"
      board == BoardOf(rec.seed, SubSeq(rec.moves, 1, n))
  IN [status |-> IF finished THEN "finished" ELSE "playing",
      reason |-> IF finished THEN rec.reason ELSE "",
      score |-> IF finished THEN rec.score ELSE BoardScore(board),
      board |-> board,
      seed |-> IF finished THEN rec.seed ELSE 0]

\* BuildRoundViewAt: round k of the rounds rs after n moves, as of a slot.
RoundViewAt(rs, k, n, asOf) ==
  LET rec == rs[k]
      finished == rec.status = "finished" /\ rec.finishedAt <= asOf
      board == BoardOf(rec.seed, SubSeq(rec.moves, 1, n))
  IN [status |-> IF finished THEN "finished" ELSE "playing",
      reason |-> IF finished THEN rec.reason ELSE "",
      score |-> IF finished THEN rec.score ELSE BoardScore(board),
      board |-> board,
      seed |-> IF finished THEN rec.seed ELSE 0]

\* tournamentSummary: whether the list offers p to enter.
Eligible(id, p) ==
  LET t == At(id)
  IN /\ t.status = "open"
     /\ ~Joined(t, p)
     /\ players[p].bound
     /\ Len(t.entries) < t.rules.maxEntrants
     /\ players[p].jurisdiction \notin t.rules.exclusions.jurisdictions
     /\ players[p].age >= t.rules.minAge

\* tournamentSummary: the round the list offers p to deal, or 0.
NextRound(id, p) ==
  IF At(id).status = "open" /\ Joined(At(id), p) THEN Progress(rounds, id, p).next ELSE 0

\* Plausible slip: equal totals are placed in the order of entry.
PlacedBefore_ByEntry(id, i, j) ==
  LET a == Progress(rounds, id, tournaments[id].entries[i].player.id)
      b == Progress(rounds, id, tournaments[id].entries[j].player.id)
  IN IF a.total # b.total THEN a.total > b.total
     ELSE IF a.finished # b.finished THEN a.finished > b.finished
     ELSE i < j

\* leaderboard of an open tournament: entry i is placed before entry j.
PlacedBefore(id, i, j) ==
  LET a == Progress(rounds, id, tournaments[id].entries[i].player.id)
      b == Progress(rounds, id, tournaments[id].entries[j].player.id)
  IN IF a.total # b.total THEN a.total > b.total
     ELSE IF a.finished # b.finished THEN a.finished > b.finished
     ELSE IF a.reachedAt # b.reachedAt THEN a.reachedAt < b.reachedAt
     ELSE i < j

\* The places of the live leaderboard: the players of id in order.
LiveBoard(id) ==
  LET t == tournaments[id]
      Place(i) == 1 + Cardinality({j \in DOMAIN t.entries : PlacedBefore(id, j, i)})
  IN [n \in DOMAIN t.entries |->
        t.entries[CHOOSE i \in DOMAIN t.entries : Place(i) = n].player.id]

-----------------------------------------------------------------------------
(* Properties *)

\* The codes of an intent whose number is not consumed.
NotConsumed == {"unknown_player", "stale_seq", "seq_gap"}

\* The keys under which an intent of p consumed a number.
Consumers(p) ==
  {k \in Keys : LET row == results[k]
                IN /\ row.fingerprint.name \in Sequenced
                   /\ row.fingerprint.player = p
                   /\ row.code \notin NotConsumed}

\* A sequence number is consumed by exactly one intent, none is skipped and
\* none above the player's last one is consumed: an intent that was sent again
\* under a new key is never applied a second time, whatever became of the
\* first (sequenced).
OneIntentPerSeq ==
  \A p \in Players :
    LET used == Consumers(p)
    IN /\ Cardinality(used) = players[p].lastSeq
       /\ {results[k].fingerprint.seq : k \in used} = 1..players[p].lastSeq

\* A device keeps the player it was first given: every session it was ever
\* told about names the player of its binding, although each retry comes with
\* a newly drawn identifier, and no player has two devices.  The check before
\* the log refuses no device that was given a session, and keeps refusing one
\* that the log refused (openSession, handleSession).
SessionsHold ==
  /\ \A d, e \in Devices :
       bindings[d].player = bindings[e].player /\ bindings[d] # NoBinding => d = e
  /\ \A a \in answers :
       a.cmd.op.name = "open_session" =>
         LET op == a.cmd.op
         IN /\ a.code = OK => /\ bindings[op.device].player = a.more.player
                              /\ ~SessionMismatch(op.device, op.verifier)
            /\ a.code = "device_mismatch" => SessionMismatch(op.device, op.verifier)

\* What the rounds in rs of an entry are worth by the rules of the game.
Earned(id, p) ==
  LET Worth(rec) == BoardScore(BoardOf(rec.seed, rec.moves))
  IN SumFunction([r \in {r \in 1..Rounds : rounds[<<id, p, r>>].status = "finished"} |->
                    Worth(rounds[<<id, p, r>>])])

\* An entry's score is what its finished rounds are worth, no round is in play
\* once it is fixed, and it is fixed when the last round ends or the tournament
\* closes, whichever comes first; the rounds before one in play are done
\* (finishRound, scoreEntry, closeRounds).
ScoresAreEarned ==
  \A id \in {i \in Ids : tournaments[i].rules.game # ""} :
    LET t == tournaments[id]
    IN \A i \in DOMAIN t.entries :
         LET e == t.entries[i]
             prog == Progress(rounds, id, e.player.id)
         IN /\ prog.finished + (IF prog.inPlay = 0 THEN 0 ELSE 1) = prog.dealt
            /\ prog.inPlay # 0 => prog.inPlay = prog.dealt /\ t.status = "open"
            /\ e.scored => e.score = Earned(id, e.player.id) /\ prog.inPlay = 0
            /\ e.scored <=> \/ prog.finished = Rounds
                            \/ t.status # "open" /\ prog.dealt > 0

\* What the list of tournaments offers a player is what the state machine
\* takes: eligible means an entry is accepted, next_round that this round and
\* no other is dealt (tournamentSummary, admit, startRound).
HintsAreRight ==
  \A id \in {i \in Ids : tournaments[i].rules.game # ""},
     p \in {q \in Players : players[q].bound} :
    LET claims == [id |-> p, jurisdiction |-> players[p].jurisdiction, age |-> players[p].age]
    IN /\ Eligible(id, p) <=> AdmitCode(tournaments[id], id, claims) = OK
       /\ \A r \in 1..Rounds :
            NextRound(id, p) = r
              <=> DealCode([tournament |-> id, player |-> p, round |-> r]) = OK

\* Once every entry is scored the live leaderboard is the ranking that Close
\* will fix: by score, and by the order in which the entries were completed
\* (leaderboardPage, ComputeStandings).
LiveBoardAgrees ==
  \A id \in {i \in Ids : tournaments[i].rules.game # "" /\ tournaments[i].status = "open"} :
    LET t == tournaments[id]
        final == ComputeStandings(t)
    IN (\A i \in DOMAIN t.entries : t.entries[i].scored) =>
         LiveBoard(id) = [n \in DOMAIN final |-> final[n].player]

\* A payout is claimed at most once, by one key, for exactly what the
\* settlement paid and did not withhold, and the claims account holds what was
\* claimed (claimPayout).
ClaimsHold ==
  \A id \in Ids :
    /\ \A p \in Players :
         LET told == {k \in Keys : LET row == results[k]
                                   IN /\ row.fingerprint.name = "claim_payout"
                                      /\ row.fingerprint.tournament = id
                                      /\ row.fingerprint.player = p
                                      /\ row.code = OK}
             paid == Total({q \in ForTournament(book, id) :
                              q.kind \in {"prize", "refund"} /\ q.player = p})
         IN /\ Cardinality(told) = (IF Has(book, ClaimKey(id, p)) THEN 1 ELSE 0)
            /\ \A k \in told : results[k].more.amount = paid
    /\ Balance(book, ClaimsAccount(id)) =
         SumFunction([k \in {k \in Keys : /\ results[k].fingerprint.name = "claim_payout"
                                         /\ results[k].fingerprint.tournament = id
                                         /\ results[k].code = OK} |->
                        results[k].more.amount])

\* The pages of the event stream lose and repeat nothing: a page is the
\* beginning of what the player may see after its cursor, holds whole slots,
\* and is empty only when HasEvents says so (State.Events, HasEvents).  The
\* cursor is the start or, when the last slot brought events, any slot that did.
PagesAreComplete ==
  \A p \in {q \in Players : players[q].bound},
     after \in {0} \cup {events[i].slot :
                        i \in {i \in DOMAIN events : Last(events).slot = applied}},
     id \in Ids \cup {""} :
    LET entered == Entered(p)
        visible == InOrder(
          {i \in DOMAIN events :
             /\ events[i].slot > after
             /\ id \in {"", events[i].tournament}
             /\ \/ events[i].player = p
                \/ events[i].player = "" /\ events[i].tournament \in entered})
        page == EventsPage(after, id, p, PageSize)
        rest == SubSeq(visible, Len(page) + 1, Len(visible))
    IN /\ HasEvents(after, id, p) <=> visible # <<>>
       /\ IsPrefix(page, visible)
       /\ Len(page) < PageSize => rest = <<>>
       /\ rest # <<>> => events[Last(page)].slot < events[Head(rest)].slot

\* The response to a recorded round command can be built, and built again
\* alike, at any later time: a retry gets the board, the score and the secrecy
\* of the seed that the first answer had, whatever was played since
\* (BuildRoundViewAt, roundResponse).
ViewsHold ==
  [][rounds' # rounds => \A k \in Keys :
       LET row == results[k]
           op == row.fingerprint
       IN op.name \in {"start_round", "play_move", "finish_round"} /\ row.code = OK =>
            LET key == <<op.tournament, op.player, op.round>>
            IN /\ rounds[key].startedAt \in 1..row.more.slot
               /\ RoundViewAt(rounds', key, row.more.moveIndex, row.more.slot)
                    = RoundViewAt(rounds, key, row.more.moveIndex, row.more.slot)]_allVars

\* A player who follows the events never shows a stale leaderboard: a step
\* that changes the total or the place of an entry with a finished round
\* records leaderboard_changed in its slot, once (recordLeaderboard).
BoardChangesAnnounced ==
  [][\A id \in {i \in Ids : tournaments[i].rules.game # "" /\ tournaments[i].status = "open"} :
       LET new == SubSeq(events', Len(events) + 1, Len(events'))
           said == {i \in DOMAIN new : /\ new[i].type = "leaderboard_changed"
                                       /\ new[i].tournament = id}
           Totals(rs) == [p \in Players |-> Progress(rs, id, p).total]
           Done(rs) == [p \in Players |-> Progress(rs, id, p).finished]
       IN /\ Cardinality(said) <= 1
          /\ \/ Totals(rounds)' # Totals(rounds)
             \/ Done(rounds)' # Done(rounds)
             \/ tournaments'[id].status # "open"
             => said # {}]_allVars

=============================================================================

----------------------------- MODULE Tournament -----------------------------
(***************************************************************************)
(* internal/tournament/state.go: the state machine a replica feeds with    *)
(* the commands of the log, for tournaments that take client-reported      *)
(* scores.  Any command may come at any time and any number of times: the  *)
(* log holds what clients, their retries and several leaders proposed.     *)
(* Play adds the commands of tournaments with a game.                      *)
(*                                                                         *)
(* Left out: slots, ballots and the hash chain, which record the history   *)
(* and decide nothing (the core applies slots in order, so the slot test   *)
(* of Apply never fails) and digests.                                      *)
(***************************************************************************)
EXTENDS Prizes

CONSTANTS
  Keys,           \* well-formed idempotency keys
  Ids,            \* well-formed tournament identifiers
  Players,        \* well-formed player identifiers
  Jurisdictions,  \* well-formed jurisdiction codes
  MaxEntryFee, MaxEntrantsBound, MaxPrizePlaces,  \* the shape bounds of the codec
  MaxTotalScore,  \* game.MaxTotalScore, the best possible entry of the game
  Commands        \* [key, op] records that may enter the log

ASSUME BoundsAssumption ==
  {MaxEntryFee, MaxEntrantsBound, MaxPrizePlaces} \subseteq Nat \ {0}

\* The operation of a command is a record that names it.
ASSUME CommandAssumption ==
  \A c \in Commands :
    /\ c.op = [f \in DOMAIN c.op |-> c.op[f]]
    /\ "name" \in DOMAIN c.op

VARIABLES
  tournaments,  \* identifier -> record; status "absent" before its creation
  results,      \* key -> the row of the results table
  book,         \* the ledger
  answers       \* history: every answer given to a command

vars == <<tournaments, results, book, answers>>

OK == "ok"
LadderV1 == "ladder-v1"

NoRules ==
  [entryFee |-> 0, rakeBps |-> 0, prizeBps |-> <<>>, minEntrants |-> 0,
   maxEntrants |-> 0, maxScore |-> 0, minAge |-> 0, tieBreak |-> "", game |-> "",
   exclusions |-> [version |-> 0, jurisdictions |-> {}]]

Absent ==
  [status |-> "absent", seed |-> 0, rules |-> NoRules, entries |-> <<>>,
   fees |-> 0, rake |-> 0, pool |-> 0, standings |-> <<>>, payouts |-> <<>>]

\* No row: no operation has this name.
NoRow == [fingerprint |-> [name |-> "none"], code |-> "none", more |-> 0]

-----------------------------------------------------------------------------
\* The codec's shape checks: malformed is what is not in the set.

ValidateKey(k) == k \in Keys

ValidateExclusions(e) == e.jurisdictions \subseteq Jurisdictions

ValidatePlayer(p) ==
  p.id \in Players /\ p.jurisdiction \in Jurisdictions /\ p.age \in 0..150

PrizeTotal(r) == SumFunction(r.prizeBps)

\* A game fixes the best possible score.
ValidateGame(r) == r.game = "" \/ (r.game = LadderV1 /\ r.maxScore = MaxTotalScore)

ValidateRules(r) ==
  /\ r.entryFee \in 1..MaxEntryFee
  /\ r.rakeBps \in 0..9999
  /\ r.prizeBps \in Seq(Nat \ {0})
  /\ Len(r.prizeBps) \in 1..MaxPrizePlaces
  /\ PrizeTotal(r) = 10000
  /\ r.minEntrants \in Nat /\ r.minEntrants >= Len(r.prizeBps)
  /\ r.maxEntrants \in r.minEntrants..MaxEntrantsBound
  /\ r.maxScore \in Nat /\ r.minAge \in Nat
  /\ r.tieBreak \in {"earliest_submission", "split"}
  /\ ValidateExclusions(r.exclusions)
  /\ ValidateGame(r)

\* Plausible slip: the seed the leader drew counts as part of the request.
Fingerprint_WithSeed(cmd) == cmd.op

\* What a leader draws for a command, so that a retry may carry another value.
Drawn(op) ==
  IF op.name \in {"create", "start_round"} THEN {"seed"}
  ELSE IF op.name = "open_session" THEN {"player"} ELSE {}

\* The client-supplied part of a command.
Fingerprint(cmd) ==
  [f \in DOMAIN cmd.op \ Drawn(cmd.op) |-> cmd.op[f]]

-----------------------------------------------------------------------------
\* The code of the first rule that is broken, as validation runs in order.
Verdict(rules) ==
  LET broken == {i \in DOMAIN rules : rules[i][1]}
  IN IF broken = {} THEN OK ELSE rules[Min(broken)][2]

\* more is what else a result carries: the seed of a tournament joined, the
\* outcome of a play command, or 0.
Answer(cmd, code, more) ==
  answers' = answers \cup {[cmd |-> cmd, code |-> code, more |-> more]}

\* The command reaches its operation: its key is well-formed and not recorded.
Executes(cmd, name) ==
  /\ cmd.op.name = name
  /\ ValidateKey(cmd.key)
  /\ results[cmd.key] = NoRow

\* The end of execute: the result is recorded under the key and answered.
Record(cmd, code, more) ==
  /\ results' = [results EXCEPT ![cmd.key] =
                   [fingerprint |-> Fingerprint(cmd), code |-> code, more |-> more]]
  /\ Answer(cmd, code, more)

Reject(cmd, code) ==
  /\ code # OK
  /\ Record(cmd, code, 0)
  /\ UNCHANGED <<tournaments, book>>

At(id) == IF id \in Ids THEN tournaments[id] ELSE Absent

Unknown(id) == At(id).status = "absent"

\* No posting of ps has a key that is in the book or repeated within ps.
CheckFresh(ps) ==
  \A p \in ps : ~Has(book, p.key) /\ \A q \in ps : p.key = q.key => p = q

-----------------------------------------------------------------------------
\* execute without an operation: a malformed key, a key used for something
\* else, a retry.  Nothing is recorded.
Refuse(cmd) ==
  /\ ~ValidateKey(cmd.key)
  /\ Answer(cmd, "invalid_key", 0)
  /\ UNCHANGED <<tournaments, results, book>>

Reused(cmd) ==
  /\ ValidateKey(cmd.key)
  /\ results[cmd.key] # NoRow
  /\ results[cmd.key].fingerprint # Fingerprint(cmd)
  /\ Answer(cmd, "key_reused", 0)
  /\ UNCHANGED <<tournaments, results, book>>

Replay(cmd) ==
  /\ ValidateKey(cmd.key)
  /\ results[cmd.key] # NoRow
  /\ results[cmd.key].fingerprint = Fingerprint(cmd)
  /\ Answer(cmd, results[cmd.key].code, results[cmd.key].more)
  /\ UNCHANGED <<tournaments, results, book>>

-----------------------------------------------------------------------------
Create(cmd) ==
  LET op == cmd.op
      code == Verdict(<< <<op.id \notin Ids, "invalid_rules">>,
                         <<~ValidateRules(op.rules), "invalid_rules">>,
                         <<~Unknown(op.id), "tournament_exists">> >>)
  IN /\ Executes(cmd, "create")
     /\ \/ Reject(cmd, code)
        \/ /\ code = OK
           /\ tournaments' = [tournaments EXCEPT ![op.id] =
                [Absent EXCEPT !.status = "open", !.seed = op.seed, !.rules = op.rules]]
           /\ Record(cmd, OK, 0)
           /\ UNCHANGED book

FeePosting(t, id, player) ==
  [key |-> FeeKey(id, player.id), kind |-> "entry_fee",
   debit |-> PlayerAccount(player.id), credit |-> PoolAccount(id),
   amount |-> t.rules.entryFee, tournament |-> id, player |-> player.id,
   place |-> 0, version |-> t.rules.exclusions.version]

\* Plausible slip: a player who has entered is not looked for.
AdmitCode_Twice(t, id, player) ==
  Verdict(<< <<t.status # "open", "not_open">>,
             <<Len(t.entries) >= t.rules.maxEntrants, "tournament_full">>,
             <<player.jurisdiction \in t.rules.exclusions.jurisdictions,
               "jurisdiction_excluded">>,
             <<player.age < t.rules.minAge, "underage">> >>)

\* The entry rules of admit.
AdmitCode(t, id, player) ==
  Verdict(<< <<t.status # "open", "not_open">>,
             <<Len(t.entries) >= t.rules.maxEntrants, "tournament_full">>,
             <<Joined(t, player.id), "already_joined">>,
             <<player.jurisdiction \in t.rules.exclusions.jurisdictions,
               "jurisdiction_excluded">>,
             <<player.age < t.rules.minAge, "underage">>,
             <<~CheckFresh({FeePosting(t, id, player)}), "ledger_conflict">>,
             <<~Validate(FeePosting(t, id, player)), "invalid_rules">> >>)

\* join with admit: the entry and its fee.
Join(cmd) ==
  LET op == cmd.op
      t == At(op.tournament)
      code == Verdict(<< <<~ValidatePlayer(op.player), "invalid_player">>,
                         <<Unknown(op.tournament), "unknown_tournament">>,
                         <<t.rules.game # "", "play_intent_required">>,
                         <<TRUE, AdmitCode(t, op.tournament, op.player)>> >>)
      entry == [player |-> op.player, joinSeq |-> Len(t.entries) + 1,
                scored |-> FALSE, score |-> 0, submitSeq |-> 0]
  IN /\ Executes(cmd, "join")
     /\ \/ Reject(cmd, code)
        \/ /\ code = OK
           /\ book' = Post(book, {FeePosting(t, op.tournament, op.player)})
           /\ tournaments' = [tournaments EXCEPT ![op.tournament].entries =
                                Append(@, entry)]
           /\ Record(cmd, OK, t.seed)

\* Plausible slip: a score is taken as long as the tournament is not settled.
ScoreCode_Late(t, op) ==
  Verdict(<< <<t.status \notin {"open", "closed"}, "not_open">>,
             <<~Joined(t, op.player), "not_joined">>,
             <<\E i \in Scored(t) : t.entries[i].player.id = op.player,
               "already_scored">>,
             <<op.dealSeed # t.seed, "seed_mismatch">>,
             <<op.score \notin 0..t.rules.maxScore, "score_out_of_range">> >>)

ScoreCode(t, op) ==
  Verdict(<< <<Unknown(op.tournament), "unknown_tournament">>,
             <<t.rules.game # "", "play_intent_required">>,
             <<t.status # "open", "not_open">>,
             <<~Joined(t, op.player), "not_joined">>,
             <<\E i \in Scored(t) : t.entries[i].player.id = op.player,
               "already_scored">>,
             <<op.dealSeed # t.seed, "seed_mismatch">>,
             <<op.score \notin 0..t.rules.maxScore, "score_out_of_range">> >>)

Score(cmd) ==
  LET op == cmd.op
      t == At(op.tournament)
      code == ScoreCode(t, op)
  IN /\ Executes(cmd, "score")
     /\ \/ Reject(cmd, code)
        \/ /\ code = OK
           /\ tournaments' = [tournaments EXCEPT
                ![op.tournament].entries[EntryOf(t, op.player)] =
                  [@ EXCEPT !.scored = TRUE, !.score = op.score,
                            !.submitSeq = ScoredCount(t) + 1]]
           /\ Record(cmd, OK, 0)
           /\ UNCHANGED book

CloseCode(t) ==
  Verdict(<< <<t.status = "absent", "unknown_tournament">>,
             <<t.status # "open", "not_open">> >>)

\* What close fixes: the standings, the pool and the status.
CloseRecord(t) ==
  LET money == ComputePool(t)
  IN [t EXCEPT !.standings = ComputeStandings(t),
               !.fees = money.fees, !.rake = money.rake, !.pool = money.pool,
               !.status = IF Voids(t) THEN "voided" ELSE "closed"]

\* close, of a tournament without a game: ClosePlay of Play is the other one.
Close(cmd) ==
  LET op == cmd.op
      t == At(op.tournament)
  IN /\ Executes(cmd, "close")
     /\ \/ Reject(cmd, CloseCode(t))
        \/ /\ CloseCode(t) = OK
           /\ t.rules.game = ""
           /\ tournaments' = [tournaments EXCEPT ![op.tournament] = CloseRecord(t)]
           /\ Record(cmd, OK, 0)
           /\ UNCHANGED book

-----------------------------------------------------------------------------
RakePostings(t, id, ex) ==
  IF t.status = "closed" /\ t.rake > 0
    THEN {[key |-> RakeKey(id), kind |-> "rake", debit |-> PoolAccount(id),
           credit |-> RakeAccount(id), amount |-> t.rake, tournament |-> id,
           player |-> "", place |-> 0, version |-> ex.version]}
    ELSE {}

\* The posting of one payout: a refund, a withheld prize or a prize.
PayoutPosting(t, id, p) ==
  LET kind == IF t.status = "voided" THEN "refund"
              ELSE IF p.withheld THEN "withheld" ELSE "prize"
  IN [key |-> p.key, kind |-> kind, debit |-> PoolAccount(id),
      credit |-> IF kind = "withheld" THEN WithheldAccount(id)
                                      ELSE PlayerAccount(p.player),
      amount |-> p.amount, tournament |-> id, player |-> p.player,
      place |-> p.place, version |-> p.version]

\* The rake and every payout that moves money.
SettlePostings(t, id, ex, payouts) ==
  RakePostings(t, id, ex) \cup
    {PayoutPosting(t, id, payouts[i]) : i \in {j \in DOMAIN payouts : payouts[j].amount > 0}}

\* Plausible slip: a tournament that is not open may be settled, again too.
Settles_Again(t) == t.status # "open"

Settles(t) == t.status \in {"closed", "voided"}

\* Plausible slip: a second settlement is left to the ledger's idempotence.
SettleCode_Repeatable(t, op, postings) ==
  Verdict(<< <<~ValidateExclusions(op.exclusions), "invalid_exclusions">>,
             <<Unknown(op.tournament), "unknown_tournament">>,
             <<t.status = "open", "not_closed">>,
             <<\E p \in postings : ~Validate(p), "invalid_rules">> >>)

SettleCode(t, op, postings) ==
  Verdict(<< <<~ValidateExclusions(op.exclusions), "invalid_exclusions">>,
             <<Unknown(op.tournament), "unknown_tournament">>,
             <<~Settles(t), "not_closed">>,
             <<\E p \in postings : ~Validate(p), "invalid_rules">>,
             <<~CheckFresh(postings), "ledger_conflict">> >>)

Settle(cmd) ==
  LET op == cmd.op
      t == At(op.tournament)
      payouts == ComputePayouts(t, op.tournament, op.exclusions)
      postings == SettlePostings(t, op.tournament, op.exclusions, payouts)
      code == SettleCode(t, op, postings)
  IN /\ Executes(cmd, "settle")
     /\ \/ Reject(cmd, code)
        \/ /\ code = OK
           /\ book' = Post(book, postings)
           /\ tournaments' = [tournaments EXCEPT ![op.tournament] =
                [t EXCEPT !.payouts = payouts, !.status = "settled"]]
           /\ Record(cmd, OK, 0)

-----------------------------------------------------------------------------
Init ==
  /\ tournaments = [id \in Ids |-> Absent]
  /\ results = [k \in Keys |-> NoRow]
  /\ book = {}
  /\ answers = {}

\* Apply: one entry of the log.
Apply(cmd) ==
  \/ Refuse(cmd) \/ Reused(cmd) \/ Replay(cmd)
  \/ Create(cmd) \/ Join(cmd) \/ Score(cmd) \/ Close(cmd) \/ Settle(cmd)

Next == \E cmd \in Commands : Apply(cmd)

Spec == Init /\ [][Next]_vars

-----------------------------------------------------------------------------
\* Two commands are one request when they agree on the key and on all that the
\* client supplied: everything but what a leader draws.
SameRequest(c, d) ==
  /\ c.key = d.key
  /\ DOMAIN c.op = DOMAIN d.op
  /\ \A f \in DOMAIN c.op \ Drawn(c.op) : c.op[f] = d.op[f]

\* A request is answered alike however often it is retried, through whichever
\* leader and whatever happened in between (execute, Fingerprint).
RetriesAgree ==
  \A a, b \in answers :
    SameRequest(a.cmd, b.cmd) => a.code = b.code /\ a.more = b.more

Created(id) == tournaments[id].status # "absent"

\* D1: the pool account holds the fees of all entries until Settle, and nothing
\* after it; the rake account then holds the rake that Close fixed.
PoolIsBacked ==
  \A id \in {i \in Ids : Created(i)} :
    LET t == tournaments[id]
        fees == t.rules.entryFee * Len(t.entries)
        settled == t.status = "settled"
    IN /\ Balance(book, PoolAccount(id)) = (IF settled THEN 0 ELSE fees)
       /\ Balance(book, RakeAccount(id)) = (IF settled THEN t.rake ELSE 0)
       /\ t.status # "open" => t.fees = fees /\ t.pool = fees - t.rake

PaymentKinds == {"prize", "withheld", "refund"}

\* D2: the money a settlement moves is that of its recorded payouts, once each
\* and to the account each names; before Settle none is moved.
PaidExactlyOnce ==
  \A id \in Ids :
    LET t == tournaments[id]
        paid == {p \in ForTournament(book, id) : p.kind \in PaymentKinds}
        due == {i \in DOMAIN t.payouts : t.payouts[i].amount > 0}
    IN /\ t.status # "settled" => paid = {}
       /\ Cardinality(paid) = Cardinality(due)
       /\ \A i \in due : \E p \in paid :
            /\ p.key = t.payouts[i].key
            /\ p.amount = t.payouts[i].amount
            /\ p.credit = IF t.payouts[i].withheld THEN WithheldAccount(id)
                          ELSE PlayerAccount(t.payouts[i].player)

\* D3: a settled tournament and its postings never change.
SettledIsFinal ==
  [][\A id \in Ids :
       tournaments[id].status = "settled" =>
         /\ tournaments'[id] = tournaments[id]
         /\ ForTournament(book', id) = ForTournament(book, id)]_vars

\* D4: once closed, the standings are the final ranking of the entries: every
\* entry once, by score and then by submission, places shared only by equal
\* scores under Split.
StandingsHold ==
  \A id \in {i \in Ids : tournaments[i].status \in {"closed", "voided", "settled"}} :
    LET t == tournaments[id]
        Rank(i) == CHOOSE r \in DOMAIN t.standings :
                     t.standings[r].player = t.entries[i].player.id
        better(e, d) == d.scored /\ (~e.scored \/ d.score > e.score)
    IN /\ Len(t.standings) = Len(t.entries)
       /\ \A i \in DOMAIN t.entries :
            LET e == t.entries[i]
                s == t.standings[Rank(i)]
                ahead == {j \in DOMAIN t.entries : better(e, t.entries[j])}
                tied == {j \in Scored(t) : e.scored /\ t.entries[j].score = e.score
                                             /\ t.entries[j].submitSeq < e.submitSeq}
                idle == {j \in DOMAIN t.entries \ Scored(t) : ~e.scored /\ j < i}
            IN /\ s.player = e.player.id /\ s.scored = e.scored /\ s.score = e.score
               /\ Rank(i) = 1 + Cardinality(ahead) + Cardinality(tied) + Cardinality(idle)
               /\ s.place = IF t.rules.tieBreak = "split"
                              THEN 1 + Cardinality(ahead) + Cardinality(idle) ELSE Rank(i)

\* D5: nobody enters against the list or the age limit of the creation, and a
\* prize is withheld exactly when its winner is on the list of the settlement
\* that paid it, even if that list grew since the player entered.
EligibilityHolds ==
  \A id \in Ids :
    LET t == tournaments[id]
    IN /\ \A i \in DOMAIN t.entries :
            /\ t.entries[i].player.jurisdiction \notin t.rules.exclusions.jurisdictions
            /\ t.entries[i].player.age >= t.rules.minAge
       /\ \A a \in answers, p \in ForTournament(book, id) :
            /\ a.cmd.op.name = "settle" /\ a.cmd.op.tournament = id /\ a.code = OK
            /\ p.kind \in {"prize", "withheld"}
            => /\ p.version = a.cmd.op.exclusions.version
               /\ (p.kind = "withheld") <=>
                    t.entries[EntryOf(t, p.player)].player.jurisdiction
                      \in a.cmd.op.exclusions.jurisdictions

\* Under Split, paid places with equal scores differ by at most one unit, and
\* the earlier submission has it; the payouts add up to the pool.
TiesShareEvenly ==
  \A id \in {i \in Ids : tournaments[i].status = "settled"} :
    LET t == tournaments[id]
    IN /\ SumFunction([i \in DOMAIN t.payouts |-> t.payouts[i].amount]) = t.pool
       /\ t.rules.tieBreak = "split" /\ ~Voids(t) =>
            \A i, j \in DOMAIN t.payouts :
              i < j /\ t.payouts[i].place = t.payouts[j].place
              => t.payouts[i].amount - t.payouts[j].amount \in {0, 1}

=============================================================================

-------------------------- MODULE TournamentProofs --------------------------
(***************************************************************************)
(* What holds of the tournament state machine for every set of commands:   *)
(* retries are answered alike, a settled tournament is final and pays      *)
(* exactly what it recorded, the standings are the ranking of the entries, *)
(* the entry rules and the exclusion lists are kept, and no money is lost  *)
(* or made.  With the intents of Play: a sequence number is consumed once, *)
(* and a device keeps its player.                                          *)
(***************************************************************************)
EXTENDS Play, TLAPS, FiniteSetTheorems, FunctionTheorems

Numbers == INSTANCE BallotProofs

\* The tables keep their domains.
TableInv == DOMAIN tournaments = Ids /\ DOMAIN results = Keys

\* Every answer is what the results table gives today: a key, once recorded,
\* keeps its row.
AnswerOf(a) ==
  \/ a.cmd.key \notin Keys /\ a.code = "invalid_key" /\ a.more = 0
  \/ /\ a.cmd.key \in Keys
     /\ results[a.cmd.key] # NoRow
     /\ \/ /\ results[a.cmd.key].fingerprint = Fingerprint(a.cmd)
           /\ a.code = results[a.cmd.key].code /\ a.more = results[a.cmd.key].more
        \/ /\ results[a.cmd.key].fingerprint # Fingerprint(a.cmd)
           /\ a.code = "key_reused" /\ a.more = 0

AnswersInv == \A a \in answers : a.cmd \in Commands /\ AnswerOf(a)

-----------------------------------------------------------------------------
\* A nonempty set of positions has a least one, which Min returns; no list of
\* rules is longer than seven.
LEMMA MinOfPositions ==
  ASSUME NEW S \in SUBSET (1..7), S # {}
  PROVE  Min(S) \in S /\ \A y \in S : Min(S) =< y
<1> DEFINE least == \E x \in S : \A y \in S : x =< y
<1>1. least
  <2>1. least \/ \A y \in S : y >= 2
    OBVIOUS
  <2>2. least \/ \A y \in S : y >= 3
    BY <2>1
  <2>3. least \/ \A y \in S : y >= 4
    BY <2>2
  <2>4. least \/ \A y \in S : y >= 5
    BY <2>3
  <2>5. least \/ \A y \in S : y >= 6
    BY <2>4
  <2>6. least \/ \A y \in S : y >= 7
    BY <2>5
  <2>7. least \/ \A y \in S : y >= 8
    BY <2>6
  <2>8. \E y \in S : y \in 1..7
    OBVIOUS
  <2> QED
    BY <2>7, <2>8
<1> QED
  BY <1>1 DEF Min

\* A verdict is OK only if no rule is broken, or the first that is says OK.
LEMMA VerdictOK ==
  ASSUME NEW rules, DOMAIN rules \subseteq 1..7, Verdict(rules) = OK
  PROVE  \/ \A i \in DOMAIN rules : ~rules[i][1]
         \/ \E i \in DOMAIN rules : /\ rules[i][1] /\ rules[i][2] = OK
                                    /\ \A j \in DOMAIN rules : j < i => ~rules[j][1]
<1> DEFINE broken == {i \in DOMAIN rules : rules[i][1]}
<1>1. CASE broken = {}
  BY <1>1
<1>2. CASE broken # {}
  BY <1>2, MinOfPositions DEF Verdict
<1> QED
  BY <1>1, <1>2

-----------------------------------------------------------------------------
\* What a command that takes effect found: the conditions of its operation.

LEMMA CreateOK ==
  ASSUME NEW cmd, Create(cmd), tournaments' # tournaments
  PROVE  /\ cmd.op.id \in Ids
         /\ tournaments[cmd.op.id].status = "absent"
         /\ ValidateRules(cmd.op.rules)
<1> DEFINE rules == << <<cmd.op.id \notin Ids, "invalid_rules">>,
                       <<~ValidateRules(cmd.op.rules), "invalid_rules">>,
                       <<~Unknown(cmd.op.id), "tournament_exists">> >>
<1>1. Verdict(rules) = OK
  BY DEF Create, Reject
<1>2. DOMAIN rules = 1..3 /\ 1..3 \subseteq 1..7
  OBVIOUS
<1>3. \A i \in 1..3 : rules[i][2] # OK
  BY DEF OK
<1>4. \A i \in 1..3 : ~rules[i][1]
  <2> HIDE DEF rules
  <2> QED BY <1>1, <1>2, <1>3, VerdictOK
<1>5. ~rules[1][1] /\ ~rules[2][1] /\ ~rules[3][1]
  BY <1>4
<1>6. cmd.op.id \in Ids /\ Unknown(cmd.op.id) /\ ValidateRules(cmd.op.rules)
  BY <1>5
<1> QED
  BY <1>6 DEF Unknown, At

\* Where the other operations find the tournament they change.
InProgress(id) == id \in Ids /\ tournaments[id].status \in {"open", "closed", "voided"}

\* What the entry rules and the rules of a score leave.
MayJoin(t, player) ==
  /\ ValidatePlayer(player)
  /\ t.status = "open"
  /\ ~Joined(t, player.id)
  /\ player.jurisdiction \notin t.rules.exclusions.jurisdictions
  /\ ~(player.age < t.rules.minAge)

Scorable(t, player) ==
  /\ t.status = "open"
  /\ Joined(t, player)
  /\ ~\E i \in Scored(t) : t.entries[i].player.id = player

MayScore(t, player, score) == Scorable(t, player) /\ score \in 0..t.rules.maxScore

\* Every posting may be made, and none is there.
Payable(postings) == (\A p \in postings : Validate(p)) /\ CheckFresh(postings)

LEMMA JoinOK ==
  ASSUME NEW cmd, Join(cmd), <<tournaments, book>>' # <<tournaments, book>>
  PROVE  /\ InProgress(cmd.op.tournament)
         /\ MayJoin(tournaments[cmd.op.tournament], cmd.op.player)
         /\ Payable({FeePosting(tournaments[cmd.op.tournament], cmd.op.tournament,
                                cmd.op.player)})
<1> DEFINE t == At(cmd.op.tournament)
           admit == AdmitCode(t, cmd.op.tournament, cmd.op.player)
           rules == << <<~ValidatePlayer(cmd.op.player), "invalid_player">>,
                       <<Unknown(cmd.op.tournament), "unknown_tournament">>,
                       <<t.rules.game # "", "play_intent_required">>,
                       <<TRUE, admit>> >>
<1> HIDE DEF admit
<1>1. Verdict(rules) = OK
  BY DEF Join, Reject, admit
<1>2. DOMAIN rules = 1..4 /\ 1..4 \subseteq 1..7
  OBVIOUS
<1>3. \E i \in 1..4 : /\ rules[i][1] /\ rules[i][2] = OK
                      /\ \A j \in 1..4 : j < i => ~rules[j][1]
  <2>1. rules[4][1]
    OBVIOUS
  <2> HIDE DEF rules
  <2> QED BY <1>1, <1>2, <2>1, VerdictOK
<1>4. rules[1][2] # OK /\ rules[2][2] # OK /\ rules[3][2] # OK
  BY DEF OK
<1>5. rules[4][2] = OK /\ ~rules[1][1]
  <2> HIDE DEF rules
  <2> QED BY <1>3, <1>4
<1>6. admit = OK /\ ValidatePlayer(cmd.op.player)
  BY <1>5
<1> DEFINE entry ==
      << <<t.status # "open", "not_open">>,
         <<Len(t.entries) >= t.rules.maxEntrants, "tournament_full">>,
         <<Joined(t, cmd.op.player.id), "already_joined">>,
         <<cmd.op.player.jurisdiction \in t.rules.exclusions.jurisdictions,
           "jurisdiction_excluded">>,
         <<cmd.op.player.age < t.rules.minAge, "underage">>,
         <<~CheckFresh({FeePosting(t, cmd.op.tournament, cmd.op.player)}),
           "ledger_conflict">>,
         <<~Validate(FeePosting(t, cmd.op.tournament, cmd.op.player)),
           "invalid_rules">> >>
<1>7. Verdict(entry) = OK
  BY <1>6 DEF AdmitCode, admit
<1>8. DOMAIN entry = 1..7 /\ \A i \in 1..7 : entry[i][2] # OK
  BY DEF OK
<1>9. /\ ~entry[1][1] /\ ~entry[3][1] /\ ~entry[4][1] /\ ~entry[5][1]
      /\ ~entry[6][1] /\ ~entry[7][1]
  <2> HIDE DEF entry
  <2> QED BY <1>7, <1>8, VerdictOK
<1>10. /\ t.status = "open"
       /\ ~Joined(t, cmd.op.player.id)
       /\ cmd.op.player.jurisdiction \notin t.rules.exclusions.jurisdictions
       /\ ~(cmd.op.player.age < t.rules.minAge)
  BY <1>9
<1>11. cmd.op.tournament \in Ids /\ t = tournaments[cmd.op.tournament]
  BY <1>10 DEF At, Absent
<1>12. Payable({FeePosting(t, cmd.op.tournament, cmd.op.player)})
  <2>1. /\ CheckFresh({FeePosting(t, cmd.op.tournament, cmd.op.player)})
        /\ Validate(FeePosting(t, cmd.op.tournament, cmd.op.player))
    BY <1>9
  <2> QED
    BY <2>1, Zenon DEF Payable
<1> QED
  BY <1>6, <1>10, <1>11, <1>12 DEF InProgress, MayJoin

LEMMA ScoreOK ==
  ASSUME NEW cmd, Score(cmd), <<tournaments, book>>' # <<tournaments, book>>
  PROVE  /\ InProgress(cmd.op.tournament)
         /\ MayScore(tournaments[cmd.op.tournament], cmd.op.player, cmd.op.score)
<1> DEFINE t == At(cmd.op.tournament)
           op == cmd.op
           rules ==
             << <<Unknown(op.tournament), "unknown_tournament">>,
                <<t.rules.game # "", "play_intent_required">>,
                <<t.status # "open", "not_open">>,
                <<~Joined(t, op.player), "not_joined">>,
                <<\E i \in Scored(t) : t.entries[i].player.id = op.player,
                  "already_scored">>,
                <<op.dealSeed # t.seed, "seed_mismatch">>,
                <<op.score \notin 0..t.rules.maxScore, "score_out_of_range">> >>
<1>1. Verdict(rules) = OK
  BY DEF Score, Reject, ScoreCode
<1>2. /\ DOMAIN rules = 1..7
      /\ \A i \in 1..7 : rules[i][2] # OK
  BY DEF OK
<1>3. ~rules[3][1] /\ ~rules[4][1] /\ ~rules[5][1] /\ ~rules[7][1]
  <2> HIDE DEF rules
  <2> QED BY <1>1, <1>2, VerdictOK
<1>4. MayScore(t, op.player, op.score)
  BY <1>3 DEF MayScore, Scorable
<1>5. op.tournament \in Ids /\ t = tournaments[op.tournament]
  BY <1>4 DEF MayScore, Scorable, At, Absent
<1> QED
  BY <1>4, <1>5 DEF InProgress, MayScore, Scorable

LEMMA CloseOK ==
  ASSUME NEW cmd, Close(cmd), <<tournaments, book>>' # <<tournaments, book>>
  PROVE  /\ InProgress(cmd.op.tournament)
         /\ tournaments[cmd.op.tournament].status = "open"
<1> DEFINE t == At(cmd.op.tournament)
           rules == << <<t.status = "absent", "unknown_tournament">>,
                       <<t.status # "open", "not_open">> >>
<1>1. Verdict(rules) = OK
  BY DEF Close, CloseCode, Reject
<1>2. /\ DOMAIN rules = 1..2 /\ 1..2 \subseteq 1..7
      /\ \A i \in 1..2 : rules[i][2] # OK
  BY DEF OK
<1>3. ~rules[2][1]
  <2> HIDE DEF rules
  <2> QED BY <1>1, <1>2, VerdictOK
<1>4. t.status = "open"
  BY <1>3
<1> QED
  BY <1>4 DEF InProgress, At, Absent

\* The command is not rejected.
Accepted(cmd) == ~\E code : Reject(cmd, code)

LEMMA SettleOK ==
  ASSUME NEW cmd, Settle(cmd), Accepted(cmd)
  PROVE  LET op == cmd.op
             t == tournaments[op.tournament]
         IN /\ InProgress(op.tournament)
            /\ Settles(t)
            /\ Payable(SettlePostings(t, op.tournament, op.exclusions,
                         ComputePayouts(t, op.tournament, op.exclusions)))
<1> DEFINE t == At(cmd.op.tournament)
           op == cmd.op
           payouts == ComputePayouts(t, op.tournament, op.exclusions)
           postings == SettlePostings(t, op.tournament, op.exclusions, payouts)
           rules ==
             << <<~ValidateExclusions(op.exclusions), "invalid_exclusions">>,
                <<Unknown(op.tournament), "unknown_tournament">>,
                <<~Settles(t), "not_closed">>,
                <<\E p \in postings : ~Validate(p), "invalid_rules">>,
                <<~CheckFresh(postings), "ledger_conflict">> >>
<1>1. Verdict(rules) = OK
  BY DEF Settle, SettleCode, Accepted
<1>2. /\ DOMAIN rules = 1..5 /\ 1..5 \subseteq 1..7
      /\ \A i \in 1..5 : rules[i][2] # OK
  BY DEF OK
<1>3. ~rules[3][1] /\ ~rules[4][1] /\ ~rules[5][1]
  <2> HIDE DEF rules
  <2> QED BY <1>1, <1>2, VerdictOK
<1>4. Settles(t) /\ Payable(postings)
  <2> HIDE DEF postings, t
  <2> QED
    BY <1>3 DEF Payable
<1>5. op.tournament \in Ids /\ t = tournaments[op.tournament]
  BY <1>4 DEF Settles, At, Absent
<1>6. Settles(tournaments[op.tournament]) /\ InProgress(op.tournament)
  BY <1>4, <1>5 DEF InProgress, Settles
<1> QED
  BY <1>4, <1>5, <1>6

-----------------------------------------------------------------------------
LEMMA TableInit == Init => TableInv
  BY DEF Init, TableInv

\* No operation adds a tournament or a key to the tables, whatever it does.
LEMMA TableStep == TableInv /\ [Next]_vars => TableInv'
<1> SUFFICES ASSUME TableInv, [Next]_vars
             PROVE  TableInv'
  OBVIOUS
<1> USE DEF TableInv
<1>1. CASE UNCHANGED vars
  BY <1>1 DEF vars
<1>2. ASSUME NEW cmd \in Commands, Apply(cmd)
      PROVE  TableInv'
  <2>1. CASE Refuse(cmd) \/ Reused(cmd) \/ Replay(cmd)
    BY <2>1 DEF Refuse, Reused, Replay
  <2>2. CASE Create(cmd)
    BY <2>2 DEF Create, Reject, Record
  <2>3. CASE Join(cmd)
    BY <2>3 DEF Join, Reject, Record
  <2>4. CASE Score(cmd)
    BY <2>4 DEF Score, Reject, Record
  <2>5. CASE Close(cmd)
    BY <2>5 DEF Close, Reject, Record
  <2>6. CASE Settle(cmd)
    BY <2>6 DEF Settle, Reject, Record
  <2> QED
    BY <1>2, <2>1, <2>2, <2>3, <2>4, <2>5, <2>6 DEF Apply
<1> QED
  BY <1>1, <1>2 DEF Next

\* An operation posts to the tournament it names, and changes no other.
Touches(cmd, id) ==
  /\ \A other \in Ids \ {id} : tournaments'[other] = tournaments[other]
  /\ \A p \in book' \ book : p.tournament = id
  /\ book \subseteq book'

LEMMA TouchesOne ==
  ASSUME TableInv, NEW cmd,
         Join(cmd) \/ Score(cmd) \/ Close(cmd) \/ Settle(cmd)
  PROVE  Touches(cmd, cmd.op.tournament)
<1> USE DEF TableInv, Touches
<1>1. CASE Join(cmd)
  <2> DEFINE id == cmd.op.tournament
             fee == FeePosting(At(id), id, cmd.op.player)
  <2>1. CASE UNCHANGED <<tournaments, book>>
    BY <2>1
  <2>2. CASE <<tournaments, book>>' # <<tournaments, book>>
    <3>1. /\ book' = Post(book, {fee})
          /\ \A other \in Ids \ {id} : tournaments'[other] = tournaments[other]
      BY <1>1, <2>2 DEF Join, Reject
    <3>2. fee.tournament = id
      BY DEF FeePosting
    <3> QED
      BY <3>1, <3>2 DEF Post
  <2> QED
    BY <2>1, <2>2
<1>2. CASE Score(cmd)
  BY <1>2 DEF Score, Reject
<1>3. CASE Close(cmd)
  BY <1>3 DEF Close, Reject
<1>4. CASE Settle(cmd)
  <2> DEFINE id == cmd.op.tournament
             t == At(id)
             payouts == ComputePayouts(t, id, cmd.op.exclusions)
             postings == SettlePostings(t, id, cmd.op.exclusions, payouts)
  <2>1. \A p \in postings : p.tournament = id
    <3> HIDE DEF t, payouts, id
    <3>1. \A p \in RakePostings(t, id, cmd.op.exclusions) : p.tournament = id
      <4> DEFINE rake == [key |-> RakeKey(id), kind |-> "rake", debit |-> PoolAccount(id),
                          credit |-> RakeAccount(id), amount |-> t.rake,
                          tournament |-> id, player |-> "", place |-> 0,
                          version |-> cmd.op.exclusions.version]
      <4>1. rake.tournament = id
        OBVIOUS
      <4>2. RakePostings(t, id, cmd.op.exclusions) \subseteq {rake}
        BY Zenon DEF RakePostings
      <4> HIDE DEF rake
      <4> QED
        BY <4>1, <4>2
    <3>2. \A q : PayoutPosting(t, id, q).tournament = id
      BY DEF PayoutPosting
    <3> QED
      BY <3>1, <3>2 DEF SettlePostings
  <2>2. \/ UNCHANGED <<tournaments, book>>
        \/ /\ book' = Post(book, postings)
           /\ tournaments' = [tournaments EXCEPT ![id] =
                [t EXCEPT !.payouts = payouts, !.status = "settled"]]
    BY <1>4 DEF Settle, Reject
  <2> HIDE DEF postings, payouts, t
  <2> QED
    BY <2>1, <2>2 DEF Post
<1> QED
  BY <1>1, <1>2, <1>3, <1>4

Keeps(id) ==
  /\ tournaments'[id] = tournaments[id]
  /\ ForTournament(book', id) = ForTournament(book, id)

LEMMA SettledStep ==
  ASSUME TableInv, [Next]_vars, NEW id \in Ids, tournaments[id].status = "settled"
  PROVE  Keeps(id)
<1>1. CASE UNCHANGED <<tournaments, book>>
  BY <1>1 DEF Keeps
<1>2. ASSUME <<tournaments, book>>' # <<tournaments, book>>,
             NEW cmd \in Commands, Apply(cmd)
      PROVE  Keeps(id)
  <2>1. CASE Refuse(cmd) \/ Reused(cmd) \/ Replay(cmd)
    BY <1>2, <2>1 DEF Refuse, Reused, Replay
  <2>2. CASE Create(cmd)
    BY <1>2, <2>2, CreateOK DEF Create, Reject, TableInv, Keeps
  <2>3. CASE Join(cmd) \/ Score(cmd) \/ Close(cmd) \/ Settle(cmd)
    <3>1. Accepted(cmd)
      BY <1>2 DEF Accepted, Reject
    <3>2. InProgress(cmd.op.tournament)
      BY <1>2, <2>3, <3>1, JoinOK, ScoreOK, CloseOK, SettleOK
    <3>3. cmd.op.tournament # id
      BY <3>2 DEF InProgress
    <3> QED
      BY <2>3, <3>3, TouchesOne DEF Touches, Keeps, ForTournament
  <2> QED
    BY <1>2, <2>1, <2>2, <2>3 DEF Apply
<1> QED
  BY <1>1, <1>2 DEF Next, vars

\* A settled tournament and its postings never change, whatever commands, retries
\* and reused keys the log still holds (D3).
THEOREM SettlementIsFinal == Spec => SettledIsFinal
<1>1. TableInv /\ [Next]_vars
        => [\A id \in Ids : tournaments[id].status = "settled" =>
              /\ tournaments'[id] = tournaments[id]
              /\ ForTournament(book', id) = ForTournament(book, id)]_vars
  BY SettledStep DEF Keeps
<1> QED
  BY <1>1, TableInit, TableStep, PTL DEF Spec, SettledIsFinal

-----------------------------------------------------------------------------
\* The requests that Fingerprint identifies are those that agree on everything
\* but what a leader draws.
LEMMA SameFingerprint ==
  ASSUME NEW c \in Commands, NEW d \in Commands, SameRequest(c, d)
  PROVE  Fingerprint(c) = Fingerprint(d)
<1>1. /\ "name" \in DOMAIN c.op \ Drawn(c.op)
      /\ DOMAIN c.op = DOMAIN d.op
      /\ \A f \in DOMAIN c.op \ Drawn(c.op) : c.op[f] = d.op[f]
  BY CommandAssumption DEF SameRequest, Drawn
<1>2. Drawn(c.op) = Drawn(d.op)
  BY <1>1 DEF Drawn
<1> QED
  BY <1>1, <1>2 DEF Fingerprint

\* A row that is written is not the absent one.
LEMMA RowIsSomething ==
  ASSUME NEW cmd \in Commands, cmd.op.name # "none", NEW code, NEW more
  PROVE  [fingerprint |-> Fingerprint(cmd), code |-> code, more |-> more] # NoRow
<1>1. Fingerprint(cmd) # [name |-> "none"]
  BY CommandAssumption DEF Fingerprint, Drawn
<1> QED
  BY <1>1 DEF NoRow

LEMMA AnswersRecord ==
  ASSUME TableInv, AnswersInv, NEW cmd \in Commands, cmd.op.name # "none",
         NEW code, NEW more,
         cmd.key \in Keys, results[cmd.key] = NoRow, Record(cmd, code, more)
  PROVE  AnswersInv'
<1> DEFINE row == [fingerprint |-> Fingerprint(cmd), code |-> code, more |-> more]
<1>1. row # NoRow /\ row.fingerprint = Fingerprint(cmd)
        /\ row.code = code /\ row.more = more
  BY RowIsSomething
<1>2. results' = [results EXCEPT ![cmd.key] = row]
  BY DEF Record
<1>3. answers' = answers \cup {[cmd |-> cmd, code |-> code, more |-> more]}
  BY DEF Record, Answer
<1> HIDE DEF row
<1>4. ASSUME NEW a \in answers
      PROVE  a.cmd \in Commands /\ AnswerOf(a)'
  BY <1>2 DEF AnswersInv, AnswerOf, TableInv
<1>5. ASSUME NEW a, a = [cmd |-> cmd, code |-> code, more |-> more]
      PROVE  a.cmd \in Commands /\ AnswerOf(a)'
  BY <1>2, <1>5, <1>1 DEF TableInv, AnswerOf
<1> QED
  BY <1>3, <1>4, <1>5 DEF AnswersInv

\* Answers given without an operation leave the table alone.
LEMMA AnswersAlone ==
  ASSUME AnswersInv, NEW cmd \in Commands, Refuse(cmd) \/ Reused(cmd) \/ Replay(cmd)
  PROVE  AnswersInv'
<1>1. results' = results
  BY DEF Refuse, Reused, Replay
<1>2. \A a : AnswerOf(a)' <=> AnswerOf(a)
  BY <1>1 DEF AnswerOf
<1>3. PICK code, more : /\ answers' = answers \cup {[cmd |-> cmd, code |-> code, more |-> more]}
                        /\ AnswerOf([cmd |-> cmd, code |-> code, more |-> more])
  <2>1. CASE Refuse(cmd)
    BY <2>1 DEF Refuse, Answer, AnswerOf, ValidateKey
  <2>2. CASE Reused(cmd)
    BY <2>2 DEF Reused, Answer, AnswerOf, ValidateKey
  <2>3. CASE Replay(cmd)
    BY <2>3 DEF Replay, Answer, AnswerOf, ValidateKey
  <2> QED
    BY <2>1, <2>2, <2>3
<1> QED
  BY <1>2, <1>3 DEF AnswersInv

LEMMA AnswersStep == TableInv /\ AnswersInv /\ [Next]_vars => AnswersInv'
<1> SUFFICES ASSUME TableInv, AnswersInv, [Next]_vars
             PROVE  AnswersInv'
  OBVIOUS
<1>1. CASE UNCHANGED vars
  BY <1>1 DEF vars, AnswersInv, AnswerOf
<1>2. ASSUME NEW cmd \in Commands, Apply(cmd)
      PROVE  AnswersInv'
  <2>1. CASE Refuse(cmd) \/ Reused(cmd) \/ Replay(cmd)
    BY <2>1, AnswersAlone
  <2>2. CASE \E name \in {"create", "join", "score", "close", "settle"} :
               /\ Executes(cmd, name)
               /\ \E code, more : Record(cmd, code, more)
    BY <2>2, AnswersRecord DEF Executes, ValidateKey
  <2>3. CASE Create(cmd)
    BY <2>2, <2>3 DEF Create, Reject
  <2>4. CASE Join(cmd)
    BY <2>2, <2>4 DEF Join, Reject
  <2>5. CASE Score(cmd)
    BY <2>2, <2>5 DEF Score, Reject
  <2>6. CASE Close(cmd)
    BY <2>2, <2>6 DEF Close, Reject
  <2>7. CASE Settle(cmd)
    BY <2>2, <2>7 DEF Settle, Reject
  <2> QED
    BY <1>2, <2>1, <2>3, <2>4, <2>5, <2>6, <2>7 DEF Apply
<1> QED
  BY <1>1, <1>2 DEF Next

\* The answers of one request agree: its key has one row, and the row does not
\* depend on what a leader drew for it.
LEMMA AnswersImply == AnswersInv => RetriesAgree
<1> SUFFICES ASSUME AnswersInv, NEW a \in answers, NEW b \in answers,
                    SameRequest(a.cmd, b.cmd)
             PROVE  a.code = b.code /\ a.more = b.more
  BY DEF RetriesAgree
<1>1. AnswerOf(a) /\ AnswerOf(b)
  BY DEF AnswersInv
<1>2. Fingerprint(a.cmd) = Fingerprint(b.cmd)
  BY SameFingerprint DEF AnswersInv
<1>3. a.cmd.key = b.cmd.key
  BY DEF SameRequest
<1> QED
  BY <1>1, <1>2, <1>3 DEF AnswerOf

\* However often and through whichever leader a request is repeated, it gets the
\* answer it got first.
THEOREM RetriesAreAnsweredAlike == Spec => []RetriesAgree
<1>1. Init => AnswersInv
  BY DEF Init, AnswersInv
<1> QED
  BY <1>1, TableInit, TableStep, AnswersStep, AnswersImply, PTL DEF Spec

-----------------------------------------------------------------------------
(* The ranking of the entries. *)

\* The players that commands name, and those of the bindings.
Applicants ==
  {c.op.player : c \in Commands} \cup
    [id : Players, jurisdiction : Jurisdictions, age : 0..150]

EntryRec == [player : Applicants, joinSeq : Nat, scored : BOOLEAN, score : Int, submitSeq : Nat]

\* The entries of a tournament: numbered as they joined, one per player, and
\* no two scores with the same number.
FieldOK(e) ==
  /\ e \in Seq(EntryRec)
  /\ \A i \in 1..Len(e) : e[i].joinSeq = i
  /\ \A i, j \in 1..Len(e) : e[i].player.id = e[j].player.id => i = j
  /\ \A i, j \in 1..Len(e) :
       e[i].scored /\ e[j].scored /\ e[i].submitSeq = e[j].submitSeq => i = j

\* The order of the ranking is a strict order, and total on the entries of a
\* tournament.
LEMMA AheadIsOrder ==
  ASSUME NEW a \in EntryRec, NEW b \in EntryRec, NEW c \in EntryRec
  PROVE  /\ ~Ahead(a, a)
         /\ Ahead(a, b) => ~Ahead(b, a)
         /\ Ahead(a, b) /\ Ahead(b, c) => Ahead(a, c)
         /\ \/ Ahead(a, b) \/ Ahead(b, a)
            \/ a.scored /\ b.scored /\ a.submitSeq = b.submitSeq
            \/ ~a.scored /\ ~b.scored /\ a.joinSeq = b.joinSeq
BY DEF Ahead, EntryRec

LEMMA AheadIsTotal ==
  ASSUME NEW e, FieldOK(e), NEW i \in 1..Len(e), NEW j \in 1..Len(e), i # j
  PROVE  Ahead(e[i], e[j]) \/ Ahead(e[j], e[i])
<1>1. e[i] \in EntryRec /\ e[j] \in EntryRec
  BY DEF FieldOK
<1>2. /\ ~(e[i].scored /\ e[j].scored /\ e[i].submitSeq = e[j].submitSeq)
      /\ e[i].joinSeq # e[j].joinSeq
  BY DEF FieldOK
<1> QED
  BY <1>1, <1>2, AheadIsOrder

\* The entries ahead of entry i, and the position that leaves to it.
Before(e, i) == {j \in 1..Len(e) : Ahead(e[j], e[i])}

Pos(e, i) == 1 + Cardinality(Before(e, i))

LEMMA PosRange ==
  ASSUME NEW e, FieldOK(e), NEW i \in 1..Len(e)
  PROVE  /\ Pos(e, i) \in 1..Len(e)
         /\ IsFiniteSet(Before(e, i))
         /\ Cardinality(Before(e, i)) \in Nat
         /\ i \notin Before(e, i)
<1>1. Len(e) \in Nat /\ e[i] \in EntryRec
  BY DEF FieldOK
<1>2. IsFiniteSet(1..Len(e)) /\ Cardinality(1..Len(e)) = Len(e)
  <2>1. Len(e) \in Int /\ 1 \in Int /\ ~(1 > Len(e)) /\ Len(e) - 1 + 1 = Len(e)
    BY <1>1
  <2> QED
    BY <2>1, FS_Interval
<1>3. i \notin Before(e, i)
  BY <1>1, AheadIsOrder DEF Before
<1>4. IsFiniteSet((1..Len(e)) \ {i}) /\ Cardinality((1..Len(e)) \ {i}) = Len(e) - 1
  BY <1>2, FS_RemoveElement
<1>5. Before(e, i) \in SUBSET ((1..Len(e)) \ {i})
  BY <1>3 DEF Before
<1>6. /\ IsFiniteSet(Before(e, i))
      /\ Cardinality(Before(e, i)) <= Len(e) - 1
  BY <1>4, <1>5, FS_Subset
<1>7. Cardinality(Before(e, i)) \in Nat
  BY <1>6, FS_CardinalityType
<1> QED
  BY <1>1, <1>3, <1>6, <1>7 DEF Pos

LEMMA PosGrows ==
  ASSUME NEW e, FieldOK(e), NEW i \in 1..Len(e), NEW j \in 1..Len(e), Ahead(e[i], e[j])
  PROVE  Pos(e, i) < Pos(e, j)
<1>1. \A k \in 1..Len(e) : e[k] \in EntryRec
  BY DEF FieldOK
<1>2. Before(e, i) \cup {i} \in SUBSET Before(e, j)
  BY <1>1, AheadIsOrder DEF Before
<1>3. Cardinality(Before(e, i) \cup {i}) = Cardinality(Before(e, i)) + 1
  BY PosRange, FS_AddElement
<1>4. Cardinality(Before(e, i) \cup {i}) <= Cardinality(Before(e, j))
  BY <1>2, PosRange, FS_Subset
<1> QED
  BY <1>3, <1>4, PosRange DEF Pos

LEMMA PosIsOneToOne ==
  ASSUME NEW e, FieldOK(e)
  PROVE  [i \in 1..Len(e) |-> Pos(e, i)] \in Bijection(1..Len(e), 1..Len(e))
<1> DEFINE f == [i \in 1..Len(e) |-> Pos(e, i)]
<1>1. f \in [1..Len(e) -> 1..Len(e)]
  BY PosRange
<1>2. ASSUME NEW i \in 1..Len(e), NEW j \in 1..Len(e), i # j
      PROVE  f[i] # f[j]
  <2>1. Pos(e, i) < Pos(e, j) \/ Pos(e, j) < Pos(e, i)
    BY <1>2, AheadIsTotal, PosGrows
  <2> QED
    BY <2>1, PosRange
<1>3. f \in Injection(1..Len(e), 1..Len(e))
  <2> HIDE DEF f
  <2> QED
    BY <1>1, <1>2 DEF Injection, IsInjective
<1>4. IsFiniteSet(1..Len(e))
  BY FS_Interval DEF FieldOK
<1>5. f \in Surjection(1..Len(e), 1..Len(e))
  <2> HIDE DEF f
  <2> QED
    BY <1>3, <1>4, FS_Injection
<1> QED
  BY <1>3, <1>5 DEF Bijection

\* p is a result of the sort.
Sorted(e, p) == \A i, j \in DOMAIN e : i < j => ~Ahead(e[p[j]], e[p[i]])

\* There is one, as every position is taken by one entry, and in each of them
\* the entries have their positions.
LEMMA OrderExists ==
  ASSUME NEW e, FieldOK(e)
  PROVE  \E p \in Bijection(DOMAIN e, DOMAIN e) : Sorted(e, p)
<1> DEFINE n == 1..Len(e)
           f == [i \in n |-> Pos(e, i)]
           p == Inverse(f, n, n)
<1>1. DOMAIN e = n
  BY DEF FieldOK
<1>2. f \in Bijection(n, n)
  BY PosIsOneToOne
<1>3. p \in Bijection(n, n) /\ \A s \in n : p[f[s]] = s
  <2> HIDE DEF f, n
  <2> QED
    BY <1>2, Fun_BijInverse
<1>4. p \in [n -> n] /\ \A t \in n : \E s \in n : f[s] = t
  <2> HIDE DEF f, n, p
  <2> QED
    BY <1>2, <1>3, Fun_BijectionProperties
<1>5. ASSUME NEW i \in n PROVE Pos(e, p[i]) = i /\ p[i] \in n
  <2>1. PICK s \in n : f[s] = i
    BY <1>4
  <2>2. p[i] = s
    <3> HIDE DEF f, n, p
    <3> QED
      BY <1>3, <2>1
  <2> QED
    BY <2>1, <2>2
<1>6. ASSUME NEW i \in n, NEW j \in n, i < j, Ahead(e[p[j]], e[p[i]])
      PROVE  FALSE
  <2> HIDE DEF p, f
  <2>1. Pos(e, p[j]) < Pos(e, p[i])
    BY <1>5, <1>6, PosGrows
  <2> QED
    BY <1>5, <1>6, <2>1
<1> QED
  BY <1>1, <1>3, <1>6 DEF Sorted

LEMMA SortedPos ==
  ASSUME NEW e, FieldOK(e), NEW p \in Bijection(DOMAIN e, DOMAIN e), Sorted(e, p),
         NEW i \in 1..Len(e)
  PROVE  Pos(e, p[i]) = i
<1> DEFINE n == 1..Len(e)
           head == 1..(i - 1)
<1>1. DOMAIN e = n /\ Len(e) \in Nat /\ \A k \in n : e[k] \in EntryRec
  BY DEF FieldOK
<1>2. /\ p \in [n -> n]
      /\ \A a, b \in n : p[a] = p[b] => a = b
      /\ \A t \in n : \E s \in n : p[s] = t
  <2>1. p \in Bijection(n, n)
    BY <1>1
  <2> HIDE DEF n
  <2> QED
    BY <2>1, Fun_BijectionProperties
<1>3. ASSUME NEW k \in n, k < i
      PROVE  Ahead(e[p[k]], e[p[i]])
  <2>1. p[k] # p[i] /\ p[k] \in n /\ p[i] \in n
    <3>1. k # i /\ i \in n
      BY <1>1, <1>3
    <3> HIDE DEF n
    <3> QED
      BY <1>2, <3>1
  <2>2. ~Ahead(e[p[i]], e[p[k]])
    BY <1>1, <1>3 DEF Sorted
  <2> QED
    BY <2>1, <2>2, AheadIsTotal
<1>4. ASSUME NEW k \in n, Ahead(e[p[k]], e[p[i]])
      PROVE  k < i
  <2>1. k # i
    BY <1>1, <1>2, AheadIsOrder, <1>4
  <2>2. ~(i < k)
    BY <1>1, <1>4 DEF Sorted
  <2> QED
    BY <2>1, <2>2
<1> DEFINE g == [k \in head |-> p[k]]
<1>5. head \subseteq n /\ \A k \in n : k \in head <=> k < i
  BY <1>1
<1>6. g \in [head -> Before(e, p[i])]
  BY <1>2, <1>3, <1>5 DEF Before
<1>7. \A t \in Before(e, p[i]) : \E s \in head : g[s] = t
  <2> SUFFICES ASSUME NEW t \in Before(e, p[i])
               PROVE  \E s \in head : g[s] = t
    OBVIOUS
  <2>1. t \in n /\ Ahead(e[t], e[p[i]])
    BY DEF Before
  <2>2. PICK s \in n : p[s] = t
    BY <1>2, <2>1
  <2>3. s \in head
    BY <1>4, <1>5, <2>1, <2>2
  <2> QED
    BY <2>2, <2>3
<1>8. \A a, b \in head : g[a] = g[b] => a = b
  BY <1>2, <1>5
<1>9. g \in Bijection(head, Before(e, p[i]))
  <2> HIDE DEF g, head
  <2> QED
    BY <1>6, <1>7, <1>8 DEF Bijection, Injection, Surjection, IsInjective
<1>10. IsFiniteSet(head) /\ Cardinality(head) = i - 1
  BY FS_Interval
<1>11. Cardinality(Before(e, p[i])) = i - 1
  <2> HIDE DEF g, head
  <2> QED
    BY <1>9, <1>10, FS_Bijection DEF ExistsBijection
<1> QED
  BY <1>11 DEF Pos

LEMMA RankedIs ==
  ASSUME NEW e, FieldOK(e)
  PROVE  \E p \in Bijection(1..Len(e), 1..Len(e)) :
           /\ \A i \in 1..Len(e) : Pos(e, p[i]) = i
           /\ Ranked(e) = [i \in 1..Len(e) |-> e[p[i]]]
<1>1. DOMAIN e = 1..Len(e)
  BY DEF FieldOK
<1>2. PICK p : p = CHOOSE q \in Bijection(DOMAIN e, DOMAIN e) : Sorted(e, q)
  OBVIOUS
<1>3. p \in Bijection(DOMAIN e, DOMAIN e) /\ Sorted(e, p)
  BY <1>2, OrderExists
<1>4. Ranked(e) = [i \in DOMAIN e |-> e[p[i]]]
  BY <1>2 DEF Ranked, Sorted
<1> QED
  BY <1>1, <1>3, <1>4, SortedPos

-----------------------------------------------------------------------------
(* The standings. *)

\* The entries ahead of entry i: better scores, earlier equal scores, and the
\* unscored ones that joined before it.
Betters(e, i) ==
  {j \in DOMAIN e : e[j].scored /\ (~e[i].scored \/ e[j].score > e[i].score)}

Earlier(e, i) ==
  {j \in {k \in DOMAIN e : e[k].scored} :
     e[i].scored /\ e[j].score = e[i].score /\ e[j].submitSeq < e[i].submitSeq}

Idle(e, i) ==
  {j \in DOMAIN e \ {k \in DOMAIN e : e[k].scored} : ~e[i].scored /\ j < i}

LEMMA BeforeIs ==
  ASSUME NEW e, FieldOK(e), NEW i \in 1..Len(e)
  PROVE  /\ Before(e, i) = (Betters(e, i) \cup Earlier(e, i)) \cup Idle(e, i)
         /\ Betters(e, i) \cap Earlier(e, i) = {}
         /\ (Betters(e, i) \cup Earlier(e, i)) \cap Idle(e, i) = {}
<1>1. DOMAIN e = 1..Len(e) /\ Len(e) \in Nat
  BY DEF FieldOK
<1>2. ASSUME NEW j \in 1..Len(e)
      PROVE  /\ e[j].scored \in BOOLEAN /\ e[j].score \in Int /\ e[j].submitSeq \in Nat
             /\ e[j].joinSeq = j
  <2>1. e[j] \in EntryRec /\ e[j].joinSeq = j
    BY DEF FieldOK
  <2> QED
    BY <2>1 DEF EntryRec
<1>3. ASSUME NEW j \in 1..Len(e)
      PROVE  /\ Ahead(e[j], e[i]) <=> \/ j \in Betters(e, i)
                                      \/ j \in Earlier(e, i)
                                      \/ j \in Idle(e, i)
             /\ ~(j \in Betters(e, i) /\ j \in Earlier(e, i))
             /\ ~(j \in Betters(e, i) /\ j \in Idle(e, i))
             /\ ~(j \in Earlier(e, i) /\ j \in Idle(e, i))
  BY <1>1, <1>2 DEF Betters, Earlier, Idle, Ahead
<1>4. /\ Betters(e, i) \subseteq 1..Len(e)
      /\ Earlier(e, i) \subseteq 1..Len(e)
      /\ Idle(e, i) \subseteq 1..Len(e)
  BY <1>1 DEF Betters, Earlier, Idle
<1> QED
  BY <1>3, <1>4 DEF Before

\* The number of elements of a disjoint union.
LEMMA DisjointUnion ==
  ASSUME NEW S, NEW T, IsFiniteSet(S), IsFiniteSet(T), S \cap T = {}
  PROVE  Cardinality(S \cup T) = Cardinality(S) + Cardinality(T)
<1>1. Cardinality(S \cup T) = Cardinality(S) + Cardinality(T) - Cardinality(S \cap T)
  BY FS_Union
<1>2. Cardinality(S \cap T) = 0
  BY FS_EmptySet
<1>3. Cardinality(S) \in Nat /\ Cardinality(T) \in Nat
  BY FS_CardinalityType
<1> QED
  BY <1>1, <1>2, <1>3

LEMMA PosIs ==
  ASSUME NEW e, FieldOK(e), NEW i \in 1..Len(e)
  PROVE  /\ Pos(e, i) = 1 + Cardinality(Betters(e, i)) + Cardinality(Earlier(e, i))
                          + Cardinality(Idle(e, i))
         /\ Cardinality(Betters(e, i)) \in Nat
         /\ Cardinality(Earlier(e, i)) \in Nat
         /\ Cardinality(Idle(e, i)) \in Nat
<1> DEFINE B == Betters(e, i)
           E == Earlier(e, i)
           I == Idle(e, i)
<1>1. Before(e, i) = (B \cup E) \cup I /\ B \cap E = {} /\ (B \cup E) \cap I = {}
  BY BeforeIs
<1>2. IsFiniteSet(Before(e, i))
  BY PosRange
<1> HIDE DEF B, E, I
<1>3. IsFiniteSet(B) /\ IsFiniteSet(E) /\ IsFiniteSet(I) /\ IsFiniteSet(B \cup E)
  BY <1>1, <1>2, FS_Subset
<1>4. /\ Cardinality(B) \in Nat /\ Cardinality(E) \in Nat /\ Cardinality(I) \in Nat
      /\ Cardinality(B \cup E) \in Nat
  BY <1>3, FS_CardinalityType
<1>5. Cardinality(B \cup E) = Cardinality(B) + Cardinality(E)
  BY <1>1, <1>3, DisjointUnion
<1>6. Cardinality((B \cup E) \cup I) = Cardinality(B \cup E) + Cardinality(I)
  BY <1>1, <1>3, DisjointUnion
<1> QED
  BY <1>1, <1>4, <1>5, <1>6 DEF Pos, B, E, I

\* The rows of ComputeStandings.
Shared(e, p, r) == {j \in 1..r : e[p[j]].scored /\ e[p[j]].score = e[p[r]].score}

Row(e, p, tie, r) ==
  [place |-> IF tie = "split" /\ e[p[r]].scored THEN Min(Shared(e, p, r)) ELSE r,
   player |-> e[p[r]].player.id,
   score |-> e[p[r]].score,
   scored |-> e[p[r]].scored]

\* p lists the entries by their positions.
Ranks(e, p) ==
  /\ p \in Bijection(1..Len(e), 1..Len(e))
  /\ \A i \in 1..Len(e) : Pos(e, p[i]) = i

LEMMA StandingsAre ==
  ASSUME NEW t, FieldOK(t.entries)
  PROVE  \E p : /\ Ranks(t.entries, p)
                /\ ComputeStandings(t) =
                     [r \in 1..Len(t.entries) |-> Row(t.entries, p, t.rules.tieBreak, r)]
<1> DEFINE e == t.entries
           n == 1..Len(e)
<1>1. PICK p \in Bijection(n, n) : /\ \A i \in n : Pos(e, p[i]) = i
                                   /\ Ranked(e) = [i \in n |-> e[p[i]]]
  BY RankedIs
<1>2. p \in [n -> n]
  <2> HIDE DEF n
  <2> QED
    BY Fun_BijectionProperties
<1>3. PICK ranked : ranked = Ranked(e)
  OBVIOUS
<1>4. DOMAIN ranked = n /\ \A i \in n : ranked[i] = e[p[i]]
  BY <1>1, <1>3
<1> DEFINE shared(i) == {j \in 1..i : ranked[j].scored /\ ranked[j].score = ranked[i].score}
<1>5. ComputeStandings(t) =
        [i \in DOMAIN ranked |->
          [place |-> IF t.rules.tieBreak = "split" /\ ranked[i].scored
                       THEN Min(shared(i)) ELSE i,
           player |-> ranked[i].player.id,
           score |-> ranked[i].score,
           scored |-> ranked[i].scored]]
  BY <1>3 DEF ComputeStandings
<1>6. ASSUME NEW r \in n
      PROVE  shared(r) = Shared(e, p, r)
  <2>1. Len(e) \in Nat
    BY DEF FieldOK
  <2>2. \A j \in 1..r : j \in n
    BY <2>1
  <2> HIDE DEF n
  <2> QED
    BY <1>4, <2>2 DEF Shared
<1>7. ASSUME NEW r \in n
      PROVE  [place |-> IF t.rules.tieBreak = "split" /\ ranked[r].scored
                          THEN Min(shared(r)) ELSE r,
              player |-> ranked[r].player.id,
              score |-> ranked[r].score,
              scored |-> ranked[r].scored] = Row(e, p, t.rules.tieBreak, r)
  <2>1. ranked[r] = e[p[r]] /\ shared(r) = Shared(e, p, r)
    BY <1>4, <1>6
  <2> HIDE DEF shared
  <2> QED
    BY <2>1 DEF Row
<1>8. ComputeStandings(t) = [r \in n |-> Row(e, p, t.rules.tieBreak, r)]
  <2> HIDE DEF shared, n
  <2> QED
    BY <1>4, <1>5, <1>7
<1> QED
  BY <1>1, <1>8 DEF Ranks

LEMMA RanksFacts ==
  ASSUME NEW e, FieldOK(e), NEW p, Ranks(e, p)
  PROVE  /\ p \in [1..Len(e) -> 1..Len(e)]
         /\ \A a, b \in 1..Len(e) : p[a] = p[b] => a = b
         /\ \A t \in 1..Len(e) : \E s \in 1..Len(e) : p[s] = t
         /\ \A i \in 1..Len(e) : Pos(e, p[i]) = i
<1>1. PICK n : n = 1..Len(e)
  OBVIOUS
<1>2. p \in Bijection(n, n)
  BY <1>1 DEF Ranks
<1>3. /\ p \in [n -> n]
      /\ \A a, b \in n : p[a] = p[b] => a = b
      /\ \A t \in n : \E s \in n : p[s] = t
  BY <1>2, Fun_BijectionProperties
<1> QED
  BY <1>1, <1>3 DEF Ranks

\* Under Split the place of a scored entry is the number of better ones, and one.
LEMMA SharedPlace ==
  ASSUME NEW e, FieldOK(e), NEW p, Ranks(e, p), NEW r \in 1..Len(e), e[p[r]].scored
  PROVE  Min(Shared(e, p, r)) = 1 + Cardinality(Betters(e, p[r]))
<1> DEFINE S == Shared(e, p, r)
           n == 1..Len(e)
<1>0. r \in n
  OBVIOUS
<1>1. Len(e) \in Nat /\ DOMAIN e = n /\ r \in Nat
  BY DEF FieldOK
<1>2. S \in SUBSET (0..r) /\ r \in S /\ \A j \in S : j \in n /\ j \in Nat
  BY <1>1 DEF Shared
<1>3. PICK m \in S : \A y \in S : m <= y
  BY <1>1, <1>2, Numbers!SmallestNumber
<1>4. Min(S) = m
  <2> HIDE DEF S
  <2>1. \E x \in S : \A y \in S : x <= y
    BY <1>3
  <2>2. Min(S) \in S /\ \A y \in S : Min(S) <= y
    BY <2>1 DEF Min
  <2>3. Min(S) \in Nat /\ m \in Nat
    BY <1>2, <2>2
  <2> QED
    BY <1>3, <2>2, <2>3
<1>5. /\ m \in n /\ e[p[m]].scored /\ e[p[m]].score = e[p[r]].score
      /\ p[m] \in n /\ p[r] \in n
  <2>1. \A j \in S : e[p[j]].scored /\ e[p[j]].score = e[p[r]].score
    BY Zenon DEF Shared
  <2>2. m \in n
    BY <1>2
  <2>3. p[m] \in n /\ p[r] \in n
    <3>1. p \in [n -> n]
      BY RanksFacts
    <3> HIDE DEF n
    <3> QED
      BY <2>2, <3>1, <1>0
  <2> HIDE DEF S
  <2> QED
    BY <2>1, <2>2, <2>3
<1>6. Betters(e, p[m]) = Betters(e, p[r])
  BY <1>5 DEF Betters
<1>7. Idle(e, p[m]) = {}
  BY <1>5 DEF Idle
<1>8. Earlier(e, p[m]) = {}
  <2> SUFFICES ASSUME NEW k \in Earlier(e, p[m])
               PROVE  FALSE
    OBVIOUS
  <2>1. k \in n /\ e[k].scored /\ e[k].score = e[p[m]].score
    BY <1>1 DEF Earlier
  <2>2. Ahead(e[k], e[p[m]])
    BY <1>5, BeforeIs DEF Before
  <2>3. PICK q \in n : p[q] = k
    BY <2>1, RanksFacts
  <2>4. q < m
    <3>1. Pos(e, k) < Pos(e, p[m])
      BY <1>5, <2>1, <2>2, PosGrows
    <3>2. Pos(e, p[q]) = q /\ Pos(e, p[m]) = m
      BY <1>5, RanksFacts
    <3> QED
      BY <2>3, <3>1, <3>2
  <2>5. q \in 1..r
    BY <1>1, <1>2, <1>3, <2>4
  <2>6. q \in S
    BY <1>5, <2>1, <2>3, <2>5 DEF Shared
  <2> QED
    BY <1>2, <1>3, <2>4, <2>6
<1>9. Pos(e, p[m]) = m
  BY <1>5, RanksFacts
<1>10. Cardinality({}) = 0
  BY FS_EmptySet
<1>11. /\ Pos(e, p[m]) = 1 + Cardinality(Betters(e, p[m])) + Cardinality(Earlier(e, p[m]))
                          + Cardinality(Idle(e, p[m]))
       /\ Cardinality(Betters(e, p[m])) \in Nat
  BY <1>5, PosIs
<1>12. m = 1 + Cardinality(Betters(e, p[m]))
  BY <1>7, <1>8, <1>9, <1>10, <1>11
<1> QED
  BY <1>4, <1>6, <1>12

-----------------------------------------------------------------------------
(* The invariant of a tournament. *)

\* A tournament is a record of these fields.
Shape(t) ==
  t = [status |-> t.status, seed |-> t.seed, rules |-> t.rules, entries |-> t.entries,
       fees |-> t.fees, rake |-> t.rake, pool |-> t.pool, standings |-> t.standings,
       payouts |-> t.payouts]

\* What the status says of the rest.
StageOK(t) ==
  /\ t.status \in {"absent", "open", "closed", "voided", "settled"}
  /\ t.status # "absent" => /\ t.rules.minAge \in Nat /\ t.rules.maxScore \in Nat
                            /\ Len(t.rules.prizeBps) \in Nat
  /\ t.status # "settled" => t.payouts = <<>>
  /\ t.status = "closed" => ~Voids(t)
  /\ t.status = "voided" => Voids(t)
  /\ t.status \in {"closed", "voided", "settled"} => t.standings = ComputeStandings(t)

EligibleOK(t) ==
  \A i \in DOMAIN t.entries :
    /\ t.entries[i].player.jurisdiction \notin t.rules.exclusions.jurisdictions
    /\ t.entries[i].player.age >= t.rules.minAge

SubmitSeqOK(t) == \A i \in Scored(t) : t.entries[i].submitSeq \in 1..ScoredCount(t)

TourOK(t) ==
  /\ Shape(t)
  /\ FieldOK(t.entries)
  /\ SubmitSeqOK(t)
  /\ StageOK(t)
  /\ EligibleOK(t)

\* Standings and the decision to void depend on the entries and the rules alone.
LEMMA SameRanking ==
  ASSUME NEW t, NEW u, u.entries = t.entries, u.rules = t.rules
  PROVE  /\ ComputeStandings(u) = ComputeStandings(t)
         /\ Voids(u) = Voids(t)
         /\ Scored(u) = Scored(t)
         /\ ScoredCount(u) = ScoredCount(t)
<1>1. ComputeStandings(u) = ComputeStandings(t)
  BY Zenon DEF ComputeStandings
<1>2. Scored(u) = Scored(t)
  BY DEF Scored
<1>3. ScoredCount(u) = ScoredCount(t)
  BY <1>2, Zenon DEF ScoredCount
<1>4. Voids(u) = Voids(t)
  BY <1>3, Zenon DEF Voids
<1> QED
  BY <1>1, <1>2, <1>3, <1>4

LEMMA ScoredFinite ==
  ASSUME NEW t, FieldOK(t.entries)
  PROVE  /\ IsFiniteSet(Scored(t)) /\ ScoredCount(t) \in Nat
         /\ Scored(t) \subseteq 1..Len(t.entries)
<1>1. DOMAIN t.entries = 1..Len(t.entries) /\ Len(t.entries) \in Nat
  BY DEF FieldOK
<1>2. Scored(t) \in SUBSET (1..Len(t.entries))
  BY <1>1 DEF Scored
<1>3. IsFiniteSet(1..Len(t.entries))
  BY <1>1, FS_Interval
<1>4. IsFiniteSet(Scored(t))
  BY <1>2, <1>3, FS_Subset
<1> QED
  BY <1>2, <1>4, FS_CardinalityType DEF ScoredCount

LEMMA NoEntries == FieldOK(<<>>) /\ DOMAIN <<>> = {}
<1>1. <<>> \in Seq(EntryRec) /\ Len(<<>>) = 0 /\ 1..0 = {}
  OBVIOUS
<1>2. 1..Len(<<>>) = {}
  BY <1>1
<1> QED
  BY <1>1, <1>2 DEF FieldOK

LEMMA AbsentOK == TourOK(Absent)
<1>1. Shape(Absent)
  BY DEF Shape, Absent
<1>2. /\ Absent.entries = <<>> /\ Absent.status = "absent" /\ Absent.payouts = <<>>
  BY DEF Absent
<1>3. FieldOK(Absent.entries)
  BY <1>2, NoEntries
<1>4. DOMAIN Absent.entries = {}
  BY <1>2, NoEntries
<1>5. Scored(Absent) = {}
  BY <1>4 DEF Scored
<1>6. StageOK(Absent)
  BY <1>2 DEF StageOK
<1> QED
  BY <1>1, <1>3, <1>4, <1>5, <1>6 DEF TourOK, SubmitSeqOK, EligibleOK

LEMMA RulesAreNumbers ==
  ASSUME NEW r, ValidateRules(r)
  PROVE  r.minAge \in Nat /\ r.maxScore \in Nat /\ Len(r.prizeBps) \in Nat
BY BoundsAssumption, SMT DEF ValidateRules

LEMMA CreateKeeps ==
  ASSUME NEW seed, NEW rules, ValidateRules(rules), NEW u,
         u = [Absent EXCEPT !.status = "open", !.seed = seed, !.rules = rules]
  PROVE  TourOK(u)
<1>1. /\ Shape(u) /\ u.entries = <<>> /\ u.status = "open" /\ u.payouts = <<>>
      /\ u.rules = rules
  BY DEF Absent, Shape
<1>2. FieldOK(u.entries)
  BY <1>1, NoEntries
<1>3. DOMAIN u.entries = {}
  BY <1>1, NoEntries
<1>4. Scored(u) = {}
  BY <1>3 DEF Scored
<1>5. rules.minAge \in Nat /\ rules.maxScore \in Nat /\ Len(rules.prizeBps) \in Nat
  BY RulesAreNumbers
<1>6. StageOK(u)
  BY <1>1, <1>5 DEF StageOK
<1> QED
  BY <1>1, <1>2, <1>3, <1>4, <1>6 DEF TourOK, SubmitSeqOK, EligibleOK

\* A copy of a tournament that is open, with other entries.
LEMMA OpenStage ==
  ASSUME NEW t, StageOK(t), t.status = "open", NEW u,
         u.status = t.status, u.rules = t.rules, u.payouts = t.payouts
  PROVE  StageOK(u)
BY DEF StageOK

LEMMA OldEnough ==
  ASSUME NEW age \in 0..150, NEW limit \in Nat, ~(age < limit)
  PROVE  age >= limit
OBVIOUS

LEMMA JoinKeeps ==
  ASSUME NEW t, TourOK(t), NEW player \in Applicants, MayJoin(t, player), NEW entry,
         entry = [player |-> player, joinSeq |-> Len(t.entries) + 1,
                  scored |-> FALSE, score |-> 0, submitSeq |-> 0],
         NEW u, u = [t EXCEPT !.entries = Append(t.entries, entry)]
  PROVE  TourOK(u)
<1>1. PICK e : e = t.entries
  OBVIOUS
<1>2. PICK g : g = Append(e, entry)
  OBVIOUS
<1>3. e \in Seq(EntryRec) /\ Len(e) \in Nat /\ DOMAIN e = 1..Len(e) /\ FieldOK(e)
  BY <1>1 DEF TourOK, FieldOK
<1>4. /\ entry.player = player /\ entry.joinSeq = Len(e) + 1 /\ entry.scored = FALSE
      /\ entry.submitSeq = 0
  BY <1>1
<1>5. entry \in EntryRec
  BY <1>1, <1>3 DEF EntryRec
<1>6. /\ g \in Seq(EntryRec) /\ Len(g) = Len(e) + 1 /\ DOMAIN g = 1..Len(e) + 1
      /\ \A i \in 1..Len(e) : g[i] = e[i]
      /\ g[Len(e) + 1] = entry
  <2> HIDE DEF EntryRec
  <2> QED
    BY <1>2, <1>3, <1>5
<1>7. /\ Shape(u) /\ u.entries = g /\ u.status = t.status /\ u.rules = t.rules
      /\ u.payouts = t.payouts
  BY <1>1, <1>2 DEF TourOK, Shape
<1>8. \A i \in 1..Len(e) : e[i].player.id # player.id
  BY <1>1, <1>3 DEF MayJoin, Joined
<1>9. \A i \in 1..Len(g) : i \in 1..Len(e) \/ i = Len(e) + 1
  BY <1>3, <1>6
<1>10. FieldOK(g)
  <2>1. \A i \in 1..Len(g) : g[i].joinSeq = i
    BY <1>3, <1>4, <1>6, <1>9 DEF FieldOK
  <2>2. ASSUME NEW i \in 1..Len(g), NEW j \in 1..Len(g), g[i].player.id = g[j].player.id
        PROVE  i = j
    BY <1>3, <1>4, <1>6, <1>8, <1>9, <2>2 DEF FieldOK
  <2>3. ASSUME NEW i \in 1..Len(g), NEW j \in 1..Len(g), g[i].scored, g[j].scored,
               g[i].submitSeq = g[j].submitSeq
        PROVE  i = j
    BY <1>4, <1>6, <1>9, <2>3, <1>3 DEF FieldOK
  <2> QED
    BY <1>6, <2>1, <2>2, <2>3 DEF FieldOK
<1>11. Scored(u) = Scored(t)
  BY <1>1, <1>3, <1>4, <1>6, <1>7, <1>9 DEF Scored
<1>12. SubmitSeqOK(u)
  <2>1. ScoredCount(u) = ScoredCount(t)
    BY <1>11, Zenon DEF ScoredCount
  <2>2. \A i \in Scored(t) : u.entries[i] = t.entries[i]
    BY <1>1, <1>3, <1>6, <1>7 DEF Scored
  <2> QED
    BY <1>11, <2>1, <2>2 DEF TourOK, SubmitSeqOK
<1>13. StageOK(u)
  BY <1>7, OpenStage DEF TourOK, MayJoin
<1>14. EligibleOK(u)
  <2>1. player.age \in 0..150 /\ t.rules.minAge \in Nat
    BY DEF MayJoin, ValidatePlayer, TourOK, StageOK
  <2>2. /\ player.jurisdiction \notin t.rules.exclusions.jurisdictions
        /\ player.age >= t.rules.minAge
    <3>1. ~(player.age < t.rules.minAge)
      BY Zenon DEF MayJoin
    <3>2. player.age >= t.rules.minAge
      BY <2>1, <3>1, OldEnough, Zenon
    <3> QED
      BY <3>2, Zenon DEF MayJoin
  <2>3. \A i \in 1..Len(e) :
          /\ e[i].player.jurisdiction \notin t.rules.exclusions.jurisdictions
          /\ e[i].player.age >= t.rules.minAge
    BY <1>1, <1>3 DEF TourOK, EligibleOK
  <2> QED
    BY <1>4, <1>6, <1>7, <1>9, <2>2, <2>3 DEF EligibleOK
<1> QED
  BY <1>7, <1>10, <1>12, <1>13, <1>14 DEF TourOK

LEMMA EntryFound ==
  ASSUME NEW t, NEW p, Joined(t, p)
  PROVE  EntryOf(t, p) \in DOMAIN t.entries /\ t.entries[EntryOf(t, p)].player.id = p
BY DEF Joined, EntryOf

\* What Score makes of an entry.
WithScore(d, score, seq) == [d EXCEPT !.scored = TRUE, !.score = score, !.submitSeq = seq]

LEMMA ScoredEntry ==
  ASSUME NEW d \in EntryRec, NEW score \in Int, NEW seq \in Nat
  PROVE  /\ WithScore(d, score, seq) \in EntryRec
         /\ WithScore(d, score, seq).player = d.player
         /\ WithScore(d, score, seq).joinSeq = d.joinSeq
         /\ WithScore(d, score, seq).scored
         /\ WithScore(d, score, seq).submitSeq = seq
BY DEF EntryRec, WithScore

LEMMA ScoreKeeps ==
  ASSUME NEW t, TourOK(t), NEW player, NEW score \in Int, Scorable(t, player), NEW k,
         k = EntryOf(t, player), NEW entry,
         entry = WithScore(t.entries[k], score, ScoredCount(t) + 1),
         NEW u, u = [t EXCEPT !.entries = [t.entries EXCEPT ![k] = entry]]
  PROVE  TourOK(u)
<1>1. PICK e : e = t.entries
  OBVIOUS
<1>2. PICK g : g = [e EXCEPT ![k] = entry]
  OBVIOUS
<1>3. PICK c : c = ScoredCount(t)
  OBVIOUS
<1>4. e \in Seq(EntryRec) /\ Len(e) \in Nat /\ DOMAIN e = 1..Len(e) /\ FieldOK(e)
  BY <1>1 DEF TourOK, FieldOK
<1>5. k \in 1..Len(e) /\ e[k].player.id = player /\ e[k] \in EntryRec
  BY <1>1, <1>4, EntryFound DEF Scorable
<1>6. score \in Int /\ c \in Nat
  BY <1>1, <1>3, <1>4, ScoredFinite
<1>7. entry = WithScore(e[k], score, c + 1)
  BY <1>1, <1>3, Zenon
<1>8. /\ entry \in EntryRec
      /\ entry.player = e[k].player /\ entry.joinSeq = e[k].joinSeq
      /\ entry.scored /\ entry.submitSeq = c + 1
  <2>1. c + 1 \in Nat
    BY <1>6
  <2>2. e[k] \in EntryRec /\ score \in Int
    BY <1>5, <1>6
  <2>3. PICK d, seq : d = e[k] /\ seq = c + 1
    OBVIOUS
  <2>4. /\ WithScore(d, score, seq) \in EntryRec
        /\ WithScore(d, score, seq).player = d.player
        /\ WithScore(d, score, seq).joinSeq = d.joinSeq
        /\ WithScore(d, score, seq).scored
        /\ WithScore(d, score, seq).submitSeq = seq
    BY <2>1, <2>2, <2>3, ScoredEntry
  <2>5. entry = WithScore(d, score, seq)
    BY <1>7, <2>3, Zenon
  <2> QED
    BY <2>3, <2>4, <2>5
<1>10. /\ g \in Seq(EntryRec) /\ Len(g) = Len(e) /\ DOMAIN g = 1..Len(e)
       /\ g[k] = entry
       /\ \A i \in 1..Len(e) : i # k => g[i] = e[i]
  <2> HIDE DEF EntryRec
  <2> QED
    BY <1>2, <1>4, <1>5, <1>8
<1>11. /\ Shape(u) /\ u.entries = g /\ u.status = t.status /\ u.rules = t.rules
       /\ u.payouts = t.payouts
  BY <1>1, <1>2 DEF TourOK, Shape
<1>12. k \notin Scored(t)
  BY <1>1, <1>5 DEF Scorable
<1>13. Scored(u) = Scored(t) \cup {k}
  BY <1>1, <1>4, <1>5, <1>8, <1>10, <1>11 DEF Scored
<1>14. ScoredCount(u) = c + 1
  BY <1>1, <1>3, <1>4, <1>12, <1>13, ScoredFinite, FS_AddElement DEF ScoredCount
<1>15. ASSUME NEW i \in Scored(t)
       PROVE  i \in 1..Len(e) /\ i # k /\ e[i].submitSeq \in 1..c
  BY <1>1, <1>4, <1>12, ScoredFinite, <1>3 DEF TourOK, SubmitSeqOK
<1>16. SubmitSeqOK(u)
  <2>1. ASSUME NEW i \in Scored(u)
        PROVE  g[i].submitSeq \in 1..(c + 1)
    <3>1. CASE i = k
      BY <1>8, <1>10, <3>1, <1>6
    <3>2. CASE i # k
      BY <1>13, <3>2, <1>10, <1>15, <1>6
    <3> QED
      BY <3>1, <3>2
  <2> QED
    BY <1>11, <1>14, <2>1 DEF SubmitSeqOK
<1>17. FieldOK(g)
  <2>1. \A i \in 1..Len(g) : g[i].joinSeq = e[i].joinSeq /\ g[i].player = e[i].player
    BY <1>8, <1>10
  <2>2. ASSUME NEW i \in 1..Len(g), NEW j \in 1..Len(g), g[i].scored, g[j].scored,
               g[i].submitSeq = g[j].submitSeq
        PROVE  i = j
    <3>1. ASSUME NEW a \in 1..Len(g), a # k, g[a].scored
          PROVE  /\ g[a].submitSeq \in 1..c /\ g[a] = e[a]
      BY <1>10, <3>1, <1>1, <1>4, <1>15 DEF Scored
    <3>2. g[k].submitSeq = c + 1
      BY <1>8, <1>10
    <3>3. CASE i = k \/ j = k
      BY <1>6, <2>2, <3>1, <3>2, <3>3
    <3>4. CASE i # k /\ j # k
      BY <1>10, <2>2, <3>1, <3>4, <1>4 DEF FieldOK
    <3> QED
      BY <3>3, <3>4
  <2> QED
    BY <1>4, <1>10, <2>1, <2>2 DEF FieldOK
<1>18. StageOK(u)
  BY <1>11, OpenStage DEF TourOK, Scorable
<1>19. EligibleOK(u)
  <2>1. \A i \in 1..Len(e) : g[i].player = e[i].player
    BY <1>8, <1>10
  <2> QED
    BY <1>1, <1>4, <1>10, <1>11, <2>1 DEF TourOK, EligibleOK
<1> QED
  BY <1>11, <1>16, <1>17, <1>18, <1>19 DEF TourOK

LEMMA CloseKeeps ==
  ASSUME NEW t, TourOK(t), t.status = "open"
  PROVE  TourOK(CloseRecord(t))
<1>1. PICK fees, rake, pool, standings, status :
        /\ standings = ComputeStandings(t)
        /\ status = IF Voids(t) THEN "voided" ELSE "closed"
        /\ CloseRecord(t) = [t EXCEPT !.standings = standings, !.fees = fees,
                               !.rake = rake, !.pool = pool, !.status = status]
  BY DEF CloseRecord
<1>2. PICK u : u = CloseRecord(t)
  OBVIOUS
<1>3. /\ Shape(u) /\ u.entries = t.entries /\ u.rules = t.rules /\ u.payouts = t.payouts
      /\ u.status = status /\ u.standings = standings
  BY <1>1, <1>2 DEF TourOK, Shape
<1>4. /\ ComputeStandings(u) = ComputeStandings(t) /\ Voids(u) = Voids(t)
      /\ Scored(u) = Scored(t) /\ ScoredCount(u) = ScoredCount(t)
  BY <1>3, SameRanking
<1>5. SubmitSeqOK(u) /\ FieldOK(u.entries) /\ EligibleOK(u)
  BY <1>3, <1>4 DEF TourOK, SubmitSeqOK, EligibleOK
<1>6. \/ status = "voided" /\ Voids(t)
      \/ status = "closed" /\ ~Voids(t)
  BY <1>1
<1>7. StageOK(u)
  BY <1>1, <1>3, <1>4, <1>6 DEF TourOK, StageOK
<1> QED
  BY <1>2, <1>3, <1>5, <1>7 DEF TourOK

\* What Settle makes of a tournament.
SettledRecord(t, payouts) == [t EXCEPT !.payouts = payouts, !.status = "settled"]

LEMMA SettleKeeps ==
  ASSUME NEW t, TourOK(t), Settles(t), NEW payouts, NEW u, u = SettledRecord(t, payouts)
  PROVE  TourOK(u) /\ u.payouts = payouts /\ u.status = "settled" /\ u.entries = t.entries
<1>1. /\ Shape(u) /\ u.entries = t.entries /\ u.rules = t.rules /\ u.payouts = payouts
      /\ u.status = "settled" /\ u.standings = t.standings
  BY DEF TourOK, Shape, SettledRecord
<1>2. /\ ComputeStandings(u) = ComputeStandings(t)
      /\ Scored(u) = Scored(t) /\ ScoredCount(u) = ScoredCount(t)
  BY <1>1, SameRanking
<1>3. SubmitSeqOK(u) /\ FieldOK(u.entries) /\ EligibleOK(u)
  BY <1>1, <1>2 DEF TourOK, SubmitSeqOK, EligibleOK
<1>4. StageOK(u)
  BY <1>1, <1>2 DEF TourOK, StageOK, Settles
<1> QED
  BY <1>1, <1>3, <1>4 DEF TourOK

-----------------------------------------------------------------------------
(* What a settlement pays. *)

\* The payments of a tournament, and the payouts that move money.
Paid(id, bk) == {p \in ForTournament(bk, id) : p.kind \in PaymentKinds}

Due(payouts) == {i \in DOMAIN payouts : payouts[i].amount > 0}

\* Payout q of tournament id is among the postings.
PaidAs(id, q, postings) ==
  \E p \in postings :
    /\ p.key = q.key
    /\ p.amount = q.amount
    /\ p.credit = IF q.withheld THEN WithheldAccount(id) ELSE PlayerAccount(q.player)

PaidOK(id, t, bk) ==
  /\ t.status # "settled" => Paid(id, bk) = {}
  /\ Cardinality(Paid(id, bk)) = Cardinality(Due(t.payouts))
  /\ \A i \in Due(t.payouts) : PaidAs(id, t.payouts[i], Paid(id, bk))

\* The prizes posted for the tournament follow the exclusion list ex.
ListOK(id, t, bk, ex) ==
  \A p \in ForTournament(bk, id) :
    p.kind \in {"prize", "withheld"} =>
      /\ p.version = ex.version
      /\ (p.kind = "withheld") <=> Withholds(t, p.player, ex)

\* What makes a list of payouts payable: one key each, a refund is never
\* withheld, and a prize is withheld when its winner is on the list.
PayoutsOK(t, ex, payouts) ==
  /\ \E n \in Nat : DOMAIN payouts = 1..n
  /\ \A i, j \in DOMAIN payouts : payouts[i].key = payouts[j].key => i = j
  /\ t.status = "voided" => \A i \in DOMAIN payouts : ~payouts[i].withheld
  /\ t.status = "closed" =>
       \A i \in DOMAIN payouts :
         /\ payouts[i].version = ex.version
         /\ payouts[i].withheld <=> Withholds(t, payouts[i].player, ex)

LEMMA RefundsOK ==
  ASSUME NEW t, TourOK(t), t.status = "voided", NEW id, NEW ex
  PROVE  PayoutsOK(t, ex, Refunds(t, id, ex))
<1>1. PICK e : e = t.entries
  OBVIOUS
<1>2. PICK r : r = Refunds(t, id, ex)
  OBVIOUS
<1>3. DOMAIN e = 1..Len(e) /\ Len(e) \in Nat
      /\ \A i, j \in 1..Len(e) : e[i].player.id = e[j].player.id => i = j
  BY <1>1 DEF TourOK, FieldOK
<1>4. /\ DOMAIN r = 1..Len(e)
      /\ \A i \in 1..Len(e) : /\ r[i].key = RefundKey(id, e[i].player.id)
                              /\ r[i].withheld = FALSE
  BY <1>1, <1>2, <1>3 DEF Refunds
<1>5. ASSUME NEW i \in DOMAIN r, NEW j \in DOMAIN r, r[i].key = r[j].key
      PROVE  i = j
  BY <1>3, <1>4, <1>5 DEF RefundKey
<1>6. \A i \in DOMAIN r : ~r[i].withheld
  BY <1>4
<1> QED
  BY <1>2, <1>3, <1>4, <1>5, <1>6 DEF PayoutsOK

LEMMA Smaller ==
  ASSUME NEW a \in Nat, NEW b \in Nat
  PROVE  Min({a, b}) \in Nat /\ Min({a, b}) <= a /\ Min({a, b}) <= b
<1>1. \E x \in {a, b} : \A y \in {a, b} : x <= y
  OBVIOUS
<1>2. Min({a, b}) \in {a, b} /\ \A y \in {a, b} : Min({a, b}) <= y
  BY <1>1 DEF Min
<1> QED
  BY <1>2

LEMMA StandingsPlayers ==
  ASSUME NEW t, TourOK(t), t.status \in {"closed", "voided", "settled"}
  PROVE  /\ DOMAIN t.standings = 1..Len(t.entries) /\ Len(t.standings) = Len(t.entries)
         /\ \A i, j \in 1..Len(t.entries) :
              t.standings[i].player = t.standings[j].player => i = j
<1>1. PICK e : e = t.entries
  OBVIOUS
<1>2. FieldOK(e) /\ t.standings = ComputeStandings(t)
  BY <1>1 DEF TourOK, StageOK
<1>3. PICK p : /\ Ranks(e, p)
               /\ t.standings = [r \in 1..Len(e) |-> Row(e, p, t.rules.tieBreak, r)]
  BY <1>1, <1>2, StandingsAre
<1>4. Len(e) \in Nat /\ \A i, j \in 1..Len(e) : e[i].player.id = e[j].player.id => i = j
  BY <1>2 DEF FieldOK
<1>5. DOMAIN t.standings = 1..Len(e) /\ Len(t.standings) = Len(e)
  BY <1>3, <1>4
<1>6. \A i \in 1..Len(e) : t.standings[i].player = e[p[i]].player.id
  BY <1>3 DEF Row
<1>7. /\ p \in [1..Len(e) -> 1..Len(e)]
      /\ \A a, b \in 1..Len(e) : p[a] = p[b] => a = b
  BY <1>2, <1>3, RanksFacts
<1>8. ASSUME NEW i \in 1..Len(e), NEW j \in 1..Len(e),
             t.standings[i].player = t.standings[j].player
      PROVE  i = j
  <2>1. e[p[i]].player.id = e[p[j]].player.id /\ p[i] \in 1..Len(e) /\ p[j] \in 1..Len(e)
    BY <1>6, <1>7, <1>8
  <2> QED
    BY <1>4, <1>7, <2>1, Zenon
<1> QED
  BY <1>1, <1>5, <1>8, Zenon

LEMMA PrizesOK ==
  ASSUME NEW t, TourOK(t), t.status = "closed", NEW id, NEW ex
  PROVE  PayoutsOK(t, ex, PrizePayouts(t, id, ex))
<1>1. PICK r : r = PrizePayouts(t, id, ex)
  OBVIOUS
<1>2. PICK n : n = Places(t)
  OBVIOUS
<1>3. Len(t.entries) \in Nat /\ Len(t.rules.prizeBps) \in Nat
  BY DEF TourOK, FieldOK, StageOK
<1>4. n \in Nat /\ n <= Len(t.entries)
  BY <1>2, <1>3, Smaller, StandingsPlayers DEF Places
<1>5. DOMAIN r = 1..n
  BY <1>1, <1>2 DEF PrizePayouts
<1>6. ASSUME NEW i \in 1..n
      PROVE  /\ r[i].player = t.standings[i].player
             /\ r[i].version = ex.version
             /\ r[i].withheld = Withholds(t, t.standings[i].player, ex)
             /\ \E kind \in {"prize", "withheld"} :
                  r[i].key = <<kind, id, t.standings[i].player, t.standings[i].place>>
  <2>1. PICK out : out = Withholds(t, t.standings[i].player, ex)
    OBVIOUS
  <2>2. r[i] = [player |-> t.standings[i].player, place |-> t.standings[i].place,
                amount |-> Amount(t, i), withheld |-> out, version |-> ex.version,
                key |-> IF out THEN WithheldKey(id, t.standings[i].player, t.standings[i].place)
                               ELSE PrizeKey(id, t.standings[i].player, t.standings[i].place)]
    BY <1>1, <1>2, <2>1 DEF PrizePayouts
  <2>3. /\ r[i].player = t.standings[i].player /\ r[i].version = ex.version
        /\ r[i].withheld = out
        /\ r[i].key = IF out THEN WithheldKey(id, t.standings[i].player, t.standings[i].place)
                             ELSE PrizeKey(id, t.standings[i].player, t.standings[i].place)
    BY <2>2
  <2>4. \E kind \in {"prize", "withheld"} :
          r[i].key = <<kind, id, t.standings[i].player, t.standings[i].place>>
    BY <2>3 DEF WithheldKey, PrizeKey
  <2> QED
    BY <2>1, <2>3, <2>4
<1>7. ASSUME NEW i \in DOMAIN r, NEW j \in DOMAIN r, r[i].key = r[j].key
      PROVE  i = j
  <2>1. r[i].key[3] = t.standings[i].player /\ r[j].key[3] = t.standings[j].player
    BY <1>5, <1>6
  <2>2. i \in 1..Len(t.entries) /\ j \in 1..Len(t.entries)
    BY <1>3, <1>4, <1>5
  <2> QED
    BY <1>7, <2>1, <2>2, StandingsPlayers
<1>8. \A i \in DOMAIN r : /\ r[i].version = ex.version
                          /\ r[i].withheld <=> Withholds(t, r[i].player, ex)
  BY <1>5, <1>6
<1> QED
  BY <1>1, <1>4, <1>5, <1>7, <1>8 DEF PayoutsOK

LEMMA PayoutsAreOK ==
  ASSUME NEW t, TourOK(t), Settles(t), NEW id, NEW ex
  PROVE  PayoutsOK(t, ex, ComputePayouts(t, id, ex))
<1>1. CASE t.status = "voided"
  BY <1>1, RefundsOK DEF TourOK, StageOK, ComputePayouts
<1>2. CASE t.status = "closed"
  BY <1>2, PrizesOK DEF TourOK, StageOK, ComputePayouts
<1> QED
  BY <1>1, <1>2 DEF Settles

LEMMA PostingFields ==
  ASSUME NEW t, NEW id, NEW q
  PROVE  LET p == PayoutPosting(t, id, q)
         IN /\ p.key = q.key /\ p.amount = q.amount /\ p.tournament = id
            /\ p.player = q.player /\ p.version = q.version
            /\ p.kind \in PaymentKinds
            /\ t.status = "voided" => p.kind = "refund"
            /\ t.status # "voided" => p.kind \in {"prize", "withheld"}
                                        /\ (p.kind = "withheld" <=> q.withheld)
            /\ (p.kind = "withheld" => p.credit = WithheldAccount(id))
            /\ (p.kind # "withheld" => p.credit = PlayerAccount(q.player))
<1>1. PICK kind : kind = IF t.status = "voided" THEN "refund"
                         ELSE IF q.withheld THEN "withheld" ELSE "prize"
  OBVIOUS
<1>2. PICK credit : credit = IF kind = "withheld" THEN WithheldAccount(id)
                             ELSE PlayerAccount(q.player)
  OBVIOUS
<1>3. PayoutPosting(t, id, q) =
        [key |-> q.key, kind |-> kind, debit |-> PoolAccount(id), credit |-> credit,
         amount |-> q.amount, tournament |-> id, player |-> q.player,
         place |-> q.place, version |-> q.version]
  BY <1>1, <1>2 DEF PayoutPosting
<1>4. PICK p : p = PayoutPosting(t, id, q)
  OBVIOUS
<1>5. /\ p.key = q.key /\ p.amount = q.amount /\ p.tournament = id
      /\ p.player = q.player /\ p.version = q.version /\ p.kind = kind /\ p.credit = credit
  BY <1>3, <1>4
<1>6. /\ kind \in PaymentKinds
      /\ t.status = "voided" => kind = "refund"
      /\ t.status # "voided" => kind \in {"prize", "withheld"}
                                  /\ (kind = "withheld" <=> q.withheld)
  BY <1>1 DEF PaymentKinds
<1> QED
  BY <1>2, <1>4, <1>5, <1>6

LEMMA RakeIsNoPayment ==
  ASSUME NEW t, NEW id, NEW ex, NEW p \in RakePostings(t, id, ex)
  PROVE  p.kind = "rake"
<1> DEFINE rake == [key |-> RakeKey(id), kind |-> "rake", debit |-> PoolAccount(id),
                    credit |-> RakeAccount(id), amount |-> t.rake, tournament |-> id,
                    player |-> "", place |-> 0, version |-> ex.version]
<1>1. rake.kind = "rake"
  OBVIOUS
<1>2. p = rake
  BY Zenon DEF RakePostings
<1> QED
  BY <1>1, <1>2, Zenon

LEMMA DueFinite ==
  ASSUME NEW payouts, NEW n \in Nat, DOMAIN payouts = 1..n
  PROVE  IsFiniteSet(Due(payouts))
<1>1. IsFiniteSet(1..n)
  BY FS_Interval
<1>2. Due(payouts) \in SUBSET (1..n)
  BY DEF Due
<1> QED
  BY <1>1, <1>2, FS_Subset

\* The payments of a settlement are the postings of its payouts, one for each
\* that moves money, under the list that it was given.
LEMMA SettlePays ==
  ASSUME NEW t, TourOK(t), Settles(t), NEW id, NEW ex, NEW bk, PaidOK(id, t, bk),
         NEW payouts, PayoutsOK(t, ex, payouts), NEW postings,
         postings = SettlePostings(t, id, ex, payouts),
         \A p \in postings : Validate(p) /\ ~Has(bk, p.key),
         NEW u, u.payouts = payouts, u.status = "settled", u.entries = t.entries
  PROVE  PaidOK(id, u, Post(bk, postings)) /\ ListOK(id, u, Post(bk, postings), ex)
<1> DEFINE Of(i) == PayoutPosting(t, id, payouts[i])
<1>1. PICK bk2 : bk2 = Post(bk, postings)
  OBVIOUS
<1>2. bk2 = bk \cup postings
  BY <1>1 DEF Post
<1>3. postings = RakePostings(t, id, ex) \cup {Of(i) : i \in Due(payouts)}
  BY DEF SettlePostings, Due
<1>4. \A i \in Due(payouts) : Of(i).tournament = id /\ Of(i).kind \in PaymentKinds
  BY PostingFields
<1>5. Paid(id, bk) = {}
  BY DEF PaidOK, Settles
<1>6. Paid(id, bk2) = {Of(i) : i \in Due(payouts)}
  <2> HIDE DEF Of
  <2>1. \A p \in RakePostings(t, id, ex) : p.kind \notin PaymentKinds
    BY RakeIsNoPayment DEF PaymentKinds
  <2>2. \A p \in bk2 : p \in Paid(id, bk) \/ p \in postings \/ p \notin Paid(id, bk2)
    BY <1>2 DEF Paid, ForTournament
  <2>3. ASSUME NEW p \in Paid(id, bk2)
        PROVE  \E i \in Due(payouts) : p = Of(i)
    BY <1>5, <2>2, <1>3, <2>1 DEF Paid, ForTournament
  <2>4. ASSUME NEW i \in Due(payouts)
        PROVE  Of(i) \in Paid(id, bk2)
    BY <1>2, <1>3, <1>4 DEF Paid, ForTournament
  <2> QED
    BY <2>3, <2>4
<1>7. /\ \E n \in Nat : DOMAIN payouts = 1..n
      /\ \A i, j \in DOMAIN payouts : payouts[i].key = payouts[j].key => i = j
      /\ t.status = "voided" => \A i \in DOMAIN payouts : ~payouts[i].withheld
      /\ t.status = "closed" =>
           \A i \in DOMAIN payouts :
             /\ payouts[i].version = ex.version
             /\ payouts[i].withheld <=> Withholds(t, payouts[i].player, ex)
  BY DEF PayoutsOK
<1>8. IsFiniteSet(Due(payouts))
  <2>1. PICK n \in Nat : DOMAIN payouts = 1..n
    BY <1>7
  <2> QED
    BY <2>1, DueFinite
<1>9. \A i \in Due(payouts) : i \in DOMAIN payouts
  BY DEF Due
<1>10. Cardinality(Paid(id, bk2)) = Cardinality(Due(payouts))
  <2> DEFINE f == [i \in Due(payouts) |-> Of(i)]
  <2>1. \A i, j \in Due(payouts) : Of(i) = Of(j) => i = j
    <3>1. \A i \in Due(payouts) : Of(i).key = payouts[i].key
      BY PostingFields
    <3> HIDE DEF Of
    <3> QED
      BY <1>7, <1>9, <3>1
  <2>2. f \in Bijection(Due(payouts), Paid(id, bk2))
    <3> HIDE DEF Of
    <3> QED
      BY <1>6, <2>1 DEF Bijection, Injection, Surjection, IsInjective
  <2> HIDE DEF f
  <2> QED
    BY <1>8, <2>2, FS_Bijection DEF ExistsBijection
<1>11. ASSUME NEW i \in Due(payouts)
       PROVE  PaidAs(id, payouts[i], Paid(id, bk2))
  <2>1. PICK p : p = Of(i)
    OBVIOUS
  <2>2. /\ p.key = payouts[i].key /\ p.amount = payouts[i].amount
        /\ t.status = "voided" => p.kind = "refund"
        /\ t.status # "voided" => (p.kind = "withheld" <=> payouts[i].withheld)
        /\ (p.kind = "withheld" => p.credit = WithheldAccount(id))
        /\ (p.kind # "withheld" => p.credit = PlayerAccount(payouts[i].player))
    BY <2>1, PostingFields
  <2>3. p.kind = "withheld" <=> payouts[i].withheld
    BY <1>7, <1>9, <2>2
  <2>4. p.credit = IF payouts[i].withheld THEN WithheldAccount(id)
                   ELSE PlayerAccount(payouts[i].player)
    BY <2>2, <2>3
  <2>5. p \in Paid(id, bk2)
    BY <1>6, <2>1
  <2> QED
    BY <2>2, <2>4, <2>5 DEF PaidAs
<1>12. PaidOK(id, u, bk2)
  BY <1>10, <1>11 DEF PaidOK
<1>13. ASSUME NEW p \in ForTournament(bk2, id), p.kind \in {"prize", "withheld"}
       PROVE  /\ p.version = ex.version
              /\ (p.kind = "withheld") <=> Withholds(u, p.player, ex)
  <2>1. p \in Paid(id, bk2)
    BY <1>13 DEF Paid, PaymentKinds
  <2>2. PICK i \in Due(payouts) : p = Of(i)
    BY <1>6, <2>1
  <2>3. /\ p.player = payouts[i].player /\ p.version = payouts[i].version
        /\ t.status = "voided" => p.kind = "refund"
        /\ t.status # "voided" => (p.kind = "withheld" <=> payouts[i].withheld)
    BY <2>2, PostingFields
  <2>4. t.status # "voided" /\ t.status = "closed"
    BY <1>13, <2>3 DEF Settles
  <2>5. Withholds(u, p.player, ex) = Withholds(t, p.player, ex)
    BY Zenon DEF Withholds, EntryOf
  <2>6. /\ payouts[i].version = ex.version
        /\ payouts[i].withheld <=> Withholds(t, payouts[i].player, ex)
    BY <1>7, <1>9, <2>4
  <2>7. p.kind = "withheld" <=> Withholds(t, p.player, ex)
    BY <2>3, <2>4, <2>6
  <2> QED
    BY <2>3, <2>5, <2>6, <2>7
<1>14. ListOK(id, u, bk2, ex)
  BY <1>13 DEF ListOK
<1> QED
  BY <1>1, <1>12, <1>14

-----------------------------------------------------------------------------
(* The steps. *)

\* Every tournament is in order, and its payments are those it recorded.
BookInv == \A id \in Ids : TourOK(tournaments[id]) /\ PaidOK(id, tournaments[id], book)

\* The row of a settlement that took place.
SettledRow(row) ==
  row.code = OK /\ row.fingerprint.name = "settle" =>
    LET id == row.fingerprint.tournament
    IN /\ id \in Ids /\ tournaments[id].status = "settled"
       /\ ListOK(id, tournaments[id], book, row.fingerprint.exclusions)

RowInv == \A k \in Keys : SettledRow(results[k])

LEMMA PaidSame ==
  ASSUME NEW id, NEW t, NEW bk, PaidOK(id, t, bk), NEW u, NEW bk2,
         Paid(id, bk2) = Paid(id, bk), u.status = t.status, u.payouts = t.payouts
  PROVE  PaidOK(id, u, bk2)
BY DEF PaidOK

\* An operation that touches one tournament and leaves it in order.
LEMMA OneTouched ==
  ASSUME BookInv, NEW cmd, NEW id \in Ids, Touches(cmd, id),
         TourOK(tournaments'[id]), PaidOK(id, tournaments'[id], book')
  PROVE  BookInv'
<1> SUFFICES ASSUME NEW o \in Ids
             PROVE  TourOK(tournaments'[o]) /\ PaidOK(o, tournaments'[o], book')
  BY DEF BookInv
<1>1. CASE o = id
  BY <1>1
<1>2. CASE o # id
  <2>1. tournaments'[o] = tournaments[o]
    BY <1>2 DEF Touches
  <2>2. Paid(o, book') = Paid(o, book)
    BY <1>2 DEF Touches, Paid, ForTournament
  <2>3. TourOK(tournaments[o]) /\ PaidOK(o, tournaments[o], book)
    BY DEF BookInv
  <2> QED
    BY <2>1, <2>2, <2>3, PaidSame, Zenon
<1> QED
  BY <1>1, <1>2

LEMMA CreateBook ==
  ASSUME TableInv, BookInv, NEW cmd \in Commands, Create(cmd), tournaments' # tournaments
  PROVE  BookInv'
<1>1. PICK id : id = cmd.op.id
  OBVIOUS
<1>2. /\ id \in Ids /\ tournaments[id].status = "absent" /\ ValidateRules(cmd.op.rules)
  BY <1>1, CreateOK
<1>3. PICK u : u = [Absent EXCEPT !.status = "open", !.seed = cmd.op.seed,
                                  !.rules = cmd.op.rules]
  OBVIOUS
<1>4. tournaments' = [tournaments EXCEPT ![id] = u] /\ book' = book
  BY <1>1, <1>3 DEF Create, Reject
<1>5. tournaments'[id] = u /\ \A o \in Ids \ {id} : tournaments'[o] = tournaments[o]
  BY <1>2, <1>4 DEF TableInv
<1>6. Touches(cmd, id)
  BY <1>4, <1>5 DEF Touches
<1>7. TourOK(u)
  BY <1>2, <1>3, CreateKeeps
<1>8. u.status = "open" /\ u.payouts = <<>>
  BY <1>3 DEF Absent
<1>9. tournaments[id].payouts = <<>> /\ PaidOK(id, tournaments[id], book)
  BY <1>2 DEF BookInv, TourOK, StageOK
<1>10. PaidOK(id, u, book)
  BY <1>2, <1>8, <1>9 DEF PaidOK
<1> QED
  BY <1>2, <1>4, <1>5, <1>6, <1>7, <1>10, OneTouched

LEMMA JoinBook ==
  ASSUME TableInv, BookInv, NEW cmd \in Commands, Join(cmd),
         <<tournaments, book>>' # <<tournaments, book>>
  PROVE  BookInv'
<1>1. PICK id, player : id = cmd.op.tournament /\ player = cmd.op.player
  OBVIOUS
<1>2. PICK t : t = tournaments[id]
  OBVIOUS
<1>3. InProgress(id) /\ MayJoin(t, player)
  BY <1>1, <1>2, JoinOK
<1>4. id \in Ids /\ At(id) = t
  BY <1>2, <1>3 DEF InProgress, At
<1>5. PICK entry : entry = [player |-> player, joinSeq |-> Len(t.entries) + 1,
                            scored |-> FALSE, score |-> 0, submitSeq |-> 0]
  OBVIOUS
<1>6. PICK fee : fee = FeePosting(t, id, player)
  OBVIOUS
<1>7. /\ book' = Post(book, {fee})
      /\ tournaments' = [tournaments EXCEPT ![id].entries = Append(@, entry)]
  BY <1>1, <1>4, <1>5, <1>6 DEF Join, Reject
<1>8. PICK u : u = [t EXCEPT !.entries = Append(t.entries, entry)]
  OBVIOUS
<1>9. tournaments'[id] = u
  BY <1>2, <1>4, <1>7, <1>8 DEF TableInv
<1>10. TourOK(t) /\ PaidOK(id, t, book) /\ player \in Applicants
  BY <1>1, <1>2, <1>4 DEF BookInv, Applicants
<1>11. TourOK(u)
  BY <1>3, <1>5, <1>8, <1>10, JoinKeeps
<1>12. u.status = t.status /\ u.payouts = t.payouts
  BY <1>8, <1>10 DEF TourOK, Shape
<1>13. Paid(id, book') = Paid(id, book)
  BY <1>6, <1>7 DEF FeePosting, Post, Paid, ForTournament, PaymentKinds
<1>14. Touches(cmd, id)
  BY <1>1, TouchesOne
<1>15. PaidOK(id, u, book')
  BY <1>10, <1>12, <1>13, PaidSame
<1> QED
  BY <1>4, <1>9, <1>11, <1>14, <1>15, OneTouched

LEMMA ScoreBook ==
  ASSUME TableInv, BookInv, NEW cmd \in Commands, Score(cmd),
         <<tournaments, book>>' # <<tournaments, book>>
  PROVE  BookInv'
<1>1. PICK id, player, score :
        id = cmd.op.tournament /\ player = cmd.op.player /\ score = cmd.op.score
  OBVIOUS
<1>2. PICK t : t = tournaments[id]
  OBVIOUS
<1>3. InProgress(id) /\ MayScore(t, player, score)
  BY <1>1, <1>2, ScoreOK
<1>4. id \in Ids /\ At(id) = t
  BY <1>2, <1>3 DEF InProgress, At
<1>5. PICK k : k = EntryOf(t, player)
  OBVIOUS
<1>6. PICK entry : entry = WithScore(t.entries[k], score, ScoredCount(t) + 1)
  OBVIOUS
<1>7. /\ book' = book
      /\ tournaments' = [tournaments EXCEPT ![id].entries[k] =
                           [@ EXCEPT !.scored = TRUE, !.score = score,
                                     !.submitSeq = ScoredCount(t) + 1]]
  BY <1>1, <1>4, <1>5 DEF Score, Reject
<1>8. PICK u : u = [t EXCEPT !.entries = [t.entries EXCEPT ![k] = entry]]
  OBVIOUS
<1>9. tournaments'[id] = u
  BY <1>2, <1>4, <1>6, <1>7, <1>8 DEF TableInv, WithScore
<1>10. TourOK(t) /\ PaidOK(id, t, book)
  BY <1>2, <1>4 DEF BookInv
<1>11. TourOK(u)
  <2>1. Scorable(t, player)
    BY <1>3 DEF MayScore
  <2>2. t.rules.maxScore \in Nat
    BY <1>10, <2>1 DEF TourOK, StageOK, Scorable
  <2>3. score \in Int
    BY <1>3, <2>2 DEF MayScore
  <2> QED
    BY <1>5, <1>6, <1>8, <1>10, <2>1, <2>3, ScoreKeeps
<1>12. u.status = t.status /\ u.payouts = t.payouts
  BY <1>8, <1>10 DEF TourOK, Shape
<1>13. Touches(cmd, id)
  BY <1>1, TouchesOne
<1>14. PaidOK(id, u, book')
  BY <1>7, <1>10, <1>12, PaidSame
<1> QED
  BY <1>4, <1>9, <1>11, <1>13, <1>14, OneTouched

LEMMA CloseBook ==
  ASSUME TableInv, BookInv, NEW cmd \in Commands, Close(cmd),
         <<tournaments, book>>' # <<tournaments, book>>
  PROVE  BookInv'
<1>1. PICK id : id = cmd.op.tournament
  OBVIOUS
<1>2. PICK t : t = tournaments[id]
  OBVIOUS
<1>3. InProgress(id) /\ t.status = "open"
  BY <1>1, <1>2, CloseOK
<1>4. id \in Ids /\ At(id) = t
  BY <1>2, <1>3 DEF InProgress, At
<1>5. PICK u : u = CloseRecord(t)
  OBVIOUS
<1>6. book' = book /\ tournaments' = [tournaments EXCEPT ![id] = u]
  BY <1>1, <1>4, <1>5 DEF Close, Reject
<1>7. tournaments'[id] = u
  BY <1>4, <1>6 DEF TableInv
<1>8. TourOK(t) /\ PaidOK(id, t, book)
  BY <1>2, <1>4 DEF BookInv
<1>9. TourOK(u)
  BY <1>3, <1>5, <1>8, CloseKeeps
<1>10. u.status # "settled" /\ u.payouts = t.payouts
  <2>1. t = [status |-> t.status, seed |-> t.seed, rules |-> t.rules, entries |-> t.entries,
             fees |-> t.fees, rake |-> t.rake, pool |-> t.pool,
             standings |-> t.standings, payouts |-> t.payouts]
    BY <1>8 DEF TourOK, Shape
  <2>2. PICK status : status = IF Voids(t) THEN "voided" ELSE "closed"
    OBVIOUS
  <2>3. u.status = status /\ u.payouts = t.payouts
    BY <1>5, <2>1, <2>2 DEF CloseRecord
  <2> QED
    BY <2>2, <2>3
<1>11. Touches(cmd, id)
  BY <1>1, TouchesOne
<1>12. PaidOK(id, u, book')
  BY <1>3, <1>6, <1>8, <1>10 DEF PaidOK
<1> QED
  BY <1>4, <1>7, <1>9, <1>11, <1>12, OneTouched

\* A settlement that takes effect, and what its command says afterwards.
LEMMA SettleBook ==
  ASSUME TableInv, BookInv, NEW cmd \in Commands, Settle(cmd), Accepted(cmd)
  PROVE  /\ BookInv'
         /\ cmd.op.tournament \in Ids
         /\ tournaments'[cmd.op.tournament].status = "settled"
         /\ ListOK(cmd.op.tournament, tournaments'[cmd.op.tournament], book',
                   cmd.op.exclusions)
<1>1. PICK id, ex : id = cmd.op.tournament /\ ex = cmd.op.exclusions
  OBVIOUS
<1>2. PICK t : t = tournaments[id]
  OBVIOUS
<1>3. PICK payouts : payouts = ComputePayouts(t, id, ex)
  OBVIOUS
<1>4. PICK postings : postings = SettlePostings(t, id, ex, payouts)
  OBVIOUS
<1>5. InProgress(id) /\ Settles(t) /\ Payable(postings)
  BY <1>1, <1>2, <1>3, <1>4, SettleOK
<1>6. id \in Ids /\ At(id) = t
  BY <1>2, <1>5 DEF InProgress, At
<1>7. PICK u : u = SettledRecord(t, payouts)
  OBVIOUS
<1>8. book' = Post(book, postings) /\ tournaments' = [tournaments EXCEPT ![id] = u]
  BY <1>1, <1>3, <1>4, <1>6, <1>7 DEF Settle, Accepted, SettledRecord
<1>9. tournaments'[id] = u
  BY <1>6, <1>8 DEF TableInv
<1>10. TourOK(t) /\ PaidOK(id, t, book)
  BY <1>2, <1>6 DEF BookInv
<1>11. TourOK(u) /\ u.payouts = payouts /\ u.status = "settled" /\ u.entries = t.entries
  BY <1>5, <1>7, <1>10, SettleKeeps
<1>12. PayoutsOK(t, ex, payouts)
  BY <1>3, <1>5, <1>10, PayoutsAreOK
<1>13. \A p \in postings : Validate(p) /\ ~Has(book, p.key)
  BY <1>5 DEF Payable, CheckFresh
<1>14. PaidOK(id, u, book') /\ ListOK(id, u, book', ex)
  <2>1. PICK bk : bk = book
    OBVIOUS
  <2>2. PaidOK(id, u, Post(bk, postings)) /\ ListOK(id, u, Post(bk, postings), ex)
    BY <1>4, <1>5, <1>10, <1>11, <1>12, <1>13, <2>1, SettlePays
  <2> QED
    BY <1>8, <2>1, <2>2
<1>15. Touches(cmd, id)
  BY <1>1, TouchesOne
<1>16. BookInv'
  BY <1>6, <1>9, <1>11, <1>14, <1>15, OneTouched
<1> QED
  BY <1>1, <1>6, <1>9, <1>11, <1>14, <1>16

LEMMA BookStep == TableInv /\ BookInv /\ [Next]_vars => BookInv'
<1> SUFFICES ASSUME TableInv, BookInv, [Next]_vars
             PROVE  BookInv'
  OBVIOUS
<1>1. CASE UNCHANGED <<tournaments, book>>
  BY <1>1 DEF BookInv
<1>2. ASSUME <<tournaments, book>>' # <<tournaments, book>>,
             NEW cmd \in Commands, Apply(cmd)
      PROVE  BookInv'
  <2>1. CASE Refuse(cmd) \/ Reused(cmd) \/ Replay(cmd)
    BY <1>2, <2>1 DEF Refuse, Reused, Replay
  <2>2. CASE Create(cmd)
    BY <1>2, <2>2, CreateBook DEF Create, Reject
  <2>3. CASE Join(cmd) \/ Score(cmd) \/ Close(cmd) \/ Settle(cmd)
    BY <1>2, <2>3, JoinBook, ScoreBook, CloseBook, SettleBook DEF Accepted, Reject
  <2> QED
    BY <1>2, <2>1, <2>2, <2>3 DEF Apply
<1> QED
  BY <1>1, <1>2 DEF Next, vars

LEMMA BookInit == Init => BookInv
<1> SUFFICES ASSUME Init, NEW id \in Ids
             PROVE  TourOK(tournaments[id]) /\ PaidOK(id, tournaments[id], book)
  BY DEF BookInv
<1>1. tournaments[id] = Absent /\ book = {}
  BY DEF Init
<1>2. Absent.payouts = <<>> /\ Absent.status = "absent"
  BY DEF Absent
<1>3. Paid(id, {}) = {} /\ Due(<<>>) = {}
  BY NoEntries DEF Paid, ForTournament, Due
<1>4. PaidOK(id, Absent, {})
  BY <1>2, <1>3 DEF PaidOK
<1> QED
  BY <1>1, <1>4, AbsentOK

LEMMA FingerprintName ==
  ASSUME NEW cmd \in Commands
  PROVE  /\ Fingerprint(cmd).name = cmd.op.name
         /\ cmd.op.name = "settle" => Fingerprint(cmd) = cmd.op
<1>1. "name" \in DOMAIN cmd.op \ Drawn(cmd.op)
  BY CommandAssumption DEF Drawn
<1>2. Fingerprint(cmd).name = cmd.op.name
  BY <1>1 DEF Fingerprint
<1>3. ASSUME cmd.op.name = "settle"
      PROVE  Fingerprint(cmd) = cmd.op
  BY <1>3, CommandAssumption DEF Drawn, Fingerprint
<1> QED
  BY <1>2, <1>3

\* The row of a settlement stays true: its tournament is final.
LEMMA RowStays ==
  ASSUME TableInv, [Next]_vars, NEW row, SettledRow(row)
  PROVE  SettledRow(row)'
<1> SUFFICES ASSUME row.code = OK, row.fingerprint.name = "settle",
                    NEW id, id = row.fingerprint.tournament
             PROVE  /\ id \in Ids /\ tournaments'[id].status = "settled"
                    /\ ListOK(id, tournaments'[id], book', row.fingerprint.exclusions)
  BY DEF SettledRow
<1>1. /\ id \in Ids /\ tournaments[id].status = "settled"
      /\ ListOK(id, tournaments[id], book, row.fingerprint.exclusions)
  BY DEF SettledRow
<1>2. /\ tournaments'[id] = tournaments[id]
      /\ ForTournament(book', id) = ForTournament(book, id)
  BY <1>1, SettledStep DEF Keeps
<1> QED
  BY <1>1, <1>2 DEF ListOK

\* A row is recorded; it is that of a settlement only if one took place.
LEMMA RowRecord ==
  ASSUME TableInv, RowInv, [Next]_vars, NEW cmd \in Commands, cmd.key \in Keys,
         NEW code, NEW more, Record(cmd, code, more),
         code # OK \/ cmd.op.name # "settle" \/
           (/\ cmd.op.tournament \in Ids
            /\ tournaments'[cmd.op.tournament].status = "settled"
            /\ ListOK(cmd.op.tournament, tournaments'[cmd.op.tournament], book',
                      cmd.op.exclusions))
  PROVE  RowInv'
<1>1. PICK row : row = [fingerprint |-> Fingerprint(cmd), code |-> code, more |-> more]
  OBVIOUS
<1>2. results' = [results EXCEPT ![cmd.key] = row]
  BY <1>1 DEF Record
<1>3. row.fingerprint = Fingerprint(cmd) /\ row.code = code
  BY <1>1
<1>4. SettledRow(row)'
  BY <1>3, FingerprintName DEF SettledRow
<1> SUFFICES ASSUME NEW k \in Keys
             PROVE  SettledRow(results[k])'
  BY DEF RowInv
<1>5. CASE k = cmd.key
  BY <1>2, <1>5, <1>4 DEF TableInv, SettledRow
<1>6. CASE k # cmd.key
  <2>1. results'[k] = results[k]
    BY <1>2, <1>6 DEF TableInv
  <2>2. PICK old : old = results[k]
    OBVIOUS
  <2>3. SettledRow(old)
    BY <2>2 DEF RowInv
  <2>4. SettledRow(old)'
    BY <2>3, RowStays
  <2> QED
    BY <2>1, <2>2, <2>4 DEF SettledRow
<1> QED
  BY <1>5, <1>6

LEMMA RowsKept ==
  ASSUME TableInv, RowInv, [Next]_vars, results' = results
  PROVE  RowInv'
<1> SUFFICES ASSUME NEW k \in Keys
             PROVE  SettledRow(results[k])'
  BY DEF RowInv
<1>1. PICK old : old = results[k]
  OBVIOUS
<1>2. SettledRow(old)
  BY <1>1 DEF RowInv
<1>3. SettledRow(old)'
  BY <1>2, RowStays
<1> QED
  BY <1>1, <1>3 DEF SettledRow

LEMMA RowStep == TableInv /\ BookInv /\ RowInv /\ [Next]_vars => RowInv'
<1> SUFFICES ASSUME TableInv, BookInv, RowInv, [Next]_vars
             PROVE  RowInv'
  OBVIOUS
<1>1. CASE UNCHANGED vars
  BY <1>1, RowsKept DEF vars
<1>2. ASSUME NEW cmd \in Commands, Apply(cmd)
      PROVE  RowInv'
  <2>1. CASE Refuse(cmd) \/ Reused(cmd) \/ Replay(cmd)
    BY <2>1, RowsKept DEF Refuse, Reused, Replay
  <2>2. CASE \E code, more : /\ cmd.key \in Keys /\ Record(cmd, code, more)
                             /\ code # OK \/ cmd.op.name # "settle"
    BY <2>2, RowRecord
  <2>3. CASE Create(cmd)
    BY <2>3, <2>2 DEF Create, Executes, ValidateKey, Reject
  <2>4. CASE Join(cmd)
    BY <2>4, <2>2 DEF Join, Executes, ValidateKey, Reject
  <2>5. CASE Score(cmd)
    BY <2>5, <2>2 DEF Score, Executes, ValidateKey, Reject
  <2>6. CASE Close(cmd)
    BY <2>6, <2>2 DEF Close, Executes, ValidateKey, Reject
  <2>7. CASE Settle(cmd)
    <3>1. cmd.key \in Keys
      BY <2>7 DEF Settle, Executes, ValidateKey
    <3>2. CASE ~Accepted(cmd)
      BY <2>2, <3>1, <3>2 DEF Accepted, Reject
    <3>3. CASE Accepted(cmd)
      <4>1. /\ cmd.op.tournament \in Ids
            /\ tournaments'[cmd.op.tournament].status = "settled"
            /\ ListOK(cmd.op.tournament, tournaments'[cmd.op.tournament], book',
                      cmd.op.exclusions)
        BY <2>7, <3>3, SettleBook
      <4>2. Record(cmd, OK, 0)
        BY <2>7, <3>3 DEF Settle, Accepted
      <4> QED
        BY <3>1, <4>1, <4>2, RowRecord
    <3> QED
      BY <3>2, <3>3
  <2> QED
    BY <1>2, <2>1, <2>3, <2>4, <2>5, <2>6, <2>7 DEF Apply
<1> QED
  BY <1>1, <1>2 DEF Next

LEMMA RowInit == Init => RowInv
<1> SUFFICES ASSUME Init, NEW k \in Keys
             PROVE  SettledRow(results[k])
  BY DEF RowInv
<1>1. results[k] = NoRow
  BY DEF Init
<1>2. NoRow.code # OK
  BY DEF NoRow, OK
<1> QED
  BY <1>1, <1>2 DEF SettledRow

-----------------------------------------------------------------------------
(* The theorems. *)

BooksHold == TableInv /\ BookInv /\ AnswersInv /\ RowInv

LEMMA BooksInvariant == Spec => []BooksHold
<1>1. Init => AnswersInv
  BY DEF Init, AnswersInv
<1>2. Init => BooksHold
  BY <1>1, TableInit, BookInit, RowInit DEF BooksHold
<1>3. BooksHold /\ [Next]_vars => BooksHold'
  BY TableStep, BookStep, AnswersStep, RowStep DEF BooksHold
<1> QED
  BY <1>2, <1>3, PTL DEF Spec

\* D2 for every set of commands: Settle posts each recorded payout that moves
\* money once, under its own key and to the account it names, and nothing is
\* paid before it (settle, ComputePayouts, Book.Post).
THEOREM PaymentsMatchPayouts == Spec => []PaidExactlyOnce
<1>1. BooksHold => PaidExactlyOnce
  BY DEF BooksHold, BookInv, PaidOK, PaidAs, Paid, Due, PaidExactlyOnce
<1> QED
  BY <1>1, BooksInvariant, PTL

\* D5 for every set of commands: nobody enters against the list or the age
\* limit of the creation (admit), and every retry of the settlement that took
\* place names the list that decided which prizes were withheld (settle).
THEOREM ListsAreKept == Spec => []EligibilityHolds
<1>1. ASSUME BooksHold, NEW id \in Ids
      PROVE  EligibleOK(tournaments[id])
  BY <1>1 DEF BooksHold, BookInv, TourOK
<1>2. ASSUME BooksHold, NEW id \in Ids, NEW a \in answers,
             a.cmd.op.name = "settle", a.cmd.op.tournament = id, a.code = OK
      PROVE  ListOK(id, tournaments[id], book, a.cmd.op.exclusions)
  <2>1. a.cmd \in Commands /\ AnswerOf(a)
    BY <1>2 DEF BooksHold, AnswersInv
  <2>2. PICK row : row = results[a.cmd.key]
    OBVIOUS
  <2>3. a.cmd.key \in Keys /\ row.fingerprint = Fingerprint(a.cmd) /\ row.code = OK
    BY <1>2, <2>1, <2>2 DEF AnswerOf, OK
  <2>4. row.fingerprint = a.cmd.op
    BY <1>2, <2>1, <2>3, FingerprintName
  <2>5. SettledRow(row)
    BY <1>2, <2>2, <2>3 DEF BooksHold, RowInv
  <2> QED
    BY <1>2, <2>3, <2>4, <2>5 DEF SettledRow
<1>3. BooksHold => EligibilityHolds
  BY <1>1, <1>2 DEF EligibleOK, ListOK, Withholds, EligibilityHolds
<1> QED
  BY <1>3, BooksInvariant, PTL

-----------------------------------------------------------------------------
\* The position of entry i in the standings.
RankOf(t, i) ==
  CHOOSE r \in DOMAIN t.standings : t.standings[r].player = t.entries[i].player.id

\* Where the standings have an entry, and the place they give it.
LEMMA EntryStands ==
  ASSUME NEW t, TourOK(t), t.status \in {"closed", "voided", "settled"},
         NEW i \in DOMAIN t.entries
  PROVE  LET e == t.entries
             s == t.standings[RankOf(t, i)]
         IN /\ s.player = e[i].player.id /\ s.scored = e[i].scored /\ s.score = e[i].score
            /\ RankOf(t, i) = 1 + Cardinality(Betters(e, i)) + Cardinality(Earlier(e, i))
                                + Cardinality(Idle(e, i))
            /\ s.place = IF t.rules.tieBreak = "split"
                           THEN 1 + Cardinality(Betters(e, i)) + Cardinality(Idle(e, i))
                           ELSE RankOf(t, i)
<1>1. PICK e : e = t.entries
  OBVIOUS
<1>2. FieldOK(e) /\ t.standings = ComputeStandings(t) /\ DOMAIN e = 1..Len(e)
  BY <1>1 DEF TourOK, StageOK, FieldOK
<1>3. PICK p : /\ Ranks(e, p)
               /\ t.standings = [r \in 1..Len(e) |-> Row(e, p, t.rules.tieBreak, r)]
  BY <1>1, <1>2, StandingsAre
<1>4. PICK r \in 1..Len(e) : p[r] = i
  <2>1. i \in 1..Len(e)
    BY <1>1, <1>2
  <2>2. \A k \in 1..Len(e) : \E r \in 1..Len(e) : p[r] = k
    BY <1>2, <1>3, RanksFacts
  <2> QED
    BY <2>1, <2>2
<1>5. PICK s : s = t.standings[r]
  OBVIOUS
<1>6. s = Row(e, p, t.rules.tieBreak, r)
  BY <1>3, <1>5
<1>7. /\ s.player = e[i].player.id /\ s.scored = e[i].scored /\ s.score = e[i].score
      /\ s.place = IF t.rules.tieBreak = "split" /\ e[i].scored
                     THEN Min(Shared(e, p, r)) ELSE r
  BY <1>4, <1>6 DEF Row
<1>8. RankOf(t, i) = r
  BY <1>3, <1>1, <1>5, <1>7, StandingsPlayers, <1>4 DEF RankOf
<1>9. PICK b, c, d : /\ b = Cardinality(Betters(e, i)) /\ c = Cardinality(Earlier(e, i))
                     /\ d = Cardinality(Idle(e, i))
  OBVIOUS
<1>10. r = 1 + b + c + d /\ b \in Nat /\ c \in Nat /\ d \in Nat
  <2>1. i \in 1..Len(e)
    BY <1>1, <1>2
  <2>2. Pos(e, i) = r
    BY <1>2, <1>3, <1>4, RanksFacts
  <2> QED
    BY <1>2, <1>9, <2>1, <2>2, PosIs
<1>11. CASE e[i].scored
  <2>1. Idle(e, i) = {}
    BY <1>11 DEF Idle
  <2>2. d = 0
    BY <1>9, <2>1, FS_EmptySet
  <2>3. Min(Shared(e, p, r)) = 1 + b
    BY <1>2, <1>3, <1>4, <1>9, <1>11, SharedPlace
  <2>4. 1 + b = 1 + b + d
    BY <1>10, <2>2
  <2>5. s.place = IF t.rules.tieBreak = "split" THEN 1 + b + d ELSE r
    BY <1>7, <1>11, <2>3, <2>4, Zenon
  <2> QED
    BY <1>1, <1>5, <1>7, <1>8, <1>9, <1>10, <2>5, Zenon
<1>12. CASE ~e[i].scored
  <2>1. Earlier(e, i) = {}
    BY <1>12 DEF Earlier
  <2>2. c = 0
    BY <1>9, <2>1, FS_EmptySet
  <2>3. r = 1 + b + d
    BY <1>10, <2>2
  <2>4. s.place = IF t.rules.tieBreak = "split" THEN 1 + b + d ELSE r
    BY <1>7, <1>12, <2>3, Zenon
  <2> QED
    BY <1>1, <1>5, <1>7, <1>8, <1>9, <1>10, <2>4, Zenon
<1> QED
  BY <1>11, <1>12

\* D4 for every set of commands: from Close on, the standings list every entry
\* once, in the order of ComputeStandings, with places shared by equal scores
\* under Split and by nobody otherwise.
THEOREM StandingsAreFinal == Spec => []StandingsHold
<1>1. ASSUME BooksHold, NEW id \in Ids,
             tournaments[id].status \in {"closed", "voided", "settled"}
      PROVE  TourOK(tournaments[id])
  BY <1>1 DEF BooksHold, BookInv
<1>2. ASSUME BooksHold, NEW id \in Ids,
             tournaments[id].status \in {"closed", "voided", "settled"}
      PROVE  Len(tournaments[id].standings) = Len(tournaments[id].entries)
  BY <1>1, <1>2, StandingsPlayers
<1>3. BooksHold => StandingsHold
  BY <1>1, <1>2, EntryStands DEF StandingsHold, RankOf, Betters, Earlier, Idle, Scored
<1> QED
  BY <1>3, BooksInvariant, PTL

-----------------------------------------------------------------------------
(* Sums.  SumFunctionOnSet takes the elements of a set in some order; that   *)
(* the order is of no importance is what the lemmas below are for.           *)

LEMMA SubsetInduction ==
  ASSUME NEW S, IsFiniteSet(S), NEW A, {} \in A,
         \A T \in SUBSET S : T # {} /\ (\A x \in T : T \ {x} \in A) => T \in A
  PROVE  SUBSET S \subseteq A
<1> DEFINE N == Cardinality(S)
           B == {n \in 0..N : \A T \in SUBSET S : Cardinality(T) = n => T \in A}
<1>1. N \in Nat /\ \A T \in SUBSET S : IsFiniteSet(T) /\ Cardinality(T) \in 0..N
  BY FS_CardinalityType, FS_Subset
<1>2. 0 \in B
  BY <1>1, FS_EmptySet
<1>3. ASSUME NEW n \in 1..N, n - 1 \in B PROVE n \in B
  <2> SUFFICES ASSUME NEW T \in SUBSET S, Cardinality(T) = n PROVE T \in A
    BY <1>1
  <2>1. IsFiniteSet(T) /\ T # {}
    BY <1>1, FS_EmptySet
  <2>2. ASSUME NEW x \in T PROVE T \ {x} \in A
    BY <2>1, FS_RemoveElement, <1>3
  <2> QED
    BY <2>1, <2>2
<1> HIDE DEF B
<1>4. 0..N \subseteq B
  BY <1>1, <1>2, <1>3, Numbers!Counting
<1> QED
  BY <1>1, <1>4 DEF B

Pick(T) == CHOOSE x \in T : TRUE

\* One step of the recursion, on the sets in G.
Unfold(f, G, g) == [T \in G |-> IF T = {} THEN 0 ELSE f[Pick(T)] + g[T \ {Pick(T)}]]
Iter(f, S) == CHOOSE g : g = Unfold(f, SUBSET S, g)

LEMMA SumIs ==
  ASSUME NEW f, NEW S
  PROVE  SumFunctionOnSet(f, S) = Iter(f, S)[S]
BY Zenon DEF SumFunctionOnSet, FoldFunctionOnSet, MapThenFoldSet, Iter, Unfold, Pick

LEMMA PickIn ==
  ASSUME NEW T, T # {}
  PROVE  Pick(T) \in T
BY DEF Pick

LEMMA IterExists ==
  ASSUME NEW f, NEW S, IsFiniteSet(S)
  PROVE  \E g : g = Unfold(f, SUBSET S, g)
<1> DEFINE N == Cardinality(S)
           Layer(n) == {T \in SUBSET S : Cardinality(T) <= n}
           A == {n \in 0..N : \E g : g = Unfold(f, Layer(n), g)}
<1>1. N \in Nat /\ \A T \in SUBSET S : IsFiniteSet(T) /\ Cardinality(T) \in 0..N
  BY FS_CardinalityType, FS_Subset
<1>2. 0 \in A
  <2>1. \A T \in Layer(0) : T = {}
    BY <1>1, FS_EmptySet
  <2>2. [T \in Layer(0) |-> 0] = Unfold(f, Layer(0), [T \in Layer(0) |-> 0])
    BY <2>1, Zenon DEF Unfold
  <2> HIDE DEF Layer
  <2> QED
    BY <2>2, <1>1
<1>3. ASSUME NEW n \in 1..N, n - 1 \in A PROVE n \in A
  <2>1. PICK g : g = Unfold(f, Layer(n - 1), g)
    BY <1>3
  <2>2. PICK h : h = Unfold(f, Layer(n), g)
    OBVIOUS
  <2>3. ASSUME NEW T \in Layer(n), T # {} PROVE T \ {Pick(T)} \in Layer(n - 1)
    BY <1>1, <2>3, PickIn, FS_RemoveElement
  <2>4. ASSUME NEW U \in Layer(n - 1) PROVE U \in Layer(n) /\ h[U] = g[U]
    <3>1. U \in Layer(n)
      BY <1>1
    <3> HIDE DEF Layer
    <3>2. h[U] = IF U = {} THEN 0 ELSE f[Pick(U)] + g[U \ {Pick(U)}]
      BY <3>1, <2>2 DEF Unfold
    <3>3. g[U] = IF U = {} THEN 0 ELSE f[Pick(U)] + g[U \ {Pick(U)}]
      BY <2>1, Zenon DEF Unfold
    <3> QED
      BY <3>1, <3>2, <3>3
  <2> HIDE DEF Layer
  <2>5. ASSUME NEW T \in Layer(n)
        PROVE  (IF T = {} THEN 0 ELSE f[Pick(T)] + g[T \ {Pick(T)}])
                 = (IF T = {} THEN 0 ELSE f[Pick(T)] + h[T \ {Pick(T)}])
    BY <2>3, <2>4
  <2>6. h = Unfold(f, Layer(n), h)
    BY <2>2, <2>5, Zenon DEF Unfold
  <2> QED
    BY <2>6, <1>1
<1> HIDE DEF A
<1>4. N \in A
  BY <1>1, <1>2, <1>3, Numbers!Counting
<1>5. Layer(N) = SUBSET S
  BY <1>1
<1> QED
  BY <1>4, <1>5 DEF A

LEMMA IterStep ==
  ASSUME NEW f, NEW S, IsFiniteSet(S), NEW T \in SUBSET S
  PROVE  /\ T = {} => Iter(f, S)[T] = 0
         /\ T # {} => Iter(f, S)[T] = f[Pick(T)] + Iter(f, S)[T \ {Pick(T)}]
<1>1. Iter(f, S) = Unfold(f, SUBSET S, Iter(f, S))
  BY IterExists, Zenon DEF Iter
<1>2. PICK g : g = Iter(f, S)
  OBVIOUS
<1>3. g = Unfold(f, SUBSET S, g)
  BY <1>1, <1>2
<1>4. g[T] = IF T = {} THEN 0 ELSE f[Pick(T)] + g[T \ {Pick(T)}]
  BY <1>3, Zenon DEF Unfold
<1> QED
  BY <1>2, <1>4

LEMMA IterEmpty ==
  ASSUME NEW f, NEW S, IsFiniteSet(S)
  PROVE  Iter(f, S)[{}] = 0
<1>1. {} \in SUBSET S
  OBVIOUS
<1> QED
  BY <1>1, IterStep

Ints(f, S) == IsFiniteSet(S) /\ \A x \in S : f[x] \in Int

LEMMA IterType ==
  ASSUME NEW f, NEW S, Ints(f, S), NEW T \in SUBSET S
  PROVE  Iter(f, S)[T] \in Int
<1> DEFINE A == {U \in SUBSET S : Iter(f, S)[U] \in Int}
<1>1. IsFiniteSet(S)
  BY DEF Ints
<1>2. {} \in A
  BY <1>1, IterEmpty
<1>3. ASSUME NEW U \in SUBSET S, U # {}, \A x \in U : U \ {x} \in A PROVE U \in A
  <2>1. Pick(U) \in U
    BY <1>3, PickIn
  <2>2. Iter(f, S)[U \ {Pick(U)}] \in Int /\ f[Pick(U)] \in Int
    BY <1>3, <2>1 DEF Ints
  <2>3. U # {}
    BY <1>3
  <2>4. Iter(f, S)[U] = f[Pick(U)] + Iter(f, S)[U \ {Pick(U)}]
    BY <1>1, <2>3, IterStep
  <2> QED
    BY <2>2, <2>4
<1> HIDE DEF A
<1>4. SUBSET S \subseteq A
  BY <1>1, <1>2, <1>3, SubsetInduction
<1> QED
  BY <1>4 DEF A

\* Any element may be taken first.
LEMMA IterTake ==
  ASSUME NEW f, NEW S, Ints(f, S), NEW T \in SUBSET S, NEW y \in T
  PROVE  Iter(f, S)[T] = f[y] + Iter(f, S)[T \ {y}]
<1> DEFINE A == {U \in SUBSET S : \A x \in U : Iter(f, S)[U] = f[x] + Iter(f, S)[U \ {x}]}
<1>1. IsFiniteSet(S)
  BY DEF Ints
<1>2. {} \in A
  OBVIOUS
<1>3. ASSUME NEW U \in SUBSET S, U # {}, \A x \in U : U \ {x} \in A, NEW x \in U
      PROVE  Iter(f, S)[U] = f[x] + Iter(f, S)[U \ {x}]
  <2>1. PICK p \in U : p = Pick(U)
    BY <1>3, PickIn
  <2>2. Iter(f, S)[U] = f[p] + Iter(f, S)[U \ {p}]
    BY <1>1, <1>3, IterStep, <2>1
  <2>3. CASE x = p
    BY <2>2, <2>3
  <2>4. CASE x # p
    <3>1. Iter(f, S)[U \ {p}] = f[x] + Iter(f, S)[(U \ {p}) \ {x}]
      BY <1>3, <2>4
    <3>2. Iter(f, S)[U \ {x}] = f[p] + Iter(f, S)[(U \ {x}) \ {p}]
      BY <1>3, <2>4
    <3>3. (U \ {p}) \ {x} = (U \ {x}) \ {p} /\ (U \ {p}) \ {x} \in SUBSET S
      OBVIOUS
    <3>4. f[x] \in Int /\ f[p] \in Int /\ Iter(f, S)[(U \ {p}) \ {x}] \in Int
      BY <3>3, IterType DEF Ints
    <3>5. PICK a \in Int, b \in Int, c \in Int :
            a = f[x] /\ b = f[p] /\ c = Iter(f, S)[(U \ {p}) \ {x}]
      BY <3>4
    <3>6. Iter(f, S)[U \ {x}] = b + c
      BY <3>2, <3>3, <3>5
    <3>7. Iter(f, S)[U] = b + (a + c)
      BY <2>2, <3>1, <3>5
    <3> QED
      BY <3>5, <3>6, <3>7
  <2> QED
    BY <2>3, <2>4
<1>4. \A U \in SUBSET S : U # {} /\ (\A x \in U : U \ {x} \in A) => U \in A
  BY <1>3
<1> HIDE DEF A
<1>5. SUBSET S \subseteq A
  BY <1>1, <1>2, <1>4, SubsetInduction
<1> QED
  BY <1>5 DEF A

\* What is summed up is the values on the set, and nothing else.
LEMMA IterSame ==
  ASSUME NEW f, NEW S, IsFiniteSet(S), NEW g, NEW R, IsFiniteSet(R),
         NEW T \in SUBSET S, T \in SUBSET R, \A x \in T : f[x] = g[x]
  PROVE  Iter(f, S)[T] = Iter(g, R)[T]
<1> DEFINE A == {U \in SUBSET T : Iter(f, S)[U] = Iter(g, R)[U]}
<1>1. {} \in A
  BY IterEmpty
<1>2. ASSUME NEW U \in SUBSET T, U # {}, \A x \in U : U \ {x} \in A PROVE U \in A
  <2>1. Pick(U) \in U
    BY <1>2, PickIn
  <2>2. Iter(f, S)[U \ {Pick(U)}] = Iter(g, R)[U \ {Pick(U)}] /\ f[Pick(U)] = g[Pick(U)]
    BY <1>2, <2>1
  <2>3. Iter(f, S)[U] = f[Pick(U)] + Iter(f, S)[U \ {Pick(U)}]
    <3>1. U \in SUBSET S /\ U # {}
      BY <1>2
    <3> QED
      BY <3>1, IterStep
  <2>4. Iter(g, R)[U] = g[Pick(U)] + Iter(g, R)[U \ {Pick(U)}]
    BY <1>2, IterStep
  <2> QED
    BY <2>2, <2>3, <2>4
<1>3. IsFiniteSet(T)
  BY FS_Subset
<1> HIDE DEF A
<1>4. SUBSET T \subseteq A
  BY <1>1, <1>2, <1>3, SubsetInduction
<1> QED
  BY <1>4 DEF A

LEMMA SumEmpty ==
  ASSUME NEW f
  PROVE  SumFunctionOnSet(f, {}) = 0
BY SumIs, IterEmpty, FS_EmptySet

LEMMA SumType ==
  ASSUME NEW f, NEW S, Ints(f, S)
  PROVE  SumFunctionOnSet(f, S) \in Int
BY SumIs, IterType

LEMMA SumTake ==
  ASSUME NEW f, NEW S, Ints(f, S), NEW x \in S
  PROVE  SumFunctionOnSet(f, S) = f[x] + SumFunctionOnSet(f, S \ {x})
<1>1. IsFiniteSet(S) /\ IsFiniteSet(S \ {x})
  BY FS_RemoveElement DEF Ints
<1>2. Iter(f, S)[S] = f[x] + Iter(f, S)[S \ {x}]
  BY IterTake
<1>3. Iter(f, S)[S \ {x}] = Iter(f, S \ {x})[S \ {x}]
  BY <1>1, IterSame
<1> QED
  BY <1>2, <1>3, SumIs

LEMMA SumSame ==
  ASSUME NEW f, NEW g, NEW S, IsFiniteSet(S), \A x \in S : f[x] = g[x]
  PROVE  SumFunctionOnSet(f, S) = SumFunctionOnSet(g, S)
BY SumIs, IterSame

LEMMA SumAdd ==
  ASSUME NEW f, NEW S, NEW x, x \notin S, Ints(f, S), f[x] \in Int
  PROVE  SumFunctionOnSet(f, S \cup {x}) = SumFunctionOnSet(f, S) + f[x]
<1>1. Ints(f, S \cup {x})
  BY FS_AddElement DEF Ints
<1>2. (S \cup {x}) \ {x} = S
  OBVIOUS
<1>3. SumFunctionOnSet(f, S \cup {x}) = f[x] + SumFunctionOnSet(f, S)
  BY <1>1, <1>2, SumTake
<1> QED
  BY <1>3, SumType

LEMMA SumDisjoint ==
  ASSUME NEW f, NEW S, NEW R, Ints(f, S), Ints(f, R), S \cap R = {}
  PROVE  SumFunctionOnSet(f, S \cup R) = SumFunctionOnSet(f, S) + SumFunctionOnSet(f, R)
<1> DEFINE Sum(T) == SumFunctionOnSet(f, T)
           A == {T \in SUBSET R : Sum(S \cup T) = Sum(S) + Sum(T)}
<1>1. Sum(S) \in Int /\ IsFiniteSet(R)
  BY SumType DEF Ints
<1>2. {} \in A
  BY <1>1, SumEmpty
<1>3. ASSUME NEW T \in SUBSET R, T # {}, \A x \in T : T \ {x} \in A PROVE T \in A
  <2>1. PICK x \in T : TRUE
    BY <1>3
  <2>2. PICK U : U = T \ {x}
    OBVIOUS
  <2>3. U \in SUBSET R /\ Sum(S \cup U) = Sum(S) + Sum(U)
    BY <1>3, <2>2
  <2>4. Ints(f, U) /\ Ints(f, S \cup U) /\ f[x] \in Int
    BY <2>1, <2>3, FS_Subset, FS_Union DEF Ints
  <2>5. x \notin U /\ x \notin S \cup U /\ T = U \cup {x} /\ S \cup T = (S \cup U) \cup {x}
    BY <2>1, <2>2
  <2>6. Sum(T) = Sum(U) + f[x] /\ Sum(S \cup T) = Sum(S \cup U) + f[x]
    BY <2>4, <2>5, SumAdd
  <2>7. Sum(U) \in Int
    BY <2>4, SumType
  <2> QED
    BY <1>1, <2>3, <2>4, <2>6, <2>7
<1> HIDE DEF A
<1>4. SUBSET R \subseteq A
  BY <1>1, <1>2, <1>3, SubsetInduction
<1> QED
  BY <1>4 DEF A

LEMMA SumConstant ==
  ASSUME NEW f, NEW S, IsFiniteSet(S), NEW c \in Int, \A x \in S : f[x] = c
  PROVE  SumFunctionOnSet(f, S) = c * Cardinality(S)
<1> DEFINE Sum(T) == SumFunctionOnSet(f, T)
           A == {T \in SUBSET S : Sum(T) = c * Cardinality(T)}
<1>1. {} \in A
  BY SumEmpty, FS_EmptySet
<1>2. ASSUME NEW T \in SUBSET S, T # {}, \A x \in T : T \ {x} \in A PROVE T \in A
  <2>1. PICK x \in T : TRUE
    BY <1>2
  <2>2. Sum(T \ {x}) = c * Cardinality(T \ {x})
    BY <1>2, <2>1
  <2>3. Ints(f, T) /\ IsFiniteSet(T) /\ f[x] = c
    BY <2>1, FS_Subset DEF Ints
  <2>4. Sum(T) = f[x] + Sum(T \ {x})
    BY <2>3, SumTake
  <2>5. PICK n \in Nat : n = Cardinality(T) /\ Cardinality(T \ {x}) = n - 1
    BY <2>1, <2>3, FS_RemoveElement, FS_CardinalityType
  <2>6. c + c * (n - 1) = c * n
    OBVIOUS
  <2> QED
    BY <2>2, <2>3, <2>4, <2>5, <2>6
<1> HIDE DEF A
<1>3. SUBSET S \subseteq A
  BY <1>1, <1>2, SubsetInduction
<1> QED
  BY <1>3 DEF A

\* h names each element of R by one of S.
Renames(h, S, R) ==
  /\ \A x, y \in S : h[x] = h[y] => x = y
  /\ \A x \in S : h[x] \in R
  /\ \A z \in R : \E x \in S : z = h[x]


\* Naming the elements otherwise changes nothing.
LEMMA SumRenamed ==
  ASSUME NEW f, NEW g, NEW h, NEW S, IsFiniteSet(S), NEW R, Renames(h, S, R),
         \A x \in S : f[x] = g[h[x]] /\ f[x] \in Int
  PROVE  SumFunctionOnSet(f, S) = SumFunctionOnSet(g, R) /\ IsFiniteSet(R)
<1>0. /\ \A x, y \in S : h[x] = h[y] => x = y
      /\ \A x \in S : h[x] \in R
      /\ \A z \in R : \E x \in S : z = h[x]
  BY DEF Renames
<1> DEFINE Im(T) == {h[x] : x \in T}
           A == {T \in SUBSET S : /\ SumFunctionOnSet(f, T) = SumFunctionOnSet(g, Im(T))
                                  /\ IsFiniteSet(Im(T))}
<1>1. {} \in A
  BY SumEmpty, FS_EmptySet
<1>2. ASSUME NEW T \in SUBSET S, T # {}, \A x \in T : T \ {x} \in A PROVE T \in A
  <2>1. PICK x \in T : TRUE
    BY <1>2
  <2>2. PICK U : U = T \ {x}
    OBVIOUS
  <2>3. U \in SUBSET S /\ SumFunctionOnSet(f, U) = SumFunctionOnSet(g, Im(U)) /\ IsFiniteSet(Im(U))
    BY <1>2, <2>1, <2>2
  <2>4. T = U \cup {x} /\ x \notin U /\ Im(T) = Im(U) \cup {h[x]} /\ h[x] \notin Im(U)
    BY <1>0, <2>1, <2>2
  <2>5. Ints(f, U) /\ f[x] \in Int /\ f[x] = g[h[x]]
    BY <2>1, <2>3, FS_Subset DEF Ints
  <2>6. \A z \in Im(U) : g[z] \in Int
    BY <2>3
  <2> HIDE DEF Im
  <2>7. PICK V, z : V = Im(U) /\ z = h[x]
    OBVIOUS
  <2>8. IsFiniteSet(V) /\ IsFiniteSet(V \cup {z}) /\ Ints(g, V)
    BY <2>3, <2>6, <2>7, FS_AddElement DEF Ints
  <2>9. SumFunctionOnSet(f, T) = SumFunctionOnSet(f, U) + f[x]
    <3>1. x \notin U /\ Ints(f, U) /\ f[x] \in Int
      BY <2>4, <2>5
    <3>2. SumFunctionOnSet(f, U \cup {x}) = SumFunctionOnSet(f, U) + f[x]
      BY <3>1, SumAdd
    <3> QED
      BY <2>4, <3>2
  <2>10. z \notin V /\ g[z] \in Int
    BY <2>4, <2>5, <2>7
  <2>11. SumFunctionOnSet(g, V \cup {z}) = SumFunctionOnSet(g, V) + g[z]
    BY <2>8, <2>10, SumAdd
  <2> QED
    BY <2>3, <2>4, <2>5, <2>7, <2>8, <2>9, <2>11
<1> HIDE DEF A
<1>3. SUBSET S \subseteq A
  BY <1>1, <1>2, SubsetInduction
<1>4. Im(S) = R
  BY <1>0
<1>5. SumFunctionOnSet(f, S) = SumFunctionOnSet(g, Im(S)) /\ IsFiniteSet(Im(S))
  <2> HIDE DEF Im
  <2> QED
    BY <1>3 DEF A
<1> QED
  BY <1>4, <1>5

\* Sums respect bounds: here a multiple of one function below a multiple of another.
LEMMA SumBelow ==
  ASSUME NEW f, NEW g, NEW S, Ints(f, S), Ints(g, S), NEW a \in Int, NEW b \in Int,
         \A x \in S : a * f[x] <= b * g[x]
  PROVE  a * SumFunctionOnSet(f, S) <= b * SumFunctionOnSet(g, S)
<1> DEFINE F(T) == SumFunctionOnSet(f, T)
           G(T) == SumFunctionOnSet(g, T)
           A == {T \in SUBSET S : a * F(T) <= b * G(T)}
<1>1. {} \in A
  BY SumEmpty
<1>2. ASSUME NEW T \in SUBSET S, T # {}, \A x \in T : T \ {x} \in A PROVE T \in A
  <2>1. PICK x \in T : TRUE
    BY <1>2
  <2>2. a * F(T \ {x}) <= b * G(T \ {x})
    BY <1>2, <2>1
  <2>3. Ints(f, T) /\ Ints(g, T) /\ Ints(f, T \ {x}) /\ Ints(g, T \ {x})
    BY FS_Subset DEF Ints
  <2>4. F(T) = f[x] + F(T \ {x}) /\ G(T) = g[x] + G(T \ {x})
    BY <2>1, <2>3, SumTake
  <2>5. PICK u \in Int, v \in Int, y \in Int, z \in Int :
          u = f[x] /\ v = g[x] /\ y = F(T \ {x}) /\ z = G(T \ {x})
    BY <2>1, <2>3, SumType DEF Ints
  <2>6. a * u <= b * v /\ a * y <= b * z
    BY <2>1, <2>2, <2>5
  <2>7. a * (u + y) = a * u + a * y /\ b * (v + z) = b * v + b * z
    OBVIOUS
  <2>8. a * u \in Int /\ a * y \in Int /\ b * v \in Int /\ b * z \in Int
    OBVIOUS
  <2>9. a * (u + y) <= b * (v + z)
    BY <2>6, <2>7, <2>8
  <2> QED
    BY <2>4, <2>5, <2>9
<1> HIDE DEF A
<1>3. IsFiniteSet(S)
  BY DEF Ints
<1>4. SUBSET S \subseteq A
  BY <1>1, <1>2, <1>3, SubsetInduction
<1> QED
  BY <1>4 DEF A

-----------------------------------------------------------------------------
(* Shares of a pool, and the even division of what a tie group shares. *)

LEMMA BpsFacts ==
  ASSUME NEW x \in Nat, NEW b \in Nat
  PROVE  Bps(x, b) \in Nat /\ 10000 * Bps(x, b) <= x * b
<1>1. PICK q \in Nat, r \in Nat : q = x \div 10000 /\ r = x % 10000
  OBVIOUS
<1>2. x = 10000 * q + r
  BY <1>1
<1>3. PICK m \in Nat : m = r * b
  <2>1. r * b \in Nat
    OBVIOUS
  <2> QED
    BY <2>1
<1>4. PICK d \in Nat : d = m \div 10000 /\ 10000 * d <= m
  OBVIOUS
<1>5. PICK k \in Nat : k = q * b
  <2>1. q * b \in Nat
    OBVIOUS
  <2> QED
    BY <2>1
<1>6. Bps(x, b) = k + d
  BY <1>1, <1>3, <1>4, <1>5, SMT DEF Bps
<1>7. x * b = 10000 * k + m
  BY <1>2, <1>3, <1>5
<1> QED
  BY <1>4, <1>6, <1>7

LEMMA EvenSplit ==
  ASSUME NEW lo \in Int, NEW c \in Nat \ {0}, NEW T \in Nat, NEW a,
         \A i \in lo..(lo + c - 1) :
           a[i] = T \div c + (IF i - lo < T % c THEN 1 ELSE 0)
  PROVE  SumFunctionOnSet(a, lo..(lo + c - 1)) = T
<1>1. PICK q \in Nat, r \in Nat : q = T \div c /\ r = T % c /\ r < c /\ T = c * q + r
  OBVIOUS
<1>2. \A i \in lo..(lo + c - 1) : a[i] = q + (IF i - lo < r THEN 1 ELSE 0)
  BY <1>1
<1> DEFINE Sum(j) == SumFunctionOnSet(a, lo..(lo + j - 1))
           A == {j \in 0..c : Sum(j) = j * q + (IF j < r THEN j ELSE r)}
<1>3. 0 \in A
  BY SumEmpty
<1>4. ASSUME NEW j \in 1..c, j - 1 \in A
      PROVE  j \in A
  <2>1. PICK S, x : S = lo..(lo + (j - 1) - 1) /\ x = lo + j - 1
    OBVIOUS
  <2>2. lo..(lo + j - 1) = S \cup {x} /\ x \notin S
    BY <2>1
  <2>3. Ints(a, S) /\ a[x] = q + (IF j - 1 < r THEN 1 ELSE 0)
    <3>1. IsFiniteSet(S)
      BY <2>1, FS_Interval
    <3>2. \A i \in S : a[i] \in Int
      BY <1>2, <2>1
    <3>3. x \in lo..(lo + c - 1) /\ x - lo = j - 1
      BY <2>1
    <3> QED
      BY <1>2, <3>1, <3>2, <3>3 DEF Ints
  <2>4. a[x] \in Int
    BY <2>3
  <2>5. Sum(j) = SumFunctionOnSet(a, S) + a[x]
    <3>1. SumFunctionOnSet(a, S \cup {x}) = SumFunctionOnSet(a, S) + a[x]
      BY <2>2, <2>3, <2>4, SumAdd
    <3> QED
      BY <2>2, <3>1
  <2>6. SumFunctionOnSet(a, S) = (j - 1) * q + (IF j - 1 < r THEN j - 1 ELSE r)
    BY <1>4, <2>1
  <2>7. (j - 1) * q = j * q - q /\ j * q \in Int
    OBVIOUS
  <2>8. PICK y \in Int : y = j * q
    BY <2>7
  <2>9. PICK z, w \in Int : z = SumFunctionOnSet(a, S) /\ w = a[x]
    BY <2>3, <2>4, SumType
  <2>10. z + w = y + (IF j < r THEN j ELSE r)
    BY <2>6, <2>7, <2>8, <2>9, <2>3
  <2> QED
    BY <2>5, <2>8, <2>9, <2>10
<1>5. 0..c \subseteq A
  <2> HIDE DEF A
  <2> QED
    BY <1>3, <1>4, Numbers!Counting
<1>6. Sum(c) = c * q + r
  <2>1. c \in A
    BY <1>5
  <2> QED
    BY <1>1, <2>1
<1> QED
  BY <1>1, <1>6

\* Two functions with equal sums over blocks that make up 1..n; E holds the ends
\* of the blocks.
LEMMA Blocks ==
  ASSUME NEW n \in Nat, NEW a, NEW b, Ints(a, 1..n), Ints(b, 1..n),
         NEW E \in SUBSET (0..n), n \in E,
         \A k \in E : k # 0 => \E lo \in 1..k :
            lo - 1 \in E /\ SumFunctionOnSet(a, lo..k) = SumFunctionOnSet(b, lo..k)
  PROVE  SumFunctionOnSet(a, 1..n) = SumFunctionOnSet(b, 1..n)
<1> DEFINE P(m) == SumFunctionOnSet(a, 1..m) = SumFunctionOnSet(b, 1..m)
           A == {k \in 0..n : \A m \in E : m <= k => P(m)}
<1>0. P(0)
  BY SumEmpty
<1>1. 0 \in A
  <2> HIDE DEF P
  <2>1. \A m \in E : m <= 0 => m = 0
    OBVIOUS
  <2> QED
    BY <1>0, <2>1
<1>2. ASSUME NEW k \in 1..n, k - 1 \in A
      PROVE  k \in A
  <2>1. ASSUME k \in E PROVE P(k)
    <3>1. PICK lo \in 1..k : /\ lo - 1 \in E
                             /\ SumFunctionOnSet(a, lo..k) = SumFunctionOnSet(b, lo..k)
      BY <2>1
    <3>2. P(lo - 1)
      <4> HIDE DEF P
      <4> QED
        BY <1>2, <3>1
    <3>3. PICK U, V : U = 1..(lo - 1) /\ V = lo..k
      OBVIOUS
    <3>4. 1..k = U \cup V /\ U \cap V = {} /\ U \subseteq 1..n /\ V \subseteq 1..n
      BY <3>3
    <3>5. Ints(a, U) /\ Ints(a, V) /\ Ints(b, U) /\ Ints(b, V)
      BY <3>4, FS_Subset DEF Ints
    <3>6. /\ SumFunctionOnSet(a, U \cup V) = SumFunctionOnSet(a, U) + SumFunctionOnSet(a, V)
          /\ SumFunctionOnSet(b, U \cup V) = SumFunctionOnSet(b, U) + SumFunctionOnSet(b, V)
      BY <3>4, <3>5, SumDisjoint
    <3> QED
      BY <3>1, <3>2, <3>3, <3>4, <3>6
  <2>2. \A m \in E : m <= k => m = k \/ m <= k - 1
    OBVIOUS
  <2> HIDE DEF P
  <2> QED
    BY <1>2, <2>1, <2>2
<1>3. 0..n \subseteq A
  <2> HIDE DEF A
  <2> QED
    BY <1>1, <1>2, Numbers!Counting
<1>4. n \in A
  BY <1>3
<1> QED
  BY <1>4

Level(n, s, i) == {k \in 1..n : s[k] = s[i]}

Falling(n, s) ==
  /\ \A i \in 1..n : s[i] \in Int
  /\ \A i, j \in 1..n : i <= j => s[i] >= s[j]

\* What a paid place gets when equal scores divide the shares sh.
Divided(n, s, sh, i) ==
  LET total == SumFunctionOnSet(sh, Level(n, s, i))
      count == Cardinality(Level(n, s, i))
  IN total \div count + (IF i - Min(Level(n, s, i)) < total % count THEN 1 ELSE 0)

\* Equal entries are neighbours: a level is a range of positions.
LevelRange(n, s, i) ==
  \E lo \in 1..i, hi \in i..n :
    /\ Level(n, s, i) = lo..hi
    /\ Min(Level(n, s, i)) = lo
    /\ Cardinality(Level(n, s, i)) = hi - lo + 1

LEMMA LevelIs ==
  ASSUME NEW n \in Nat, NEW s, Falling(n, s), NEW i \in 1..n
  PROVE  LevelRange(n, s, i)
<1> DEFINE L == Level(n, s, i)
<1>1. L \in SUBSET (0..n) /\ i \in L /\ \A k \in L : k \in 1..n /\ s[k] = s[i]
  BY DEF Level
<1>2. PICK lo \in L : \A y \in L : lo <= y
  BY <1>1, Numbers!SmallestNumber
<1>3. PICK hi \in L : \A y \in L : y <= hi
  <2> DEFINE M == {n - k : k \in L}
  <2>1. M \in SUBSET (0..n) /\ n - i \in M
    BY <1>1
  <2>2. PICK m \in M : \A y \in M : m <= y
    <3> HIDE DEF M
    <3> QED
      BY <2>1, Numbers!SmallestNumber
  <2>3. PICK k \in L : m = n - k
    BY <2>2
  <2>4. ASSUME NEW y \in L PROVE y <= k
    <3>1. m <= n - y
      BY <2>2
    <3> QED
      BY <1>1, <2>3, <3>1
  <2> QED
    BY <2>4
<1>4. lo \in 1..i /\ hi \in i..n
  BY <1>1, <1>2, <1>3
<1>5. ASSUME NEW k \in lo..hi PROVE k \in L
  BY <1>4, <1>1 DEF Falling, Level
<1>6. L = lo..hi
  <2> HIDE DEF L
  <2>1. \A k \in L : k \in lo..hi
    BY <1>1, <1>2, <1>3
  <2> QED
    BY <1>5, <2>1
<1>7. Min(L) = lo
  <2>1. Min(L) \in L /\ \A y \in L : Min(L) <= y
    <3> HIDE DEF L
    <3>1. \E x \in L : \A y \in L : x <= y
      BY <1>2
    <3> QED
      BY <3>1 DEF Min
  <2>2. PICK m : m = Min(L)
    OBVIOUS
  <2>3. m \in L /\ m <= lo /\ lo <= m
    <3> HIDE DEF L
    <3> QED
      BY <1>2, <2>1, <2>2
  <2>4. m \in 1..n /\ lo \in 1..n
    <3> HIDE DEF L
    <3> QED
      BY <1>1, <2>3
  <2> QED
    BY <2>2, <2>3, <2>4
<1>8. Cardinality(L) = hi - lo + 1
  BY <1>4, <1>6, FS_Interval
<1> QED
  BY <1>4, <1>6, <1>7, <1>8 DEF LevelRange

LEMMA SumNat ==
  ASSUME NEW f, NEW S, IsFiniteSet(S), \A x \in S : f[x] \in Nat
  PROVE  Ints(f, S) /\ SumFunctionOnSet(f, S) \in Nat
<1> DEFINE g == [x \in S |-> 0]
<1>1. Ints(f, S) /\ Ints(g, S)
  BY DEF Ints
<1>2. SumFunctionOnSet(g, S) = 0 * Cardinality(S) /\ Cardinality(S) \in Nat
  BY SumConstant, FS_CardinalityType
<1>3. \A x \in S : 1 * g[x] <= 1 * f[x]
  OBVIOUS
<1>4. 1 * SumFunctionOnSet(g, S) <= 1 * SumFunctionOnSet(f, S)
  <2> HIDE DEF g
  <2> QED
    BY <1>1, <1>3, SumBelow
<1>5. SumFunctionOnSet(f, S) \in Int
  BY <1>1, SumType
<1> QED
  BY <1>1, <1>2, <1>4, <1>5

LEMMA DividedType ==
  ASSUME NEW n \in Nat, NEW s, Falling(n, s), NEW sh, \A i \in 1..n : sh[i] \in Nat,
         NEW i \in 1..n
  PROVE  /\ Divided(n, s, sh, i) \in Nat
         /\ SumFunctionOnSet(sh, Level(n, s, i)) \in Nat
<1>1. PICK lo \in 1..i, hi \in i..n : /\ Level(n, s, i) = lo..hi
                                      /\ Min(Level(n, s, i)) = lo
                                      /\ Cardinality(Level(n, s, i)) = hi - lo + 1
  <2>1. LevelRange(n, s, i)
    BY LevelIs
  <2> QED
    BY <2>1 DEF LevelRange
<1>2. PICK L : L = Level(n, s, i)
  OBVIOUS
<1>3. IsFiniteSet(L) /\ L \subseteq 1..n
  BY <1>1, <1>2, FS_Interval
<1>4. PICK T \in Nat : T = SumFunctionOnSet(sh, L)
  BY <1>3, SumNat
<1>5. PICK c \in Nat \ {0} : c = hi - lo + 1
  OBVIOUS
<1>6. T \div c \in Nat /\ T % c \in Nat
  OBVIOUS
<1>7. Divided(n, s, sh, i) = T \div c + (IF i - lo < T % c THEN 1 ELSE 0)
  BY <1>1, <1>2, <1>4, <1>5 DEF Divided
<1> QED
  BY <1>2, <1>4, <1>6, <1>7

LEMMA SplitSum ==
  ASSUME NEW n \in Nat, NEW s, Falling(n, s), NEW sh, \A i \in 1..n : sh[i] \in Nat,
         NEW a, \A i \in 1..n : a[i] = Divided(n, s, sh, i)
  PROVE  SumFunctionOnSet(a, 1..n) = SumFunctionOnSet(sh, 1..n)
<1> DEFINE E == {k \in 0..n : k = 0 \/ k = n \/ s[k] # s[k + 1]}
<1>1. Ints(a, 1..n) /\ Ints(sh, 1..n)
  <2>1. IsFiniteSet(1..n)
    BY FS_Interval
  <2>2. \A i \in 1..n : a[i] \in Nat
    BY DividedType
  <2> QED
    BY <2>1, <2>2 DEF Ints
<1>2. E \in SUBSET (0..n) /\ n \in E
  OBVIOUS
<1>3. ASSUME NEW k \in E, k # 0
      PROVE  \E lo \in 1..k :
               lo - 1 \in E /\ SumFunctionOnSet(a, lo..k) = SumFunctionOnSet(sh, lo..k)
  <2>1. k \in 1..n
    BY <1>3
  <2>2. PICK lo \in 1..k, hi \in k..n : /\ Level(n, s, k) = lo..hi
                                        /\ Min(Level(n, s, k)) = lo
                                        /\ Cardinality(Level(n, s, k)) = hi - lo + 1
    <3>1. LevelRange(n, s, k)
      BY <2>1, LevelIs
    <3> QED
      BY <3>1 DEF LevelRange
  <2>3. hi = k
    <3> SUFFICES ASSUME hi # k PROVE FALSE
      OBVIOUS
    <3>1. k + 1 \in lo..hi /\ k + 1 <= n /\ k # n
      BY <2>1
    <3>2. s[k + 1] = s[k]
      BY <2>2, <3>1 DEF Level
    <3> QED
      BY <1>3, <3>1, <3>2
  <2>4. lo - 1 \in E
    <3> SUFFICES ASSUME lo - 1 # 0, s[lo - 1] = s[lo] PROVE FALSE
      BY <2>1
    <3>1. lo \in Level(n, s, k) /\ lo - 1 \in 1..n
      BY <2>1, <2>2
    <3>2. lo - 1 \in Level(n, s, k)
      BY <3>1 DEF Level
    <3> QED
      BY <2>2, <3>2
  <2>5. PICK T \in Nat : T = SumFunctionOnSet(sh, lo..k)
    BY <2>1, <2>2, <2>3, DividedType
  <2>6. PICK c \in Nat \ {0} : c = k - lo + 1
    BY <2>1
  <2>7. ASSUME NEW i \in lo..(lo + c - 1)
        PROVE  a[i] = T \div c + (IF i - lo < T % c THEN 1 ELSE 0)
    <3>1. i \in lo..k /\ i \in 1..n
      BY <2>1, <2>6
    <3>2. Level(n, s, i) = Level(n, s, k)
      BY <2>2, <2>3, <3>1 DEF Level
    <3>3. a[i] = Divided(n, s, sh, i)
      BY <3>1
    <3> QED
      BY <2>2, <2>3, <2>5, <2>6, <3>2, <3>3 DEF Divided
  <2>8. SumFunctionOnSet(a, lo..(lo + c - 1)) = T
    <3>1. lo \in Int
      OBVIOUS
    <3> QED
      BY <2>7, <3>1, EvenSplit
  <2>9. lo + c - 1 = k
    BY <2>1, <2>6
  <2> QED
    BY <2>4, <2>5, <2>8, <2>9
<1> HIDE DEF E
<1> QED
  BY <1>1, <1>2, <1>3, Blocks

LEMMA DividedEvenly ==
  ASSUME NEW n \in Nat, NEW s, Falling(n, s), NEW sh, \A i \in 1..n : sh[i] \in Nat,
         NEW i \in 1..n, NEW j \in 1..n, i < j, s[i] = s[j]
  PROVE  Divided(n, s, sh, i) - Divided(n, s, sh, j) \in {0, 1}
<1>1. PICK lo \in 1..i, hi \in i..n : /\ Level(n, s, i) = lo..hi
                                      /\ Min(Level(n, s, i)) = lo
                                      /\ Cardinality(Level(n, s, i)) = hi - lo + 1
  <2>1. LevelRange(n, s, i)
    BY LevelIs
  <2> QED
    BY <2>1 DEF LevelRange
<1>2. Level(n, s, j) = Level(n, s, i)
  BY DEF Level
<1>3. PICK T \in Nat : T = SumFunctionOnSet(sh, Level(n, s, i))
  BY DividedType
<1>4. PICK c \in Nat \ {0} : c = hi - lo + 1
  OBVIOUS
<1>5. PICK q \in Nat, r \in Nat : q = T \div c /\ r = T % c
  OBVIOUS
<1>6. /\ Divided(n, s, sh, i) = q + (IF i - lo < r THEN 1 ELSE 0)
      /\ Divided(n, s, sh, j) = q + (IF j - lo < r THEN 1 ELSE 0)
  BY <1>1, <1>2, <1>3, <1>4, <1>5 DEF Divided
<1> QED
  BY <1>6

-----------------------------------------------------------------------------
(* The payouts add up to the pool. *)

\* Basis points: K of them are the whole.
Whole(K) ==
  K = 10000 /\ \A x, y \in Nat : Bps(x, y) \in Nat /\ K * Bps(x, y) <= x * y

LEMMA WholeIs == \E K \in Nat \ {0} : Whole(K)
<1>1. \A x, y \in Nat : Bps(x, y) \in Nat /\ 10000 * Bps(x, y) <= x * y
  BY BpsFacts
<1>2. 10000 \in Nat \ {0}
  OBVIOUS
<1> QED
  BY <1>1, <1>2, SMT DEF Whole

LEMMA WholeBounds ==
  ASSUME NEW K \in Nat \ {0}, Whole(K)
  PROVE  \A x, y \in Nat : Bps(x, y) \in Nat /\ K * Bps(x, y) <= x * y
BY SMT DEF Whole

\* The parts of a pool, rounded down, are at most the pool.
LEMMA FloorsBelow ==
  ASSUME NEW K \in Nat \ {0}, \A x, y \in Nat : Bps(x, y) \in Nat /\ K * Bps(x, y) <= x * y,
         NEW n \in Nat, NEW pool \in Nat, NEW b, \A i \in 1..n : b[i] \in Nat,
         SumFunctionOnSet(b, 1..n) = K,
         NEW f, \A i \in 1..n : f[i] = Bps(pool, b[i])
  PROVE  /\ \A i \in 1..n : f[i] \in Nat
         /\ SumFunctionOnSet(f, 1..n) \in Nat
         /\ SumFunctionOnSet(f, 1..n) <= pool
<1>1. \A i \in 1..n : f[i] \in Nat /\ K * f[i] <= pool * b[i]
  OBVIOUS
<1>2. IsFiniteSet(1..n)
  BY FS_Interval
<1>3. Ints(f, 1..n) /\ Ints(b, 1..n) /\ SumFunctionOnSet(f, 1..n) \in Nat
  BY <1>1, <1>2, SumNat
<1>4. K * SumFunctionOnSet(f, 1..n) <= pool * SumFunctionOnSet(b, 1..n)
  <2>1. \A i \in 1..n : K * f[i] <= pool * b[i]
    BY <1>1
  <2>2. K \in Int /\ pool \in Int
    OBVIOUS
  <2> QED
    BY <1>3, <2>1, <2>2, SumBelow
<1>5. PICK x \in Nat : x = SumFunctionOnSet(f, 1..n)
  BY <1>3
<1>6. K * x <= pool * K
  BY <1>4, <1>5
<1>7. x <= pool
  <2> SUFFICES ASSUME x > pool PROVE FALSE
    OBVIOUS
  <2>1. PICK d \in Nat \ {0} : x = pool + d
    <3>1. x - pool \in Nat \ {0} /\ x = pool + (x - pool)
      OBVIOUS
    <3> QED
      BY <3>1
  <2>2. K * x = pool * K + K * d
    BY <2>1
  <2>3. K * d > 0 /\ K * d \in Int /\ pool * K \in Int
    OBVIOUS
  <2> QED
    BY <1>6, <2>2, <2>3
<1> QED
  BY <1>1, <1>5, <1>7

\* What a tournament's rules promise of its money.
RulesOK(r) ==
  /\ r.entryFee \in Nat \ {0}
  /\ r.rakeBps \in Nat /\ r.rakeBps <= 10000
  /\ r.prizeBps \in Seq(Nat \ {0})
  /\ Len(r.prizeBps) >= 1
  /\ SumFunction(r.prizeBps) = 10000
  /\ r.minEntrants \in Nat /\ r.minEntrants >= Len(r.prizeBps)

LEMMA ValidRulesOK ==
  ASSUME NEW r, ValidateRules(r)
  PROVE  RulesOK(r)
<1>1. MaxEntryFee \in Nat /\ MaxPrizePlaces \in Nat
  BY BoundsAssumption, Zenon
<1>2. /\ r.entryFee \in 1..MaxEntryFee
      /\ r.rakeBps \in 0..9999
      /\ r.prizeBps \in Seq(Nat \ {0})
      /\ Len(r.prizeBps) \in 1..MaxPrizePlaces
      /\ SumFunction(r.prizeBps) = 10000
      /\ r.minEntrants \in Nat /\ r.minEntrants >= Len(r.prizeBps)
  BY SMT DEF ValidateRules, PrizeTotal
<1>3. r.rakeBps \in Nat /\ r.rakeBps <= 10000
  <2>1. PICK y : y = r.rakeBps
    OBVIOUS
  <2>2. y \in 0..9999
    BY <1>2, <2>1, SMT
  <2>3. y \in Nat /\ y <= 10000
    BY <2>2, SMT
  <2> QED
    BY <2>1, <2>3, SMT
<1>4. r.entryFee \in Nat \ {0} /\ Len(r.prizeBps) >= 1
  BY <1>1, <1>2, SMT
<1> QED
  BY <1>2, <1>3, <1>4, SMT DEF RulesOK

LEMMA PoolFacts ==
  ASSUME NEW t, FieldOK(t.entries), RulesOK(t.rules)
  PROVE  /\ ComputePool(t).fees = t.rules.entryFee * Len(t.entries)
         /\ ComputePool(t).fees \in Nat
         /\ ComputePool(t).rake \in Nat
         /\ ComputePool(t).pool \in Nat
         /\ ComputePool(t).pool = ComputePool(t).fees - ComputePool(t).rake
         /\ Voids(t) => ComputePool(t).rake = 0
<1>1. PICK fee, n, b :
        fee = t.rules.entryFee /\ n = Len(t.entries) /\ b = t.rules.rakeBps
  OBVIOUS
<1>a. fee \in Nat /\ b \in Nat /\ b <= 10000
  BY <1>1, SMT DEF RulesOK
<1>b. n \in Nat
  BY <1>1 DEF FieldOK
<1>2. PICK fees \in Nat : fees = fee * n
  <2>1. fee * n \in Nat
    BY <1>a, <1>b
  <2> QED
    BY <2>1
<1>3. PICK rake : rake = IF Voids(t) THEN 0 ELSE Bps(fees, b)
  OBVIOUS
<1>4. Bps(fees, b) \in Nat /\ 10000 * Bps(fees, b) <= fees * b
  BY <1>a, BpsFacts
<1>5. fees * b <= fees * 10000
  BY <1>a
<1>6. Bps(fees, b) <= fees
  <2>1. PICK x : x = Bps(fees, b)
    OBVIOUS
  <2>2. PICK y : y = fees * b
    OBVIOUS
  <2>3. x \in Nat /\ y \in Int /\ 10000 * x <= y /\ y <= fees * 10000
    BY <1>a, <1>4, <1>5, <2>1, <2>2
  <2> QED
    BY <2>1, <2>3
<1>7. rake \in Nat /\ rake <= fees /\ (Voids(t) => rake = 0)
  BY <1>3, <1>4, <1>6
<1>8. ComputePool(t) = [fees |-> fees, rake |-> rake, pool |-> fees - rake]
  BY <1>1, <1>2, <1>3, Zenon DEF ComputePool
<1>9. /\ ComputePool(t).fees = fees /\ ComputePool(t).rake = rake
      /\ ComputePool(t).pool = fees - rake
  BY <1>8
<1> QED
  BY <1>1, <1>2, <1>7, <1>9

\* A tournament that pays prizes pays all places of its rules.
LEMMA PlacesAre ==
  ASSUME NEW t, FieldOK(t.entries), RulesOK(t.rules), ~Voids(t),
         Len(t.standings) = Len(t.entries)
  PROVE  /\ Places(t) = Len(t.rules.prizeBps)
         /\ Places(t) \in Nat /\ Places(t) >= 1
         /\ Places(t) <= ScoredCount(t) /\ Places(t) <= Len(t.entries)
<1>1. PICK a, b, c : a = Len(t.rules.prizeBps) /\ b = Len(t.entries) /\ c = ScoredCount(t)
  OBVIOUS
<1>a. a \in Nat /\ a >= 1 /\ t.rules.minEntrants \in Nat /\ t.rules.minEntrants >= a
  <2>1. /\ t.rules.prizeBps \in Seq(Nat \ {0}) /\ Len(t.rules.prizeBps) >= 1
        /\ t.rules.minEntrants \in Nat /\ t.rules.minEntrants >= Len(t.rules.prizeBps)
    BY SMT DEF RulesOK
  <2> QED
    BY <1>1, <2>1
<1>b. b \in Nat /\ c \in Nat
  BY <1>1, ScoredFinite DEF FieldOK
<1>2. c <= b
  <2>1. Scored(t) \subseteq 1..b /\ IsFiniteSet(1..b) /\ Cardinality(1..b) = b
    <3>1. IsFiniteSet(1..b) /\ Cardinality(1..b) = b
      <4>1. b \in Int /\ 1 \in Int
        BY <1>b
      <4>2. IsFiniteSet(1..b) /\ Cardinality(1..b) = (IF 1 > b THEN 0 ELSE b - 1 + 1)
        BY <4>1, FS_Interval, Zenon
      <4> QED
        BY <1>b, <4>2
    <3>2. Scored(t) \subseteq 1..b
      BY <1>1, ScoredFinite
    <3> QED
      BY <1>b, <3>1, <3>2
  <2>2. Cardinality(Scored(t)) <= b
    BY <2>1, FS_Subset
  <2> QED
    BY <1>1, <2>2 DEF ScoredCount
<1>3. a <= c /\ a >= 1
  BY <1>1, <1>a, <1>b DEF Voids
<1>4. Places(t) = Min({a, b})
  BY <1>1 DEF Places
<1>5. Min({a, b}) = a
  BY <1>a, <1>b, <1>2, <1>3 DEF Min
<1> QED
  BY <1>1, <1>a, <1>b, <1>2, <1>3, <1>4, <1>5

Shares(t) == [k \in 1..Places(t) |-> Share(t, k)]

\* The shares add up to the pool, and none is negative.
LEMMA SharesAddUp ==
  ASSUME NEW t, FieldOK(t.entries), RulesOK(t.rules), ~Voids(t),
         Len(t.standings) = Len(t.entries)
  PROVE  /\ \A i \in 1..Places(t) : Shares(t)[i] \in Nat
         /\ SumFunctionOnSet(Shares(t), 1..Places(t)) = ComputePool(t).pool
<1>1. PICK n \in Nat : n = Places(t) /\ n = Len(t.rules.prizeBps) /\ n >= 1
  BY PlacesAre
<1>2. PICK pool \in Nat : pool = ComputePool(t).pool
  BY PoolFacts
<1>3. PICK b : b = t.rules.prizeBps
  OBVIOUS
<1>4. DOMAIN b = 1..n /\ (\A i \in 1..n : b[i] \in Nat) /\ SumFunctionOnSet(b, 1..n) = 10000
  <2>1. b \in Seq(Nat \ {0}) /\ SumFunction(b) = 10000
    BY <1>3, SMT DEF RulesOK
  <2>2. PICK N : N = Nat \ {0}
    OBVIOUS
  <2>3. b \in Seq(N) /\ n = Len(b)
    BY <1>1, <1>3, <2>1, <2>2
  <2>4. DOMAIN b = 1..n /\ \A i \in 1..n : b[i] \in N
    BY <2>3
  <2>5. \A i \in 1..n : b[i] \in Nat
    BY <2>2, <2>4
  <2> QED
    BY <2>1, <2>4, <2>5 DEF SumFunction
<1>5. PICK f : f = Floors(t)
  OBVIOUS
<1>6. f = [j \in 1..n |-> Bps(pool, b[j])]
  BY <1>1, <1>2, <1>3, <1>5 DEF Floors
<1>7. PICK K \in Nat \ {0} : Whole(K)
  BY WholeIs
<1>8. IsFiniteSet(1..n)
  BY FS_Interval
<1>9. /\ \A i \in 1..n : f[i] \in Nat
      /\ SumFunctionOnSet(f, 1..n) \in Nat
      /\ SumFunctionOnSet(f, 1..n) <= pool
  <2>1. SumFunctionOnSet(b, 1..n) = K
    BY <1>4, <1>7, SMT DEF Whole
  <2>2. \A x, y \in Nat : Bps(x, y) \in Nat /\ K * Bps(x, y) <= x * y
    BY <1>7, WholeBounds
  <2>3. \A i \in 1..n : b[i] \in Nat
    BY <1>4
  <2>4. \A i \in 1..n : f[i] = Bps(pool, b[i])
    BY <1>6
  <2> QED
    BY <2>1, <2>2, <2>3, <2>4, FloorsBelow
<1>10. Ints(f, 1..n)
  BY <1>8, <1>9, SumNat
<1>11. PICK x \in Nat : x = SumFunctionOnSet(f, 1..n)
  BY <1>9
<1>12. x <= pool
  BY <1>9, <1>11
<1>13. SumFunction(f) = x
  <2>1. DOMAIN f = 1..n
    BY <1>6
  <2> QED
    BY <1>11, <2>1, Zenon DEF SumFunction
<1>14. PICK s : s = Shares(t)
  OBVIOUS
<1>15. \A i \in 1..n : s[i] = f[i] + (IF i = 1 THEN pool - x ELSE 0)
  BY <1>1, <1>2, <1>5, <1>13, <1>14 DEF Shares, Share
<1>16. \A i \in 1..n : s[i] \in Nat
  BY <1>9, <1>12, <1>15
<1>17. Ints(s, 1..n)
  BY <1>8, <1>16, SumNat
<1>18. PICK R : R = (1..n) \ {1}
  OBVIOUS
<1>19. 1 \in 1..n /\ IsFiniteSet(R) /\ R \subseteq 1..n
  BY <1>1, <1>18, <1>8, FS_Subset
<1>20. /\ SumFunctionOnSet(s, 1..n) = s[1] + SumFunctionOnSet(s, R)
       /\ SumFunctionOnSet(f, 1..n) = f[1] + SumFunctionOnSet(f, R)
  BY <1>10, <1>17, <1>18, <1>19, SumTake
<1>21. SumFunctionOnSet(s, R) = SumFunctionOnSet(f, R)
  BY <1>9, <1>15, <1>18, <1>19, SumSame
<1>22. s[1] = f[1] + (pool - x) /\ f[1] \in Nat
  BY <1>9, <1>15, <1>19
<1>23. PICK y : y = SumFunctionOnSet(f, R)
  OBVIOUS
<1>24. y \in Int
  <2>1. Ints(f, R)
    BY <1>9, <1>19, SumNat
  <2> QED
    BY <1>23, <2>1, SumType
<1>25. SumFunctionOnSet(s, 1..n) = pool
  BY <1>11, <1>20, <1>21, <1>22, <1>23, <1>24
<1> QED
  BY <1>1, <1>2, <1>14, <1>16, <1>25

\* The paid places are scored, in order of their scores, and under Split a place
\* is shared by equal scores only.
LEMMA PaidPlaces ==
  ASSUME NEW t, TourOK(t), t.status \in {"closed", "voided", "settled"}, RulesOK(t.rules),
         ~Voids(t)
  PROVE  /\ \A i \in 1..Places(t) :
              t.standings[i].scored = TRUE /\ t.standings[i].score \in Int
         /\ \A i, j \in 1..Places(t) :
              i <= j => t.standings[i].score >= t.standings[j].score
         /\ t.rules.tieBreak = "split" =>
              \A i, j \in 1..Places(t) : t.standings[i].place = t.standings[j].place
                => t.standings[i].score = t.standings[j].score
<1>1. PICK e : e = t.entries
  OBVIOUS
<1>2. FieldOK(e) /\ t.standings = ComputeStandings(t)
  BY <1>1 DEF TourOK, StageOK
<1>3. PICK p : /\ Ranks(e, p)
               /\ t.standings = [r \in 1..Len(e) |-> Row(e, p, t.rules.tieBreak, r)]
  BY <1>1, <1>2, StandingsAre
<1>4. PICK n : n = Places(t)
  OBVIOUS
<1>5. n \in Nat /\ n <= ScoredCount(t) /\ n <= Len(e) /\ Len(e) \in Nat /\ ScoredCount(t) \in Nat
  <2>1. Len(t.standings) = Len(t.entries)
    BY StandingsPlayers
  <2>2. Len(e) \in Nat
    BY <1>2 DEF FieldOK
  <2> QED
    BY <1>1, <1>2, <1>4, <2>1, <2>2, PlacesAre, ScoredFinite
<1>6. \A i \in 1..n : i \in 1..Len(e)
  BY <1>5
<1>7. p \in [1..Len(e) -> 1..Len(e)] /\ \A i \in 1..Len(e) : Pos(e, p[i]) = i
  BY <1>2, <1>3, RanksFacts
<1>8. \A i \in 1..Len(e) : e[i].scored \in BOOLEAN /\ e[i].score \in Int
  <2> SUFFICES ASSUME NEW i \in 1..Len(e)
               PROVE  e[i].scored \in BOOLEAN /\ e[i].score \in Int
    OBVIOUS
  <2>1. e[i] \in EntryRec
    BY <1>2 DEF FieldOK
  <2>2. e[i].scored \in BOOLEAN
    BY <2>1 DEF EntryRec
  <2>3. e[i].score \in Int
    BY <2>1 DEF EntryRec
  <2> QED
    BY <2>2, <2>3
<1>9. ASSUME NEW i \in 1..n
      PROVE  e[p[i]].scored = TRUE
  <2>0. e[p[i]].scored \in BOOLEAN
    BY <1>6, <1>7, <1>8
  <2> SUFFICES ASSUME ~e[p[i]].scored PROVE FALSE
    BY <2>0
  <2>1. p[i] \in 1..Len(e) /\ Pos(e, p[i]) = i
    BY <1>6, <1>7
  <2>2. DOMAIN e = 1..Len(e)
    BY <1>2 DEF FieldOK
  <2>3. Betters(e, p[i]) = Scored(t)
    BY <1>1 DEF Betters, Scored
  <2>4. /\ Pos(e, p[i]) = 1 + Cardinality(Betters(e, p[i])) + Cardinality(Earlier(e, p[i]))
                            + Cardinality(Idle(e, p[i]))
        /\ Cardinality(Betters(e, p[i])) \in Nat
        /\ Cardinality(Earlier(e, p[i])) \in Nat /\ Cardinality(Idle(e, p[i])) \in Nat
    BY <1>2, <2>1, PosIs
  <2>5. Cardinality(Betters(e, p[i])) = ScoredCount(t)
    BY <2>3 DEF ScoredCount
  <2> QED
    BY <1>5, <2>1, <2>4, <2>5
<1>14. \A i \in 1..n : e[p[i]].scored
  BY <1>9, Zenon
<1>10. ASSUME NEW i \in 1..Len(e)
       PROVE  /\ t.standings[i].scored = e[p[i]].scored
              /\ t.standings[i].score = e[p[i]].score
              /\ t.standings[i].place =
                   IF t.rules.tieBreak = "split" /\ e[p[i]].scored
                   THEN Min(Shared(e, p, i)) ELSE i
  BY <1>3 DEF Row
<1>11. ASSUME NEW i \in 1..n
       PROVE  t.standings[i].scored = TRUE /\ t.standings[i].score \in Int
  <2>1. p[i] \in 1..Len(e)
    BY <1>6, <1>7
  <2> QED
    BY <1>6, <1>8, <1>9, <1>10, <2>1
<1>12. ASSUME NEW i \in 1..n, NEW j \in 1..n, i <= j
       PROVE  t.standings[i].score >= t.standings[j].score
  <2>1. p[i] \in 1..Len(e) /\ p[j] \in 1..Len(e) /\ Pos(e, p[i]) = i /\ Pos(e, p[j]) = j
    BY <1>6, <1>7
  <2>2. ~Ahead(e[p[j]], e[p[i]])
    <3> SUFFICES ASSUME Ahead(e[p[j]], e[p[i]]) PROVE FALSE
      OBVIOUS
    <3>1. Pos(e, p[j]) < Pos(e, p[i])
      BY <1>2, <2>1, PosGrows
    <3> QED
      BY <1>12, <2>1, <3>1
  <2>3. e[p[i]].scored /\ e[p[j]].scored /\ e[p[i]].score \in Int /\ e[p[j]].score \in Int
    BY <1>8, <1>9, <2>1
  <2>4. e[p[i]].score >= e[p[j]].score
    BY <2>2, <2>3 DEF Ahead
  <2> QED
    BY <1>6, <1>10, <2>4
<1>13. ASSUME t.rules.tieBreak = "split", NEW i \in 1..n, NEW j \in 1..n,
              t.standings[i].place = t.standings[j].place
       PROVE  t.standings[i].score = t.standings[j].score
  <2>1. ASSUME NEW k \in 1..n
        PROVE  Min(Shared(e, p, k)) \in Shared(e, p, k)
    <3>1. k \in Nat /\ k \in Shared(e, p, k) /\ Shared(e, p, k) \in SUBSET (0..k)
      BY <1>5, <1>14 DEF Shared
    <3>2. \E x \in Shared(e, p, k) : \A y \in Shared(e, p, k) : x <= y
      BY <3>1, Numbers!SmallestNumber
    <3> QED
      BY <3>2 DEF Min
  <2>2. PICK m : m = Min(Shared(e, p, i)) /\ m = Min(Shared(e, p, j))
    BY <1>6, <1>14, <1>10, <1>13
  <2>3. m \in Shared(e, p, i) /\ m \in Shared(e, p, j)
    BY <2>1, <2>2
  <2>4. e[p[m]].score = e[p[i]].score /\ e[p[m]].score = e[p[j]].score
    BY <2>3, Zenon DEF Shared
  <2> QED
    BY <1>6, <1>10, <2>4
<1> QED
  BY <1>4, <1>11, <1>12, <1>13

\* Under Split a paid place gets its part of what its tie group shares.
LEMMA SplitIs ==
  ASSUME NEW t, TourOK(t), t.status \in {"closed", "voided", "settled"}, RulesOK(t.rules),
         ~Voids(t), NEW i \in 1..Places(t),
         NEW s, s = [k \in 1..Places(t) |-> t.standings[k].score]
  PROVE  SplitAmount(t, i) = Divided(Places(t), s, Shares(t), i)
<1>1. PICK n \in Nat : n = Places(t)
  BY StandingsPlayers, PlacesAre DEF TourOK
<1>2. PICK tied : tied = Tied(t, i)
  OBVIOUS
<1>3. tied = Level(n, s, i)
  BY <1>1, PaidPlaces, <1>2 DEF Tied, Level
<1>4. PICK sh : sh = [k \in tied |-> Share(t, k)]
  OBVIOUS
<1>5. SumFunction(sh) = SumFunctionOnSet(Shares(t), tied)
  <2>1. tied \subseteq 1..n
    BY <1>3 DEF Level
  <2>2. IsFiniteSet(tied)
    <3>1. IsFiniteSet(1..n)
      BY FS_Interval
    <3> QED
      BY <2>1, <3>1, FS_Subset
  <2>3. \A k \in tied : sh[k] = Shares(t)[k]
    BY <1>1, <1>4, <2>1 DEF Shares
  <2>4. SumFunctionOnSet(sh, tied) = SumFunctionOnSet(Shares(t), tied)
    BY <2>2, <2>3, SumSame
  <2>5. DOMAIN sh = tied
    BY <1>4
  <2> QED
    BY <2>4, <2>5 DEF SumFunction
<1>6. SplitAmount(t, i) =
        LET total == SumFunction(sh)
            count == Cardinality(tied)
        IN total \div count + (IF i - Min(tied) < total % count THEN 1 ELSE 0)
  BY <1>2, <1>4 DEF SplitAmount
<1> QED
  BY <1>1, <1>3, <1>5, <1>6 DEF Divided

Amounts(t) == [i \in 1..Places(t) |-> Amount(t, i)]

LEMMA AmountsAddUp ==
  ASSUME NEW t, TourOK(t), t.status \in {"closed", "voided", "settled"}, RulesOK(t.rules),
         ~Voids(t)
  PROVE  /\ \A i \in 1..Places(t) : Amounts(t)[i] \in Nat
         /\ SumFunctionOnSet(Amounts(t), 1..Places(t)) = ComputePool(t).pool
         /\ t.rules.tieBreak = "split" =>
              \A i, j \in 1..Places(t) :
                i < j /\ t.standings[i].place = t.standings[j].place
                  => Amounts(t)[i] - Amounts(t)[j] \in {0, 1}
<1>1. PICK n \in Nat : n = Places(t)
  BY StandingsPlayers, PlacesAre DEF TourOK
<1>2. PICK sh : sh = Shares(t)
  OBVIOUS
<1>3. (\A i \in 1..n : sh[i] \in Nat) /\ SumFunctionOnSet(sh, 1..n) = ComputePool(t).pool
  BY <1>1, <1>2, StandingsPlayers, SharesAddUp DEF TourOK
<1>4. CASE t.rules.tieBreak # "split"
  <2>1. \A i \in 1..n : Amounts(t)[i] = sh[i]
    BY <1>1, <1>2, <1>4 DEF Amounts, Amount, Shares
  <2>2. IsFiniteSet(1..n)
    BY FS_Interval
  <2>3. SumFunctionOnSet(Amounts(t), 1..n) = SumFunctionOnSet(sh, 1..n)
    BY <2>1, <2>2, SumSame
  <2>4. \A i \in 1..n : Amounts(t)[i] \in Nat
    BY <1>3, <2>1
  <2> QED
    BY <1>1, <1>3, <1>4, <2>3, <2>4
<1>5. CASE t.rules.tieBreak = "split"
  <2>1. PICK s : s = [k \in 1..Places(t) |-> t.standings[k].score]
    OBVIOUS
  <2>2. Falling(n, s)
    BY <1>1, <2>1, PaidPlaces DEF Falling
  <2>3. PICK a : a = Amounts(t)
    OBVIOUS
  <2>4. \A i \in 1..n : a[i] = Divided(n, s, sh, i)
    BY <1>1, <1>2, <1>5, <2>1, <2>3, SplitIs DEF Amounts, Amount
  <2>5. \A i \in 1..n : a[i] \in Nat
    BY <1>3, <2>2, <2>4, DividedType
  <2>6. SumFunctionOnSet(a, 1..n) = SumFunctionOnSet(sh, 1..n)
    BY <1>3, <2>2, <2>4, SplitSum
  <2>7. ASSUME NEW i \in 1..n, NEW j \in 1..n, i < j,
               t.standings[i].place = t.standings[j].place
        PROVE  a[i] - a[j] \in {0, 1}
    <3>1. s[i] = s[j]
      BY <1>1, <1>5, <2>1, <2>7, PaidPlaces
    <3>2. Divided(n, s, sh, i) - Divided(n, s, sh, j) \in {0, 1}
      BY <1>3, <2>2, <2>7, <3>1, DividedEvenly
    <3> QED
      BY <2>4, <3>2
  <2> QED
    BY <1>1, <1>3, <2>3, <2>5, <2>6, <2>7
<1> QED
  BY <1>4, <1>5

\* The amounts of the payouts are the pool, and a tie is divided evenly.
Fit(t, payouts) ==
  /\ \A i \in DOMAIN payouts : payouts[i].amount \in Nat
  /\ SumFunction([i \in DOMAIN payouts |-> payouts[i].amount]) = ComputePool(t).pool
  /\ t.rules.tieBreak = "split" /\ ~Voids(t) =>
       \A i, j \in DOMAIN payouts :
         i < j /\ payouts[i].place = payouts[j].place
           => payouts[i].amount - payouts[j].amount \in {0, 1}

LEMMA SumOver ==
  ASSUME NEW f, NEW S, DOMAIN f = S
  PROVE  SumFunction(f) = SumFunctionOnSet(f, S)
BY DEF SumFunction

LEMMA RefundsFit ==
  ASSUME NEW t, FieldOK(t.entries), RulesOK(t.rules), Voids(t), NEW id, NEW ex
  PROVE  Fit(t, Refunds(t, id, ex))
<1>1. PICK r : r = Refunds(t, id, ex)
  OBVIOUS
<1>2. PICK n, fee : n = Len(t.entries) /\ fee = t.rules.entryFee
  OBVIOUS
<1>3. n \in Nat /\ DOMAIN t.entries = 1..n
  BY <1>2 DEF FieldOK
<1>4. fee \in Nat
  BY <1>2, SMT DEF RulesOK
<1>5. DOMAIN r = 1..n /\ \A i \in 1..n : r[i].amount = fee
  BY <1>1, <1>2, <1>3 DEF Refunds
<1>6. PICK f : f = [i \in DOMAIN r |-> r[i].amount]
  OBVIOUS
<1>7. DOMAIN f = 1..n /\ \A i \in 1..n : f[i] = fee
  BY <1>5, <1>6
<1>8. IsFiniteSet(1..n) /\ Cardinality(1..n) = n
  <2>1. n \in Int /\ 1 \in Int
    BY <1>3
  <2>2. IsFiniteSet(1..n) /\ Cardinality(1..n) = (IF 1 > n THEN 0 ELSE n - 1 + 1)
    BY <2>1, FS_Interval, Zenon
  <2> QED
    BY <1>3, <2>2
<1>9. SumFunctionOnSet(f, 1..n) = fee * n
  <2>1. fee \in Int /\ \A i \in 1..n : f[i] = fee
    BY <1>4, <1>7
  <2>2. SumFunctionOnSet(f, 1..n) = fee * Cardinality(1..n)
    BY <1>8, <2>1, SumConstant
  <2> QED
    BY <1>8, <2>2
<1>10. ComputePool(t).pool = fee * n
  <2>1. PICK m : m = fee * n
    OBVIOUS
  <2>2. m \in Nat
    BY <1>3, <1>4, <2>1
  <2>3. /\ ComputePool(t).fees = m /\ ComputePool(t).rake = 0
        /\ ComputePool(t).pool = ComputePool(t).fees - ComputePool(t).rake
    BY <1>2, <2>1, PoolFacts
  <2> QED
    BY <2>1, <2>2, <2>3
<1>11. SumFunction(f) = ComputePool(t).pool
  BY <1>7, <1>9, <1>10, SumOver
<1>12. \A i \in DOMAIN r : r[i].amount \in Nat
  BY <1>4, <1>5
<1> QED
  BY <1>1, <1>6, <1>11, <1>12 DEF Fit

LEMMA PrizesFit ==
  ASSUME NEW t, TourOK(t), t.status = "closed", RulesOK(t.rules), NEW id, NEW ex
  PROVE  Fit(t, PrizePayouts(t, id, ex))
<1>0. ~Voids(t)
  BY DEF TourOK, StageOK
<1>1. PICK r : r = PrizePayouts(t, id, ex)
  OBVIOUS
<1>2. PICK n, a : n = Places(t) /\ a = Amounts(t)
  OBVIOUS
<1>3. DOMAIN r = 1..n
  BY <1>1, <1>2 DEF PrizePayouts
<1>4. ASSUME NEW i \in 1..n
      PROVE  r[i].amount = a[i] /\ r[i].place = t.standings[i].place
  <2>1. PICK out : out = Withholds(t, t.standings[i].player, ex)
    OBVIOUS
  <2>2. r[i] = [player |-> t.standings[i].player, place |-> t.standings[i].place,
                amount |-> Amount(t, i), withheld |-> out, version |-> ex.version,
                key |-> IF out THEN WithheldKey(id, t.standings[i].player, t.standings[i].place)
                               ELSE PrizeKey(id, t.standings[i].player, t.standings[i].place)]
    BY <1>1, <1>2, <2>1 DEF PrizePayouts
  <2>3. a[i] = Amount(t, i)
    BY <1>2 DEF Amounts
  <2> QED
    BY <2>2, <2>3
<1>5. PICK f : f = [i \in DOMAIN r |-> r[i].amount]
  OBVIOUS
<1>6. f = a /\ DOMAIN f = 1..n
  BY <1>2, <1>3, <1>5, <1>4 DEF Amounts
<1>7. /\ \A i \in 1..n : a[i] \in Nat
      /\ SumFunctionOnSet(a, 1..n) = ComputePool(t).pool
      /\ t.rules.tieBreak = "split" =>
           \A i, j \in 1..n :
             i < j /\ t.standings[i].place = t.standings[j].place => a[i] - a[j] \in {0, 1}
  BY <1>0, <1>2, AmountsAddUp
<1>8. SumFunction(f) = ComputePool(t).pool
  BY <1>6, <1>7, SumOver
<1>9. \A i \in DOMAIN r : r[i].amount \in Nat
  BY <1>3, <1>4, <1>7
<1>10. ASSUME t.rules.tieBreak = "split", NEW i \in DOMAIN r, NEW j \in DOMAIN r,
              i < j, r[i].place = r[j].place
       PROVE  r[i].amount - r[j].amount \in {0, 1}
  BY <1>3, <1>4, <1>7, <1>10
<1> QED
  BY <1>1, <1>5, <1>8, <1>9, <1>10 DEF Fit

LEMMA PayoutsFit ==
  ASSUME NEW t, TourOK(t), Settles(t), RulesOK(t.rules), NEW id, NEW ex
  PROVE  Fit(t, ComputePayouts(t, id, ex))
<1>1. CASE t.status = "voided"
  BY <1>1, RefundsFit DEF TourOK, StageOK, ComputePayouts
<1>2. CASE t.status = "closed"
  BY <1>2, PrizesFit DEF TourOK, StageOK, ComputePayouts
<1> QED
  BY <1>1, <1>2 DEF Settles

-----------------------------------------------------------------------------
(* The accounts of a tournament. *)

Accounts(o) == {PoolAccount(o), RakeAccount(o)}

\* The book moves nothing on the accounts of o.
Idles(ps, o) == \A p \in ps : p.credit \notin Accounts(o) /\ p.debit \notin Accounts(o)

LEMMA SameAccounts ==
  ASSUME NEW bk, NEW ps, NEW o, Idles(ps, o), NEW account \in Accounts(o)
  PROVE  /\ Credits(bk \cup ps, account) = Credits(bk, account)
         /\ Debits(bk \cup ps, account) = Debits(bk, account)
BY DEF Idles, Credits, Debits

LEMMA AccountNames ==
  ASSUME NEW o
  PROVE  /\ PoolAccount(o) # RakeAccount(o)
         /\ \A x : PlayerAccount(x) \notin Accounts(o) /\ WithheldAccount(x) \notin Accounts(o)
         /\ \A x : x # o => PoolAccount(x) \notin Accounts(o) /\ RakeAccount(x) \notin Accounts(o)
         /\ PoolAccount(o) \in Accounts(o) /\ RakeAccount(o) \in Accounts(o)
BY DEF PoolAccount, RakeAccount, PlayerAccount, WithheldAccount, Accounts

\* The pool account holds one entry fee for each entry.
FeesOK(id, t, bk) ==
  /\ IsFiniteSet(Credits(bk, PoolAccount(id)))
  /\ Cardinality(Credits(bk, PoolAccount(id))) = Len(t.entries)
  /\ \A p \in Credits(bk, PoolAccount(id)) : p.amount = t.rules.entryFee

Fixed(t) ==
  /\ t.fees = ComputePool(t).fees
  /\ t.rake = ComputePool(t).rake
  /\ t.pool = ComputePool(t).pool

MoneyOK(id, t, bk) ==
  /\ t.status = "absent" => t.entries = <<>>
  /\ t.status # "absent" => RulesOK(t.rules)
  /\ t.status \in {"closed", "voided", "settled"} => Fixed(t)
  /\ FeesOK(id, t, bk)
  /\ Debits(bk, RakeAccount(id)) = {}
  /\ t.status # "settled" =>
       Debits(bk, PoolAccount(id)) = {} /\ Credits(bk, RakeAccount(id)) = {}
  /\ t.status = "settled" =>
       /\ Total(Debits(bk, PoolAccount(id))) = t.fees
       /\ Total(Credits(bk, RakeAccount(id))) = t.rake
       /\ Fit(t, t.payouts)

MoneyInv == \A id \in Ids : MoneyOK(id, tournaments[id], book)

LEMMA MoneyIdle ==
  ASSUME NEW id, NEW t, NEW bk, MoneyOK(id, t, bk), NEW ps, Idles(ps, id)
  PROVE  MoneyOK(id, t, bk \cup ps)
<1>1. \A account \in Accounts(id) :
        /\ Credits(bk \cup ps, account) = Credits(bk, account)
        /\ Debits(bk \cup ps, account) = Debits(bk, account)
  BY SameAccounts
<1>2. PoolAccount(id) \in Accounts(id) /\ RakeAccount(id) \in Accounts(id)
  BY AccountNames
<1>3. /\ Credits(bk \cup ps, PoolAccount(id)) = Credits(bk, PoolAccount(id))
      /\ Debits(bk \cup ps, PoolAccount(id)) = Debits(bk, PoolAccount(id))
      /\ Credits(bk \cup ps, RakeAccount(id)) = Credits(bk, RakeAccount(id))
      /\ Debits(bk \cup ps, RakeAccount(id)) = Debits(bk, RakeAccount(id))
  BY <1>1, <1>2
<1> QED
  BY <1>3 DEF MoneyOK, FeesOK

\* A step that posts ps for id and leaves the other tournaments alone.
LEMMA OneMoved ==
  ASSUME MoneyInv, NEW id \in Ids, NEW ps, book' = book \cup ps,
         \A o \in Ids \ {id} : tournaments'[o] = tournaments[o] /\ Idles(ps, o),
         MoneyOK(id, tournaments'[id], book')
  PROVE  MoneyInv'
<1> SUFFICES ASSUME NEW o \in Ids
             PROVE  MoneyOK(o, tournaments'[o], book')
  BY DEF MoneyInv
<1>1. CASE o = id
  BY <1>1
<1>2. CASE o # id
  <2>1. PICK bk : bk = book
    OBVIOUS
  <2>2. MoneyOK(o, tournaments[o], bk) /\ Idles(ps, o) /\ tournaments'[o] = tournaments[o]
    BY <1>2, <2>1 DEF MoneyInv
  <2>3. MoneyOK(o, tournaments[o], bk \cup ps)
    BY <2>2, MoneyIdle
  <2> QED
    BY <2>1, <2>2, <2>3
<1> QED
  BY <1>1, <1>2

-----------------------------------------------------------------------------
(* The steps that move money. *)

LEMMA SamePool ==
  ASSUME NEW t, NEW u, u.entries = t.entries, u.rules = t.rules
  PROVE  ComputePool(u) = ComputePool(t) /\ (\A r : Fit(u, r) = Fit(t, r))
<1>1. Voids(u) = Voids(t)
  BY SameRanking
<1>2. ComputePool(u) = ComputePool(t)
  BY <1>1 DEF ComputePool
<1> QED
  BY <1>1, <1>2 DEF Fit

LEMMA CreateMoney ==
  ASSUME TableInv, MoneyInv, NEW cmd \in Commands, Create(cmd), tournaments' # tournaments
  PROVE  MoneyInv'
<1>1. PICK id : id = cmd.op.id
  OBVIOUS
<1>2. /\ id \in Ids /\ tournaments[id].status = "absent" /\ ValidateRules(cmd.op.rules)
  BY <1>1, CreateOK
<1>3. PICK u : u = [Absent EXCEPT !.status = "open", !.seed = cmd.op.seed,
                                  !.rules = cmd.op.rules]
  OBVIOUS
<1>4. tournaments' = [tournaments EXCEPT ![id] = u] /\ book' = book
  BY <1>1, <1>3 DEF Create, Reject
<1>5. tournaments'[id] = u /\ \A o \in Ids \ {id} : tournaments'[o] = tournaments[o]
  BY <1>2, <1>4 DEF TableInv
<1>6. PICK t, bk : t = tournaments[id] /\ bk = book
  OBVIOUS
<1>7. MoneyOK(id, t, bk) /\ t.status = "absent"
  BY <1>2, <1>6 DEF MoneyInv
<1>8. u.status = "open" /\ u.entries = <<>> /\ u.rules = cmd.op.rules
  BY <1>3 DEF Absent
<1>9. RulesOK(u.rules)
  BY <1>2, <1>8, ValidRulesOK
<1>10. FeesOK(id, u, bk)
  <2>1. PICK c : c = Credits(bk, PoolAccount(id))
    OBVIOUS
  <2>2. IsFiniteSet(c) /\ Cardinality(c) = Len(t.entries) /\ t.entries = <<>>
    BY <1>7, <2>1 DEF MoneyOK, FeesOK
  <2>3. Len(<<>>) = 0
    OBVIOUS
  <2>4. Cardinality(c) = 0
    BY <2>2, <2>3
  <2>5. c = {}
    BY <2>2, <2>4, FS_EmptySet
  <2> QED
    BY <1>8, <2>1, <2>2, <2>5 DEF FeesOK
<1>11. MoneyOK(id, u, bk)
  BY <1>7, <1>8, <1>9, <1>10 DEF MoneyOK
<1>12. PICK none : none = {}
  OBVIOUS
<1>13. book' = book \cup none /\ \A o \in Ids : Idles(none, o)
  BY <1>4, <1>12 DEF Idles
<1> QED
  BY <1>2, <1>4, <1>5, <1>6, <1>11, <1>13, OneMoved

LEMMA FeeFields ==
  ASSUME NEW t, NEW id, NEW player
  PROVE  LET fee == FeePosting(t, id, player)
         IN /\ fee.credit = PoolAccount(id) /\ fee.debit = PlayerAccount(player.id)
            /\ fee.amount = t.rules.entryFee
BY DEF FeePosting

LEMMA JoinMoney ==
  ASSUME TableInv, BookInv, MoneyInv, NEW cmd \in Commands, Join(cmd),
         <<tournaments, book>>' # <<tournaments, book>>
  PROVE  MoneyInv'
<1>1. PICK id, player : id = cmd.op.tournament /\ player = cmd.op.player
  OBVIOUS
<1>2. PICK t, bk : t = tournaments[id] /\ bk = book
  OBVIOUS
<1>3. PICK fee : fee = FeePosting(t, id, player)
  OBVIOUS
<1>4. InProgress(id) /\ MayJoin(t, player) /\ Payable({fee})
  BY <1>1, <1>2, <1>3, JoinOK
<1>5. id \in Ids /\ At(id) = t /\ t.status = "open"
  BY <1>2, <1>4 DEF InProgress, At, MayJoin
<1>6. PICK entry : entry = [player |-> player, joinSeq |-> Len(t.entries) + 1,
                            scored |-> FALSE, score |-> 0, submitSeq |-> 0]
  OBVIOUS
<1>7. /\ book' = Post(book, {fee})
      /\ tournaments' = [tournaments EXCEPT ![id].entries = Append(@, entry)]
  BY <1>1, <1>3, <1>5, <1>6 DEF Join, Reject
<1>8. PICK u : u = [t EXCEPT !.entries = Append(t.entries, entry)]
  OBVIOUS
<1>9. tournaments'[id] = u /\ \A o \in Ids \ {id} : tournaments'[o] = tournaments[o]
  BY <1>2, <1>5, <1>7, <1>8 DEF TableInv
<1>10. TourOK(t) /\ MoneyOK(id, t, bk)
  BY <1>2, <1>5 DEF BookInv, MoneyInv
<1>11. u.status = "open" /\ u.rules = t.rules /\ u.entries = Append(t.entries, entry)
  BY <1>5, <1>8, <1>10 DEF TourOK, Shape
<1>12. Validate(fee) /\ ~Has(book, fee.key)
  BY <1>4 DEF Payable, CheckFresh
<1>13. book' = book \cup {fee}
  BY <1>7, <1>12 DEF Post
<1>14. fee \notin bk
  BY <1>2, <1>12 DEF Has
<1>15. /\ fee.credit = PoolAccount(id) /\ fee.debit = PlayerAccount(player.id)
       /\ fee.amount = t.rules.entryFee
  BY <1>3, FeeFields
<1>16. \A o \in Ids \ {id} : Idles({fee}, o)
  BY <1>15, AccountNames DEF Idles
<1>17. PICK bk2 : bk2 = bk \cup {fee}
  OBVIOUS
<1>18. /\ Credits(bk2, PoolAccount(id)) = Credits(bk, PoolAccount(id)) \cup {fee}
       /\ Debits(bk2, PoolAccount(id)) = Debits(bk, PoolAccount(id))
       /\ Credits(bk2, RakeAccount(id)) = Credits(bk, RakeAccount(id))
       /\ Debits(bk2, RakeAccount(id)) = Debits(bk, RakeAccount(id))
  BY AccountNames, <1>15, <1>17 DEF Credits, Debits
<1>19. FeesOK(id, u, bk2)
  <2>1. PICK c : c = Credits(bk, PoolAccount(id))
    OBVIOUS
  <2>2. /\ IsFiniteSet(c) /\ Cardinality(c) = Len(t.entries)
        /\ \A p \in c : p.amount = t.rules.entryFee
    BY <1>10, <2>1 DEF MoneyOK, FeesOK
  <2>3. fee \notin c
    BY <1>14, <2>1 DEF Credits
  <2>4. IsFiniteSet(c \cup {fee}) /\ Cardinality(c \cup {fee}) = Cardinality(c) + 1
    BY <2>2, <2>3, FS_AddElement
  <2>5. Len(u.entries) = Len(t.entries) + 1
    BY <1>10, <1>11 DEF TourOK, FieldOK
  <2>6. \A p \in c \cup {fee} : p.amount = u.rules.entryFee
    BY <1>11, <1>15, <2>2
  <2>7. Credits(bk2, PoolAccount(id)) = c \cup {fee}
    BY <1>18, <2>1
  <2>8. Cardinality(c \cup {fee}) = Len(u.entries)
    BY <2>2, <2>4, <2>5
  <2> QED
    BY <2>4, <2>6, <2>7, <2>8 DEF FeesOK
<1>20. MoneyOK(id, u, bk2)
  BY <1>5, <1>10, <1>11, <1>18, <1>19 DEF MoneyOK
<1>21. book' = bk2
  BY <1>2, <1>13, <1>17
<1>22. MoneyOK(id, tournaments'[id], book')
  BY <1>9, <1>20, <1>21
<1>23. PICK ps : ps = {fee}
  OBVIOUS
<1> QED
  BY <1>5, <1>9, <1>13, <1>16, <1>22, <1>23, OneMoved

LEMMA ScoreMoney ==
  ASSUME TableInv, BookInv, MoneyInv, NEW cmd \in Commands, Score(cmd),
         <<tournaments, book>>' # <<tournaments, book>>
  PROVE  MoneyInv'
<1>1. PICK id, player, score :
        id = cmd.op.tournament /\ player = cmd.op.player /\ score = cmd.op.score
  OBVIOUS
<1>2. PICK t, bk : t = tournaments[id] /\ bk = book
  OBVIOUS
<1>3. InProgress(id) /\ MayScore(t, player, score)
  BY <1>1, <1>2, ScoreOK
<1>4. id \in Ids /\ At(id) = t /\ t.status = "open"
  BY <1>2, <1>3 DEF InProgress, At, MayScore, Scorable
<1>5. PICK k : k = EntryOf(t, player)
  OBVIOUS
<1>6. PICK entry : entry = WithScore(t.entries[k], score, ScoredCount(t) + 1)
  OBVIOUS
<1>7. /\ book' = book
      /\ tournaments' = [tournaments EXCEPT ![id].entries[k] =
                           [@ EXCEPT !.scored = TRUE, !.score = score,
                                     !.submitSeq = ScoredCount(t) + 1]]
  BY <1>1, <1>4, <1>5 DEF Score, Reject
<1>8. PICK u : u = [t EXCEPT !.entries = [t.entries EXCEPT ![k] = entry]]
  OBVIOUS
<1>9. tournaments'[id] = u /\ \A o \in Ids \ {id} : tournaments'[o] = tournaments[o]
  BY <1>2, <1>4, <1>6, <1>7, <1>8 DEF TableInv, WithScore
<1>10. TourOK(t) /\ MoneyOK(id, t, bk)
  BY <1>2, <1>4 DEF BookInv, MoneyInv
<1>11. PICK g : g = [t.entries EXCEPT ![k] = entry]
  OBVIOUS
<1>12. u.status = "open" /\ u.rules = t.rules /\ u.entries = g
  BY <1>4, <1>8, <1>10, <1>11 DEF TourOK, Shape
<1>13. Len(g) = Len(t.entries)
  BY <1>10, <1>11 DEF TourOK, FieldOK
<1>14. FeesOK(id, u, bk)
  BY <1>10, <1>12, <1>13 DEF MoneyOK, FeesOK
<1>15. MoneyOK(id, u, bk)
  BY <1>4, <1>10, <1>12, <1>14 DEF MoneyOK
<1>16. PICK none : none = {}
  OBVIOUS
<1>17. book' = book \cup none /\ \A o \in Ids : Idles(none, o)
  BY <1>7, <1>16 DEF Idles
<1> QED
  BY <1>2, <1>4, <1>7, <1>9, <1>15, <1>17, OneMoved

LEMMA CloseMoney ==
  ASSUME TableInv, BookInv, MoneyInv, NEW cmd \in Commands, Close(cmd),
         <<tournaments, book>>' # <<tournaments, book>>
  PROVE  MoneyInv'
<1>1. PICK id : id = cmd.op.tournament
  OBVIOUS
<1>2. PICK t, bk : t = tournaments[id] /\ bk = book
  OBVIOUS
<1>3. InProgress(id) /\ t.status = "open"
  BY <1>1, <1>2, CloseOK
<1>4. id \in Ids /\ At(id) = t
  BY <1>2, <1>3 DEF InProgress, At
<1>5. PICK u : u = CloseRecord(t)
  OBVIOUS
<1>6. book' = book /\ tournaments' = [tournaments EXCEPT ![id] = u]
  BY <1>1, <1>4, <1>5 DEF Close, Reject
<1>7. tournaments'[id] = u /\ \A o \in Ids \ {id} : tournaments'[o] = tournaments[o]
  BY <1>4, <1>6 DEF TableInv
<1>8. TourOK(t) /\ MoneyOK(id, t, bk)
  BY <1>2, <1>4 DEF BookInv, MoneyInv
<1>9. /\ u.status \in {"closed", "voided"} /\ u.rules = t.rules /\ u.entries = t.entries
      /\ u.fees = ComputePool(t).fees /\ u.rake = ComputePool(t).rake
      /\ u.pool = ComputePool(t).pool
  <2>1. t = [status |-> t.status, seed |-> t.seed, rules |-> t.rules, entries |-> t.entries,
             fees |-> t.fees, rake |-> t.rake, pool |-> t.pool,
             standings |-> t.standings, payouts |-> t.payouts]
    BY <1>8 DEF TourOK, Shape
  <2>2. PICK status, money : status = (IF Voids(t) THEN "voided" ELSE "closed")
                               /\ money = ComputePool(t)
    OBVIOUS
  <2>3. u = [t EXCEPT !.standings = ComputeStandings(t), !.fees = money.fees,
                      !.rake = money.rake, !.pool = money.pool, !.status = status]
    BY <1>5, <2>2 DEF CloseRecord
  <2>4. /\ u.status = status /\ u.rules = t.rules /\ u.entries = t.entries
        /\ u.fees = money.fees /\ u.rake = money.rake /\ u.pool = money.pool
    BY <2>1, <2>3
  <2> QED
    BY <2>2, <2>4
<1>10. ComputePool(u) = ComputePool(t)
  BY <1>9, SamePool
<1>11. MoneyOK(id, u, bk)
  BY <1>3, <1>8, <1>9, <1>10 DEF MoneyOK, FeesOK, Fixed
<1>12. PICK none : none = {}
  OBVIOUS
<1>13. book' = book \cup none /\ \A o \in Ids : Idles(none, o)
  BY <1>6, <1>12 DEF Idles
<1> QED
  BY <1>2, <1>4, <1>6, <1>7, <1>11, <1>13, OneMoved

\* Postings that can be added up.
Sums(S) == IsFiniteSet(S) /\ \A p \in S : p.amount \in Int

LEMMA TotalIs ==
  ASSUME NEW S, NEW g, \A p \in S : g[p] = p.amount, IsFiniteSet(S)
  PROVE  Total(S) = SumFunctionOnSet(g, S)
<1>1. PICK f : f = [p \in S |-> p.amount]
  OBVIOUS
<1>2. DOMAIN f = S /\ \A p \in S : f[p] = g[p]
  BY <1>1
<1>3. SumFunction(f) = SumFunctionOnSet(f, S)
  BY <1>2, SumOver
<1>4. SumFunctionOnSet(f, S) = SumFunctionOnSet(g, S)
  BY <1>2, SumSame
<1> QED
  BY <1>1, <1>3, <1>4 DEF Total

LEMMA TotalJoin ==
  ASSUME NEW S, NEW R, Sums(S), Sums(R), S \cap R = {}
  PROVE  Total(S \cup R) = Total(S) + Total(R)
<1>1. PICK g : g = [p \in S \cup R |-> p.amount]
  OBVIOUS
<1>2. \A p \in S \cup R : g[p] = p.amount
  BY <1>1
<1>3. IsFiniteSet(S) /\ IsFiniteSet(R) /\ IsFiniteSet(S \cup R)
  BY FS_Union DEF Sums
<1>4. /\ Total(S) = SumFunctionOnSet(g, S)
      /\ Total(R) = SumFunctionOnSet(g, R)
      /\ Total(S \cup R) = SumFunctionOnSet(g, S \cup R)
  BY <1>2, <1>3, TotalIs
<1>5. Ints(g, S) /\ Ints(g, R)
  BY <1>2 DEF Ints, Sums
<1> QED
  BY <1>4, <1>5, SumDisjoint

LEMMA TotalOne ==
  ASSUME NEW p, p.amount \in Int
  PROVE  Total({p}) = p.amount /\ Sums({p})
<1>1. PICK g : g = [q \in {p} |-> q.amount]
  OBVIOUS
<1>2. g[p] = p.amount
  BY <1>1
<1>3. IsFiniteSet({p}) /\ IsFiniteSet({})
  BY FS_Singleton, FS_EmptySet
<1>4. Total({p}) = SumFunctionOnSet(g, {p})
  BY <1>2, <1>3, TotalIs
<1>5. SumFunctionOnSet(g, {} \cup {p}) = SumFunctionOnSet(g, {}) + g[p]
  BY <1>2, <1>3, SumAdd DEF Ints
<1>6. {} \cup {p} = {p}
  OBVIOUS
<1> QED
  BY <1>2, <1>3, <1>4, <1>5, <1>6, SumEmpty DEF Sums

LEMMA TotalNone == Total({}) = 0 /\ Sums({})
<1>1. PICK g : g = [q \in {} |-> 0]
  OBVIOUS
<1>2. IsFiniteSet({})
  BY FS_EmptySet
<1>3. Total({}) = SumFunctionOnSet(g, {})
  BY <1>2, TotalIs
<1> QED
  BY <1>2, <1>3, SumEmpty DEF Sums

\* The rake that is posted is the rake that was fixed.
LEMMA RakeTotal ==
  ASSUME NEW t, t.rake \in Nat, t.status # "closed" => t.rake = 0, NEW id, NEW ex
  PROVE  /\ Total(RakePostings(t, id, ex)) = t.rake /\ Sums(RakePostings(t, id, ex))
         /\ \A p \in RakePostings(t, id, ex) :
              p.debit = PoolAccount(id) /\ p.credit = RakeAccount(id) /\ p.kind = "rake"
<1>1. PICK q : q = [key |-> RakeKey(id), kind |-> "rake", debit |-> PoolAccount(id),
                    credit |-> RakeAccount(id), amount |-> t.rake, tournament |-> id,
                    player |-> "", place |-> 0, version |-> ex.version]
  OBVIOUS
<1>2. q.amount = t.rake /\ q.debit = PoolAccount(id) /\ q.credit = RakeAccount(id)
      /\ q.kind = "rake"
  BY <1>1
<1>3. CASE t.status = "closed" /\ t.rake > 0
  <2>1. RakePostings(t, id, ex) = {q}
    BY <1>1, <1>3 DEF RakePostings
  <2>2. q.amount \in Int
    BY <1>2
  <2>3. Total({q}) = q.amount /\ Sums({q})
    BY <2>2, TotalOne
  <2> QED
    BY <1>2, <2>1, <2>3
<1>4. CASE ~(t.status = "closed" /\ t.rake > 0)
  <2>1. RakePostings(t, id, ex) = {}
    BY <1>4 DEF RakePostings
  <2>2. t.rake = 0
    BY <1>4
  <2> QED
    BY <2>1, <2>2, TotalNone
<1> QED
  BY <1>3, <1>4

Payments(t, id, payouts) == {PayoutPosting(t, id, payouts[i]) : i \in Due(payouts)}

\* The payments add up to the payouts.
LEMMA PaymentsTotal ==
  ASSUME NEW t, NEW id, NEW ex, NEW payouts, PayoutsOK(t, ex, payouts), Fit(t, payouts)
  PROVE  /\ Total(Payments(t, id, payouts)) = ComputePool(t).pool
         /\ Sums(Payments(t, id, payouts))
<1>1. PICK D : D = Due(payouts)
  OBVIOUS
<1>2. PICK f : f = [i \in DOMAIN payouts |-> payouts[i].amount]
  OBVIOUS
<1>3. PICK h : h = [i \in D |-> PayoutPosting(t, id, payouts[i])]
  OBVIOUS
<1>4. PICK P : P = Payments(t, id, payouts)
  OBVIOUS
<1>5. P = {h[i] : i \in D}
  BY <1>1, <1>3, <1>4 DEF Payments
<1>6. PICK n \in Nat : DOMAIN payouts = 1..n
  BY DEF PayoutsOK
<1>7. IsFiniteSet(1..n)
  BY FS_Interval
<1>8. D \subseteq 1..n /\ IsFiniteSet(D)
  BY <1>1, <1>6, <1>7, FS_Subset DEF Due
<1>9. \A i \in 1..n : f[i] = payouts[i].amount /\ f[i] \in Nat
  BY <1>2, <1>6 DEF Fit
<1>10. \A i \in D : h[i].key = payouts[i].key /\ h[i].amount = payouts[i].amount
  BY <1>3, PostingFields
<1>11. \A i, j \in D : h[i] = h[j] => i = j
  BY <1>6, <1>8, <1>10 DEF PayoutsOK
<1>13. PICK g : g = [p \in P |-> p.amount]
  OBVIOUS
<1>14. \A p \in P : g[p] = p.amount
  BY <1>13
<1>16. SumFunctionOnSet(f, D) = SumFunctionOnSet(g, P) /\ IsFiniteSet(P)
  <2>1. \A i \in D : h[i] \in P
    BY <1>5
  <2>2. ASSUME NEW i \in D PROVE f[i] = g[h[i]] /\ f[i] \in Int
    BY <1>8, <2>1, <1>9, <1>10, <1>14
  <2>3. \A p \in P : \E i \in D : p = h[i]
    BY <1>5
  <2> QED
    <3>1. Renames(h, D, P)
      BY <1>11, <2>1, <2>3 DEF Renames
    <3>2. IsFiniteSet(D)
      BY <1>8
    <3> QED
      BY <2>2, <3>1, <3>2, SumRenamed
<1>12. \A p \in P : p.amount \in Int
  BY <1>8, <1>9, <1>10, <1>5
<1>15. Total(P) = SumFunctionOnSet(g, P)
  BY <1>14, <1>16, TotalIs
<1>17. PICK R : R = (1..n) \ D
  OBVIOUS
<1>18. D \cup R = 1..n /\ D \cap R = {} /\ R \subseteq 1..n
  BY <1>8, <1>17
<1>19. IsFiniteSet(R)
  BY <1>7, <1>18, FS_Subset
<1>20. Ints(f, D) /\ Ints(f, R)
  BY <1>8, <1>9, <1>18, <1>19 DEF Ints
<1>21. SumFunctionOnSet(f, 1..n) = SumFunctionOnSet(f, D) + SumFunctionOnSet(f, R)
  BY <1>18, <1>20, SumDisjoint
<1>22. SumFunctionOnSet(f, R) = 0
  <2>1. ASSUME NEW i \in R PROVE f[i] = 0
    BY <1>17, <1>1, <1>6, <1>9 DEF Due
  <2>2. SumFunctionOnSet(f, R) = 0 * Cardinality(R) /\ Cardinality(R) \in Nat
    BY <1>19, <2>1, SumConstant, FS_CardinalityType
  <2> QED
    BY <2>2
<1>23. SumFunctionOnSet(f, D) \in Int
  BY <1>20, SumType
<1>24. SumFunctionOnSet(f, 1..n) = SumFunctionOnSet(f, D)
  BY <1>21, <1>22, <1>23
<1>25. SumFunction(f) = ComputePool(t).pool
  BY <1>2 DEF Fit
<1>26. SumFunction(f) = SumFunctionOnSet(f, 1..n)
  BY <1>2, <1>6, SumOver
<1>27. Total(P) = ComputePool(t).pool
  BY <1>15, <1>16, <1>24, <1>25, <1>26
<1> QED
  BY <1>4, <1>12, <1>16, <1>27 DEF Sums

LEMMA PaymentAccounts ==
  ASSUME NEW t, NEW id, NEW payouts, NEW p \in Payments(t, id, payouts)
  PROVE  /\ p.debit = PoolAccount(id) /\ p.kind # "rake"
         /\ p.credit = WithheldAccount(id) \/ \E x : p.credit = PlayerAccount(x)
<1>1. PICK i \in Due(payouts) : p = PayoutPosting(t, id, payouts[i])
  BY DEF Payments
<1>2. p.debit = PoolAccount(id)
  <2>1. PICK kind, credit :
          p = [key |-> payouts[i].key, kind |-> kind, debit |-> PoolAccount(id),
               credit |-> credit, amount |-> payouts[i].amount, tournament |-> id,
               player |-> payouts[i].player, place |-> payouts[i].place,
               version |-> payouts[i].version]
    BY <1>1, Zenon DEF PayoutPosting
  <2> QED
    BY <2>1
<1>3. /\ p.kind \in PaymentKinds
      /\ (p.kind = "withheld" => p.credit = WithheldAccount(id))
      /\ (p.kind # "withheld" => p.credit = PlayerAccount(payouts[i].player))
  BY <1>1, PostingFields
<1> QED
  BY <1>2, <1>3 DEF PaymentKinds

LEMMA SettleMoney ==
  ASSUME TableInv, BookInv, MoneyInv, NEW cmd \in Commands, Settle(cmd), Accepted(cmd)
  PROVE  MoneyInv'
<1>1. PICK id, ex : id = cmd.op.tournament /\ ex = cmd.op.exclusions
  OBVIOUS
<1>2. PICK t, bk : t = tournaments[id] /\ bk = book
  OBVIOUS
<1>3. PICK payouts : payouts = ComputePayouts(t, id, ex)
  OBVIOUS
<1>4. PICK postings : postings = SettlePostings(t, id, ex, payouts)
  OBVIOUS
<1>5. InProgress(id) /\ Settles(t) /\ Payable(postings)
  BY <1>1, <1>2, <1>3, <1>4, SettleOK
<1>6. id \in Ids /\ At(id) = t
  BY <1>2, <1>5 DEF InProgress, At
<1>7. PICK u : u = SettledRecord(t, payouts)
  OBVIOUS
<1>8. book' = Post(book, postings) /\ tournaments' = [tournaments EXCEPT ![id] = u]
  BY <1>1, <1>3, <1>4, <1>6, <1>7 DEF Settle, Accepted, SettledRecord
<1>9. tournaments'[id] = u /\ \A o \in Ids \ {id} : tournaments'[o] = tournaments[o]
  BY <1>6, <1>8 DEF TableInv
<1>10. TourOK(t) /\ MoneyOK(id, t, bk)
  BY <1>2, <1>6 DEF BookInv, MoneyInv
<1>11. book' = book \cup postings
  BY <1>5, <1>8 DEF Payable, CheckFresh, Post
<1>12. /\ u.status = "settled" /\ u.payouts = payouts /\ u.rules = t.rules
       /\ u.entries = t.entries /\ u.fees = t.fees /\ u.rake = t.rake /\ u.pool = t.pool
  BY <1>10, <1>7 DEF TourOK, Shape, SettledRecord
<1>13. RulesOK(t.rules) /\ Fixed(t) /\ FieldOK(t.entries)
  BY <1>5, <1>10 DEF MoneyOK, TourOK, Settles
<1>14. PayoutsOK(t, ex, payouts) /\ Fit(t, payouts)
  BY <1>3, <1>5, <1>10, <1>13, PayoutsAreOK, PayoutsFit
<1>15. PICK rakes, payments :
         rakes = RakePostings(t, id, ex) /\ payments = Payments(t, id, payouts)
  OBVIOUS
<1>16. postings = rakes \cup payments
  BY <1>4, <1>15 DEF SettlePostings, Payments, Due
<1>17. /\ t.rake \in Nat /\ (t.status # "closed" => t.rake = 0)
       /\ ComputePool(t).pool = t.fees - t.rake /\ t.fees \in Nat
  BY <1>10, <1>5, <1>13, PoolFacts DEF TourOK, StageOK, Fixed, Settles
<1>18. /\ Total(rakes) = t.rake /\ Sums(rakes)
       /\ \A p \in rakes :
            p.debit = PoolAccount(id) /\ p.credit = RakeAccount(id) /\ p.kind = "rake"
  BY <1>15, <1>17, RakeTotal
<1>19. Total(payments) = ComputePool(t).pool /\ Sums(payments)
  BY <1>14, <1>15, PaymentsTotal
<1>20. \A p \in payments :
         /\ p.debit = PoolAccount(id) /\ p.kind # "rake"
         /\ p.credit = WithheldAccount(id) \/ \E x : p.credit = PlayerAccount(x)
  BY <1>15, PaymentAccounts
<1>21. rakes \cap payments = {}
  BY <1>18, <1>20
<1>22. Total(postings) = t.fees
  <2>1. Total(postings) = Total(rakes) + Total(payments)
    BY <1>16, <1>18, <1>19, <1>21, TotalJoin
  <2> QED
    BY <1>17, <1>18, <1>19, <2>1
<1>23. \A o \in Ids \ {id} : Idles(postings, o)
  <2> SUFFICES ASSUME NEW o \in Ids \ {id}, NEW p \in postings
               PROVE  p.credit \notin Accounts(o) /\ p.debit \notin Accounts(o)
    BY DEF Idles
  <2>1. \/ p.credit = RakeAccount(id) \/ p.credit = WithheldAccount(id)
        \/ \E x : p.credit = PlayerAccount(x)
    BY <1>16, <1>18, <1>20
  <2>2. p.debit = PoolAccount(id)
    BY <1>16, <1>18, <1>20
  <2> QED
    BY <2>1, <2>2, AccountNames
<1>24. PICK bk2 : bk2 = bk \cup postings
  OBVIOUS
<1>25. /\ Debits(bk, PoolAccount(id)) = {} /\ Credits(bk, RakeAccount(id)) = {}
       /\ Debits(bk, RakeAccount(id)) = {}
  BY <1>5, <1>10 DEF MoneyOK, Settles
<1>26. /\ PoolAccount(id) # RakeAccount(id)
       /\ \A x : /\ PlayerAccount(x) # PoolAccount(id) /\ PlayerAccount(x) # RakeAccount(id)
                 /\ WithheldAccount(x) # PoolAccount(id)
                 /\ WithheldAccount(x) # RakeAccount(id)
  BY AccountNames
<1>27. Debits(bk2, PoolAccount(id)) = postings /\ Debits(bk2, RakeAccount(id)) = {}
  BY <1>16, <1>18, <1>20, <1>24, <1>25, <1>26 DEF Debits
<1>28. /\ Credits(bk2, PoolAccount(id)) = Credits(bk, PoolAccount(id))
       /\ Credits(bk2, RakeAccount(id)) = rakes
  <2>1. \A p \in postings : p.credit # PoolAccount(id)
    BY <1>16, <1>18, <1>20, <1>26
  <2>2. \A p \in rakes : p.credit = RakeAccount(id)
    BY <1>18
  <2>3. \A p \in payments : p.credit # RakeAccount(id)
    BY <1>20, <1>26
  <2>4. Credits(bk2, PoolAccount(id)) = Credits(bk, PoolAccount(id))
    BY <1>24, <2>1 DEF Credits
  <2>5. Credits(bk2, RakeAccount(id)) = rakes
    BY <1>16, <1>24, <1>25, <2>2, <2>3 DEF Credits
  <2> QED
    BY <2>4, <2>5
<1>29. FeesOK(id, u, bk2)
  BY <1>10, <1>12, <1>28 DEF MoneyOK, FeesOK
<1>30. Fixed(u) /\ Fit(u, u.payouts)
  BY <1>12, <1>13, <1>14, SamePool DEF Fixed
<1>31. MoneyOK(id, u, bk2)
  BY <1>12, <1>13, <1>18, <1>22, <1>27, <1>28, <1>29, <1>30 DEF MoneyOK
<1>32. book' = bk2
  BY <1>2, <1>11, <1>24
<1>33. MoneyOK(id, tournaments'[id], book')
  BY <1>9, <1>31, <1>32
<1> QED
  BY <1>6, <1>9, <1>11, <1>23, <1>33, OneMoved

LEMMA MoneyStep == TableInv /\ BookInv /\ MoneyInv /\ [Next]_vars => MoneyInv'
<1> SUFFICES ASSUME TableInv, BookInv, MoneyInv, [Next]_vars
             PROVE  MoneyInv'
  OBVIOUS
<1>1. CASE UNCHANGED <<tournaments, book>>
  BY <1>1 DEF MoneyInv
<1>2. ASSUME <<tournaments, book>>' # <<tournaments, book>>,
             NEW cmd \in Commands, Apply(cmd)
      PROVE  MoneyInv'
  <2>1. CASE Refuse(cmd) \/ Reused(cmd) \/ Replay(cmd)
    BY <1>2, <2>1 DEF Refuse, Reused, Replay
  <2>2. CASE Create(cmd)
    BY <1>2, <2>2, CreateMoney DEF Create, Reject
  <2>3. CASE Join(cmd) \/ Score(cmd) \/ Close(cmd) \/ Settle(cmd)
    BY <1>2, <2>3, JoinMoney, ScoreMoney, CloseMoney, SettleMoney DEF Accepted, Reject
  <2> QED
    BY <1>2, <2>1, <2>2, <2>3 DEF Apply
<1> QED
  BY <1>1, <1>2 DEF Next, vars

LEMMA MoneyInit == Init => MoneyInv
<1> SUFFICES ASSUME Init, NEW id \in Ids
             PROVE  MoneyOK(id, tournaments[id], book)
  BY DEF MoneyInv
<1>1. tournaments[id] = Absent /\ book = {}
  BY DEF Init
<1>2. Absent.status = "absent" /\ Absent.entries = <<>>
  BY DEF Absent
<1>3. \A account : Credits({}, account) = {} /\ Debits({}, account) = {}
  BY DEF Credits, Debits
<1>4. IsFiniteSet({}) /\ Cardinality({}) = Len(<<>>)
  BY FS_EmptySet
<1>5. FeesOK(id, Absent, {})
  BY <1>2, <1>3, <1>4 DEF FeesOK
<1>6. MoneyOK(id, Absent, {})
  BY <1>2, <1>3, <1>5 DEF MoneyOK
<1> QED
  BY <1>1, <1>6

LEMMA MoneyBacks ==
  ASSUME NEW id, NEW t, TourOK(t), NEW bk, MoneyOK(id, t, bk), t.status # "absent"
  PROVE  LET fees == t.rules.entryFee * Len(t.entries)
             settled == t.status = "settled"
         IN /\ Balance(bk, PoolAccount(id)) = (IF settled THEN 0 ELSE fees)
            /\ Balance(bk, RakeAccount(id)) = (IF settled THEN t.rake ELSE 0)
            /\ t.status # "open" => t.fees = fees /\ t.pool = fees - t.rake
<1>1. PICK c, d : c = Credits(bk, PoolAccount(id)) /\ d = Debits(bk, PoolAccount(id))
  OBVIOUS
<1>2. PICK fee, n : fee = t.rules.entryFee /\ n = Len(t.entries)
  OBVIOUS
<1>3. fee \in Nat /\ n \in Nat
  <2>1. fee \in Nat
    BY <1>2, SMT DEF MoneyOK, RulesOK
  <2>2. n \in Nat
    BY <1>2 DEF TourOK, FieldOK
  <2> QED
    BY <2>1, <2>2
<1>4. PICK fees : fees = fee * n
  OBVIOUS
<1>5. fees \in Nat
  BY <1>3, <1>4
<1>6. Total(c) = fees
  <2>1. IsFiniteSet(c) /\ Cardinality(c) = n /\ \A p \in c : p.amount = fee
    BY <1>1, <1>2 DEF MoneyOK, FeesOK
  <2>2. PICK g : g = [p \in c |-> p.amount]
    OBVIOUS
  <2>3. (\A p \in c : g[p] = p.amount) /\ (\A p \in c : g[p] = fee)
    BY <2>1, <2>2
  <2>4. Total(c) = SumFunctionOnSet(g, c)
    BY <2>1, <2>3, TotalIs
  <2>5. fee \in Int
    BY <1>3
  <2>6. SumFunctionOnSet(g, c) = fee * Cardinality(c)
    BY <2>1, <2>3, <2>5, SumConstant
  <2> QED
    BY <1>4, <2>1, <2>4, <2>6
<1>7. t.status # "open" => /\ t.fees = fees /\ t.pool = fees - t.rake /\ t.rake \in Nat
  <2>1. t.status # "open" => Fixed(t)
    BY DEF MoneyOK, TourOK, StageOK
  <2>2. /\ ComputePool(t).fees = fees /\ ComputePool(t).rake \in Nat
        /\ ComputePool(t).pool = ComputePool(t).fees - ComputePool(t).rake
    BY <1>2, <1>4, PoolFacts DEF MoneyOK, TourOK
  <2> QED
    BY <2>1, <2>2 DEF Fixed
<1>8. Balance(bk, PoolAccount(id)) = Total(c) - Total(d)
  BY <1>1 DEF Balance
<1>9. /\ Balance(bk, RakeAccount(id)) = Total(Credits(bk, RakeAccount(id))) - Total({})
      /\ Total({}) = 0
  BY TotalNone DEF Balance, MoneyOK
<1>10. CASE t.status = "settled"
  <2>1. Total(d) = t.fees /\ Total(Credits(bk, RakeAccount(id))) = t.rake
    BY <1>1, <1>10 DEF MoneyOK
  <2> QED
    BY <1>2, <1>4, <1>5, <1>6, <1>7, <1>8, <1>9, <1>10, <2>1
<1>11. CASE t.status # "settled"
  <2>1. d = {} /\ Credits(bk, RakeAccount(id)) = {}
    BY <1>1, <1>11 DEF MoneyOK
  <2> QED
    BY <1>2, <1>4, <1>5, <1>6, <1>7, <1>8, <1>9, <1>11, <2>1
<1> QED
  BY <1>10, <1>11

LEMMA MoneyInvariant == Spec => []MoneyInv
<1>1. Spec => [](TableInv /\ BookInv)
  BY TableInit, TableStep, BookInit, BookStep, PTL DEF Spec
<1> QED
  BY <1>1, MoneyInit, MoneyStep, PTL DEF Spec

\* No money appears or disappears: the pool account holds the fees of all entries
\* until Settle and nothing after it, and the rake account then holds the rake
\* that close fixed (admit, close, settle and Book.Post).
THEOREM PoolsAreBacked == Spec => []PoolIsBacked
<1>1. BookInv /\ MoneyInv => PoolIsBacked
  <2> SUFFICES ASSUME BookInv, MoneyInv, NEW id \in Ids, Created(id)
               PROVE  LET t == tournaments[id]
                          fees == t.rules.entryFee * Len(t.entries)
                          settled == t.status = "settled"
                      IN /\ Balance(book, PoolAccount(id)) = (IF settled THEN 0 ELSE fees)
                         /\ Balance(book, RakeAccount(id)) = (IF settled THEN t.rake ELSE 0)
                         /\ t.status # "open" => t.fees = fees /\ t.pool = fees - t.rake
    BY DEF PoolIsBacked
  <2>1. PICK t, bk : t = tournaments[id] /\ bk = book
    OBVIOUS
  <2>2. TourOK(t) /\ MoneyOK(id, t, bk) /\ t.status # "absent"
    BY <2>1 DEF BookInv, MoneyInv, Created
  <2> QED
    BY <2>1, <2>2, MoneyBacks
<1>2. Spec => []BookInv
  BY TableInit, TableStep, BookInit, BookStep, PTL DEF Spec
<1> QED
  BY <1>1, <1>2, MoneyInvariant, PTL

\* The payouts of a settlement add up to the pool to the last unit, and under
\* Split equal scores get equal parts but for one unit, which the earlier
\* submission has (ComputePayouts).
THEOREM PayoutsAddUp == Spec => []TiesShareEvenly
<1>1. MoneyInv => TiesShareEvenly
  <2> SUFFICES ASSUME MoneyInv, NEW id \in Ids, tournaments[id].status = "settled"
               PROVE  LET t == tournaments[id]
                      IN /\ SumFunction([i \in DOMAIN t.payouts |-> t.payouts[i].amount]) = t.pool
                         /\ t.rules.tieBreak = "split" /\ ~Voids(t) =>
                              \A i, j \in DOMAIN t.payouts :
                                i < j /\ t.payouts[i].place = t.payouts[j].place
                                => t.payouts[i].amount - t.payouts[j].amount \in {0, 1}
    BY DEF TiesShareEvenly
  <2>1. PICK t : t = tournaments[id]
    OBVIOUS
  <2>2. Fit(t, t.payouts) /\ t.pool = ComputePool(t).pool
    BY <2>1 DEF MoneyInv, MoneyOK, Fixed
  <2> QED
    BY <2>1, <2>2 DEF Fit
<1> QED
  BY <1>1, MoneyInvariant, PTL

-----------------------------------------------------------------------------
(* Tournaments with a game: what a command of the log does to the tables.    *)

\* The operation is recorded, under a key that had no row.
Recorded(cmd, code) ==
  /\ cmd.key \in Keys
  /\ results[cmd.key] = NoRow
  /\ \E more : Record(cmd, code, more)

\* The operations of the operator.
PlainNames == {"create", "join", "score", "close", "settle"}

\* A sequenced command as far as its number goes: it is consumed if the code is
\* none of those that leave it.
Sequences(cmd, code) ==
  /\ cmd.op.name \in Sequenced
  /\ Recorded(cmd, code)
  /\ players' = Consume(cmd.op, code)
  /\ bindings' = bindings
  /\ SeqCode(cmd.op) # OK => code = SeqCode(cmd.op)
  /\ SeqCode(cmd.op) = OK => code \notin NotConsumed

\* The first rule decides if it is broken.
LEMMA VerdictFirst ==
  ASSUME NEW rules, DOMAIN rules \subseteq 1..7, 1 \in DOMAIN rules, rules[1][1]
  PROVE  Verdict(rules) = rules[1][2]
<1> DEFINE broken == {i \in DOMAIN rules : rules[i][1]}
<1>1. 1 \in broken
  OBVIOUS
<1>2. Min(broken) = 1
  <2>1. broken \in SUBSET (1..7) /\ broken # {}
    BY <1>1
  <2> HIDE DEF broken
  <2>2. Min(broken) \in 1..7 /\ Min(broken) =< 1
    BY <1>1, <2>1, MinOfPositions
  <2> QED
    BY <2>2
<1> QED
  BY <1>1, <1>2 DEF Verdict

\* A verdict is OK or the code of a rule that is broken.
LEMMA VerdictOneOf ==
  ASSUME NEW rules, DOMAIN rules \subseteq 1..7
  PROVE  Verdict(rules) = OK \/ \E i \in DOMAIN rules : rules[i][1] /\ Verdict(rules) = rules[i][2]
<1> DEFINE broken == {i \in DOMAIN rules : rules[i][1]}
<1>1. CASE broken = {}
  BY <1>1 DEF Verdict
<1>2. CASE broken # {}
  <2>1. Min(broken) \in broken
    BY <1>2, MinOfPositions
  <2> QED
    BY <2>1, <1>2 DEF Verdict
<1> QED
  BY <1>1, <1>2

\* sequenced: what the check of the number decides.
LEMMA SeqCodeIs ==
  ASSUME NEW op
  PROVE  /\ SeqCode(op) \in {OK} \cup NotConsumed
         /\ SeqCode(op) = OK => /\ players[op.player].bound
                                /\ ~(op.seq <= players[op.player].lastSeq)
                                /\ ~(op.seq > players[op.player].lastSeq + 1)
<1> DEFINE rules == << <<~players[op.player].bound, "unknown_player">>,
             <<op.seq <= players[op.player].lastSeq, "stale_seq">>,
             <<op.seq > players[op.player].lastSeq + 1, "seq_gap">> >>
<1>1. DOMAIN rules = 1..3 /\ 1..3 \subseteq 1..7
  OBVIOUS
<1>2. \A i \in 1..3 : rules[i][2] \in NotConsumed /\ rules[i][2] # OK
  BY DEF OK, NotConsumed
<1>3. SeqCode(op) = Verdict(rules)
  BY DEF SeqCode
<1>4. ASSUME SeqCode(op) = OK PROVE ~rules[1][1] /\ ~rules[2][1] /\ ~rules[3][1]
  <2> HIDE DEF rules
  <2>1. \A i \in DOMAIN rules : ~rules[i][1]
    BY <1>1, <1>2, <1>3, <1>4, VerdictOK
  <2> QED
    BY <1>1, <2>1
<1>5. SeqCode(op) \in {OK} \cup NotConsumed
  <2> HIDE DEF rules
  <2> QED BY <1>1, <1>2, <1>3, VerdictOneOf
<1> QED
  BY <1>4, <1>5

LEMMA SequencedCodeIs ==
  ASSUME NEW op
  PROVE  /\ SeqCode(op) # OK => SequencedCode(op) = SeqCode(op)
         /\ SeqCode(op) = OK => SequencedCode(op) \notin NotConsumed
<1> DEFINE rules == << <<SeqCode(op) # OK, SeqCode(op)>>,
             <<Unknown(op.tournament), "unknown_tournament">>,
             <<At(op.tournament).rules.game = "", "not_play_tournament">> >>
<1>1. DOMAIN rules = 1..3 /\ 1..3 \subseteq 1..7
  OBVIOUS
<1>2. rules[2][2] \notin NotConsumed /\ rules[3][2] \notin NotConsumed /\ OK \notin NotConsumed
  BY DEF OK, NotConsumed
<1>3. SequencedCode(op) = Verdict(rules)
  BY DEF SequencedCode
<1>4. rules[1][1] <=> SeqCode(op) # OK
  OBVIOUS
<1>5. rules[1][2] = SeqCode(op)
  OBVIOUS
<1> HIDE DEF rules
<1> QED
  BY <1>1, <1>2, <1>3, <1>4, <1>5, VerdictFirst, VerdictOneOf

\* A list of rules that begins with those of sequenced.
LEMMA AfterSequenced ==
  ASSUME NEW op, NEW rules, DOMAIN rules \subseteq 1..7, 1 \in DOMAIN rules,
         rules[1][1] <=> SequencedCode(op) # OK, rules[1][2] = SequencedCode(op),
         \A i \in DOMAIN rules \ {1} : rules[i][2] \notin NotConsumed
  PROVE  /\ SeqCode(op) # OK => Verdict(rules) = SeqCode(op)
         /\ SeqCode(op) = OK => Verdict(rules) \notin NotConsumed
<1>1. rules[1][1] <=> SequencedCode(op) # OK
  OBVIOUS
<1>2. rules[1][2] = SequencedCode(op)
  OBVIOUS
<1>3. OK \notin NotConsumed
  BY DEF OK, NotConsumed
<1>4. ASSUME SeqCode(op) # OK PROVE Verdict(rules) = SeqCode(op)
  BY <1>1, <1>2, <1>4, SequencedCodeIs, VerdictFirst
<1>5. ASSUME SeqCode(op) = OK PROVE Verdict(rules) \notin NotConsumed
  <2>1. SequencedCode(op) \notin NotConsumed
    BY <1>5, SequencedCodeIs
  <2>2. PICK v : v = Verdict(rules)
    OBVIOUS
  <2>3. v = OK \/ \E i \in DOMAIN rules : v = rules[i][2]
    BY <2>2, VerdictOneOf
  <2> QED
    BY <1>2, <1>3, <2>1, <2>2, <2>3
<1> QED
  BY <1>4, <1>5

\* The codes of the rules of an intent leave the number consumed.
LEMMA IntentCodes ==
  ASSUME NEW op, NEW player
  PROVE  /\ AdmitCode(At(op.tournament), op.tournament, player) \notin NotConsumed
         /\ DealCode(op) \notin NotConsumed
         /\ RoundCode(op) \notin NotConsumed
<1> USE DEF NotConsumed, OK
<1>1. AdmitCode(At(op.tournament), op.tournament, player) \notin NotConsumed
  <2> DEFINE t == At(op.tournament)
             rules == << <<t.status # "open", "not_open">>,
             <<Len(t.entries) >= t.rules.maxEntrants, "tournament_full">>,
             <<Joined(t, player.id), "already_joined">>,
             <<player.jurisdiction \in t.rules.exclusions.jurisdictions,
               "jurisdiction_excluded">>,
             <<player.age < t.rules.minAge, "underage">>,
             <<~CheckFresh({FeePosting(t, op.tournament, player)}), "ledger_conflict">>,
             <<~Validate(FeePosting(t, op.tournament, player)), "invalid_rules">> >>
  <2>1. DOMAIN rules = 1..7 /\ \A i \in 1..7 : rules[i][2] \notin NotConsumed
    OBVIOUS
  <2>2. AdmitCode(At(op.tournament), op.tournament, player) = Verdict(rules)
    BY DEF AdmitCode
  <2> HIDE DEF rules
  <2> QED
    BY <2>1, <2>2, VerdictOneOf
<1>2. DealCode(op) \notin NotConsumed
  <2> DEFINE t == At(op.tournament)
             rules == << <<t.status # "open", "not_open">>,
                <<~Joined(t, op.player), "not_joined">>,
                <<op.round \notin 1..Rounds, "invalid_round">>,
                <<op.round \in 1..Rounds /\ op.tournament \in Ids
                    /\ rounds[<<op.tournament, op.player, op.round>>] # NoRound,
                  "round_already_started">>,
                <<op.round \in 2..Rounds /\ op.tournament \in Ids
                    /\ rounds[<<op.tournament, op.player, op.round - 1>>].status # "finished",
                  "previous_round_unfinished">> >>
  <2>1. DOMAIN rules = 1..5 /\ 1..5 \subseteq 1..7 /\ \A i \in 1..5 : rules[i][2] \notin NotConsumed
    OBVIOUS
  <2>2. DealCode(op) = Verdict(rules)
    BY DEF DealCode
  <2> HIDE DEF rules
  <2> QED
    BY <2>1, <2>2, VerdictOneOf
<1>3. RoundCode(op) \notin NotConsumed
  <2> DEFINE rules == << <<~Joined(At(op.tournament), op.player), "not_joined">>,
             <<op.round \notin 1..Rounds, "invalid_round">>,
             <<op.round \in 1..Rounds /\ op.tournament \in Ids
                 /\ rounds[<<op.tournament, op.player, op.round>>] = NoRound,
               "round_not_started">> >>
  <2>1. DOMAIN rules = 1..3 /\ 1..3 \subseteq 1..7 /\ \A i \in 1..3 : rules[i][2] \notin NotConsumed
    OBVIOUS
  <2>2. RoundCode(op) = Verdict(rules)
    BY DEF RoundCode
  <2> HIDE DEF rules
  <2> QED
    BY <2>1, <2>2, VerdictOneOf
<1> QED
  BY <1>1, <1>2, <1>3

LEMMA EnterSequences ==
  ASSUME NEW cmd, Enter(cmd)
  PROVE  \E code : Sequences(cmd, code)
<1> DEFINE op == cmd.op
           p == players[op.player]
           player == [id |-> op.player, jurisdiction |-> p.jurisdiction, age |-> p.age]
           admit == AdmitCode(At(op.tournament), op.tournament, player)
           rules == << <<SequencedCode(op) # OK, SequencedCode(op)>>, <<TRUE, admit>> >>
           code == Verdict(rules)
<1>1. /\ SeqCode(op) # OK => code = SeqCode(op)
      /\ SeqCode(op) = OK => code \notin NotConsumed
  <2>1. DOMAIN rules = 1..2 /\ 1..2 \subseteq 1..7
    OBVIOUS
  <2>2. rules[1][1] <=> SequencedCode(op) # OK
    OBVIOUS
  <2>3. rules[1][2] = SequencedCode(op) /\ rules[2][2] = admit
    OBVIOUS
  <2>4. admit \notin NotConsumed
    BY IntentCodes
  <2> HIDE DEF rules, admit
  <2>5. \A i \in DOMAIN rules \ {1} : rules[i][2] \notin NotConsumed
    BY <2>1, <2>3, <2>4
  <2> QED
    BY <2>1, <2>2, <2>3, <2>5, AfterSequenced
<1>2. /\ op.name = "enter" /\ cmd.key \in Keys /\ results[cmd.key] = NoRow
      /\ bindings' = bindings /\ players' = Consume(op, code)
      /\ \E more : Record(cmd, code, more)
  BY DEF Enter, RejectPlay, Executes, ValidateKey
<1> HIDE DEF code
<1> QED
  BY <1>1, <1>2 DEF Sequences, Recorded, Sequenced

LEMMA StartSequences ==
  ASSUME NEW cmd, StartRound(cmd)
  PROVE  \E code : Sequences(cmd, code)
<1> DEFINE op == cmd.op
           rules == << <<SequencedCode(op) # OK, SequencedCode(op)>>, <<TRUE, DealCode(op)>> >>
           code == Verdict(rules)
<1>1. /\ SeqCode(op) # OK => code = SeqCode(op)
      /\ SeqCode(op) = OK => code \notin NotConsumed
  <2>1. DOMAIN rules = 1..2 /\ 1..2 \subseteq 1..7
    OBVIOUS
  <2>2. rules[1][1] <=> SequencedCode(op) # OK
    OBVIOUS
  <2>3. rules[1][2] = SequencedCode(op) /\ rules[2][2] = DealCode(op)
    OBVIOUS
  <2>4. DealCode(op) \notin NotConsumed
    BY IntentCodes
  <2> HIDE DEF rules
  <2>5. \A i \in DOMAIN rules \ {1} : rules[i][2] \notin NotConsumed
    BY <2>1, <2>3, <2>4
  <2> QED
    BY <2>1, <2>2, <2>3, <2>5, AfterSequenced
<1>2. /\ op.name = "start_round" /\ cmd.key \in Keys /\ results[cmd.key] = NoRow
      /\ bindings' = bindings /\ players' = Consume(op, code)
      /\ \E more : Record(cmd, code, more)
  BY DEF StartRound, RejectPlay, Executes, ValidateKey
<1> HIDE DEF code
<1> QED
  BY <1>1, <1>2 DEF Sequences, Recorded, Sequenced

LEMMA MoveCodeKeeps ==
  ASSUME NEW op
  PROVE  /\ SeqCode(op) # OK => MoveCode(op) = SeqCode(op)
         /\ SeqCode(op) = OK => MoveCode(op) \notin NotConsumed
<1> DEFINE rec == Named(op)
<1>1. PICK rules : rules =
        << <<SequencedCode(op) # OK, SequencedCode(op)>>,
           <<At(op.tournament).status # "open", "not_open">>,
           <<RoundCode(op) # OK, RoundCode(op)>>,
           <<rec.status = "finished", "round_finished">>,
           <<clock' > rec.deadline, "round_expired">>,
           <<op.moveIndex # Len(rec.moves), "move_index_mismatch">>,
           <<rec # NoRound /\ ~Legal(BoardOf(rec.seed, rec.moves), op.move),
             "illegal_move">> >>
  OBVIOUS
<1>2. MoveCode(op) = Verdict(rules)
  BY <1>1 DEF MoveCode
<1>3. DOMAIN rules = 1..7
  BY <1>1
<1>4. rules[1][1] <=> SequencedCode(op) # OK
  BY <1>1
<1>5. rules[1][2] = SequencedCode(op) /\ rules[3][2] = RoundCode(op)
  BY <1>1
<1>6. \A i \in {2, 4, 5, 6, 7} : rules[i][2] \notin NotConsumed
  BY <1>1 DEF NotConsumed
<1>7. RoundCode(op) \notin NotConsumed
  BY IntentCodes
<1>8. \A i \in DOMAIN rules \ {1} : rules[i][2] \notin NotConsumed
  BY <1>3, <1>5, <1>6, <1>7
<1> QED
  BY <1>2, <1>3, <1>4, <1>5, <1>8, AfterSequenced

LEMMA FinishCodeKeeps ==
  ASSUME NEW op
  PROVE  /\ SeqCode(op) # OK => FinishCode(op) = SeqCode(op)
         /\ SeqCode(op) = OK => FinishCode(op) \notin NotConsumed
<1> DEFINE rec == Named(op)
<1>1. PICK rules : rules =
        << <<SequencedCode(op) # OK, SequencedCode(op)>>,
           <<RoundCode(op) # OK, RoundCode(op)>>,
           <<rec.status # "finished" /\ At(op.tournament).status # "open", "not_open">> >>
  OBVIOUS
<1>2. FinishCode(op) = Verdict(rules)
  BY <1>1 DEF FinishCode
<1>3. DOMAIN rules = 1..3 /\ 1..3 \subseteq 1..7
  BY <1>1
<1>4. rules[1][1] <=> SequencedCode(op) # OK
  BY <1>1
<1>5. rules[1][2] = SequencedCode(op) /\ rules[2][2] = RoundCode(op)
  BY <1>1
<1>6. rules[3][2] \notin NotConsumed
  BY <1>1 DEF NotConsumed
<1>7. RoundCode(op) \notin NotConsumed
  BY IntentCodes
<1>8. \A i \in DOMAIN rules \ {1} : rules[i][2] \notin NotConsumed
  BY <1>3, <1>5, <1>6, <1>7
<1> QED
  BY <1>2, <1>3, <1>4, <1>5, <1>8, AfterSequenced

LEMMA ClaimCodeKeeps ==
  ASSUME NEW op
  PROVE  /\ SeqCode(op) # OK => ClaimCode(op) = SeqCode(op)
         /\ SeqCode(op) = OK => ClaimCode(op) \notin NotConsumed
<1> DEFINE t == At(op.tournament)
<1>1. PICK rules : rules =
        << <<SequencedCode(op) # OK, SequencedCode(op)>>,
           <<~Joined(t, op.player), "not_joined">>,
           <<t.status # "settled", "not_settled">>,
           <<Claimable(t, op.player) <= 0, "no_payout">>,
           <<Has(book, ClaimKey(op.tournament, op.player)), "already_claimed">>,
           <<~Validate(ClaimPosting(op.tournament, op.player)), "ledger_conflict">> >>
  OBVIOUS
<1>2. ClaimCode(op) = Verdict(rules)
  BY <1>1 DEF ClaimCode
<1>3. DOMAIN rules = 1..6 /\ 1..6 \subseteq 1..7
  BY <1>1
<1>4. rules[1][1] <=> SequencedCode(op) # OK
  BY <1>1
<1>5. rules[1][2] = SequencedCode(op)
  BY <1>1
<1>6. \A i \in 2..6 : rules[i][2] \notin NotConsumed
  BY <1>1 DEF NotConsumed
<1>8. \A i \in DOMAIN rules \ {1} : rules[i][2] \notin NotConsumed
  BY <1>3, <1>6
<1> QED
  BY <1>2, <1>3, <1>4, <1>5, <1>8, AfterSequenced

LEMMA IntentSequences ==
  ASSUME NEW cmd,
         Enter(cmd) \/ StartRound(cmd) \/ PlayMove(cmd) \/ FinishRound(cmd) \/ ClaimPayout(cmd)
  PROVE  \E code : Sequences(cmd, code)
<1> DEFINE op == cmd.op
<1>1. CASE PlayMove(cmd)
  <2>1. PICK code : code = MoveCode(op)
    OBVIOUS
  <2>2. /\ op.name = "play_move" /\ cmd.key \in Keys /\ results[cmd.key] = NoRow
        /\ bindings' = bindings /\ players' = Consume(op, code)
        /\ \E more : Record(cmd, code, more)
    BY <1>1, <2>1 DEF PlayMove, RejectPlay, Executes, ValidateKey
  <2> QED
    BY <2>1, <2>2, MoveCodeKeeps DEF Sequences, Recorded, Sequenced
<1>2. CASE FinishRound(cmd)
  <2>1. PICK code : code = FinishCode(op)
    OBVIOUS
  <2>2. /\ op.name = "finish_round" /\ cmd.key \in Keys /\ results[cmd.key] = NoRow
        /\ bindings' = bindings /\ players' = Consume(op, code)
        /\ \E more : Record(cmd, code, more)
    BY <1>2, <2>1 DEF FinishRound, RejectPlay, Executes, ValidateKey
  <2> QED
    BY <2>1, <2>2, FinishCodeKeeps DEF Sequences, Recorded, Sequenced
<1>3. CASE ClaimPayout(cmd)
  <2>1. PICK code : code = ClaimCode(op)
    OBVIOUS
  <2>2. /\ op.name = "claim_payout" /\ cmd.key \in Keys /\ results[cmd.key] = NoRow
        /\ bindings' = bindings /\ players' = Consume(op, code)
        /\ \E more : Record(cmd, code, more)
    BY <1>3, <2>1 DEF ClaimPayout, RejectPlay, Executes, ValidateKey
  <2> QED
    BY <2>1, <2>2, ClaimCodeKeeps DEF Sequences, Recorded, Sequenced
<1> QED
  BY <1>1, <1>2, <1>3, EnterSequences, StartSequences

\* A command without an operation, or an operation of the operator's.
Alone(cmd) == (Refuse(cmd) \/ Reused(cmd) \/ Replay(cmd)) /\ UNCHANGED <<bindings, players>>
Operates(cmd) ==
  /\ cmd.op.name \in PlainNames
  /\ \E code : Recorded(cmd, code)
  /\ UNCHANGED <<bindings, players>>

\* What a command of the log is to the tables, the sessions and the numbers.
LEMMA PlayCases ==
  ASSUME NEW cmd \in Commands, NEW at, ApplyPlay(cmd, at)
  PROVE  \/ Alone(cmd) \/ Operates(cmd) \/ OpenSession(cmd, at)
         \/ \E code : Sequences(cmd, code)
<1> USE DEF Operates, PlainNames, Recorded, Executes, ValidateKey, playVars
<1>1. CASE PlainCommand(cmd) /\ (Refuse(cmd) \/ Reused(cmd) \/ Replay(cmd))
  BY <1>1 DEF PlainCommand, Alone
<1>2. CASE PlainCommand(cmd) /\ Create(cmd)
  BY <1>2 DEF PlainCommand, Create, Reject
<1>3. CASE PlainCommand(cmd) /\ Join(cmd)
  BY <1>3 DEF PlainCommand, Join, Reject
<1>4. CASE PlainCommand(cmd) /\ Score(cmd)
  BY <1>4 DEF PlainCommand, Score, Reject
<1>5. CASE PlainCommand(cmd) /\ Close(cmd)
  BY <1>5 DEF PlainCommand, Close, Reject
<1>6. CASE ClosePlay(cmd)
  BY <1>6 DEF ClosePlay
<1>7. CASE SettlePlay(cmd)
  BY <1>7 DEF SettlePlay, Settle, Reject
<1> QED
  BY <1>1, <1>2, <1>3, <1>4, <1>5, <1>6, <1>7, IntentSequences
     DEF ApplyPlay, PlainCommand

\* The records of the players, and the domains of the tables.
PlayersOK ==
  players \in [Players -> [bound : BOOLEAN, jurisdiction : Jurisdictions \cup {""},
                           age : 0..150, lastSeq : Nat]]

PlayTable == TableInv /\ DOMAIN bindings = Devices /\ PlayersOK

\* openSession: what the rules found.
LEMMA OpenCodeIs ==
  ASSUME NEW op
  PROVE  /\ OpenCode(op) = OK =>
              /\ op.device \in Devices /\ op.verifier # 0
              /\ bindings[op.device] # NoBinding =>
                   bindings[op.device].verifier = op.verifier
              /\ bindings[op.device] = NoBinding =>
                   /\ op.player \in Players /\ op.jurisdiction \in Jurisdictions
                   /\ op.age \in 0..150 /\ ~players[op.player].bound
         /\ OpenCode(op) = "device_mismatch" =>
              /\ op.device \in Devices /\ bindings[op.device] # NoBinding
              /\ bindings[op.device].verifier # op.verifier
<1> DEFINE bound == op.device \in Devices /\ bindings[op.device] # NoBinding
           claims == [id |-> op.player, age |-> op.age, jurisdiction |-> op.jurisdiction]
<1>1. PICK rules : rules =
        << <<op.device \notin Devices \/ op.verifier = 0, "invalid_device">>,
           <<bound /\ bindings[op.device].verifier # op.verifier, "device_mismatch">>,
           <<~bound /\ ~ValidatePlayer(claims), "invalid_player">>,
           <<~bound /\ players[op.player].bound, "player_exists">> >>
  OBVIOUS
<1>2. OpenCode(op) = Verdict(rules)
  BY <1>1 DEF OpenCode
<1>3. DOMAIN rules = 1..4 /\ 1..4 \subseteq 1..7
  BY <1>1
<1>4. /\ rules[1][1] <=> op.device \notin Devices \/ op.verifier = 0
      /\ rules[2][1] <=> bound /\ bindings[op.device].verifier # op.verifier
      /\ rules[3][1] <=> ~bound /\ ~ValidatePlayer(claims)
      /\ rules[4][1] <=> ~bound /\ players[op.player].bound
  BY <1>1, Zenon
<1>5. /\ rules[1][2] = "invalid_device" /\ rules[2][2] = "device_mismatch"
      /\ rules[3][2] = "invalid_player" /\ rules[4][2] = "player_exists"
  BY <1>1
<1>6. ASSUME Verdict(rules) = OK
      PROVE  ~rules[1][1] /\ ~rules[2][1] /\ ~rules[3][1] /\ ~rules[4][1]
  BY <1>5, <1>3, <1>6, VerdictOK DEF OK
<1>7. ASSUME Verdict(rules) = "device_mismatch" PROVE rules[2][1]
  <2>1. PICK i \in 1..4 : rules[i][1] /\ "device_mismatch" = rules[i][2]
    BY <1>3, <1>7, VerdictOneOf DEF OK
  <2>2. i = 2
    BY <1>5, <2>1
  <2> QED
    BY <2>1, <2>2
<1>8. ValidatePlayer(claims) =>
        op.player \in Players /\ op.jurisdiction \in Jurisdictions /\ op.age \in 0..150
  BY DEF ValidatePlayer
<1> HIDE DEF claims
<1>9. CASE Verdict(rules) = OK
  BY <1>2, <1>4, <1>6, <1>8, <1>9 DEF OK
<1>10. CASE Verdict(rules) = "device_mismatch"
  BY <1>2, <1>4, <1>7, <1>10 DEF OK
<1> QED
  BY <1>2, <1>9, <1>10

\* A number that is consumed is the next one, and only its player's changes.
LEMMA SequencesOK ==
  ASSUME PlayersOK, NEW cmd \in Commands, NEW code, Sequences(cmd, code)
  PROVE  LET op == cmd.op IN
         /\ op.player \in Players /\ op.seq \in Nat
         /\ \A q \in Players \ {op.player} : players'[q] = players[q]
         /\ players'[op.player].bound = players[op.player].bound
         /\ SeqCode(op) = OK =>
              /\ players[op.player].bound
              /\ op.seq = players[op.player].lastSeq + 1
              /\ players'[op.player].lastSeq = op.seq
              /\ code \notin NotConsumed
         /\ SeqCode(op) # OK =>
              /\ players' = players
              /\ code \in NotConsumed
         /\ PlayersOK'
<1> DEFINE op == cmd.op
           p == op.player
<1>1. p \in Players /\ op.seq \in Nat
  BY IntentAssumption DEF Sequences
<1>2. CASE SeqCode(op) = OK
  <2>1. players' = [players EXCEPT ![p].lastSeq = op.seq]
    BY <1>2 DEF Sequences, Consume
  <2>2. /\ players[p].bound
        /\ ~(op.seq <= players[p].lastSeq)
        /\ ~(op.seq > players[p].lastSeq + 1)
    BY <1>2, SeqCodeIs
  <2>3. players[p].lastSeq \in Nat
    BY <1>1 DEF PlayersOK
  <2>4. op.seq = players[p].lastSeq + 1
    BY <1>1, <2>2, <2>3
  <2>5. PlayersOK' /\ players'[p].lastSeq = op.seq /\ players'[p].bound = players[p].bound
        /\ \A q \in Players \ {p} : players'[q] = players[q]
    <3> DEFINE R == [bound : BOOLEAN, jurisdiction : Jurisdictions \cup {""},
                     age : 0..150, lastSeq : Nat]
    <3>1. PICK r : r = [players[p] EXCEPT !.lastSeq = op.seq]
      OBVIOUS
    <3>2. players \in [Players -> R] /\ players[p] \in R
      BY <1>1 DEF PlayersOK
    <3>3. r \in R /\ r.lastSeq = op.seq /\ r.bound = players[p].bound
      BY <1>1, <3>1, <3>2
    <3>4. players' = [players EXCEPT ![p] = r]
      BY <2>1, <3>1
    <3> HIDE DEF R
    <3>5. players' \in [Players -> R] /\ players'[p] = r
          /\ \A q \in Players \ {p} : players'[q] = players[q]
      BY <1>1, <3>2, <3>3, <3>4
    <3> QED
      BY <3>3, <3>5 DEF PlayersOK, R
  <2> QED
    BY <1>1, <1>2, <2>2, <2>4, <2>5 DEF Sequences
<1>3. CASE SeqCode(op) # OK
  <2>1. players' = players
    BY <1>3 DEF Sequences, Consume
  <2>2. code \in NotConsumed
    BY <1>3, SeqCodeIs DEF Sequences
  <2> QED
    BY <1>1, <1>3, <2>1, <2>2 DEF PlayersOK
<1> QED
  BY <1>2, <1>3

LEMMA PlayTableStep ==
  ASSUME PlayTable, NEW cmd \in Commands, NEW at, ApplyPlay(cmd, at)
  PROVE  PlayTable'
<1> USE DEF TableInv
<1>1. DOMAIN tournaments' = Ids
  <2>1. CASE PlainCommand(cmd) \/ SettlePlay(cmd)
    <3>1. Apply(cmd)
      BY <2>1 DEF PlainCommand, SettlePlay, Apply
    <3>2. Next
      BY <3>1 DEF Next
    <3> QED
      BY <3>2, TableStep DEF PlayTable
  <2>2. CASE ClosePlay(cmd)
    <3>1. PICK r : tournaments' = [tournaments EXCEPT ![cmd.op.tournament] = r]
      BY <2>2 DEF ClosePlay
    <3> QED
      BY <3>1 DEF PlayTable
  <2>3. CASE OpenSession(cmd, at)
    BY <2>3 DEF OpenSession, PlayTable
  <2>4. CASE Enter(cmd)
    BY <2>4 DEF Enter, RejectPlay, PlayTable
  <2>5. CASE StartRound(cmd)
    BY <2>5 DEF StartRound, RejectPlay, PlayTable
  <2>6. CASE PlayMove(cmd)
    <3>1. \/ tournaments' = tournaments
          \/ \E r : tournaments' = [tournaments EXCEPT ![cmd.op.tournament] = r]
      BY <2>6 DEF PlayMove, RejectPlay
    <3> QED
      BY <3>1 DEF PlayTable
  <2>7. CASE FinishRound(cmd)
    BY <2>7 DEF FinishRound, RejectPlay, PlayTable
  <2>8. CASE ClaimPayout(cmd)
    BY <2>8 DEF ClaimPayout, RejectPlay, PlayTable
  <2> QED
    BY <2>1, <2>2, <2>3, <2>4, <2>5, <2>6, <2>7, <2>8 DEF ApplyPlay
<1>2. CASE Alone(cmd)
  BY <1>1, <1>2 DEF Alone, Refuse, Reused, Replay, PlayTable, PlayersOK
<1>3. CASE Operates(cmd)
  BY <1>1, <1>3 DEF Operates, Recorded, Record, PlayTable, PlayersOK
<1>4. CASE OpenSession(cmd, at)
  <2> DEFINE op == cmd.op
  <2>1. DOMAIN results' = Keys
    BY <1>4 DEF OpenSession, Record, PlayTable
  <2>2. CASE UNCHANGED <<bindings, players>>
    BY <1>1, <2>1, <2>2 DEF PlayTable, PlayersOK
  <2>3. CASE /\ OpenCode(op) = OK
             /\ bindings[op.device] = NoBinding
             /\ bindings' = [bindings EXCEPT ![op.device] =
                             [verifier |-> op.verifier, player |-> op.player]]
             /\ players' = [players EXCEPT ![op.player] =
                            [bound |-> TRUE, jurisdiction |-> op.jurisdiction,
                             age |-> op.age, lastSeq |-> 0]]
    BY <2>3, OpenCodeIs, <1>1, <2>1 DEF PlayTable, PlayersOK
  <2> QED
    BY <1>4, <2>2, <2>3 DEF OpenSession
<1>5. ASSUME NEW code, Sequences(cmd, code)
      PROVE  PlayTable'
  <2>1. PlayersOK'
    BY <1>5, SequencesOK DEF PlayTable
  <2>2. DOMAIN results' = Keys /\ bindings' = bindings
    BY <1>5 DEF Sequences, Recorded, Record, PlayTable
  <2> QED
    BY <1>1, <2>1, <2>2 DEF PlayTable
<1> QED
  BY <1>2, <1>3, <1>4, <1>5, PlayCases

LEMMA PlayTableInit == PlayInit => PlayTable
<1>1. Unbound \in [bound : BOOLEAN, jurisdiction : Jurisdictions \cup {""},
                   age : 0..150, lastSeq : Nat]
  BY DEF Unbound
<1>2. PlayInit => PlayersOK
  BY <1>1, Zenon DEF PlayInit, PlayersOK
<1>3. PlayInit => DOMAIN bindings = Devices
  BY DEF PlayInit
<1> QED
  BY <1>2, <1>3, TableInit DEF PlayInit, PlayTable

\* The kinds of operations have different names.
LEMMA NamesAreNames ==
  ASSUME NEW cmd
  PROVE  /\ cmd.op.name \in PlainNames => cmd.op.name \notin Sequenced \cup {"none", "open_session"}
         /\ cmd.op.name \in Sequenced => cmd.op.name \notin {"none", "open_session"}
  BY DEF PlainNames, Sequenced

\* The answers agree with the results table, for the commands of a game too.
LEMMA PlayAnswers ==
  ASSUME PlayTable, AnswersInv, NEW cmd \in Commands, NEW at, ApplyPlay(cmd, at)
  PROVE  AnswersInv'
<1> USE DEF PlayTable
<1>1. ASSUME NEW code, Recorded(cmd, code), cmd.op.name # "none"
      PROVE  AnswersInv'
  BY <1>1, AnswersRecord DEF Recorded
<1>2. CASE Alone(cmd)
  BY <1>2, AnswersAlone DEF Alone
<1>3. CASE Operates(cmd)
  BY <1>1, <1>3, NamesAreNames DEF Operates
<1>4. CASE OpenSession(cmd, at)
  <2>1. cmd.key \in Keys /\ results[cmd.key] = NoRow /\ cmd.op.name = "open_session"
        /\ \E code, more : Record(cmd, code, more)
    BY <1>4 DEF OpenSession, Executes, ValidateKey
  <2> QED
    BY <2>1, <1>1 DEF Recorded
<1>5. CASE \E code : Sequences(cmd, code)
  BY <1>1, <1>5, NamesAreNames DEF Sequences
<1> QED
  BY <1>2, <1>3, <1>4, <1>5, PlayCases

\* The client-supplied fields of a command are in its fingerprint.
LEMMA FingerprintOf ==
  ASSUME NEW cmd \in Commands
  PROVE  /\ Fingerprint(cmd).name = cmd.op.name
         /\ cmd.op.name \in Sequenced =>
              /\ Fingerprint(cmd).player = cmd.op.player
              /\ Fingerprint(cmd).seq = cmd.op.seq
         /\ cmd.op.name = "open_session" =>
              /\ Fingerprint(cmd).device = cmd.op.device
              /\ Fingerprint(cmd).verifier = cmd.op.verifier
<1>1. Fingerprint(cmd).name = cmd.op.name
  BY CommandAssumption DEF Fingerprint, Drawn
<1>2. ASSUME cmd.op.name \in Sequenced
      PROVE  Fingerprint(cmd).player = cmd.op.player /\ Fingerprint(cmd).seq = cmd.op.seq
  BY <1>2, IntentAssumption DEF Drawn, Sequenced, Fingerprint
<1>3. ASSUME cmd.op.name = "open_session"
      PROVE  Fingerprint(cmd).device = cmd.op.device /\ Fingerprint(cmd).verifier = cmd.op.verifier
  BY <1>3, IntentAssumption DEF Drawn, Fingerprint
<1> QED
  BY <1>1, <1>2, <1>3

\* The rows of a table after a result was recorded.
LEMMA RowsAfter ==
  ASSUME TableInv, NEW cmd \in Commands, NEW code, Recorded(cmd, code)
  PROVE  /\ cmd.key \in Keys
         /\ \A k \in Keys \ {cmd.key} : results'[k] = results[k]
         /\ results'[cmd.key].fingerprint = Fingerprint(cmd)
         /\ results'[cmd.key].code = code
<1>1. PICK more : results' = [results EXCEPT ![cmd.key] =
                               [fingerprint |-> Fingerprint(cmd), code |-> code, more |-> more]]
  BY DEF Recorded, Record
<1>2. PICK row : row = [fingerprint |-> Fingerprint(cmd), code |-> code, more |-> more]
  OBVIOUS
<1>3. row.fingerprint = Fingerprint(cmd) /\ row.code = code
  BY <1>2
<1>4. results' = [results EXCEPT ![cmd.key] = row]
  BY <1>1, <1>2
<1> QED
  BY <1>3, <1>4 DEF TableInv, Recorded

\* The rows of the intents of p that consumed a number.
Consumed(row, p) ==
  /\ row.fingerprint.name \in Sequenced
  /\ row.fingerprint.player = p
  /\ row.code \notin NotConsumed

LEMMA ConsumersAre ==
  ASSUME NEW p
  PROVE  Consumers(p) = {k \in Keys : Consumed(results[k], p)}
  BY DEF Consumers, Consumed

LEMMA NotConsumedYet ==
  ASSUME NEW p
  PROVE  ~Consumed(NoRow, p)
  BY DEF Consumed, NoRow, Sequenced

\* A recorded command adds its key to the consumers, or nothing.
LEMMA ConsumersGrow ==
  ASSUME TableInv, NEW cmd \in Commands, NEW code, Recorded(cmd, code), NEW p
  PROVE  Consumers(p)' = IF /\ cmd.op.name \in Sequenced /\ cmd.op.player = p
                            /\ code \notin NotConsumed
                         THEN Consumers(p) \cup {cmd.key} ELSE Consumers(p)
<1>1. cmd.key \notin Consumers(p) /\ cmd.key \in Keys
  BY ConsumersAre, NotConsumedYet DEF Recorded
<1>2. \A k \in Keys \ {cmd.key} : k \in Consumers(p)' <=> k \in Consumers(p)
  BY RowsAfter, ConsumersAre DEF Consumers
<1>3. cmd.key \in Consumers(p)' <=> /\ cmd.op.name \in Sequenced /\ cmd.op.player = p
                                    /\ code \notin NotConsumed
  BY <1>1, RowsAfter, FingerprintOf DEF Consumers
<1>4. Consumers(p) \subseteq Keys /\ Consumers(p)' \subseteq Keys
  BY DEF Consumers
<1> QED
  BY <1>1, <1>2, <1>3, <1>4

NumberAt(k) == results[k].fingerprint.seq

\* The numbers consumed are 1..lastSeq, each by one key; a player without a
\* device has consumed none.
SeqsOK(p) ==
  /\ \A k \in Consumers(p) : NumberAt(k) \in 1..players[p].lastSeq
  /\ \A k, l \in Consumers(p) : NumberAt(k) = NumberAt(l) => k = l
  /\ \A n \in 1..players[p].lastSeq : \E k \in Consumers(p) : NumberAt(k) = n
  /\ ~players[p].bound => players[p].lastSeq = 0

SeqInv == \A p \in Players : SeqsOK(p)

LEMMA SeqsKept ==
  ASSUME NEW p \in Players, SeqsOK(p), Consumers(p)' = Consumers(p),
         \A k \in Consumers(p) : NumberAt(k)' = NumberAt(k),
         players'[p].lastSeq = players[p].lastSeq,
         players[p].bound => players'[p].bound
  PROVE  SeqsOK(p)'
<1>1. PICK C : C = Consumers(p)
  OBVIOUS
<1> QED
  BY <1>1 DEF SeqsOK

\* Rows that are there stay as they are.
LEMMA NumberAtKept ==
  ASSUME TableInv, NEW cmd \in Commands, NEW code, Recorded(cmd, code), NEW p, NEW k \in Consumers(p)
  PROVE  NumberAt(k)' = NumberAt(k)
<1>1. k \in Keys /\ k # cmd.key
  BY ConsumersAre, NotConsumedYet DEF Recorded
<1> QED
  BY <1>1, RowsAfter DEF NumberAt

LEMMA SeqsRecorded ==
  ASSUME PlayTable, SeqInv, NEW cmd \in Commands, NEW code, Sequences(cmd, code), NEW p \in Players
  PROVE  SeqsOK(p)'
<1> DEFINE op == cmd.op
<1>1. TableInv /\ PlayersOK /\ Recorded(cmd, code) /\ SeqsOK(p) /\ op.name \in Sequenced
  BY DEF PlayTable, Sequences, SeqInv
<1>2. \A k \in Consumers(p) : NumberAt(k)' = NumberAt(k)
  BY <1>1, NumberAtKept
<1>3. CASE p # op.player \/ SeqCode(op) # OK
  BY <1>1, <1>3, SequencesOK, ConsumersGrow, <1>2, SeqsKept
<1>4. CASE p = op.player /\ SeqCode(op) = OK
  <2>1. PICK n \in Nat : n = players[p].lastSeq
    BY <1>1 DEF PlayersOK
  <2>2. op.seq = n + 1 /\ players'[p].lastSeq = n + 1 /\ players'[p].bound /\ code \notin NotConsumed
    BY <1>1, <1>4, <2>1, SequencesOK
  <2>3. PICK C : C = Consumers(p)
    OBVIOUS
  <2>4. Consumers(p)' = C \cup {cmd.key}
    BY <1>1, <1>4, <2>2, <2>3, ConsumersGrow
  <2>5. NumberAt(cmd.key)' = n + 1
    BY <1>1, <2>2, RowsAfter, FingerprintOf DEF NumberAt
  <2>6. /\ \A k \in C : NumberAt(k)' \in 1..n
        /\ \A k, l \in C : NumberAt(k)' = NumberAt(l)' => k = l
        /\ \A m \in 1..n : \E k \in C : NumberAt(k)' = m
    BY <1>1, <1>2, <2>1, <2>3 DEF SeqsOK
  <2>7. PICK s : \A k \in C \cup {cmd.key} : s[k] = NumberAt(k)'
    <3>1. \A k \in C \cup {cmd.key} : [j \in C \cup {cmd.key} |-> NumberAt(j)'][k] = NumberAt(k)'
      OBVIOUS
    <3> QED
      BY <3>1
  <2>8. /\ \A k \in C \cup {cmd.key} : s[k] \in 1..n + 1
        /\ \A k, l \in C \cup {cmd.key} : s[k] = s[l] => k = l
        /\ \A m \in 1..n + 1 : \E k \in C \cup {cmd.key} : s[k] = m
    BY <2>5, <2>6, <2>7
  <2> QED
    BY <2>2, <2>4, <2>7, <2>8 DEF SeqsOK
<1> QED
  BY <1>3, <1>4

LEMMA SeqStep ==
  ASSUME PlayTable, SeqInv, NEW cmd \in Commands, NEW at, ApplyPlay(cmd, at)
  PROVE  SeqInv'
<1> SUFFICES ASSUME NEW p \in Players PROVE SeqsOK(p)'
  BY DEF SeqInv
<1>1. SeqsOK(p) /\ TableInv
  BY DEF SeqInv, PlayTable
<1>2. CASE Alone(cmd)
  BY <1>2, <1>1, SeqsKept DEF Alone, Refuse, Reused, Replay, Consumers, NumberAt
<1>3. ASSUME NEW code, Recorded(cmd, code), cmd.op.name \notin Sequenced,
             players'[p].lastSeq = players[p].lastSeq, players[p].bound => players'[p].bound
      PROVE  SeqsOK(p)'
  BY <1>1, <1>3, ConsumersGrow, NumberAtKept, SeqsKept
<1>4. CASE Operates(cmd)
  BY <1>3, <1>4, NamesAreNames DEF Operates
<1>5. CASE OpenSession(cmd, at)
  <2>1. (\E code : Recorded(cmd, code)) /\ cmd.op.name \notin Sequenced
    BY <1>5 DEF OpenSession, Executes, ValidateKey, Recorded, Sequenced
  <2>2. CASE players' = players
    BY <1>3, <2>1, <2>2
  <2>3. CASE /\ OpenCode(cmd.op) = OK
             /\ bindings[cmd.op.device] = NoBinding
             /\ players' = [players EXCEPT ![cmd.op.player] =
                            [bound |-> TRUE, jurisdiction |-> cmd.op.jurisdiction,
                             age |-> cmd.op.age, lastSeq |-> 0]]
    <3>1. cmd.op.player \in Players /\ ~players[cmd.op.player].bound
      BY <2>3, OpenCodeIs
    <3>2. DOMAIN players = Players
      BY DEF PlayTable, PlayersOK
    <3>3. p = cmd.op.player => players[p].lastSeq = 0
      BY <1>1, <3>1 DEF SeqsOK
    <3>4. players'[p].lastSeq = players[p].lastSeq
      BY <2>3, <3>2, <3>3
    <3>5. players[p].bound => players'[p].bound
      BY <2>3, <3>2
    <3> QED
      BY <1>3, <2>1, <3>4, <3>5
  <2> QED
    BY <1>5, <2>2, <2>3 DEF OpenSession
<1>6. CASE \E code : Sequences(cmd, code)
  BY <1>6, SeqsRecorded
<1> QED
  BY <1>2, <1>4, <1>5, <1>6, PlayCases

LEMMA SeqInit == PlayInit => SeqInv
<1> SUFFICES ASSUME PlayInit, NEW p \in Players PROVE SeqsOK(p)
  BY DEF SeqInv
<1>1. Consumers(p) = {}
  BY ConsumersAre, NotConsumedYet DEF PlayInit, Init
<1>2. players[p].lastSeq = 0
  BY DEF PlayInit, Unbound
<1> QED
  BY <1>1, <1>2 DEF SeqsOK

\* The consumers of a player are in bijection with the numbers consumed.
LEMMA SeqImplies == PlayTable /\ SeqInv => OneIntentPerSeq
<1> SUFFICES ASSUME PlayTable, SeqInv, NEW p \in Players
             PROVE  /\ Cardinality(Consumers(p)) = players[p].lastSeq
                    /\ {NumberAt(k) : k \in Consumers(p)} = 1..players[p].lastSeq
  BY DEF OneIntentPerSeq, NumberAt
<1>1. PICK n \in Nat : n = players[p].lastSeq
  BY DEF PlayTable, PlayersOK
<1>2. PICK C : C = Consumers(p)
  OBVIOUS
<1>3. PICK s : s = [k \in C |-> NumberAt(k)]
  OBVIOUS
<1>4. /\ \A k \in C : NumberAt(k) \in 1..n
      /\ \A k, l \in C : NumberAt(k) = NumberAt(l) => k = l
      /\ \A m \in 1..n : \E k \in C : NumberAt(k) = m
  BY <1>1, <1>2 DEF SeqInv, SeqsOK
<1>5. {NumberAt(k) : k \in C} = 1..n
  BY <1>4
<1>6. s \in Bijection(C, 1..n)
  BY <1>3, <1>4, Fun_IsBij
<1>7. ExistsBijection(1..n, C)
  BY <1>6, Fun_ExistsBijSymmetric DEF ExistsBijection
<1>8. IsFiniteSet(1..n) /\ Cardinality(1..n) = n
  BY FS_Interval
<1>9. Cardinality(C) = n
  BY <1>7, <1>8, FS_Bijection
<1> QED
  BY <1>1, <1>2, <1>5, <1>9

-----------------------------------------------------------------------------
(* Sessions *)

\* The session that a row of open_session tells of is that of the binding; the
\* refusal of a secret goes on to hold.
RowHolds(row) ==
  row.fingerprint.name = "open_session" =>
    LET d == row.fingerprint.device
    IN /\ row.code = OK =>
            /\ d \in Devices /\ bindings[d] # NoBinding
            /\ bindings[d].verifier = row.fingerprint.verifier
            /\ bindings[d].player = row.more.player
       /\ row.code = "device_mismatch" =>
            /\ d \in Devices /\ bindings[d] # NoBinding
            /\ bindings[d].verifier # row.fingerprint.verifier

BindingsInv ==
  /\ \A d \in Devices : bindings[d] # NoBinding =>
       bindings[d].player \in Players /\ players[bindings[d].player].bound
  /\ \A d, e \in Devices :
       bindings[d] # NoBinding /\ bindings[e] # NoBinding
         /\ bindings[d].player = bindings[e].player => d = e

SessionInv == BindingsInv /\ \A k \in Keys : RowHolds(results[k])

\* A binding, once made, stays, and no player loses its device.
BindingsStay ==
  /\ \A d \in Devices : bindings[d] # NoBinding => bindings'[d] = bindings[d]
  /\ \A p \in Players : players[p].bound => players'[p].bound

LEMMA RowHoldsOn ==
  ASSUME BindingsStay, NEW row, RowHolds(row)
  PROVE  RowHolds(row)'
  BY DEF BindingsStay, RowHolds

LEMMA RowsHoldOn ==
  ASSUME TableInv, NEW cmd \in Commands, NEW code, Recorded(cmd, code),
         BindingsStay, SessionInv, cmd.op.name # "open_session"
  PROVE  \A k \in Keys : RowHolds(results[k])'
<1> SUFFICES ASSUME NEW k \in Keys PROVE RowHolds(results[k])'
  OBVIOUS
<1>1. CASE k # cmd.key
  <2>1. PICK row : row = results[k]
    OBVIOUS
  <2>2. RowHolds(row)'
    BY <2>1, RowHoldsOn DEF SessionInv
  <2>3. results'[k] = row
    BY <1>1, <2>1, RowsAfter
  <2> QED
    BY <2>2, <2>3 DEF RowHolds
<1>2. CASE k = cmd.key
  BY <1>2, RowsAfter, FingerprintOf DEF RowHolds
<1> QED
  BY <1>1, <1>2

LEMMA BindingsKept ==
  ASSUME BindingsInv, bindings' = bindings,
         \A p \in Players : players[p].bound => players'[p].bound
  PROVE  BindingsInv' /\ BindingsStay
  BY DEF BindingsInv, BindingsStay

LEMMA OpenKeeps ==
  ASSUME PlayTable, SessionInv, NEW cmd \in Commands, NEW at, OpenSession(cmd, at)
  PROVE  SessionInv'
<1> DEFINE op == cmd.op
           d == op.device
           code == OpenCode(op)
<1>1. /\ op.name = "open_session" /\ cmd.key \in Keys /\ TableInv
      /\ DOMAIN bindings = Devices /\ DOMAIN players = Players
      /\ BindingsInv
  BY DEF OpenSession, Executes, ValidateKey, PlayTable, PlayersOK, SessionInv
<1>2. /\ Fingerprint(cmd).name = "open_session"
      /\ Fingerprint(cmd).device = d /\ Fingerprint(cmd).verifier = op.verifier
  BY <1>1, FingerprintOf
<1>3. ASSUME NEW more, Record(cmd, code, more), BindingsStay, BindingsInv',
             code = OK => /\ d \in Devices /\ bindings'[d] # NoBinding
                          /\ bindings'[d].verifier = op.verifier
                          /\ bindings'[d].player = more.player,
             code = "device_mismatch" =>
                          /\ d \in Devices /\ bindings'[d] # NoBinding
                          /\ bindings'[d].verifier # op.verifier
      PROVE  SessionInv'
  <2>1. PICK row : row = [fingerprint |-> Fingerprint(cmd), code |-> code, more |-> more]
    OBVIOUS
  <2>2. row.fingerprint = Fingerprint(cmd) /\ row.code = code /\ row.more = more
    BY <2>1
  <2>3. results' = [results EXCEPT ![cmd.key] = row]
    BY <1>3, <2>1 DEF Record
  <2>4. RowHolds(row)'
    BY <1>2, <1>3, <2>2 DEF RowHolds
  <2>5. ASSUME NEW k \in Keys PROVE RowHolds(results[k])'
    <3>1. PICK old : old = results[k]
      OBVIOUS
    <3>2. RowHolds(old)'
      BY <1>3, <3>1, RowHoldsOn DEF SessionInv
    <3>3. results'[k] = IF k = cmd.key THEN row ELSE old
      BY <1>1, <2>3, <3>1 DEF TableInv
    <3>4. PICK new : new = results'[k]
      OBVIOUS
    <3>5. RowHolds(new)'
      BY <2>4, <3>2, <3>3, <3>4
    <3> QED
      BY <3>4, <3>5 DEF RowHolds
  <2> QED
    BY <1>3, <2>5 DEF SessionInv
<1>4. CASE bindings' = bindings /\ players' = players /\ code # OK
  <2>1. BindingsInv' /\ BindingsStay
    BY <1>1, <1>4, BindingsKept
  <2>2. \E more : Record(cmd, code, more)
    BY <1>4 DEF OpenSession
  <2> QED
    BY <1>3, <1>4, <2>1, <2>2, OpenCodeIs
<1>5. CASE code = OK /\ bindings[d] # NoBinding
  <2> DEFINE known == bindings[d].player
             out == [Outcome(known, players[known].lastSeq + 1) EXCEPT !.issuedAt = at]
  <2>1. bindings' = bindings /\ players' = players /\ Record(cmd, code, out)
    BY <1>5 DEF OpenSession
  <2>2. BindingsInv' /\ BindingsStay
    BY <1>1, <2>1, BindingsKept
  <2>3. out.player = known
    BY DEF Outcome, NoOutcome
  <2>4. d \in Devices /\ bindings[d].verifier = op.verifier /\ code # "device_mismatch"
    BY <1>5, OpenCodeIs DEF OK
  <2> HIDE DEF out
  <2> QED
    BY <1>3, <1>5, <2>1, <2>2, <2>3, <2>4
<1>6. CASE code = OK /\ bindings[d] = NoBinding
  <2> DEFINE new == [verifier |-> op.verifier, player |-> op.player]
             rec == [bound |-> TRUE, jurisdiction |-> op.jurisdiction,
                     age |-> op.age, lastSeq |-> 0]
             out == [[Outcome(op.player, 1) EXCEPT !.issuedAt = at] EXCEPT !.newPlayer = TRUE]
  <2>1. /\ bindings' = [bindings EXCEPT ![d] = new]
        /\ players' = [players EXCEPT ![op.player] = rec]
        /\ Record(cmd, code, out)
    BY <1>6 DEF OpenSession
  <2>2. /\ d \in Devices /\ op.verifier # 0
        /\ op.player \in Players /\ ~players[op.player].bound
    BY <1>6, OpenCodeIs
  <2>3. new # NoBinding /\ new.verifier = op.verifier /\ new.player = op.player
    BY <2>2 DEF NoBinding
  <2>4. out.player = op.player
    BY DEF Outcome, NoOutcome
  <2>5. rec.bound = TRUE
    OBVIOUS
  <2> HIDE DEF new, rec, out
  <2>6. /\ bindings'[d] = new /\ \A e \in Devices \ {d} : bindings'[e] = bindings[e]
        /\ players'[op.player] = rec
        /\ \A p \in Players \ {op.player} : players'[p] = players[p]
    BY <1>1, <2>1, <2>2
  <2>7. BindingsStay
    BY <1>6, <2>2, <2>6 DEF BindingsStay
  <2>8. \A e \in Devices : bindings[e] # NoBinding => bindings[e].player # op.player
    BY <1>1, <2>2 DEF BindingsInv
  <2>9. BindingsInv'
    <3>1. ASSUME NEW e \in Devices, bindings'[e] # NoBinding
          PROVE  bindings'[e].player \in Players /\ players'[bindings'[e].player].bound
      BY <2>2, <2>3, <2>5, <2>6, <1>1, <2>7, <3>1 DEF BindingsInv, BindingsStay
    <3>2. ASSUME NEW e \in Devices, NEW f \in Devices, bindings'[e] # NoBinding,
                 bindings'[f] # NoBinding, bindings'[e].player = bindings'[f].player
          PROVE  e = f
      BY <1>1, <2>3, <2>6, <2>8, <3>2 DEF BindingsInv
    <3> QED
      BY <3>1, <3>2 DEF BindingsInv
  <2>10. code # "device_mismatch"
    BY <1>6 DEF OK
  <2> QED
    BY <1>3, <2>1, <2>2, <2>3, <2>4, <2>6, <2>7, <2>9, <2>10
<1> QED
  BY <1>4, <1>5, <1>6 DEF OpenSession

LEMMA SessionStep ==
  ASSUME PlayTable, SessionInv, NEW cmd \in Commands, NEW at, ApplyPlay(cmd, at)
  PROVE  SessionInv'
<1>1. TableInv /\ BindingsInv
  BY DEF PlayTable, SessionInv
<1>2. CASE Alone(cmd)
  <2>1. results' = results /\ players' = players /\ bindings' = bindings
    BY <1>2 DEF Alone, Refuse, Reused, Replay
  <2> QED
    BY <2>1 DEF SessionInv, BindingsInv, RowHolds
<1>3. ASSUME NEW code, Recorded(cmd, code), cmd.op.name # "open_session",
             bindings' = bindings, \A p \in Players : players[p].bound => players'[p].bound
      PROVE  SessionInv'
  BY <1>1, <1>3, BindingsKept, RowsHoldOn DEF SessionInv
<1>4. CASE Operates(cmd)
  BY <1>3, <1>4, NamesAreNames DEF Operates
<1>5. CASE OpenSession(cmd, at)
  BY <1>5, OpenKeeps
<1>6. ASSUME NEW code, Sequences(cmd, code)
      PROVE  SessionInv'
  BY <1>6, NamesAreNames, SequencesOK, <1>3 DEF Sequences, PlayTable
<1> QED
  BY <1>2, <1>4, <1>5, <1>6, PlayCases

LEMMA SessionInit == PlayInit => SessionInv
<1> SUFFICES ASSUME PlayInit PROVE SessionInv
  OBVIOUS
<1>1. \A d \in Devices : bindings[d] = NoBinding
  BY DEF PlayInit
<1>2. \A k \in Keys : RowHolds(results[k])
  BY DEF NoRow, PlayInit, Init, RowHolds
<1> QED
  BY <1>1, <1>2 DEF SessionInv, BindingsInv

LEMMA SessionsImply == PlayTable /\ AnswersInv /\ SessionInv => SessionsHold
<1> SUFFICES ASSUME AnswersInv, SessionInv PROVE SessionsHold
  OBVIOUS
<1>1. ASSUME NEW d \in Devices, NEW e \in Devices,
             bindings[d].player = bindings[e].player, bindings[d] # NoBinding
      PROVE  d = e
  <2>1. bindings[d].player \in Players
    BY <1>1 DEF SessionInv, BindingsInv
  <2>2. bindings[e] # NoBinding
    <3>1. NoBinding.player = ""
      BY DEF NoBinding
    <3> QED
      BY <1>1, <2>1, <3>1, PlayAssumption
  <2> QED
    BY <1>1, <2>2 DEF SessionInv, BindingsInv
<1>2. ASSUME NEW a \in answers, a.cmd.op.name = "open_session"
      PROVE  /\ a.code = OK => /\ bindings[a.cmd.op.device].player = a.more.player
                               /\ ~SessionMismatch(a.cmd.op.device, a.cmd.op.verifier)
             /\ a.code = "device_mismatch" =>
                  SessionMismatch(a.cmd.op.device, a.cmd.op.verifier)
  <2>1. AnswerOf(a) /\ a.cmd \in Commands
    BY <1>2 DEF AnswersInv
  <2>2. CASE a.code \notin {OK, "device_mismatch"}
    BY <2>2
  <2>3. CASE a.code \in {OK, "device_mismatch"}
    <3>1. PICK row : /\ row = results[a.cmd.key] /\ a.cmd.key \in Keys
                     /\ row.fingerprint = Fingerprint(a.cmd)
                     /\ a.code = row.code /\ a.more = row.more
      BY <2>1, <2>3 DEF AnswerOf, OK
    <3>2. RowHolds(row)
      BY <3>1 DEF SessionInv
    <3>3. /\ row.fingerprint.name = "open_session"
          /\ row.fingerprint.device = a.cmd.op.device
          /\ row.fingerprint.verifier = a.cmd.op.verifier
      BY <1>2, <2>1, <3>1, FingerprintOf
    <3> QED
      BY <3>1, <3>2, <3>3 DEF RowHolds, SessionMismatch
  <2> QED
    BY <2>2, <2>3
<1> QED
  BY <1>1, <1>2 DEF SessionsHold

-----------------------------------------------------------------------------
(* The theorems about intents and sessions. *)

PlaysHold == PlayTable /\ AnswersInv /\ SeqInv /\ SessionInv

LEMMA PlaysInvariant == PlaySpec => []PlaysHold
<1>1. PlayInit => PlaysHold
  BY PlayTableInit, SeqInit, SessionInit DEF PlayInit, Init, AnswersInv, PlaysHold
<1>2. PlaysHold /\ [PlayNext]_allVars => PlaysHold'
  <2>1. CASE PlayNext
    BY <2>1, PlayTableStep, PlayAnswers, SeqStep, SessionStep DEF PlaysHold, PlayNext
  <2>2. ASSUME PlaysHold, UNCHANGED allVars PROVE PlaysHold'
    <3>1. /\ UNCHANGED vars /\ bindings' = bindings /\ players' = players
      BY <2>2 DEF allVars, playVars
    <3>2. PlayTable' /\ AnswersInv'
      BY <2>2, <3>1 DEF PlaysHold, vars, PlayTable, TableInv, PlayersOK, AnswersInv, AnswerOf
    <3>3. SeqInv'
      BY <2>2, <3>1 DEF PlaysHold, vars, SeqInv, SeqsOK, NumberAt, Consumers
    <3>4. SessionInv'
      BY <2>2, <3>1 DEF PlaysHold, vars, SessionInv, BindingsInv, RowHolds
    <3> QED
      BY <3>2, <3>3, <3>4 DEF PlaysHold
  <2> QED
    BY <2>1, <2>2
<1> QED
  BY <1>1, <1>2, PTL DEF PlaySpec

\* Whatever becomes of an intent, its sequence number is consumed once and no
\* number is skipped: one sent again under another key is not applied a second
\* time (sequenced).
THEOREM IntentsAreAppliedOnce == PlaySpec => []OneIntentPerSeq
<1>1. PlaysHold => OneIntentPerSeq
  BY SeqImplies DEF PlaysHold
<1> QED
  BY <1>1, PlaysInvariant, PTL

\* A device keeps the player it was bound to, every session it was told of names
\* that player, and no player has two devices (openSession, handleSession).
THEOREM DevicesKeepTheirPlayer == PlaySpec => []SessionsHold
<1>1. PlaysHold => SessionsHold
  BY SessionsImply DEF PlaysHold
<1> QED
  BY <1>1, PlaysInvariant, PTL

\* The commands of a game are answered alike on every retry as well, whatever
\* the leaders drew for them (execute, Fingerprint).
THEOREM IntentsAreAnsweredAlike == PlaySpec => []RetriesAgree
<1>1. PlaysHold => RetriesAgree
  BY AnswersImply DEF PlaysHold
<1> QED
  BY <1>1, PlaysInvariant, PTL

-----------------------------------------------------------------------------
(* Folds.  FoldLeft takes the last position of a set of positions off; over  *)
(* the positions 1..n that is n, so a fold is the states s[0], ..., s[n].    *)

\* The loops of closeRounds and of Replay.
Closings(base, seq) == FoldLeft(CloseRound, base, seq)
Scorings(id, base, seq) == FoldLeft(LAMBDA w, i : CloseEntry(id, w, i), base, seq)
Replays(base, seq) == FoldLeft(Replayed, base, seq)

\* The greatest number of a finite set.
LEMMA MaxIn ==
  ASSUME NEW N \in Nat, NEW T \in SUBSET (1..N), T # {}
  PROVE  Max(T) \in T /\ \A y \in T : y =< Max(T)
<1>1. \E x \in T : \A y \in T : y =< x
  <2> DEFINE A == {n \in 0..N : (\E y \in T : y >= N - n) => \E x \in T : \A y \in T : y =< x}
  <2>1. 0 \in A
    OBVIOUS
  <2>2. ASSUME NEW n \in 1..N, n - 1 \in A PROVE n \in A
    <3>1. CASE \E y \in T : y >= N - (n - 1)
      BY <2>2, <3>1
    <3>2. CASE \A y \in T : ~(y >= N - (n - 1))
      BY <3>2
    <3> QED
      BY <3>1, <3>2
  <2> HIDE DEF A
  <2>3. N \in A
    BY <2>1, <2>2, Numbers!Counting
  <2>4. \E y \in T : y >= N - N
    <3>1. PICK y \in T : y \in 1..N
      OBVIOUS
    <3>2. y >= N - N
      BY <3>1
    <3> QED
      BY <3>2
  <2> QED
    BY <2>3, <2>4 DEF A
<1> QED
  BY <1>1 DEF Max

\* The subsets of 1..N of at most n elements.
Small(N, n) == {T \in SUBSET (1..N) : Cardinality(T) <= n}

LEMMA SmallSets ==
  ASSUME NEW N \in Nat
  PROVE  /\ \A T \in Small(N, 0) : T = {}
         /\ \A n \in 1..N : /\ Small(N, n - 1) \subseteq Small(N, n)
                            /\ \A T \in Small(N, n) : T # {} => T \ {Max(T)} \in Small(N, n - 1)
         /\ Small(N, N) = SUBSET (1..N)
<1>1. IsFiniteSet(1..N) /\ Cardinality(1..N) = N
  BY FS_Interval
<1>2. ASSUME NEW T \in SUBSET (1..N) PROVE IsFiniteSet(T) /\ Cardinality(T) \in 0..N
  <2>1. IsFiniteSet(T) /\ Cardinality(T) =< Cardinality(1..N)
    BY <1>1, FS_Subset
  <2>2. Cardinality(T) \in Nat
    BY <2>1, FS_CardinalityType
  <2> QED
    BY <1>1, <2>1, <2>2
<1>3. \A T \in Small(N, 0) : T = {}
  BY <1>2, FS_EmptySet DEF Small
<1>4. ASSUME NEW n \in 1..N PROVE Small(N, n - 1) \subseteq Small(N, n)
  BY <1>2 DEF Small
<1>5. ASSUME NEW n \in 1..N, NEW T \in Small(N, n), T # {}
      PROVE  T \ {Max(T)} \in Small(N, n - 1)
  <2>1. T \in SUBSET (1..N) /\ IsFiniteSet(T) /\ Cardinality(T) \in 0..N /\ Cardinality(T) <= n
    BY <1>2 DEF Small
  <2>2. Max(T) \in T
    BY <1>5, <2>1, MaxIn
  <2>3. Cardinality(T \ {Max(T)}) = Cardinality(T) - 1
    BY <2>1, <2>2, FS_RemoveElement
  <2>4. T \ {Max(T)} \in SUBSET (1..N)
    BY <2>1
  <2>5. Cardinality(T \ {Max(T)}) <= n - 1
    BY <2>1, <2>3
  <2> QED
    BY <2>4, <2>5 DEF Small
<1>6. Small(N, N) = SUBSET (1..N)
  BY <1>2 DEF Small
<1> QED
  BY <1>3, <1>4, <1>5, <1>6

LEMMA MaxOfFirst ==
  ASSUME NEW n \in Nat \ {0}
  PROVE  Max(1..n) = n /\ (1..n) \ {n} = 1..n - 1 /\ 1..n # {}
<1>1. 1..n # {} /\ n \in 1..n
  OBVIOUS
<1>2. Max(1..n) \in 1..n /\ \A y \in 1..n : y =< Max(1..n)
  BY <1>1, MaxIn
<1> QED
  BY <1>1, <1>2

\* closeRounds, the rounds in play.
UnfoldClose(base, seq, G, g) ==
  [T \in G |-> IF T = {} THEN base ELSE CloseRound(g[T \ {Max(T)}], seq[Max(T)])]
FoldClose(base, seq) == CHOOSE g : g = UnfoldClose(base, seq, SUBSET (DOMAIN seq), g)

LEMMA FoldCloseIs ==
  ASSUME NEW base, NEW seq
  PROVE  Closings(base, seq) = FoldClose(base, seq)[DOMAIN seq]
BY Zenon DEF Closings, FoldLeft, MapThenFoldSet, FoldClose, UnfoldClose

LEMMA FoldCloseExists ==
  ASSUME NEW base, NEW seq, NEW N \in Nat, DOMAIN seq = 1..N
  PROVE  \E g : g = UnfoldClose(base, seq, SUBSET (1..N), g)
<1> DEFINE A == {n \in 0..N : \E g : g = UnfoldClose(base, seq, Small(N, n), g)}
<1>1. 0 \in A
  <2>1. \A T \in Small(N, 0) : T = {}
    BY SmallSets
  <2>2. [T \in Small(N, 0) |-> base] = UnfoldClose(base, seq, Small(N, 0), [T \in Small(N, 0) |-> base])
    BY <2>1, Zenon DEF UnfoldClose
  <2> QED
    BY <2>2
<1>2. ASSUME NEW n \in 1..N, n - 1 \in A PROVE n \in A
  <2>1. PICK g : g = UnfoldClose(base, seq, Small(N, n - 1), g)
    BY <1>2
  <2>2. PICK h : h = UnfoldClose(base, seq, Small(N, n), g)
    OBVIOUS
  <2>3. /\ \A T \in Small(N, n) : T # {} => T \ {Max(T)} \in Small(N, n - 1)
        /\ Small(N, n - 1) \subseteq Small(N, n)
    BY SmallSets
  <2>4. ASSUME NEW U \in Small(N, n - 1) PROVE h[U] = g[U]
    <3>1. U \in Small(N, n)
      BY <2>3
    <3> DEFINE v == IF U = {} THEN base ELSE CloseRound(g[U \ {Max(U)}], seq[Max(U)])
    <3>2. h[U] = v
      BY <3>1, <2>2, Zenon DEF UnfoldClose
    <3>3. g[U] = v
      BY <2>1, Zenon DEF UnfoldClose
    <3> HIDE DEF v
    <3> QED
      BY <3>2, <3>3
  <2>5. ASSUME NEW T \in Small(N, n)
        PROVE  (IF T = {} THEN base ELSE CloseRound(g[T \ {Max(T)}], seq[Max(T)]))
                 = (IF T = {} THEN base ELSE CloseRound(h[T \ {Max(T)}], seq[Max(T)]))
    <3>1. T # {} => h[T \ {Max(T)}] = g[T \ {Max(T)}]
      BY <2>3, <2>4, Zenon
    <3> QED
      BY <3>1, Zenon
  <2>6. h = UnfoldClose(base, seq, Small(N, n), h)
    BY <2>2, <2>5, Zenon DEF UnfoldClose
  <2> QED
    BY <2>6
<1> HIDE DEF A
<1>3. N \in A
  BY <1>1, <1>2, Numbers!Counting
<1>4. Small(N, N) = SUBSET (1..N)
  BY SmallSets
<1> QED
  BY <1>3, <1>4 DEF A

CloseStates(base, seq, N) ==
  \E s : /\ s[0] = base
         /\ \A n \in 1..N : s[n] = CloseRound(s[n - 1], seq[n])
         /\ Closings(base, seq) = s[N]

LEMMA FoldCloseStates ==
  ASSUME NEW base, NEW seq, NEW N \in Nat, DOMAIN seq = 1..N
  PROVE  CloseStates(base, seq, N)
<1>1. PICK g : g = FoldClose(base, seq)
  OBVIOUS
<1>2. g = UnfoldClose(base, seq, SUBSET (1..N), g)
  BY <1>1, FoldCloseExists, Zenon DEF FoldClose
<1>3. PICK s : s = [n \in 0..N |-> g[1..n]]
  OBVIOUS
<1>4. s[0] = base
  <2>1. 1..0 = {} /\ {} \in SUBSET (1..N) /\ 0 \in 0..N
    OBVIOUS
  <2>2. g[{}] = base
    BY <1>2, <2>1, Zenon DEF UnfoldClose
  <2>3. s[0] = g[1..0]
    BY <1>3, <2>1
  <2> QED
    BY <2>1, <2>2, <2>3
<1>5. ASSUME NEW n \in 1..N PROVE s[n] = CloseRound(s[n - 1], seq[n])
  <2>1. n \in Nat \ {0} /\ n \in 0..N /\ n - 1 \in 0..N
    OBVIOUS
  <2>2. PICK T : T = 1..n
    OBVIOUS
  <2>3. T \in SUBSET (1..N)
    BY <2>2
  <2>4. Max(T) = n /\ T \ {n} = 1..n - 1 /\ T # {}
    BY <2>1, <2>2, MaxOfFirst
  <2>5. g[T] = CloseRound(g[T \ {Max(T)}], seq[Max(T)])
    BY <1>2, <2>3, <2>4, Zenon DEF UnfoldClose
  <2>6. s[n] = g[T] /\ s[n - 1] = g[T \ {Max(T)}]
    BY <1>3, <2>1, <2>2, <2>4
  <2> QED
    BY <2>4, <2>5, <2>6, Zenon
<1>6. Closings(base, seq) = s[N]
  <2>1. s[N] = g[1..N]
    BY <1>3
  <2> QED
    BY <1>1, <2>1, FoldCloseIs, Zenon
<1> QED
  BY <1>4, <1>5, <1>6 DEF CloseStates
\* closeRounds, the entries.
UnfoldEntry(id, base, seq, G, g) ==
  [T \in G |-> IF T = {} THEN base ELSE CloseEntry(id, g[T \ {Max(T)}], seq[Max(T)])]
FoldEntry(id, base, seq) == CHOOSE g : g = UnfoldEntry(id, base, seq, SUBSET (DOMAIN seq), g)

LEMMA FoldEntryIs ==
  ASSUME NEW id, NEW base, NEW seq
  PROVE  Scorings(id, base, seq) = FoldEntry(id, base, seq)[DOMAIN seq]
BY Zenon DEF Scorings, FoldLeft, MapThenFoldSet, FoldEntry, UnfoldEntry

LEMMA FoldEntryExists ==
  ASSUME NEW id, NEW base, NEW seq, NEW N \in Nat, DOMAIN seq = 1..N
  PROVE  \E g : g = UnfoldEntry(id, base, seq, SUBSET (1..N), g)
<1> DEFINE A == {n \in 0..N : \E g : g = UnfoldEntry(id, base, seq, Small(N, n), g)}
<1>1. 0 \in A
  <2>1. \A T \in Small(N, 0) : T = {}
    BY SmallSets
  <2>2. [T \in Small(N, 0) |-> base] = UnfoldEntry(id, base, seq, Small(N, 0), [T \in Small(N, 0) |-> base])
    BY <2>1, Zenon DEF UnfoldEntry
  <2> QED
    BY <2>2
<1>2. ASSUME NEW n \in 1..N, n - 1 \in A PROVE n \in A
  <2>1. PICK g : g = UnfoldEntry(id, base, seq, Small(N, n - 1), g)
    BY <1>2
  <2>2. PICK h : h = UnfoldEntry(id, base, seq, Small(N, n), g)
    OBVIOUS
  <2>3. /\ \A T \in Small(N, n) : T # {} => T \ {Max(T)} \in Small(N, n - 1)
        /\ Small(N, n - 1) \subseteq Small(N, n)
    BY SmallSets
  <2>4. ASSUME NEW U \in Small(N, n - 1) PROVE h[U] = g[U]
    <3>1. U \in Small(N, n)
      BY <2>3
    <3> DEFINE v == IF U = {} THEN base ELSE CloseEntry(id, g[U \ {Max(U)}], seq[Max(U)])
    <3>2. h[U] = v
      BY <3>1, <2>2, Zenon DEF UnfoldEntry
    <3>3. g[U] = v
      BY <2>1, Zenon DEF UnfoldEntry
    <3> HIDE DEF v
    <3> QED
      BY <3>2, <3>3
  <2>5. ASSUME NEW T \in Small(N, n)
        PROVE  (IF T = {} THEN base ELSE CloseEntry(id, g[T \ {Max(T)}], seq[Max(T)]))
                 = (IF T = {} THEN base ELSE CloseEntry(id, h[T \ {Max(T)}], seq[Max(T)]))
    <3>1. T # {} => h[T \ {Max(T)}] = g[T \ {Max(T)}]
      BY <2>3, <2>4, Zenon
    <3> QED
      BY <3>1, Zenon
  <2>6. h = UnfoldEntry(id, base, seq, Small(N, n), h)
    BY <2>2, <2>5, Zenon DEF UnfoldEntry
  <2> QED
    BY <2>6
<1> HIDE DEF A
<1>3. N \in A
  BY <1>1, <1>2, Numbers!Counting
<1>4. Small(N, N) = SUBSET (1..N)
  BY SmallSets
<1> QED
  BY <1>3, <1>4 DEF A

EntryStates(id, base, seq, N) ==
  \E s : /\ s[0] = base
         /\ \A n \in 1..N : s[n] = CloseEntry(id, s[n - 1], seq[n])
         /\ Scorings(id, base, seq) = s[N]

LEMMA FoldEntryStates ==
  ASSUME NEW id, NEW base, NEW seq, NEW N \in Nat, DOMAIN seq = 1..N
  PROVE  EntryStates(id, base, seq, N)
<1>1. PICK g : g = FoldEntry(id, base, seq)
  OBVIOUS
<1>2. g = UnfoldEntry(id, base, seq, SUBSET (1..N), g)
  BY <1>1, FoldEntryExists, Zenon DEF FoldEntry
<1>3. PICK s : s = [n \in 0..N |-> g[1..n]]
  OBVIOUS
<1>4. s[0] = base
  <2>1. 1..0 = {} /\ {} \in SUBSET (1..N) /\ 0 \in 0..N
    OBVIOUS
  <2>2. g[{}] = base
    BY <1>2, <2>1, Zenon DEF UnfoldEntry
  <2>3. s[0] = g[1..0]
    BY <1>3, <2>1
  <2> QED
    BY <2>1, <2>2, <2>3
<1>5. ASSUME NEW n \in 1..N PROVE s[n] = CloseEntry(id, s[n - 1], seq[n])
  <2>1. n \in Nat \ {0} /\ n \in 0..N /\ n - 1 \in 0..N
    OBVIOUS
  <2>2. PICK T : T = 1..n
    OBVIOUS
  <2>3. T \in SUBSET (1..N)
    BY <2>2
  <2>4. Max(T) = n /\ T \ {n} = 1..n - 1 /\ T # {}
    BY <2>1, <2>2, MaxOfFirst
  <2>5. g[T] = CloseEntry(id, g[T \ {Max(T)}], seq[Max(T)])
    BY <1>2, <2>3, <2>4, Zenon DEF UnfoldEntry
  <2>6. s[n] = g[T] /\ s[n - 1] = g[T \ {Max(T)}]
    BY <1>3, <2>1, <2>2, <2>4
  <2> QED
    BY <2>4, <2>5, <2>6, Zenon
<1>6. Scorings(id, base, seq) = s[N]
  <2>1. s[N] = g[1..N]
    BY <1>3
  <2> QED
    BY <1>1, <2>1, FoldEntryIs, Zenon
<1> QED
  BY <1>4, <1>5, <1>6 DEF EntryStates

\* The moves of a board.
UnfoldMoves(base, seq, G, g) ==
  [T \in G |-> IF T = {} THEN base ELSE Replayed(g[T \ {Max(T)}], seq[Max(T)])]
FoldMoves(base, seq) == CHOOSE g : g = UnfoldMoves(base, seq, SUBSET (DOMAIN seq), g)

LEMMA FoldMovesIs ==
  ASSUME NEW base, NEW seq
  PROVE  Replays(base, seq) = FoldMoves(base, seq)[DOMAIN seq]
BY Zenon DEF Replays, FoldLeft, MapThenFoldSet, FoldMoves, UnfoldMoves

LEMMA FoldMovesExists ==
  ASSUME NEW base, NEW seq, NEW N \in Nat, DOMAIN seq = 1..N
  PROVE  \E g : g = UnfoldMoves(base, seq, SUBSET (1..N), g)
<1> DEFINE A == {n \in 0..N : \E g : g = UnfoldMoves(base, seq, Small(N, n), g)}
<1>1. 0 \in A
  <2>1. \A T \in Small(N, 0) : T = {}
    BY SmallSets
  <2>2. [T \in Small(N, 0) |-> base] = UnfoldMoves(base, seq, Small(N, 0), [T \in Small(N, 0) |-> base])
    BY <2>1, Zenon DEF UnfoldMoves
  <2> QED
    BY <2>2
<1>2. ASSUME NEW n \in 1..N, n - 1 \in A PROVE n \in A
  <2>1. PICK g : g = UnfoldMoves(base, seq, Small(N, n - 1), g)
    BY <1>2
  <2>2. PICK h : h = UnfoldMoves(base, seq, Small(N, n), g)
    OBVIOUS
  <2>3. /\ \A T \in Small(N, n) : T # {} => T \ {Max(T)} \in Small(N, n - 1)
        /\ Small(N, n - 1) \subseteq Small(N, n)
    BY SmallSets
  <2>4. ASSUME NEW U \in Small(N, n - 1) PROVE h[U] = g[U]
    <3>1. U \in Small(N, n)
      BY <2>3
    <3> DEFINE v == IF U = {} THEN base ELSE Replayed(g[U \ {Max(U)}], seq[Max(U)])
    <3>2. h[U] = v
      BY <3>1, <2>2, Zenon DEF UnfoldMoves
    <3>3. g[U] = v
      BY <2>1, Zenon DEF UnfoldMoves
    <3> HIDE DEF v
    <3> QED
      BY <3>2, <3>3
  <2>5. ASSUME NEW T \in Small(N, n)
        PROVE  (IF T = {} THEN base ELSE Replayed(g[T \ {Max(T)}], seq[Max(T)]))
                 = (IF T = {} THEN base ELSE Replayed(h[T \ {Max(T)}], seq[Max(T)]))
    <3>1. T # {} => h[T \ {Max(T)}] = g[T \ {Max(T)}]
      BY <2>3, <2>4, Zenon
    <3> QED
      BY <3>1, Zenon
  <2>6. h = UnfoldMoves(base, seq, Small(N, n), h)
    BY <2>2, <2>5, Zenon DEF UnfoldMoves
  <2> QED
    BY <2>6
<1> HIDE DEF A
<1>3. N \in A
  BY <1>1, <1>2, Numbers!Counting
<1>4. Small(N, N) = SUBSET (1..N)
  BY SmallSets
<1> QED
  BY <1>3, <1>4 DEF A

MovesStates(base, seq, N) ==
  \E s : /\ s[0] = base
         /\ \A n \in 1..N : s[n] = Replayed(s[n - 1], seq[n])
         /\ Replays(base, seq) = s[N]

LEMMA FoldMovesStates ==
  ASSUME NEW base, NEW seq, NEW N \in Nat, DOMAIN seq = 1..N
  PROVE  MovesStates(base, seq, N)
<1>1. PICK g : g = FoldMoves(base, seq)
  OBVIOUS
<1>2. g = UnfoldMoves(base, seq, SUBSET (1..N), g)
  BY <1>1, FoldMovesExists, Zenon DEF FoldMoves
<1>3. PICK s : s = [n \in 0..N |-> g[1..n]]
  OBVIOUS
<1>4. s[0] = base
  <2>1. 1..0 = {} /\ {} \in SUBSET (1..N) /\ 0 \in 0..N
    OBVIOUS
  <2>2. g[{}] = base
    BY <1>2, <2>1, Zenon DEF UnfoldMoves
  <2>3. s[0] = g[1..0]
    BY <1>3, <2>1
  <2> QED
    BY <2>1, <2>2, <2>3
<1>5. ASSUME NEW n \in 1..N PROVE s[n] = Replayed(s[n - 1], seq[n])
  <2>1. n \in Nat \ {0} /\ n \in 0..N /\ n - 1 \in 0..N
    OBVIOUS
  <2>2. PICK T : T = 1..n
    OBVIOUS
  <2>3. T \in SUBSET (1..N)
    BY <2>2
  <2>4. Max(T) = n /\ T \ {n} = 1..n - 1 /\ T # {}
    BY <2>1, <2>2, MaxOfFirst
  <2>5. g[T] = Replayed(g[T \ {Max(T)}], seq[Max(T)])
    BY <1>2, <2>3, <2>4, Zenon DEF UnfoldMoves
  <2>6. s[n] = g[T] /\ s[n - 1] = g[T \ {Max(T)}]
    BY <1>3, <2>1, <2>2, <2>4
  <2> QED
    BY <2>4, <2>5, <2>6, Zenon
<1>6. Replays(base, seq) = s[N]
  <2>1. s[N] = g[1..N]
    BY <1>3
  <2> QED
    BY <1>1, <2>1, FoldMovesIs, Zenon
<1> QED
  BY <1>4, <1>5, <1>6 DEF MovesStates

-----------------------------------------------------------------------------
(* The boards of the game.                                                   *)

Cards == Int

BoardOK(b) ==
  /\ b = [columns |-> b.columns, waste |-> b.waste, stock |-> b.stock]
  /\ b.columns \in [0..ColumnCount - 1 -> Seq(Cards)]
  /\ b.stock \in Seq(Cards)

LEMMA Stretch ==
  ASSUME NEW a \in Nat, NEW b \in Nat, NEW d \in Nat, a < b
  PROVE  a * d \in Nat /\ (a + 1) * d = a * d + d /\ a * d + d <= b * d /\ b * d \in Nat
<1>1. a * d \in Nat /\ b * d \in Nat /\ (a + 1) * d = a * d + d
  OBVIOUS
<1>2. PICK c \in Nat : b = a + 1 + c
  <2>1. b - a - 1 \in Nat /\ b = a + 1 + (b - a - 1)
    OBVIOUS
  <2> QED
    BY <2>1
<1>3. b * d = (a + 1) * d + c * d /\ c * d \in Nat
  BY <1>2
<1> QED
  BY <1>1, <1>3

\* A deal.
LEMMA DealOK ==
  ASSUME NEW seed \in Seeds
  PROVE  BoardOK(Deal(seed))
<1>1. PICK deck : deck = Deck[seed]
  OBVIOUS
<1>2. PICK n : n = TableauSize
  OBVIOUS
<1>3. /\ n = ColumnCount * ColumnDepth /\ n \in Nat /\ StockSize \in Nat
      /\ ColumnCount \in Nat \ {0} /\ ColumnDepth \in Nat \ {0}
  BY <1>2, LadderAssumption DEF TableauSize
<1>a. PICK N : N = n + 1 + StockSize
  OBVIOUS
<1>b. deck \in [1..N -> 0..51]
  BY <1>1, <1>2, <1>a, LadderAssumption
<1>c. N \in Nat
  BY <1>3, <1>a
<1>4. DOMAIN deck = 1..N /\ \A i \in 1..N : deck[i] \in Cards
  <2>1. \A x \in 0..51 : x \in Cards
    BY DEF Cards
  <2> QED
    BY <1>b, <2>1
<1>5. deck \in Seq(Cards) /\ Len(deck) = N
  <2>1. deck \in [1..N -> Cards]
    BY <1>b, <1>4
  <2> HIDE DEF Cards
  <2> QED
    BY <1>c, <2>1
<1>6. ASSUME NEW c \in 0..ColumnCount - 1
      PROVE  SubSeq(deck, c * ColumnDepth + 1, (c + 1) * ColumnDepth) \in Seq(Cards)
  <2>1. PICK a : a = c * ColumnDepth
    OBVIOUS
  <2>2. a \in Nat /\ (c + 1) * ColumnDepth = a + ColumnDepth /\ a + ColumnDepth <= n
    BY <1>3, <2>1, Stretch
  <2>3. SubSeq(deck, a + 1, a + ColumnDepth) \in Seq(Cards)
    BY <1>3, <2>2, <1>a, <1>4, <1>5
  <2> QED
    BY <2>1, <2>2, <2>3
<1>7. SubSeq(deck, n + 2, Len(deck)) \in Seq(Cards)
  <2>1. PICK L : L = StockSize
    OBVIOUS
  <2>2. L \in Nat /\ SubSeq(deck, n + 2, Len(deck)) = [i \in 1..L |-> deck[i + n + 1]]
    BY <1>3, <1>5, <1>a, <2>1
  <2>3. \A i \in 1..L : deck[i + n + 1] \in Cards
    BY <1>3, <1>4, <1>a, <2>1
  <2>4. PICK s : s = SubSeq(deck, n + 2, Len(deck))
    OBVIOUS
  <2>5. s \in [1..L -> Cards]
    BY <2>2, <2>3, <2>4
  <2>6. s \in Seq(Cards)
    <3> HIDE DEF Cards
    <3> QED
      BY <2>2, <2>5
  <2> QED
    BY <2>4, <2>6
<1>8. PICK cs, st, ws : /\ cs = [c \in 0..ColumnCount - 1 |->
                             SubSeq(deck, c * ColumnDepth + 1, (c + 1) * ColumnDepth)]
                    /\ st = SubSeq(deck, n + 2, Len(deck))
                    /\ ws = <<deck[n + 1]>>
  OBVIOUS
<1>9. Deal(seed) = [columns |-> cs, waste |-> ws, stock |-> st]
  BY <1>1, <1>2, <1>8, Zenon DEF Deal
<1>10. cs \in [0..ColumnCount - 1 -> Seq(Cards)] /\ st \in Seq(Cards)
  BY <1>6, <1>7, <1>8
<1> QED
  BY <1>9, <1>10 DEF BoardOK

\* A legal move.
LEMMA MovedOK ==
  ASSUME NEW b, BoardOK(b), NEW m, Legal(b, m)
  PROVE  BoardOK(Moved(b, m))
<1>0. /\ b = [columns |-> b.columns, waste |-> b.waste, stock |-> b.stock]
      /\ b.columns \in [0..ColumnCount - 1 -> Seq(Cards)]
      /\ b.stock \in Seq(Cards)
  BY DEF BoardOK
<1>1. CASE m.kind = "draw"
  <2>1. b.stock # <<>>
    BY <1>1 DEF Legal
  <2>2. PICK s, ws : s = Tail(b.stock) /\ ws = Append(b.waste, Head(b.stock))
    OBVIOUS
  <2>3. s \in Seq(Cards)
    BY <1>0, <2>1, <2>2
  <2>4. Moved(b, m) = [columns |-> b.columns, waste |-> ws, stock |-> s]
    BY <1>0, <1>1, <2>2 DEF Moved
  <2> QED
    BY <1>0, <2>3, <2>4 DEF BoardOK
<1>2. CASE m.kind # "draw"
  <2>1. m.column \in Playable(b)
    BY <1>2 DEF Legal
  <2>2. m.column \in 0..ColumnCount - 1 /\ b.columns[m.column] # <<>>
    BY <1>0, <2>1 DEF Playable
  <2>3. PICK s, ws, cs : s = Front(b.columns[m.column]) /\ ws = Append(b.waste, Last(b.columns[m.column]))
                         /\ cs = [b.columns EXCEPT ![m.column] = s]
    OBVIOUS
  <2>4. s \in Seq(Cards)
    <3>1. PICK col : col = b.columns[m.column]
      OBVIOUS
    <3>2. col \in Seq(Cards) /\ col # <<>>
      BY <1>0, <2>2, <3>1
    <3>3. s = SubSeq(col, 1, Len(col) - 1)
      BY <2>3, <3>1 DEF Front
    <3>4. Len(col) \in Nat \ {0}
      BY <3>2
    <3> QED
      BY <3>2, <3>3, <3>4
  <2>5. cs \in [0..ColumnCount - 1 -> Seq(Cards)]
    BY <1>0, <2>2, <2>3, <2>4
  <2>6. Moved(b, m) = [columns |-> cs, waste |-> ws, stock |-> b.stock]
    BY <1>0, <1>2, <2>3 DEF Moved
  <2> QED
    BY <1>0, <2>5, <2>6 DEF BoardOK
<1> QED
  BY <1>1, <1>2

\* Every board a round can come to.
LEMMA BoardOfOK ==
  ASSUME NEW seed \in Seeds, NEW moves, NEW N \in Nat, DOMAIN moves = 1..N
  PROVE  BoardOK(BoardOf(seed, moves))
<1>1. PICK base : base = [board |-> Deal(seed), stuck |-> FALSE]
  OBVIOUS
<1>2. PICK s : /\ s[0] = base
               /\ \A n \in 1..N : s[n] = Replayed(s[n - 1], moves[n])
               /\ Replays(base, moves) = s[N]
  <2>1. MovesStates(base, moves, N)
    BY FoldMovesStates
  <2> QED
    BY <2>1 DEF MovesStates
<1> DEFINE Fine(x) == x = [board |-> x.board, stuck |-> x.stuck] /\ BoardOK(x.board)
           A == {n \in 0..N : Fine(s[n])}
<1>3. 0 \in A
  BY <1>1, <1>2, DealOK
<1>4. ASSUME NEW n \in 1..N, n - 1 \in A PROVE n \in A
  <2>1. PICK x : x = s[n - 1]
    OBVIOUS
  <2>2. Fine(x) /\ s[n] = Replayed(x, moves[n])
    BY <1>2, <1>4, <2>1
  <2>3. CASE x.stuck \/ ~Legal(x.board, moves[n])
    BY <2>2, <2>3 DEF Replayed
  <2>4. CASE ~(x.stuck \/ ~Legal(x.board, moves[n]))
    <3>1. PICK b : b = Moved(x.board, moves[n])
      OBVIOUS
    <3>2. BoardOK(b)
      BY <2>2, <2>4, <3>1, MovedOK
    <3>3. s[n] = [x EXCEPT !.board = b]
      BY <2>2, <2>4, <3>1 DEF Replayed
    <3>4. s[n] = [board |-> b, stuck |-> x.stuck]
      BY <2>2, <3>3
    <3> QED
      BY <3>2, <3>4
  <2> QED
    BY <2>3, <2>4
<1> HIDE DEF A
<1>5. N \in A
  BY <1>3, <1>4, Numbers!Counting
<1>6. BoardOK(s[N].board)
  BY <1>5 DEF A
<1> QED
  BY <1>1, <1>2, <1>6, Zenon DEF BoardOf, Replays

\* What it is worth.
Worth(rec) == BoardScore(BoardOf(rec.seed, rec.moves))

LEMMA ScoreTyped ==
  ASSUME NEW b, BoardOK(b)
  PROVE  BoardScore(b) \in Int
<1>1. ColumnCount \in Nat \ {0} /\ TableauSize \in Nat /\ PointsPerCard \in Nat /\ ClearBonus \in Nat
      /\ StockBonus \in Nat
  BY LadderAssumption DEF TableauSize
<1>2. PICK f : f = [c \in DOMAIN b.columns |-> Len(b.columns[c])]
  OBVIOUS
<1>3. PICK S : S = 0..ColumnCount - 1
  OBVIOUS
<1>4. DOMAIN b.columns = S /\ DOMAIN f = S
  BY <1>2, <1>3 DEF BoardOK
<1>5. IsFiniteSet(S)
  BY <1>1, <1>3, FS_Interval
<1>6. \A c \in S : f[c] \in Int
  BY <1>2, <1>3, <1>4 DEF BoardOK
<1>7. SumFunctionOnSet(f, S) \in Int
  BY <1>5, <1>6, SumType DEF Ints
<1>8. SumFunction(f) \in Int
  BY <1>4, <1>7, SumOver
<1>9. PICK c : c = Cleared(b)
  OBVIOUS
<1>10. c \in Int
  BY <1>1, <1>2, <1>8, <1>9 DEF Cleared
<1>11. Len(b.stock) \in Nat
  BY DEF BoardOK
<1>12. PICK l \in Nat : l = Len(b.stock)
  BY <1>11
<1>13. PointsPerCard * c \in Int /\ ClearBonus + StockBonus * l \in Int
  BY <1>1, <1>10, <1>12
<1>14. BoardScore(b) = PointsPerCard * c + IF c = TableauSize THEN ClearBonus + StockBonus * l ELSE 0
  BY <1>9, <1>12 DEF BoardScore
<1> QED
  BY <1>13, <1>14

LEMMA WorthTyped ==
  ASSUME NEW rec, rec.seed \in Seeds, NEW S, rec.moves \in Seq(S)
  PROVE  Worth(rec) \in Int
<1>1. Len(rec.moves) \in Nat /\ DOMAIN rec.moves = 1..Len(rec.moves)
  OBVIOUS
<1> QED
  BY <1>1, BoardOfOK, ScoreTyped DEF Worth

-----------------------------------------------------------------------------
(* The rounds of an entry: some finished ones, then perhaps one in play, then *)
(* those that are not dealt.                                                 *)

Moves == {c.op.move : c \in Commands}

\* A round: nothing before it is dealt, and its score by the rules of the game
\* once it is finished.
RecOK(rec) ==
  /\ rec = [status |-> rec.status, seed |-> rec.seed, moves |-> rec.moves,
            reason |-> rec.reason, score |-> rec.score, startedAt |-> rec.startedAt,
            deadline |-> rec.deadline, finishedAt |-> rec.finishedAt]
  /\ rec.status \in {"none", "playing", "finished"}
  /\ rec.status = "none" => rec = NoRound
  /\ rec.status # "none" => rec.seed \in Seeds /\ rec.moves \in Seq(Moves)
  /\ rec.status = "finished" => rec.score = Worth(rec)

HandOK(rs, id, p) ==
  /\ \A r \in 1..Rounds : RecOK(rs[<<id, p, r>>])
  /\ \A r, s \in 1..Rounds :
       r < s /\ rs[<<id, p, s>>].status # "none" => rs[<<id, p, r>>].status = "finished"

\* The rounds with a status.
With(rs, id, p, status) == {r \in 1..Rounds : rs[<<id, p, r>>].status = status}

\* How far an entry has come: d rounds are dealt.
Upto(rs, id, p, d) ==
  /\ d \in 0..Rounds
  /\ With(rs, id, p, "none") = d + 1..Rounds
  /\ \/ With(rs, id, p, "playing") = {} /\ With(rs, id, p, "finished") = 1..d
     \/ /\ d > 0 /\ With(rs, id, p, "playing") = {d}
        /\ With(rs, id, p, "finished") = 1..d - 1

LEMMA HandUpto ==
  ASSUME NEW rs, NEW id, NEW p, HandOK(rs, id, p)
  PROVE  \E d \in 0..Rounds : Upto(rs, id, p, d)
<1>0. Rounds \in Nat \ {0}
  BY LadderAssumption
<1>1. PICK N \in Nat : N = Rounds
  BY <1>0
<1>2. PICK st : st = [r \in 1..N |-> rs[<<id, p, r>>].status]
  OBVIOUS
<1>3. \A r \in 1..N : st[r] \in {"none", "playing", "finished"}
  BY <1>1, <1>2 DEF HandOK, RecOK
<1>4. \A r, s \in 1..N : r < s /\ st[s] # "none" => st[r] = "finished"
  BY <1>1, <1>2 DEF HandOK
<1>5. \A status : With(rs, id, p, status) = {r \in 1..N : st[r] = status}
  BY <1>1, <1>2 DEF With
<1>6. PICK D : D = {r \in 1..N : st[r] # "none"}
  OBVIOUS
<1>7. PICK d \in 0..N : /\ \A r \in 1..N : st[r] # "none" => r <= d
                        /\ d > 0 => st[d] # "none"
  <2>1. CASE D = {}
    BY <1>6, <2>1
  <2>2. CASE D # {}
    <3>1. D \in SUBSET (1..N)
      BY <1>6
    <3>2. PICK d : d = Max(D)
      OBVIOUS
    <3>3. d \in D /\ \A y \in D : y =< d
      BY <2>2, <3>1, <3>2, MaxIn
    <3>4. d \in 0..N /\ st[d] # "none" /\ \A r \in 1..N : st[r] # "none" => r <= d
      BY <1>6, <3>1, <3>3
    <3> QED
      BY <3>4
  <2> QED
    BY <2>1, <2>2
<1>8. \A r \in 1..N : r < d => st[r] = "finished"
  BY <1>4, <1>7
<1>9. {r \in 1..N : st[r] = "none"} = d + 1..N
  BY <1>7, <1>8
<1>10. CASE d = 0
  <2>1. {r \in 1..N : st[r] = "playing"} = {} /\ {r \in 1..N : st[r] = "finished"} = 1..d
    BY <1>7, <1>10
  <2> QED
    BY <1>1, <1>5, <1>7, <1>9, <2>1 DEF Upto
<1>11. CASE d > 0 /\ st[d] = "playing"
  <2>1. {r \in 1..N : st[r] = "playing"} = {d} /\ {r \in 1..N : st[r] = "finished"} = 1..d - 1
    BY <1>7, <1>8, <1>11
  <2> QED
    BY <1>1, <1>5, <1>7, <1>9, <1>11, <2>1 DEF Upto
<1>12. CASE d > 0 /\ st[d] = "finished"
  <2>1. {r \in 1..N : st[r] = "playing"} = {} /\ {r \in 1..N : st[r] = "finished"} = 1..d
    BY <1>7, <1>8, <1>12
  <2> QED
    BY <1>1, <1>5, <1>7, <1>9, <2>1 DEF Upto
<1> QED
  BY <1>3, <1>7, <1>10, <1>11, <1>12

\* What Progress then says.
ProgressAs(rs, id, p, d, g) ==
  /\ g.dealt = d
  /\ g.finished + (IF g.inPlay = 0 THEN 0 ELSE 1) = d
  /\ g.inPlay \in {0, d} /\ g.finished \in 0..d
  /\ g.inPlay = 0 <=> With(rs, id, p, "playing") = {}
  /\ g.inPlay # 0 => With(rs, id, p, "playing") = {d}
  /\ g.next = IF g.inPlay # 0 \/ d = Rounds THEN 0 ELSE d + 1
  /\ g.total = SumFunction([r \in With(rs, id, p, "finished") |-> rs[<<id, p, r>>].score])

LEMMA ProgressIs ==
  ASSUME NEW rs, NEW id, NEW p, NEW d, Upto(rs, id, p, d), NEW g, g = Progress(rs, id, p)
  PROVE  ProgressAs(rs, id, p, d, g)
<1>0. Rounds \in Nat \ {0} /\ d \in 0..Rounds
  BY LadderAssumption DEF Upto
<1>1. PICK N \in Nat : N = Rounds
  BY <1>0
<1>2. PICK U, F, P : /\ U = With(rs, id, p, "none") /\ F = With(rs, id, p, "finished")
                     /\ P = With(rs, id, p, "playing")
  OBVIOUS
<1>3. /\ g.dealt = Rounds - Cardinality(U)
      /\ g.finished = Cardinality(F)
      /\ g.inPlay = Max({0} \cup P)
      /\ g.next = IF P # {} \/ U = {} THEN 0 ELSE Min(U)
      /\ g.total = SumFunction([r \in F |-> rs[<<id, p, r>>].score])
  BY <1>2, Zenon DEF Progress, With
<1>4. /\ U = d + 1..N
      /\ \/ P = {} /\ F = 1..d
         \/ d > 0 /\ P = {d} /\ F = 1..d - 1
  BY <1>1, <1>2 DEF Upto
<1>5. Cardinality(U) = N - d
  BY <1>0, <1>1, <1>4, FS_Interval
<1>6. g.dealt = d
  BY <1>0, <1>1, <1>3, <1>5
<1>7. Max({0}) = 0
  BY DEF Max
<1>8. d > 0 => Max({0} \cup {d}) = d
  BY <1>0 DEF Max
<1>9. U # {} => Min(U) = d + 1
  <2>1. ASSUME U # {} PROVE d + 1 \in U /\ \A y \in U : d + 1 =< y
    BY <1>0, <1>1, <1>4, <2>1
  <2>2. ASSUME U # {} PROVE \A x \in U : (\A y \in U : x =< y) => x = d + 1
    BY <1>0, <1>1, <1>4, <2>1, <2>2
  <2> QED
    BY <2>1, <2>2 DEF Min
<1>10. U = {} <=> d = N
  BY <1>0, <1>1, <1>4
<1>t. g.total = SumFunction([r \in With(rs, id, p, "finished") |-> rs[<<id, p, r>>].score])
  BY <1>2, <1>3, Zenon
<1>n. g.next = IF P # {} \/ d = N THEN 0 ELSE d + 1
  BY <1>3, <1>9, <1>10
<1>c. g.finished = Cardinality(F) /\ g.inPlay = Max({0} \cup P)
  BY <1>3
<1>11. /\ g.finished + (IF g.inPlay = 0 THEN 0 ELSE 1) = d
       /\ g.inPlay \in {0, d} /\ g.finished \in 0..d
       /\ g.inPlay = 0 <=> P = {}
       /\ g.inPlay # 0 => P = {d}
  <2>1. CASE P = {} /\ F = 1..d
    <3>1. Cardinality(F) = d
      BY <1>0, <2>1, FS_Interval
    <3>2. g.inPlay = 0 /\ g.finished = d
      BY <1>c, <1>7, <2>1, <3>1
    <3> QED
      BY <1>0, <2>1, <3>2
  <2>2. CASE d > 0 /\ P = {d} /\ F = 1..d - 1
    <3>1. Cardinality(F) = d - 1
      BY <1>0, <2>2, FS_Interval
    <3>2. g.inPlay = d /\ g.finished = d - 1
      BY <1>c, <1>8, <2>2, <3>1
    <3> QED
      BY <1>0, <2>2, <3>2
  <2> QED
    BY <1>4, <2>1, <2>2
<1>12. g.next = IF g.inPlay # 0 \/ d = Rounds THEN 0 ELSE d + 1
  BY <1>1, <1>n, <1>11
<1> QED
  BY <1>2, <1>6, <1>11, <1>12, <1>t, Zenon DEF ProgressAs

\* The status of the first and of the last round.
LEMMA UptoEnds ==
  ASSUME NEW rs, NEW id, NEW p, HandOK(rs, id, p), NEW d, Upto(rs, id, p, d)
  PROVE  /\ rs[<<id, p, 1>>].status = "none" <=> d = 0
         /\ rs[<<id, p, Rounds>>].status = "finished"
              <=> d = Rounds /\ With(rs, id, p, "playing") = {}
         /\ \A r \in 1..Rounds : rs[<<id, p, r>>].status = "none" <=> r > d
         /\ \A r \in 1..Rounds : r < d => rs[<<id, p, r>>].status = "finished"
<1>0. Rounds \in Nat \ {0} /\ d \in 0..Rounds /\ 1 \in 1..Rounds /\ Rounds \in 1..Rounds
  BY LadderAssumption DEF Upto
<1>1. \A r \in 1..Rounds : \A st : rs[<<id, p, r>>].status = st <=> r \in With(rs, id, p, st)
  BY DEF With
<1>2. \A r \in 1..Rounds : r \in d + 1..Rounds <=> r > d
  BY <1>0
<1>3. \A r \in 1..Rounds : rs[<<id, p, r>>].status = "none" <=> r > d
  BY <1>1, <1>2 DEF Upto
<1>4. \A r \in 1..Rounds : r < d => r \in With(rs, id, p, "finished")
  BY <1>0 DEF Upto
<1>5. Rounds \in With(rs, id, p, "finished") <=> d = Rounds /\ With(rs, id, p, "playing") = {}
  BY <1>0 DEF Upto
<1> QED
  BY <1>0, <1>1, <1>3, <1>4, <1>5

-----------------------------------------------------------------------------
(* A tournament and its rounds.                                              *)

\* An entry is scored with its total when its last round is finished or, if it
\* has a round, when the tournament closes.
EntryOK(id, t, rs, i) ==
  LET e == t.entries[i]
      p == e.player.id
  IN /\ p \in Players
     /\ e.scored => e.score = Progress(rs, id, p).total
     /\ t.status = "open" => (e.scored <=> rs[<<id, p, Rounds>>].status = "finished")
     /\ t.status # "open" => (e.scored <=> rs[<<id, p, 1>>].status # "none")

TrackOK(id, t, rs) ==
  /\ \A p \in Players : HandOK(rs, id, p)
  /\ \A p \in Players : rs[<<id, p, 1>>].status # "none" =>
       t.status # "absent" /\ t.rules.game # "" /\ Joined(t, p)
  /\ t.status # "open" =>
       \A p \in Players, r \in 1..Rounds : rs[<<id, p, r>>].status # "playing"
  /\ t.rules.game # "" => \A i \in DOMAIN t.entries : EntryOK(id, t, rs, i)

LEMMA ProgressSame ==
  ASSUME NEW rs, NEW rs2, NEW id, NEW p,
         \A r \in 1..Rounds : rs2[<<id, p, r>>] = rs[<<id, p, r>>]
  PROVE  Progress(rs2, id, p) = Progress(rs, id, p)
<1> DEFINE Scores(x, F) == [r \in F |-> x[<<id, p, r>>].score]
           Ends(x, F) == {x[<<id, p, r>>].finishedAt : r \in F}
           Of(x) == [dealt |-> Rounds - Cardinality(With(x, id, p, "none")),
                     finished |-> Cardinality(With(x, id, p, "finished")),
                     total |-> SumFunction(Scores(x, With(x, id, p, "finished"))),
                     reachedAt |-> Max({0} \cup Ends(x, With(x, id, p, "finished"))),
                     inPlay |-> Max({0} \cup With(x, id, p, "playing")),
                     next |-> IF With(x, id, p, "playing") # {} \/ With(x, id, p, "none") = {}
                              THEN 0 ELSE Min(With(x, id, p, "none"))]
<1>1. \A x : Progress(x, id, p) = Of(x)
  BY Zenon DEF Progress, With
<1>2. \A status : With(rs2, id, p, status) = With(rs, id, p, status)
  BY DEF With
<1>3. PICK F : F = With(rs, id, p, "finished")
  OBVIOUS
<1>4. F \subseteq 1..Rounds
  BY <1>3 DEF With
<1>5. Scores(rs2, F) = Scores(rs, F)
  BY <1>4, Zenon
<1>6. Ends(rs2, F) = Ends(rs, F)
  BY <1>4
<1> HIDE DEF Scores, Ends
<1>7. Of(rs2) = Of(rs)
  BY <1>2, <1>3, <1>5, <1>6, Zenon
<1> QED
  BY <1>1, <1>7, Zenon

\* What a tournament makes of the rounds depends on its own rounds alone.
LEMMA TrackSame ==
  ASSUME NEW id, NEW t, NEW rs, NEW rs2, TrackOK(id, t, rs),
         FieldOK(t.entries),
         \A p \in Players, r \in 1..Rounds : rs2[<<id, p, r>>] = rs[<<id, p, r>>]
  PROVE  TrackOK(id, t, rs2)
<1>0. 1 \in 1..Rounds /\ Rounds \in 1..Rounds
  BY LadderAssumption
<1>1. \A p \in Players : HandOK(rs2, id, p)
  BY DEF TrackOK, HandOK
<1>2. \A p \in Players : rs2[<<id, p, 1>>].status # "none" =>
        t.status # "absent" /\ t.rules.game # "" /\ Joined(t, p)
  BY <1>0 DEF TrackOK
<1>3. t.status # "open" =>
        \A p \in Players, r \in 1..Rounds : rs2[<<id, p, r>>].status # "playing"
  BY DEF TrackOK
<1>4. ASSUME t.rules.game # "", NEW i \in DOMAIN t.entries PROVE EntryOK(id, t, rs2, i)
  <2>1. PICK e, p : e = t.entries[i] /\ p = e.player.id
    OBVIOUS
  <2>2. EntryOK(id, t, rs, i)
    BY <1>4 DEF TrackOK
  <2>3. p \in Players
    BY <2>1, <2>2 DEF EntryOK
  <2>4. Progress(rs2, id, p) = Progress(rs, id, p)
    BY <2>3, ProgressSame
  <2>5. rs2[<<id, p, 1>>] = rs[<<id, p, 1>>] /\ rs2[<<id, p, Rounds>>] = rs[<<id, p, Rounds>>]
    BY <1>0, <2>3
  <2> QED
    BY <2>1, <2>2, <2>4, <2>5 DEF EntryOK
<1> QED
  BY <1>1, <1>2, <1>3, <1>4 DEF TrackOK

\* What finishRound and scoreEntry change.
WorldShape(w) == w = [t |-> w.t, rounds |-> w.rounds, events |-> w.events]

Ended(rec, reason) ==
  [rec EXCEPT !.status = "finished", !.reason = reason, !.score = Worth(rec),
              !.finishedAt = applied + 1]

ScoredAt(t, i, total) ==
  [t EXCEPT !.entries = [t.entries EXCEPT ![i] =
     WithScore(t.entries[i], total, ScoredCount(t) + 1)]]

LEMMA ScoreEntryIs ==
  ASSUME NEW w, WorldShape(w), NEW id, NEW i, NEW total,
         total = Progress(w.rounds, id, w.t.entries[i].player.id).total,
         NEW v, v = ScoreEntry(w, id, i)
  PROVE  WorldShape(v) /\ v.t = ScoredAt(w.t, i, total) /\ v.rounds = w.rounds
<1>1. PICK t, rs, ev : w = [t |-> t, rounds |-> rs, events |-> ev]
  BY DEF WorldShape
<1>2. w.t = t /\ w.rounds = rs /\ w.events = ev
  BY <1>1
<1>3. PICK u, evs : u = ScoredAt(t, i, total)
                    /\ evs = Append(ev, Event("entry_scored", id, t.entries[i].player.id, total))
  OBVIOUS
<1>4. ScoreEntry(w, id, i) = [w EXCEPT !.t = u, !.events = evs]
  BY <1>1, <1>2, <1>3 DEF ScoreEntry, ScoredAt, WithScore
<1>5. ScoreEntry(w, id, i) = [t |-> u, rounds |-> rs, events |-> evs]
  BY <1>1, <1>4
<1> QED
  BY <1>2, <1>3, <1>5 DEF WorldShape

\* v is w with round r of p finished, and the entry scored by the last round.
FinishedAs(w, v, p, r, rs, total) ==
  /\ WorldShape(v) /\ v.rounds = rs
  /\ v.t = IF r = Rounds /\ ~w.t.entries[EntryOf(w.t, p)].scored
           THEN ScoredAt(w.t, EntryOf(w.t, p), total) ELSE w.t

LEMMA FinishIs ==
  ASSUME NEW w, WorldShape(w), NEW id, NEW p, NEW r, NEW k, k = <<id, p, r>>,
         NEW reason, NEW closing, NEW rs,
         rs = [w.rounds EXCEPT ![k] = Ended(w.rounds[k], reason)],
         NEW i, i = EntryOf(w.t, p), NEW total,
         total = Progress(rs, id, w.t.entries[i].player.id).total,
         NEW v, v = FinishWorld(w, k, reason, closing)
  PROVE  FinishedAs(w, v, p, r, rs, total)
<1>0. k[1] = id /\ k[2] = p /\ k[3] = r
  OBVIOUS
<1>1. PICK t, old, ev : w = [t |-> t, rounds |-> old, events |-> ev]
  BY DEF WorldShape
<1>2. w.t = t /\ w.rounds = old /\ w.events = ev
  BY <1>1
<1>3. PICK score : score = BoardScore(BoardOf(old[k].seed, old[k].moves))
  OBVIOUS
<1>4. PICK evs : evs = IF closing THEN Append(ev, Event("round_finished", id, p, score))
                       ELSE RecordLeaderboard(Append(ev, Event("round_finished", id, p, score)), id)
  OBVIOUS
<1>5. PICK done : done = [w EXCEPT
                 !.rounds[k] = [@ EXCEPT !.status = "finished", !.reason = reason,
                                         !.score = score, !.finishedAt = applied + 1],
                 !.events = evs]
  OBVIOUS
<1>6. rs = [old EXCEPT ![k] = [old[k] EXCEPT !.status = "finished", !.reason = reason,
                                         !.score = score, !.finishedAt = applied + 1]]
  BY <1>2, <1>3, Zenon DEF Ended, Worth
<1>7. done = [t |-> t, rounds |-> rs, events |-> evs]
  BY <1>1, <1>5, <1>6
<1>8. FinishWorld(w, k, reason, closing) =
        IF r = Rounds /\ ~t.entries[i].scored THEN ScoreEntry(done, id, i) ELSE done
  BY <1>0, <1>2, <1>3, <1>4, <1>5, Zenon DEF FinishWorld
<1>9. WorldShape(done) /\ done.t = t /\ done.rounds = rs
  BY <1>7 DEF WorldShape
<1>10. PICK x : x = ScoreEntry(done, id, i)
  OBVIOUS
<1>11. WorldShape(x) /\ x.t = ScoredAt(t, i, total) /\ x.rounds = rs
  BY <1>2, <1>9, <1>10, ScoreEntryIs
<1>12. CASE r = Rounds /\ ~t.entries[i].scored
  BY <1>2, <1>8, <1>10, <1>11, <1>12 DEF FinishedAs
<1>13. CASE ~(r = Rounds /\ ~t.entries[i].scored)
  BY <1>2, <1>8, <1>9, <1>13 DEF FinishedAs
<1> QED
  BY <1>12, <1>13

\* The state of a tournament that takes play commands, as they work on it.
OpenOK(id, w) ==
  /\ WorldShape(w) /\ TourOK(w.t) /\ w.t.status = "open" /\ w.t.rules.game # ""
  /\ DOMAIN w.rounds = RoundKeys
  /\ TrackOK(id, w.t, w.rounds)

\* Scores aside, nothing of the tournament changes.
SameField(t, u) ==
  /\ u.status = t.status /\ u.rules = t.rules /\ u.payouts = t.payouts /\ u.seed = t.seed
  /\ u.fees = t.fees /\ u.rake = t.rake /\ u.pool = t.pool /\ u.standings = t.standings
  /\ Len(u.entries) = Len(t.entries)
  /\ \A i \in 1..Len(t.entries) : u.entries[i].player = t.entries[i].player

LEMMA SameFieldJoined ==
  ASSUME NEW t, NEW u, FieldOK(t.entries), FieldOK(u.entries), SameField(t, u), NEW p
  PROVE  Joined(u, p) <=> Joined(t, p)
BY DEF SameField, FieldOK, Joined

LEMMA EntryIs ==
  ASSUME NEW t, FieldOK(t.entries), NEW i \in DOMAIN t.entries
  PROVE  EntryOf(t, t.entries[i].player.id) = i /\ Joined(t, t.entries[i].player.id)
<1>1. DOMAIN t.entries = 1..Len(t.entries)
  BY DEF FieldOK
<1>2. PICK p : p = t.entries[i].player.id
  OBVIOUS
<1>3. Joined(t, p)
  BY <1>2 DEF Joined
<1>4. PICK k : k = EntryOf(t, p)
  OBVIOUS
<1>5. k \in DOMAIN t.entries /\ t.entries[k].player.id = p
  BY <1>3, <1>4, EntryFound
<1>6. k = i
  BY <1>1, <1>2, <1>5 DEF FieldOK
<1> QED
  BY <1>2, <1>3, <1>4, <1>6

\* u is t with entry i scored.
ScoredIn(t, u, i, total) ==
  /\ TourOK(u) /\ SameField(t, u)
  /\ u.entries[i].scored /\ u.entries[i].score = total
  /\ u.entries[i].submitSeq = ScoredCount(t) + 1 /\ u.entries[i].joinSeq = t.entries[i].joinSeq
  /\ \A j \in DOMAIN t.entries : j # i => u.entries[j] = t.entries[j]

LEMMA ScoredAtKeeps ==
  ASSUME NEW t, TourOK(t), t.status = "open", NEW i \in DOMAIN t.entries,
         ~t.entries[i].scored, NEW total \in Int, NEW u, u = ScoredAt(t, i, total)
  PROVE  ScoredIn(t, u, i, total)
<1>1. PICK e, p : e = t.entries /\ p = e[i].player.id
  OBVIOUS
<1>2. e \in Seq(EntryRec) /\ DOMAIN e = 1..Len(e) /\ FieldOK(e) /\ Shape(t) /\ e[i] \in EntryRec
  BY <1>1 DEF TourOK, FieldOK
<1>3. EntryOf(t, p) = i /\ Joined(t, p)
  BY <1>1, <1>2, EntryIs
<1>4. Scorable(t, p)
  <2>1. ASSUME NEW j \in Scored(t), t.entries[j].player.id = p PROVE FALSE
    BY <1>1, <1>2, <2>1 DEF Scored, FieldOK
  <2> QED
    BY <1>3, <2>1 DEF Scorable
<1>5. PICK c, d : c = ScoredCount(t) + 1 /\ d = WithScore(e[i], total, c)
  OBVIOUS
<1>6. u = [t EXCEPT !.entries = [e EXCEPT ![i] = d]]
  BY <1>1, <1>5, Zenon DEF ScoredAt
<1>7. TourOK(u)
  BY <1>1, <1>3, <1>4, <1>5, <1>6, ScoreKeeps
<1>8. /\ d.player = e[i].player /\ d.scored /\ d.score = total /\ d.submitSeq = c
      /\ d.joinSeq = e[i].joinSeq
  BY <1>2, <1>5 DEF WithScore, EntryRec
<1>9. /\ u.entries = [e EXCEPT ![i] = d]
      /\ u.status = t.status /\ u.rules = t.rules /\ u.payouts = t.payouts /\ u.seed = t.seed
      /\ u.fees = t.fees /\ u.rake = t.rake /\ u.pool = t.pool /\ u.standings = t.standings
  BY <1>2, <1>6 DEF Shape
<1>10. DOMAIN u.entries = 1..Len(e) /\ Len(u.entries) = Len(e)
  BY <1>7, <1>2, <1>9 DEF TourOK, FieldOK
<1>11. u.entries[i] = d /\ \A j \in 1..Len(e) : j # i => u.entries[j] = e[j]
  BY <1>1, <1>2, <1>9
<1>12. \A j \in 1..Len(e) : u.entries[j].player = e[j].player
  BY <1>8, <1>11
<1> QED
  BY <1>1, <1>2, <1>5, <1>7, <1>8, <1>9, <1>10, <1>11, <1>12 DEF SameField, ScoredIn

\* The total of an entry is a number.
LEMMA TotalTyped ==
  ASSUME NEW rs, NEW id, NEW p, HandOK(rs, id, p)
  PROVE  Progress(rs, id, p).total \in Int
<1>1. PICK d : Upto(rs, id, p, d)
  BY HandUpto
<1>2. PICK F, f : F = With(rs, id, p, "finished") /\ f = [r \in F |-> rs[<<id, p, r>>].score]
  OBVIOUS
<1>3. Progress(rs, id, p).total = SumFunction(f)
  <2>1. PICK g : g = Progress(rs, id, p)
    OBVIOUS
  <2>2. g.total = SumFunction([r \in With(rs, id, p, "finished") |-> rs[<<id, p, r>>].score])
    <3>1. ProgressAs(rs, id, p, d, g)
      BY <1>1, <2>1, ProgressIs
    <3> QED
      BY <3>1, Zenon DEF ProgressAs
  <2> QED
    BY <1>2, <2>1, <2>2, Zenon
<1>4. F \in SUBSET (1..Rounds) /\ DOMAIN f = F
  BY <1>2 DEF With
<1>5. IsFiniteSet(1..Rounds) /\ IsFiniteSet(F)
  <2>1. IsFiniteSet(1..Rounds)
    BY LadderAssumption, FS_Interval
  <2> QED
    BY <1>4, <2>1, FS_Subset
<1>6. ASSUME NEW r \in F PROVE f[r] \in Int
  <2>1. PICK rec : rec = rs[<<id, p, r>>]
    OBVIOUS
  <2>2. RecOK(rec) /\ rec.status = "finished"
    BY <1>2, <1>4, <2>1 DEF HandOK, With
  <2>3. rec.seed \in Seeds /\ rec.moves \in Seq(Moves) /\ rec.score = Worth(rec)
    BY <2>2 DEF RecOK
  <2>4. Worth(rec) \in Int
    BY <2>3, WorthTyped
  <2>5. f[r] = rec.score
    BY <1>2, <2>1
  <2> QED
    BY <2>3, <2>4, <2>5
<1>7. SumFunctionOnSet(f, F) \in Int
  BY <1>5, <1>6, SumType DEF Ints
<1> QED
  BY <1>3, <1>4, <1>7, SumOver

LEMMA EndedOK ==
  ASSUME NEW rec, RecOK(rec), rec.status = "playing", NEW reason, NEW new, new = Ended(rec, reason)
  PROVE  RecOK(new) /\ new.status = "finished" /\ new.moves = rec.moves /\ new.seed = rec.seed
         /\ new.startedAt = rec.startedAt /\ new.reason = reason /\ new.finishedAt = applied + 1
<1>1. PICK sc : sc = Worth(rec)
  OBVIOUS
<1>2. /\ new = [status |-> "finished", seed |-> rec.seed, moves |-> rec.moves,
            reason |-> reason, score |-> sc, startedAt |-> rec.startedAt,
            deadline |-> rec.deadline, finishedAt |-> applied + 1]
      /\ rec.seed \in Seeds /\ rec.moves \in Seq(Moves)
  BY <1>1 DEF RecOK, Ended
<1>3. new.status = "finished" /\ new.seed = rec.seed /\ new.moves = rec.moves /\ new.score = sc
      /\ new.reason = reason /\ new.startedAt = rec.startedAt /\ new.deadline = rec.deadline
      /\ new.finishedAt = applied + 1
  BY <1>2
<1>4. Worth(new) = sc
  BY <1>1, <1>3 DEF Worth
<1> QED
  BY <1>2, <1>3, <1>4 DEF RecOK

\* One round is changed.
OnlyRound(old, rs, id, p, r, rec) ==
  /\ DOMAIN rs = RoundKeys /\ rs[<<id, p, r>>] = rec
  /\ \A o \in Ids, q \in Players, s \in 1..Rounds :
       (o # id \/ q # p \/ s # r) => rs[<<o, q, s>>] = old[<<o, q, s>>]

LEMMA OneRound ==
  ASSUME NEW old, DOMAIN old = RoundKeys, NEW id \in Ids, NEW p \in Players,
         NEW r \in 1..Rounds, NEW rec, NEW rs, rs = [old EXCEPT ![<<id, p, r>>] = rec]
  PROVE  OnlyRound(old, rs, id, p, r, rec)
<1>1. \A o \in Ids, q \in Players, s \in 1..Rounds : <<o, q, s>> \in RoundKeys
  BY DEF RoundKeys
<1>2. \A o \in Ids, q \in Players, s \in 1..Rounds :
        (o # id \/ q # p \/ s # r) => <<o, q, s>> # <<id, p, r>>
  OBVIOUS
<1>3. \A k \in RoundKeys : k # <<id, p, r>> => rs[k] = old[k]
  OBVIOUS
<1>4. \A o \in Ids, q \in Players, s \in 1..Rounds :
        (o # id \/ q # p \/ s # r) => rs[<<o, q, s>>] = old[<<o, q, s>>]
  BY <1>1, <1>2, <1>3
<1> QED
  BY <1>1, <1>4 DEF OnlyRound

LEMMA HandChange ==
  ASSUME NEW old, DOMAIN old = RoundKeys, NEW id \in Ids, NEW p \in Players,
         NEW r \in 1..Rounds, NEW rec, NEW rs, rs = [old EXCEPT ![<<id, p, r>>] = rec],
         HandOK(old, id, p), RecOK(rec), rec.status # "none",
         \A s \in 1..Rounds : s < r => old[<<id, p, s>>].status = "finished",
         rec.status # "finished" =>
           \A s \in 1..Rounds : s > r => old[<<id, p, s>>].status = "none"
  PROVE  HandOK(rs, id, p)
<1>1. /\ rs[<<id, p, r>>] = rec
      /\ \A s \in 1..Rounds : s # r => rs[<<id, p, s>>] = old[<<id, p, s>>]
  BY OneRound DEF OnlyRound
<1>2. \A s \in 1..Rounds : RecOK(rs[<<id, p, s>>])
  BY <1>1 DEF HandOK
<1>3. ASSUME NEW a \in 1..Rounds, NEW b \in 1..Rounds, a < b, rs[<<id, p, b>>].status # "none"
      PROVE  rs[<<id, p, a>>].status = "finished"
  BY <1>1, <1>3 DEF HandOK
<1> QED
  BY <1>2, <1>3 DEF HandOK

\* A round in play: those before it are finished, those after it are not dealt.
LEMMA InPlay ==
  ASSUME NEW rs, NEW id, NEW p, HandOK(rs, id, p), NEW r \in 1..Rounds,
         rs[<<id, p, r>>].status = "playing"
  PROVE  /\ \A s \in 1..Rounds : s < r => rs[<<id, p, s>>].status = "finished"
         /\ \A s \in 1..Rounds : s > r => rs[<<id, p, s>>].status = "none"
         /\ rs[<<id, p, 1>>].status # "none"
         /\ rs[<<id, p, Rounds>>].status # "finished"
<1>0. Rounds \in Nat \ {0} /\ 1 \in 1..Rounds /\ Rounds \in 1..Rounds
  BY LadderAssumption
<1>1. \A s \in 1..Rounds : s < r => rs[<<id, p, s>>].status = "finished"
  BY DEF HandOK
<1>2. \A s \in 1..Rounds : s > r => rs[<<id, p, s>>].status = "none"
  BY DEF HandOK
<1>3. 1 < r \/ 1 = r
  BY <1>0
<1>4. Rounds > r \/ Rounds = r
  BY <1>0
<1> QED
  BY <1>0, <1>1, <1>2, <1>3, <1>4

\* finishRound on a tournament that is open: round k is done, the rest is in order.
RoundEnded(id, w, v, k, reason) ==
  /\ OpenOK(id, v) /\ SameField(w.t, v.t)
  /\ v.rounds = [w.rounds EXCEPT ![k] = Ended(w.rounds[k], reason)]

LEMMA FinishKeeps ==
  ASSUME NEW id \in Ids, NEW w, OpenOK(id, w), NEW p \in Players, NEW r \in 1..Rounds,
         NEW k, k = <<id, p, r>>, w.rounds[k].status = "playing", NEW reason, NEW closing,
         NEW v, v = FinishWorld(w, k, reason, closing)
  PROVE  RoundEnded(id, w, v, k, reason)
<1>0. Rounds \in Nat \ {0} /\ 1 \in 1..Rounds /\ Rounds \in 1..Rounds
  BY LadderAssumption
<1>1. PICK t, old : t = w.t /\ old = w.rounds
  OBVIOUS
<1>2. /\ WorldShape(w) /\ TourOK(t) /\ t.status = "open" /\ t.rules.game # "" /\ Shape(t)
      /\ DOMAIN old = RoundKeys /\ TrackOK(id, t, old) /\ FieldOK(t.entries)
      /\ DOMAIN t.entries = 1..Len(t.entries)
  <2>1. /\ WorldShape(w) /\ TourOK(t) /\ t.status = "open" /\ t.rules.game # ""
        /\ DOMAIN old = RoundKeys /\ TrackOK(id, t, old)
    BY <1>1 DEF OpenOK
  <2>2. Shape(t) /\ FieldOK(t.entries)
    BY <2>1 DEF TourOK
  <2>3. DOMAIN t.entries = 1..Len(t.entries)
    BY <2>2 DEF FieldOK
  <2> QED
    BY <2>1, <2>2, <2>3
<1>3. PICK new : new = Ended(old[k], reason)
  OBVIOUS
<1>4. PICK rs : rs = [old EXCEPT ![k] = new]
  OBVIOUS
<1>5. HandOK(old, id, p) /\ RecOK(old[k]) /\ old[k].status = "playing"
  BY <1>1, <1>2 DEF TrackOK, HandOK
<1>6. RecOK(new) /\ new.status = "finished"
  BY <1>3, <1>5, EndedOK
<1>7. /\ \A s \in 1..Rounds : s < r => old[<<id, p, s>>].status = "finished"
      /\ \A s \in 1..Rounds : s > r => old[<<id, p, s>>].status = "none"
      /\ old[<<id, p, 1>>].status # "none"
      /\ old[<<id, p, Rounds>>].status # "finished"
  BY <1>5, InPlay
<1>8. HandOK(rs, id, p)
  BY <1>2, <1>4, <1>5, <1>6, <1>7, HandChange
<1>9. /\ DOMAIN rs = RoundKeys /\ rs[<<id, p, r>>] = new
      /\ \A q \in Players, s \in 1..Rounds :
           (q # p \/ s # r) => rs[<<id, q, s>>] = old[<<id, q, s>>]
  <2>1. OnlyRound(old, rs, id, p, r, new)
    BY <1>2, <1>4, OneRound
  <2> QED
    BY <2>1 DEF OnlyRound
<1>10. Joined(t, p)
  BY <1>2, <1>7 DEF TrackOK
<1>11. PICK i : i = EntryOf(t, p)
  OBVIOUS
<1>12. i \in DOMAIN t.entries /\ t.entries[i].player.id = p
  BY <1>10, <1>11, EntryFound
<1>13. EntryOK(id, t, old, i)
  BY <1>2, <1>12 DEF TrackOK
<1>14. ~t.entries[i].scored
  BY <1>2, <1>7, <1>12, <1>13 DEF EntryOK
<1>15. PICK total : total = Progress(rs, id, p).total
  OBVIOUS
<1>16. total \in Int
  BY <1>8, <1>15, TotalTyped
<1>17. PICK u : u = ScoredAt(t, i, total)
  OBVIOUS
<1>18. /\ WorldShape(v) /\ v.rounds = rs
       /\ v.t = IF r = Rounds /\ ~t.entries[i].scored THEN u ELSE t
  <2>1. total = Progress(rs, id, w.t.entries[i].player.id).total
    BY <1>1, <1>12, <1>15
  <2>2. i = EntryOf(w.t, p) /\ rs = [w.rounds EXCEPT ![k] = Ended(w.rounds[k], reason)]
    BY <1>1, <1>3, <1>4, <1>11, Zenon
  <2>3. FinishedAs(w, v, p, r, rs, total)
    BY <1>2, <2>1, <2>2, FinishIs
  <2> QED
    BY <1>1, <1>11, <1>17, <2>3, Zenon DEF FinishedAs
<1>19. /\ TourOK(u) /\ SameField(t, u)
       /\ u.entries[i].scored /\ u.entries[i].score = total
       /\ \A j \in DOMAIN t.entries : j # i => u.entries[j] = t.entries[j]
  <2>1. ScoredIn(t, u, i, total)
    BY <1>2, <1>12, <1>14, <1>16, <1>17, ScoredAtKeeps
  <2> QED
    BY <2>1 DEF ScoredIn
<1>20. SameField(t, t)
  BY <1>2 DEF SameField, Shape
<1>21. /\ SameField(t, v.t) /\ TourOK(v.t)
       /\ r = Rounds => v.t.entries[i].scored /\ v.t.entries[i].score = total
       /\ r # Rounds => v.t.entries[i] = t.entries[i]
       /\ \A j \in DOMAIN t.entries : j # i => v.t.entries[j] = t.entries[j]
  BY <1>14, <1>18, <1>19, <1>2, <1>20
<1>22. /\ v.t.status = "open" /\ v.t.rules = t.rules /\ FieldOK(v.t.entries)
       /\ DOMAIN v.t.entries = DOMAIN t.entries
  <2>1. v.t.status = t.status /\ v.t.rules = t.rules
    BY <1>21 DEF SameField
  <2>2. FieldOK(v.t.entries)
    BY <1>21 DEF TourOK
  <2>3. DOMAIN v.t.entries = 1..Len(v.t.entries) /\ Len(v.t.entries) = Len(t.entries)
    BY <1>21, <2>2 DEF FieldOK, SameField
  <2> QED
    BY <1>2, <2>1, <2>2, <2>3
<1>23. ASSUME NEW j \in DOMAIN t.entries PROVE EntryOK(id, v.t, rs, j)
  <2>1. EntryOK(id, t, old, j)
    BY <1>2 DEF TrackOK
  <2>2. CASE j = i
    <3>1. v.t.entries[i].player = t.entries[i].player
      BY <1>2, <1>12, <1>21 DEF SameField
    <3>2. CASE r = Rounds
      BY <1>6, <1>9, <1>12, <1>15, <1>21, <1>22, <2>2, <3>1, <3>2 DEF EntryOK
    <3>3. CASE r # Rounds
      <4>1. rs[<<id, p, Rounds>>] = old[<<id, p, Rounds>>]
        BY <1>0, <1>9, <3>3
      <4> QED
        BY <1>7, <1>12, <1>14, <1>21, <1>22, <2>2, <3>1, <3>3, <4>1 DEF EntryOK
    <3> QED
      BY <3>2, <3>3
  <2>3. CASE j # i
    <3>1. PICK q : q = t.entries[j].player.id
      OBVIOUS
    <3>2. q \in Players /\ q # p
      BY <2>1, <3>1, <1>2, <1>12, <2>3 DEF EntryOK, FieldOK
    <3>3. \A s \in 1..Rounds : rs[<<id, q, s>>] = old[<<id, q, s>>]
      BY <1>9, <3>2
    <3>4. Progress(rs, id, q) = Progress(old, id, q)
      BY <3>3, ProgressSame
    <3>5. v.t.entries[j] = t.entries[j]
      BY <1>21, <2>3
    <3> QED
      BY <1>0, <1>2, <1>22, <2>1, <3>1, <3>3, <3>4, <3>5 DEF EntryOK
  <2> QED
    BY <2>2, <2>3
<1>24. TrackOK(id, v.t, rs)
  <2>1. ASSUME NEW q \in Players PROVE HandOK(rs, id, q)
    <3>1. CASE q # p
      <4>1. \A s \in 1..Rounds : rs[<<id, q, s>>] = old[<<id, q, s>>]
        BY <1>9, <3>1
      <4>2. HandOK(old, id, q)
        BY <1>2 DEF TrackOK
      <4> QED
        BY <4>1, <4>2 DEF HandOK
    <3> QED
      BY <1>8, <3>1
  <2>2. ASSUME NEW q \in Players, rs[<<id, q, 1>>].status # "none"
        PROVE  v.t.status # "absent" /\ v.t.rules.game # "" /\ Joined(v.t, q)
    <3>1. Joined(t, q)
      <4>1. CASE q = p
        BY <1>10, <4>1
      <4>2. CASE q # p
        BY <1>0, <1>9, <4>2, <1>2, <2>2 DEF TrackOK
      <4> QED
        BY <4>1, <4>2
    <3>2. Joined(v.t, q)
      BY <1>2, <1>21, <1>22, <3>1, SameFieldJoined
    <3> QED
      BY <1>2, <1>22, <3>2
  <2> QED
    BY <1>22, <1>23, <2>1, <2>2 DEF TrackOK
<1>25. OpenOK(id, v)
  BY <1>2, <1>9, <1>18, <1>21, <1>22, <1>24 DEF OpenOK
<1> QED
  BY <1>1, <1>3, <1>4, <1>18, <1>21, <1>25 DEF RoundEnded

LEMMA DivMod ==
  ASSUME NEW R \in Nat \ {0}, NEW a \in Nat
  PROVE  /\ a \div R \in Nat /\ a % R \in 0..R - 1 /\ a = (a \div R) * R + (a % R)
OBVIOUS

LEMMA DivModIs ==
  ASSUME NEW R \in Nat \ {0}, NEW q \in Nat, NEW r \in 0..R - 1, NEW a, a = q * R + r
  PROVE  a \div R = q /\ a % R = r
<1>0. a \in Nat
  OBVIOUS
<1>1. PICK x \in Nat, y \in 0..R - 1 : x = a \div R /\ y = a % R /\ a = x * R + y
  BY <1>0, DivMod
<1>2. ASSUME x < q PROVE FALSE
  BY <1>2, Stretch, <1>1
<1>3. ASSUME q < x PROVE FALSE
  BY <1>3, Stretch, <1>1
<1>4. x = q
  BY <1>2, <1>3
<1> QED
  BY <1>1, <1>4

LEMMA DivModIn ==
  ASSUME NEW R \in Nat \ {0}, NEW L \in Nat, NEW a \in Nat, a < L * R
  PROVE  a \div R \in 0..L - 1 /\ a % R \in 0..R - 1
<1>1. PICK x \in Nat, y \in 0..R - 1 : x = a \div R /\ y = a % R /\ a = x * R + y
  BY DivMod
<1>2. ASSUME x >= L PROVE FALSE
  <2>1. CASE x = L
    BY <1>1, <2>1
  <2>2. CASE x > L
    BY <2>2, Stretch, <1>1
  <2> QED
    BY <1>2, <2>1, <2>2
<1> QED
  BY <1>1, <1>2

-----------------------------------------------------------------------------
(* closeRounds: the first loop finishes every round in play, the second scores *)
(* the entries that have a round.                                            *)

\* The first loop goes through the rounds of the entries, and through all.
RoundsListed(id, t, seq, N) ==
  /\ N \in Nat /\ DOMAIN seq = 1..N
  /\ \A n \in 1..N : \E i \in DOMAIN t.entries, r \in 1..Rounds :
       seq[n] = <<id, t.entries[i].player.id, r>>
  /\ \A i \in DOMAIN t.entries, r \in 1..Rounds : \E n \in 1..N :
       seq[n] = <<id, t.entries[i].player.id, r>>

LEMMA RoundsOfIs ==
  ASSUME NEW id, NEW t, FieldOK(t.entries)
  PROVE  \E N \in Nat : RoundsListed(id, t, RoundsOf(id, t), N)
<1>0. PICK R \in Nat \ {0} : R = Rounds
  BY LadderAssumption
<1>1. PICK L \in Nat : L = Len(t.entries) /\ DOMAIN t.entries = 1..L
  BY DEF FieldOK
<1>2. PICK N \in Nat : N = L * R
  OBVIOUS
<1>3. PICK seq : seq = RoundsOf(id, t)
  OBVIOUS
<1>4. seq = [n \in 1..N |->
        <<id, t.entries[((n - 1) \div R) + 1].player.id, ((n - 1) % R) + 1>>]
  BY <1>0, <1>1, <1>2, <1>3, Zenon DEF RoundsOf
<1>5. ASSUME NEW n \in 1..N
      PROVE  \E i \in DOMAIN t.entries, r \in 1..Rounds :
               seq[n] = <<id, t.entries[i].player.id, r>>
  <2>1. PICK q, m : q = (n - 1) \div R /\ m = (n - 1) % R
    OBVIOUS
  <2>2. n - 1 \in Nat /\ n - 1 < L * R
    BY <1>2
  <2>3. q \in 0..L - 1 /\ m \in 0..R - 1
    BY <2>1, <2>2, DivModIn
  <2>4. q + 1 \in DOMAIN t.entries /\ m + 1 \in 1..Rounds
    BY <1>0, <1>1, <2>3
  <2>5. seq[n] = <<id, t.entries[q + 1].player.id, m + 1>>
    BY <1>4, <2>1, Zenon
  <2> QED
    BY <2>4, <2>5
<1>6. ASSUME NEW i \in DOMAIN t.entries, NEW r \in 1..Rounds
      PROVE  \E n \in 1..N : seq[n] = <<id, t.entries[i].player.id, r>>
  <2>1. PICK q \in 0..L - 1, m \in 0..R - 1 : i = q + 1 /\ r = m + 1
    <3>1. i - 1 \in 0..L - 1 /\ r - 1 \in 0..R - 1 /\ i = (i - 1) + 1 /\ r = (r - 1) + 1
      BY <1>0, <1>1
    <3> QED
      BY <3>1
  <2>2. PICK a : a = q * R + m
    OBVIOUS
  <2>3. a \div R = q /\ a % R = m
    BY <2>2, DivModIs
  <2>4. q * R \in Nat /\ q * R + R <= L * R
    BY Stretch
  <2>5. a \in Nat /\ a + 1 \in 1..N /\ (a + 1) - 1 = a
    BY <1>2, <2>2, <2>4
  <2>6. seq[a + 1] = <<id, t.entries[(((a + 1) - 1) \div R) + 1].player.id, (((a + 1) - 1) % R) + 1>>
    BY <1>4, <2>5, Zenon
  <2>7. seq[a + 1] = <<id, t.entries[i].player.id, r>>
    BY <2>1, <2>3, <2>5, <2>6
  <2> QED
    BY <2>5, <2>7
<1>7. DOMAIN seq = 1..N
  BY <1>4
<1> QED
  BY <1>3, <1>5, <1>6, <1>7 DEF RoundsListed

\* Rounds of the tournament that were in play are finished, nothing else.
Progressed(id, old, new) ==
  \A o \in Ids, p \in Players, r \in 1..Rounds :
    \/ new[<<o, p, r>>] = old[<<o, p, r>>]
    \/ /\ o = id /\ old[<<o, p, r>>].status = "playing"
       /\ \E reason : new[<<o, p, r>>] = Ended(old[<<o, p, r>>], reason)

LEMMA EndedStatus ==
  ASSUME NEW rec, RecOK(rec), NEW reason
  PROVE  Ended(rec, reason).status = "finished"
BY DEF Ended, RecOK

LEMMA ProgressedOn ==
  ASSUME NEW id \in Ids, NEW a, NEW b, Progressed(id, a, b), NEW p \in Players, NEW r \in 1..Rounds,
         b[<<id, p, r>>].status = "playing", NEW reason, NEW c,
         OnlyRound(b, c, id, p, r, Ended(b[<<id, p, r>>], reason)),
         \A q \in Players, s \in 1..Rounds : RecOK(a[<<id, q, s>>])
  PROVE  Progressed(id, a, c)
<1> SUFFICES ASSUME NEW o \in Ids, NEW q \in Players, NEW s \in 1..Rounds
             PROVE  \/ c[<<o, q, s>>] = a[<<o, q, s>>]
                    \/ /\ o = id /\ a[<<o, q, s>>].status = "playing"
                       /\ \E rsn : c[<<o, q, s>>] = Ended(a[<<o, q, s>>], rsn)
  BY DEF Progressed
<1>1. CASE o = id /\ q = p /\ s = r
  <2>1. b[<<id, p, r>>] = a[<<id, p, r>>]
    <3>1. ASSUME a[<<id, p, r>>].status = "playing", NEW rsn,
                 b[<<id, p, r>>] = Ended(a[<<id, p, r>>], rsn)
          PROVE  FALSE
      BY <3>1, EndedStatus
    <3> QED
      BY <3>1 DEF Progressed
  <2>2. c[<<o, q, s>>] = Ended(a[<<o, q, s>>], reason) /\ a[<<o, q, s>>].status = "playing"
    BY <1>1, <2>1 DEF OnlyRound
  <2> QED
    BY <1>1, <2>2
<1>2. CASE ~(o = id /\ q = p /\ s = r)
  BY <1>2 DEF OnlyRound, Progressed
<1> QED
  BY <1>1, <1>2

LEMMA SameFieldTrans ==
  ASSUME NEW a, NEW b, NEW c, SameField(a, b), SameField(b, c)
  PROVE  SameField(a, c)
BY DEF SameField

\* One turn of the first loop.
RoundTurn(id, w, v, p, r) ==
  /\ OpenOK(id, v) /\ SameField(w.t, v.t)
  /\ v.rounds[<<id, p, r>>].status # "playing"
  /\ \/ v.rounds = w.rounds
     \/ /\ w.rounds[<<id, p, r>>].status = "playing"
        /\ \E reason : OnlyRound(w.rounds, v.rounds, id, p, r,
                                 Ended(w.rounds[<<id, p, r>>], reason))

LEMMA CloseRoundTurn ==
  ASSUME NEW id \in Ids, NEW w, OpenOK(id, w), NEW p \in Players, NEW r \in 1..Rounds,
         NEW k, k = <<id, p, r>>, NEW v, v = CloseRound(w, k)
  PROVE  RoundTurn(id, w, v, p, r)
<1>1. CASE w.rounds[k].status # "playing"
  BY <1>1 DEF CloseRound, SameField, OpenOK, TourOK, Shape, RoundTurn
<1>2. CASE w.rounds[k].status = "playing"
  <2>1. PICK reason : reason = IF clock' > w.rounds[k].deadline THEN "expired" ELSE "closed"
    OBVIOUS
  <2>2. v = FinishWorld(w, k, reason, TRUE)
    BY <1>2, <2>1, Zenon DEF CloseRound
  <2>3. /\ OpenOK(id, v) /\ SameField(w.t, v.t)
        /\ v.rounds = [w.rounds EXCEPT ![k] = Ended(w.rounds[k], reason)]
    <3>1. RoundEnded(id, w, v, k, reason)
      BY <1>2, <2>2, FinishKeeps
    <3> QED
      BY <3>1 DEF RoundEnded
  <2>4. PICK old, new, rec : old = w.rounds /\ new = v.rounds /\ rec = Ended(w.rounds[k], reason)
    OBVIOUS
  <2>5. DOMAIN old = RoundKeys
    BY <2>4 DEF OpenOK
  <2>6. new = [old EXCEPT ![<<id, p, r>>] = rec]
    BY <2>3, <2>4
  <2>7. OnlyRound(old, new, id, p, r, rec)
    BY <2>5, <2>6, OneRound
  <2>8. RecOK(w.rounds[k])
    BY DEF OpenOK, TrackOK, HandOK
  <2>9. rec.status = "finished"
    BY <2>4, <2>8, EndedStatus
  <2>10. new[<<id, p, r>>] = rec
    BY <2>7 DEF OnlyRound
  <2>11. v.rounds[<<id, p, r>>].status # "playing"
    BY <2>4, <2>9, <2>10
  <2>12. OnlyRound(w.rounds, v.rounds, id, p, r, Ended(w.rounds[<<id, p, r>>], reason))
    BY <2>4, <2>7
  <2> QED
    BY <1>2, <2>3, <2>11, <2>12 DEF RoundTurn
<1> QED
  BY <1>1, <1>2

\* The first loop after n rounds.
ClosedUpto(id, w, v, seq, n) ==
  /\ OpenOK(id, v) /\ SameField(w.t, v.t) /\ Progressed(id, w.rounds, v.rounds)
  /\ \A m \in 1..n : v.rounds[seq[m]].status # "playing"

LEMMA ClosedNext ==
  ASSUME NEW id \in Ids, NEW w, OpenOK(id, w), NEW seq, NEW N \in Nat,
         RoundsListed(id, w.t, seq, N), NEW n \in 1..N, NEW v, ClosedUpto(id, w, v, seq, n - 1),
         NEW x, x = CloseRound(v, seq[n])
  PROVE  ClosedUpto(id, w, x, seq, n)
<1>0. \A m \in 1..N : \E p \in Players, r \in 1..Rounds : seq[m] = <<id, p, r>>
  <2> SUFFICES ASSUME NEW m \in 1..N PROVE \E p \in Players, r \in 1..Rounds : seq[m] = <<id, p, r>>
    OBVIOUS
  <2>1. PICK i \in DOMAIN w.t.entries, r \in 1..Rounds : seq[m] = <<id, w.t.entries[i].player.id, r>>
    BY DEF RoundsListed
  <2>2. EntryOK(id, w.t, w.rounds, i)
    BY DEF OpenOK, TrackOK
  <2>3. w.t.entries[i].player.id \in Players
    BY <2>2 DEF EntryOK
  <2> QED
    BY <2>1, <2>3
<1>1. PICK p \in Players, r \in 1..Rounds : seq[n] = <<id, p, r>>
  BY <1>0
<1>2. OpenOK(id, v) /\ SameField(w.t, v.t) /\ Progressed(id, w.rounds, v.rounds)
  BY DEF ClosedUpto
<1>3. RoundTurn(id, v, x, p, r)
  BY <1>1, <1>2, CloseRoundTurn
<1>4. OpenOK(id, x) /\ SameField(v.t, x.t) /\ x.rounds[<<id, p, r>>].status # "playing"
  BY <1>3 DEF RoundTurn
<1>5. SameField(w.t, x.t)
  BY <1>2, <1>4, SameFieldTrans
<1>6. CASE x.rounds = v.rounds
  <2>1. \A m \in 1..n : x.rounds[seq[m]].status # "playing"
    <3> SUFFICES ASSUME NEW m \in 1..n PROVE x.rounds[seq[m]].status # "playing"
      OBVIOUS
    <3>1. m = n \/ m \in 1..n - 1
      OBVIOUS
    <3> QED
      BY <1>1, <1>4, <1>6, <3>1 DEF ClosedUpto
  <2> QED
    BY <1>2, <1>4, <1>5, <1>6, <2>1 DEF ClosedUpto
<1>7. CASE x.rounds # v.rounds
  <2>1. /\ v.rounds[<<id, p, r>>].status = "playing"
        /\ \E rsn : OnlyRound(v.rounds, x.rounds, id, p, r, Ended(v.rounds[<<id, p, r>>], rsn))
    BY <1>3, <1>7 DEF RoundTurn
  <2>2. PICK reason : OnlyRound(v.rounds, x.rounds, id, p, r, Ended(v.rounds[<<id, p, r>>], reason))
    BY <2>1
  <2>3. \A q \in Players, s \in 1..Rounds : RecOK(w.rounds[<<id, q, s>>])
    BY DEF OpenOK, TrackOK, HandOK
  <2>4. PICK a, b, c : a = w.rounds /\ b = v.rounds /\ c = x.rounds
    OBVIOUS
  <2>5. Progressed(id, a, c)
    BY <1>2, <2>1, <2>2, <2>3, <2>4, ProgressedOn
  <2>6. \A m \in 1..n : x.rounds[seq[m]].status # "playing"
    <3> SUFFICES ASSUME NEW m \in 1..n PROVE x.rounds[seq[m]].status # "playing"
      OBVIOUS
    <3>1. PICK q \in Players, s \in 1..Rounds : seq[m] = <<id, q, s>>
      BY <1>0
    <3>2. CASE q = p /\ s = r
      BY <1>4, <3>1, <3>2
    <3>3. CASE ~(q = p /\ s = r)
      BY <1>1, <3>1, <3>3, <2>2 DEF OnlyRound, ClosedUpto
    <3> QED
      BY <3>2, <3>3
  <2> QED
    BY <1>2, <1>4, <1>5, <2>4, <2>5, <2>6 DEF ClosedUpto
<1> QED
  BY <1>6, <1>7

\* What the first loop leaves.
RoundsClosed(id, w, v) ==
  /\ OpenOK(id, v) /\ SameField(w.t, v.t) /\ Progressed(id, w.rounds, v.rounds)
  /\ \A p \in Players, r \in 1..Rounds : v.rounds[<<id, p, r>>].status # "playing"

LEMMA ClosingsClose ==
  ASSUME NEW id \in Ids, NEW w, OpenOK(id, w), NEW v, v = Closings(w, RoundsOf(id, w.t))
  PROVE  RoundsClosed(id, w, v)
<1>1. PICK seq : seq = RoundsOf(id, w.t)
  OBVIOUS
<1>2. FieldOK(w.t.entries)
  BY DEF OpenOK, TourOK
<1>3. PICK N \in Nat : RoundsListed(id, w.t, seq, N)
  BY <1>1, <1>2, RoundsOfIs
<1>4. DOMAIN seq = 1..N
  BY <1>3 DEF RoundsListed
<1>5. CloseStates(w, seq, N)
  BY <1>4, FoldCloseStates
<1>6. PICK s : /\ s[0] = w
               /\ \A n \in 1..N : s[n] = CloseRound(s[n - 1], seq[n])
               /\ Closings(w, seq) = s[N]
  BY <1>5 DEF CloseStates
<1> DEFINE A == {n \in 0..N : ClosedUpto(id, w, s[n], seq, n)}
<1>7. 0 \in A
  <2>1. SameField(w.t, w.t)
    BY DEF SameField, OpenOK, TourOK, Shape
  <2>2. Progressed(id, w.rounds, w.rounds)
    BY DEF Progressed
  <2>3. ClosedUpto(id, w, w, seq, 0)
    BY <2>1, <2>2 DEF ClosedUpto
  <2> QED
    BY <1>6, <2>3
<1>8. ASSUME NEW n \in 1..N, n - 1 \in A PROVE n \in A
  <2>1. PICK x, y : x = s[n - 1] /\ y = s[n]
    OBVIOUS
  <2>2. ClosedUpto(id, w, x, seq, n - 1) /\ y = CloseRound(x, seq[n])
    BY <1>6, <1>8, <2>1
  <2>3. ClosedUpto(id, w, y, seq, n)
    BY <1>3, <2>2, ClosedNext
  <2> QED
    BY <2>1, <2>3
<1> HIDE DEF A
<1>9. N \in A
  BY <1>7, <1>8, Numbers!Counting
<1>10. ClosedUpto(id, w, v, seq, N)
  BY <1>1, <1>6, <1>9 DEF A
<1>11. ASSUME NEW p \in Players, NEW r \in 1..Rounds, v.rounds[<<id, p, r>>].status = "playing"
       PROVE  FALSE
  <2>1. HandOK(v.rounds, id, p) /\ TrackOK(id, v.t, v.rounds) /\ FieldOK(v.t.entries)
    BY <1>10 DEF ClosedUpto, OpenOK, TrackOK, TourOK
  <2>2. v.rounds[<<id, p, 1>>].status # "none"
    BY <1>11, <2>1, InPlay
  <2>3. Joined(v.t, p)
    BY <2>1, <2>2 DEF TrackOK
  <2>4. SameField(w.t, v.t)
    BY <1>10 DEF ClosedUpto
  <2>5. Joined(w.t, p)
    BY <1>2, <2>1, <2>3, <2>4, SameFieldJoined
  <2>6. PICK i \in DOMAIN w.t.entries : w.t.entries[i].player.id = p
    BY <2>5 DEF Joined
  <2>7. PICK n \in 1..N : seq[n] = <<id, p, r>>
    BY <1>3, <2>6 DEF RoundsListed
  <2> QED
    BY <1>10, <1>11, <2>7 DEF ClosedUpto
<1> QED
  BY <1>10, <1>11 DEF ClosedUpto, RoundsClosed

LEMMA FieldLen ==
  ASSUME NEW e, FieldOK(e)
  PROVE  Len(e) \in Nat /\ DOMAIN e = 1..Len(e)
BY DEF FieldOK

LEMMA OpenField ==
  ASSUME NEW id, NEW w, OpenOK(id, w)
  PROVE  FieldOK(w.t.entries)
BY DEF OpenOK, TourOK

\* Entry j of x after n turns of the second loop over the entries of v.
EntryClosed(id, v, x, n, j) ==
  LET p == v.t.entries[j].player.id
      e == x.t.entries[j]
  IN /\ e.scored => e.score = Progress(v.rounds, id, p).total
     /\ j > n => e = v.t.entries[j]
     /\ j <= n => (e.scored <=> v.rounds[<<id, p, 1>>].status # "none")

EntriesUpto(id, v, x, n) ==
  /\ WorldShape(x) /\ x.rounds = v.rounds /\ TourOK(x.t) /\ SameField(v.t, x.t)
  /\ \A j \in 1..Len(v.t.entries) : EntryClosed(id, v, x, n, j)

LEMMA EntriesNext ==
  ASSUME NEW id \in Ids, NEW v, OpenOK(id, v), NEW n \in 1..Len(v.t.entries),
         NEW y, EntriesUpto(id, v, y, n - 1), NEW x, x = CloseEntry(id, y, n)
  PROVE  EntriesUpto(id, v, x, n)
<1>0. PICK N \in Nat : N = Len(v.t.entries) /\ DOMAIN v.t.entries = 1..N
  BY OpenField, FieldLen
<1>1. PICK p : p = v.t.entries[n].player.id
  OBVIOUS
<1>2. EntryOK(id, v.t, v.rounds, n) /\ v.t.status = "open"
  BY <1>0 DEF OpenOK, TrackOK
<1>3. p \in Players /\ (v.t.entries[n].scored <=> v.rounds[<<id, p, Rounds>>].status = "finished")
  BY <1>1, <1>2 DEF EntryOK
<1>4. HandOK(v.rounds, id, p)
  BY <1>3 DEF OpenOK, TrackOK
<1>5. PICK g : g = Progress(v.rounds, id, p)
  OBVIOUS
<1>6. PICK d : Upto(v.rounds, id, p, d)
  BY <1>4, HandUpto
<1>7. g.dealt = d
  <2>1. ProgressAs(v.rounds, id, p, d, g)
    BY <1>5, <1>6, ProgressIs
  <2> QED
    BY <2>1 DEF ProgressAs
<1>8. v.rounds[<<id, p, 1>>].status = "none" <=> d = 0
  BY <1>4, <1>6, UptoEnds
<1>9. v.t.entries[n].scored => d # 0
  <2>1. v.rounds[<<id, p, Rounds>>].status = "finished" => d = Rounds
    BY <1>4, <1>6, UptoEnds
  <2> QED
    BY <1>3, <2>1, LadderAssumption
<1>10. /\ WorldShape(y) /\ y.rounds = v.rounds /\ TourOK(y.t) /\ SameField(v.t, y.t)
       /\ \A j \in 1..N : EntryClosed(id, v, y, n - 1, j)
  BY <1>0 DEF EntriesUpto
<1>11. y.t.entries[n] = v.t.entries[n]
  <2>1. EntryClosed(id, v, y, n - 1, n) /\ n > n - 1
    BY <1>0, <1>10
  <2> QED
    BY <2>1 DEF EntryClosed
<1>12. PICK total : total = g.total
  OBVIOUS
<1>13. total \in Int
  BY <1>4, <1>5, <1>12, TotalTyped
<1>14. CASE v.t.entries[n].scored \/ d = 0
  <2>1. x = y
    <3>1. y.t.entries[n].scored \/ Progress(y.rounds, id, y.t.entries[n].player.id).dealt = 0
      BY <1>1, <1>5, <1>7, <1>10, <1>11, <1>14
    <3> QED
      BY <3>1, Zenon DEF CloseEntry
  <2>2. ASSUME NEW j \in 1..N PROVE EntryClosed(id, v, y, n, j)
    <3>1. EntryClosed(id, v, y, n - 1, j)
      BY <1>10
    <3>2. CASE j = n
      BY <1>1, <1>8, <1>9, <1>11, <1>14, <3>1, <3>2 DEF EntryClosed
    <3>3. CASE j # n
      BY <3>3, <3>1 DEF EntryClosed
    <3> QED
      BY <3>2, <3>3
  <2> QED
    BY <1>0, <1>10, <2>1, <2>2 DEF EntriesUpto
<1>15. CASE ~v.t.entries[n].scored /\ d # 0
  <2>1. x = ScoreEntry(y, id, n)
    <3>1. ~(y.t.entries[n].scored \/ Progress(y.rounds, id, y.t.entries[n].player.id).dealt = 0)
      BY <1>1, <1>5, <1>7, <1>10, <1>11, <1>15
    <3> QED
      BY <3>1, Zenon DEF CloseEntry
  <2>2. total = Progress(y.rounds, id, y.t.entries[n].player.id).total
    BY <1>1, <1>5, <1>10, <1>11, <1>12
  <2>3. WorldShape(x) /\ x.t = ScoredAt(y.t, n, total) /\ x.rounds = y.rounds
    BY <1>10, <2>1, <2>2, ScoreEntryIs
  <2>4. y.t.status = "open" /\ ~y.t.entries[n].scored /\ n \in DOMAIN y.t.entries
    BY <1>0, <1>2, <1>10, <1>11, <1>15 DEF SameField, TourOK, FieldOK
  <2>5. PICK t, u : t = y.t /\ u = x.t
    OBVIOUS
  <2>6. ScoredIn(t, u, n, total)
    BY <1>10, <1>13, <2>3, <2>4, <2>5, ScoredAtKeeps
  <2>7. /\ TourOK(u) /\ SameField(t, u) /\ u.entries[n].scored /\ u.entries[n].score = total
        /\ \A j \in DOMAIN t.entries : j # n => u.entries[j] = t.entries[j]
    BY <2>6 DEF ScoredIn
  <2>8. SameField(v.t, x.t)
    BY <1>10, <2>5, <2>7, SameFieldTrans
  <2>9. DOMAIN t.entries = 1..N
    BY <1>0, <1>10, <2>5 DEF TourOK, FieldOK, SameField
  <2>10. ASSUME NEW j \in 1..N PROVE EntryClosed(id, v, x, n, j)
    <3>1. EntryClosed(id, v, y, n - 1, j)
      BY <1>10
    <3>2. CASE j = n
      BY <2>5, <2>7, <1>1, <1>5, <1>8, <1>12, <1>15, <3>2 DEF EntryClosed
    <3>3. CASE j # n
      <4>1. (j > n <=> j > n - 1) /\ (j <= n <=> j <= n - 1)
        BY <3>3
      <4>2. x.t.entries[j] = y.t.entries[j]
        BY <2>5, <2>7, <2>9, <3>3
      <4> QED
        BY <3>1, <4>1, <4>2 DEF EntryClosed
    <3> QED
      BY <3>2, <3>3
  <2> QED
    BY <1>0, <1>10, <2>3, <2>5, <2>7, <2>8, <2>10 DEF EntriesUpto
<1> QED
  BY <1>14, <1>15

LEMMA ScoringsScore ==
  ASSUME NEW id \in Ids, NEW v, OpenOK(id, v), NEW N \in Nat, N = Len(v.t.entries),
         NEW x, x = Scorings(id, v, [i \in 1..N |-> i])
  PROVE  EntriesUpto(id, v, x, N)
<1>1. DOMAIN v.t.entries = 1..N
  BY OpenField, FieldLen
<1>2. PICK seq : seq = [i \in 1..N |-> i]
  OBVIOUS
<1>3. DOMAIN seq = 1..N
  BY <1>2
<1>4. EntryStates(id, v, seq, N)
  BY <1>1, <1>3, FoldEntryStates
<1>5. PICK s : /\ s[0] = v
               /\ \A n \in 1..N : s[n] = CloseEntry(id, s[n - 1], seq[n])
               /\ Scorings(id, v, seq) = s[N]
  BY <1>4 DEF EntryStates
<1> DEFINE A == {n \in 0..N : EntriesUpto(id, v, s[n], n)}
<1>6. 0 \in A
  <2>1. SameField(v.t, v.t)
    BY DEF SameField, OpenOK, TourOK, Shape
  <2>2. ASSUME NEW j \in 1..N PROVE EntryClosed(id, v, v, 0, j)
    <3>1. EntryOK(id, v.t, v.rounds, j)
      BY <1>1 DEF OpenOK, TrackOK
    <3>2. ~(j <= 0)
      BY <1>1
    <3> QED
      BY <3>1, <3>2 DEF EntryOK, EntryClosed
  <2>3. EntriesUpto(id, v, v, 0)
    BY <2>1, <2>2 DEF EntriesUpto, OpenOK
  <2> QED
    BY <1>1, <1>5, <2>3
<1>7. ASSUME NEW n \in 1..N, n - 1 \in A PROVE n \in A
  <2>1. PICK a, b : a = s[n - 1] /\ b = s[n]
    OBVIOUS
  <2>2. seq[n] = n
    BY <1>2
  <2>3. EntriesUpto(id, v, a, n - 1) /\ b = CloseEntry(id, a, n)
    BY <1>5, <1>7, <2>1, <2>2
  <2>4. EntriesUpto(id, v, b, n)
    BY <2>3, EntriesNext
  <2> QED
    BY <2>1, <2>4
<1> HIDE DEF A
<1>8. N \in A
  BY ONLY N \in Nat, <1>6, <1>7, Numbers!Counting
<1> QED
  BY <1>2, <1>5, <1>8 DEF A

\* What closing makes of a tournament u and the rounds rs.
ClosedOff(id, t, old, u, rs) ==
  /\ TourOK(u) /\ u.status \in {"closed", "voided"} /\ u.rules = t.rules
  /\ u.payouts = t.payouts /\ Len(u.entries) = Len(t.entries)
  /\ \A i \in 1..Len(t.entries) : u.entries[i].player = t.entries[i].player
  /\ DOMAIN rs = RoundKeys /\ TrackOK(id, u, rs) /\ Progressed(id, old, rs)

LEMMA CloseRecordFields ==
  ASSUME NEW t, TourOK(t), t.status = "open", NEW u, u = CloseRecord(t)
  PROVE  /\ TourOK(u) /\ u.status \in {"closed", "voided"} /\ u.rules = t.rules
         /\ u.payouts = t.payouts /\ u.entries = t.entries
<1>1. TourOK(u)
  BY CloseKeeps
<1>2. t = [status |-> t.status, seed |-> t.seed, rules |-> t.rules, entries |-> t.entries,
             fees |-> t.fees, rake |-> t.rake, pool |-> t.pool,
             standings |-> t.standings, payouts |-> t.payouts]
  BY DEF TourOK, Shape
<1>3. PICK status : status = IF Voids(t) THEN "voided" ELSE "closed"
  OBVIOUS
<1>4. u.status = status /\ u.payouts = t.payouts /\ u.entries = t.entries /\ u.rules = t.rules
  BY <1>2, <1>3 DEF CloseRecord
<1> QED
  BY <1>1, <1>3, <1>4

LEMMA CloseRoundsTrack ==
  ASSUME NEW id \in Ids, NEW t, OpenOK(id, World(t)), NEW w, w = CloseRounds(id, t),
         NEW u, u = CloseRecord(w.t)
  PROVE  ClosedOff(id, t, rounds, u, w.rounds)
<1>1. PICK base : base = World(t)
  OBVIOUS
<1>2. base.t = t /\ base.rounds = rounds
  BY <1>1 DEF World
<1>0. PICK N \in Nat : N = Len(t.entries)
  BY <1>1, <1>2, OpenField, FieldLen
<1>3. PICK v : v = Closings(base, RoundsOf(id, t))
  OBVIOUS
<1>4. RoundsClosed(id, base, v)
  BY <1>1, <1>2, <1>3, ClosingsClose
<1>5. /\ OpenOK(id, v) /\ SameField(t, v.t) /\ Progressed(id, rounds, v.rounds)
      /\ \A p \in Players, r \in 1..Rounds : v.rounds[<<id, p, r>>].status # "playing"
  BY <1>2, <1>4 DEF RoundsClosed
<1>6. Len(v.t.entries) = N
  BY <1>0, <1>5 DEF SameField
<1>7. w = Scorings(id, v, [i \in 1..N |-> i])
  BY <1>0, <1>1, <1>3, Zenon DEF CloseRounds, Closings, Scorings
<1>8. EntriesUpto(id, v, w, N)
  BY <1>5, <1>6, <1>7, ScoringsScore
<1>9. /\ w.rounds = v.rounds /\ TourOK(w.t) /\ SameField(v.t, w.t)
      /\ \A j \in 1..N : EntryClosed(id, v, w, N, j)
  BY <1>6, <1>8 DEF EntriesUpto
<1>10. SameField(t, w.t)
  BY <1>5, <1>9, SameFieldTrans
<1>11. w.t.status = "open" /\ w.t.rules = t.rules /\ w.t.payouts = t.payouts /\ Len(w.t.entries) = N
  BY <1>0, <1>2, <1>1, <1>10 DEF SameField, OpenOK
<1>12. /\ TourOK(u) /\ u.status \in {"closed", "voided"} /\ u.rules = w.t.rules
       /\ u.payouts = w.t.payouts /\ u.entries = w.t.entries
  BY <1>9, <1>11, CloseRecordFields
<1>13. FieldOK(u.entries) /\ DOMAIN u.entries = 1..N /\ N \in Nat /\ FieldOK(v.t.entries)
       /\ DOMAIN v.t.entries = 1..N
  BY <1>5, <1>12, OpenField, <1>6, <1>11, FieldLen DEF TourOK
<1>14. TrackOK(id, u, w.rounds)
  <2>1. \A p \in Players : HandOK(w.rounds, id, p)
    BY <1>5, <1>9 DEF OpenOK, TrackOK
  <2>2. ASSUME NEW p \in Players, w.rounds[<<id, p, 1>>].status # "none"
        PROVE  u.status # "absent" /\ u.rules.game # "" /\ Joined(u, p)
    <3>1. v.t.rules.game # "" /\ Joined(v.t, p)
      BY <1>5, <1>9, <2>2 DEF OpenOK, TrackOK
    <3>2. u.rules = v.t.rules
      BY <1>9, <1>12 DEF SameField
    <3>3. \A i \in 1..N : u.entries[i].player = v.t.entries[i].player
      BY <1>6, <1>9, <1>12 DEF SameField
    <3>4. Joined(u, p)
      BY <1>13, <3>1, <3>3 DEF Joined
    <3> QED
      BY <1>12, <3>1, <3>2, <3>4
  <2>3. ASSUME NEW j \in DOMAIN u.entries PROVE EntryOK(id, u, w.rounds, j)
    <3>1. PICK p : p = v.t.entries[j].player.id
      OBVIOUS
    <3>2. u.entries[j].player = v.t.entries[j].player /\ j \in 1..N /\ j <= N
      BY <1>6, <1>9, <1>12, <1>13 DEF SameField
    <3>3. EntryOK(id, v.t, v.rounds, j)
      BY <1>5, <1>13 DEF OpenOK, TrackOK
    <3>4. p \in Players
      BY <3>1, <3>3 DEF EntryOK
    <3>5. EntryClosed(id, v, w, N, j)
      BY <1>9, <3>2
    <3>6. PICK e : e = u.entries[j] /\ e = w.t.entries[j]
      BY <1>12
    <3>7. /\ e.scored => e.score = Progress(v.rounds, id, p).total
          /\ e.scored <=> v.rounds[<<id, p, 1>>].status # "none"
      BY <3>1, <3>2, <3>5, <3>6 DEF EntryClosed
    <3>8. e.player.id = p /\ u.status # "open"
      BY <1>12, <3>1, <3>2, <3>6
    <3> QED
      BY <1>9, <3>4, <3>6, <3>7, <3>8 DEF EntryOK
  <2>4. \A p \in Players, r \in 1..Rounds : w.rounds[<<id, p, r>>].status # "playing"
    BY <1>5, <1>9
  <2> QED
    BY <2>1, <2>2, <2>3, <2>4 DEF TrackOK
<1>15. Progressed(id, rounds, w.rounds) /\ DOMAIN w.rounds = RoundKeys
  BY <1>5, <1>9 DEF OpenOK
<1>16. \A i \in 1..Len(t.entries) : u.entries[i].player = t.entries[i].player
  BY <1>10, <1>12 DEF SameField
<1> QED
  BY <1>0, <1>11, <1>12, <1>14, <1>15, <1>16 DEF ClosedOff

-----------------------------------------------------------------------------
(* What an intent that takes effect found.                                   *)

\* No rule is broken.
LEMMA VerdictPasses ==
  ASSUME NEW rules, DOMAIN rules \subseteq 1..7, Verdict(rules) = OK,
         \A i \in DOMAIN rules : rules[i][1] => rules[i][2] # OK
  PROVE  \A i \in DOMAIN rules : ~rules[i][1]
BY VerdictOK

LEMMA VerdictThen ==
  ASSUME NEW first, NEW then, NEW v, v = Verdict(<< <<first # OK, first>>, <<TRUE, then>> >>), v = OK
  PROVE  first = OK /\ then = OK
<1>1. PICK rules : rules = << <<first # OK, first>>, <<TRUE, then>> >>
  OBVIOUS
<1>2. DOMAIN rules = 1..2 /\ 1..2 \subseteq 1..7 /\ Verdict(rules) = OK
  BY <1>1
<1>3. rules[1][1] <=> first # OK
  BY <1>1
<1>4. rules[2][1]
  BY <1>1
<1>5. rules[1][2] = first /\ rules[2][2] = then
  BY <1>1
<1>6. PICK i \in 1..2 : rules[i][1] /\ rules[i][2] = OK /\ \A j \in 1..2 : j < i => ~rules[j][1]
  BY <1>2, <1>4, VerdictOK
<1>7. i = 2
  BY <1>3, <1>5, <1>6
<1> QED
  BY <1>3, <1>5, <1>6, <1>7

\* sequenced: the tournament takes play commands and the player is bound.
InGame(op) ==
  /\ op.tournament \in Ids /\ At(op.tournament) = tournaments[op.tournament]
  /\ tournaments[op.tournament].status # "absent"
  /\ tournaments[op.tournament].rules.game # ""
  /\ players[op.player].bound

LEMMA SequencedOK ==
  ASSUME NEW op, SequencedCode(op) = OK
  PROVE  InGame(op)
<1> DEFINE plain == At(op.tournament).rules.game = ""
<1>1. PICK rules : rules = << <<SeqCode(op) # OK, SeqCode(op)>>,
             <<Unknown(op.tournament), "unknown_tournament">>,
             <<plain, "not_play_tournament">> >>
  OBVIOUS
<1>2. DOMAIN rules = 1..3 /\ 1..3 \subseteq 1..7
  <2> HIDE DEF plain
  <2> QED
    BY <1>1
<1>3. Verdict(rules) = OK
  BY <1>1 DEF SequencedCode
<1>4. /\ rules[1][1] <=> SeqCode(op) # OK
      /\ rules[2][1] <=> Unknown(op.tournament)
      /\ rules[3][1] <=> At(op.tournament).rules.game = ""
  BY <1>1, Zenon
<1>5. rules[1][2] = SeqCode(op) /\ rules[2][2] # OK /\ rules[3][2] # OK
  BY <1>1 DEF OK
<1>6. \A i \in DOMAIN rules : rules[i][1] => rules[i][2] # OK
  <2>1. rules[1][1] => rules[1][2] # OK
    BY <1>4, <1>5
  <2> QED
    BY <1>2, <1>5, <2>1
<1>7. ~rules[1][1] /\ ~rules[2][1] /\ ~rules[3][1]
  BY <1>2, <1>3, <1>6, VerdictPasses
<1>8. SeqCode(op) = OK /\ ~Unknown(op.tournament) /\ At(op.tournament).rules.game # ""
  BY <1>4, <1>7
<1>9. players[op.player].bound
  BY <1>8, SeqCodeIs
<1>10. op.tournament \in Ids /\ At(op.tournament) = tournaments[op.tournament]
  BY <1>8 DEF Unknown, At, Absent
<1> QED
  BY <1>8, <1>9, <1>10 DEF InGame, Unknown

\* startRound: the rules after sequenced.
Dealable(op) ==
  LET id == op.tournament
  IN /\ At(id).status = "open" /\ Joined(At(id), op.player) /\ op.round \in 1..Rounds
     /\ id \in Ids => /\ rounds[<<id, op.player, op.round>>] = NoRound
                      /\ op.round \in 2..Rounds =>
                           rounds[<<id, op.player, op.round - 1>>].status = "finished"

LEMMA DealCodeIs ==
  ASSUME NEW op
  PROVE  DealCode(op) = OK <=> Dealable(op)
<1> DEFINE t == At(op.tournament)
           taken == op.round \in 1..Rounds /\ op.tournament \in Ids
                    /\ rounds[<<op.tournament, op.player, op.round>>] # NoRound
           before == op.round \in 2..Rounds /\ op.tournament \in Ids
                    /\ rounds[<<op.tournament, op.player, op.round - 1>>].status # "finished"
<1>1. PICK rules : rules = << <<t.status # "open", "not_open">>,
                <<~Joined(t, op.player), "not_joined">>,
                <<op.round \notin 1..Rounds, "invalid_round">>,
                <<taken, "round_already_started">>,
                <<before, "previous_round_unfinished">> >>
  OBVIOUS
<1>2. DOMAIN rules = 1..5 /\ 1..5 \subseteq 1..7
  BY <1>1
<1>3. DealCode(op) = Verdict(rules)
  BY <1>1 DEF DealCode
<1>4. /\ rules[1][1] <=> t.status # "open"
      /\ rules[2][1] <=> ~Joined(t, op.player)
      /\ rules[3][1] <=> op.round \notin 1..Rounds
      /\ rules[4][1] <=> taken
      /\ rules[5][1] <=> before
  BY <1>1, Zenon
<1>5. \A i \in 1..5 : rules[i][2] # OK
  BY <1>1 DEF OK
<1>6. ASSUME Verdict(rules) = OK PROVE \A i \in 1..5 : ~rules[i][1]
  BY <1>2, <1>5, <1>6, VerdictPasses
<1>7. ASSUME \A i \in 1..5 : ~rules[i][1] PROVE Verdict(rules) = OK
  BY <1>2, <1>7, VerdictOneOf
<1>8. (\A i \in 1..5 : ~rules[i][1]) <=>
        ~rules[1][1] /\ ~rules[2][1] /\ ~rules[3][1] /\ ~rules[4][1] /\ ~rules[5][1]
  OBVIOUS
<1>9. Verdict(rules) = OK <=>
        t.status = "open" /\ Joined(t, op.player) /\ op.round \in 1..Rounds /\ ~taken /\ ~before
  BY <1>4, <1>6, <1>7, <1>8
<1> QED
  BY <1>3, <1>9 DEF Dealable

\* roundFor: the round a command names is there.
LEMMA RoundCodeOK ==
  ASSUME NEW op, RoundCode(op) = OK
  PROVE  /\ Joined(At(op.tournament), op.player) /\ op.round \in 1..Rounds
         /\ op.tournament \in Ids => rounds[<<op.tournament, op.player, op.round>>] # NoRound
<1> DEFINE undealt == op.round \in 1..Rounds /\ op.tournament \in Ids
                 /\ rounds[<<op.tournament, op.player, op.round>>] = NoRound
<1>1. PICK rules : rules = << <<~Joined(At(op.tournament), op.player), "not_joined">>,
             <<op.round \notin 1..Rounds, "invalid_round">>,
             <<undealt, "round_not_started">> >>
  OBVIOUS
<1>2. DOMAIN rules = 1..3 /\ 1..3 \subseteq 1..7 /\ Verdict(rules) = OK
  BY <1>1 DEF RoundCode
<1>3. /\ rules[1][1] <=> ~Joined(At(op.tournament), op.player)
      /\ rules[2][1] <=> op.round \notin 1..Rounds
      /\ rules[3][1] <=> undealt
  BY <1>1, Zenon
<1>4. \A i \in 1..3 : rules[i][2] # OK
  BY <1>1 DEF OK
<1>5. ~rules[1][1] /\ ~rules[2][1] /\ ~rules[3][1]
  BY <1>2, <1>4, VerdictPasses
<1> QED
  BY <1>3, <1>5

\* playMove and finishRoundCmd: the round is dealt, and in play when it changes.
OnRound(op, rec) ==
  /\ InGame(op) /\ Joined(At(op.tournament), op.player) /\ op.round \in 1..Rounds
  /\ rec = rounds[<<op.tournament, op.player, op.round>>] /\ rec # NoRound

LEMMA NamedIs ==
  ASSUME NEW op, SequencedCode(op) = OK, RoundCode(op) = OK
  PROVE  OnRound(op, Named(op))
<1>1. InGame(op)
  BY SequencedOK
<1>2. /\ Joined(At(op.tournament), op.player) /\ op.round \in 1..Rounds
      /\ op.tournament \in Ids => rounds[<<op.tournament, op.player, op.round>>] # NoRound
  BY RoundCodeOK
<1>3. Named(op) = rounds[<<op.tournament, op.player, op.round>>]
  BY DEF Named
<1> QED
  BY <1>1, <1>2, <1>3 DEF OnRound, InGame

LEMMA MoveCodeOK ==
  ASSUME NEW op, MoveCode(op) = OK
  PROVE  /\ OnRound(op, Named(op))
         /\ At(op.tournament).status = "open" /\ Named(op).status # "finished"
<1> DEFINE rec == Named(op)
<1>1. PICK rules : rules =
        << <<SequencedCode(op) # OK, SequencedCode(op)>>,
           <<At(op.tournament).status # "open", "not_open">>,
           <<RoundCode(op) # OK, RoundCode(op)>>,
           <<rec.status = "finished", "round_finished">>,
           <<clock' > rec.deadline, "round_expired">>,
           <<op.moveIndex # Len(rec.moves), "move_index_mismatch">>,
           <<rec # NoRound /\ ~Legal(BoardOf(rec.seed, rec.moves), op.move),
             "illegal_move">> >>
  OBVIOUS
<1>2. DOMAIN rules = 1..7 /\ Verdict(rules) = OK
  BY <1>1 DEF MoveCode
<1>3. /\ rules[1][1] <=> SequencedCode(op) # OK
      /\ rules[2][1] <=> At(op.tournament).status # "open"
      /\ rules[3][1] <=> RoundCode(op) # OK
      /\ rules[4][1] <=> rec.status = "finished"
  BY <1>1, Zenon
<1>4. rules[1][2] = SequencedCode(op) /\ rules[3][2] = RoundCode(op)
  BY <1>1
<1>5. \A i \in {2, 4, 5, 6, 7} : rules[i][2] # OK
  BY <1>1 DEF OK
<1>6. \A i \in DOMAIN rules : rules[i][1] => rules[i][2] # OK
  BY <1>2, <1>3, <1>4, <1>5
<1>7. \A i \in DOMAIN rules : ~rules[i][1]
  BY <1>2, <1>6, VerdictPasses
<1>8. ~rules[1][1] /\ ~rules[2][1] /\ ~rules[3][1] /\ ~rules[4][1]
  BY <1>2, <1>7
<1> QED
  BY <1>3, <1>8, NamedIs

LEMMA FinishCodeOK ==
  ASSUME NEW op, FinishCode(op) = OK
  PROVE  /\ OnRound(op, Named(op))
         /\ Named(op).status # "finished" => At(op.tournament).status = "open"
<1> DEFINE rec == Named(op)
<1>1. PICK rules : rules =
        << <<SequencedCode(op) # OK, SequencedCode(op)>>,
           <<RoundCode(op) # OK, RoundCode(op)>>,
           <<rec.status # "finished" /\ At(op.tournament).status # "open", "not_open">> >>
  OBVIOUS
<1>2. DOMAIN rules = 1..3 /\ 1..3 \subseteq 1..7 /\ Verdict(rules) = OK
  BY <1>1 DEF FinishCode
<1>3. /\ rules[1][1] <=> SequencedCode(op) # OK
      /\ rules[2][1] <=> RoundCode(op) # OK
      /\ rules[3][1] <=> rec.status # "finished" /\ At(op.tournament).status # "open"
  BY <1>1, Zenon
<1>4. rules[1][2] = SequencedCode(op) /\ rules[2][2] = RoundCode(op) /\ rules[3][2] # OK
  BY <1>1 DEF OK
<1>6. \A i \in DOMAIN rules : rules[i][1] => rules[i][2] # OK
  BY <1>2, <1>3, <1>4
<1>7. \A i \in DOMAIN rules : ~rules[i][1]
  BY <1>2, <1>6, VerdictPasses
<1>8. ~rules[1][1] /\ ~rules[2][1] /\ ~rules[3][1]
  BY <1>2, <1>7
<1> QED
  BY <1>3, <1>8, NamedIs

\* admit.
Admissible(t, id, player) ==
  /\ t.status = "open" /\ ~(Len(t.entries) >= t.rules.maxEntrants)
  /\ ~Joined(t, player.id)
  /\ player.jurisdiction \notin t.rules.exclusions.jurisdictions
  /\ ~(player.age < t.rules.minAge)
  /\ CheckFresh({FeePosting(t, id, player)})
  /\ Validate(FeePosting(t, id, player))

LEMMA AdmitCodeIs ==
  ASSUME NEW t, NEW id, NEW player
  PROVE  AdmitCode(t, id, player) = OK <=> Admissible(t, id, player)
<1>1. PICK rules : rules = << <<t.status # "open", "not_open">>,
             <<Len(t.entries) >= t.rules.maxEntrants, "tournament_full">>,
             <<Joined(t, player.id), "already_joined">>,
             <<player.jurisdiction \in t.rules.exclusions.jurisdictions,
               "jurisdiction_excluded">>,
             <<player.age < t.rules.minAge, "underage">>,
             <<~CheckFresh({FeePosting(t, id, player)}), "ledger_conflict">>,
             <<~Validate(FeePosting(t, id, player)), "invalid_rules">> >>
  OBVIOUS
<1>2. DOMAIN rules = 1..7
  BY <1>1
<1>3. AdmitCode(t, id, player) = Verdict(rules)
  BY <1>1 DEF AdmitCode
<1>4. /\ rules[1][1] <=> t.status # "open"
      /\ rules[2][1] <=> Len(t.entries) >= t.rules.maxEntrants
      /\ rules[3][1] <=> Joined(t, player.id)
      /\ rules[4][1] <=> player.jurisdiction \in t.rules.exclusions.jurisdictions
      /\ rules[5][1] <=> player.age < t.rules.minAge
      /\ rules[6][1] <=> ~CheckFresh({FeePosting(t, id, player)})
      /\ rules[7][1] <=> ~Validate(FeePosting(t, id, player))
  BY <1>1, Zenon
<1>5. \A i \in 1..7 : rules[i][2] # OK
  BY <1>1 DEF OK
<1>6. ASSUME Verdict(rules) = OK PROVE \A i \in 1..7 : ~rules[i][1]
  BY <1>2, <1>5, <1>6, VerdictPasses
<1>7. ASSUME \A i \in 1..7 : ~rules[i][1] PROVE Verdict(rules) = OK
  BY <1>2, <1>7, VerdictOneOf
<1>8. (\A i \in 1..7 : ~rules[i][1]) <=>
        /\ ~rules[1][1] /\ ~rules[2][1] /\ ~rules[3][1] /\ ~rules[4][1] /\ ~rules[5][1]
        /\ ~rules[6][1] /\ ~rules[7][1]
  OBVIOUS
<1> QED
  BY <1>3, <1>4, <1>6, <1>7, <1>8 DEF Admissible

-----------------------------------------------------------------------------
(* The invariant of the rounds, and what each command makes of it.           *)

RoundInv ==
  /\ DOMAIN rounds = RoundKeys
  /\ \A id \in Ids : TrackOK(id, tournaments[id], rounds)

\* What a command may make of a tournament, and of a round.
Carried(t, u) ==
  \/ u = t
  \/ t.status = "absent" /\ u.status = "open" /\ DOMAIN u.entries = {} /\ ValidateRules(u.rules)
  \/ /\ t.status # "absent" /\ u.status # "absent" /\ u.rules = t.rules
     /\ \A p : Joined(t, p) => Joined(u, p)

Went(rec, move) == [rec EXCEPT !.moves = Append(rec.moves, move)]

Goes(old, new) ==
  \/ new = old
  \/ old.status = "none" /\ new.startedAt = applied + 1
  \/ /\ old.status = "playing"
     /\ \E move, reason : \/ new = Went(old, move)
                          \/ new = Ended(old, reason)
                          \/ new = Ended(Went(old, move), reason)

Carries ==
  /\ \A id \in Ids : Carried(tournaments[id], tournaments'[id])
  /\ \A id \in Ids, p \in Players, r \in 1..Rounds :
       Goes(rounds[<<id, p, r>>], rounds'[<<id, p, r>>])

LEMMA OneGoes ==
  ASSUME NEW id \in Ids, NEW p \in Players, NEW r \in 1..Rounds, NEW rec,
         OnlyRound(rounds, rounds', id, p, r, rec), Goes(rounds[<<id, p, r>>], rec),
         Carried(tournaments[id], tournaments'[id]),
         \A o \in Ids \ {id} : tournaments'[o] = tournaments[o]
  PROVE  Carries
<1>1. \A o \in Ids, q \in Players, s \in 1..Rounds :
        Goes(rounds[<<o, q, s>>], rounds'[<<o, q, s>>])
  <2>1. PICK old, new : old = rounds /\ new = rounds'
    OBVIOUS
  <2>2. /\ new[<<id, p, r>>] = rec
        /\ \A o \in Ids, q \in Players, s \in 1..Rounds :
             (o # id \/ q # p \/ s # r) => new[<<o, q, s>>] = old[<<o, q, s>>]
    BY <2>1 DEF OnlyRound
  <2>3. Goes(old[<<id, p, r>>], rec)
    BY <2>1
  <2>4. \A rec2 : Goes(rec2, rec2)
    BY DEF Goes
  <2>5. \A o \in Ids, q \in Players, s \in 1..Rounds : Goes(old[<<o, q, s>>], new[<<o, q, s>>])
    BY <2>2, <2>3, <2>4
  <2> QED
    BY <2>1, <2>5
<1>2. \A o \in Ids : Carried(tournaments[o], tournaments'[o])
  BY DEF Carried
<1> QED
  BY <1>1, <1>2 DEF Carries

LEMMA SameFieldCarried ==
  ASSUME NEW t, NEW u, FieldOK(t.entries), FieldOK(u.entries), SameField(t, u),
         t.status = "open"
  PROVE  Carried(t, u)
<1>1. \A p : Joined(u, p) <=> Joined(t, p)
  BY SameFieldJoined
<1> QED
  BY <1>1 DEF Carried, SameField

\* A step that touches tournament id and its rounds, and leaves both in order.
Retracks(cmd, id) ==
  /\ Touches(cmd, id)
  /\ TourOK(tournaments'[id]) /\ PaidOK(id, tournaments'[id], book')
  /\ DOMAIN rounds' = RoundKeys /\ TrackOK(id, tournaments'[id], rounds')
  /\ \A o \in Ids \ {id}, p \in Players, r \in 1..Rounds :
       rounds'[<<o, p, r>>] = rounds[<<o, p, r>>]

LEMMA RetracksKeeps ==
  ASSUME BookInv, RoundInv, NEW cmd, NEW id \in Ids, Retracks(cmd, id)
  PROVE  BookInv' /\ RoundInv'
<1>1. BookInv'
  BY OneTouched DEF Retracks
<1>2. ASSUME NEW o \in Ids PROVE TrackOK(o, tournaments'[o], rounds')
  <2>1. CASE o = id
    BY <2>1 DEF Retracks
  <2>2. CASE o # id
    <3>1. PICK t, old, new : t = tournaments[o] /\ old = rounds /\ new = rounds'
      OBVIOUS
    <3>2. tournaments'[o] = t
      BY <2>2, <3>1 DEF Retracks, Touches
    <3>3. \A p \in Players, r \in 1..Rounds : new[<<o, p, r>>] = old[<<o, p, r>>]
      BY <2>2, <3>1 DEF Retracks
    <3>4. TrackOK(o, t, old) /\ FieldOK(t.entries)
      BY <3>1 DEF RoundInv, BookInv, TourOK
    <3>5. TrackOK(o, t, new)
      BY <3>3, <3>4, TrackSame
    <3> QED
      BY <3>1, <3>2, <3>5
  <2> QED
    BY <2>1, <2>2
<1> QED
  BY <1>1, <1>2 DEF RoundInv, Retracks

NoGame(t) == t.rules.game = ""

\* No round of a tournament without a game, or before its creation, is dealt.
LEMMA NothingDealt ==
  ASSUME NEW id, NEW t, NEW rs, TrackOK(id, t, rs), NEW p \in Players,
         NoGame(t) \/ t.status = "absent" \/ ~Joined(t, p), NEW r \in 1..Rounds
  PROVE  rs[<<id, p, r>>].status = "none"
<1>0. Rounds \in Nat \ {0} /\ 1 \in 1..Rounds /\ (1 < r \/ r = 1)
  BY LadderAssumption
<1>1. rs[<<id, p, 1>>].status = "none"
  BY Zenon DEF TrackOK, NoGame
<1>2. HandOK(rs, id, p)
  BY DEF TrackOK
<1>3. ASSUME rs[<<id, p, r>>].status # "none" PROVE FALSE
  BY <1>0, <1>1, <1>2, <1>3 DEF HandOK
<1> QED
  BY <1>3

\* A tournament without a game, or one that is created.
LEMMA PlainTrack ==
  ASSUME NEW id, NEW t, NEW rs, TrackOK(id, t, rs),
         NoGame(t) \/ t.status = "absent", NEW u, NoGame(u) \/ DOMAIN u.entries = {}
  PROVE  TrackOK(id, u, rs)
<1>1. \A p \in Players, r \in 1..Rounds : rs[<<id, p, r>>].status = "none"
  BY NothingDealt
<1>2. 1 \in 1..Rounds
  BY LadderAssumption
<1>3. \A p \in Players : HandOK(rs, id, p)
  BY DEF TrackOK
<1>4. \A p \in Players : rs[<<id, p, 1>>].status = "none"
  BY <1>1, <1>2
<1> QED
  BY <1>1, <1>3, <1>4, Zenon DEF TrackOK, NoGame

\* A settlement.
LEMMA SettledTrack ==
  ASSUME NEW id, NEW t, NEW rs, TrackOK(id, t, rs), t.status \in {"closed", "voided"},
         NEW u, u.rules = t.rules, u.entries = t.entries, u.status = "settled"
  PROVE  TrackOK(id, u, rs)
<1>1. /\ \A p \in Players : HandOK(rs, id, p)
      /\ \A p \in Players : rs[<<id, p, 1>>].status # "none" => t.rules.game # "" /\ Joined(t, p)
      /\ \A p \in Players, r \in 1..Rounds : rs[<<id, p, r>>].status # "playing"
      /\ t.rules.game # "" => \A i \in DOMAIN t.entries : EntryOK(id, t, rs, i)
  BY DEF TrackOK
<1>2. \A p : Joined(u, p) <=> Joined(t, p)
  BY DEF Joined
<1>3. \A i \in DOMAIN t.entries : EntryOK(id, t, rs, i) => EntryOK(id, u, rs, i)
  BY DEF EntryOK
<1> QED
  BY <1>1, <1>2, <1>3 DEF TrackOK

\* An entry that joins.
LEMMA JoinedTrack ==
  ASSUME NEW id, NEW t, TourOK(t), NEW rs, TrackOK(id, t, rs), t.status = "open",
         NEW player, player.id \in Players, ~Joined(t, player.id), NEW entry,
         entry = [player |-> player, joinSeq |-> Len(t.entries) + 1,
                  scored |-> FALSE, score |-> 0, submitSeq |-> 0],
         NEW u, u.rules = t.rules, u.status = t.status, TourOK(u),
         u.entries = Append(t.entries, entry)
  PROVE  TrackOK(id, u, rs)
<1>0. PICK n \in Nat : n = Len(t.entries) /\ DOMAIN t.entries = 1..n
  BY FieldLen DEF TourOK
<1>1. /\ DOMAIN u.entries = 1..n + 1 /\ u.entries[n + 1] = entry
      /\ \A i \in 1..n : u.entries[i] = t.entries[i]
  <2>1. PICK e : e = t.entries /\ e \in Seq(EntryRec)
    BY DEF TourOK, FieldOK
  <2>2. Append(e, entry) = [i \in 1..n + 1 |-> IF i = n + 1 THEN entry ELSE e[i]]
    BY <1>0, <2>1
  <2> QED
    BY <1>0, <2>1, <2>2
<1>2. /\ \A p \in Players : HandOK(rs, id, p)
      /\ \A p \in Players : rs[<<id, p, 1>>].status # "none" => t.rules.game # "" /\ Joined(t, p)
      /\ t.rules.game # "" => \A i \in DOMAIN t.entries : EntryOK(id, t, rs, i)
  BY DEF TrackOK
<1>3. \A p : Joined(t, p) => Joined(u, p)
  BY <1>0, <1>1 DEF Joined
<1>4. ASSUME t.rules.game # "", NEW i \in 1..n + 1 PROVE EntryOK(id, u, rs, i)
  <2>1. CASE i = n + 1
    <3>1. PICK p : p = player.id
      OBVIOUS
    <3>2. Rounds \in 1..Rounds
      BY LadderAssumption
    <3>3. rs[<<id, p, Rounds>>].status = "none"
      BY <3>1, <3>2, NothingDealt
    <3>4. u.entries[i].player.id = p /\ ~u.entries[i].scored
      BY <1>1, <2>1, <3>1
    <3> QED
      BY <3>1, <3>3, <3>4 DEF EntryOK
  <2>2. CASE i # n + 1
    <3>1. i \in 1..n
      BY <2>2
    <3> QED
      BY <1>0, <1>1, <1>2, <1>4, <3>1 DEF EntryOK
  <2> QED
    BY <2>1, <2>2
<1> QED
  BY <1>1, <1>2, <1>3, <1>4 DEF TrackOK

\* A round that is dealt, or goes on.
LEMMA LiveChange ==
  ASSUME NEW id \in Ids, NEW w, OpenOK(id, w), NEW p \in Players, NEW r \in 1..Rounds,
         Joined(w.t, p), NEW rec, RecOK(rec), rec.status = "playing",
         w.rounds[<<id, p, r>>].status # "finished",
         \A s \in 1..Rounds : s < r => w.rounds[<<id, p, s>>].status = "finished",
         NEW x, WorldShape(x), x.t = w.t, x.rounds = [w.rounds EXCEPT ![<<id, p, r>>] = rec]
  PROVE  OpenOK(id, x)
<1>0. Rounds \in Nat \ {0} /\ 1 \in 1..Rounds /\ Rounds \in 1..Rounds
  BY LadderAssumption
<1>1. PICK t, old, rs : t = w.t /\ old = w.rounds /\ rs = x.rounds
  OBVIOUS
<1>2. /\ TourOK(t) /\ t.status = "open" /\ t.rules.game # "" /\ DOMAIN old = RoundKeys
      /\ TrackOK(id, t, old) /\ FieldOK(t.entries)
  BY <1>1 DEF OpenOK, TourOK
<1>3. HandOK(old, id, p)
  BY <1>2 DEF TrackOK
<1>4. \A s \in 1..Rounds : s > r => old[<<id, p, s>>].status = "none"
  BY <1>1, <1>3 DEF HandOK
<1>5. rs = [old EXCEPT ![<<id, p, r>>] = rec]
  BY <1>1
<1>6. HandOK(rs, id, p)
  BY <1>1, <1>2, <1>3, <1>4, <1>5, HandChange
<1>7. OnlyRound(old, rs, id, p, r, rec)
  BY <1>2, <1>5, OneRound
<1>8. /\ DOMAIN rs = RoundKeys /\ rs[<<id, p, r>>] = rec
      /\ \A q \in Players, s \in 1..Rounds :
           (q # p \/ s # r) => rs[<<id, q, s>>] = old[<<id, q, s>>]
  BY <1>7 DEF OnlyRound
<1>9. old[<<id, p, Rounds>>].status # "finished"
  BY <1>0, <1>1, <1>4
<1>10. rs[<<id, p, Rounds>>].status # "finished"
  BY <1>8, <1>0, <1>9
<1>11. ASSUME NEW q \in Players PROVE HandOK(rs, id, q)
  <2>1. CASE q # p
    <3>1. \A s \in 1..Rounds : rs[<<id, q, s>>] = old[<<id, q, s>>]
      BY <1>8, <2>1
    <3>2. HandOK(old, id, q)
      BY <1>2 DEF TrackOK
    <3> QED
      BY <3>1, <3>2 DEF HandOK
  <2> QED
    BY <1>6, <2>1
<1>12. ASSUME NEW q \in Players, rs[<<id, q, 1>>].status # "none" PROVE Joined(t, q)
  <2>1. CASE q = p
    BY <1>1, <2>1
  <2>2. CASE q # p
    BY <1>0, <1>8, <2>2, <1>2, <1>12 DEF TrackOK
  <2> QED
    BY <2>1, <2>2
<1>13. ASSUME NEW i \in DOMAIN t.entries PROVE EntryOK(id, t, rs, i)
  <2>1. EntryOK(id, t, old, i)
    BY <1>2 DEF TrackOK
  <2>2. PICK q : q = t.entries[i].player.id
    OBVIOUS
  <2>3. q \in Players
    BY <2>1, <2>2 DEF EntryOK
  <2>4. CASE q = p
    <3>1. ~t.entries[i].scored
      BY <1>2, <1>9, <2>1, <2>2, <2>4 DEF EntryOK
    <3> QED
      BY <1>2, <1>10, <2>2, <2>4, <3>1 DEF EntryOK
  <2>5. CASE q # p
    <3>1. \A s \in 1..Rounds : rs[<<id, q, s>>] = old[<<id, q, s>>]
      BY <1>8, <2>3, <2>5
    <3>2. Progress(rs, id, q) = Progress(old, id, q)
      BY <3>1, ProgressSame
    <3> QED
      BY <1>0, <1>2, <2>1, <2>2, <3>1, <3>2 DEF EntryOK
  <2> QED
    BY <2>4, <2>5
<1>14. TrackOK(id, t, rs)
  BY <1>2, <1>11, <1>12, <1>13 DEF TrackOK
<1> QED
  BY <1>1, <1>2, <1>8, <1>14 DEF OpenOK

LEMMA NoRoundIs == NoRound.status = "none" /\ NoRound.moves = <<>>
BY DEF NoRound

LEMMA RoundsUntouched ==
  ASSUME BookInv, RoundInv, UNCHANGED <<tournaments, book, rounds>>
  PROVE  BookInv' /\ RoundInv' /\ Carries
<1>1. BookInv' /\ RoundInv'
  BY DEF BookInv, RoundInv
<1>2. Carries
  BY DEF Carries, Carried, Goes
<1> QED
  BY <1>1, <1>2

LEMMA OpenWorld ==
  ASSUME BookInv, RoundInv, NEW id \in Ids, NEW t, t = tournaments[id], t.status = "open",
         ~NoGame(t), NEW w, w = World(t)
  PROVE  OpenOK(id, w) /\ w.t = t /\ w.rounds = rounds
<1>1. w = [t |-> t, rounds |-> rounds, events |-> events]
  BY DEF World
<1>2. w.t = t /\ w.rounds = rounds /\ WorldShape(w)
  BY <1>1 DEF WorldShape
<1>3. TourOK(t) /\ DOMAIN rounds = RoundKeys /\ TrackOK(id, t, rounds)
  BY DEF BookInv, RoundInv
<1>4. OpenOK(id, w)
  BY <1>2, <1>3, Zenon DEF OpenOK, NoGame
<1> QED
  BY <1>2, <1>4

\* A command that leaves the world v of an open tournament behind.
LEMMA WorldApplied ==
  ASSUME BookInv, RoundInv, NEW cmd, NEW id \in Ids, NEW v, OpenOK(id, v),
         SameField(tournaments[id], v.t), tournaments'[id] = v.t,
         \A o \in Ids \ {id} : tournaments'[o] = tournaments[o], rounds' = v.rounds, book' = book,
         NEW p \in Players, NEW r \in 1..Rounds, NEW rec,
         OnlyRound(rounds, rounds', id, p, r, rec), Goes(rounds[<<id, p, r>>], rec)
  PROVE  BookInv' /\ RoundInv' /\ Carries
<1>1. \A o \in Ids \ {id}, q \in Players, s \in 1..Rounds :
        rounds'[<<o, q, s>>] = rounds[<<o, q, s>>]
  <2>1. PICK old, new : old = rounds /\ new = rounds'
    OBVIOUS
  <2>2. OnlyRound(old, new, id, p, r, rec)
    BY <2>1
  <2> QED
    BY <2>1, <2>2 DEF OnlyRound
<1>2. Touches(cmd, id)
  BY DEF Touches
<1>3. TourOK(v.t) /\ DOMAIN v.rounds = RoundKeys /\ TrackOK(id, v.t, v.rounds)
  BY DEF OpenOK
<1>4. PaidOK(id, v.t, book')
  BY PaidSame DEF BookInv, SameField
<1>5. Retracks(cmd, id)
  BY <1>1, <1>2, <1>3, <1>4 DEF Retracks
<1>6. Carried(tournaments[id], tournaments'[id])
  <2>1. FieldOK(tournaments[id].entries) /\ FieldOK(v.t.entries) /\ tournaments[id].status = "open"
    BY <1>3 DEF BookInv, TourOK, OpenOK, SameField
  <2> QED
    BY <2>1, SameFieldCarried
<1> QED
  BY <1>5, <1>6, RetracksKeeps, OneGoes

\* startRound.
LEMMA StartTrack ==
  ASSUME PlayTable, BookInv, RoundInv, NEW cmd \in Commands, StartRound(cmd)
  PROVE  BookInv' /\ RoundInv' /\ Carries
<1>1. PICK op, id, p, r : op = cmd.op /\ id = op.tournament /\ p = op.player /\ r = op.round
  OBVIOUS
<1>2. PICK code : code = Verdict(<< <<SequencedCode(op) # OK, SequencedCode(op)>>,
                                    <<TRUE, DealCode(op)>> >>)
  OBVIOUS
<1>3. PICK rec : rec = [NoRound EXCEPT !.status = "playing", !.seed = op.seed,
                   !.startedAt = applied + 1, !.deadline = clock' + RoundLimit]
  OBVIOUS
<1>4. \/ UNCHANGED <<tournaments, book, rounds>>
      \/ /\ code = OK /\ op.name = "start_round"
         /\ rounds' = [rounds EXCEPT ![<<id, p, r>>] = rec]
         /\ UNCHANGED <<tournaments, book>>
  BY <1>1, <1>2, <1>3 DEF StartRound, RejectPlay, Executes
<1>5. CASE UNCHANGED <<tournaments, book, rounds>>
  BY <1>5, RoundsUntouched
<1>6. CASE /\ code = OK /\ op.name = "start_round"
           /\ rounds' = [rounds EXCEPT ![<<id, p, r>>] = rec]
           /\ UNCHANGED <<tournaments, book>>
  <2>1. SequencedCode(op) = OK /\ DealCode(op) = OK
    BY <1>2, <1>6, VerdictThen
  <2>2. InGame(op) /\ Dealable(op)
    BY <2>1, SequencedOK, DealCodeIs
  <2>3. p \in Players /\ op.seed \in Seeds
    BY <1>1, <1>6, IntentAssumption DEF Sequenced
  <2>4. PICK t : t = tournaments[id]
    OBVIOUS
  <2>5. id \in Ids /\ At(id) = t /\ ~NoGame(t)
    BY <1>1, <2>2, <2>4, Zenon DEF InGame, NoGame
  <2>6. /\ t.status = "open" /\ Joined(t, p) /\ r \in 1..Rounds /\ rounds[<<id, p, r>>] = NoRound
        /\ r \in 2..Rounds => rounds[<<id, p, r - 1>>].status = "finished"
    BY <1>1, <2>2, <2>5 DEF Dealable
  <2>7. PICK w : w = World(t)
    OBVIOUS
  <2>8. OpenOK(id, w) /\ w.t = t /\ w.rounds = rounds
    BY <2>4, <2>5, <2>6, <2>7, OpenWorld
  <2>9. PICK x : x = [t |-> t, rounds |-> rounds', events |-> events]
    OBVIOUS
  <2>10. WorldShape(x) /\ x.t = t /\ x.rounds = rounds'
    BY <2>9 DEF WorldShape
  <2>11. RecOK(rec) /\ rec.status = "playing" /\ rec.startedAt = applied + 1
    <3>1. rec = [status |-> "playing", seed |-> op.seed, moves |-> <<>>, reason |-> "",
                 score |-> 0, startedAt |-> applied + 1, deadline |-> clock' + RoundLimit,
                 finishedAt |-> 0]
      BY <1>3 DEF NoRound
    <3>2. /\ rec.status = "playing" /\ rec.seed = op.seed /\ rec.moves = <<>> /\ rec.reason = ""
          /\ rec.score = 0 /\ rec.startedAt = applied + 1 /\ rec.finishedAt = 0
          /\ rec.deadline = clock' + RoundLimit
      BY <3>1
    <3>3. <<>> \in Seq(Moves)
      OBVIOUS
    <3> QED
      BY <2>3, <3>1, <3>2, <3>3 DEF RecOK
  <2>12. rounds[<<id, p, r>>].status = "none"
    BY <2>6, NoRoundIs
  <2>13. ASSUME NEW s \in 1..Rounds, s < r PROVE rounds[<<id, p, s>>].status = "finished"
    <3>1. HandOK(rounds, id, p)
      BY <2>3, <2>5 DEF RoundInv, TrackOK
    <3>2. Rounds \in Nat \ {0}
      BY LadderAssumption
    <3>3. r \in 2..Rounds /\ r - 1 \in 1..Rounds /\ (s = r - 1 \/ s < r - 1)
      BY <2>6, <2>13, <3>2
    <3>4. rounds[<<id, p, r - 1>>].status = "finished"
      BY <2>6, <3>3
    <3> QED
      BY <3>1, <3>3, <3>4 DEF HandOK
  <2>14. OpenOK(id, x)
    <3>1. /\ w.rounds[<<id, p, r>>].status # "finished"
          /\ \A s \in 1..Rounds : s < r => w.rounds[<<id, p, s>>].status = "finished"
          /\ Joined(w.t, p)
      BY <2>6, <2>8, <2>12, <2>13
    <3>2. x.t = w.t /\ x.rounds = [w.rounds EXCEPT ![<<id, p, r>>] = rec]
      BY <1>6, <2>8, <2>10
    <3>3. r \in 1..Rounds
      BY <2>6
    <3> QED
      BY <2>3, <2>5, <2>8, <2>10, <2>11, <3>1, <3>2, <3>3, LiveChange
  <2>15. OnlyRound(rounds, rounds', id, p, r, rec)
    <3>1. PICK old, new : old = rounds /\ new = rounds'
      OBVIOUS
    <3>2. OnlyRound(old, new, id, p, r, rec)
      BY <1>6, <2>3, <2>5, <2>6, <3>1, OneRound DEF RoundInv
    <3> QED
      BY <3>1, <3>2
  <2>16. tournaments'[id] = x.t /\ \A o \in Ids \ {id} : tournaments'[o] = tournaments[o]
    BY <1>6, <2>4, <2>10
  <2>17. SameField(tournaments[id], x.t)
    BY <2>4, <2>10 DEF SameField
  <2>18. Goes(rounds[<<id, p, r>>], rec) /\ r \in 1..Rounds
    BY <2>6, <2>11, <2>12 DEF Goes
  <2> QED
    BY <1>6, <2>3, <2>5, <2>10, <2>14, <2>15, <2>16, <2>17, <2>18, WorldApplied
<1> QED
  BY <1>4, <1>5, <1>6

\* A round that has started and is not finished is in play.
LEMMA StartedIsPlaying ==
  ASSUME BookInv, RoundInv, NEW op, NEW rec, OnRound(op, rec), op.player \in Players
  PROVE  /\ RecOK(rec) /\ rec.status \in {"playing", "finished"}
         /\ HandOK(rounds, op.tournament, op.player)
<1>1. PICK id, p, r : id = op.tournament /\ p = op.player /\ r = op.round
  OBVIOUS
<1>2. id \in Ids /\ r \in 1..Rounds /\ rec = rounds[<<id, p, r>>] /\ rec # NoRound
  BY <1>1 DEF OnRound, InGame
<1>3. HandOK(rounds, id, p)
  BY <1>1, <1>2 DEF RoundInv, TrackOK
<1>4. RecOK(rec)
  BY <1>2, <1>3 DEF HandOK
<1> QED
  BY <1>1, <1>2, <1>3, <1>4 DEF RecOK

\* finishRound on the world of an open tournament, applied.
LEMMA FinishApplied ==
  ASSUME TableInv, BookInv, RoundInv, NEW cmd, NEW id \in Ids, NEW w, OpenOK(id, w),
         SameField(tournaments[id], w.t), NEW p \in Players, NEW r \in 1..Rounds,
         NEW k, k = <<id, p, r>>, w.rounds[k].status = "playing", NEW reason, NEW closing,
         NEW v, v = FinishWorld(w, k, reason, closing), NEW rec,
         OnlyRound(rounds, w.rounds, id, p, r, rec), rounds[k].status = "playing",
         rec = rounds[k] \/ \E move : rec = Went(rounds[k], move),
         tournaments' = [tournaments EXCEPT ![id] = v.t], rounds' = v.rounds, book' = book
  PROVE  BookInv' /\ RoundInv' /\ Carries
<1>1. RoundEnded(id, w, v, k, reason)
  BY FinishKeeps
<1>2. /\ OpenOK(id, v) /\ SameField(w.t, v.t)
      /\ v.rounds = [w.rounds EXCEPT ![k] = Ended(w.rounds[k], reason)]
  BY <1>1 DEF RoundEnded
<1>3. SameField(tournaments[id], v.t)
  BY <1>2, SameFieldTrans
<1>4. PICK old, new, done : old = w.rounds /\ new = v.rounds /\ done = Ended(w.rounds[k], reason)
  OBVIOUS
<1>5. DOMAIN old = RoundKeys /\ new = [old EXCEPT ![<<id, p, r>>] = done]
  BY <1>2, <1>4 DEF OpenOK
<1>6. OnlyRound(old, new, id, p, r, done)
  BY <1>5, OneRound
<1>7. OnlyRound(rounds, rounds', id, p, r, done) /\ Goes(rounds[<<id, p, r>>], done)
  <2>1. PICK was : was = rounds
    OBVIOUS
  <2>2. OnlyRound(was, old, id, p, r, rec)
    BY <1>4, <2>1
  <2>3. OnlyRound(was, new, id, p, r, done) /\ old[<<id, p, r>>] = rec
    BY <1>6, <2>2 DEF OnlyRound
  <2>4. done = Ended(rec, reason)
    BY <1>4, <2>3
  <2>5. Goes(was[<<id, p, r>>], done)
    BY <2>1, <2>4 DEF Goes
  <2>6. rounds' = new /\ rounds = was
    BY <1>4, <2>1
  <2> QED
    BY <2>3, <2>5, <2>6
<1>8. tournaments'[id] = v.t /\ \A o \in Ids \ {id} : tournaments'[o] = tournaments[o]
  BY DEF TableInv
<1> QED
  BY <1>2, <1>3, <1>7, <1>8, WorldApplied

\* A round after a move.
LEMMA WentOK ==
  ASSUME NEW rec, RecOK(rec), rec.status = "playing", NEW move \in Moves, NEW new, new = Went(rec, move)
  PROVE  RecOK(new) /\ new.status = "playing" /\ new.moves = Append(rec.moves, move)
         /\ new.seed = rec.seed /\ new.startedAt = rec.startedAt /\ new.deadline = rec.deadline
<1>1. PICK ms : ms = Append(rec.moves, move)
  OBVIOUS
<1>2. rec.seed \in Seeds /\ rec.moves \in Seq(Moves)
  BY DEF RecOK
<1>3. ms \in Seq(Moves)
  BY <1>1, <1>2
<1>4. new = [status |-> "playing", seed |-> rec.seed, moves |-> ms,
             reason |-> rec.reason, score |-> rec.score, startedAt |-> rec.startedAt,
             deadline |-> rec.deadline, finishedAt |-> rec.finishedAt]
  BY <1>1 DEF RecOK, Went
<1>5. /\ new.status = "playing" /\ new.seed = rec.seed /\ new.moves = ms
      /\ new.reason = rec.reason /\ new.score = rec.score /\ new.startedAt = rec.startedAt
      /\ new.deadline = rec.deadline /\ new.finishedAt = rec.finishedAt
  BY <1>4
<1> QED
  BY <1>1, <1>2, <1>3, <1>4, <1>5 DEF RecOK

\* A move that is accepted is the last of its round.
MoveMade(op, k) ==
  MoveCode(op) = OK => rounds'[k].moves = Append(Named(op).moves, op.move)

LEMMA MoveTrack ==
  ASSUME PlayTable, BookInv, RoundInv, NEW cmd \in Commands, PlayMove(cmd)
  PROVE  /\ BookInv' /\ RoundInv' /\ Carries
         /\ MoveMade(cmd.op, <<cmd.op.tournament, cmd.op.player, cmd.op.round>>)
<1>1. PICK op, id, p, r : op = cmd.op /\ id = op.tournament /\ p = op.player /\ r = op.round
  OBVIOUS
<1>2. PICK code, rec, k : code = MoveCode(op) /\ rec = Named(op) /\ k = <<id, p, r>>
  OBVIOUS
<1>3. PICK over : over = Over(Moved(BoardOf(rec.seed, rec.moves), op.move))
  OBVIOUS
<1>4. PICK moved : moved = [World(At(id)) EXCEPT !.rounds[k].moves = Append(@, op.move)]
  OBVIOUS
<1>5. PICK w : w = IF over = NotOver THEN moved ELSE FinishWorld(moved, k, over, FALSE)
  OBVIOUS
<1>6. /\ op.name = "play_move"
      /\ \/ code # OK /\ UNCHANGED <<tournaments, book, rounds>>
         \/ /\ code = OK
            /\ tournaments' = [tournaments EXCEPT ![id] = w.t]
            /\ rounds' = w.rounds
            /\ book' = book
  BY <1>1, <1>2, <1>3, <1>4, <1>5, Zenon DEF PlayMove, RejectPlay, Executes
<1>7. CASE code # OK /\ UNCHANGED <<tournaments, book, rounds>>
  BY <1>1, <1>2, <1>7, RoundsUntouched DEF MoveMade
<1>8. CASE /\ code = OK
           /\ tournaments' = [tournaments EXCEPT ![id] = w.t]
           /\ rounds' = w.rounds
           /\ book' = book
  <2>1. OnRound(op, rec) /\ At(op.tournament).status = "open" /\ rec.status # "finished"
    BY <1>2, <1>8, MoveCodeOK
  <2>2. p \in Players /\ op.move \in Moves
    BY <1>1, <1>6, IntentAssumption DEF Sequenced, Moves
  <2>3. PICK t : t = tournaments[id]
    OBVIOUS
  <2>4. id \in Ids /\ At(id) = t /\ ~NoGame(t)
    BY <1>1, <2>1, <2>3, Zenon DEF OnRound, InGame, NoGame
  <2>5. t.status = "open" /\ Joined(t, p) /\ r \in 1..Rounds /\ rounds[k] = rec
    BY <1>1, <1>2, <2>1, <2>4 DEF OnRound
  <2>6. RecOK(rec) /\ rec.status = "playing" /\ HandOK(rounds, id, p)
    BY <1>1, <2>1, <2>2, StartedIsPlaying
  <2>7. PICK base : base = World(t)
    OBVIOUS
  <2>8. OpenOK(id, base) /\ base.t = t /\ base.rounds = rounds
    BY <2>3, <2>4, <2>5, <2>7, OpenWorld
  <2>9. PICK new : new = Went(rec, op.move)
    OBVIOUS
  <2>10. RecOK(new) /\ new.status = "playing"
    BY <2>2, <2>6, <2>9, WentOK
  <2>11. moved = [t |-> t, rounds |-> [rounds EXCEPT ![k] = new], events |-> events]
    <3>1. base = [t |-> t, rounds |-> rounds, events |-> events]
      BY <2>7 DEF World
    <3>2. moved = [base EXCEPT !.rounds = [rounds EXCEPT ![k] = new]]
      BY <1>4, <2>4, <2>5, <2>7, <2>8, <2>9 DEF Went
    <3> QED
      BY <3>1, <3>2
  <2>12. WorldShape(moved) /\ moved.t = t /\ moved.rounds = [rounds EXCEPT ![k] = new]
    BY <2>11 DEF WorldShape
  <2>13. \A s \in 1..Rounds : s < r => rounds[<<id, p, s>>].status = "finished"
    BY <1>2, <2>5, <2>6 DEF HandOK
  <2>14. OpenOK(id, moved)
    <3>1. /\ base.rounds[<<id, p, r>>].status # "finished"
          /\ \A s \in 1..Rounds : s < r => base.rounds[<<id, p, s>>].status = "finished"
          /\ Joined(base.t, p)
      BY <1>2, <2>5, <2>6, <2>8, <2>13
    <3>2. moved.t = base.t /\ moved.rounds = [base.rounds EXCEPT ![<<id, p, r>>] = new]
      BY <1>2, <2>8, <2>12
    <3>3. r \in 1..Rounds
      BY <2>5
    <3> QED
      BY <2>2, <2>4, <2>8, <2>10, <2>12, <3>1, <3>2, <3>3, LiveChange
  <2>15. OnlyRound(rounds, moved.rounds, id, p, r, new)
    <3>1. PICK old, rs : old = rounds /\ rs = moved.rounds
      OBVIOUS
    <3>2. OnlyRound(old, rs, id, p, r, new)
      BY <1>2, <2>2, <2>4, <2>5, <2>12, <3>1, OneRound DEF RoundInv
    <3> QED
      BY <3>1, <3>2
  <2>16. SameField(tournaments[id], moved.t)
    BY <2>3, <2>12 DEF SameField
  <2>17. CASE over = NotOver
    <3>1. w = moved
      BY <1>5, <2>17
    <3>2. OnlyRound(rounds, rounds', id, p, r, new) /\ Goes(rounds[<<id, p, r>>], new)
          /\ r \in 1..Rounds
      BY <1>2, <1>8, <2>5, <2>6, <2>9, <2>15, <3>1 DEF Goes
    <3>3. tournaments'[id] = moved.t /\ \A o \in Ids \ {id} : tournaments'[o] = tournaments[o]
      BY <1>8, <2>4, <3>1 DEF PlayTable, TableInv
    <3>4. BookInv' /\ RoundInv' /\ Carries
      BY <1>8, <2>2, <2>4, <2>14, <2>16, <3>1, <3>2, <3>3, WorldApplied
    <3>5. rounds'[k].moves = Append(rec.moves, op.move)
      BY <1>2, <2>6, <2>9, <3>2 DEF OnlyRound, Went, RecOK
    <3> QED
      BY <1>1, <1>2, <3>4, <3>5 DEF MoveMade
  <2>18. CASE over # NotOver
    <3>1. w = FinishWorld(moved, k, over, FALSE)
      BY <1>5, <2>18
    <3>2. moved.rounds[k].status = "playing"
      BY <1>2, <2>10, <2>15 DEF OnlyRound
    <3>3. /\ r \in 1..Rounds /\ TableInv /\ rounds[k].status = "playing"
          /\ \E move : new = Went(rounds[k], move)
      BY <2>5, <2>6, <2>9 DEF PlayTable
    <3>4. BookInv' /\ RoundInv' /\ Carries
      BY <1>2, <1>8, <2>2, <2>4, <2>14, <2>15, <2>16, <3>1, <3>2, <3>3, FinishApplied
    <3>5. RoundEnded(id, moved, w, k, over)
      BY <1>2, <2>2, <2>4, <2>5, <2>14, <3>1, <3>2, FinishKeeps
    <3>6. moved.rounds[k] = new /\ k \in DOMAIN moved.rounds
      BY <1>2, <2>2, <2>4, <2>5, <2>15 DEF OnlyRound, RoundKeys
    <3>7. rounds'[k] = Ended(new, over)
      BY <1>8, <3>5, <3>6 DEF RoundEnded
    <3>8. rounds'[k].moves = Append(rec.moves, op.move)
      BY <2>6, <2>9, <2>10, <3>7 DEF Went, RecOK, Ended
    <3> QED
      BY <1>1, <1>2, <3>4, <3>8 DEF MoveMade
  <2> QED
    BY <2>17, <2>18
<1> QED
  BY <1>6, <1>7, <1>8

LEMMA FinishTrack ==
  ASSUME PlayTable, BookInv, RoundInv, NEW cmd \in Commands, FinishRound(cmd)
  PROVE  BookInv' /\ RoundInv' /\ Carries
<1>1. PICK op, id, p, r : op = cmd.op /\ id = op.tournament /\ p = op.player /\ r = op.round
  OBVIOUS
<1>2. PICK code, rec, k : code = FinishCode(op) /\ rec = Named(op) /\ k = <<id, p, r>>
  OBVIOUS
<1>3. PICK reason : reason = IF clock' > rec.deadline THEN "expired" ELSE "resigned"
  OBVIOUS
<1>4. PICK v : v = FinishWorld(World(At(id)), k, reason, FALSE)
  OBVIOUS
<1>5. /\ op.name = "finish_round"
      /\ \/ UNCHANGED <<tournaments, book, rounds>>
         \/ /\ code = OK /\ rec.status # "finished"
            /\ tournaments' = [tournaments EXCEPT ![id] = v.t]
            /\ rounds' = v.rounds
            /\ book' = book
  BY <1>1, <1>2, <1>3, <1>4, Zenon DEF FinishRound, RejectPlay, Executes
<1>6. CASE UNCHANGED <<tournaments, book, rounds>>
  BY <1>6, RoundsUntouched
<1>7. CASE /\ code = OK /\ rec.status # "finished"
           /\ tournaments' = [tournaments EXCEPT ![id] = v.t]
           /\ rounds' = v.rounds
           /\ book' = book
  <2>1. OnRound(op, rec) /\ At(op.tournament).status = "open"
    BY <1>2, <1>7, FinishCodeOK
  <2>2. p \in Players
    BY <1>1, <1>5, IntentAssumption DEF Sequenced
  <2>3. PICK t : t = tournaments[id]
    OBVIOUS
  <2>4. id \in Ids /\ At(id) = t /\ ~NoGame(t)
    BY <1>1, <2>1, <2>3, Zenon DEF OnRound, InGame, NoGame
  <2>5. t.status = "open" /\ Joined(t, p) /\ r \in 1..Rounds /\ rounds[k] = rec
    BY <1>1, <1>2, <2>1, <2>4 DEF OnRound
  <2>6. rec.status = "playing"
    BY <1>1, <1>7, <2>1, <2>2, StartedIsPlaying
  <2>7. PICK w : w = World(t)
    OBVIOUS
  <2>8. OpenOK(id, w) /\ w.t = t /\ w.rounds = rounds
    BY <2>3, <2>4, <2>5, <2>7, OpenWorld
  <2>9. OnlyRound(rounds, w.rounds, id, p, r, rec)
    BY <1>2, <2>5, <2>8 DEF OnlyRound, RoundInv
  <2>10. SameField(tournaments[id], w.t) /\ w.rounds[k].status = "playing"
         /\ v = FinishWorld(w, k, reason, FALSE) /\ r \in 1..Rounds /\ TableInv
         /\ rounds[k].status = "playing" /\ rec = rounds[k]
    BY <1>4, <2>3, <2>4, <2>5, <2>6, <2>7, <2>8 DEF SameField, PlayTable
  <2> QED
    BY <1>2, <1>7, <2>2, <2>4, <2>8, <2>9, <2>10, FinishApplied
<1> QED
  BY <1>5, <1>6, <1>7

\* The first rule that close checks.
LEMMA CloseCodeOK ==
  ASSUME NEW t, CloseCode(t) = OK
  PROVE  t.status = "open"
<1>1. PICK rules : rules = << <<t.status = "absent", "unknown_tournament">>,
                              <<t.status # "open", "not_open">> >>
  OBVIOUS
<1>2. DOMAIN rules = 1..2 /\ 1..2 \subseteq 1..7 /\ Verdict(rules) = OK
  BY <1>1 DEF CloseCode
<1>3. rules[2][1] <=> t.status # "open"
  BY <1>1, Zenon
<1>4. \A i \in 1..2 : rules[i][2] # OK
  BY <1>1 DEF OK
<1>5. \A i \in DOMAIN rules : ~rules[i][1]
  BY <1>2, <1>4, VerdictPasses
<1> QED
  BY <1>2, <1>3, <1>5

LEMMA CloseTrack ==
  ASSUME PlayTable, BookInv, RoundInv, NEW cmd \in Commands, ClosePlay(cmd)
  PROVE  BookInv' /\ RoundInv' /\ Carries
<1>1. PICK id : id = cmd.op.tournament
  OBVIOUS
<1>2. PICK w : w = CloseRounds(id, At(id))
  OBVIOUS
<1>3. PICK u : u = CloseRecord(w.t)
  OBVIOUS
<1>4. /\ CloseCode(At(id)) = OK /\ ~NoGame(At(id))
      /\ tournaments' = [tournaments EXCEPT ![id] = u]
      /\ rounds' = w.rounds /\ book' = book
  BY <1>1, <1>2, <1>3, Zenon DEF ClosePlay, NoGame
<1>5. At(id).status = "open"
  BY <1>4, CloseCodeOK
<1>6. PICK t : t = tournaments[id]
  OBVIOUS
<1>7. id \in Ids /\ At(id) = t /\ t.status = "open"
  BY <1>5, <1>6 DEF At, Absent
<1>8. OpenOK(id, World(t))
  BY <1>4, <1>6, <1>7, OpenWorld
<1>9. ClosedOff(id, t, rounds, u, w.rounds)
  BY <1>2, <1>3, <1>7, <1>8, CloseRoundsTrack
<1>10. /\ TourOK(u) /\ u.status \in {"closed", "voided"} /\ u.payouts = t.payouts
       /\ DOMAIN w.rounds = RoundKeys /\ TrackOK(id, u, w.rounds)
       /\ Progressed(id, rounds, w.rounds)
  BY <1>9 DEF ClosedOff
<1>11. tournaments'[id] = u /\ \A o \in Ids \ {id} : tournaments'[o] = tournaments[o]
  BY <1>4, <1>7 DEF PlayTable, TableInv
<1>12. Touches(cmd, id)
  BY <1>4, <1>11 DEF Touches
<1>13. PaidOK(id, u, book')
  BY <1>6, <1>7, <1>4, <1>10 DEF BookInv, PaidOK
<1>14. \A o \in Ids \ {id}, p \in Players, r \in 1..Rounds :
         rounds'[<<o, p, r>>] = rounds[<<o, p, r>>]
  BY <1>4, <1>10 DEF Progressed
<1>15. Retracks(cmd, id)
  BY <1>4, <1>10, <1>11, <1>12, <1>13, <1>14 DEF Retracks
<1>16. Carried(t, u)
  <2>1. /\ u.rules = t.rules /\ Len(u.entries) = Len(t.entries)
        /\ \A i \in 1..Len(t.entries) : u.entries[i].player = t.entries[i].player
    BY <1>9 DEF ClosedOff
  <2>2. FieldOK(t.entries) /\ FieldOK(u.entries)
    BY <1>6, <1>7, <1>10 DEF BookInv, TourOK
  <2>3. \A p : Joined(t, p) => Joined(u, p)
    BY <2>1, <2>2 DEF FieldOK, Joined
  <2> QED
    BY <1>7, <1>10, <2>1, <2>3 DEF Carried
<1>17. ASSUME NEW o \in Ids, NEW p \in Players, NEW r \in 1..Rounds
       PROVE  Goes(rounds[<<o, p, r>>], w.rounds[<<o, p, r>>])
  BY <1>10 DEF Progressed, Goes
<1>18. Carries
  BY <1>6, <1>11, <1>16, <1>4, <1>17 DEF Carried, Carries
<1> QED
  BY <1>7, <1>15, <1>18, RetracksKeeps

\* A player who is bound has the claims of a well-formed one.
BoundInv == \A p \in Players : players[p].bound => players[p].jurisdiction \in Jurisdictions

LEMMA ConsumeKeepsClaims ==
  ASSUME PlayersOK, NEW cmd \in Commands, NEW code, Sequences(cmd, code), NEW q \in Players
  PROVE  players'[q].bound = players[q].bound /\ players'[q].jurisdiction = players[q].jurisdiction
         /\ players'[q].age = players[q].age
<1> DEFINE R == [bound : BOOLEAN, jurisdiction : Jurisdictions \cup {""},
                 age : 0..150, lastSeq : Nat]
<1>1. players \in [Players -> R] /\ players[q] \in R
  BY DEF PlayersOK
<1>2. PICK n, p, rec : n = cmd.op.seq /\ p = cmd.op.player /\ rec = players[q]
  OBVIOUS
<1>3. players' = players \/ players' = [players EXCEPT ![p].lastSeq = n]
  BY <1>2 DEF Sequences, Consume
<1>4. PICK new : new = [rec EXCEPT !.lastSeq = n]
  OBVIOUS
<1>5. new.bound = rec.bound /\ new.jurisdiction = rec.jurisdiction /\ new.age = rec.age
  BY <1>1, <1>2, <1>4
<1>6. players'[q] = rec \/ players'[q] = new
  <2> HIDE DEF R
  <2> QED
    BY <1>1, <1>2, <1>3, <1>4
<1> QED
  BY <1>2, <1>5, <1>6

LEMMA BoundStep ==
  ASSUME PlayTable, BoundInv, NEW cmd \in Commands, NEW at, ApplyPlay(cmd, at)
  PROVE  BoundInv'
<1>1. CASE Alone(cmd) \/ Operates(cmd)
  BY <1>1 DEF Alone, Operates, BoundInv
<1>2. CASE OpenSession(cmd, at)
  <2>1. PICK op : op = cmd.op
    OBVIOUS
  <2>2. PICK rec : rec = [bound |-> TRUE, jurisdiction |-> op.jurisdiction,
                          age |-> op.age, lastSeq |-> 0]
    OBVIOUS
  <2>3. \/ players' = players
        \/ /\ OpenCode(op) = OK /\ bindings[op.device] = NoBinding
           /\ players' = [players EXCEPT ![op.player] = rec]
    BY <1>2, <2>1, <2>2 DEF OpenSession
  <2>4. CASE players' = players
    BY <2>4 DEF BoundInv
  <2>5. CASE /\ OpenCode(op) = OK /\ bindings[op.device] = NoBinding
             /\ players' = [players EXCEPT ![op.player] = rec]
    <3>1. op.player \in Players /\ op.jurisdiction \in Jurisdictions
      BY <2>5, OpenCodeIs
    <3>2. rec.jurisdiction \in Jurisdictions
      BY <2>2, <3>1
    <3>3. DOMAIN players = Players
      BY DEF PlayTable, PlayersOK
    <3>4. \A q \in Players : players'[q] = rec \/ players'[q] = players[q]
      BY <2>5, <3>3
    <3> QED
      BY <3>2, <3>4 DEF BoundInv
  <2> QED
    BY <2>3, <2>4, <2>5
<1>3. ASSUME NEW code, Sequences(cmd, code) PROVE BoundInv'
  BY <1>3, ConsumeKeepsClaims DEF BoundInv, PlayTable
<1> QED
  BY <1>1, <1>2, <1>3, PlayCases

\* What enterPlay admits, and what it leaves behind.
EnteredAs(cmd, id, t, player, fee, u) ==
  /\ id \in Ids /\ t = tournaments[id] /\ TourOK(t) /\ MayJoin(t, player) /\ player \in Applicants
  /\ ~NoGame(t) /\ player.id = cmd.op.player /\ player.id \in Players
  /\ fee = FeePosting(t, id, player) /\ Validate(fee) /\ ~Has(book, fee.key)
  /\ u = [t EXCEPT !.entries = Append(t.entries,
           [player |-> player, joinSeq |-> Len(t.entries) + 1,
            scored |-> FALSE, score |-> 0, submitSeq |-> 0])]
  /\ tournaments'[id] = u /\ (\A o \in Ids \ {id} : tournaments'[o] = tournaments[o])
  /\ book' = book \cup {fee} /\ rounds' = rounds

LEMMA EnterIs ==
  ASSUME PlayTable, BookInv, BoundInv, NEW cmd \in Commands, Enter(cmd),
         ~UNCHANGED <<tournaments, book, rounds>>
  PROVE  \E id, t, player, fee, u : EnteredAs(cmd, id, t, player, fee, u)
<1>1. PICK op, id, p : op = cmd.op /\ id = op.tournament /\ p = op.player
  OBVIOUS
<1>2. PICK player : player = [id |-> p, jurisdiction |-> players[p].jurisdiction,
                              age |-> players[p].age]
  OBVIOUS
<1>3. PICK t, was : t = tournaments[id] /\ was = At(id)
  OBVIOUS
<1>4. PICK code, admit : /\ admit = AdmitCode(was, id, player)
                         /\ code = Verdict(<< <<SequencedCode(op) # OK, SequencedCode(op)>>,
                                              <<TRUE, admit>> >>)
  OBVIOUS
<1>5. PICK entry : entry = [player |-> player, joinSeq |-> Len(was.entries) + 1,
                            scored |-> FALSE, score |-> 0, submitSeq |-> 0]
  OBVIOUS
<1>6. /\ op.name = "enter" /\ code = OK
      /\ book' = Post(book, {FeePosting(was, id, player)})
      /\ tournaments' = [tournaments EXCEPT ![id].entries = Append(@, entry)]
      /\ rounds' = rounds
  BY <1>1, <1>2, <1>3, <1>4, <1>5 DEF Enter, RejectPlay, Executes
<1>7. SequencedCode(op) = OK /\ admit = OK
  <2>1. PICK first : first = SequencedCode(op)
    OBVIOUS
  <2>2. code = Verdict(<< <<first # OK, first>>, <<TRUE, admit>> >>) /\ code = OK
    BY <1>4, <1>6, <2>1
  <2>3. first = OK /\ admit = OK
    BY <2>2, VerdictThen
  <2> QED
    BY <2>1, <2>3
<1>8. InGame(op) /\ Admissible(was, id, player)
  BY <1>4, <1>7, SequencedOK, AdmitCodeIs
<1>9. p \in Players
  BY <1>1, <1>6, IntentAssumption DEF Sequenced
<1>10. id \in Ids /\ was = t /\ ~NoGame(t) /\ players[p].bound
  BY <1>1, <1>3, <1>8, Zenon DEF InGame, NoGame
<1>11. players[p].jurisdiction \in Jurisdictions /\ players[p].age \in 0..150
  BY <1>9, <1>10 DEF BoundInv, PlayTable, PlayersOK
<1>12. player.id = p /\ player \in Applicants /\ ValidatePlayer(player)
  BY <1>2, <1>9, <1>11 DEF Applicants, ValidatePlayer
<1>13. MayJoin(t, player)
  BY <1>8, <1>10, <1>12, Zenon DEF Admissible, MayJoin
<1>14. PICK fee : fee = FeePosting(t, id, player)
  OBVIOUS
<1>15. Validate(fee) /\ ~Has(book, fee.key)
  BY <1>8, <1>10, <1>14 DEF Admissible, CheckFresh
<1>16. PICK u : u = [t EXCEPT !.entries = Append(t.entries, entry)]
  OBVIOUS
<1>17. tournaments'[id] = u /\ \A o \in Ids \ {id} : tournaments'[o] = tournaments[o]
  BY <1>3, <1>6, <1>10, <1>16 DEF PlayTable, TableInv
<1>18. book' = book \cup {fee}
  BY <1>6, <1>10, <1>14, <1>15 DEF Post
<1>19. TourOK(t)
  BY <1>3, <1>10 DEF BookInv
<1>20. EnteredAs(cmd, id, t, player, fee, u)
  BY <1>1, <1>3, <1>5, <1>6, <1>9, <1>10, <1>12, <1>13, <1>14, <1>15, <1>16, <1>17, <1>18, <1>19
     DEF EnteredAs
<1> QED
  BY <1>20

LEMMA EnterTrack ==
  ASSUME PlayTable, BookInv, RoundInv, BoundInv, NEW cmd \in Commands, Enter(cmd)
  PROVE  BookInv' /\ RoundInv' /\ Carries
<1>1. CASE UNCHANGED <<tournaments, book, rounds>>
  BY <1>1, RoundsUntouched
<1>2. CASE ~UNCHANGED <<tournaments, book, rounds>>
  <2>1. PICK id, t, player, fee, u : EnteredAs(cmd, id, t, player, fee, u)
    BY <1>2, EnterIs
  <2>2. /\ id \in Ids /\ t = tournaments[id] /\ TourOK(t) /\ MayJoin(t, player)
        /\ player \in Applicants /\ player.id \in Players
        /\ fee = FeePosting(t, id, player)
        /\ tournaments'[id] = u /\ (\A o \in Ids \ {id} : tournaments'[o] = tournaments[o])
        /\ book' = book \cup {fee} /\ rounds' = rounds
    BY <2>1 DEF EnteredAs
  <2>3. PICK entry : entry = [player |-> player, joinSeq |-> Len(t.entries) + 1,
                              scored |-> FALSE, score |-> 0, submitSeq |-> 0]
    OBVIOUS
  <2>4. u = [t EXCEPT !.entries = Append(t.entries, entry)]
    BY <2>1, <2>3 DEF EnteredAs
  <2>5. TourOK(u)
    BY <2>2, <2>3, <2>4, JoinKeeps
  <2>6. /\ u.status = t.status /\ u.payouts = t.payouts /\ u.rules = t.rules
        /\ u.entries = Append(t.entries, entry)
    BY <2>2, <2>4 DEF TourOK, Shape
  <2>7. fee.kind = "entry_fee" /\ fee.tournament = id
    BY <2>2 DEF FeePosting
  <2>8. Paid(id, book') = Paid(id, book)
    BY <2>2, <2>7 DEF Paid, ForTournament, PaymentKinds
  <2>9. PaidOK(id, t, book)
    BY <2>2 DEF BookInv
  <2>10. PaidOK(id, u, book')
    BY <2>6, <2>8, <2>9, PaidSame
  <2>11. Touches(cmd, id)
    BY <2>2, <2>7 DEF Touches
  <2>12. t.status = "open" /\ ~Joined(t, player.id)
    BY <2>2 DEF MayJoin
  <2>13. DOMAIN rounds = RoundKeys /\ TrackOK(id, t, rounds)
    BY <2>2 DEF RoundInv
  <2>14. TrackOK(id, u, rounds)
    BY <2>2, <2>3, <2>5, <2>6, <2>12, <2>13, JoinedTrack
  <2>15. Retracks(cmd, id)
    BY <2>2, <2>5, <2>10, <2>11, <2>13, <2>14 DEF Retracks
  <2>16. Carried(t, u)
    <3>1. t.entries \in Seq(EntryRec)
      BY <2>2 DEF TourOK, FieldOK
    <3>2. \A i \in DOMAIN t.entries : i \in DOMAIN u.entries /\ u.entries[i] = t.entries[i]
      BY <2>6, <3>1
    <3> QED
      BY <2>6, <2>12, <3>2 DEF Carried, Joined
  <2>17. Carries
    BY <2>2, <2>16 DEF Carries, Carried, Goes
  <2> QED
    BY <2>2, <2>15, <2>17, RetracksKeeps
<1> QED
  BY <1>1, <1>2

\* The claim of a payout: a posting of its own, that is no payment.
LEMMA ClaimIs ==
  ASSUME NEW cmd \in Commands, ClaimPayout(cmd)
  PROVE  \/ UNCHANGED <<tournaments, book, rounds>>
         \/ /\ UNCHANGED <<tournaments, rounds>>
            /\ ClaimCode(cmd.op) = OK
            /\ book' = Post(book, {ClaimPosting(cmd.op.tournament, cmd.op.player)})
BY DEF ClaimPayout, RejectPlay

LEMMA ClaimTrack ==
  ASSUME PlayTable, BookInv, RoundInv, NEW cmd \in Commands, ClaimPayout(cmd)
  PROVE  BookInv' /\ RoundInv' /\ Carries
<1>1. CASE UNCHANGED <<tournaments, book, rounds>>
  BY <1>1, RoundsUntouched
<1>2. CASE ~UNCHANGED <<tournaments, book, rounds>>
  <2>1. PICK claim : claim = ClaimPosting(cmd.op.tournament, cmd.op.player)
    OBVIOUS
  <2>2. UNCHANGED <<tournaments, rounds>> /\ book' = Post(book, {claim})
    BY <1>2, <2>1, ClaimIs
  <2>3. claim.kind = "claim"
    BY <2>1 DEF ClaimPosting
  <2>4. \A id : Paid(id, book') = Paid(id, book)
    BY <2>2, <2>3 DEF Post, Paid, ForTournament, PaymentKinds
  <2>5. RoundInv'
    BY <2>2 DEF RoundInv
  <2>6. ASSUME NEW id \in Ids PROVE TourOK(tournaments[id]) /\ PaidOK(id, tournaments[id], book')
    BY <2>4, PaidSame DEF BookInv
  <2>7. BookInv'
    BY <2>2, <2>6 DEF BookInv
  <2>8. Carries
    BY <2>2 DEF Carries, Carried, Goes
  <2> QED
    BY <2>5, <2>7, <2>8
<1> QED
  BY <1>1, <1>2

\* The operator's commands on a tournament without a game, or one that is created.
Plainly(id) ==
  /\ id \in Ids /\ \A o \in Ids \ {id} : tournaments'[o] = tournaments[o]
  /\ NoGame(tournaments[id]) \/ tournaments[id].status = "absent"
  /\ NoGame(tournaments'[id]) \/ DOMAIN tournaments'[id].entries = {}
  /\ Carried(tournaments[id], tournaments'[id])

LEMMA PlainlyKeeps ==
  ASSUME RoundInv, rounds' = rounds, NEW id, Plainly(id)
  PROVE  RoundInv' /\ Carries
<1>1. id \in Ids /\ \A o \in Ids \ {id} : tournaments'[o] = tournaments[o]
  BY DEF Plainly
<1>2. PICK t, u, rs : t = tournaments[id] /\ u = tournaments'[id] /\ rs = rounds
  OBVIOUS
<1>3. /\ NoGame(t) \/ t.status = "absent"
      /\ NoGame(u) \/ DOMAIN u.entries = {}
  BY <1>2 DEF Plainly
<1>4. TrackOK(id, t, rs)
  BY <1>1, <1>2 DEF RoundInv
<1>5. TrackOK(id, u, rs)
  BY <1>3, <1>4, PlainTrack
<1>6. \A o \in Ids : TrackOK(o, tournaments'[o], rounds)
  BY <1>1, <1>2, <1>5 DEF RoundInv
<1>7. Carries
  BY <1>1 DEF Plainly, Carries, Carried, Goes
<1> QED
  BY <1>6, <1>7 DEF RoundInv

LEMMA SameGame ==
  ASSUME NEW t, NEW u, u.rules = t.rules, NoGame(t)
  PROVE  NoGame(u)
BY DEF NoGame

LEMMA JoinPlain ==
  ASSUME NEW cmd, Join(cmd), <<tournaments, book>>' # <<tournaments, book>>
  PROVE  NoGame(At(cmd.op.tournament))
<1>1. PICK admit : admit = AdmitCode(At(cmd.op.tournament), cmd.op.tournament, cmd.op.player)
  OBVIOUS
<1> DEFINE t == At(cmd.op.tournament)
           game == t.rules.game # ""
<1>2. PICK rules : rules =
        << <<~ValidatePlayer(cmd.op.player), "invalid_player">>,
           <<Unknown(cmd.op.tournament), "unknown_tournament">>,
           <<game, "play_intent_required">>,
           <<TRUE, admit>> >>
  OBVIOUS
<1>3. Verdict(rules) = OK
  BY <1>1, <1>2, Zenon DEF Join, Reject
<1>4. rules[3][1] <=> game
  BY <1>2, Zenon
<1>5. game \/ NoGame(t)
  BY Zenon DEF NoGame
<1> HIDE DEF game
<1>6. DOMAIN rules = 1..4 /\ 1..4 \subseteq 1..7 /\ rules[4][1]
  BY <1>2
<1>7. rules[1][2] # OK /\ rules[2][2] # OK /\ rules[3][2] # OK
  BY <1>2 DEF OK
<1>8. PICK i \in 1..4 : /\ rules[i][1] /\ rules[i][2] = OK
                        /\ \A j \in 1..4 : j < i => ~rules[j][1]
  BY <1>3, <1>6, VerdictOK
<1>9. ~rules[3][1]
  BY <1>7, <1>8
<1> QED
  BY <1>4, <1>5, <1>9

LEMMA ScorePlain ==
  ASSUME NEW cmd, Score(cmd), <<tournaments, book>>' # <<tournaments, book>>
  PROVE  NoGame(At(cmd.op.tournament))
<1>1. PICK op : op = cmd.op
  OBVIOUS
<1> DEFINE t == At(op.tournament)
           game == t.rules.game # ""
           twice == \E i \in Scored(t) : t.entries[i].player.id = op.player
<1>2. PICK rules : rules =
             << <<Unknown(op.tournament), "unknown_tournament">>,
                <<game, "play_intent_required">>,
                <<t.status # "open", "not_open">>,
                <<~Joined(t, op.player), "not_joined">>,
                <<twice, "already_scored">>,
                <<op.dealSeed # t.seed, "seed_mismatch">>,
                <<op.score \notin 0..t.rules.maxScore, "score_out_of_range">> >>
  OBVIOUS
<1>3. Verdict(rules) = OK
  BY <1>1, <1>2, Zenon DEF Score, Reject, ScoreCode
<1>4. rules[2][1] <=> game
  BY <1>2, Zenon
<1>5. game \/ NoGame(t)
  BY Zenon DEF NoGame
<1> HIDE DEF game, twice
<1>6. DOMAIN rules = 1..7
  BY <1>2
<1>7. \A i \in 1..7 : rules[i][2] # OK
  BY <1>2 DEF OK
<1>8. \A i \in DOMAIN rules : ~rules[i][1]
  BY <1>3, <1>6, <1>7, VerdictPasses
<1>9. ~rules[2][1]
  BY <1>6, <1>8
<1> QED
  BY <1>1, <1>4, <1>5, <1>9

LEMMA CreatePlainly ==
  ASSUME TableInv, NEW cmd \in Commands, Create(cmd), tournaments' # tournaments
  PROVE  Plainly(cmd.op.id)
<1>1. PICK id : id = cmd.op.id
  OBVIOUS
<1>2. id \in Ids /\ tournaments[id].status = "absent"
  BY <1>1, CreateOK
<1>3. PICK u : u = [Absent EXCEPT !.status = "open", !.seed = cmd.op.seed,
                                  !.rules = cmd.op.rules]
  OBVIOUS
<1>4. tournaments' = [tournaments EXCEPT ![id] = u]
  BY <1>1, <1>3 DEF Create, Reject
<1>5. tournaments'[id] = u /\ \A o \in Ids \ {id} : tournaments'[o] = tournaments[o]
  BY <1>2, <1>4 DEF TableInv
<1>6. DOMAIN u.entries = {}
  BY <1>3, NoEntries DEF Absent
<1>7. u.status = "open" /\ u.rules = cmd.op.rules
  BY <1>3 DEF Absent
<1>8. ValidateRules(u.rules)
  BY <1>7, CreateOK
<1> QED
  BY <1>1, <1>2, <1>5, <1>6, <1>7, <1>8 DEF Plainly, Carried

\* The three others change the record of a tournament in progress.
LEMMA RecordPlainly ==
  ASSUME TableInv, BookInv, NEW id \in Ids, NEW t, t = tournaments[id], NoGame(t), NEW u,
         Carried(t, u), t.status # "absent", tournaments' = [tournaments EXCEPT ![id] = u]
  PROVE  Plainly(id)
<1>1. tournaments'[id] = u /\ \A o \in Ids \ {id} : tournaments'[o] = tournaments[o]
  BY DEF TableInv
<1>2. NoGame(u)
  BY SameGame DEF Carried
<1> QED
  BY <1>1, <1>2 DEF Plainly

LEMMA JoinPlainly ==
  ASSUME TableInv, BookInv, NEW cmd \in Commands, Join(cmd),
         <<tournaments, book>>' # <<tournaments, book>>
  PROVE  Plainly(cmd.op.tournament)
<1>1. PICK id : id = cmd.op.tournament
  OBVIOUS
<1>2. PICK t : t = tournaments[id]
  OBVIOUS
<1>3. InProgress(id)
  BY <1>1, JoinOK
<1>4. id \in Ids /\ At(id) = t /\ NoGame(t)
  BY <1>1, <1>2, <1>3, JoinPlain DEF InProgress, At
<1>5. PICK e : tournaments' = [tournaments EXCEPT ![id].entries = Append(@, e)]
  BY <1>1 DEF Join, Reject
<1>6. PICK u : u = [t EXCEPT !.entries = Append(t.entries, e)]
  OBVIOUS
<1>7. tournaments' = [tournaments EXCEPT ![id] = u]
  BY <1>2, <1>5, <1>6
<1>8. u.rules = t.rules /\ u.status = t.status /\ u.entries = Append(t.entries, e)
      /\ t.entries \in Seq(EntryRec)
  <2>1. Shape(t) /\ FieldOK(t.entries)
    BY <1>2, <1>4 DEF BookInv, TourOK
  <2>2. u.rules = t.rules /\ u.status = t.status /\ u.entries = Append(t.entries, e)
    BY <1>6, <2>1 DEF Shape
  <2> QED
    BY <2>1, <2>2 DEF FieldOK
<1>9. t.status # "absent"
  BY <1>2, <1>3 DEF InProgress
<1>10. Carried(t, u)
  BY <1>8, <1>9 DEF Carried, Joined
<1> QED
  BY <1>1, <1>2, <1>4, <1>7, <1>9, <1>10, RecordPlainly

LEMMA ScorePlainly ==
  ASSUME TableInv, BookInv, NEW cmd \in Commands, Score(cmd),
         <<tournaments, book>>' # <<tournaments, book>>
  PROVE  Plainly(cmd.op.tournament)
<1>1. PICK id : id = cmd.op.tournament
  OBVIOUS
<1>2. PICK t : t = tournaments[id]
  OBVIOUS
<1>3. InProgress(id)
  BY <1>1, ScoreOK
<1>4. id \in Ids /\ At(id) = t /\ NoGame(t)
  BY <1>1, <1>2, <1>3, ScorePlain DEF InProgress, At
<1>k. PICK k, score, n : /\ k = EntryOf(t, cmd.op.player) /\ score = cmd.op.score
                         /\ n = ScoredCount(t) + 1
  OBVIOUS
<1>5. tournaments' = [tournaments EXCEPT ![id].entries[k] =
          [@ EXCEPT !.scored = TRUE, !.score = score, !.submitSeq = n]]
  BY <1>1, <1>4, <1>k DEF Score, Reject
<1>6. PICK e : e = [t.entries EXCEPT ![k] =
          [@ EXCEPT !.scored = TRUE, !.score = score, !.submitSeq = n]]
  OBVIOUS
<1>7. PICK u : u = [t EXCEPT !.entries = e]
  OBVIOUS
<1>8. tournaments' = [tournaments EXCEPT ![id] = u]
  BY <1>2, <1>5, <1>6, <1>7
<1>9. u.rules = t.rules /\ u.status = t.status /\ u.entries = e /\ t.entries \in Seq(EntryRec)
  <2>1. Shape(t) /\ FieldOK(t.entries)
    BY <1>2, <1>4 DEF BookInv, TourOK
  <2>2. u.rules = t.rules /\ u.status = t.status /\ u.entries = e
    BY <1>7, <2>1 DEF Shape
  <2> QED
    BY <2>1, <2>2 DEF FieldOK
<1>10. t.status # "absent"
  BY <1>2, <1>3 DEF InProgress
<1>11. Carried(t, u)
  <2>1. \A i \in DOMAIN t.entries : t.entries[i] \in EntryRec
    BY <1>9
  <2>2. \A i \in DOMAIN t.entries :
          i \in DOMAIN u.entries /\ u.entries[i].player = t.entries[i].player
    BY <1>6, <1>9, <2>1 DEF EntryRec
  <2> QED
    BY <1>9, <1>10, <2>2 DEF Carried, Joined
<1> QED
  BY <1>1, <1>2, <1>4, <1>8, <1>10, <1>11, RecordPlainly

LEMMA ClosePlainly ==
  ASSUME TableInv, BookInv, NEW cmd \in Commands, Close(cmd),
         <<tournaments, book>>' # <<tournaments, book>>
  PROVE  Plainly(cmd.op.tournament)
<1>1. PICK id : id = cmd.op.tournament
  OBVIOUS
<1>2. PICK t : t = tournaments[id]
  OBVIOUS
<1>3. InProgress(id)
  BY <1>1, CloseOK
<1>4. id \in Ids /\ At(id) = t
  BY <1>1, <1>2, <1>3 DEF InProgress, At
<1>5. PICK u : u = CloseRecord(t)
  OBVIOUS
<1>6. NoGame(t) /\ tournaments' = [tournaments EXCEPT ![id] = u]
  BY <1>1, <1>4, <1>5, Zenon DEF Close, Reject, NoGame
<1>7. TourOK(t)
  BY <1>2, <1>4 DEF BookInv
<1>8. t.status = "open"
  BY <1>1, <1>2, CloseOK
<1>9. u.rules = t.rules /\ u.status \in {"closed", "voided"} /\ u.entries = t.entries
  BY <1>5, <1>7, <1>8, CloseRecordFields
<1>10. Carried(t, u) /\ t.status # "absent"
  BY <1>8, <1>9 DEF Carried, Joined
<1> QED
  BY <1>1, <1>2, <1>4, <1>6, <1>10, RecordPlainly

LEMMA PlainRounds ==
  ASSUME TableInv, BookInv, RoundInv, NEW cmd \in Commands, PlainCommand(cmd)
  PROVE  BookInv' /\ RoundInv' /\ Carries
<1>1. rounds' = rounds /\ Apply(cmd)
  BY DEF PlainCommand, playVars, Apply
<1>2. Next
  BY <1>1 DEF Next
<1>3. BookInv'
  BY <1>2, BookStep
<1>4. CASE UNCHANGED <<tournaments, book>>
  BY <1>1, <1>4, RoundsUntouched
<1>5. CASE <<tournaments, book>>' # <<tournaments, book>>
  <2>1. CASE Refuse(cmd) \/ Reused(cmd) \/ Replay(cmd)
    BY <1>5, <2>1 DEF Refuse, Reused, Replay
  <2>2. CASE Create(cmd)
    BY <1>5, <2>2, <1>1, <1>3, CreatePlainly, PlainlyKeeps DEF Create, Reject
  <2>3. CASE Join(cmd) \/ Score(cmd) \/ Close(cmd)
    BY <1>1, <1>3, <1>5, <2>3, JoinPlainly, ScorePlainly, ClosePlainly, PlainlyKeeps
  <2> QED
    BY <2>1, <2>2, <2>3 DEF PlainCommand
<1> QED
  BY <1>4, <1>5

LEMMA SettleRounds ==
  ASSUME TableInv, BookInv, RoundInv, NEW cmd \in Commands, SettlePlay(cmd)
  PROVE  BookInv' /\ RoundInv' /\ Carries
<1>1. rounds' = rounds /\ Settle(cmd) /\ Apply(cmd)
  BY DEF SettlePlay, Apply
<1>2. BookInv'
  BY <1>1, BookStep DEF Next
<1>3. CASE UNCHANGED <<tournaments, book>>
  BY <1>1, <1>3, RoundsUntouched
<1>4. CASE <<tournaments, book>>' # <<tournaments, book>>
  <2>1. Accepted(cmd)
    BY <1>4 DEF Accepted, Reject
  <2>2. PICK id : id = cmd.op.tournament
    OBVIOUS
  <2>3. PICK t, payouts : t = tournaments[id] /\ payouts = ComputePayouts(t, id, cmd.op.exclusions)
    OBVIOUS
  <2>4. InProgress(id) /\ Settles(t)
    BY <1>1, <2>1, <2>2, <2>3, SettleOK
  <2>5. id \in Ids /\ At(id) = t /\ t.status \in {"closed", "voided"}
    BY <2>3, <2>4 DEF InProgress, At, Settles
  <2>6. PICK u : u = SettledRecord(t, payouts)
    OBVIOUS
  <2>7. tournaments' = [tournaments EXCEPT ![id] = u]
    BY <1>1, <2>1, <2>2, <2>3, <2>5, <2>6 DEF Settle, Accepted, SettledRecord
  <2>8. tournaments'[id] = u /\ \A o \in Ids \ {id} : tournaments'[o] = tournaments[o]
    BY <2>5, <2>7 DEF TableInv
  <2>9. TourOK(t) /\ TrackOK(id, t, rounds)
    BY <2>3, <2>5 DEF BookInv, RoundInv
  <2>10. u.status = "settled" /\ u.entries = t.entries /\ u.rules = t.rules
    BY <2>6, <2>9 DEF SettledRecord, TourOK, Shape
  <2>11. TrackOK(id, u, rounds)
    BY <2>5, <2>9, <2>10, SettledTrack
  <2>12. \A o \in Ids : TrackOK(o, tournaments'[o], rounds)
    BY <2>8, <2>11 DEF RoundInv
  <2>13. RoundInv'
    BY <1>1, <2>12 DEF RoundInv
  <2>14. Carried(t, u)
    BY <2>5, <2>10 DEF Carried, Joined
  <2>15. Carries
    BY <1>1, <2>3, <2>8, <2>14 DEF Carries, Carried, Goes
  <2> QED
    BY <1>2, <2>13, <2>15
<1> QED
  BY <1>3, <1>4

LEMMA RoundStep ==
  ASSUME PlayTable, BookInv, RoundInv, BoundInv, NEW cmd \in Commands, NEW at, ApplyPlay(cmd, at)
  PROVE  BookInv' /\ RoundInv' /\ Carries
<1>1. CASE PlainCommand(cmd)
  BY <1>1, PlainRounds DEF PlayTable
<1>2. CASE SettlePlay(cmd)
  BY <1>2, SettleRounds DEF PlayTable
<1>3. CASE OpenSession(cmd, at)
  BY <1>3, RoundsUntouched DEF OpenSession
<1> QED
  BY <1>1, <1>2, <1>3, CloseTrack, EnterTrack, StartTrack, MoveTrack, FinishTrack, ClaimTrack
     DEF ApplyPlay

LEMMA RoundInit == PlayInit => BookInv /\ RoundInv /\ BoundInv
<1> SUFFICES ASSUME PlayInit PROVE BookInv /\ RoundInv /\ BoundInv
  OBVIOUS
<1>1. BookInv
  BY BookInit DEF PlayInit
<1>2. \A id \in Ids : tournaments[id] = Absent
  BY DEF PlayInit, Init
<1>3. DOMAIN rounds = RoundKeys /\ \A k \in RoundKeys : rounds[k] = NoRound
  BY DEF PlayInit
<1>4. \A id \in Ids, p \in Players, r \in 1..Rounds : rounds[<<id, p, r>>] = NoRound
  BY <1>3 DEF RoundKeys
<1>5. RecOK(NoRound) /\ NoRound.status = "none"
  BY DEF NoRound, RecOK
<1>6. 1 \in 1..Rounds
  BY LadderAssumption
<1>7. ASSUME NEW id \in Ids PROVE TrackOK(id, tournaments[id], rounds)
  <2>1. Absent.status = "absent" /\ DOMAIN Absent.entries = {}
    BY NoEntries DEF Absent
  <2>2. \A p \in Players, r \in 1..Rounds : /\ RecOK(rounds[<<id, p, r>>])
                                            /\ rounds[<<id, p, r>>].status = "none"
    BY <1>4, <1>5
  <2>3. \A p \in Players : HandOK(rounds, id, p)
    BY <2>2 DEF HandOK
  <2>4. TrackOK(id, Absent, rounds)
    BY <1>6, <2>1, <2>2, <2>3 DEF TrackOK
  <2> QED
    BY <1>2, <2>4
<1>8. \A p \in Players : players[p] = Unbound
  BY DEF PlayInit
<1>9. BoundInv
  <2>1. ~Unbound.bound
    BY DEF Unbound
  <2> QED
    BY <1>8, <2>1 DEF BoundInv
<1> QED
  BY <1>1, <1>3, <1>7, <1>9 DEF RoundInv

\* What the invariant says of one entry.
EarnedOK(id, t, i) ==
  LET e == t.entries[i]
      prog == Progress(rounds, id, e.player.id)
  IN /\ prog.finished + (IF prog.inPlay = 0 THEN 0 ELSE 1) = prog.dealt
     /\ prog.inPlay # 0 => prog.inPlay = prog.dealt /\ t.status = "open"
     /\ e.scored => e.score = Earned(id, e.player.id) /\ prog.inPlay = 0
     /\ e.scored <=> \/ prog.finished = Rounds
                     \/ t.status # "open" /\ prog.dealt > 0

LEMMA TotalIsEarned ==
  ASSUME NEW id, NEW p, HandOK(rounds, id, p), NEW d, NEW g, ProgressAs(rounds, id, p, d, g)
  PROVE  g.total = Earned(id, p)
<1>1. PICK F : F = With(rounds, id, p, "finished")
  OBVIOUS
<1>2. F = {r \in 1..Rounds : rounds[<<id, p, r>>].status = "finished"}
  BY <1>1 DEF With
<1>3. \A r \in F : rounds[<<id, p, r>>].score = Worth(rounds[<<id, p, r>>])
  BY <1>2 DEF HandOK, RecOK
<1>4. [r \in F |-> rounds[<<id, p, r>>].score] = [r \in F |-> Worth(rounds[<<id, p, r>>])]
  BY <1>3
<1>5. g.total = SumFunction([r \in F |-> rounds[<<id, p, r>>].score])
  BY <1>1, Zenon DEF ProgressAs
<1>6. Earned(id, p) = SumFunction([r \in F |-> Worth(rounds[<<id, p, r>>])])
  BY <1>2, Zenon DEF Earned, Worth
<1> QED
  BY <1>4, <1>5, <1>6, Zenon

LEMMA EntryEarned ==
  ASSUME RoundInv, NEW id \in Ids, NEW t, t = tournaments[id], ~NoGame(t), NEW i \in DOMAIN t.entries
  PROVE  EarnedOK(id, t, i)
<1>0. Rounds \in Nat \ {0} /\ 1 \in 1..Rounds /\ Rounds \in 1..Rounds
  BY LadderAssumption
<1>1. PICK e, p, rs : e = t.entries[i] /\ p = e.player.id /\ rs = rounds
  OBVIOUS
<1>2. TrackOK(id, t, rs)
  BY <1>1 DEF RoundInv
<1>3. EntryOK(id, t, rs, i)
  BY <1>2, Zenon DEF TrackOK, NoGame
<1>4. p \in Players /\ HandOK(rs, id, p)
  BY <1>1, <1>2, <1>3 DEF EntryOK, TrackOK
<1>5. PICK d \in 0..Rounds : Upto(rs, id, p, d)
  BY <1>4, HandUpto
<1>6. PICK g : g = Progress(rs, id, p)
  OBVIOUS
<1>7. ProgressAs(rs, id, p, d, g)
  BY <1>5, <1>6, ProgressIs
<1>8. /\ g.dealt = d
      /\ g.finished + (IF g.inPlay = 0 THEN 0 ELSE 1) = d
      /\ g.inPlay \in {0, d} /\ g.finished \in 0..d
      /\ g.inPlay = 0 <=> With(rs, id, p, "playing") = {}
      /\ g.inPlay # 0 => With(rs, id, p, "playing") = {d}
  BY <1>7 DEF ProgressAs
<1>9. /\ rs[<<id, p, 1>>].status = "none" <=> d = 0
      /\ rs[<<id, p, Rounds>>].status = "finished"
           <=> d = Rounds /\ With(rs, id, p, "playing") = {}
  BY <1>4, <1>5, UptoEnds
<1>10. g.total = Earned(id, p)
  BY <1>1, <1>4, <1>7, TotalIsEarned
<1>11. ASSUME g.inPlay # 0 PROVE g.inPlay = d /\ t.status = "open"
  BY <1>8, <1>11, <1>2, <1>4 DEF With, TrackOK
<1>12. rs[<<id, p, Rounds>>].status = "finished" <=> g.finished = Rounds
  BY <1>8, <1>9, <1>0, <1>5
<1>13. rs[<<id, p, Rounds>>].status = "finished" => g.inPlay = 0
  BY <1>8, <1>9
<1>14. /\ e.scored => e.score = g.total
       /\ t.status = "open" => (e.scored <=> rs[<<id, p, Rounds>>].status = "finished")
       /\ t.status # "open" => (e.scored <=> rs[<<id, p, 1>>].status # "none")
  BY <1>1, <1>3, <1>6 DEF EntryOK
<1>15. g.finished = Rounds => d > 0
  BY <1>0, <1>5, <1>8
<1>16. e.scored <=> g.finished = Rounds \/ (t.status # "open" /\ g.dealt > 0)
  <2>1. CASE t.status = "open"
    BY <1>12, <1>14, <2>1
  <2>2. CASE t.status # "open"
    BY <1>5, <1>9, <1>14, <2>2, <1>8, <1>15
  <2> QED
    BY <2>1, <2>2
<1>17. e.scored => e.score = Earned(id, p) /\ g.inPlay = 0
  BY <1>10, <1>11, <1>13, <1>14
<1>18. g.inPlay # 0 => g.inPlay = g.dealt /\ t.status = "open"
  BY <1>8, <1>11
<1>19. g.finished + (IF g.inPlay = 0 THEN 0 ELSE 1) = g.dealt
  BY <1>8
<1>20. /\ g = Progress(rounds, id, t.entries[i].player.id) /\ e = t.entries[i]
       /\ p = t.entries[i].player.id
  BY <1>1, <1>6
<1> QED
  BY <1>16, <1>17, <1>18, <1>19, <1>20, Zenon DEF EarnedOK

-----------------------------------------------------------------------------
(* The theorems about rounds. *)

RoundsHold == PlayTable /\ BookInv /\ RoundInv /\ BoundInv

LEMMA RoundsInvariant == PlaySpec => []RoundsHold
<1>1. PlayInit => RoundsHold
  BY PlayTableInit, RoundInit DEF RoundsHold
<1>2. RoundsHold /\ [PlayNext]_allVars => RoundsHold'
  <2>1. ASSUME RoundsHold, PlayNext PROVE RoundsHold'
    BY <2>1, PlayTableStep, RoundStep, BoundStep DEF RoundsHold, PlayNext
  <2>2. ASSUME RoundsHold, UNCHANGED allVars PROVE RoundsHold'
    <3>1. UNCHANGED vars /\ bindings' = bindings /\ players' = players /\ rounds' = rounds
      BY <2>2 DEF allVars, playVars
    <3>2. PlayTable' /\ BoundInv'
      BY <2>2, <3>1 DEF RoundsHold, vars, PlayTable, TableInv, PlayersOK, BoundInv
    <3>3. BookInv' /\ RoundInv'
      BY <2>2, <3>1, RoundsUntouched DEF RoundsHold, vars
    <3> QED
      BY <3>2, <3>3 DEF RoundsHold
  <2> QED
    BY <2>1, <2>2
<1> QED
  BY <1>1, <1>2, PTL DEF PlaySpec

\* An entry's score is what its finished rounds are worth by the rules of the
\* game, whether the last round or the close of the tournament fixed it, and no
\* round is in play afterwards (finishRound, scoreEntry, closeRounds).
THEOREM EntriesEarnTheirScore == PlaySpec => []ScoresAreEarned
<1>1. RoundsHold => ScoresAreEarned
  <2> SUFFICES ASSUME RoundInv,
                      NEW id \in {i \in Ids : tournaments[i].rules.game # ""},
                      NEW i \in DOMAIN tournaments[id].entries
               PROVE  EarnedOK(id, tournaments[id], i)
    BY Zenon DEF RoundsHold, ScoresAreEarned, EarnedOK
  <2>1. PICK t : t = tournaments[id]
    OBVIOUS
  <2>2. id \in Ids /\ ~NoGame(t)
    BY <2>1, Zenon DEF NoGame
  <2>3. EarnedOK(id, t, i)
    BY <2>1, <2>2, EntryEarned
  <2> QED
    BY <2>1, <2>3
<1> QED
  BY <1>1, RoundsInvariant, PTL

-----------------------------------------------------------------------------
(* What the list of tournaments offers. *)

\* The fees in the book are those of the entries, and the rules are numbers.
OfferOK(id, t, bk) ==
  /\ t.status = "absent" => DOMAIN t.entries = {}
  /\ t.status # "absent" => t.rules.entryFee \in Nat \ {0} /\ t.rules.maxEntrants \in Nat
  /\ \A p : Has(bk, FeeKey(id, p)) => Joined(t, p)

OfferInv == \A id \in Ids : OfferOK(id, tournaments[id], book)

\* The postings of a command: a fee is one of an entry.
FeesJoin ==
  \A q \in book' \ book, id \in Ids :
    \A p : q.key = FeeKey(id, p) => Joined(tournaments'[id], p)

LEMMA RulesOffer ==
  ASSUME NEW r, ValidateRules(r)
  PROVE  r.entryFee \in Nat \ {0} /\ r.maxEntrants \in Nat
<1>1. MaxEntryFee \in Nat /\ MaxEntrantsBound \in Nat
  BY BoundsAssumption, Zenon
<1>2. /\ r.entryFee \in 1..MaxEntryFee /\ r.minEntrants \in Nat
      /\ r.maxEntrants \in r.minEntrants..MaxEntrantsBound
  BY SMT DEF ValidateRules
<1> QED
  BY <1>1, <1>2, SMT

LEMMA OfferStep ==
  ASSUME OfferInv, Carries, FeesJoin
  PROVE  OfferInv'
<1> SUFFICES ASSUME NEW id \in Ids PROVE OfferOK(id, tournaments'[id], book')
  BY DEF OfferInv
<1>1. PICK t, u : t = tournaments[id] /\ u = tournaments'[id]
  OBVIOUS
<1>2. OfferOK(id, t, book) /\ Carried(t, u)
  BY <1>1 DEF OfferInv, Carries
<1>3. ASSUME NEW p, Has(book', FeeKey(id, p)) PROVE Joined(u, p)
  <2>1. PICK q \in book' : q.key = FeeKey(id, p)
    BY <1>3 DEF Has
  <2>2. CASE q \notin book
    BY <1>1, <2>1, <2>2 DEF FeesJoin
  <2>3. CASE q \in book
    BY <1>2, <2>1, <2>3 DEF OfferOK, Has, Joined, Carried
  <2> QED
    BY <2>2, <2>3
<1>4. u.status = "absent" => DOMAIN u.entries = {}
  BY <1>2 DEF OfferOK, Carried
<1>5. u.status # "absent" => u.rules.entryFee \in Nat \ {0} /\ u.rules.maxEntrants \in Nat
  BY RulesOffer, <1>2 DEF OfferOK, Carried
<1> QED
  BY <1>1, <1>3, <1>4, <1>5 DEF OfferOK

LEMMA KeyKinds ==
  ASSUME NEW id, NEW p, NEW o, NEW q, NEW n
  PROVE  /\ FeeKey(id, p) # RakeKey(o) /\ FeeKey(id, p) # PrizeKey(o, q, n)
         /\ FeeKey(id, p) # WithheldKey(o, q, n) /\ FeeKey(id, p) # RefundKey(o, q)
         /\ FeeKey(id, p) # ClaimKey(o, q)
         /\ FeeKey(id, p) = FeeKey(o, q) => id = o /\ p = q
<1>1. /\ FeeKey(id, p)[1] = "fee" /\ RakeKey(o)[1] = "rake" /\ PrizeKey(o, q, n)[1] = "prize"
      /\ WithheldKey(o, q, n)[1] = "withheld" /\ RefundKey(o, q)[1] = "refund"
      /\ ClaimKey(o, q)[1] = "claim"
  BY DEF FeeKey, RakeKey, PrizeKey, WithheldKey, RefundKey, ClaimKey
<1>2. /\ FeeKey(id, p)[2] = id /\ FeeKey(id, p)[3] = p
      /\ FeeKey(o, q)[2] = o /\ FeeKey(o, q)[3] = q
  BY DEF FeeKey
<1> QED
  BY <1>1, <1>2

LEMMA PayoutKeys ==
  ASSUME NEW t, NEW id, NEW ex, NEW i \in DOMAIN ComputePayouts(t, id, ex), NEW o, NEW p
  PROVE  ComputePayouts(t, id, ex)[i].key # FeeKey(o, p)
<1>1. CASE Voids(t)
  <2>1. PICK rs : rs = Refunds(t, id, ex)
    OBVIOUS
  <2>2. ComputePayouts(t, id, ex) = rs
    BY <1>1, <2>1 DEF ComputePayouts
  <2>3. rs[i].key = RefundKey(id, t.entries[i].player.id)
    BY <2>1, <2>2 DEF Refunds
  <2> QED
    BY <2>2, <2>3, KeyKinds
<1>2. CASE ~Voids(t)
  <2>1. PICK rs : rs = PrizePayouts(t, id, ex)
    OBVIOUS
  <2>2. ComputePayouts(t, id, ex) = rs
    BY <1>2, <2>1 DEF ComputePayouts
  <2>3. PICK s, out : s = t.standings[i] /\ out = Withholds(t, s.player, ex)
    OBVIOUS
  <2>4. i \in 1..Places(t)
    BY <2>1, <2>2 DEF PrizePayouts
  <2>5. rs[i] = [player |-> s.player, place |-> s.place, amount |-> Amount(t, i),
                 withheld |-> out, version |-> ex.version,
                 key |-> IF out THEN WithheldKey(id, s.player, s.place)
                                ELSE PrizeKey(id, s.player, s.place)]
    BY <2>1, <2>3, <2>4 DEF PrizePayouts
  <2>6. rs[i].key = IF out THEN WithheldKey(id, s.player, s.place)
                           ELSE PrizeKey(id, s.player, s.place)
    BY <2>5
  <2> QED
    BY <2>2, <2>6, KeyKinds
<1> QED
  BY <1>1, <1>2

LEMMA SettleFees ==
  ASSUME NEW cmd, Settle(cmd)
  PROVE  FeesJoin
<1>1. PICK id, t, ex : id = cmd.op.tournament /\ t = At(id) /\ ex = cmd.op.exclusions
  OBVIOUS
<1>2. PICK payouts : payouts = ComputePayouts(t, id, ex)
  OBVIOUS
<1>3. PICK postings : postings = SettlePostings(t, id, ex, payouts)
  OBVIOUS
<1>4. book' = book \/ book' = Post(book, postings)
  BY <1>1, <1>2, <1>3 DEF Settle, Reject
<1>5. ASSUME NEW q \in postings, NEW o, NEW p PROVE q.key # FeeKey(o, p)
  <2>1. CASE q \in RakePostings(t, id, ex)
    <3> DEFINE rake == [key |-> RakeKey(id), kind |-> "rake", debit |-> PoolAccount(id),
                        credit |-> RakeAccount(id), amount |-> t.rake, tournament |-> id,
                        player |-> "", place |-> 0, version |-> ex.version]
    <3>1. rake.key = RakeKey(id)
      OBVIOUS
    <3>2. q = rake
      BY <2>1, Zenon DEF RakePostings
    <3> HIDE DEF rake
    <3> QED
      BY <3>1, <3>2, KeyKinds
  <2>2. ASSUME NEW i \in DOMAIN payouts, q = PayoutPosting(t, id, payouts[i])
        PROVE  q.key # FeeKey(o, p)
    BY <2>2, <1>2, PayoutKeys DEF PayoutPosting
  <2> QED
    BY <1>3, <1>5, <2>1, <2>2 DEF SettlePostings
<1> QED
  BY <1>4, <1>5 DEF FeesJoin, Post

\* One posting, that of an entry which joins.
LEMMA EntryFees ==
  ASSUME NEW id, NEW player, NEW fee, NEW t, fee = FeePosting(t, id, player),
         book' = Post(book, {fee}) \/ book' = book \cup {fee},
         Joined(tournaments'[id], player.id)
  PROVE  FeesJoin
<1>1. fee.key = FeeKey(id, player.id)
  BY DEF FeePosting
<1>2. \A q \in book' \ book : q = fee
  BY DEF Post
<1>3. ASSUME NEW q \in book' \ book, NEW o \in Ids, NEW p, q.key = FeeKey(o, p)
      PROVE  Joined(tournaments'[o], p)
  BY <1>1, <1>2, <1>3, KeyKinds
<1> QED
  BY <1>3 DEF FeesJoin

LEMMA AppendJoined ==
  ASSUME NEW t, t.entries \in Seq(EntryRec), NEW e, NEW u, u.entries = Append(t.entries, e)
  PROVE  Joined(u, e.player.id)
<1>1. PICK s, n : s = Append(t.entries, e) /\ n = Len(t.entries) + 1
  OBVIOUS
<1>2. n \in DOMAIN s /\ s[n] = e
  BY <1>1
<1>3. n \in DOMAIN u.entries /\ u.entries[n] = e
  BY <1>1, <1>2
<1> QED
  BY <1>3 DEF Joined

LEMMA JoinFees ==
  ASSUME TableInv, BookInv, NEW cmd \in Commands, Join(cmd),
         <<tournaments, book>>' # <<tournaments, book>>
  PROVE  FeesJoin
<1>1. PICK id, player : id = cmd.op.tournament /\ player = cmd.op.player
  OBVIOUS
<1>2. PICK t : t = tournaments[id]
  OBVIOUS
<1>3. InProgress(id)
  BY <1>1, JoinOK
<1>4. id \in Ids /\ At(id) = t
  BY <1>1, <1>2, <1>3 DEF InProgress, At
<1>5. PICK e : e = [player |-> player, joinSeq |-> Len(t.entries) + 1,
                    scored |-> FALSE, score |-> 0, submitSeq |-> 0]
  OBVIOUS
<1>6. PICK fee : fee = FeePosting(t, id, player)
  OBVIOUS
<1>7. /\ book' = Post(book, {fee})
      /\ tournaments' = [tournaments EXCEPT ![id].entries = Append(@, e)]
  BY <1>1, <1>4, <1>5, <1>6 DEF Join, Reject
<1>8. PICK u : u = [t EXCEPT !.entries = Append(t.entries, e)]
  OBVIOUS
<1>9. tournaments'[id] = u
  BY <1>2, <1>4, <1>7, <1>8 DEF TableInv
<1>10. Shape(t) /\ t.entries \in Seq(EntryRec)
  BY <1>2, <1>4 DEF BookInv, TourOK, FieldOK
<1>11. u.entries = Append(t.entries, e) /\ e.player = player
  BY <1>5, <1>8, <1>10 DEF Shape
<1>12. Joined(u, player.id)
  BY <1>10, <1>11, AppendJoined
<1> QED
  BY <1>6, <1>7, <1>9, <1>12, EntryFees

LEMMA EnterFees ==
  ASSUME PlayTable, BookInv, BoundInv, NEW cmd \in Commands, Enter(cmd)
  PROVE  FeesJoin
<1>1. CASE UNCHANGED <<tournaments, book, rounds>>
  BY <1>1 DEF FeesJoin
<1>2. CASE ~UNCHANGED <<tournaments, book, rounds>>
  <2>1. PICK id, t, player, fee, u : EnteredAs(cmd, id, t, player, fee, u)
    BY <1>2, EnterIs
  <2>2. PICK e : e = [player |-> player, joinSeq |-> Len(t.entries) + 1,
                      scored |-> FALSE, score |-> 0, submitSeq |-> 0]
    OBVIOUS
  <2>3. /\ fee = FeePosting(t, id, player) /\ tournaments'[id] = u /\ book' = book \cup {fee}
        /\ u = [t EXCEPT !.entries = Append(t.entries, e)] /\ TourOK(t)
    BY <2>1, <2>2 DEF EnteredAs
  <2>4. Shape(t) /\ t.entries \in Seq(EntryRec)
    BY <2>3 DEF TourOK, FieldOK
  <2>5. u.entries = Append(t.entries, e) /\ e.player = player
    BY <2>2, <2>3, <2>4 DEF Shape
  <2>6. Joined(u, player.id)
    BY <2>4, <2>5, AppendJoined
  <2>7. /\ fee = FeePosting(t, id, player) /\ Joined(tournaments'[id], player.id)
        /\ book' = Post(book, {fee}) \/ book' = book \cup {fee}
    BY <2>3, <2>6
  <2> QED
    BY <2>7, EntryFees
<1> QED
  BY <1>1, <1>2

LEMMA ClaimFees ==
  ASSUME NEW cmd \in Commands, ClaimPayout(cmd)
  PROVE  FeesJoin
<1>1. PICK claim : claim = ClaimPosting(cmd.op.tournament, cmd.op.player)
  OBVIOUS
<1>2. book' = book \/ book' = Post(book, {claim})
  BY <1>1, ClaimIs
<1>3. claim.key = ClaimKey(cmd.op.tournament, cmd.op.player)
  BY <1>1 DEF ClaimPosting
<1>4. \A o, p : claim.key # FeeKey(o, p)
  BY <1>3, KeyKinds
<1> QED
  BY <1>2, <1>4 DEF FeesJoin, Post

LEMMA FeesStep ==
  ASSUME PlayTable, BookInv, BoundInv, NEW cmd \in Commands, NEW at, ApplyPlay(cmd, at)
  PROVE  FeesJoin
<1>0. book' = book => FeesJoin
  BY DEF FeesJoin
<1>1. CASE PlainCommand(cmd)
  <2>1. CASE Join(cmd) /\ <<tournaments, book>>' # <<tournaments, book>>
    BY <2>1, JoinFees DEF PlayTable
  <2>2. CASE ~(Join(cmd) /\ <<tournaments, book>>' # <<tournaments, book>>)
    BY <1>0, <1>1, <2>2 DEF PlainCommand, Refuse, Reused, Replay, Create, Score, Close, Reject
  <2> QED
    BY <2>1, <2>2
<1>2. CASE SettlePlay(cmd)
  BY <1>2, SettleFees DEF SettlePlay
<1>3. CASE ClosePlay(cmd) \/ OpenSession(cmd, at) \/ StartRound(cmd)
  BY <1>0, <1>3 DEF ClosePlay, OpenSession, StartRound, RejectPlay
<1>4. CASE PlayMove(cmd) \/ FinishRound(cmd)
  BY <1>0, <1>4 DEF PlayMove, FinishRound, RejectPlay
<1> QED
  BY <1>1, <1>2, <1>3, <1>4, EnterFees, ClaimFees DEF ApplyPlay

LEMMA OfferInit == PlayInit => OfferInv
<1> SUFFICES ASSUME PlayInit, NEW id \in Ids PROVE OfferOK(id, tournaments[id], book)
  BY DEF OfferInv
<1>1. tournaments[id] = Absent /\ book = {}
  BY DEF PlayInit, Init
<1>2. Absent.status = "absent" /\ DOMAIN Absent.entries = {}
  BY NoEntries DEF Absent
<1> QED
  BY <1>1, <1>2 DEF OfferOK, Has

LEMMA FeeIsGood ==
  ASSUME NEW t, NEW id, NEW player, t.rules.entryFee \in Nat \ {0},
         NEW fee, fee = FeePosting(t, id, player)
  PROVE  Validate(fee) /\ fee.key = FeeKey(id, player.id)
<1>1. /\ fee.key = FeeKey(id, player.id) /\ fee.kind = "entry_fee"
      /\ fee.debit = PlayerAccount(player.id) /\ fee.credit = PoolAccount(id)
      /\ fee.amount = t.rules.entryFee
  BY DEF FeePosting
<1>2. PlayerAccount(player.id)[1] = "player" /\ PoolAccount(id)[1] = "pool"
  BY DEF PlayerAccount, PoolAccount
<1>3. fee.debit # fee.credit /\ fee.amount > 0 /\ fee.kind \in Kinds
  BY <1>1, <1>2 DEF Kinds
<1> QED
  BY <1>1, <1>3 DEF Validate

LEMMA EligibleIs ==
  ASSUME BookInv, OfferInv, PlayTable, NEW id \in Ids, NEW p \in Players, players[p].bound,
         NEW player, player.id = p, player.jurisdiction = players[p].jurisdiction,
         player.age = players[p].age
  PROVE  Eligible(id, p) <=> Admissible(tournaments[id], id, player)
<1>1. PICK t, fee : t = tournaments[id] /\ fee = FeePosting(t, id, player)
  OBVIOUS
<1>2. At(id) = t
  BY <1>1 DEF At
<1>3. TourOK(t) /\ OfferOK(id, t, book)
  BY <1>1 DEF BookInv, OfferInv
<1>4. CASE t.status # "open"
  BY <1>1, <1>2, <1>4 DEF Eligible, Admissible
<1>5. CASE t.status = "open"
  <2>1. Len(t.entries) \in Nat /\ t.rules.minAge \in Nat
    BY <1>3, <1>5 DEF TourOK, FieldOK, StageOK
  <2>2. t.rules.maxEntrants \in Nat /\ t.rules.entryFee \in Nat \ {0}
    BY <1>3, <1>5 DEF OfferOK
  <2>3. player.age \in Nat
    <3>1. players[p].age \in 0..150
      BY DEF PlayTable, PlayersOK
    <3> QED
      BY <3>1
  <2>4. Validate(fee) /\ fee.key = FeeKey(id, p)
    BY <1>1, <2>2, FeeIsGood
  <2>5. ~Joined(t, p) => CheckFresh({fee})
    BY <1>3, <2>4 DEF OfferOK, CheckFresh
  <2>6. /\ ~(Len(t.entries) >= t.rules.maxEntrants) <=> Len(t.entries) < t.rules.maxEntrants
        /\ ~(player.age < t.rules.minAge) <=> players[p].age >= t.rules.minAge
    BY <2>1, <2>2, <2>3
  <2>7. Eligible(id, p) <=>
          /\ ~Joined(t, p) /\ Len(t.entries) < t.rules.maxEntrants
          /\ players[p].jurisdiction \notin t.rules.exclusions.jurisdictions
          /\ players[p].age >= t.rules.minAge
    BY <1>2, <1>5 DEF Eligible
  <2>8. Admissible(t, id, player) <=>
          /\ ~Joined(t, p) /\ ~(Len(t.entries) >= t.rules.maxEntrants)
          /\ players[p].jurisdiction \notin t.rules.exclusions.jurisdictions
          /\ ~(player.age < t.rules.minAge)
    BY <1>1, <1>5, <2>4, <2>5 DEF Admissible
  <2> QED
    BY <1>1, <2>6, <2>7, <2>8
<1> QED
  BY <1>4, <1>5

\* Round r is the next of a player who has been dealt d.
LEMMA NextIs ==
  ASSUME NEW rs, NEW id, NEW p, HandOK(rs, id, p), NEW r \in 1..Rounds,
         NEW g, g = Progress(rs, id, p)
  PROVE  g.next = r <=> /\ rs[<<id, p, r>>].status = "none"
                        /\ r \in 2..Rounds => rs[<<id, p, r - 1>>].status = "finished"
<1>0. Rounds \in Nat \ {0}
  BY LadderAssumption
<1>1. PICK d \in 0..Rounds : Upto(rs, id, p, d)
  BY HandUpto
<1>2. ProgressAs(rs, id, p, d, g)
  BY <1>1, ProgressIs
<1>3. PICK W : W = With(rs, id, p, "playing")
  OBVIOUS
<1>4. /\ g.inPlay \in {0, d} /\ (g.inPlay = 0 <=> W = {}) /\ (g.inPlay # 0 => W = {d})
      /\ g.next = IF g.inPlay # 0 \/ d = Rounds THEN 0 ELSE d + 1
  BY <1>2, <1>3 DEF ProgressAs
<1>5. /\ \A s \in 1..Rounds : rs[<<id, p, s>>].status = "none" <=> s > d
      /\ \A s \in 1..Rounds : s < d => rs[<<id, p, s>>].status = "finished"
  BY <1>1, UptoEnds
<1>6. \A s \in W : s \in 1..Rounds /\ rs[<<id, p, s>>].status = "playing"
  BY <1>3 DEF With
<1>7. ASSUME g.next = r
      PROVE  /\ rs[<<id, p, r>>].status = "none"
             /\ r \in 2..Rounds => rs[<<id, p, r - 1>>].status = "finished"
  <2>1. g.inPlay = 0 /\ r = d + 1
    BY <1>0, <1>4, <1>7
  <2>2. W = {}
    BY <1>4, <2>1
  <2>3. ASSUME r \in 2..Rounds PROVE rs[<<id, p, d>>].status = "finished"
    <3>1. d \in 1..Rounds /\ ~(d > d)
      BY <1>0, <2>1, <2>3
    <3>2. rs[<<id, p, d>>].status \in {"none", "playing", "finished"}
      BY <3>1 DEF HandOK, RecOK
    <3>3. rs[<<id, p, d>>].status # "none"
      BY <1>5, <3>1
    <3>4. rs[<<id, p, d>>].status # "playing"
      BY <1>3, <2>2, <3>1 DEF With
    <3> QED
      BY <3>2, <3>3, <3>4
  <2>4. r - 1 = d /\ r > d
    BY <1>1, <2>1
  <2> QED
    BY <1>5, <2>3, <2>4
<1>8. ASSUME rs[<<id, p, r>>].status = "none",
             r \in 2..Rounds => rs[<<id, p, r - 1>>].status = "finished"
      PROVE  g.next = r
  <2>1. r > d
    BY <1>5, <1>8
  <2>2. CASE r = 1
    BY <1>0, <2>1, <2>2, <1>4
  <2>3. CASE r # 1
    <3>1. PICK s : s = r - 1
      OBVIOUS
    <3>2. r \in 2..Rounds /\ s \in 1..Rounds
      BY <1>0, <2>3, <3>1
    <3>3. rs[<<id, p, s>>].status = "finished"
      BY <1>8, <3>1, <3>2
    <3>4. ~(s > d)
      BY <1>5, <3>2, <3>3
    <3>5. s = d /\ r = d + 1 /\ d # Rounds
      BY <1>0, <2>1, <3>1, <3>2, <3>4
    <3>6. W # {d}
      BY <1>6, <3>3, <3>5
    <3> QED
      BY <1>4, <3>5, <3>6
  <2> QED
    BY <2>2, <2>3
<1> QED
  BY <1>7, <1>8

LEMMA NextRoundIs ==
  ASSUME RoundInv, NEW id \in Ids, NEW p \in Players, NEW r \in 1..Rounds,
         NEW op, op.tournament = id, op.player = p, op.round = r
  PROVE  NextRound(id, p) = r <=> Dealable(op)
<1>0. Rounds \in Nat \ {0}
  BY LadderAssumption
<1>1. PICK t, rs : t = tournaments[id] /\ rs = rounds
  OBVIOUS
<1>2. At(id) = t
  BY <1>1 DEF At
<1>3. HandOK(rs, id, p)
  BY <1>1 DEF RoundInv, TrackOK
<1>4. PICK g : g = Progress(rs, id, p)
  OBVIOUS
<1>5. g.next = r <=> /\ rs[<<id, p, r>>].status = "none"
                     /\ r \in 2..Rounds => rs[<<id, p, r - 1>>].status = "finished"
  BY <1>3, <1>4, NextIs
<1>6. rs[<<id, p, r>>].status = "none" <=> rs[<<id, p, r>>] = NoRound
  <2>1. RecOK(rs[<<id, p, r>>])
    BY <1>3 DEF HandOK
  <2>2. NoRound.status = "none"
    BY DEF NoRound
  <2> QED
    BY <2>1, <2>2 DEF RecOK
<1>7. NextRound(id, p) = IF t.status = "open" /\ Joined(t, p) THEN g.next ELSE 0
  BY <1>1, <1>2, <1>4 DEF NextRound
<1>8. r # 0
  BY <1>0
<1>9. Dealable(op) <=> /\ t.status = "open" /\ Joined(t, p)
                       /\ rs[<<id, p, r>>] = NoRound
                       /\ r \in 2..Rounds => rs[<<id, p, r - 1>>].status = "finished"
  BY <1>1, <1>2 DEF Dealable
<1> QED
  BY <1>5, <1>6, <1>7, <1>8, <1>9

-----------------------------------------------------------------------------

OffersHold == RoundsHold /\ OfferInv

\* What the list of tournaments tells a player is what a command would be told:
\* it calls a tournament eligible exactly when entering it would be admitted,
\* and offers a round exactly when dealing that round would be accepted
\* (tournamentSummary, eligible, admit, startRound).
THEOREM HintsTellTheTruth == PlaySpec => []HintsAreRight
<1>1. PlayInit => OffersHold
  BY PlayTableInit, RoundInit, OfferInit DEF OffersHold, RoundsHold
<1>2. OffersHold /\ RoundsHold' /\ [PlayNext]_allVars => OffersHold'
  <2>1. ASSUME OffersHold, PlayNext PROVE OfferInv'
    BY <2>1, RoundStep, FeesStep, OfferStep DEF OffersHold, RoundsHold, PlayNext
  <2>2. ASSUME OffersHold, UNCHANGED allVars PROVE OfferInv'
    BY <2>2 DEF OffersHold, OfferInv, allVars, vars
  <2> QED
    BY <2>1, <2>2 DEF OffersHold
<1>3. OffersHold => HintsAreRight
  <2> SUFFICES ASSUME OffersHold,
                      NEW id \in {i \in Ids : tournaments[i].rules.game # ""},
                      NEW p \in {q \in Players : players[q].bound},
                      NEW claims,
                      claims = [id |-> p, jurisdiction |-> players[p].jurisdiction,
                                age |-> players[p].age]
               PROVE  /\ Eligible(id, p) <=> AdmitCode(tournaments[id], id, claims) = OK
                      /\ \A r \in 1..Rounds :
                           NextRound(id, p) = r
                             <=> DealCode([tournament |-> id, player |-> p, round |-> r]) = OK
    BY Zenon DEF HintsAreRight
  <2>1. id \in Ids /\ p \in Players /\ players[p].bound
    BY Zenon
  <2>2. /\ claims.id = p /\ claims.jurisdiction = players[p].jurisdiction
        /\ claims.age = players[p].age
    OBVIOUS
  <2>3. PICK t : t = tournaments[id]
    OBVIOUS
  <2>4. Eligible(id, p) <=> Admissible(t, id, claims)
    BY <2>1, <2>2, <2>3, EligibleIs DEF OffersHold, RoundsHold
  <2>5. AdmitCode(t, id, claims) = OK <=> Admissible(t, id, claims)
    BY AdmitCodeIs
  <2>6. ASSUME NEW r \in 1..Rounds, NEW op,
               op = [tournament |-> id, player |-> p, round |-> r]
        PROVE  NextRound(id, p) = r <=> DealCode(op) = OK
    <3>1. op.tournament = id /\ op.player = p /\ op.round = r
      BY <2>6
    <3>2. NextRound(id, p) = r <=> Dealable(op)
      BY <2>1, <3>1, NextRoundIs DEF OffersHold, RoundsHold
    <3> QED
      BY <3>2, DealCodeIs
  <2> QED
    BY <2>3, <2>4, <2>5, <2>6, Zenon
<1> QED
  BY <1>1, <1>2, <1>3, RoundsInvariant, PTL DEF PlaySpec

-----------------------------------------------------------------------------
(* What a recorded answer shows of a round. *)

RoundNames == {"start_round", "play_move", "finish_round"}

\* The round is the one that was shown, and has at least the moves of then.
Shown(rec, more, now) ==
  /\ rec.status # "none" /\ rec.startedAt \in 1..more.slot
  /\ more.moveIndex \in 0..Len(rec.moves) /\ more.slot \in 0..now

RowShown(row, rs, now) ==
  LET op == row.fingerprint
  IN op.name \in RoundNames /\ row.code = OK =>
       /\ op.tournament \in Ids /\ op.player \in Players /\ op.round \in 1..Rounds
       /\ Shown(rs[<<op.tournament, op.player, op.round>>], row.more, now)

ViewInv ==
  /\ applied \in Nat
  /\ \A id \in Ids, p \in Players, r \in 1..Rounds :
       rounds[<<id, p, r>>].status # "none" => rounds[<<id, p, r>>].startedAt \in 1..applied
  /\ \A k \in Keys : RowShown(results[k], rounds, applied)

\* What may become of a round that is dealt.
Later(old, new) ==
  /\ new.seed = old.seed /\ new.startedAt = old.startedAt /\ new.status # "none"
  /\ \/ new.moves = old.moves
     \/ \E move : new.moves = Append(old.moves, move)
  /\ \/ new = old
     \/ old.status = "playing" /\ new.status = "playing"
     \/ old.status = "playing" /\ new.status = "finished" /\ new.finishedAt = applied + 1

LEMMA GoesLater ==
  ASSUME NEW old, RecOK(old), old.status # "none", NEW new, Goes(old, new)
  PROVE  Later(old, new)
<1>1. CASE new = old
  BY <1>1 DEF Later
<1>2. ASSUME NEW mid, NEW move, old.status = "playing", mid = old \/ mid = Went(old, move)
      PROVE  Later(old, mid) /\ mid.status = "playing" /\ \A reason : Later(old, Ended(mid, reason))
  <2>1. /\ mid.seed = old.seed /\ mid.startedAt = old.startedAt /\ mid.status = "playing"
        /\ mid.moves = old.moves \/ mid.moves = Append(old.moves, move)
        /\ mid = [status |-> mid.status, seed |-> mid.seed, moves |-> mid.moves,
                  reason |-> mid.reason, score |-> mid.score, startedAt |-> mid.startedAt,
                  deadline |-> mid.deadline, finishedAt |-> mid.finishedAt]
    BY <1>2 DEF RecOK, Went
  <2>2. ASSUME NEW reason PROVE Later(old, Ended(mid, reason))
    <3>1. PICK x : x = Ended(mid, reason)
      OBVIOUS
    <3>2. /\ x.seed = mid.seed /\ x.startedAt = mid.startedAt /\ x.status = "finished"
          /\ x.moves = mid.moves /\ x.finishedAt = applied + 1
      BY <2>1, <3>1 DEF Ended
    <3> QED
      BY <1>2, <2>1, <3>1, <3>2 DEF Later
  <2> QED
    BY <1>2, <2>1, <2>2 DEF Later
<1> QED
  BY <1>1, <1>2 DEF Goes

LEMMA LaterMoves ==
  ASSUME NEW old, RecOK(old), old.status # "none", NEW new, Later(old, new)
  PROVE  /\ Len(old.moves) \in Nat /\ Len(new.moves) \in Nat /\ Len(old.moves) <= Len(new.moves)
         /\ \A n \in 0..Len(old.moves) : SubSeq(new.moves, 1, n) = SubSeq(old.moves, 1, n)
<1>1. old.moves \in Seq(Moves)
  BY DEF RecOK
<1>2. CASE new.moves = old.moves
  BY <1>1, <1>2
<1>3. ASSUME NEW move, new.moves = Append(old.moves, move)
      PROVE  /\ Len(new.moves) = Len(old.moves) + 1
             /\ \A n \in 0..Len(old.moves) : SubSeq(new.moves, 1, n) = SubSeq(old.moves, 1, n)
  <2>1. PICK s, t : s = old.moves /\ t = Append(s, move)
    OBVIOUS
  <2>2. s \in Seq(Moves) /\ Len(t) = Len(s) + 1 /\ \A i \in 1..Len(s) : t[i] = s[i]
    BY <1>1, <2>1
  <2>3. ASSUME NEW n \in 0..Len(s) PROVE SubSeq(t, 1, n) = SubSeq(s, 1, n)
    BY <2>2
  <2> QED
    BY <1>3, <2>1, <2>2, <2>3
<1> QED
  BY <1>1, <1>2, <1>3 DEF Later

LEMMA ShownOn ==
  ASSUME NEW old, RecOK(old), NEW new, Goes(old, new), applied \in Nat, NEW more,
         Shown(old, more, applied)
  PROVE  Shown(new, more, applied + 1)
<1>1. old.status # "none"
  BY DEF Shown
<1>2. Later(old, new)
  BY <1>1, GoesLater
<1>3. Len(old.moves) \in Nat /\ Len(new.moves) \in Nat /\ Len(old.moves) <= Len(new.moves)
  BY <1>1, <1>2, LaterMoves
<1> QED
  BY <1>2, <1>3 DEF Later, Shown

LEMMA SameView ==
  ASSUME NEW rs, NEW k, NEW xs, RecOK(rs[k]), Goes(rs[k], xs[k]), applied \in Nat, NEW more,
         Shown(rs[k], more, applied)
  PROVE  RoundViewAt(xs, k, more.moveIndex, more.slot) = RoundViewAt(rs, k, more.moveIndex, more.slot)
<1>1. PICK old, new, n, slot : /\ old = rs[k] /\ new = xs[k]
                               /\ n = more.moveIndex /\ slot = more.slot
  OBVIOUS
<1>2. /\ old.status # "none" /\ n \in 0..Len(old.moves) /\ slot \in 0..applied
  BY <1>1 DEF Shown
<1>3. Later(old, new)
  BY <1>1, <1>2, GoesLater
<1>4. SubSeq(new.moves, 1, n) = SubSeq(old.moves, 1, n) /\ new.seed = old.seed
  BY <1>1, <1>2, <1>3, LaterMoves DEF Later
<1>5. CASE new = old
  BY <1>1, <1>5, Zenon DEF RoundViewAt
<1>6. CASE new # old
  <2>1. /\ ~(old.status = "finished" /\ old.finishedAt <= slot)
        /\ ~(new.status = "finished" /\ new.finishedAt <= slot)
    BY <1>2, <1>3, <1>6 DEF Later
  <2> QED
    BY <1>1, <1>4, <2>1, Zenon DEF RoundViewAt
<1> QED
  BY <1>5, <1>6

-----------------------------------------------------------------------------

LEMMA RowOfCommand ==
  ASSUME PlayTable, NEW cmd \in Commands, NEW at, ApplyPlay(cmd, at), NEW k \in Keys,
         results'[k] # results[k]
  PROVE  k = cmd.key /\ results'[k].fingerprint = Fingerprint(cmd) /\ results[k] = NoRow
<1>1. CASE Alone(cmd)
  BY <1>1 DEF Alone, Refuse, Reused, Replay
<1>2. ASSUME NEW code, Recorded(cmd, code)
      PROVE  k = cmd.key /\ results'[k].fingerprint = Fingerprint(cmd) /\ results[k] = NoRow
  <2>1. TableInv
    BY DEF PlayTable
  <2>2. k = cmd.key
    BY <1>2, <2>1, RowsAfter
  <2> QED
    BY <1>2, <2>1, <2>2, RowsAfter DEF Recorded
<1>3. CASE Operates(cmd) \/ \E code : Sequences(cmd, code)
  BY <1>2, <1>3 DEF Operates, Sequences
<1>4. CASE OpenSession(cmd, at)
  <2>1. cmd.key \in Keys /\ results[cmd.key] = NoRow /\ \E code, more : Record(cmd, code, more)
    BY <1>4 DEF OpenSession, Executes, ValidateKey
  <2> QED
    BY <2>1, <1>2 DEF Recorded
<1> QED
  BY <1>1, <1>3, <1>4, PlayCases

LEMMA RoundFingerprint ==
  ASSUME NEW cmd \in Commands, cmd.op.name \in RoundNames
  PROVE  /\ Fingerprint(cmd).tournament = cmd.op.tournament /\ cmd.op.player \in Players
         /\ Fingerprint(cmd).player = cmd.op.player /\ Fingerprint(cmd).round = cmd.op.round
<1>1. cmd.op.name \in Sequenced
  BY DEF RoundNames, Sequenced
<1>2. {"player", "tournament", "round"} \subseteq DOMAIN cmd.op /\ cmd.op.player \in Players
  BY <1>1, IntentAssumption DEF RoundNames
<1>3. Drawn(cmd.op) \subseteq {"seed"}
  BY DEF Drawn, RoundNames
<1>4. {"player", "tournament", "round"} \subseteq DOMAIN cmd.op \ Drawn(cmd.op)
  BY <1>2, <1>3
<1> QED
  BY <1>2, <1>4 DEF Fingerprint

\* An accepted command on round k that shows n moves.
Accepts(cmd, k, n) ==
  /\ cmd.op.name \in RoundNames
  /\ cmd.op.tournament \in Ids /\ cmd.op.round \in 1..Rounds
  /\ rounds'[k].status # "none" /\ rounds'[k].startedAt \in 1..applied + 1
  /\ n \in 0..Len(rounds'[k].moves)
  /\ \E more : Record(cmd, OK, more) /\ more.slot = applied + 1 /\ more.moveIndex = n

LEMMA AcceptedRow ==
  ASSUME PlayTable, ViewInv, NEW cmd \in Commands, cmd.key \in Keys, NEW k,
         k = <<cmd.op.tournament, cmd.op.player, cmd.op.round>>, NEW n, Accepts(cmd, k, n)
  PROVE  RowShown(results'[cmd.key], rounds', applied + 1)
<1>1. PICK more : Record(cmd, OK, more) /\ more.slot = applied + 1 /\ more.moveIndex = n
  BY DEF Accepts
<1>2. PICK row : row = [fingerprint |-> Fingerprint(cmd), code |-> OK, more |-> more]
  OBVIOUS
<1>3. results'[cmd.key] = row
  BY <1>1, <1>2 DEF Record, PlayTable, TableInv
<1>4. row.fingerprint = Fingerprint(cmd) /\ row.more = more
  BY <1>2
<1>5. Shown(rounds'[k], more, applied + 1)
  BY <1>1 DEF Accepts, Shown, ViewInv
<1>6. /\ Fingerprint(cmd).tournament = cmd.op.tournament /\ cmd.op.player \in Players
      /\ Fingerprint(cmd).player = cmd.op.player /\ Fingerprint(cmd).round = cmd.op.round
  BY RoundFingerprint DEF Accepts
<1> QED
  BY <1>3, <1>4, <1>5, <1>6 DEF RowShown, Accepts

\* A rejected command shows nothing.
LEMMA RejectedRow ==
  ASSUME PlayTable, NEW cmd, cmd.key \in Keys, NEW code, NEW out, RejectPlay(cmd, code, out),
         NEW rs, NEW now
  PROVE  RowShown(results'[cmd.key], rs, now)
<1>1. results'[cmd.key].code = code /\ code # OK
  BY DEF RejectPlay, Record, PlayTable, TableInv
<1> QED
  BY <1>1 DEF RowShown

LEMMA StartAccepts ==
  ASSUME RoundInv, ViewInv, NEW cmd \in Commands, StartRound(cmd), NEW k,
         k = <<cmd.op.tournament, cmd.op.player, cmd.op.round>>
  PROVE  (\E code, out : RejectPlay(cmd, code, out)) \/ Accepts(cmd, k, 0)
<1>1. PICK op : op = cmd.op
  OBVIOUS
<1>2. PICK code : code = Verdict(<< <<SequencedCode(op) # OK, SequencedCode(op)>>,
                                    <<TRUE, DealCode(op)>> >>)
  OBVIOUS
<1>3. PICK rec : rec = [NoRound EXCEPT !.status = "playing", !.seed = op.seed,
                   !.startedAt = applied + 1, !.deadline = clock' + RoundLimit]
  OBVIOUS
<1>4. PICK out : out = [Outcome(op.player, NextSeq(op, code)) EXCEPT
                          !.round = IF SequencedCode(op) = OK THEN op.round ELSE 0]
  OBVIOUS
<1>5. /\ op.name = "start_round"
      /\ \/ RejectPlay(cmd, code, out)
         \/ code = OK /\ rounds' = [rounds EXCEPT ![k] = rec] /\ Record(cmd, OK, out)
  BY <1>1, <1>2, <1>3, <1>4 DEF StartRound, Executes
<1>6. CASE code = OK /\ rounds' = [rounds EXCEPT ![k] = rec] /\ Record(cmd, OK, out)
  <2>1. SequencedCode(op) = OK /\ DealCode(op) = OK
    BY <1>2, <1>6, VerdictThen
  <2>2. InGame(op) /\ Dealable(op) /\ op.player \in Players
    BY <1>1, <1>5, <2>1, SequencedOK, DealCodeIs, IntentAssumption DEF Sequenced
  <2>3. op.tournament \in Ids /\ op.round \in 1..Rounds
    BY <2>2 DEF InGame, Dealable
  <2>4. rounds'[k] = rec
    BY <1>1, <1>6, <2>2, <2>3 DEF RoundInv, RoundKeys
  <2>5. rec.status = "playing" /\ rec.startedAt = applied + 1 /\ Len(rec.moves) = 0
    BY <1>3 DEF NoRound
  <2>6. out.slot = applied + 1 /\ out.moveIndex = 0
    BY <1>4, Zenon DEF Outcome, NoOutcome
  <2> QED
    BY <1>1, <1>5, <1>6, <2>3, <2>4, <2>5, <2>6 DEF Accepts, RoundNames, ViewInv
<1> QED
  BY <1>5, <1>6

\* A round in play or finished, after a command that took it from old to new.
LEMMA OldRound ==
  ASSUME PlayTable, BookInv, RoundInv, ViewInv, Carries, NEW op, NEW rec, OnRound(op, rec),
         op.player \in Players, NEW k, k = <<op.tournament, op.player, op.round>>
  PROVE  /\ op.tournament \in Ids /\ op.round \in 1..Rounds
         /\ Later(rec, rounds'[k]) /\ rec.startedAt \in 1..applied
         /\ Len(rec.moves) \in Nat /\ Len(rounds'[k].moves) \in Nat
         /\ Len(rec.moves) <= Len(rounds'[k].moves) /\ rec.moves \in Seq(Moves)
<1>1. /\ op.tournament \in Ids /\ op.round \in 1..Rounds /\ rec = rounds[k]
  BY DEF OnRound, InGame
<1>2. RecOK(rec) /\ rec.status # "none"
  BY StartedIsPlaying
<1>3. PICK new : new = rounds'[k]
  OBVIOUS
<1>4. Goes(rec, new)
  BY <1>1, <1>3 DEF Carries
<1>5. Later(rec, new)
  BY <1>2, <1>4, GoesLater
<1>6. Len(rec.moves) \in Nat /\ Len(new.moves) \in Nat /\ Len(rec.moves) <= Len(new.moves)
  BY <1>2, <1>5, LaterMoves
<1>7. rec.startedAt \in 1..applied /\ rec.moves \in Seq(Moves)
  BY <1>1, <1>2 DEF ViewInv, RecOK
<1> QED
  BY <1>1, <1>3, <1>5, <1>6, <1>7

LEMMA RoundOutcomeIs ==
  ASSUME NEW op, NEW code, NEW n
  PROVE  RoundOutcome(op, code, n).slot = applied + 1 /\ RoundOutcome(op, code, n).moveIndex = n
BY Zenon DEF RoundOutcome, Outcome, NoOutcome

LEMMA MoveAccepts ==
  ASSUME PlayTable, BookInv, RoundInv, ViewInv, Carries, NEW cmd \in Commands, PlayMove(cmd),
         NEW k, k = <<cmd.op.tournament, cmd.op.player, cmd.op.round>>, MoveMade(cmd.op, k)
  PROVE  (\E code, out : RejectPlay(cmd, code, out))
           \/ Accepts(cmd, k, Len(Named(cmd.op).moves) + 1)
<1>1. PICK op, rec, code, n : op = cmd.op /\ rec = Named(op) /\ code = MoveCode(op)
                              /\ n = Len(rec.moves) + 1
  OBVIOUS
<1>2. PICK more : more = RoundOutcome(op, code, n)
  OBVIOUS
<1>3. /\ op.name = "play_move"
      /\ \/ \E out : RejectPlay(cmd, code, out)
         \/ code = OK /\ Record(cmd, OK, more)
  BY <1>1, <1>2, Zenon DEF PlayMove, Executes
<1>4. CASE code = OK /\ Record(cmd, OK, more)
  <2>1. OnRound(op, rec) /\ op.player \in Players
    BY <1>1, <1>3, <1>4, MoveCodeOK, IntentAssumption DEF Sequenced
  <2>2. /\ op.tournament \in Ids /\ op.round \in 1..Rounds /\ Later(rec, rounds'[k])
        /\ rec.startedAt \in 1..applied /\ Len(rec.moves) \in Nat /\ rec.moves \in Seq(Moves)
    BY <1>1, <2>1, OldRound
  <2>3. rounds'[k].moves = Append(rec.moves, op.move)
    BY <1>1, <1>4 DEF MoveMade
  <2>4. n \in 0..Len(rounds'[k].moves)
    BY <1>1, <2>2, <2>3
  <2>5. more.slot = applied + 1 /\ more.moveIndex = n
    BY <1>2, RoundOutcomeIs
  <2> QED
    BY <1>1, <1>3, <1>4, <2>2, <2>4, <2>5 DEF Accepts, RoundNames, ViewInv, Later
<1> QED
  BY <1>1, <1>3, <1>4

LEMMA FinishAccepts ==
  ASSUME PlayTable, BookInv, RoundInv, ViewInv, Carries, NEW cmd \in Commands, FinishRound(cmd),
         NEW k, k = <<cmd.op.tournament, cmd.op.player, cmd.op.round>>
  PROVE  (\E code, out : RejectPlay(cmd, code, out))
           \/ Accepts(cmd, k, Len(Named(cmd.op).moves))
<1>1. PICK op, rec, code, n : op = cmd.op /\ rec = Named(op) /\ code = FinishCode(op)
                              /\ n = Len(rec.moves)
  OBVIOUS
<1>2. PICK more : more = RoundOutcome(op, code, n)
  OBVIOUS
<1>3. /\ op.name = "finish_round"
      /\ RejectPlay(cmd, code, more) \/ (code = OK /\ Record(cmd, OK, more))
  BY <1>1, <1>2, Zenon DEF FinishRound, Executes
<1>4. CASE code = OK /\ Record(cmd, OK, more)
  <2>1. OnRound(op, rec) /\ op.player \in Players
    BY <1>1, <1>3, <1>4, FinishCodeOK, IntentAssumption DEF Sequenced
  <2>2. /\ op.tournament \in Ids /\ op.round \in 1..Rounds /\ Later(rec, rounds'[k])
        /\ rec.startedAt \in 1..applied /\ Len(rec.moves) \in Nat
        /\ Len(rounds'[k].moves) \in Nat /\ Len(rec.moves) <= Len(rounds'[k].moves)
    BY <1>1, <2>1, OldRound
  <2>3. more.slot = applied + 1 /\ more.moveIndex = n
    BY <1>2, RoundOutcomeIs
  <2> QED
    BY <1>1, <1>3, <1>4, <2>2, <2>3 DEF Accepts, RoundNames, ViewInv, Later
<1> QED
  BY <1>1, <1>3, <1>4

LEMMA ViewStep ==
  ASSUME RoundsHold, ViewInv, NEW cmd \in Commands, NEW at, ApplyPlay(cmd, at)
  PROVE  ViewInv'
<1> USE DEF RoundsHold
<1>1. Carries
  BY RoundStep
<1>2. applied \in Nat /\ applied' = applied + 1 /\ applied' \in Nat
  BY DEF ViewInv, ApplyPlay
<1>3. \A id \in Ids, p \in Players, r \in 1..Rounds : RecOK(rounds[<<id, p, r>>])
  BY DEF RoundInv, TrackOK, HandOK
<1>4. ASSUME NEW id \in Ids, NEW p \in Players, NEW r \in 1..Rounds,
             rounds'[<<id, p, r>>].status # "none"
      PROVE  rounds'[<<id, p, r>>].startedAt \in 1..applied + 1
  <2>1. PICK old, new : old = rounds[<<id, p, r>>] /\ new = rounds'[<<id, p, r>>]
    OBVIOUS
  <2>2. Goes(old, new) /\ RecOK(old)
    BY <1>1, <1>3, <2>1 DEF Carries
  <2>3. CASE old.status = "none"
    BY <1>2, <1>4, <2>1, <2>2, <2>3 DEF Goes
  <2>4. CASE old.status # "none"
    BY <2>1, <2>2, <2>4, GoesLater, <1>2 DEF ViewInv, Later
  <2> QED
    BY <2>3, <2>4
<1>5. ASSUME NEW k \in Keys, results'[k] = results[k]
      PROVE  RowShown(results'[k], rounds', applied + 1)
  <2>1. PICK row, op : row = results[k] /\ op = row.fingerprint
    OBVIOUS
  <2>2. SUFFICES ASSUME op.name \in RoundNames, row.code = OK
                 PROVE  RowShown(row, rounds', applied + 1)
    BY <1>5, <2>1 DEF RowShown
  <2>3. PICK c : c = <<op.tournament, op.player, op.round>>
    OBVIOUS
  <2>4. /\ op.tournament \in Ids /\ op.player \in Players /\ op.round \in 1..Rounds
        /\ Shown(rounds[c], row.more, applied)
    BY <2>1, <2>2, <2>3 DEF ViewInv, RowShown
  <2>5. PICK old, new : old = rounds[c] /\ new = rounds'[c]
    OBVIOUS
  <2>6. RecOK(old) /\ Goes(old, new)
    BY <1>1, <1>3, <2>3, <2>4, <2>5 DEF Carries
  <2>7. Shown(new, row.more, applied + 1)
    BY <1>2, <2>4, <2>5, <2>6, ShownOn
  <2> QED
    BY <2>1, <2>3, <2>4, <2>5, <2>7 DEF RowShown
<1>6. ASSUME NEW k \in Keys, results'[k] # results[k]
      PROVE  RowShown(results'[k], rounds', applied + 1)
  <2>1. k = cmd.key /\ results'[k].fingerprint = Fingerprint(cmd)
    BY <1>6, RowOfCommand
  <2>2. Fingerprint(cmd).name = cmd.op.name
    BY FingerprintOf
  <2>3. CASE cmd.op.name \notin RoundNames
    BY <2>1, <2>2, <2>3 DEF RowShown
  <2>4. CASE cmd.op.name \in RoundNames
    <3>1. StartRound(cmd) \/ PlayMove(cmd) \/ FinishRound(cmd)
      BY <1>6, <2>4 DEF ApplyPlay, PlainCommand, ClosePlay, SettlePlay, Settle, OpenSession,
                        Enter, ClaimPayout, Create, Join, Score, Close, Refuse, Reused, Replay,
                        Executes, RoundNames
    <3>2. PICK c : c = <<cmd.op.tournament, cmd.op.player, cmd.op.round>>
      OBVIOUS
    <3>3. PlayMove(cmd) => MoveMade(cmd.op, c)
      BY <3>2, MoveTrack
    <3>4. (\E code, out : RejectPlay(cmd, code, out)) \/ \E n : Accepts(cmd, c, n)
      BY <1>1, <3>1, <3>2, <3>3, StartAccepts, MoveAccepts, FinishAccepts
    <3> QED
      BY <2>1, <3>2, <3>4, AcceptedRow, RejectedRow
  <2> QED
    BY <2>3, <2>4
<1> QED
  BY <1>2, <1>4, <1>5, <1>6 DEF ViewInv

LEMMA ViewInit == PlayInit => ViewInv
<1> SUFFICES ASSUME PlayInit PROVE ViewInv
  OBVIOUS
<1>1. applied = 0 /\ \A k \in RoundKeys : rounds[k] = NoRound
  BY DEF PlayInit
<1>2. \A id \in Ids, p \in Players, r \in 1..Rounds : rounds[<<id, p, r>>].status = "none"
  BY <1>1, NoRoundIs DEF RoundKeys
<1>3. \A k \in Keys : results[k] = NoRow
  BY DEF PlayInit, Init
<1>4. NoRow.fingerprint.name \notin RoundNames
  BY DEF NoRow, RoundNames
<1> QED
  BY <1>1, <1>2, <1>3, <1>4 DEF ViewInv, RowShown

\* Whatever is played after a round command was accepted, the answer that a
\* retry of it builds is the first one: the same board, score, status and
\* secrecy of the seed (BuildRoundViewAt, roundResponse).
THEOREM AnswersCanBeRebuilt == PlaySpec => ViewsHold
<1> DEFINE Inv == RoundsHold /\ ViewInv
           Rebuilt == rounds' # rounds => \A k \in Keys :
             LET row == results[k]
                 op == row.fingerprint
             IN op.name \in {"start_round", "play_move", "finish_round"} /\ row.code = OK =>
                  LET key == <<op.tournament, op.player, op.round>>
                  IN /\ rounds[key].startedAt \in 1..row.more.slot
                     /\ RoundViewAt(rounds', key, row.more.moveIndex, row.more.slot)
                          = RoundViewAt(rounds, key, row.more.moveIndex, row.more.slot)
<1>1. PlayInit => Inv
  BY PlayTableInit, RoundInit, ViewInit DEF RoundsHold
<1>2. Inv /\ RoundsHold' /\ [PlayNext]_allVars => Inv'
  <2>1. ASSUME Inv, PlayNext PROVE ViewInv'
    BY <2>1, ViewStep DEF PlayNext
  <2>2. ASSUME Inv, UNCHANGED allVars PROVE ViewInv'
    BY <2>2 DEF ViewInv, RowShown, Shown, allVars, vars, playVars
  <2> QED
    BY <2>1, <2>2
<1>3. Inv /\ [PlayNext]_allVars => [Rebuilt]_allVars
  <2> SUFFICES ASSUME Inv, PlayNext PROVE Rebuilt
    OBVIOUS
  <2>1. Carries
    BY RoundStep DEF RoundsHold, PlayNext
  <2> SUFFICES ASSUME NEW k \in Keys, NEW row, row = results[k], NEW op, op = row.fingerprint,
                      op.name \in RoundNames, row.code = OK,
                      NEW key, key = <<op.tournament, op.player, op.round>>
               PROVE  /\ rounds[key].startedAt \in 1..row.more.slot
                      /\ RoundViewAt(rounds', key, row.more.moveIndex, row.more.slot)
                           = RoundViewAt(rounds, key, row.more.moveIndex, row.more.slot)
    BY Zenon DEF RoundNames
  <2>2. /\ op.tournament \in Ids /\ op.player \in Players /\ op.round \in 1..Rounds
        /\ Shown(rounds[key], row.more, applied) /\ applied \in Nat
    BY DEF ViewInv, RowShown
  <2>3. PICK rs, xs : rs = rounds /\ xs = rounds'
    OBVIOUS
  <2>4. RecOK(rs[key]) /\ Goes(rs[key], xs[key])
    BY <2>1, <2>2, <2>3 DEF Carries, RoundsHold, RoundInv, TrackOK, HandOK
  <2>5. RoundViewAt(xs, key, row.more.moveIndex, row.more.slot)
          = RoundViewAt(rs, key, row.more.moveIndex, row.more.slot)
    BY <2>2, <2>3, <2>4, SameView
  <2> QED
    BY <2>2, <2>3, <2>5 DEF Shown
<1>4. [][Rebuilt]_allVars => ViewsHold
  BY PTL DEF ViewsHold
<1> QED
  BY <1>1, <1>2, <1>3, <1>4, RoundsInvariant, PTL DEF PlaySpec

=============================================================================

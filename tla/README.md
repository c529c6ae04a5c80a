# Verification of paxos-arena

paxos-arena is a Multi-Paxos replicated settlement log with a tournament state
machine, a ledger and a card game on top of it, HTTP APIs for operators and
players, and a Unity client. This directory holds TLA+ models of these parts,
the TLC configurations that check them on small instances, and TLAPS proofs, for
every instance, of the safety of the log, of its single-decree reference, of the
write-ahead log, of the runner, of the path from a client to its answer, of the
event polls, of the tournament state machine with its money, and of the retries,
sequence numbers and sessions of the play state machine. `PROJECT.json` lists
the runs, the theorems, the source lines behind every definition, the hazards
the properties are aimed at, and the findings.

To check: `tlc -config <run>.cfg <module>` for a run, `tlapm <module>.tla` for
the proofs of `BallotProofs`, `DecreeProofs`, `ReplogSafety`, `WalProofs`,
`RunnerProofs`, `FrontProofs`, `EventProofs` and `TournamentProofs`.

## 1. The system and its parts

| part | state | operations | hard behaviour | what makes it correct |
|---|---|---|---|---|
| Paxos rules `internal/paxos/paxos.go` | none | ballot order, quorum size, promise and accept rule, `Choose` | ties and boundaries | majorities meet; the highest ballot reported wins |
| Single-decree reference `internal/paxos/{acceptor,proposer}.go` | promise, accepted value; a proposer's attempt | `OnPrepare`, `OnAccept`; `Start`, `OnPromise`, `OnNack`, `Propose`, `OnAccepted` | rival proposers, replies that come late or belong to an earlier attempt, repeated calls of `Propose` | one value per ballot, one value chosen, nothing else reported |
| Log node `internal/replog/node.go` | durable promise, round, accepted and chosen maps; role, ballot, proposals, window, queue, read barriers | `Step` (nine messages), `Tick`, `Propose`, `ReadIndex`, `New` | rival leaders, lost, late and duplicated messages, restarts, failed saves in the middle of a handler | one value per slot; promises are kept; learned slots stay; reads are fresh; the window drains |
| Write-ahead log `internal/replog/wal` | a file, its valid prefix, its owner, a sticky error | `Open`, `Bind`, `Load`, four saves, `Close` | crash between write and sync, torn tails, failed truncation, damaged records | an answered save is loaded again; a torn write never keeps the replica down; nothing but a torn tail is cut |
| Replica core and runner `internal/replica` | applied slot, held submits, pending barriers, reads waiting for an apply, the apply lock and its mark, a status snapshot | `Run`, `Submit`, `Read`, `WaitApplied`, `Deliver` | callers on other goroutines, `TryLock`, nudges, cancelled contexts, lost leadership, shutdown | answers agree with the log; nobody is forgotten or answered twice; no wakeup is lost; a consistent read sees its index |
| Tournament `internal/tournament/state.go` | results table, tournaments, clock, hash | create, join, score, close, settle | retries under one key, settle racing a late score | idempotence by key; a tournament settles once |
| Play `internal/tournament/play_state.go` | sessions, sequence numbers, rounds, events, the clock | open session, enter, start round, move, finish, claim; Close ends rounds; pages of events | intents retried under a new key, a number consumed by a rejection, a redrawn identifier, a leader's clock behind, rounds ended by a move or by Close | an intent counts once; a score is what the moves earn; a claim is paid once; events are complete |
| Prizes `internal/tournament/compute.go` | none | standings, pool, payouts | rounding, ties, empty fields | payouts add up to the pool |
| Ledger `internal/ledger` | postings, balances | `Post`, `Check` | a posting repeated under its key | every posting balances; money is conserved |
| Game rules `internal/game` | none | deal, check, apply, over, replay | blocked and cleared boards | a round is in play only while a move is possible |
| Operator API `internal/api` | keys in flight | command, read, forward | two requests for one key; leadership changes on the way; timeouts after the proposal | one outcome per key; at most one hop; the key is released |
| Player intents `internal/intent` | per-player lock, rate limits, long polls and the scan they share | post intent, read, follow events | redirects, retries, superseded polls, a scan that fails | a read sees the player's own write; a poll that is due ends; no event is lost or repeated |
| Session tokens `internal/session` | none | sign, verify | | |
| Transport `internal/transport` | bounded queues per peer | send, receive | drops and coalescing | loss is all that may happen |
| Debug feed `internal/debugfeed` | ring buffer | record, follow | slow followers | |
| Simulator `internal/sim` | simulated clock and network | run, check S1–S10 | | its checker states claims about the protocol |
| Commands `cmd/arena`, `cmd/chaos` | none | wiring | | |
| Unity client `unity-client` | persisted intent queue, event cursor | send, retry, follow | a retry of what was already applied; restart in between | every intent reaches the server once |

How they interact. The HTTP handlers of the APIs call `Runner.Submit` and
`Runner.Read` on their own goroutines. One goroutine per process, `Runner.Run`,
owns the core: it feeds messages, ticks, submits and reads to the log node one
at a time, applies what the node has committed to the state machine, and
answers the callers. The node saves to its store before it sends; the store of a
real replica is the write-ahead log. The transport carries the node's messages
and may lose them. The state machine is deterministic, so replicas that apply
the same log hold the same state.

## 2. Modules

| module | models | extends / uses |
|---|---|---|
| `Ballots` | `paxos.go`: `Less`, quorum size, `MayPromise`, `MayAccept`, `Choose` | |
| `Decree` | the reference acceptor and proposer of one value, and the network between them | `Ballots`; refines `AgreedLog` with one slot |
| `AgreedLog` | what a replicated log promises: a slot is decided at most once, a node learns only what was decided and keeps it | |
| `Replog` | the nodes and the network between them | `Ballots`; refines `AgreedLog` |
| `ReplogGaps` | `Replog` with the history the simulation checker keeps for its gap rule | `Replog` |
| `Wal` | the file store, the page cache and disk below it, the process above it | |
| `Runner` | the event loop and its callers, over a log as `AgreedLog` promises it | |
| `Ledger` | postings, their keys and accounts, balances | |
| `Prizes` | standings, pool and payouts as functions of a tournament record | `Ledger` |
| `Tournament` | the results table and the operations of the state machine | `Prizes` |
| `Ladder` | the rules of the card game | |
| `Play` | tournaments with a game: sessions, intents, rounds, claims, events, and the views made of them | `Tournament`, `Ladder` |
| `Events` | the long polls of the intents API on one replica, with the client that follows them | |
| `Front` | the operators' and the players' API on a cluster, with clients that retry | |
| `BallotProofs` | the ballot order, `Choose` and counting up, proved | `Ballots` |
| `DecreeProofs` | agreement and refinement of the reference, proved | `Decree`, `BallotProofs` |
| `ReplogSafety` | types, roles, the inductive invariant and the safety of `Replog`, and what the nodes promise their host (refinement, read barriers, the window), proved | `Replog`, `BallotProofs` |
| `WalProofs` | answered saves survive, one owner, no false corruption, proved | `Wal`, `BallotProofs` |
| `RunnerProofs` | the answers of the event loop, proved | `Runner`, `BallotProofs` |
| `FrontProofs` | one outcome per key, reads see own writes, proved | `Front`, `BallotProofs` |
| `EventProofs` | registrations, exact pages, each event once, proved | `Events`, `BallotProofs` |
| `TournamentProofs` | retries, final settlements, payments, standings, eligibility and the conservation of money of `Tournament`; retries, sequence numbers, sessions, scores, hints and round views of `Play`, proved | `Play`, `BallotProofs` |
| `MCDecree`, `MCReplog`, `MCReplogGaps`, `MCWal`, `MCRunner`, `MCTournament`, `MCPlay`, `MCEvents`, `MCFront` | instances for TLC | |

Definitions whose name has an underscore (`Choose_Fallback`, `Sync_Skipped`)
are plausible slips of the definition before the underscore. They are not part
of any specification; each is there to show that a property would notice it.

### Decree

One action is one call of a method of `Acceptor` or `Proposer`. The caller is the
one the package comment describes: it sends what `Start` and `Propose` return to
every acceptor, picks a higher round for a new attempt whenever it likes, and may
call `Propose` again, with any value, to send once more. Messages stay in `msgs`
for ever, so each may be lost, late or repeated. The promise a `Nack` names is
left out: the caller here may pick any higher round. The three durable fields of
an acceptor are all it has, so a crash that keeps them is no step.
`Log` maps the values chosen or reported to the one slot of `AgreedLog`.

### Replog

One action is one call of `Step`, `Tick`, `Propose` or `ReadIndex`, run to its
end: the host owns the node, so handlers do not interleave, and messages a node
sends to itself are handled inside the call, as `send` does. The durable
fields are `promised`, `maxRound`, `accepted`, `chosen`; everything else is lost
by `Restart`. A map of the code is a function on `Slots` with a default that
marks absence.

* The network is the set of messages ever sent. Any of them may be delivered
  late, repeatedly, out of order or never; retransmissions add nothing.
* Time is left out. A timer may fire whenever the node's role allows it. This
  covers every schedule of skewed clocks, and a Prepare that the lease refuses
  is a Prepare that is not delivered. A property proved here therefore does not
  depend on clocks; nothing is said about how soon a leader is elected.
* A store error stops a handler between two saves. The `Fail...` actions leave
  what was saved before it, send nothing, and rebuild the node; a crash at the
  same place leaves the same state. A save whose record reaches the disk
  although it was reported as failed (see `Wal`) is the complete action followed
  by `Restart`, with its messages never delivered.
* `proposed` and `votes` are history: every proposal made, every acceptance.
  `Decided(s, b, v)` says that a majority accepted `v` at ballot `b`.
* One-node clusters are excluded (`NodeAssumption`): there the inline messages
  elect the node and decide its slots within one call.
* `Scope` names which nodes may take the steps nothing else depends on (a
  timeout, a heartbeat, a read, a restart, a store failure). The proofs hold for
  every `Scope`, so also for the one that allows everything.

### Wal

The file is a sequence of records as a reader sees it; the first `stable` of
them are on the disk. `Save` writes and `Sync` syncs, so that `Kill` (the cache
survives) and `PowerLoss` (it does not) may come in between. After a power loss
each record that was not synced is missing with all that follow it, kept, or
reads in one of the ways `scan` tells apart: too short, zeros, a wrong checksum,
a length that points past the end. `Rot` damages a record that was on the disk.
A record carries a key and a version; the node saves growing versions of a key,
because promises, rounds and accepted ballots grow. Damage that makes `Open`
return `ErrCorrupt` leaves the model with the process down: an operator has to
act. Creation of the file and the sync of its directory come before `Init` (section 4).

### Runner

The log node is seen through what `Replog` promises: `Chosen` extends the
committed prefix, `Elected` and `Deposed` change the role, `Barrier` completes a
read barrier. The state machine is seen through its results table: the first
entry with a key decides the key. `after` is split where another goroutine can
see it: `Mark`, `Try`, `Clear`, `Publish`, `Answer`. A reader is split likewise:
`Lock`, `Check`, `Unlock`, `Nudge`, `Wake`, `Leave`, `Left`. A reply channel is
the sequence of everything sent on it, so a second answer, which would block the
loop, can be seen. `Crews` lists the groups of callers that may be at work.
`WaitApplied` is in `Events` and `Front`; the observer is left out; the bounded
inbox drops messages, which `Replog` allows anyway.

### Tournament

A step applies one command of the log; `Commands` is the set of commands that may
be in it, and any of them may come at any time and again, as clients retry and
several leaders propose the same request. An operation's validation is a list of
rules in the order of the code; `Verdict` gives the code of the first that is
broken. The three ways `execute` answers without an operation are `Refuse`,
`Reused` and `Replay`. `answers` is history: every answer ever given.

* Malformed keys, identifiers and jurisdictions are those outside `Keys`, `Ids`,
  `Players`, `Jurisdictions`. Exclusion lists are sets, so `Canonical` (sort and
  remove duplicates) is the identity on them.
* Posting keys and accounts are tuples. The code joins identifiers with `:` and
  keeps `:` out of identifiers, which makes the two the same.
* Slots, ballots and the hash chain are left out: they record the history. The
  test of the slot in `Apply` never fails, because the core applies in order
  (`Runner`), and two replicas agree because each operation is a function of the
  state and the command.
* The operations act on tournaments without a game; `Play` has the rest.
* Money is unbounded here. In the code fees are at most 10^12 * 10^6 and `bps`
  multiplies a quotient, so 64 bits are never exceeded.

### Ladder and Play

`Ladder` has the board as a function of the deal and the moves, the legal moves,
the score and the end of a round. Its dimensions are constants and a seed deals
one of the boards in `Deck`: the shuffle, the derivation of seeds and nonces and
the commitments are abstract.

`Play` applies one command per slot, as `Tournament` does, and adds what
`play_state.go` does: the device bindings, the sequence number that every intent
consumes once it names a bound player and the right number, whether it succeeds
or not, the rounds, the events and the clock, which is the largest time a leader
gave a command. `ClosePlay` and `SettlePlay` are Close and Settle of a tournament
with a game: Close first ends every round in play (`CloseRound`) and then scores
every entry with a round (`CloseEntry`), two loops in join order. `OpenSession` models the draw of an identifier by a command for each
identifier that may be drawn; the retry of a lost answer carries another.
The indexes of the source are read off the events (`shared`, `own`, `boardAt`)
and the entries (`entered`). `EventsPage`, `HasEvents`, `RoundViewAt`, the tournament hints and
the live leaderboard are operators on the state, as the reads are in the code.

Two facts that the model follows and a reader may not expect: `ClaimPayout` adds
a posting to a tournament that is settled (DESIGN.md, D3), so `SettledIsFinal`
speaks of operations without a game; and `Enter` records no `leaderboard_changed`
event, so `BoardChangesAnnounced` is about the order of the scored entries.

### Events

One replica. A slot is the set of events it brings each player: `Kinds` are those a
player can tell apart within a slot, `Boards` the `leaderboard_changed` among
them, one for each tournament, and `Slots` what a slot may bring. `PageAfter` is the
response of a read: `EventsAfter` the whole slots that `State.Events` returns
until a page is full, `EventItems` what `eventItems` (`views.go:243-260`) leaves of
them: of each tournament's `leaderboard_changed` only the last of the page, as
UNITY-INTEGRATION.md:1296-1298 says. So a player is not told every event:
`AnswersAreExact` and `EachEventOnce` say that nothing else is missing, and that
a later one of its tournament follows each one left out. A step is what the code does under `Server.mu` or
inside one closure on the state: opening a poll, which cancels the player's
earlier one; the read of the page; the wait for a slot above the one seen; the
scan one handler makes for all waiting polls; its publication; the removal of
the registration. A request may be cut off by its timeout, its client or a failed read
at any of these. `Receive`, `Expects` and `Abandon` are `EventFollower`: an
answer counts only if it is that of the poll it waits for. The status snapshot is
taken as published with the apply, and one filter is kept per client.

### Front

A *try* is one request on one replica, whether a client or another replica sent
it. Its handler goes through the checks in the order of the code: rate limit
(a refusal that may happen at any time), leader check, key in flight, submit,
wait, result, release. An operator's request is forwarded once, a player's is
redirected. The cluster below is what `Replog` and `Runner` promise: leaders
change, a proposal of the leader is chosen or lost, replicas apply in order and
may be behind, and the first entry with a key decides the key. Clients resend
under the same key until they get a definitive answer, to any replica, which
includes what `CurrentBaseUrl` would pick, and then read with the slot they were
given (`min_slot`) or through a consistent read. Tokens, decoding and stale reads
are left out.

## 3. Runs

| run | states | what it shows | bounds |
|---|---|---|---|
| `decree` | 179 K | `OneValuePerBallot`, and every step is a step of `AgreedLog`, so two values are never chosen, with everything lost, late and repeated | three acceptors, two values, any two of three attempts (`TwoAttempts`): two rivals in either order, or one proposer that starts again. The proof covers more |
| `faults` | 236 K | `Agreement`, `OneValuePerBallot`, `ChosenIsStable` (no restart, re-election or late message makes a node forget or change a slot it has learned), and the refinement of `AgreedLog`, under restarts and failed saves; node 1 is elected, replaced and elected again | two nodes, where every quorum needs both and each loss is felt; three ballots, two slots |
| `window` | 45 K | `QueueOnlyWhenFull`: a queued value always has something in flight that will release it | window of one, two values, three slots |
| `reads` | 175 K | `ReadsAreFresh`, whether the reader is a leader that may have been replaced or the one that replaced it | three nodes, two rival ballots, one barrier (`OneReader`) |
| `gaps` | violation | the gap rule of the simulation checker is not a property of the protocol | three slots, node 1 elected again, nodes 1 and 2 cut off from each other (`Partitioned`) |
| `wal` | 179 K | `AckedSurvives`, `OneOwner`, `NeverRefused`, `CutsOnlyTheTail` (which names the damage under which `Open` drops more than the last record) under kills, power losses, failed writes and syncs and a damaged payload or length field, with two replicas pointed at one file | two keys with two versions each: a record before and one after the damaged one; at most two unsynced records (`FewUnsynced`) |
| `wal_power` | violation | a record that was loaded may be lost | one key |
| `runner` | 1.07 M | `AnswersAgreeWithLog`, `SnapshotBeforeAnswer`, `NobodyForgotten`, `BarrierHolds`, and, with fairness, `CommittedIsApplied` | three crews: a command, its retry and another command with its key; a consistent and a local reader; one of each. Two slots |
| `tournament` | 136 K | `PoolIsBacked`, `PaidExactlyOnce`, `StandingsHold`, `EligibilityHolds`, `TiesShareEvenly`, `SettledIsFinal` (D1 to D5 of the design) | fifteen commands under eleven keys: three entrants, two sets of rules, a pool that neither the shares nor a tie divides, two settlements; at most one key spent on a rejection (`FewRejections`), as a rejection changes only its own row |
| `play` | 3.8 K, and 244 K commands tried | `RetriesAgree` (S8), `OneIntentPerSeq`, `SessionsHold`, `ScoresAreEarned`, `HintsAreRight`, `LiveBoardAgrees`, `ClaimsHold`, `PagesAreComplete`, `ViewsHold`, `BoardChangesAnnounced` | one tournament, two devices and players, two rounds each on boards of two columns, up to 17 slots. Every command is tried in every state; a history goes on (`Bounded`) after the successes and the deadline, and with at most one change of turn or deadline |
| `events` | 537 K | `AnswersAreExact`, `EachEventOnce`, `RegisteredIffOpen`, and, with fairness, `DueRequestsEnd` | three players and a limit of two polls; one polls twice, so that its second poll supersedes the first or follows a page that was cut, and another starts ahead of the replica; pages of two events, two slots of which one fills a page and each brings a `leaderboard_changed`, one fault, met by the first poll |
| `front` | 751 K | `OneOutcomePerKey`, `ReadsOwnWrites`, and, with fairness, `EveryoneFinishes` | two replicas; an operator, a player, or a player that used the key of its command before; three requests in progress, one change of leader, one fault (timeout, failure, crash or call given up) |

Each `TypeOK` states the types of a module's variables. Those of `Replog` and
`Decree` are proved, with `RoleHoldsPromise`, `PromiseHolds`, `ChosenIsDecided`
and the `Agreement` of `Decree`, and no run repeats them; those of the other
modules are there for the reader, and no run lists them.

The bounds are CONSTANTS with guards, or constraints of the MC modules. Where
section 5 proves what a run checks, the proof covers every size and the run is
there to show that the cases happen.
`NeverRefused` excuses one history: a process killed before its sync leaves a
second unsynced record behind the first, a power loss may damage the first of
the two, and then `Open` refuses the file, as its comment says it should.

Deadlock is checked in nine runs. No run of `Decree`, `Replog`, `Wal` or
`Tournament` may stop: a message can always be delivered again, a process opened
again or ended, a command applied again. The loop of `Runner` ends, and
`Finished` is the state in which it may rest: every caller has returned. `play`,
`events` and `front` do stop, at the end of the bounded log, or when the clients
have had their requests; `DueRequestsEnd` and `EveryoneFinishes` say that they do
not stop before.

Fairness, which no safety property needs:

* `runner`: the event loop goes on with `after` once it has begun (`WF(After)`),
  takes a nudge that is waiting (`WF(Kicked)`: `select` in Go chooses among ready
  cases at random, so a token that stays there is taken), and a reader goroutine
  that is inside `readState` is scheduled (`WF(ReadState(r))`; the read functions
  of the API return). No event, tick or request is assumed to come.
* `events`: each handler goroutine is scheduled. No slot, timeout or client is
  assumed to act: a request that is due must end by what the handlers do.
* `front`: handlers are scheduled, clients send and look, replicas hear of the
  leader, become ready and apply, a leader is elected when there is none, and
  what the leader proposed is chosen. The last three are what the log promises
  while a majority is up; faults and changes of leader are bounded, so from some
  point on they stop. Nothing is assumed of timeouts.

## 4. Findings

* `gaps`: ADR 0007 and the checker's S6 say that a value first proposed for a
  slot below a chosen one is never chosen unless it is a no-op. A leader that was
  replaced and does not know it may make such a proposal, and its own next
  election takes it up. Agreement is not affected; the checker would stop a run.
* `wal_power`: `Open` adopts whole records that the killed predecessor never
  synced and does not sync them. The node may answer from them, and a power loss
  may take them back, against S5.

Observations without a run:

* `scan` cannot tell a damaged length field in the middle of the file from a torn
  tail and cuts the file there (`wal.go:183`); the package comment (`wal.go:9-11`)
  does not say so. `CutsOnlyTheTail` carries this as a condition: without it,
  the `wal` run violates it.
* `Open` syncs the directory only when it has just created the file
  (`wal.go:92-104`). A process killed between `wal.go:95` and `:100` leaves a
  directory entry that no later `Open` syncs, so that a power loss could take the
  file with what was saved since. The model starts behind that point.
* UNITY-INTEGRATION.md:272-275 lists 503 among the refusals "before the log". A
  503 can follow a proposal (leadership lost while waiting), which may yet be
  chosen; the client is right to resend under the same key.
* The comment at `tournament.go:155-156` says that `ReceivedAt` takes no part in
  validation; it feeds the clock that decides `round_expired`.
* `ReadsAreFresh` speaks of what a replica had *committed* when the barrier
  began. The comment on `ReadReady` says *chosen*; a slot is chosen, in the sense
  of the proofs, as soon as a majority has accepted it and before the leader
  counts the answers, which no barrier can see.
* The barrier of a consistent read is protected twice in the runner, by the wait
  for the index and by the mark of a waiting apply. Each alone is enough for
  `BarrierHolds` as far as a completed barrier is concerned; the mutant of that
  property answers the barrier at once.

## 5. Proofs

`BallotProofs` holds what the two protocol proofs share: ballots are totally
ordered, and `Choose` returns the value of the highest report. A finite set of
ballots has a highest one because the number of ballots below it is largest.

`DecreeProofs` proves, for every finite group of acceptors, every set of
proposers and values and every finite set of ballots (`DecreeAssumption`):

| theorem | property |
|---|---|
| `TypeCorrect` | `TypeOK` |
| `BallotsHaveOneValue` | `OneValuePerBallot` |
| `ReferenceAgrees` | `Agreement` |
| `ReferenceImplementsLog` | `ImplementsAgreedLog` |

Its invariant `Inv` adds to these: a promise reports the highest ballot its
sender had accepted and its sender accepts nothing lower any more (`PromiseOK`);
an accept message is safe, that is, for each lower ballot a quorum accepted that
value there or will never accept there (`SafeAt`); an attempt's ballot is above
all its proposer used before, and carries one value once `Propose` was called
(`AttemptOK`, which is where the guards of `OnPromise` and `Propose` are needed);
and what was reported is chosen (`ReportInv`). `ProposalSafe` is the heart: what
`Propose` picks from a quorum of promises is safe. Under the refinement mapping,
`OnAccepted` is a `Learn` or nothing, and every other step a `Decide` or nothing.

`ReplogSafety` proves, for every finite set of at least two nodes, every finite
set of ballots, and every number of slots and values:

| theorem | property |
|---|---|
| `TypeCorrect` | `TypeOK` |
| `RoleCorrect` | `RoleHoldsPromise` |
| `PromisesHold` | `PromiseHolds` |
| `LogAgrees` | `Agreement` |
| `LearnedIsDecided` | `ChosenIsDecided` |
| `BallotsAreUsedOnce` | `OneValuePerBallot` |
| `LearnedIsStable` | `ChosenIsStable` |

Assumptions of these: `NodeAssumption` (positive identifiers, finitely many, more than
one), `ElectionsAssumption` (ballots have a positive round and a node; finitely
many, as rounds are 64 bits wide), `BoundAssumption` (types of the bounds).

The argument. `Agreement` is not inductive: a state may agree now and hold a
message that will break it. `SafetyInv` adds what the protocol keeps true.

* `VoteInv`, `AcceptedInv`: an acceptance is of something proposed, at a ballot
  not above the acceptor's promise, and what an acceptor holds for a slot is the
  acceptance with the highest ballot.
* `ProposedInv`: a ballot has one value per slot, and every proposal is safe:
  for each lower ballot there is a quorum each member of which accepted that
  value there, or will never accept there (`SafeAt`, `SafeBelow`, `Closed`).
  Ballots never exceed the durable round of their node, so a restarted node
  does not use one again.
* `MessageInv`: a Promise covers all its sender accepted below the ballot from
  the Prepare's first slot on, although its sender has accepted more since; an
  Accept was proposed; an Accepted was cast; a Learn was decided.
* `LeadershipInv`: a candidate's ballot is unused, and its promises answer its
  own Prepare; a leader may propose any value from `nextSlot` on, because the
  promises of its quorum reported nothing there, and counts only real votes.
* `ChosenInv`: what a node holds as chosen was decided.

The heart is `TakeoverSafe`: the value `Choose` picks from a quorum of promises
is safe at the new ballot. The rest is one lemma per action, with monotonicity
lemmas (`SafeAt`, `Decided` and the messages are stable under growing votes and
promises) that spare each action the conjuncts it does not disturb. `SafeAt` of
two proposals and the intersection of majorities give `Agreement`. The
prefix of a batch that a failed save leaves behind is treated by `BatchStep`
together with the whole batch.

From the same assumptions it goes on to what the nodes promise their host:

| theorem | property |
|---|---|
| `LogImplements` | `ImplementsAgreedLog` |
| `QueueWaitsForWindow` | `QueueOnlyWhenFull` |
| `BarriersAreFresh` | `ReadsAreFresh` |

* Refinement. A slot of the abstract log holds what is `Decided` for it. A step
  that casts votes decides some slots, each for the first time by `Agreement`; a
  step that learns teaches one node slots that are decided (`ChosenInv`); every
  other step is a stutter, because no vote and no chosen map changes.
* The queue. `QueueInv` says that only a leader has one, that what is in flight
  lies below `nextSlot`, that the queue fits into the slots that are left, and
  that as many slots as the window has are in flight. `drain` restores the last
  by proposing as much as there is room for.
* Read barriers. `ReadsAreFresh` is about a barrier that completes; while it is
  pending it may be about to be too old, and then `PendingInv` says that it will
  not complete: a majority has promised a higher ballot, is not among those that
  acknowledged, and no acknowledgement it sent answers this barrier
  (`Superseded`). Such a majority exists when the barrier begins, because what
  another node had committed was learned first by the node of its ballot
  (`TaughtInv`), at a ballot that is either the reader's own or, by
  `OwnSlotsInv`, closed for the slots from `firstOwnSlot` on, or above it.
  `BeatInv` keeps the read numbers of two leaders' heartbeats apart.

`WalProofs` proves, for every set of keys and replicas, any number of versions,
every choice of faults, and files of every length:

| theorem | property |
|---|---|
| `AckedSurvivesCrashes` | `AckedSurvives` |
| `OneOwnerEver` | `OneOwner` |
| `CrashesAreNoCorruption` | `NeverRefused` |
| `TailIsCutOnly` | `CutsOnlyTheTail` |

from `WalAssumption`: identifiers of replicas are positive, and no key of a save
is the one of the membership record (the code gives that record a kind of its
own). `CutsOnlyTheTail` says itself what it excepts (section 4), so `TailIsCutOnly` has no
further hypothesis: `CutInv` adds to `WalInv` that, until a power loss meets two
records, a bad record before the last one has a wrong checksum, which `Open`
refuses, or a damaged length field, and `DownAcks` says that the records `Open` keeps hold every
version that was answered. The invariant `WalInv` says of a running process that what it counts as its file is
whole, with at most the record it is writing, or failed to write, behind it
(`ProcessInv`); of the file, that its membership is the first record and no other
and that versions of a key grow along it (`MemberInv`, `VersionInv`), so what a
scan finds last is the latest; of the disk, that every answered version is there
with nothing but whole records before it (`AckInv`, `OwnerInv`), and that only the
last record can be damaged until a power loss meets two that were not synced
(`TailInv`).

`RunnerProofs` proves, for every set of callers, keys and commands and every
length of the log:

| theorem | property |
|---|---|
| `SubmitsToldTheRecord` | `AnswersAgreeWithLog` |
| `StatusCoversAnswers` | `SnapshotBeforeAnswer` |
| `AnsweredOnce` | `NobodyForgotten` |
| `BarrierCovers` | `BarrierHolds` |

from `RunnerAssumption` (readers are not clients; types of the bounds).
`NobodyForgotten` speaks of the loop between two events; `CallOK` carries it
through the steps of `after`: who waits is in a table and unanswered, who is in a
table waits or has gone. `ReadOK` says where a read is: its barrier is in one
table at a time, with the index it began with, and only a `nil` lets it go on.
`EventInv` says when the snapshot may be behind the applied slot: between the
apply and `Publish`, in which no caller is answered.

`FrontProofs` proves, for every number of replicas, clients, requests in
progress, changes of leader and faults:

| theorem | property |
|---|---|
| `EveryAnswerIsTheOutcome` | `OneOutcomePerKey` |
| `ReadsSeeOwnWrites` | `ReadsOwnWrites` |

from `FrontAssumption` (types of the constants only: clients may share keys, also an
operator with a player, as nothing in the code keeps them apart). `FrontInv` follows an answer
from the handler that made it through the replica that forwarded it to the
client: wherever it is, it is what the first entry with the key decided (`Told`),
a forward has one child at most and passes on that child's answer (`TryInv`), and
the slot a client holds is that of the first entry with its key (`ClientInv`).
That the log only grows keeps all of this true.

`EventProofs` proves, for every set of players and requests, every page size and
limit, and logs of every length:

| theorem | property |
|---|---|
| `EventsTyped` | `TypeOK` |
| `RegistrationsHold` | `RegisteredIffOpen` |
| `PagesAreExact` | `AnswersAreExact` |
| `EventsHandedOnce` | `EachEventOnce` |

from `EventsAssumption` (types of the constants). The registrations need to be
followed from `openPoll` to the end of the handler: `RegisteredIffOpen` is
inductive with the types, because `Unregister` compares the registration with
its own request. For the pages, `EventItems` is a recursive function over the log;
that it has a solution is shown by counting up (`UpToExists`), and `ItemsAre` says
what it lists: the slots of the page in order, each with what is left of it.
`PageFromFront` is what makes a cut page exact up to the cursor it returns: every
visible slot up to the last of a page is in the page. `ItemsTell` then finds, for a
`leaderboard_changed` that was left out, the last one of its tournament in the page.
`ToldStays` and `ToldJoin` say that what was told stays told when slots are
applied, and that two adjoining ranges concatenate: a client appends the page to
what it was handed before and takes over the cursor; an answer to a poll it has
given up is not `Expects`ed.

`TournamentProofs` proves, for every set of commands, identifiers, keys and
players, and fields of every size:

| theorem | property |
|---|---|
| `SettlementIsFinal` | `SettledIsFinal` |
| `RetriesAreAnsweredAlike` | `RetriesAgree` |
| `PaymentsMatchPayouts` | `PaidExactlyOnce` |
| `ListsAreKept` | `EligibilityHolds` |
| `StandingsAreFinal` | `StandingsHold` |
| `PoolsAreBacked` | `PoolIsBacked` |
| `PayoutsAddUp` | `TiesShareEvenly` |

from `CommandAssumption` (the operation of a command is a record that names it)
and `BoundsAssumption`. `RetriesAgree` speaks of pairs of answers and is not
inductive; `AnswersInv` says that every answer ever given is the one the results
table would give now, because a key keeps its row. `SettlementIsFinal` rests on
one lemma per operation (`CreateOK`, `JoinOK`, ...): a verdict of `ok` means that
the status test was passed, so the tournament it changes is not settled; and on
`TouchesOne`: an operation posts only to the tournament it names.

The next three share `BooksHold`. `TourOK` says what the status of a tournament
implies for its record (entries numbered as they joined, one per player, scores
numbered apart; standings computed from Close on; no payouts before Settle), and
`PaidOK` that its payments are those of its payouts. A settlement posts to a book
without payments, its payouts have keys of their own (`PayoutsOK`), and so `Post`
never meets a key again. `RowInv` ties a settlement's row in the results table to
the exclusion list its prizes follow, and `AnswersInv` carries this to the
answers. For the standings, `Ahead` is shown to be a strict total order on the
entries, so the number of entries ahead of one, plus one, is a place no other
has; that gives an order for `Ranked` to choose, and shows that every order it
may choose puts each entry at this place. `StandingsHold` counts the same
entries in three groups (better scores, earlier submissions, earlier entries).

The money. `MoneyInv` says what every account of a tournament holds: its pool
one fee per entry until Settle and nothing after it, its rake account the rake
that Close fixed. A sum over a finite set is taken apart by one element at a time
(`SumFunction` of a set with one more element, by an induction over finite sets
that is written out as the largest of the subsets for which it holds). An entry
adds one credit of the fee. A settlement adds the debits of its payouts and its
rake, whose sum is what the pool holds: the shares of the places add up to the
pool because the first takes the remainder, the places of a tie group are an
interval, so that dividing the sum of their shares and giving the remainder away
one by one from the front leaves the sum as it was, and a void refunds one fee
each. The same lemmas give `TiesShareEvenly`.

Over `PlaySpec`, with intents, sessions and rounds, and for every set of devices,
seeds, decks and times, it proves

| theorem | property |
|---|---|
| `IntentsAreAnsweredAlike` | `RetriesAgree` |
| `IntentsAreAppliedOnce` | `OneIntentPerSeq` |
| `DevicesKeepTheirPlayer` | `SessionsHold` |
| `EntriesEarnTheirScore` | `ScoresAreEarned` |
| `HintsTellTheTruth` | `HintsAreRight` |
| `AnswersCanBeRebuilt` | `ViewsHold` |

from the assumptions above with `PlayAssumption`, `LadderAssumption` (sizes of
the game, and decks without a card twice) and `IntentAssumption` (an intent has
the fields its operation names, a well-formed player, as the API takes it from
the session's token, and an unsigned number). `SeqInv` says that the keys whose rows consumed a
number of a player are in bijection with the numbers up to the last one; a step
adds at most one key, with the next number, because `SequencedCode` is computed
before anything else and is kept in the row when it rejects. `SessionInv` says
that a binding is never changed and that every row of `openSession` agrees with
it: an `ok` names the player of the binding and its verifier, a
`device_mismatch` was given to another verifier than the one bound; a new binding
takes a player that was not bound.

The last three rest on `RoundsHold`, an invariant of every round and entry.
`HandOK` says of one player in one tournament that the rounds before one that is
dealt are finished, and that a finished round has the score its moves earn on its
deck; so the rounds are dealt up to some `d` (`HandUpto`), and what `Progress`
folds out of them is known (`ProgressIs`). `TrackOK` ties them to the entries:
while the tournament is open an entry is scored when its last round is finished,
afterwards when it was dealt a round at all, with the total of the rounds, and no
round is in play once the tournament is not open. Close is where this is hard: it
ends every round in play and then scores every entry that has none, in two loops
over the rounds and the entries. Each loop is followed turn by turn
(`ClosedUpto`, `EntriesUpto`): the rounds and entries before the turn are as Close
leaves them, those after it as Close met them. `BoundInv` (a bound player has a
jurisdiction of the rules) lets `enter` keep the invariant of the entries.

`HintsAreRight` adds `OfferInv`: the fees in the book are those of entries, so
the ledger refuses no player the list calls eligible. With it each hint is the
same condition as the code of the command, because a verdict is `ok` exactly when
none of its rules is broken (`AdmitCodeIs`, `DealCodeIs`). For `ViewsHold`, every
step leaves a round as it was, deals it, adds a move or ends it in the step's own
slot (`Goes`). `ViewInv` says that a recorded answer names a round that was dealt
by its slot and has at least the moves it shows; a move added later is behind
these, and an end has a later slot, so the view of the slot is unchanged.

Only model-checked:

* liveness, and anything with ENABLED, is out of the prover's reach
  (`CommittedIsApplied`, `DueRequestsEnd`, `EveryoneFinishes`);
* three invariants of `Play`: `ClaimsHold` needs the sums of `Tournament` under
  the steps of `Play`, player by player; `LiveBoardAgrees` the order of the
  entries by the slots of their rounds; `PagesAreComplete` what `SelectSeq` keeps
  of a sequence;
* the action property `BoardChangesAnnounced` of `Play`, which needs the events
  that each turn of the loops of Close appends.

The library's induction theorems take an operator as a parameter, which the
installed provers do not instantiate. Where a proof needs an induction over
numbers it cites `Counting` of `BallotProofs` (a set of numbers that holds the
first and with each the next holds all), over finite sets the analogous lemma for
families of sets; recursive functions are then unfolded by hand. RECURSIVE
operators are kept out of all modules.

## 6. Not modelled

* Clocks of the log: leases, election deadlines, the leader hint. `Replog` lets
  any timer fire at any time, so its safety does not depend on them; that a
  leader is elected and stays is not shown (hazards at `node.go:427`, `576`).
* The runner's bounded inbox (`runner.go:194`): its drops are losses of the network.
* One-node clusters, which elect and decide inside one call.
* JSON codecs, tokens, signatures, the shuffle and the derivation of seeds and
  nonces: pure functions of their input.
* The state of the rate limiter: in `Front` a refusal may happen at any time.
* Stale reads, status and debug routes, decoding errors of both APIs.
* The transport's queues, the debug feed, the simulator (except the gap rule),
  the commands.
* The client's persisted intent queue and its Unity glue.

`PROJECT.json` gives the reason for each component.

## 7. Plan

1. Proofs: `ClaimsHold`, with the balances per player; `BoardChangesAnnounced`.
2. `Election`: leases, skewed clocks and deadlines; a leader is eventually
   elected and stays when messages arrive in time.
3. `IntentQueue`: the client's persisted queue with restarts, over `Front`.
4. Compositions: `Replog` over `Wal`, `Runner` over `AgreedLog`.

-------------------------------- MODULE Replog --------------------------------
(***************************************************************************)
(* internal/replog: one Multi-Paxos node per replica, and the network      *)
(* between them.                                                           *)
(*                                                                         *)
(* A node is an acceptor and a learner for every slot, and a candidate or  *)
(* leader once its election timer fires. Its handlers run one at a time    *)
(* (the host owns the node), so one action is one call of Step, Tick,      *)
(* Propose or ReadIndex. Messages a node sends to itself are handled       *)
(* inline, inside the same action. Time is not modelled here: every timer  *)
(* may fire whenever its role allows it, which includes every schedule of  *)
(* skewed clocks, and a Prepare refused by the lease is a Prepare that is  *)
(* not delivered.                                                          *)
(*                                                                         *)
(* The network is the set of messages ever sent. A message may be          *)
(* delivered never, late, or many times, in any order; so a retransmission *)
(* (tick re-sends Prepare and Accept) adds nothing to the set.             *)
(***************************************************************************)
EXTENDS Ballots, Sequences

CONSTANTS
  Node,         \* Config.Peers: positive node identifiers
  Elections,    \* bound: the ballots an election may use
  MaxSlot,      \* bound: slots above it are not followed; what a leader
                \* proposes there is dropped
  Value,        \* client values
  NoOp,         \* the empty value
  Window,       \* Config.Window
  QueueLimit,   \* Config.QueueLimit
  LearnBatch,   \* Config.LearnBatch
  MaxReads,     \* bound: ReadIndex calls per incarnation of a node
  Scope         \* bound: the pairs <<event, node>> explored, of the events
                \* below that no other action depends on

ASSUME NodeAssumption ==
  /\ Node \subseteq Nat \ {0}
  /\ IsFiniteSet(Node)
  /\ Cardinality(Node) > 1

\* Rounds are 64 bits wide, so there are finitely many ballots.
ASSUME ElectionsAssumption ==
  /\ IsFiniteSet(Elections)
  /\ \A b \in Elections : b \in [round : Nat \ {0}, node : Node]

ASSUME BoundAssumption ==
  /\ MaxSlot \in Nat
  /\ NoOp \notin Value
  /\ Window \in Nat \ {0}
  /\ QueueLimit \in Nat \ {0}
  /\ LearnBatch \in Nat \ {0}
  /\ MaxReads \in Nat
  /\ Scope \subseteq {"timeout", "learn", "heartbeat", "read", "restart", "store"} \X Node

VARIABLES
  promised,      \* durable: the acceptor's promise
  maxRound,      \* durable: highest round used or seen
  accepted,      \* durable: slot -> the pvalue accepted last
  chosen,        \* durable: slot -> the entry known chosen
  role,
  ballot,        \* ballot of the current or last candidacy
  fromSlot,      \* phase1.fromSlot
  promises,      \* phase1.promises
  proposals,     \* slot -> value in flight and the nodes that accepted it
  nextSlot,
  firstOwnSlot,  \* slot of the leadership no-op
  queue,         \* values held back by the window
  readSeq,
  reads,         \* pending read-index barriers
  ready,         \* ReadReady events delivered to the hosts
  msgs,          \* every message ever sent
  proposed,      \* history: every (ballot, slot, value) handed to propose
  votes          \* history: every pvalue an acceptor ever accepted

durable == <<promised, maxRound, accepted, chosen>>
volatile == <<role, ballot, fromSlot, promises, proposals, nextSlot,
              firstOwnSlot, queue, readSeq, reads>>
history == <<proposed, votes>>
vars == <<durable, volatile, ready, msgs, history>>

-----------------------------------------------------------------------------
Slots == 1..MaxSlot
May(event, n) == <<event, n>> \in Scope
Values == Value \cup {NoOp}
BallotSet == Elections \cup {ZeroBallot}
Quorum == QuorumSize(Cardinality(Node))
IsQuorum(S) == Cardinality(S) >= Quorum
Follower == "follower"
Candidate == "candidate"
Leader == "leader"

\* A map entry that is absent has the zero ballot, or no acceptor.
NoEntry == [ballot |-> ZeroBallot, value |-> NoOp]
Idle == [value |-> NoOp, accepts |-> {}]
Entries == [ballot : BallotSet, value : Values]
PValues == [slot : Slots, ballot : Elections, value : Values]
Votes == [node : Node, slot : Slots, ballot : Elections, value : Values]

\* The wire messages; fields no handler reads are left out.
PrepareMsg == [type : {"prepare"}, ballot : Elections, fromSlot : 1..MaxSlot + 1]
PromiseMsg == [type : {"promise"}, from : Node, ballot : Elections,
               accepted : SUBSET PValues]
AcceptMsg == [type : {"accept"}, ballot : Elections, slot : Slots, value : Values]
AcceptedMsg == [type : {"accepted"}, from : Node, ballot : Elections, slot : Slots]
NackMsg == [type : {"nack"}, ballot : Elections, promised : BallotSet]
LearnMsg == [type : {"learn"}, to : Node, slot : Slots, ballot : Elections,
             value : Values]
LearnRequestMsg == [type : {"learnRequest"}, from : Node, to : Node,
                    fromSlot : 1..MaxSlot + 1]
HeartbeatMsg == [type : {"heartbeat"}, ballot : Elections,
                 commitIndex : 0..MaxSlot, readSeq : 0..MaxReads]
HeartbeatAckMsg == [type : {"heartbeatAck"}, from : Node, ballot : Elections,
                    promised : BallotSet, readSeq : 0..MaxReads]

Message ==
  PrepareMsg \cup PromiseMsg \cup AcceptMsg \cup AcceptedMsg \cup NackMsg
    \cup LearnMsg \cup LearnRequestMsg \cup HeartbeatMsg \cup HeartbeatAckMsg

\* One pending barrier; observed is history: the highest commit index of any
\* node when ReadIndex was called.
Read == [seq : 0..MaxReads, index : 0..MaxSlot, acks : SUBSET Node,
         observed : 0..MaxSlot]

DurableTypeOK ==
  /\ promised \in [Node -> BallotSet]
  /\ maxRound \in [Node -> Nat]
  /\ accepted \in [Node -> [Slots -> Entries]]
  /\ chosen \in [Node -> [Slots -> Entries]]

VolatileTypeOK ==
  /\ role \in [Node -> {Follower, Candidate, Leader}]
  /\ ballot \in [Node -> BallotSet]
  /\ fromSlot \in [Node -> 0..MaxSlot + 1]
  /\ promises \in [Node -> SUBSET PromiseMsg]
  /\ proposals \in [Node -> [Slots -> [value : Values, accepts : SUBSET Node]]]
  /\ nextSlot \in [Node -> Nat]
  /\ firstOwnSlot \in [Node -> Nat]
  /\ queue \in [Node -> Seq(Value)]
  /\ readSeq \in [Node -> 0..MaxReads]
  /\ reads \in [Node -> SUBSET Read]

TypeOK ==
  /\ DurableTypeOK
  /\ VolatileTypeOK
  /\ ready \subseteq [index : 0..MaxSlot, observed : 0..MaxSlot]
  /\ msgs \subseteq Message
  /\ proposed \subseteq PValues
  /\ votes \subseteq Votes

Init ==
  /\ promised = [n \in Node |-> ZeroBallot]
  /\ maxRound = [n \in Node |-> 0]
  /\ accepted = [n \in Node |-> [s \in Slots |-> NoEntry]]
  /\ chosen = [n \in Node |-> [s \in Slots |-> NoEntry]]
  /\ role = [n \in Node |-> Follower]
  /\ ballot = [n \in Node |-> ZeroBallot]
  /\ fromSlot = [n \in Node |-> 0]
  /\ promises = [n \in Node |-> {}]
  /\ proposals = [n \in Node |-> [s \in Slots |-> Idle]]
  /\ nextSlot = [n \in Node |-> 0]
  /\ firstOwnSlot = [n \in Node |-> 0]
  /\ queue = [n \in Node |-> <<>>]
  /\ readSeq = [n \in Node |-> 0]
  /\ reads = [n \in Node |-> {}]
  /\ ready = {}
  /\ msgs = {}
  /\ proposed = {}
  /\ votes = {}

-----------------------------------------------------------------------------
(* Derived state *)

Known(n, s) == chosen[n][s].ballot # ZeroBallot

\* advanceCommit runs wherever chosen changes, so the commit index is always
\* the length of the chosen prefix.
CommitIndex(n) == Cardinality({c \in Slots : \A s \in 1..c : Known(n, s)})

InFlight(n) == {s \in Slots : proposals[n][s].accepts # {}}

AcceptedFrom(n, from) ==
  {[slot |-> s, ballot |-> accepted[n][s].ballot, value |-> accepted[n][s].value] :
      s \in {t \in Slots : t >= from /\ accepted[n][t].ballot # ZeroBallot}}

\* Slot s was accepted with value v at ballot b by a majority.
Decided(s, b, v) ==
  IsQuorum({n \in Node :
              [node |-> n, slot |-> s, ballot |-> b, value |-> v] \in votes})

Higher(a, b) == IF a < b THEN b ELSE a
Highest(S) == CHOOSE x \in S : \A y \in S : y <= x

-----------------------------------------------------------------------------
(* Parts of handlers *)

StepDown(n) ==
  /\ role' = [role EXCEPT ![n] = Follower]
  /\ fromSlot' = [fromSlot EXCEPT ![n] = 0]
  /\ promises' = [promises EXCEPT ![n] = {}]
  /\ proposals' = [proposals EXCEPT ![n] = [s \in Slots |-> Idle]]
  /\ queue' = [queue EXCEPT ![n] = <<>>]
  /\ reads' = [reads EXCEPT ![n] = {}]
  /\ UNCHANGED <<ballot, nextSlot, firstOwnSlot, readSeq>>

\* setPromised, called for a ballot above the promise.
SetPromised(n, b) ==
  /\ promised' = [promised EXCEPT ![n] = b]
  /\ maxRound' = [maxRound EXCEPT ![n] = Higher(@, b.round)]
  /\ IF role[n] # Follower /\ Less(ballot[n], b)
     THEN StepDown(n)
     ELSE UNCHANGED volatile

RaisePromise(n, b) ==
  IF Less(promised[n], b)
  THEN SetPromised(n, b)
  ELSE UNCHANGED <<promised, maxRound, volatile>>

\* The acceptor side of Accept: the pvalues f (slot -> value) at ballot b
\* replace what the node accepted for those slots.
AcceptAt(n, b, f) ==
  /\ accepted' = [accepted EXCEPT ![n] =
       [s \in Slots |-> IF s \in DOMAIN f
                        THEN [ballot |-> b, value |-> f[s]]
                        ELSE @[s]]]
  /\ votes' = votes \cup
       {[node |-> n, slot |-> s, ballot |-> b, value |-> f[s]] : s \in DOMAIN f}

\* propose for every slot of f: the leader accepts its own proposal inline
\* (RoleHoldsPromise says the inline Accept is never refused).
Record(n, f) ==
  /\ AcceptAt(n, ballot[n], f)
  /\ proposed' = proposed \cup
       {[slot |-> s, ballot |-> ballot[n], value |-> f[s]] : s \in DOMAIN f}

Started(n, f) ==
  [s \in Slots |-> IF s \in DOMAIN f
                   THEN [value |-> f[s], accepts |-> {n}]
                   ELSE proposals[n][s]]

Accepts(n, f) ==
  {[type |-> "accept", ballot |-> ballot[n], slot |-> s, value |-> f[s]] :
      s \in DOMAIN f}

\* Plausible slip in learn: drainQueue is not called.
DrainCount_Never(n, s) == 0

\* How many queued values drainQueue proposes once slot s is not in flight.
DrainCount(n, s) ==
  LET free == Window - Cardinality(InFlight(n) \ {s})
  IN  IF role[n] # Leader \/ free < 0 THEN 0
      ELSE IF free < Len(queue[n]) THEN free ELSE Len(queue[n])

\* The k values drainQueue proposes, by slot.
Drained(n, k) ==
  [t \in {u \in Slots : nextSlot[n] <= u /\ u < nextSlot[n] + k} |->
     queue[n][t - nextSlot[n] + 1]]

SetChosen(n, s, b, v) ==
  chosen' = [chosen EXCEPT ![n] =
               [@ EXCEPT ![s] = [ballot |-> b, value |-> v]]]

\* learn: persist the entry, drop the slot's proposal, refill the window.
Learn(n, s, b, v, sends) ==
  LET k == DrainCount(n, s)
      f == Drained(n, k)
  IN  /\ SetChosen(n, s, b, v)
      /\ proposals' = [proposals EXCEPT ![n] =
           [t \in Slots |-> IF t = s /\ t \notin DOMAIN f
                            THEN Idle ELSE Started(n, f)[t]]]
      /\ queue' = [queue EXCEPT ![n] = SubSeq(@, k + 1, Len(@))]
      /\ nextSlot' = [nextSlot EXCEPT ![n] = @ + k]
      /\ Record(n, f)
      /\ msgs' = msgs \cup Accepts(n, f) \cup sends
      /\ UNCHANGED <<promised, maxRound, role, ballot, fromSlot, promises,
                     firstOwnSlot, readSeq, reads, ready>>

-----------------------------------------------------------------------------
(* Acceptor and learner (design 5.2). Step ignores a message that is not   *)
(* addressed to the node: a broadcast reaches the other peers, a reply     *)
(* returns to the ballot's node.                                           *)

Promise(n, b, from) ==
  [type |-> "promise", from |-> n, ballot |-> b, accepted |-> AcceptedFrom(n, from)]

OnPrepare(n, m) ==
  /\ m.type = "prepare"
  /\ m.ballot.node # n
  /\ IF m.ballot = promised[n] \/ MayPromise(promised[n], m.ballot)
     THEN /\ RaisePromise(n, m.ballot)
          /\ msgs' = msgs \cup {Promise(n, m.ballot, m.fromSlot)}
     ELSE /\ msgs' = msgs \cup {[type |-> "nack", ballot |-> m.ballot,
                                 promised |-> promised[n]]}
          /\ UNCHANGED <<promised, maxRound, volatile>>
  /\ UNCHANGED <<accepted, chosen, ready, history>>

OnAccept(n, m) ==
  /\ m.type = "accept"
  /\ m.ballot.node # n
  /\ IF MayAccept(promised[n], m.ballot)
     THEN /\ RaisePromise(n, m.ballot)
          /\ AcceptAt(n, m.ballot, [s \in {m.slot} |-> m.value])
          /\ msgs' = msgs \cup {[type |-> "accepted", from |-> n,
                                 ballot |-> m.ballot, slot |-> m.slot]}
     ELSE /\ msgs' = msgs \cup {[type |-> "nack", ballot |-> m.ballot,
                                 promised |-> promised[n]]}
          /\ UNCHANGED <<promised, maxRound, accepted, votes, volatile>>
  /\ UNCHANGED <<chosen, ready, proposed>>

\* Plausible slip in onHeartbeat: the acknowledgement repeats the leader's
\* ballot instead of reporting the acceptor's promise.
HeartbeatAck_Echo(n, m) ==
  [type |-> "heartbeatAck", from |-> n, ballot |-> m.ballot,
   promised |-> m.ballot, readSeq |-> m.readSeq]

\* The promise is raised before the acknowledgement reports it.
HeartbeatAck(n, m) ==
  [type |-> "heartbeatAck", from |-> n, ballot |-> m.ballot,
   promised |-> promised'[n], readSeq |-> m.readSeq]

\* A node that is behind may ask for the missing entries; the request is rate
\* limited.
OnHeartbeat(n, m) ==
  /\ m.type = "heartbeat"
  /\ m.ballot.node # n
  /\ RaisePromise(n, m.ballot)
  /\ LET ack == HeartbeatAck(n, m)
         request == [type |-> "learnRequest", from |-> n, to |-> m.ballot.node,
                     fromSlot |-> CommitIndex(n) + 1]
     IN  \/ msgs' = msgs \cup {ack}
         \/ /\ ~ Less(m.ballot, promised[n])
            /\ m.commitIndex > CommitIndex(n)
            /\ msgs' = msgs \cup {ack, request}
  /\ UNCHANGED <<accepted, chosen, ready, history>>

\* A slot already known keeps its entry.
OnLearn(n, m) ==
  /\ May("learn", n)
  /\ m.type = "learn"
  /\ m.to = n
  /\ ~ Known(n, m.slot)
  /\ Learn(n, m.slot, m.ballot, m.value, {})

Learns(n, S, to) ==
  {[type |-> "learn", to |-> p, slot |-> s, ballot |-> chosen[n][s].ballot,
    value |-> chosen[n][s].value] : p \in to, s \in S}

OnLearnRequest(n, m) ==
  /\ m.type = "learnRequest"
  /\ m.to = n
  /\ msgs' = msgs \cup
       Learns(n, {s \in Slots : /\ s >= m.fromSlot
                                /\ s < m.fromSlot + LearnBatch
                                /\ Known(n, s)}, {m.from})
  /\ UNCHANGED <<durable, volatile, ready, history>>

-----------------------------------------------------------------------------
(* Candidate (design 5.3) *)

\* Tick of a follower whose election timer fired: a fresh round, saved before
\* use, and the node's own promise, both inline.
StartElection(n) ==
  LET b == [round |-> maxRound[n] + 1, node |-> n]
      from == CommitIndex(n) + 1
  IN  /\ role[n] = Follower
      /\ b \in Elections
      /\ maxRound' = [maxRound EXCEPT ![n] = b.round]
      /\ promised' = [promised EXCEPT ![n] = b]
      /\ role' = [role EXCEPT ![n] = Candidate]
      /\ ballot' = [ballot EXCEPT ![n] = b]
      /\ fromSlot' = [fromSlot EXCEPT ![n] = from]
      /\ promises' = [promises EXCEPT ![n] = {Promise(n, b, from)}]
      /\ msgs' = msgs \cup {[type |-> "prepare", ballot |-> b, fromSlot |-> from]}
      /\ UNCHANGED <<accepted, chosen, proposals, nextSlot, firstOwnSlot, queue,
                     readSeq, reads, ready, history>>

\* Tick of a candidate past its Phase 1 deadline.
CandidateTimeout(n) ==
  /\ May("timeout", n)
  /\ role[n] = Candidate
  /\ role' = [role EXCEPT ![n] = Follower]
  /\ fromSlot' = [fromSlot EXCEPT ![n] = 0]
  /\ promises' = [promises EXCEPT ![n] = {}]
  /\ UNCHANGED <<durable, ballot, proposals, nextSlot, firstOwnSlot, queue,
                 readSeq, reads, ready, msgs, history>>

Collected(n, m) == {p \in promises[n] : p.from # m.from} \cup {m}

Reported(got) == UNION {p.accepted : p \in got}

\* The slots the new leader must look at to find the top of the log.
Taken(n, got) ==
  {fromSlot[n] - 1}
    \cup {pv.slot : pv \in {r \in Reported(got) : r.slot >= fromSlot[n]}}
    \cup {s \in Slots : Known(n, s)}

\* What becomeLeader proposes, by slot: for every open slot the value Choose
\* selects (a no-op for a gap), then the leadership no-op above them all.
Takeover(n, got, top) ==
  [s \in {t \in Slots : \/ t \in fromSlot[n]..top /\ ~ Known(n, t)
                        \/ t = top + 1} |->
     IF s = top + 1 THEN NoOp
     ELSE Choose({r \in Reported(got) : r.slot = s}, NoOp)]

\* Plausible slip in becomeLeader: client values start at the no-op's slot.
FirstFree_AtNoOp(top) == top + 1

\* Client values start above the leadership no-op.
FirstFree(top) == top + 2

BecomeLeader(n, got, top) ==
  LET f == Takeover(n, got, top)
  IN  /\ role' = [role EXCEPT ![n] = Leader]
      /\ firstOwnSlot' = [firstOwnSlot EXCEPT ![n] = top + 1]
      /\ nextSlot' = [nextSlot EXCEPT ![n] = FirstFree(top)]
      /\ proposals' = [proposals EXCEPT ![n] =
           [s \in Slots |-> IF s \in DOMAIN f
                            THEN [value |-> f[s], accepts |-> {n}] ELSE Idle]]
      /\ reads' = [reads EXCEPT ![n] = {}]
      \* phase1 is not read again before the next election
      /\ fromSlot' = [fromSlot EXCEPT ![n] = 0]
      /\ promises' = [promises EXCEPT ![n] = {}]
      /\ Record(n, f)
      /\ msgs' = msgs \cup Accepts(n, f)
      /\ UNCHANGED <<promised, maxRound, chosen, ballot, queue, readSeq, ready>>

OnPromise(n, m) ==
  /\ m.type = "promise"
  /\ role[n] = Candidate
  /\ m.ballot = ballot[n]
  /\ LET got == Collected(n, m)
     IN  IF IsQuorum({p.from : p \in got})
         THEN \E top \in Taken(n, got) :
                /\ \A s \in Taken(n, got) : s <= top
                /\ BecomeLeader(n, got, top)
         ELSE /\ promises' = [promises EXCEPT ![n] = got]
              /\ UNCHANGED <<durable, role, ballot, fromSlot, proposals, nextSlot,
                             firstOwnSlot, queue, readSeq, reads, ready, msgs,
                             history>>

-----------------------------------------------------------------------------
(* Leader (design 5.3) *)

\* The answer belongs to a proposal the leader has in flight at its ballot.
Counts(n, m) ==
  /\ role[n] = Leader
  /\ m.ballot = ballot[n]
  /\ proposals[n][m.slot].accepts # {}

\* ErrBusy, NotLeaderError and ErrValueTooLarge change nothing.
Propose(n, v) ==
  /\ role[n] = Leader
  /\ nextSlot[n] + Len(queue[n]) \in Slots
  /\ IF Cardinality(InFlight(n)) >= Window
     THEN /\ Len(queue[n]) < QueueLimit
          /\ queue' = [queue EXCEPT ![n] = Append(@, v)]
          /\ UNCHANGED <<accepted, proposals, nextSlot, msgs, history>>
     ELSE LET f == [s \in {nextSlot[n]} |-> v]
          IN  /\ proposals' = [proposals EXCEPT ![n] = Started(n, f)]
              /\ nextSlot' = [nextSlot EXCEPT ![n] = @ + 1]
              /\ Record(n, f)
              /\ msgs' = msgs \cup Accepts(n, f)
              /\ UNCHANGED queue
  /\ UNCHANGED <<promised, maxRound, chosen, role, ballot, fromSlot, promises,
                 firstOwnSlot, readSeq, reads, ready>>

\* A majority of Accepted makes the slot chosen; the leader persists it,
\* refills its window and tells the others.
OnAccepted(n, m) ==
  LET p == proposals[n][m.slot]
      acks == p.accepts \cup {m.from}
  IN  /\ m.type = "accepted"
      /\ m.ballot.node = n
      /\ Counts(n, m)
      /\ IF IsQuorum(acks)
         THEN Learn(n, m.slot, ballot[n], p.value,
                    {[type |-> "learn", to |-> q, slot |-> m.slot,
                      ballot |-> ballot[n], value |-> p.value] : q \in Node \ {n}})
         ELSE /\ proposals' = [proposals EXCEPT ![n] =
                   [@ EXCEPT ![m.slot] = [value |-> p.value, accepts |-> acks]]]
              /\ UNCHANGED <<durable, role, ballot, fromSlot, promises, nextSlot,
                             firstOwnSlot, queue, readSeq, reads, ready, msgs,
                             history>>

\* Tick of a leader that has not heard from a majority for too long.
LeaderTimeout(n) ==
  /\ May("timeout", n)
  /\ role[n] = Leader
  /\ StepDown(n)
  /\ UNCHANGED <<durable, ready, msgs, history>>

\* Tick of a leader: heartbeat carrying the highest pending read.
Heartbeat(n) ==
  /\ May("heartbeat", n)
  /\ role[n] = Leader
  /\ msgs' = msgs \cup
       {[type |-> "heartbeat", ballot |-> ballot[n], commitIndex |-> CommitIndex(n),
         readSeq |-> Highest({0} \cup {r.seq : r \in reads[n]})]}
  /\ UNCHANGED <<durable, volatile, ready, history>>

Ready(n) == role[n] = Leader /\ CommitIndex(n) >= firstOwnSlot[n]

ReadIndex(n) ==
  /\ May("read", n)
  /\ Ready(n)
  /\ readSeq[n] < MaxReads
  /\ readSeq' = [readSeq EXCEPT ![n] = @ + 1]
  /\ reads' = [reads EXCEPT ![n] = @ \cup
       {[seq |-> readSeq[n] + 1, index |-> CommitIndex(n), acks |-> {n},
         observed |-> Highest({CommitIndex(p) : p \in Node})]}]
  /\ msgs' = msgs \cup
       {[type |-> "heartbeat", ballot |-> ballot[n], commitIndex |-> CommitIndex(n),
         readSeq |-> readSeq[n] + 1]}
  /\ UNCHANGED <<durable, role, ballot, fromSlot, promises, proposals, nextSlot,
                 firstOwnSlot, queue, ready, history>>

\* A reply shows a promise above the node's own ballot: remember its round
\* and step down.
Overtaken(n, b) ==
  /\ Less(ballot[n], b)
  /\ maxRound' = [maxRound EXCEPT ![n] = Higher(@, b.round)]
  /\ StepDown(n)
  /\ UNCHANGED <<promised, accepted, chosen, ready, msgs, history>>

OnNack(n, m) ==
  /\ m.type = "nack"
  /\ role[n] # Follower
  /\ m.ballot = ballot[n]
  /\ Overtaken(n, m.promised)

\* An acknowledgement counts for every pending read it covers, if the
\* acceptor still holds the leader's ballot as its promise.
AckReads(n, m) ==
  LET covered == {r \in reads[n] : r.seq <= m.readSeq}
      acked == {[r EXCEPT !.acks = @ \cup {m.from}] : r \in covered}
      done == {r \in acked : IsQuorum(r.acks)}
  IN  /\ reads' = [reads EXCEPT ![n] = (@ \ covered) \cup (acked \ done)]
      /\ ready' = ready \cup
           {[index |-> r.index, observed |-> r.observed] : r \in done}

OnHeartbeatAck(n, m) ==
  /\ m.type = "heartbeatAck"
  /\ m.ballot.node = n
  /\ role[n] # Follower
  /\ \/ Overtaken(n, m.promised)
     \/ /\ role[n] = Leader
        /\ m.ballot = ballot[n]
        /\ m.promised = ballot[n]
        /\ AckReads(n, m)
        /\ UNCHANGED <<durable, role, ballot, fromSlot, promises, proposals,
                       nextSlot, firstOwnSlot, queue, readSeq, msgs, history>>

-----------------------------------------------------------------------------
(* Crash and restart. A node that is down takes no step, so the crash and  *)
(* the rebuild by New are one action. A store error stops the node in the  *)
(* middle of a handler: what was saved before it stays, nothing is sent,   *)
(* and the host rebuilds the node from the store. A crash between two      *)
(* saves leaves the same state.                                            *)

Reset(n) ==
  /\ role' = [role EXCEPT ![n] = Follower]
  /\ ballot' = [ballot EXCEPT ![n] = ZeroBallot]
  /\ fromSlot' = [fromSlot EXCEPT ![n] = 0]
  /\ promises' = [promises EXCEPT ![n] = {}]
  /\ proposals' = [proposals EXCEPT ![n] = [s \in Slots |-> Idle]]
  /\ nextSlot' = [nextSlot EXCEPT ![n] = 0]
  /\ firstOwnSlot' = [firstOwnSlot EXCEPT ![n] = 0]
  /\ queue' = [queue EXCEPT ![n] = <<>>]
  /\ readSeq' = [readSeq EXCEPT ![n] = 0]
  /\ reads' = [reads EXCEPT ![n] = {}]
  /\ UNCHANGED <<ready, msgs>>

\* Plausible slip in New: the chosen entries are not loaded.
Restart_ForgetChosen(n) ==
  /\ May("restart", n)
  /\ Reset(n)
  /\ chosen' = [chosen EXCEPT ![n] = [s \in Slots |-> NoEntry]]
  /\ UNCHANGED <<promised, maxRound, accepted, history>>

Restart(n) ==
  /\ May("restart", n)
  /\ Reset(n)
  /\ maxRound' = [maxRound EXCEPT ![n] = Higher(@, promised[n].round)]
  /\ UNCHANGED <<promised, accepted, chosen, history>>

\* startElection saved the new round, its promise was not saved.
FailElection(n) ==
  /\ May("store", n)
  /\ role[n] = Follower
  /\ [round |-> maxRound[n] + 1, node |-> n] \in Elections
  /\ Reset(n)
  /\ maxRound' = [maxRound EXCEPT ![n] = @ + 1]
  /\ UNCHANGED <<promised, accepted, chosen, history>>

\* setPromised saved the round, the promise was not saved.
FailPromise(n, m) ==
  /\ May("store", n)
  /\ m.type \in {"prepare", "accept", "heartbeat"}
  /\ m.ballot.node # n
  /\ Less(promised[n], m.ballot)
  /\ m.ballot.round > maxRound[n]
  /\ Reset(n)
  /\ maxRound' = [maxRound EXCEPT ![n] = m.ballot.round]
  /\ UNCHANGED <<promised, accepted, chosen, history>>

\* onAccept saved the promise, the pvalue was not saved.
FailAccept(n, m) ==
  /\ May("store", n)
  /\ m.type = "accept"
  /\ m.ballot.node # n
  /\ Less(promised[n], m.ballot)
  /\ Reset(n)
  /\ promised' = [promised EXCEPT ![n] = m.ballot]
  /\ maxRound' = [maxRound EXCEPT ![n] = Higher(@, m.ballot.round)]
  /\ UNCHANGED <<accepted, chosen, history>>

\* becomeLeader accepted its own proposals up to slot k, and no further.
FailTakeover(n, m) ==
  /\ May("store", n)
  /\ m.type = "promise"
  /\ role[n] = Candidate
  /\ m.ballot = ballot[n]
  /\ LET got == Collected(n, m)
     IN  /\ IsQuorum({p.from : p \in got})
         /\ \E top \in Taken(n, got) :
              /\ \A s \in Taken(n, got) : s <= top
              /\ LET f == Takeover(n, got, top)
                 IN  \E k \in DOMAIN f :
                       Record(n, [s \in {t \in DOMAIN f : t <= k} |-> f[s]])
  /\ Reset(n)
  /\ UNCHANGED <<promised, maxRound, chosen>>

\* learn saved the chosen entry of a slot and accepted k of the values it
\* drained from the queue; nothing was sent.
FailLearn(n, s, b, v) ==
  /\ May("store", n)
  /\ SetChosen(n, s, b, v)
  /\ \E k \in 0..DrainCount(n, s) : Record(n, Drained(n, k))
  /\ Reset(n)
  /\ UNCHANGED <<promised, maxRound>>

FailOnLearn(n, m) ==
  /\ m.type = "learn"
  /\ m.to = n
  /\ ~ Known(n, m.slot)
  /\ FailLearn(n, m.slot, m.ballot, m.value)

FailOnAccepted(n, m) ==
  /\ m.type = "accepted"
  /\ m.ballot.node = n
  /\ Counts(n, m)
  /\ IsQuorum(proposals[n][m.slot].accepts \cup {m.from})
  /\ FailLearn(n, m.slot, ballot[n], proposals[n][m.slot].value)

-----------------------------------------------------------------------------
\* Step: one inbound message.
Step(n, m) ==
  \/ OnPrepare(n, m)
  \/ OnPromise(n, m)
  \/ OnAccept(n, m)
  \/ OnAccepted(n, m)
  \/ OnNack(n, m)
  \/ OnLearn(n, m)
  \/ OnLearnRequest(n, m)
  \/ OnHeartbeat(n, m)
  \/ OnHeartbeatAck(n, m)

\* Tick: one timer.
Tick(n) ==
  \/ StartElection(n)
  \/ CandidateTimeout(n)
  \/ LeaderTimeout(n)
  \/ Heartbeat(n)

StoreFailure(n) ==
  \/ FailElection(n)
  \/ \E m \in msgs : \/ FailPromise(n, m)
                     \/ FailAccept(n, m)
                     \/ FailTakeover(n, m)
                     \/ FailOnLearn(n, m)
                     \/ FailOnAccepted(n, m)

Next ==
  \E n \in Node :
    \/ \E m \in msgs : Step(n, m)
    \/ Tick(n)
    \/ \E v \in Value : Propose(n, v)
    \/ ReadIndex(n)
    \/ Restart(n)
    \/ StoreFailure(n)

Spec == Init /\ [][Next]_vars

-----------------------------------------------------------------------------
(* Safety *)

\* S1 at the source: whatever the interleaving of leaders, crashes and
\* duplicated messages, no slot is ever accepted by two majorities with
\* different values (onAccept, becomeLeader, Choose).
Agreement ==
  \A v, w \in votes :
    /\ v.slot = w.slot
    /\ Decided(v.slot, v.ballot, v.value)
    /\ Decided(w.slot, w.ballot, w.value)
    => v.value = w.value

\* Every entry a node holds as chosen, and every Learn in the network, names a
\* ballot at which a majority accepted exactly that value: neither the stale
\* counting of Accepted (onAccepted) nor a catch-up reply (onLearnRequest)
\* announces a value that is not decided.
ChosenIsDecided ==
  /\ \A n \in Node, s \in Slots :
       Known(n, s) => Decided(s, chosen[n][s].ballot, chosen[n][s].value)
  /\ \A m \in msgs : m.type = "learn" => Decided(m.slot, m.ballot, m.value)

\* S4: a ballot is used for one value per slot, across elections, restarts and
\* failed saves (startElection persists the round before it uses it).
OneValuePerBallot ==
  \A p, q \in proposed : p.ballot = q.ballot /\ p.slot = q.slot => p = q

\* A candidate or leader holds its own ballot as its promise, so the Accept,
\* Prepare and Heartbeat it handles inline are never refused; setPromised
\* steps it down as soon as it promises another ballot.
RoleHoldsPromise ==
  \A n \in Node : role[n] # Follower =>
    promised[n] = ballot[n] /\ ballot[n].node = n

\* S7 as ADR 0007 states it: a read barrier that completes returns an index
\* that covers every commit index any replica had reached when ReadIndex was
\* called, even when another leader was elected in between.
ReadsAreFresh == \A r \in ready : r.observed <= r.index

\* A value waits in the leader's queue only while the window is full: learn
\* refills the window whichever message frees a slot, so a queued value is
\* never left behind with nothing in flight to trigger it.
QueueOnlyWhenFull ==
  \A n \in Node : queue[n] # <<>> =>
    role[n] = Leader /\ Cardinality(InFlight(n)) >= Window

\* S3: no step lowers a promise, and no acceptor accepts below the promise it
\* held before the step; a restart and a failed save included.
PromiseHolds ==
  [][ /\ \A n \in Node : ~ Less(promised'[n], promised[n])
      /\ \A v \in votes' \ votes : ~ Less(v.ballot, promised[v.node]) ]_vars

\* S5 and the learner's part of S1: a node never forgets a chosen slot, not by
\* a restart, and never changes its value.  learn writes the entry without
\* looking at what is there: it relies on agreement, on the proposal for the
\* slot having been dropped, and on a new leader passing over known slots.
ChosenIsStable ==
  [][ \A n \in Node, s \in Slots : Known(n, s) =>
        Known(n, s)' /\ chosen'[n][s].value = chosen[n][s].value ]_vars

-----------------------------------------------------------------------------
(* The log as the layers above see it. *)

DecidedLog ==
  [s \in Slots |-> {v.value : v \in {w \in votes :
                        w.slot = s /\ Decided(s, w.ballot, w.value)}}]

KnownSlots == [n \in Node |-> {s \in Slots : Known(n, s)}]

Log == INSTANCE AgreedLog WITH
  log <- DecidedLog, known <- KnownSlots

\* The protocol implements the agreed log: each step of the nodes decides one
\* open slot, or teaches one node one decided slot, or is invisible.
ImplementsAgreedLog == Log!Spec
=============================================================================

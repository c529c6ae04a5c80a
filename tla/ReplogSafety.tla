----------------------------- MODULE ReplogSafety -----------------------------
(***************************************************************************)
(* Theorems about Replog for every set of nodes, ballots, slots, values    *)
(* and bounds.  First types, roles and agreement: no slot is ever decided  *)
(* twice, with lost, late and duplicated messages, restarts and store      *)
(* errors.  Then what the nodes promise the host that runs them: together  *)
(* they implement the agreed log, a read barrier that completes is fresh,  *)
(* and a value waits only while the window is full.                        *)
(***************************************************************************)
EXTENDS Replog, BallotProofs

-----------------------------------------------------------------------------
(* The ballots of an election. *)

LEMMA BallotsAreRecords ==
  /\ Elections \subseteq BallotRec
  /\ ZeroBallot \in BallotRec
  /\ BallotSet \subseteq BallotRec
  /\ ZeroBallot \notin Elections
  /\ \A b \in Elections : Less(ZeroBallot, b) /\ b.node \in Node
<1>1. \A b \in Elections : b \in [round : Nat \ {0}, node : Node]
  BY ElectionsAssumption DEF ElectionsAssumption
<1>2. Node \subseteq Nat \ {0}
  BY NodeAssumption DEF NodeAssumption
<1>3. ZeroBallot \in BallotRec
  BY DEF BallotRec, ZeroBallot
<1>4. ASSUME NEW b \in Elections
      PROVE  b \in BallotRec /\ b.round > 0 /\ b.node \in Node
  <2>1. b \in [round : Nat \ {0}, node : Node]
    BY <1>1
  <2>2. b.round \in Nat /\ b.round # 0 /\ b.node \in Node
    BY <2>1
  <2>3. b = [round |-> b.round, node |-> b.node]
    BY <2>1
  <2>4. b.node \in Nat
    BY <1>2, <2>2
  <2>5. b \in BallotRec
    BY <2>2, <2>3, <2>4 DEF BallotRec
  <2> QED
    BY <2>2, <2>5
<1>5. ZeroBallot.round = 0 /\ ZeroBallot.node = 0
  BY DEF ZeroBallot
<1>6. ASSUME NEW b \in Elections
      PROVE  b # ZeroBallot /\ Less(ZeroBallot, b)
  <2>1. b.round > 0 /\ b.round \in Nat
    BY <1>4 DEF BallotRec
  <2>2. Less(ZeroBallot, b)
    BY <1>5, <2>1 DEF Less
  <2> QED
    BY <1>5, <2>1, <2>2
<1> QED
  BY <1>3, <1>4, <1>6 DEF BallotSet

-----------------------------------------------------------------------------
(* Helpers. *)

LEMMA HighestOfRange ==
  ASSUME NEW K \in Nat, NEW S \in SUBSET (0..K), S # {}
  PROVE  Highest(S) \in S /\ Highest(S) \in 0..K
<1>1. \E x \in S : \A y \in S : y <= x
  BY LargestNumber
<1> QED
  BY <1>1 DEF Highest

\* What Choose returns for the reports of a slot.
LEMMA ChooseReport ==
  ASSUME NEW R \in SUBSET PValues, NEW fallback
  PROVE  /\ R = {} => Choose(R, fallback) = fallback
         /\ R # {} => \E r \in R : /\ Choose(R, fallback) = r.value
                                  /\ \A q \in R : ~ Less(r.ballot, q.ballot)
<1>1. \A r \in R : r.ballot \in Elections
  BY DEF PValues
<1>2. IsFiniteSet(Elections) /\ Elections \subseteq BallotRec /\ ZeroBallot \notin Elections
  BY ElectionsAssumption, BallotsAreRecords DEF ElectionsAssumption
<1>3. \A r \in R : r.ballot \in Elections \cup {ZeroBallot} /\ r.ballot # ZeroBallot
  BY <1>1, <1>2
<1> QED
  BY <1>1, <1>2, <1>3, ChooseTakesHighest

-----------------------------------------------------------------------------
(* Type correctness. *)

LEMMA MessageTypes ==
  ASSUME NEW m \in Message
  PROVE  /\ m.type = "prepare" => m \in PrepareMsg
         /\ m.type = "promise" => m \in PromiseMsg
         /\ m.type = "accept" => m \in AcceptMsg
         /\ m.type = "accepted" => m \in AcceptedMsg
         /\ m.type = "nack" => m \in NackMsg
         /\ m.type = "learn" => m \in LearnMsg
         /\ m.type = "learnRequest" => m \in LearnRequestMsg
         /\ m.type = "heartbeat" => m \in HeartbeatMsg
         /\ m.type = "heartbeatAck" => m \in HeartbeatAckMsg
BY DEF Message, PrepareMsg, PromiseMsg, AcceptMsg, AcceptedMsg, NackMsg, LearnMsg,
       LearnRequestMsg, HeartbeatMsg, HeartbeatAckMsg

LEMMA CommitIndexType ==
  ASSUME NEW n \in Node
  PROVE  CommitIndex(n) \in 0..MaxSlot
<1> DEFINE P == {c \in Slots : \A s \in 1..c : Known(n, s)}
<1>1. MaxSlot \in Nat
  BY BoundAssumption DEF BoundAssumption
<1>2. IsFiniteSet(Slots) /\ Cardinality(Slots) = MaxSlot
  <2>1. Cardinality(1..MaxSlot) = IF 1 > MaxSlot THEN 0 ELSE MaxSlot - 1 + 1
    BY <1>1, FS_Interval
  <2>2. IsFiniteSet(1..MaxSlot)
    BY <1>1, FS_Interval
  <2> QED
    BY <1>1, <2>1, <2>2 DEF Slots
<1>3. P \in SUBSET Slots
  OBVIOUS
<1>4. CommitIndex(n) = Cardinality(P)
  BY DEF CommitIndex
<1> HIDE DEF P
<1>5. IsFiniteSet(P) /\ Cardinality(P) <= MaxSlot
  BY <1>2, <1>3, FS_Subset
<1> QED
  BY <1>1, <1>4, <1>5, FS_CardinalityType

LEMMA PromiseType ==
  ASSUME TypeOK, NEW n \in Node, NEW b \in Elections, NEW from \in 1..MaxSlot + 1
  PROVE  Promise(n, b, from) \in PromiseMsg
<1>1. ASSUME NEW s \in Slots, accepted[n][s].ballot # ZeroBallot
      PROVE  [slot |-> s, ballot |-> accepted[n][s].ballot,
              value |-> accepted[n][s].value] \in PValues
  <2>1. accepted[n][s] \in Entries
    BY DEF TypeOK, DurableTypeOK
  <2>2. accepted[n][s].ballot \in Elections /\ accepted[n][s].value \in Values
    BY <1>1, <2>1 DEF Entries, BallotSet
  <2> QED
    BY <2>2 DEF PValues
<1>2. AcceptedFrom(n, from) \in SUBSET PValues
  BY <1>1 DEF AcceptedFrom
<1> QED
  BY <1>2 DEF Promise, PromiseMsg

\* A node that is not a follower runs at a ballot of its own that it has
\* promised, every node has saved at least the round of its promise, and a
\* leader knows its next slot. Type correctness needs this: a proposal carries
\* the node's ballot and slot.
RoleInv ==
  /\ \A n \in Node : role[n] # Follower =>
       ballot[n] \in Elections /\ promised[n] = ballot[n] /\ ballot[n].node = n
  /\ \A n \in Node : promised[n].round <= maxRound[n]
  /\ \A n \in Node : role[n] = Leader => nextSlot[n] # 0

TInv == TypeOK /\ RoleInv

LEMMA Constants ==
  /\ Slots \subseteq Nat
  /\ MaxSlot \in Nat /\ MaxReads \in Nat /\ LearnBatch \in Nat
  /\ NoOp \in Values /\ Value \subseteq Values
  /\ NoEntry \in Entries
  /\ Idle \in [value : Values, accepts : SUBSET Node]
<1>1. MaxSlot \in Nat /\ MaxReads \in Nat /\ LearnBatch \in Nat
  BY BoundAssumption DEF BoundAssumption
<1>2. Slots \subseteq Nat
  BY <1>1 DEF Slots
<1>3. NoOp \in Values /\ Value \subseteq Values
  BY DEF Values
<1>4. NoEntry \in Entries
  BY <1>3 DEF NoEntry, Entries, BallotSet
<1>5. Idle \in [value : Values, accepts : SUBSET Node]
  BY <1>3 DEF Idle
<1> QED
  BY <1>1, <1>2, <1>3, <1>4, <1>5

LEMMA RoleNames ==
  Follower # Candidate /\ Follower # Leader /\ Candidate # Leader
BY DEF Follower, Candidate, Leader

LEMMA HigherType ==
  ASSUME NEW a \in Nat, NEW b \in Nat
  PROVE  Higher(a, b) \in Nat /\ a <= Higher(a, b) /\ b <= Higher(a, b)
BY DEF Higher

LEMMA TypeInit == Init => TInv
<1> SUFFICES ASSUME Init PROVE TInv
  OBVIOUS
<1> USE DEF Init
<1>1. ZeroBallot \in BallotSet /\ ZeroBallot.round = 0
  BY DEF BallotSet, ZeroBallot
<1>2. DurableTypeOK
  BY <1>1, Constants DEF DurableTypeOK
<1>3. VolatileTypeOK
  BY <1>1, Constants DEF VolatileTypeOK, Follower
<1>4. ready = {} /\ msgs = {} /\ proposed = {} /\ votes = {}
  OBVIOUS
<1>5. TypeOK
  BY <1>2, <1>3, <1>4 DEF TypeOK
<1>6. RoleInv
  BY <1>1, RoleNames DEF RoleInv
<1> QED
  BY <1>5, <1>6 DEF TInv

\* stepDown, and the other resets of the volatile state.
LEMMA StepDownType ==
  ASSUME TInv, NEW n \in Node, StepDown(n)
  PROVE  /\ VolatileTypeOK'
         /\ role' = [role EXCEPT ![n] = Follower]
         /\ UNCHANGED <<ballot, nextSlot>>
<1>1. VolatileTypeOK
  BY DEF TInv, TypeOK
<1> QED
  BY <1>1, Constants DEF StepDown, VolatileTypeOK, Follower

LEMMA ResetType ==
  ASSUME TInv, NEW n \in Node, Reset(n)
  PROVE  /\ VolatileTypeOK'
         /\ role' = [role EXCEPT ![n] = Follower]
         /\ ballot' = [ballot EXCEPT ![n] = ZeroBallot]
         /\ UNCHANGED <<ready, msgs>>
<1>1. VolatileTypeOK
  BY DEF TInv, TypeOK
<1>2. ZeroBallot \in BallotSet
  BY DEF BallotSet
<1> QED
  BY <1>1, <1>2, Constants DEF Reset, VolatileTypeOK, Follower

\* setPromised keeps the types, steps a rival of the new promise down and
\* saves the round.
LEMMA RaisePromiseType ==
  ASSUME TInv, NEW n \in Node, NEW b \in Elections, RaisePromise(n, b)
  PROVE  /\ VolatileTypeOK' /\ RoleInv'
         /\ promised' \in [Node -> BallotSet]
         /\ maxRound' \in [Node -> Nat]
         /\ \A p \in Node : p # n => promised'[p] = promised[p]
         /\ ~ Less(promised'[n], promised[n])
         /\ ~ Less(promised'[n], b)
<1>1. /\ VolatileTypeOK /\ RoleInv
      /\ promised \in [Node -> BallotSet] /\ maxRound \in [Node -> Nat]
  BY DEF TInv, TypeOK, DurableTypeOK
<1>2. b \in BallotSet /\ b \in BallotRec /\ promised[n] \in BallotRec /\ b.round \in Nat
  BY <1>1, BallotsAreRecords DEF BallotSet, BallotRec
<1>3. CASE Less(promised[n], b)
  <2>1. SetPromised(n, b)
    BY <1>3 DEF RaisePromise
  <2>2. /\ promised' = [promised EXCEPT ![n] = b]
        /\ maxRound' = [maxRound EXCEPT ![n] = Higher(@, b.round)]
    BY <2>1 DEF SetPromised
  <2>3. Higher(maxRound[n], b.round) \in Nat /\ b.round <= Higher(maxRound[n], b.round)
    BY <1>1, <1>2, HigherType
  <2>4. promised' \in [Node -> BallotSet] /\ maxRound' \in [Node -> Nat]
    BY <1>1, <1>2, <2>2, <2>3
  <2>5. \A p \in Node : p # n => promised'[p] = promised[p]
    BY <1>1, <2>2
  <2>6. promised'[n] = b /\ ~ Less(b, promised[n]) /\ ~ Less(b, b)
    BY <1>1, <1>2, <1>3, <2>2, LessOrder
  <2>7. VolatileTypeOK' /\ role' \in [Node -> {Follower, Candidate, Leader}]
        /\ ballot' = ballot /\ nextSlot' = nextSlot
        /\ \A p \in Node : role'[p] # Follower => role'[p] = role[p] /\ p # n
    <3>1. CASE role[n] # Follower /\ Less(ballot[n], b)
      <4>1. StepDown(n)
        BY <2>1, <3>1 DEF SetPromised
      <4> QED
        BY <1>1, <4>1, StepDownType DEF VolatileTypeOK
    <3>2. CASE ~ (role[n] # Follower /\ Less(ballot[n], b))
      <4>1. UNCHANGED volatile
        BY <2>1, <3>2 DEF SetPromised
      <4>2. role[n] = Follower
        BY <1>1, <1>3, <3>2 DEF RoleInv
      <4> QED
        BY <1>1, <4>1, <4>2 DEF volatile, VolatileTypeOK
    <3> QED
      BY <3>1, <3>2
  <2>8. \A p \in Node : promised'[p].round <= maxRound'[p]
    BY <1>1, <2>2, <2>3 DEF RoleInv
  <2>9. RoleInv'
    BY <1>1, <2>5, <2>7, <2>8, RoleNames DEF RoleInv
  <2> QED
    BY <2>4, <2>5, <2>6, <2>7, <2>9
<1>4. CASE ~ Less(promised[n], b)
  <2>1. UNCHANGED <<promised, maxRound, volatile>>
    BY <1>4 DEF RaisePromise
  <2>2. VolatileTypeOK' /\ RoleInv'
    BY <1>1, <2>1 DEF volatile, VolatileTypeOK, RoleInv
  <2> QED
    BY <1>1, <1>2, <1>4, <2>1, <2>2, LessOrder
<1> QED
  BY <1>3, <1>4

\* A function from slots to values, as the handlers propose it.
Batch(f) == DOMAIN f \subseteq Slots /\ \A s \in DOMAIN f : f[s] \in Values

LEMMA AcceptAtType ==
  ASSUME TInv, NEW n \in Node, NEW b, NEW f, Batch(f), AcceptAt(n, b, f),
         DOMAIN f # {} => b \in Elections
  PROVE  /\ accepted' \in [Node -> [Slots -> Entries]]
         /\ votes' \subseteq Votes
<1>1. accepted \in [Node -> [Slots -> Entries]] /\ votes \subseteq Votes
  BY DEF TInv, TypeOK, DurableTypeOK
<1>2. ASSUME NEW s \in Slots
      PROVE  (IF s \in DOMAIN f THEN [ballot |-> b, value |-> f[s]]
              ELSE accepted[n][s]) \in Entries
  <2>1. CASE s \in DOMAIN f
    <3>1. b \in BallotSet /\ f[s] \in Values
      BY <2>1 DEF Batch, BallotSet
    <3> QED
      BY <2>1, <3>1 DEF Entries
  <2>2. CASE s \notin DOMAIN f
    BY <1>1, <2>2
  <2> QED
    BY <2>1, <2>2
<1>3. accepted' \in [Node -> [Slots -> Entries]]
  <2> DEFINE g == [s \in Slots |-> IF s \in DOMAIN f
                                   THEN [ballot |-> b, value |-> f[s]]
                                   ELSE accepted[n][s]]
  <2>1. g \in [Slots -> Entries]
    BY <1>2
  <2>2. accepted' = [accepted EXCEPT ![n] = g]
    BY DEF AcceptAt
  <2> HIDE DEF g
  <2> QED
    BY <1>1, <2>1, <2>2
<1>4. ASSUME NEW s \in DOMAIN f
      PROVE  [node |-> n, slot |-> s, ballot |-> b, value |-> f[s]] \in Votes
  BY DEF Batch, Votes
<1>5. votes' \subseteq Votes
  BY <1>1, <1>4 DEF AcceptAt
<1> QED
  BY <1>3, <1>5

LEMMA RecordType ==
  ASSUME TInv, NEW n \in Node, NEW f, Batch(f), Record(n, f),
         DOMAIN f # {} => role[n] # Follower
  PROVE  /\ accepted' \in [Node -> [Slots -> Entries]]
         /\ votes' \subseteq Votes
         /\ proposed' \subseteq PValues
<1>1. DOMAIN f # {} => ballot[n] \in Elections
  BY DEF TInv, RoleInv
<1>2. proposed \subseteq PValues
  BY DEF TInv, TypeOK
<1>3. ASSUME NEW s \in DOMAIN f
      PROVE  [slot |-> s, ballot |-> ballot[n], value |-> f[s]] \in PValues
  BY <1>1 DEF Batch, PValues
<1>4. AcceptAt(n, ballot[n], f) /\ proposed' \subseteq PValues
  BY <1>2, <1>3 DEF Record
<1> QED
  BY <1>1, <1>4, AcceptAtType

LEMMA AcceptsType ==
  ASSUME TInv, NEW n \in Node, NEW f, Batch(f), DOMAIN f # {} => role[n] # Follower
  PROVE  Accepts(n, f) \subseteq Message
<1>1. DOMAIN f # {} => ballot[n] \in Elections
  BY DEF TInv, RoleInv
<1>2. Accepts(n, f) \subseteq AcceptMsg
  BY <1>1 DEF Accepts, AcceptMsg, Batch
<1> QED
  BY <1>2 DEF Message

\* The values a leader has started are of its slots.
LEMMA StartedType ==
  ASSUME TInv, NEW n \in Node, NEW f, Batch(f)
  PROVE  Started(n, f) \in [Slots -> [value : Values, accepts : SUBSET Node]]
<1>1. proposals[n] \in [Slots -> [value : Values, accepts : SUBSET Node]]
  BY DEF TInv, TypeOK, VolatileTypeOK
<1>2. ASSUME NEW s \in DOMAIN f
      PROVE  [value |-> f[s], accepts |-> {n}] \in [value : Values, accepts : SUBSET Node]
  BY DEF Batch
<1> QED
  BY <1>1, <1>2 DEF Started

LEMMA InFlightFinite ==
  ASSUME NEW n, NEW s
  PROVE  Cardinality(InFlight(n) \ {s}) \in Nat
<1>1. IsFiniteSet(Slots)
  BY Constants, FS_Interval DEF Slots
<1>2. InFlight(n) \ {s} \in SUBSET Slots
  BY DEF InFlight
<1> QED
  BY <1>1, <1>2, FS_Subset, FS_CardinalityType

LEMMA DrainCountType ==
  ASSUME TInv, NEW n \in Node, NEW s \in Slots
  PROVE  /\ DrainCount(n, s) \in 0..Len(queue[n])
         /\ DrainCount(n, s) # 0 => role[n] = Leader
<1>1. queue[n] \in Seq(Value)
  BY DEF TInv, TypeOK, VolatileTypeOK
<1>2. Len(queue[n]) \in Nat
  BY <1>1
<1>3. Window \in Nat
  BY BoundAssumption DEF BoundAssumption
<1>4. Cardinality(InFlight(n) \ {s}) \in Nat
  BY InFlightFinite
<1> DEFINE c == Cardinality(InFlight(n) \ {s})
           len == Len(queue[n])
<1>5. DrainCount(n, s) = IF role[n] # Leader \/ Window - c < 0 THEN 0
                         ELSE IF Window - c < len THEN Window - c ELSE len
  BY DEF DrainCount
<1> HIDE DEF c, len
<1>6. c \in Nat /\ len \in Nat
  BY <1>2, <1>4 DEF c, len
<1>7. DrainCount(n, s) \in 0..len /\ (DrainCount(n, s) # 0 => role[n] = Leader)
  BY <1>3, <1>5, <1>6
<1> QED
  BY <1>7 DEF len

LEMMA DrainedType ==
  ASSUME TInv, NEW n \in Node, NEW s \in Slots, NEW k \in 0..DrainCount(n, s)
  PROVE  /\ Batch(Drained(n, k))
         /\ DOMAIN Drained(n, k) # {} => role[n] = Leader
<1>1. queue[n] \in Seq(Value) /\ nextSlot[n] \in Nat
  BY DEF TInv, TypeOK, VolatileTypeOK
<1>2. k \in Nat /\ k <= Len(queue[n]) /\ Len(queue[n]) \in Nat
      /\ (k # 0 => role[n] = Leader)
  BY <1>1, DrainCountType
<1> DEFINE D == {u \in Slots : nextSlot[n] <= u /\ u < nextSlot[n] + k}
<1>3. DOMAIN Drained(n, k) = D /\ \A t \in D : Drained(n, k)[t] = queue[n][t - nextSlot[n] + 1]
  BY DEF Drained
<1>4. ASSUME NEW t \in D PROVE queue[n][t - nextSlot[n] + 1] \in Values
  <2>1. t - nextSlot[n] + 1 \in 1..Len(queue[n])
    BY <1>1, <1>2, Constants
  <2>2. queue[n][t - nextSlot[n] + 1] \in Value
    BY <1>1, <2>1
  <2> QED
    BY <2>2, Constants
<1>5. D # {} => k # 0
  <2>1. ASSUME NEW t \in D, k = 0 PROVE FALSE
    <3>1. t \in Nat /\ nextSlot[n] <= t /\ t < nextSlot[n] + 0
      BY <2>1, Constants
    <3> QED
      BY <1>1, <3>1
  <2> QED
    BY <2>1
<1> QED
  BY <1>2, <1>3, <1>4, <1>5 DEF Batch

\* learn keeps the types: its caller shows those of the entry and of what it
\* sends.
LEMMA LearnType ==
  ASSUME TInv, NEW n \in Node, NEW s \in Slots, NEW b \in Elections, NEW v \in Values,
         NEW sends \in SUBSET Message, Learn(n, s, b, v, sends)
  PROVE  TInv'
<1> DEFINE k == DrainCount(n, s)
           f == Drained(n, k)
<1>1. k \in 0..k /\ k \in 0..Len(queue[n]) /\ k \in Nat
  BY DrainCountType
<1>2. Batch(f) /\ (DOMAIN f # {} => role[n] # Follower)
  <2> HIDE DEF k
  <2>1. Batch(Drained(n, k)) /\ (DOMAIN Drained(n, k) # {} => role[n] = Leader)
    BY <1>1, DrainedType DEF k
  <2> QED
    BY <2>1 DEF Leader, Follower
<1>3. /\ SetChosen(n, s, b, v)
      /\ proposals' = [proposals EXCEPT ![n] =
           [t \in Slots |-> IF t = s /\ t \notin DOMAIN f
                            THEN Idle ELSE Started(n, f)[t]]]
      /\ queue' = [queue EXCEPT ![n] = SubSeq(queue[n], k + 1, Len(queue[n]))]
      /\ nextSlot' = [nextSlot EXCEPT ![n] = nextSlot[n] + k]
      /\ Record(n, f)
      /\ msgs' = msgs \cup Accepts(n, f) \cup sends
      /\ UNCHANGED <<promised, maxRound, role, ballot, fromSlot, promises,
                     firstOwnSlot, readSeq, reads, ready>>
  BY DEF Learn
<1> HIDE DEF k, f
<1>4. /\ DurableTypeOK /\ VolatileTypeOK /\ msgs \subseteq Message
      /\ ready \subseteq [index : 0..MaxSlot, observed : 0..MaxSlot]
      /\ RoleInv
  BY DEF TInv, TypeOK
<1>5. /\ accepted' \in [Node -> [Slots -> Entries]] /\ votes' \subseteq Votes
      /\ proposed' \subseteq PValues
  BY <1>2, <1>3, RecordType
<1>6. chosen' \in [Node -> [Slots -> Entries]]
  <2>1. [ballot |-> b, value |-> v] \in Entries
    BY DEF Entries, BallotSet
  <2>2. chosen[n] \in [Slots -> Entries] /\ chosen \in [Node -> [Slots -> Entries]]
    BY <1>4 DEF DurableTypeOK
  <2>3. [chosen[n] EXCEPT ![s] = [ballot |-> b, value |-> v]] \in [Slots -> Entries]
    BY <2>1, <2>2
  <2> QED
    BY <1>3, <2>2, <2>3 DEF SetChosen
<1>7. DurableTypeOK'
  BY <1>3, <1>4, <1>5, <1>6 DEF DurableTypeOK
<1>8. proposals' \in [Node -> [Slots -> [value : Values, accepts : SUBSET Node]]]
  <2>1. Started(n, f) \in [Slots -> [value : Values, accepts : SUBSET Node]]
    BY <1>2, StartedType
  <2>2. [t \in Slots |-> IF t = s /\ t \notin DOMAIN f THEN Idle ELSE Started(n, f)[t]]
          \in [Slots -> [value : Values, accepts : SUBSET Node]]
    BY <2>1, Constants
  <2> QED
    BY <1>3, <1>4, <2>2 DEF VolatileTypeOK
<1>9. queue' \in [Node -> Seq(Value)]
  <2>1. queue[n] \in Seq(Value) /\ Len(queue[n]) \in Nat
    BY <1>4 DEF VolatileTypeOK
  <2>2. SubSeq(queue[n], k + 1, Len(queue[n])) \in Seq(Value)
    BY <1>1, <2>1
  <2> QED
    BY <1>3, <1>4, <2>2 DEF VolatileTypeOK
<1>10. nextSlot' \in [Node -> Nat]
  BY <1>1, <1>3, <1>4 DEF VolatileTypeOK
<1>11. VolatileTypeOK'
  BY <1>3, <1>4, <1>8, <1>9, <1>10 DEF VolatileTypeOK
<1>12. msgs' \subseteq Message
  BY <1>2, <1>3, <1>4, AcceptsType
<1>13. RoleInv'
  <2>1. ASSUME NEW p \in Node, role[p] = Leader PROVE nextSlot'[p] # 0
    <3>1. nextSlot[p] \in Nat /\ nextSlot[p] # 0 /\ nextSlot[n] \in Nat
      BY <1>4, <2>1 DEF RoleInv, VolatileTypeOK
    <3> QED
      BY <1>1, <1>3, <1>4, <3>1 DEF VolatileTypeOK
  <2> QED
    BY <1>3, <1>4, <2>1 DEF RoleInv
<1> QED
  BY <1>3, <1>4, <1>5, <1>7, <1>11, <1>12, <1>13 DEF TInv, TypeOK

LEMMA OnPrepareType ==
  ASSUME TInv, NEW n \in Node, NEW m \in msgs, OnPrepare(n, m)
  PROVE  TInv'
<1>1. m \in PrepareMsg /\ m.ballot \in Elections /\ m.fromSlot \in 1..MaxSlot + 1
  BY MessageTypes DEF TInv, TypeOK, OnPrepare, PrepareMsg
<1>2. UNCHANGED <<accepted, chosen, ready, history>>
  BY DEF OnPrepare
<1>3. CASE m.ballot = promised[n] \/ MayPromise(promised[n], m.ballot)
  <2>1. RaisePromise(n, m.ballot) /\ msgs' = msgs \cup {Promise(n, m.ballot, m.fromSlot)}
    BY <1>3 DEF OnPrepare
  <2>2. Promise(n, m.ballot, m.fromSlot) \in Message
    BY <1>1, PromiseType DEF TInv, Message
  <2> QED
    BY <1>1, <1>2, <2>1, <2>2, RaisePromiseType
       DEF TInv, TypeOK, DurableTypeOK, history
<1>4. CASE ~ (m.ballot = promised[n] \/ MayPromise(promised[n], m.ballot))
  <2>1. /\ msgs' = msgs \cup {[type |-> "nack", ballot |-> m.ballot,
                               promised |-> promised[n]]}
        /\ UNCHANGED <<promised, maxRound, volatile>>
    BY <1>4 DEF OnPrepare
  <2>2. [type |-> "nack", ballot |-> m.ballot, promised |-> promised[n]] \in Message
    BY <1>1 DEF TInv, TypeOK, DurableTypeOK, NackMsg, Message
  <2> QED
    BY <1>2, <2>1, <2>2
       DEF TInv, TypeOK, DurableTypeOK, VolatileTypeOK, RoleInv, volatile, history
<1> QED
  BY <1>3, <1>4

LEMMA OnAcceptType ==
  ASSUME TInv, NEW n \in Node, NEW m \in msgs, OnAccept(n, m)
  PROVE  TInv'
<1>1. /\ m \in AcceptMsg /\ m.ballot \in Elections /\ m.slot \in Slots
      /\ m.value \in Values
  BY MessageTypes DEF TInv, TypeOK, OnAccept, AcceptMsg
<1>2. UNCHANGED <<chosen, ready, proposed>>
  BY DEF OnAccept
<1>3. CASE MayAccept(promised[n], m.ballot)
  <2> DEFINE f == [s \in {m.slot} |-> m.value]
  <2>1. /\ RaisePromise(n, m.ballot)
        /\ AcceptAt(n, m.ballot, f)
        /\ msgs' = msgs \cup {[type |-> "accepted", from |-> n,
                               ballot |-> m.ballot, slot |-> m.slot]}
    BY <1>3 DEF OnAccept
  <2>2. Batch(f)
    BY <1>1 DEF Batch
  <2>3. [type |-> "accepted", from |-> n, ballot |-> m.ballot, slot |-> m.slot] \in Message
    BY <1>1 DEF AcceptedMsg, Message
  <2> HIDE DEF f
  <2>4. accepted' \in [Node -> [Slots -> Entries]] /\ votes' \subseteq Votes
    BY <1>1, <2>1, <2>2, AcceptAtType
  <2> QED
    BY <1>1, <1>2, <2>1, <2>3, <2>4, RaisePromiseType DEF TInv, TypeOK, DurableTypeOK
<1>4. CASE ~ MayAccept(promised[n], m.ballot)
  <2>1. /\ msgs' = msgs \cup {[type |-> "nack", ballot |-> m.ballot,
                               promised |-> promised[n]]}
        /\ UNCHANGED <<promised, maxRound, accepted, votes, volatile>>
    BY <1>4 DEF OnAccept
  <2>2. [type |-> "nack", ballot |-> m.ballot, promised |-> promised[n]] \in Message
    BY <1>1 DEF TInv, TypeOK, DurableTypeOK, NackMsg, Message
  <2> QED
    BY <1>2, <2>1, <2>2
       DEF TInv, TypeOK, DurableTypeOK, VolatileTypeOK, RoleInv, volatile
<1> QED
  BY <1>3, <1>4

LEMMA OnHeartbeatType ==
  ASSUME TInv, NEW n \in Node, NEW m \in msgs, OnHeartbeat(n, m)
  PROVE  TInv'
<1>1. /\ m.ballot \in Elections /\ m.commitIndex \in 0..MaxSlot
      /\ m.readSeq \in 0..MaxReads
  BY MessageTypes DEF TInv, TypeOK, OnHeartbeat, HeartbeatMsg
<1>2. UNCHANGED <<accepted, chosen, ready, history>> /\ RaisePromise(n, m.ballot)
  BY DEF OnHeartbeat
<1>3. /\ VolatileTypeOK' /\ RoleInv'
      /\ promised' \in [Node -> BallotSet]
      /\ maxRound' \in [Node -> Nat]
  BY <1>1, <1>2, RaisePromiseType
<1> DEFINE request == [type |-> "learnRequest", from |-> n, to |-> m.ballot.node,
                       fromSlot |-> CommitIndex(n) + 1]
<1>4. HeartbeatAck(n, m) \in Message
  <2>1. HeartbeatAck(n, m) \in HeartbeatAckMsg
    BY <1>1, <1>3 DEF HeartbeatAck, HeartbeatAckMsg
  <2> QED
    BY <2>1 DEF Message
<1>5. request \in Message
  <2>1. CommitIndex(n) + 1 \in 1..MaxSlot + 1
    BY CommitIndexType, Constants
  <2>2. m.ballot.node \in Node
    BY <1>1, BallotsAreRecords
  <2>3. request \in LearnRequestMsg
    BY <2>1, <2>2 DEF LearnRequestMsg
  <2> QED
    BY <2>3 DEF Message
<1>6. msgs' \subseteq msgs \cup {HeartbeatAck(n, m), request}
  BY DEF OnHeartbeat
<1> HIDE DEF request
<1>7. msgs' \subseteq Message
  BY <1>4, <1>5, <1>6 DEF TInv, TypeOK
<1> QED
  BY <1>2, <1>3, <1>7 DEF TInv, TypeOK, DurableTypeOK, history

LEMMA OnLearnType ==
  ASSUME TInv, NEW n \in Node, NEW m \in msgs, OnLearn(n, m)
  PROVE  TInv'
<1>1. m.slot \in Slots /\ m.ballot \in Elections /\ m.value \in Values
  BY MessageTypes DEF TInv, TypeOK, OnLearn, LearnMsg
<1>2. Learn(n, m.slot, m.ballot, m.value, {})
  BY DEF OnLearn
<1> QED
  BY <1>1, <1>2, LearnType

LEMMA OnLearnRequestType ==
  ASSUME TInv, NEW n \in Node, NEW m \in msgs, OnLearnRequest(n, m)
  PROVE  TInv'
<1>1. m.from \in Node
  BY MessageTypes DEF TInv, TypeOK, OnLearnRequest, LearnRequestMsg
<1> DEFINE S == {s \in Slots : /\ s >= m.fromSlot
                               /\ s < m.fromSlot + LearnBatch
                               /\ Known(n, s)}
<1>2. msgs' = msgs \cup Learns(n, S, {m.from}) /\ UNCHANGED <<durable, volatile, ready, history>>
  BY DEF OnLearnRequest
<1>3. Learns(n, S, {m.from}) \subseteq Message
  <2>1. ASSUME NEW s \in S
        PROVE  chosen[n][s].ballot \in Elections /\ chosen[n][s].value \in Values /\ s \in Slots
    <3>1. chosen[n][s] \in Entries /\ Known(n, s) /\ s \in Slots
      BY DEF TInv, TypeOK, DurableTypeOK
    <3> QED
      BY <3>1 DEF Known, Entries, BallotSet
  <2> HIDE DEF S
  <2>2. Learns(n, S, {m.from}) \subseteq LearnMsg
    BY <1>1, <2>1 DEF Learns, LearnMsg
  <2> QED
    BY <2>2 DEF Message
<1> HIDE DEF S
<1> QED
  BY <1>2, <1>3 DEF TInv, TypeOK, DurableTypeOK, VolatileTypeOK, RoleInv,
                    durable, volatile, history

LEMMA StartElectionType ==
  ASSUME TInv, NEW n \in Node, StartElection(n)
  PROVE  TInv' /\ ~ Less(promised'[n], promised[n])
<1> DEFINE b == [round |-> maxRound[n] + 1, node |-> n]
           from == CommitIndex(n) + 1
<1>1. /\ b \in Elections
      /\ maxRound' = [maxRound EXCEPT ![n] = b.round]
      /\ promised' = [promised EXCEPT ![n] = b]
      /\ role' = [role EXCEPT ![n] = Candidate]
      /\ ballot' = [ballot EXCEPT ![n] = b]
      /\ fromSlot' = [fromSlot EXCEPT ![n] = from]
      /\ promises' = [promises EXCEPT ![n] = {Promise(n, b, from)}]
      /\ msgs' = msgs \cup {[type |-> "prepare", ballot |-> b, fromSlot |-> from]}
      /\ UNCHANGED <<accepted, chosen, proposals, nextSlot, firstOwnSlot, queue,
                     readSeq, reads, ready, history>>
  BY DEF StartElection
<1>2. b.round = maxRound[n] + 1 /\ b.node = n
  OBVIOUS
<1>3. from \in 1..MaxSlot + 1
  BY CommitIndexType, Constants
<1> HIDE DEF b, from
<1>4. DurableTypeOK /\ VolatileTypeOK /\ RoleInv /\ msgs \subseteq Message
  BY DEF TInv, TypeOK
<1>5. Promise(n, b, from) \in PromiseMsg
  BY <1>1, <1>3, PromiseType DEF TInv
<1>6. [type |-> "prepare", ballot |-> b, fromSlot |-> from] \in Message
  BY <1>1, <1>3 DEF PrepareMsg, Message
<1>7. DurableTypeOK'
  BY <1>1, <1>2, <1>4 DEF DurableTypeOK, BallotSet
<1>8. VolatileTypeOK'
  <2>1. b \in BallotSet /\ from \in 0..MaxSlot + 1
    BY <1>1, <1>3, Constants DEF BallotSet
  <2>2. {Promise(n, b, from)} \in SUBSET PromiseMsg
    BY <1>5
  <2> QED
    BY <1>1, <1>4, <2>1, <2>2 DEF VolatileTypeOK
<1>9. RoleInv'
  <2>1. b.round \in Nat /\ b.round <= b.round
    BY <1>2, <1>4 DEF DurableTypeOK
  <2> QED
    BY <1>1, <1>2, <1>4, <2>1, RoleNames DEF RoleInv, DurableTypeOK, VolatileTypeOK
<1>10. ~ Less(promised'[n], promised[n])
  <2>1. promised'[n] = b /\ promised[n] \in BallotRec /\ b \in BallotRec
    BY <1>1, <1>4, BallotsAreRecords DEF DurableTypeOK
  <2>2. promised[n].round < b.round
    BY <1>2, <1>4, <2>1 DEF RoleInv, DurableTypeOK, BallotRec
  <2>3. Less(promised[n], b)
    BY <2>2 DEF Less
  <2> QED
    BY <2>1, <2>3, LessOrder
<1> QED
  BY <1>1, <1>4, <1>6, <1>7, <1>8, <1>9, <1>10 DEF TInv, TypeOK, history

LEMMA CandidateTimeoutType ==
  ASSUME TInv, NEW n \in Node, CandidateTimeout(n)
  PROVE  TInv'
<1>1. VolatileTypeOK'
  BY Constants DEF TInv, TypeOK, CandidateTimeout, VolatileTypeOK
<1>2. RoleInv'
  BY RoleNames DEF TInv, TypeOK, CandidateTimeout, VolatileTypeOK, RoleInv, durable
<1> QED
  BY <1>1, <1>2 DEF TInv, TypeOK, DurableTypeOK, CandidateTimeout, durable, history

\* What the candidate has collected, and the slots it looks at, are of the
\* expected kinds, and one of those slots is the highest.
LEMMA CollectedType ==
  ASSUME TInv, NEW n \in Node, NEW m \in msgs, m.type = "promise"
  PROVE  /\ Collected(n, m) \subseteq PromiseMsg
         /\ Reported(Collected(n, m)) \subseteq PValues
         /\ \A top \in Taken(n, Collected(n, m)) : top \in Int /\ 0 <= top + 1
<1>1. m \in PromiseMsg
  BY MessageTypes DEF TInv, TypeOK
<1>2. promises[n] \subseteq PromiseMsg /\ fromSlot[n] \in 0..MaxSlot + 1
  BY DEF TInv, TypeOK, VolatileTypeOK
<1>3. Collected(n, m) \subseteq PromiseMsg
  BY <1>1, <1>2 DEF Collected
<1>4. Reported(Collected(n, m)) \subseteq PValues
  BY <1>3 DEF Reported, PromiseMsg
<1>5. \A pv \in PValues : pv.slot \in Slots
  BY DEF PValues
<1>6. \A top \in Taken(n, Collected(n, m)) : top = fromSlot[n] - 1 \/ top \in Slots
  BY <1>4, <1>5 DEF Taken
<1>7. ASSUME NEW top \in Taken(n, Collected(n, m))
      PROVE  top \in Int /\ 0 <= top + 1
  <2>1. top = fromSlot[n] - 1 \/ top \in Nat
    BY <1>6, Constants
  <2>2. fromSlot[n] \in Nat
    BY <1>2, Constants
  <2> QED
    BY <2>1, <2>2
<1> QED
  BY <1>3, <1>4, <1>7

LEMMA TakeoverType ==
  ASSUME TInv, NEW n \in Node, NEW got \in SUBSET PromiseMsg, NEW top \in Int
  PROVE  Batch(Takeover(n, got, top))
<1>1. Reported(got) \subseteq PValues
  BY DEF Reported, PromiseMsg
<1>2. ASSUME NEW s \in Slots
      PROVE  Choose({r \in Reported(got) : r.slot = s}, NoOp) \in Values
  <2> DEFINE R == {r \in Reported(got) : r.slot = s}
  <2>1. R \in SUBSET PValues
    BY <1>1
  <2> HIDE DEF R
  <2>2. CASE R = {}
    BY <2>1, <2>2, ChooseReport, Constants DEF R
  <2>3. CASE R # {}
    <3>1. PICK r \in R : Choose(R, NoOp) = r.value
      BY <2>1, <2>3, ChooseReport
    <3>2. r.value \in Values
      BY <2>1 DEF PValues
    <3> QED
      BY <3>1, <3>2 DEF R
  <2> QED
    BY <2>2, <2>3
<1> QED
  BY <1>2, Constants DEF Takeover, Batch

LEMMA BecomeLeaderType ==
  ASSUME TInv, NEW n \in Node, NEW got \in SUBSET PromiseMsg, NEW top \in Int,
         0 <= top + 1, role[n] = Candidate, BecomeLeader(n, got, top)
  PROVE  TInv'
<1> DEFINE f == Takeover(n, got, top)
<1>1. Batch(f) /\ role[n] # Follower
  BY TakeoverType DEF Candidate, Follower
<1>2. /\ role' = [role EXCEPT ![n] = Leader]
      /\ firstOwnSlot' = [firstOwnSlot EXCEPT ![n] = top + 1]
      /\ nextSlot' = [nextSlot EXCEPT ![n] = top + 2]
      /\ proposals' = [proposals EXCEPT ![n] =
           [s \in Slots |-> IF s \in DOMAIN f
                            THEN [value |-> f[s], accepts |-> {n}] ELSE Idle]]
      /\ reads' = [reads EXCEPT ![n] = {}]
      /\ fromSlot' = [fromSlot EXCEPT ![n] = 0]
      /\ promises' = [promises EXCEPT ![n] = {}]
      /\ Record(n, f)
      /\ msgs' = msgs \cup Accepts(n, f)
      /\ UNCHANGED <<promised, maxRound, chosen, ballot, queue, readSeq, ready>>
  BY DEF BecomeLeader, FirstFree
<1> HIDE DEF f
<1>3. DurableTypeOK /\ VolatileTypeOK /\ RoleInv /\ msgs \subseteq Message
  BY DEF TInv, TypeOK
<1>4. /\ accepted' \in [Node -> [Slots -> Entries]] /\ votes' \subseteq Votes
      /\ proposed' \subseteq PValues
  BY <1>1, <1>2, RecordType
<1>5. msgs' \subseteq Message
  BY <1>1, <1>2, <1>3, AcceptsType
<1>6. proposals' \in [Node -> [Slots -> [value : Values, accepts : SUBSET Node]]]
  <2>1. ASSUME NEW s \in Slots
        PROVE  (IF s \in DOMAIN f THEN [value |-> f[s], accepts |-> {n}] ELSE Idle)
                 \in [value : Values, accepts : SUBSET Node]
    BY <1>1, Constants DEF Batch
  <2>2. [s \in Slots |-> IF s \in DOMAIN f
                         THEN [value |-> f[s], accepts |-> {n}] ELSE Idle]
          \in [Slots -> [value : Values, accepts : SUBSET Node]]
    BY <2>1
  <2> QED
    BY <1>2, <1>3, <2>2 DEF VolatileTypeOK
<1>7. VolatileTypeOK'
  <2>1. top + 1 \in Nat /\ top + 2 \in Nat /\ 0 \in 0..MaxSlot + 1
    BY Constants
  <2> QED
    BY <1>2, <1>3, <1>6, <2>1 DEF VolatileTypeOK
<1>8. RoleInv'
  <2>1. top + 2 # 0
    OBVIOUS
  <2> QED
    BY <1>1, <1>2, <1>3, <2>1 DEF RoleInv, VolatileTypeOK
<1> QED
  BY <1>2, <1>3, <1>4, <1>5, <1>7, <1>8 DEF TInv, TypeOK, DurableTypeOK

LEMMA OnPromiseType ==
  ASSUME TInv, NEW n \in Node, NEW m \in msgs, OnPromise(n, m)
  PROVE  TInv'
<1> DEFINE got == Collected(n, m)
<1>1. /\ got \subseteq PromiseMsg
      /\ \A top \in Taken(n, got) : top \in Int /\ 0 <= top + 1
  BY CollectedType DEF OnPromise
<1>2. CASE IsQuorum({p.from : p \in got})
  <2>1. PICK top \in Taken(n, got) : BecomeLeader(n, got, top)
    BY <1>2 DEF OnPromise
  <2>2. role[n] = Candidate
    BY DEF OnPromise
  <2> HIDE DEF got
  <2> QED
    BY <1>1, <2>1, <2>2, BecomeLeaderType
<1>3. CASE ~ IsQuorum({p.from : p \in got})
  <2>1. /\ promises' = [promises EXCEPT ![n] = got]
        /\ UNCHANGED <<durable, role, ballot, fromSlot, proposals, nextSlot,
                       firstOwnSlot, queue, readSeq, reads, ready, msgs,
                       history>>
    BY <1>3 DEF OnPromise
  <2> HIDE DEF got
  <2>2. VolatileTypeOK'
    BY <1>1, <2>1 DEF TInv, TypeOK, VolatileTypeOK
  <2>3. RoleInv'
    BY <2>1 DEF TInv, RoleInv, durable
  <2> QED
    BY <2>1, <2>2, <2>3 DEF TInv, TypeOK, DurableTypeOK, durable, history
<1> QED
  BY <1>2, <1>3

LEMMA ProposeType ==
  ASSUME TInv, NEW n \in Node, NEW v \in Value, Propose(n, v)
  PROVE  TInv'
<1>1. /\ role[n] = Leader /\ role[n] # Follower
      /\ UNCHANGED <<promised, maxRound, chosen, role, ballot, fromSlot, promises,
                     firstOwnSlot, readSeq, reads, ready>>
  BY DEF Propose, Leader, Follower
<1>2. DurableTypeOK /\ VolatileTypeOK /\ RoleInv /\ msgs \subseteq Message
  BY DEF TInv, TypeOK
<1>4. CASE Cardinality(InFlight(n)) >= Window
  <2>1. /\ queue' = [queue EXCEPT ![n] = Append(@, v)]
        /\ UNCHANGED <<accepted, proposals, nextSlot, msgs, history>>
    BY <1>4 DEF Propose
  <2>2. Append(queue[n], v) \in Seq(Value)
    BY <1>2 DEF VolatileTypeOK
  <2>3. VolatileTypeOK'
    BY <1>1, <1>2, <2>1, <2>2 DEF VolatileTypeOK
  <2>4. RoleInv'
    BY <1>1, <1>2, <2>1 DEF RoleInv
  <2> QED
    BY <1>1, <1>2, <2>1, <2>3, <2>4 DEF TInv, TypeOK, DurableTypeOK, history
<1>5. CASE ~ (Cardinality(InFlight(n)) >= Window)
  <2> DEFINE f == [s \in {nextSlot[n]} |-> v]
  <2>1. nextSlot[n] + Len(queue[n]) \in Slots
    BY DEF Propose
  <2>2. /\ proposals' = [proposals EXCEPT ![n] = Started(n, f)]
        /\ nextSlot' = [nextSlot EXCEPT ![n] = @ + 1]
        /\ Record(n, f)
        /\ msgs' = msgs \cup Accepts(n, f)
        /\ UNCHANGED queue
    BY <1>5 DEF Propose
  <2>3. nextSlot[n] \in Slots
    <3>1. nextSlot[n] \in Nat /\ nextSlot[n] # 0 /\ Len(queue[n]) \in Nat
      BY <1>1, <1>2 DEF VolatileTypeOK, RoleInv
    <3> QED
      BY <2>1, <3>1, Constants DEF Slots
  <2>4. Batch(f)
    BY <2>3, Constants DEF Batch
  <2> HIDE DEF f
  <2>5. /\ accepted' \in [Node -> [Slots -> Entries]] /\ votes' \subseteq Votes
        /\ proposed' \subseteq PValues
    BY <1>1, <2>2, <2>4, RecordType
  <2>6. msgs' \subseteq Message
    BY <1>1, <1>2, <2>2, <2>4, AcceptsType
  <2>7. VolatileTypeOK'
    <3>1. Started(n, f) \in [Slots -> [value : Values, accepts : SUBSET Node]]
      BY <2>4, StartedType
    <3> QED
      BY <1>1, <1>2, <2>2, <3>1 DEF VolatileTypeOK
  <2>8. RoleInv'
    BY <1>1, <1>2, <2>2 DEF RoleInv, VolatileTypeOK
  <2> QED
    BY <1>1, <1>2, <2>5, <2>6, <2>7, <2>8 DEF TInv, TypeOK, DurableTypeOK
<1> QED
  BY <1>4, <1>5

LEMMA OnAcceptedType ==
  ASSUME TInv, NEW n \in Node, NEW m \in msgs, OnAccepted(n, m)
  PROVE  TInv'
<1> DEFINE p == proposals[n][m.slot]
           acks == p.accepts \cup {m.from}
           sends == {[type |-> "learn", to |-> q, slot |-> m.slot,
                      ballot |-> ballot[n], value |-> p.value] : q \in Node \ {n}}
<1>1. m.slot \in Slots /\ m.from \in Node
  BY MessageTypes DEF TInv, TypeOK, OnAccepted, AcceptedMsg
<1>2. p \in [value : Values, accepts : SUBSET Node]
  BY <1>1 DEF TInv, TypeOK, VolatileTypeOK
<1>3. p.value \in Values /\ acks \in SUBSET Node
  BY <1>1, <1>2
<1>4. ballot[n] \in Elections
  BY RoleNames DEF OnAccepted, Counts, TInv, RoleInv
<1>5. CASE IsQuorum(acks)
  <2>1. Learn(n, m.slot, ballot[n], p.value, sends)
    BY <1>5 DEF OnAccepted
  <2>2. sends \subseteq LearnMsg
    BY <1>1, <1>3, <1>4 DEF LearnMsg
  <2>3. sends \in SUBSET Message
    BY <2>2 DEF Message
  <2> HIDE DEF sends, p
  <2> QED
    BY <1>1, <1>3, <1>4, <2>1, <2>3, LearnType
<1>6. CASE ~ IsQuorum(acks)
  <2>1. /\ proposals' = [proposals EXCEPT ![n] =
             [proposals[n] EXCEPT ![m.slot] = [value |-> p.value, accepts |-> acks]]]
        /\ UNCHANGED <<durable, role, ballot, fromSlot, promises, nextSlot,
                       firstOwnSlot, queue, readSeq, reads, ready, msgs,
                       history>>
    BY <1>6 DEF OnAccepted
  <2>2. [value |-> p.value, accepts |-> acks] \in [value : Values, accepts : SUBSET Node]
    BY <1>3
  <2> HIDE DEF p, acks
  <2>3. proposals' \in [Node -> [Slots -> [value : Values, accepts : SUBSET Node]]]
    BY <1>1, <2>1, <2>2 DEF TInv, TypeOK, VolatileTypeOK
  <2>4. VolatileTypeOK'
    BY <2>1, <2>3 DEF TInv, TypeOK, VolatileTypeOK
  <2>5. RoleInv'
    BY <2>1 DEF TInv, RoleInv, durable
  <2> QED
    BY <2>1, <2>4, <2>5 DEF TInv, TypeOK, DurableTypeOK, durable, history
<1> QED
  BY <1>5, <1>6

LEMMA LeaderTimeoutType ==
  ASSUME TInv, NEW n \in Node, LeaderTimeout(n)
  PROVE  TInv'
<1>1. StepDown(n) /\ UNCHANGED <<durable, ready, msgs, history>>
  BY DEF LeaderTimeout
<1>2. /\ VolatileTypeOK' /\ role' = [role EXCEPT ![n] = Follower]
      /\ UNCHANGED <<ballot, nextSlot>>
  BY <1>1, StepDownType
<1>3. RoleInv'
  BY <1>1, <1>2, RoleNames DEF TInv, TypeOK, VolatileTypeOK, RoleInv, durable
<1> QED
  BY <1>1, <1>2, <1>3 DEF TInv, TypeOK, DurableTypeOK, durable, history

\* The read a heartbeat carries.
LEMMA PendingReadType ==
  ASSUME TInv, NEW n \in Node
  PROVE  Highest({0} \cup {r.seq : r \in reads[n]}) \in 0..MaxReads
<1>1. reads[n] \subseteq Read
  BY DEF TInv, TypeOK, VolatileTypeOK
<1>2. {0} \cup {r.seq : r \in reads[n]} \in SUBSET (0..MaxReads)
  BY <1>1, Constants DEF Read
<1> QED
  BY <1>2, HighestOfRange, Constants

LEMMA HeartbeatType ==
  ASSUME TInv, NEW n \in Node, Heartbeat(n)
  PROVE  TInv'
<1> DEFINE h == [type |-> "heartbeat", ballot |-> ballot[n],
                 commitIndex |-> CommitIndex(n),
                 readSeq |-> Highest({0} \cup {r.seq : r \in reads[n]})]
<1>1. ballot[n] \in Elections
  BY RoleNames DEF Heartbeat, TInv, RoleInv
<1>2. h \in HeartbeatMsg
  BY <1>1, CommitIndexType, PendingReadType DEF HeartbeatMsg
<1>3. msgs' = msgs \cup {h} /\ UNCHANGED <<durable, volatile, ready, history>>
  BY DEF Heartbeat
<1>4. msgs' \subseteq Message
  BY <1>2, <1>3 DEF TInv, TypeOK, Message
<1> HIDE DEF h
<1> QED
  BY <1>3, <1>4 DEF TInv, TypeOK, DurableTypeOK, VolatileTypeOK, RoleInv,
                    durable, volatile, history

LEMMA ReadIndexType ==
  ASSUME TInv, NEW n \in Node, ReadIndex(n)
  PROVE  TInv'
<1> DEFINE h == [type |-> "heartbeat", ballot |-> ballot[n],
                 commitIndex |-> CommitIndex(n), readSeq |-> readSeq[n] + 1]
           o == Highest({CommitIndex(p) : p \in Node})
           r == [seq |-> readSeq[n] + 1, index |-> CommitIndex(n), acks |-> {n},
                 observed |-> o]
<1>1. /\ readSeq' = [readSeq EXCEPT ![n] = @ + 1]
      /\ reads' = [reads EXCEPT ![n] = @ \cup {r}]
      /\ msgs' = msgs \cup {h}
      /\ UNCHANGED <<durable, role, ballot, fromSlot, promises, proposals, nextSlot,
                     firstOwnSlot, queue, ready, history>>
  BY DEF ReadIndex
<1>2. ballot[n] \in Elections
  BY RoleNames DEF ReadIndex, Ready, TInv, RoleInv
<1>3. readSeq[n] + 1 \in 0..MaxReads
  <2>1. readSeq[n] \in 0..MaxReads /\ readSeq[n] < MaxReads
    BY DEF ReadIndex, TInv, TypeOK, VolatileTypeOK
  <2> QED
    BY <2>1, Constants
<1>4. o \in 0..MaxSlot
  <2>1. {CommitIndex(p) : p \in Node} \in SUBSET (0..MaxSlot)
    BY CommitIndexType
  <2>2. {CommitIndex(p) : p \in Node} # {}
    OBVIOUS
  <2> QED
    BY <2>1, <2>2, HighestOfRange, Constants
<1> HIDE DEF o
<1>6. r \in Read /\ h \in HeartbeatMsg
  BY <1>2, <1>3, <1>4, CommitIndexType DEF Read, HeartbeatMsg
<1> HIDE DEF r, h
<1>7. msgs' \subseteq Message
  BY <1>1, <1>6 DEF TInv, TypeOK, Message
<1>8. VolatileTypeOK'
  BY <1>1, <1>3, <1>6 DEF TInv, TypeOK, VolatileTypeOK
<1>9. RoleInv'
  BY <1>1 DEF TInv, RoleInv, durable
<1> QED
  BY <1>1, <1>7, <1>8, <1>9 DEF TInv, TypeOK, DurableTypeOK, durable, history

LEMMA OvertakenType ==
  ASSUME TInv, NEW n \in Node, NEW b \in BallotSet, Overtaken(n, b)
  PROVE  TInv'
<1>1. /\ maxRound' = [maxRound EXCEPT ![n] = Higher(@, b.round)]
      /\ StepDown(n)
      /\ UNCHANGED <<promised, accepted, chosen, ready, msgs, history>>
  BY DEF Overtaken
<1>2. /\ VolatileTypeOK' /\ role' = [role EXCEPT ![n] = Follower]
      /\ UNCHANGED <<ballot, nextSlot>>
  BY <1>1, StepDownType
<1>3. maxRound \in [Node -> Nat] /\ promised \in [Node -> BallotSet]
  BY DEF TInv, TypeOK, DurableTypeOK
<1>4. b.round \in Nat /\ \A p \in Node : promised[p].round \in Nat
  BY <1>3, BallotsAreRecords DEF BallotRec
<1>5. /\ Higher(maxRound[n], b.round) \in Nat
      /\ maxRound[n] <= Higher(maxRound[n], b.round)
  BY <1>3, <1>4, HigherType
<1>6. maxRound' \in [Node -> Nat]
  BY <1>1, <1>3, <1>5
<1>7. RoleInv'
  <2>1. RoleInv /\ role \in [Node -> {Follower, Candidate, Leader}]
    BY DEF TInv, TypeOK, VolatileTypeOK
  <2>2. ASSUME NEW p \in Node PROVE promised'[p].round <= maxRound'[p]
    <3>1. promised[p].round <= maxRound[p] /\ maxRound[p] \in Nat
      BY <1>3, <2>1 DEF RoleInv
    <3>2. maxRound[p] <= maxRound'[p] /\ maxRound'[p] \in Nat
      BY <1>1, <1>3, <1>5
    <3> QED
      BY <1>1, <1>4, <3>1, <3>2
  <2>3. \A p \in Node : role'[p] # Follower => role'[p] = role[p]
    BY <1>2, <2>1
  <2> QED
    BY <1>1, <1>2, <2>1, <2>2, <2>3, RoleNames DEF RoleInv
<1> QED
  BY <1>1, <1>2, <1>6, <1>7 DEF TInv, TypeOK, DurableTypeOK, history

LEMMA OnNackType ==
  ASSUME TInv, NEW n \in Node, NEW m \in msgs, OnNack(n, m)
  PROVE  TInv'
<1>1. m.promised \in BallotSet
  BY MessageTypes DEF TInv, TypeOK, OnNack, NackMsg
<1> QED
  BY <1>1, OvertakenType DEF OnNack

LEMMA OnHeartbeatAckType ==
  ASSUME TInv, NEW n \in Node, NEW m \in msgs, OnHeartbeatAck(n, m)
  PROVE  TInv'
<1>1. m.promised \in BallotSet /\ m.from \in Node
  BY MessageTypes DEF TInv, TypeOK, OnHeartbeatAck, HeartbeatAckMsg
<1>2. CASE Overtaken(n, m.promised)
  BY <1>1, <1>2, OvertakenType
<1>3. CASE /\ AckReads(n, m)
           /\ UNCHANGED <<durable, role, ballot, fromSlot, promises, proposals,
                          nextSlot, firstOwnSlot, queue, readSeq, msgs, history>>
  <2> DEFINE covered == {r \in reads[n] : r.seq <= m.readSeq}
             acked == {[r EXCEPT !.acks = @ \cup {m.from}] : r \in covered}
             done == {r \in acked : IsQuorum(r.acks)}
  <2>1. reads[n] \subseteq Read
    BY DEF TInv, TypeOK, VolatileTypeOK
  <2>2. ASSUME NEW r \in Read
        PROVE  [r EXCEPT !.acks = @ \cup {m.from}] \in Read
    BY <1>1 DEF Read
  <2>3. acked \subseteq Read /\ done \subseteq Read
    BY <2>1, <2>2
  <2>4. /\ reads' = [reads EXCEPT ![n] = (@ \ covered) \cup (acked \ done)]
        /\ ready' = ready \cup
             {[index |-> r.index, observed |-> r.observed] : r \in done}
    BY <1>3 DEF AckReads
  <2> HIDE DEF covered, acked, done
  <2>5. reads' \in [Node -> SUBSET Read]
    BY <2>1, <2>3, <2>4 DEF TInv, TypeOK, VolatileTypeOK
  <2>6. ready' \subseteq [index : 0..MaxSlot, observed : 0..MaxSlot]
    BY <2>3, <2>4 DEF TInv, TypeOK, Read
  <2>7. VolatileTypeOK'
    BY <1>3, <2>5 DEF TInv, TypeOK, VolatileTypeOK
  <2>8. RoleInv'
    BY <1>3 DEF TInv, RoleInv, durable
  <2> QED
    BY <1>3, <2>6, <2>7, <2>8 DEF TInv, TypeOK, DurableTypeOK, durable, history
<1> QED
  BY <1>2, <1>3 DEF OnHeartbeatAck

\* A restart, or a handler that a store error stopped: the node is a follower
\* again, whatever it saved before.
LEMMA StopType ==
  ASSUME TInv, NEW n \in Node, Reset(n), DurableTypeOK',
         proposed' \subseteq PValues, votes' \subseteq Votes,
         \A p \in Node : p # n => promised'[p] = promised[p],
         \A p \in Node : promised'[p].round <= maxRound'[p]
  PROVE  TInv'
<1>1. /\ VolatileTypeOK'
      /\ role' = [role EXCEPT ![n] = Follower]
      /\ ballot' = [ballot EXCEPT ![n] = ZeroBallot]
      /\ UNCHANGED <<ready, msgs>>
  BY ResetType
<1>2. nextSlot' = [nextSlot EXCEPT ![n] = 0]
  BY DEF Reset
<1>3. RoleInv /\ VolatileTypeOK
  BY DEF TInv, TypeOK
<1>4. \A p \in Node : role'[p] # Follower =>
        p # n /\ role'[p] = role[p] /\ ballot'[p] = ballot[p] /\ nextSlot'[p] = nextSlot[p]
  BY <1>1, <1>2, <1>3 DEF VolatileTypeOK
<1>5. RoleInv'
  BY <1>3, <1>4, RoleNames DEF RoleInv
<1> QED
  BY <1>1, <1>5 DEF TInv, TypeOK

\* Raising the saved round, and the promise with it, keeps their types.
LEMMA SavedType ==
  ASSUME TInv, NEW n \in Node, NEW r \in Nat, maxRound[n] <= r,
         maxRound' = [maxRound EXCEPT ![n] = r],
         \/ promised' = promised
         \/ \E b \in Elections : promised' = [promised EXCEPT ![n] = b] /\ b.round <= r
  PROVE  /\ maxRound' \in [Node -> Nat] /\ promised' \in [Node -> BallotSet]
         /\ \A p \in Node : promised'[p].round <= maxRound'[p]
         /\ \A p \in Node : p # n => promised'[p] = promised[p]
<1>1. /\ maxRound \in [Node -> Nat] /\ promised \in [Node -> BallotSet]
      /\ \A p \in Node : promised[p].round <= maxRound[p]
  BY DEF TInv, TypeOK, DurableTypeOK, RoleInv
<1>2. \A p \in Node : promised[p].round \in Nat
  BY <1>1, BallotsAreRecords DEF BallotRec
<1>3. ASSUME NEW p \in Node PROVE promised[p].round <= maxRound'[p]
  <2>1. CASE p = n
    <3>1. promised[n].round <= maxRound[n] /\ maxRound[n] \in Nat /\ promised[n].round \in Nat
      BY <1>1, <1>2
    <3>2. maxRound'[n] = r
      BY <1>1
    <3> QED
      BY <2>1, <3>1, <3>2
  <2>2. CASE p # n
    BY <1>1, <2>2
  <2> QED
    BY <2>1, <2>2
<1>4. CASE promised' = promised
  BY <1>1, <1>3, <1>4
<1>5. CASE \E b \in Elections : promised' = [promised EXCEPT ![n] = b] /\ b.round <= r
  <2>1. PICK b \in Elections : promised' = [promised EXCEPT ![n] = b] /\ b.round <= r
    BY <1>5
  <2>2. b \in BallotSet
    BY DEF BallotSet
  <2>3. ASSUME NEW p \in Node PROVE promised'[p].round <= maxRound'[p]
    BY <1>1, <1>3, <2>1
  <2> QED
    BY <1>1, <2>1, <2>2, <2>3
<1> QED
  BY <1>4, <1>5

LEMMA RestartType ==
  ASSUME TInv, NEW n \in Node, Restart(n)
  PROVE  TInv'
<1>1. /\ Reset(n)
      /\ maxRound' = [maxRound EXCEPT ![n] = Higher(maxRound[n], promised[n].round)]
      /\ UNCHANGED <<promised, accepted, chosen, history>>
  BY DEF Restart
<1>2. maxRound[n] \in Nat /\ promised[n].round \in Nat
  BY BallotsAreRecords DEF TInv, TypeOK, DurableTypeOK, BallotRec
<1>3. /\ Higher(maxRound[n], promised[n].round) \in Nat
      /\ maxRound[n] <= Higher(maxRound[n], promised[n].round)
  BY <1>2, HigherType
<1>4. /\ maxRound' \in [Node -> Nat] /\ promised' \in [Node -> BallotSet]
      /\ \A p \in Node : promised'[p].round <= maxRound'[p]
      /\ \A p \in Node : p # n => promised'[p] = promised[p]
  BY <1>1, <1>3, SavedType
<1>5. DurableTypeOK' /\ proposed' \subseteq PValues /\ votes' \subseteq Votes
  BY <1>1, <1>4 DEF TInv, TypeOK, DurableTypeOK, history
<1> QED
  BY <1>1, <1>4, <1>5, StopType

LEMMA FailElectionType ==
  ASSUME TInv, NEW n \in Node, FailElection(n)
  PROVE  TInv'
<1>1. /\ Reset(n)
      /\ maxRound' = [maxRound EXCEPT ![n] = maxRound[n] + 1]
      /\ UNCHANGED <<promised, accepted, chosen, history>>
  BY DEF FailElection
<1>2. maxRound[n] + 1 \in Nat /\ maxRound[n] <= maxRound[n] + 1
  BY DEF TInv, TypeOK, DurableTypeOK
<1>4. /\ maxRound' \in [Node -> Nat] /\ promised' \in [Node -> BallotSet]
      /\ \A p \in Node : promised'[p].round <= maxRound'[p]
      /\ \A p \in Node : p # n => promised'[p] = promised[p]
  BY <1>1, <1>2, SavedType
<1>5. DurableTypeOK' /\ proposed' \subseteq PValues /\ votes' \subseteq Votes
  BY <1>1, <1>4 DEF TInv, TypeOK, DurableTypeOK, history
<1> QED
  BY <1>1, <1>4, <1>5, StopType

LEMMA FailPromiseType ==
  ASSUME TInv, NEW n \in Node, NEW m \in msgs, FailPromise(n, m)
  PROVE  TInv'
<1>1. m.ballot \in Elections
  BY MessageTypes DEF TInv, TypeOK, FailPromise, PrepareMsg, AcceptMsg, HeartbeatMsg
<1>2. /\ Reset(n)
      /\ maxRound' = [maxRound EXCEPT ![n] = m.ballot.round]
      /\ m.ballot.round > maxRound[n]
      /\ UNCHANGED <<promised, accepted, chosen, history>>
  BY DEF FailPromise
<1>3. m.ballot.round \in Nat /\ maxRound[n] <= m.ballot.round
  BY <1>1, <1>2, BallotsAreRecords DEF TInv, TypeOK, DurableTypeOK, BallotRec
<1>4. /\ maxRound' \in [Node -> Nat] /\ promised' \in [Node -> BallotSet]
      /\ \A p \in Node : promised'[p].round <= maxRound'[p]
      /\ \A p \in Node : p # n => promised'[p] = promised[p]
  BY <1>2, <1>3, SavedType
<1>5. DurableTypeOK' /\ proposed' \subseteq PValues /\ votes' \subseteq Votes
  BY <1>2, <1>4 DEF TInv, TypeOK, DurableTypeOK, history
<1> QED
  BY <1>2, <1>4, <1>5, StopType

LEMMA FailAcceptType ==
  ASSUME TInv, NEW n \in Node, NEW m \in msgs, FailAccept(n, m)
  PROVE  TInv'
<1>1. m.ballot \in Elections
  BY MessageTypes DEF TInv, TypeOK, FailAccept, AcceptMsg
<1>2. /\ Reset(n)
      /\ promised' = [promised EXCEPT ![n] = m.ballot]
      /\ maxRound' = [maxRound EXCEPT ![n] = Higher(maxRound[n], m.ballot.round)]
      /\ UNCHANGED <<accepted, chosen, history>>
  BY DEF FailAccept
<1>3. m.ballot.round \in Nat /\ maxRound[n] \in Nat
  BY <1>1, BallotsAreRecords DEF TInv, TypeOK, DurableTypeOK, BallotRec
<1>4. /\ Higher(maxRound[n], m.ballot.round) \in Nat
      /\ maxRound[n] <= Higher(maxRound[n], m.ballot.round)
      /\ m.ballot.round <= Higher(maxRound[n], m.ballot.round)
  BY <1>3, HigherType
<1>5. /\ maxRound' \in [Node -> Nat] /\ promised' \in [Node -> BallotSet]
      /\ \A p \in Node : promised'[p].round <= maxRound'[p]
      /\ \A p \in Node : p # n => promised'[p] = promised[p]
  BY <1>1, <1>2, <1>4, SavedType
<1>6. DurableTypeOK' /\ proposed' \subseteq PValues /\ votes' \subseteq Votes
  BY <1>2, <1>5 DEF TInv, TypeOK, DurableTypeOK, history
<1> QED
  BY <1>2, <1>5, <1>6, StopType

\* A part of a batch is a batch.
LEMMA PartOfBatch ==
  ASSUME NEW f, Batch(f), NEW k
  PROVE  Batch([s \in {t \in DOMAIN f : t <= k} |-> f[s]])
BY DEF Batch

LEMMA FailTakeoverType ==
  ASSUME TInv, NEW n \in Node, NEW m \in msgs, FailTakeover(n, m)
  PROVE  TInv'
<1> DEFINE got == Collected(n, m)
<1>1. /\ got \subseteq PromiseMsg
      /\ \A top \in Taken(n, got) : top \in Int
  BY CollectedType DEF FailTakeover
<1>2. PICK top \in Taken(n, got) :
        LET f == Takeover(n, got, top)
        IN  \E k \in DOMAIN f : Record(n, [s \in {t \in DOMAIN f : t <= k} |-> f[s]])
  BY DEF FailTakeover
<1> HIDE DEF got
<1> DEFINE f == Takeover(n, got, top)
<1>3. Batch(f)
  BY <1>1, TakeoverType
<1> HIDE DEF f
<1>4. PICK k \in DOMAIN f : Record(n, [s \in {t \in DOMAIN f : t <= k} |-> f[s]])
  BY <1>2 DEF f
<1> DEFINE g == [s \in {t \in DOMAIN f : t <= k} |-> f[s]]
<1>5. Batch(g) /\ Record(n, g)
  BY <1>3, <1>4, PartOfBatch
<1> HIDE DEF g
<1>6. /\ role[n] # Follower /\ Reset(n) /\ UNCHANGED <<promised, maxRound, chosen>>
  BY RoleNames DEF FailTakeover
<1>7. /\ accepted' \in [Node -> [Slots -> Entries]] /\ votes' \subseteq Votes
      /\ proposed' \subseteq PValues
  BY <1>5, <1>6, RecordType
<1>8. DurableTypeOK'
  BY <1>6, <1>7 DEF TInv, TypeOK, DurableTypeOK
<1>9. \A p \in Node : promised'[p].round <= maxRound'[p]
  BY <1>6 DEF TInv, RoleInv
<1> QED
  BY <1>6, <1>7, <1>8, <1>9, StopType

LEMMA FailLearnType ==
  ASSUME TInv, NEW n \in Node, NEW s \in Slots, NEW b \in Elections, NEW v \in Values,
         FailLearn(n, s, b, v)
  PROVE  TInv'
<1>1. PICK k \in 0..DrainCount(n, s) : Record(n, Drained(n, k))
  BY DEF FailLearn
<1>2. Batch(Drained(n, k)) /\ (DOMAIN Drained(n, k) # {} => role[n] # Follower)
  BY DrainedType, RoleNames
<1>3. /\ accepted' \in [Node -> [Slots -> Entries]] /\ votes' \subseteq Votes
      /\ proposed' \subseteq PValues
  BY <1>1, <1>2, RecordType
<1>4. SetChosen(n, s, b, v) /\ Reset(n) /\ UNCHANGED <<promised, maxRound>>
  BY DEF FailLearn
<1>5. chosen' \in [Node -> [Slots -> Entries]]
  <2>1. [ballot |-> b, value |-> v] \in Entries
    BY DEF Entries, BallotSet
  <2>2. chosen[n] \in [Slots -> Entries] /\ chosen \in [Node -> [Slots -> Entries]]
    BY DEF TInv, TypeOK, DurableTypeOK
  <2>3. [chosen[n] EXCEPT ![s] = [ballot |-> b, value |-> v]] \in [Slots -> Entries]
    BY <2>1, <2>2
  <2> QED
    BY <1>4, <2>2, <2>3 DEF SetChosen
<1>6. DurableTypeOK'
  BY <1>3, <1>4, <1>5 DEF TInv, TypeOK, DurableTypeOK
<1>7. \A p \in Node : promised'[p].round <= maxRound'[p]
  BY <1>4 DEF TInv, RoleInv
<1> QED
  BY <1>3, <1>4, <1>6, <1>7, StopType

LEMMA FailOnLearnType ==
  ASSUME TInv, NEW n \in Node, NEW m \in msgs, FailOnLearn(n, m)
  PROVE  TInv'
<1>1. m.slot \in Slots /\ m.ballot \in Elections /\ m.value \in Values
  BY MessageTypes DEF TInv, TypeOK, FailOnLearn, LearnMsg
<1> QED
  BY <1>1, FailLearnType DEF FailOnLearn

LEMMA FailOnAcceptedType ==
  ASSUME TInv, NEW n \in Node, NEW m \in msgs, FailOnAccepted(n, m)
  PROVE  TInv'
<1>1. m.slot \in Slots
  BY MessageTypes DEF TInv, TypeOK, FailOnAccepted, AcceptedMsg
<1>2. proposals[n][m.slot].value \in Values
  BY <1>1 DEF TInv, TypeOK, VolatileTypeOK
<1>3. ballot[n] \in Elections
  BY RoleNames DEF FailOnAccepted, Counts, TInv, RoleInv
<1> QED
  BY <1>1, <1>2, <1>3, FailLearnType DEF FailOnAccepted

LEMMA TypeNext == TInv /\ [Next]_vars => TInv'
<1> SUFFICES ASSUME TInv, [Next]_vars PROVE TInv'
  OBVIOUS
<1>1. CASE UNCHANGED vars
  BY <1>1 DEF vars, durable, volatile, history, TInv, TypeOK, DurableTypeOK,
              VolatileTypeOK, RoleInv
<1>2. ASSUME NEW n \in Node, NEW m \in msgs, Step(n, m) PROVE TInv'
  BY <1>2, OnPrepareType, OnPromiseType, OnAcceptType, OnAcceptedType, OnNackType,
     OnLearnType, OnLearnRequestType, OnHeartbeatType, OnHeartbeatAckType DEF Step
<1>3. ASSUME NEW n \in Node, Tick(n) PROVE TInv'
  BY <1>3, StartElectionType, CandidateTimeoutType, LeaderTimeoutType, HeartbeatType
     DEF Tick
<1>4. ASSUME NEW n \in Node, StoreFailure(n) PROVE TInv'
  BY <1>4, FailElectionType, FailPromiseType, FailAcceptType, FailTakeoverType,
     FailOnLearnType, FailOnAcceptedType DEF StoreFailure
<1>5. ASSUME NEW n \in Node, NEW v \in Value, Propose(n, v) PROVE TInv'
  BY <1>5, ProposeType
<1>6. ASSUME NEW n \in Node, ReadIndex(n) \/ Restart(n) PROVE TInv'
  BY <1>6, ReadIndexType, RestartType
<1> QED
  BY <1>1, <1>2, <1>3, <1>4, <1>5, <1>6 DEF Next

\* Every reachable state is well typed: slots, ballots, values and messages
\* stay in their sets whatever the interleaving of handlers, timers, restarts
\* and store errors (node.go, every handler).
THEOREM TypeCorrect == Spec => []TypeOK
<1>1. Init => TInv
  BY TypeInit
<1>2. TInv /\ [Next]_vars => TInv'
  BY TypeNext
<1>3. TInv => TypeOK
  BY DEF TInv
<1> QED
  BY <1>1, <1>2, <1>3, PTL DEF Spec

\* A candidate or leader always holds its own ballot as its promise, so the
\* messages it handles inline are never refused (setPromised, startElection).
THEOREM RoleCorrect == Spec => []RoleHoldsPromise
<1>1. Init => TInv
  BY TypeInit
<1>2. TInv /\ [Next]_vars => TInv'
  BY TypeNext
<1>3. TInv => RoleHoldsPromise
  BY DEF TInv, RoleInv, RoleHoldsPromise
<1> QED
  BY <1>1, <1>2, <1>3, PTL DEF Spec

-----------------------------------------------------------------------------
(* Agreement: the inductive invariant of the votes and its proof. *)

Voted(a, s, b, v) == [node |-> a, slot |-> s, ballot |-> b, value |-> v] \in votes

\* Acceptor a did not vote at ballot b and never will.
Closed(a, s, b) == Less(b, promised[a]) /\ \A v \in Values : ~ Voted(a, s, b, v)

\* No value other than v was or will be decided for s at ballot c.
SafeBelow(s, c, v) ==
  \E Q \in SUBSET Node :
    IsQuorum(Q) /\ \A a \in Q : Voted(a, s, c, v) \/ Closed(a, s, c)

SafeAt(s, b, v) == \A c \in Elections : Less(c, b) => SafeBelow(s, c, v)

\* Every vote is for something proposed, at a ballot the acceptor has reached.
VoteInv ==
  \A v \in votes :
    /\ [slot |-> v.slot, ballot |-> v.ballot, value |-> v.value] \in proposed
    /\ ~ Less(promised[v.node], v.ballot)

\* What an acceptor holds for a slot is the vote it cast last.
AcceptedInv ==
  /\ \A a \in Node, s \in Slots : accepted[a][s].ballot # ZeroBallot =>
       Voted(a, s, accepted[a][s].ballot, accepted[a][s].value)
  /\ \A v \in votes : ~ Less(accepted[v.node][v.slot].ballot, v.ballot)

ProposedInv ==
  /\ OneValuePerBallot
  /\ \A p \in proposed : SafeAt(p.slot, p.ballot, p.value)
  /\ \A p \in proposed : p.ballot.round <= maxRound[p.ballot.node]

\* The promise m reports the votes of its sender below the ballot, from slot
\* from on.
Covers(m, from) ==
  \A v \in votes :
    v.node = m.from /\ v.slot >= from /\ Less(v.ballot, m.ballot) =>
      \E r \in m.accepted : r.slot = v.slot /\ ~ Less(r.ballot, v.ballot)

PromiseOK(m) ==
  /\ ~ Less(promised[m.from], m.ballot)
  /\ \A r \in m.accepted :
       Voted(m.from, r.slot, r.ballot, r.value) /\ ~ Less(m.ballot, r.ballot)
  /\ \E p \in msgs : /\ p.type = "prepare" /\ p.ballot = m.ballot
                     /\ Covers(m, p.fromSlot)

MessageOK(m) ==
  /\ m.type = "prepare" => m.ballot.round <= maxRound[m.ballot.node]
  /\ m.type = "promise" => PromiseOK(m)
  /\ m.type = "accept" =>
       [slot |-> m.slot, ballot |-> m.ballot, value |-> m.value] \in proposed
  /\ m.type = "accepted" => \E v \in Values : Voted(m.from, m.slot, m.ballot, v)
  /\ m.type = "learn" => Decided(m.slot, m.ballot, m.value)

MessageInv == \A m \in msgs : MessageOK(m)

\* Nothing is proposed at the ballot b for slot s.
Unused(s, b) == \A p \in proposed : ~ (p.slot = s /\ p.ballot = b)

\* A candidate's ballot is fresh, and its promises answer its own Prepare.
CandidateOK(n) ==
  /\ \A s \in Slots : Unused(s, ballot[n])
  /\ \A m \in msgs : m.type = "prepare" /\ m.ballot = ballot[n] =>
       m.fromSlot = fromSlot[n]
  /\ \A m \in promises[n] : m.ballot = ballot[n] /\ PromiseOK(m)

\* A leader may propose any value above the slots it has used, and counts
\* votes for what it proposed.
LeaderOK(n) ==
  /\ \A s \in Slots : s >= nextSlot[n] =>
       Unused(s, ballot[n]) /\ \A v \in Values : SafeAt(s, ballot[n], v)
  /\ \A s \in Slots : \A a \in proposals[n][s].accepts :
       Voted(a, s, ballot[n], proposals[n][s].value)

LeadershipInv ==
  \A n \in Node : /\ role[n] = Candidate => CandidateOK(n)
                  /\ role[n] = Leader => LeaderOK(n)

ChosenInv ==
  \A n \in Node, s \in Slots :
    Known(n, s) => Decided(s, chosen[n][s].ballot, chosen[n][s].value)

SafetyInv ==
  /\ VoteInv
  /\ AcceptedInv
  /\ ProposedInv
  /\ MessageInv
  /\ LeadershipInv
  /\ ChosenInv

-----------------------------------------------------------------------------
(* Quorums. *)

LEMMA QuorumSizes ==
  /\ IsFiniteSet(Node) /\ Cardinality(Node) \in Nat
  /\ Quorum \in Nat /\ Quorum > 1 /\ 2 * Quorum > Cardinality(Node)
<1>1. IsFiniteSet(Node) /\ Cardinality(Node) \in Nat /\ Cardinality(Node) > 1
  BY NodeAssumption, FS_CardinalityType DEF NodeAssumption
<1> DEFINE c == Cardinality(Node)
<1>2. Quorum = c \div 2 + 1
  BY DEF Quorum, QuorumSize
<1> HIDE DEF c
<1>3. c \in Nat /\ c > 1
  BY <1>1 DEF c
<1>4. Quorum \in Nat /\ Quorum > 1 /\ 2 * Quorum > c
  BY <1>2, <1>3
<1> QED
  BY <1>1, <1>4 DEF c

LEMMA QuorumsMeet ==
  ASSUME NEW Q \in SUBSET Node, NEW R \in SUBSET Node, IsQuorum(Q), IsQuorum(R)
  PROVE  \E a \in Node : a \in Q /\ a \in R
<1>1. IsFiniteSet(Node) /\ Cardinality(Node) \in Nat /\ Quorum \in Nat
      /\ 2 * Quorum > Cardinality(Node)
  BY QuorumSizes
<1>2. Cardinality(Q) \in Nat /\ Cardinality(R) \in Nat
  BY <1>1, FS_Subset, FS_CardinalityType
<1>3. Cardinality(Q) >= Quorum /\ Cardinality(R) >= Quorum
  BY DEF IsQuorum
<1>4. Cardinality(Q) + Cardinality(R) > Cardinality(Node)
  BY <1>1, <1>2, <1>3
<1>5. Q \cap R # {}
  BY <1>1, <1>4, FS_MajoritiesIntersect
<1> QED
  BY <1>5

LEMMA QuorumGrows ==
  ASSUME NEW Q \in SUBSET Node, NEW R \in SUBSET Node, IsQuorum(Q), Q \subseteq R
  PROVE  IsQuorum(R)
<1>1. IsFiniteSet(R)
  BY QuorumSizes, FS_Subset
<1>2. Cardinality(Q) <= Cardinality(R) /\ Cardinality(Q) \in Nat /\ Cardinality(R) \in Nat
  BY <1>1, FS_Subset, FS_CardinalityType
<1> QED
  BY <1>2, QuorumSizes DEF IsQuorum

-----------------------------------------------------------------------------
(* What no step undoes. *)

Mono ==
  /\ votes \subseteq votes' /\ proposed \subseteq proposed' /\ msgs \subseteq msgs'
  /\ \A a \in Node : ~ Less(promised'[a], promised[a])
  /\ \A v \in votes' \ votes : ~ Less(v.ballot, promised[v.node])
  /\ \A a \in Node : maxRound[a] <= maxRound'[a]

\* A step that leaves promises and votes alone.
LEMMA MonoQuiet ==
  ASSUME TInv, UNCHANGED <<promised, votes>>, proposed \subseteq proposed',
         msgs \subseteq msgs', \A a \in Node : maxRound[a] <= maxRound'[a]
  PROVE  Mono
<1>1. \A a \in Node : promised[a] \in BallotRec
  BY BallotsAreRecords DEF TInv, TypeOK, DurableTypeOK
<1>2. \A a \in Node : ~ Less(promised[a], promised[a])
  BY <1>1, LessOrder
<1> QED
  BY <1>2 DEF Mono

LEMMA SameRounds ==
  ASSUME TInv
  PROVE  \A a \in Node : maxRound[a] <= maxRound[a]
BY DEF TInv, TypeOK, DurableTypeOK

\* A step that records proposals of a node that is not a follower.
LEMMA MonoRecord ==
  ASSUME TInv, NEW n \in Node, NEW f, Record(n, f), UNCHANGED <<promised, maxRound>>,
         DOMAIN f # {} => role[n] # Follower, msgs \subseteq msgs'
  PROVE  Mono
<1>1. \A a \in Node : promised[a] \in BallotRec
  BY BallotsAreRecords DEF TInv, TypeOK, DurableTypeOK
<1>2. \A a \in Node : ~ Less(promised[a], promised[a])
  BY <1>1, LessOrder
<1>3. votes \subseteq votes' /\ proposed \subseteq proposed'
  BY DEF Record, AcceptAt
<1>4. ASSUME NEW v \in votes' \ votes PROVE ~ Less(v.ballot, promised[v.node])
  <2>1. PICK s \in DOMAIN f :
          v = [node |-> n, slot |-> s, ballot |-> ballot[n], value |-> f[s]]
    BY <1>4 DEF Record, AcceptAt
  <2>2. v.node = n /\ v.ballot = promised[n]
    BY <2>1 DEF TInv, RoleInv
  <2> QED
    BY <1>2, <2>2
<1> QED
  BY <1>2, <1>3, <1>4, SameRounds DEF Mono

LEMMA RoundGrows ==
  ASSUME TInv, NEW n \in Node, NEW b \in Elections, RaisePromise(n, b)
  PROVE  \A a \in Node : maxRound[a] <= maxRound'[a]
<1>1. maxRound \in [Node -> Nat] /\ b.round \in Nat
  BY BallotsAreRecords DEF TInv, TypeOK, DurableTypeOK, BallotRec
<1>2. Higher(maxRound[n], b.round) \in Nat /\ maxRound[n] <= Higher(maxRound[n], b.round)
  BY <1>1, HigherType
<1>3. \/ maxRound' = [maxRound EXCEPT ![n] = Higher(maxRound[n], b.round)]
      \/ maxRound' = maxRound
  BY DEF RaisePromise, SetPromised
<1> QED
  BY <1>1, <1>2, <1>3

LEMMA PromiseGrows ==
  ASSUME TInv, NEW n \in Node, NEW b \in Elections, RaisePromise(n, b)
  PROVE  \A a \in Node : ~ Less(promised'[a], promised[a])
<1>1. \A a \in Node : promised[a] \in BallotRec
  BY BallotsAreRecords DEF TInv, TypeOK, DurableTypeOK
<1>2. \A a \in Node : ~ Less(promised[a], promised[a])
  BY <1>1, LessOrder
<1>3. /\ \A p \in Node : p # n => promised'[p] = promised[p]
      /\ ~ Less(promised'[n], promised[n])
  BY RaisePromiseType
<1> QED
  BY <1>2, <1>3

LEMMA MonoOnPrepare ==
  ASSUME TInv, NEW n \in Node, NEW m \in msgs, OnPrepare(n, m)
  PROVE  Mono
<1>1. m.ballot \in Elections
  BY MessageTypes DEF TInv, TypeOK, OnPrepare, PrepareMsg
<1>2. votes' = votes /\ proposed' = proposed /\ msgs \subseteq msgs'
  BY DEF OnPrepare, history
<1>3. CASE RaisePromise(n, m.ballot)
  BY <1>1, <1>2, <1>3, RoundGrows, PromiseGrows DEF Mono
<1>4. CASE UNCHANGED <<promised, maxRound>>
  BY <1>2, <1>4, MonoQuiet, SameRounds
<1> QED
  BY <1>3, <1>4 DEF OnPrepare

LEMMA MonoOnHeartbeat ==
  ASSUME TInv, NEW n \in Node, NEW m \in msgs, OnHeartbeat(n, m)
  PROVE  Mono
<1>1. m.ballot \in Elections
  BY MessageTypes DEF TInv, TypeOK, OnHeartbeat, HeartbeatMsg
<1>2. /\ votes' = votes /\ proposed' = proposed /\ msgs \subseteq msgs'
      /\ RaisePromise(n, m.ballot)
  BY DEF OnHeartbeat, history
<1> QED
  BY <1>1, <1>2, RoundGrows, PromiseGrows DEF Mono

LEMMA MonoOnAccept ==
  ASSUME TInv, NEW n \in Node, NEW m \in msgs, OnAccept(n, m)
  PROVE  Mono
<1>1. m.ballot \in Elections
  BY MessageTypes DEF TInv, TypeOK, OnAccept, AcceptMsg
<1>2. proposed' = proposed /\ msgs \subseteq msgs'
  BY DEF OnAccept
<1>3. CASE MayAccept(promised[n], m.ballot)
  <2>1. /\ RaisePromise(n, m.ballot)
        /\ AcceptAt(n, m.ballot, [s \in {m.slot} |-> m.value])
    BY <1>3 DEF OnAccept
  <2>2. votes \subseteq votes'
    BY <2>1 DEF AcceptAt
  <2>3. ASSUME NEW v \in votes' \ votes PROVE ~ Less(v.ballot, promised[v.node])
    <3>1. v.node = n /\ v.ballot = m.ballot
      BY <2>1, <2>3 DEF AcceptAt
    <3> QED
      BY <1>3, <3>1 DEF MayAccept
  <2> QED
    BY <1>1, <1>2, <2>1, <2>2, <2>3, RoundGrows, PromiseGrows DEF Mono
<1>4. CASE ~ MayAccept(promised[n], m.ballot)
  <2>1. UNCHANGED <<promised, maxRound, votes>>
    BY <1>4 DEF OnAccept
  <2> QED
    BY <1>2, <2>1, MonoQuiet, SameRounds
<1> QED
  BY <1>3, <1>4

LEMMA MonoLearn ==
  ASSUME TInv, NEW n \in Node, NEW s \in Slots, NEW b, NEW v, NEW sends,
         Learn(n, s, b, v, sends)
  PROVE  Mono
<1> DEFINE k == DrainCount(n, s)
<1>1. k \in 0..k
  BY DrainCountType
<1>2. DOMAIN Drained(n, k) # {} => role[n] # Follower
  BY <1>1, DrainedType, RoleNames
<1>3. Record(n, Drained(n, k)) /\ UNCHANGED <<promised, maxRound>> /\ msgs \subseteq msgs'
  BY DEF Learn
<1> QED
  BY <1>2, <1>3, MonoRecord

LEMMA MonoOnPromise ==
  ASSUME TInv, NEW n \in Node, NEW m \in msgs, OnPromise(n, m)
  PROVE  Mono
<1>1. role[n] # Follower
  BY RoleNames DEF OnPromise
<1>2. CASE IsQuorum({p.from : p \in Collected(n, m)})
  <2>1. PICK top \in Taken(n, Collected(n, m)) : BecomeLeader(n, Collected(n, m), top)
    BY <1>2 DEF OnPromise
  <2>2. /\ Record(n, Takeover(n, Collected(n, m), top))
        /\ UNCHANGED <<promised, maxRound>> /\ msgs \subseteq msgs'
    BY <2>1 DEF BecomeLeader
  <2> QED
    BY <1>1, <2>2, MonoRecord
<1>3. CASE ~ IsQuorum({p.from : p \in Collected(n, m)})
  BY <1>3, MonoQuiet, SameRounds DEF OnPromise, durable, history
<1> QED
  BY <1>2, <1>3

LEMMA MonoPropose ==
  ASSUME TInv, NEW n \in Node, NEW v \in Value, Propose(n, v)
  PROVE  Mono
<1>1. role[n] # Follower /\ UNCHANGED <<promised, maxRound>>
  BY RoleNames DEF Propose
<1>2. CASE UNCHANGED <<accepted, proposals, nextSlot, msgs, history>>
  BY <1>1, <1>2, MonoQuiet, SameRounds DEF history
<1>3. CASE /\ Record(n, [s \in {nextSlot[n]} |-> v])
           /\ msgs' = msgs \cup Accepts(n, [s \in {nextSlot[n]} |-> v])
  BY <1>1, <1>3, MonoRecord
<1> QED
  BY <1>2, <1>3 DEF Propose

LEMMA MonoOvertaken ==
  ASSUME TInv, NEW n \in Node, NEW b \in BallotSet, Overtaken(n, b)
  PROVE  Mono
<1>1. maxRound \in [Node -> Nat] /\ b.round \in Nat
  BY BallotsAreRecords DEF TInv, TypeOK, DurableTypeOK, BallotRec
<1>2. Higher(maxRound[n], b.round) \in Nat /\ maxRound[n] <= Higher(maxRound[n], b.round)
  BY <1>1, HigherType
<1>3. /\ maxRound' = [maxRound EXCEPT ![n] = Higher(maxRound[n], b.round)]
      /\ UNCHANGED <<promised, votes, proposed, msgs>>
  BY DEF Overtaken, history
<1>4. \A a \in Node : maxRound[a] <= maxRound'[a]
  BY <1>1, <1>2, <1>3
<1> QED
  BY <1>3, <1>4, MonoQuiet

LEMMA MonoStartElection ==
  ASSUME TInv, NEW n \in Node, StartElection(n)
  PROVE  Mono
<1>1. \A a \in Node : promised[a] \in BallotRec
  BY BallotsAreRecords DEF TInv, TypeOK, DurableTypeOK
<1>2. \A a \in Node : ~ Less(promised[a], promised[a])
  BY <1>1, LessOrder
<1>3. /\ maxRound' = [maxRound EXCEPT ![n] = maxRound[n] + 1]
      /\ \E b : promised' = [promised EXCEPT ![n] = b]
      /\ UNCHANGED <<votes, proposed>> /\ msgs \subseteq msgs'
  BY DEF StartElection, history
<1>4. ~ Less(promised'[n], promised[n])
  BY StartElectionType
<1>5. \A a \in Node : ~ Less(promised'[a], promised[a])
  BY <1>2, <1>3, <1>4 DEF TInv, TypeOK, DurableTypeOK
<1>6. \A a \in Node : maxRound[a] <= maxRound'[a]
  BY <1>3 DEF TInv, TypeOK, DurableTypeOK
<1> QED
  BY <1>3, <1>5, <1>6 DEF Mono

LEMMA MonoRestart ==
  ASSUME TInv, NEW n \in Node, Restart(n) \/ FailElection(n)
  PROVE  Mono
<1>1. maxRound \in [Node -> Nat] /\ promised[n].round \in Nat
  BY BallotsAreRecords DEF TInv, TypeOK, DurableTypeOK, BallotRec
<1>2. UNCHANGED <<promised, votes, proposed, msgs>>
  BY DEF Restart, FailElection, Reset, history
<1>3. CASE Restart(n)
  <2>1. /\ Higher(maxRound[n], promised[n].round) \in Nat
        /\ maxRound[n] <= Higher(maxRound[n], promised[n].round)
    BY <1>1, HigherType
  <2>2. maxRound' = [maxRound EXCEPT ![n] = Higher(maxRound[n], promised[n].round)]
    BY <1>3 DEF Restart
  <2>3. \A a \in Node : maxRound[a] <= maxRound'[a]
    BY <1>1, <2>1, <2>2
  <2> QED
    BY <1>2, <2>3, MonoQuiet
<1>4. CASE FailElection(n)
  <2>1. maxRound' = [maxRound EXCEPT ![n] = maxRound[n] + 1]
    BY <1>4 DEF FailElection
  <2>2. \A a \in Node : maxRound[a] <= maxRound'[a]
    BY <1>1, <2>1
  <2> QED
    BY <1>2, <2>2, MonoQuiet
<1> QED
  BY <1>3, <1>4

LEMMA MonoFailPromise ==
  ASSUME TInv, NEW n \in Node, NEW m \in msgs, FailPromise(n, m)
  PROVE  Mono
<1>1. m.ballot \in Elections
  BY MessageTypes DEF TInv, TypeOK, FailPromise, PrepareMsg, AcceptMsg, HeartbeatMsg
<1>2. maxRound \in [Node -> Nat] /\ m.ballot.round \in Nat
  BY <1>1, BallotsAreRecords DEF TInv, TypeOK, DurableTypeOK, BallotRec
<1>3. /\ UNCHANGED <<promised, votes, proposed, msgs>>
      /\ maxRound' = [maxRound EXCEPT ![n] = m.ballot.round]
      /\ m.ballot.round > maxRound[n]
  BY DEF FailPromise, Reset, history
<1>4. \A a \in Node : maxRound[a] <= maxRound'[a]
  BY <1>2, <1>3
<1> QED
  BY <1>3, <1>4, MonoQuiet

LEMMA MonoFailAccept ==
  ASSUME TInv, NEW n \in Node, NEW m \in msgs, FailAccept(n, m)
  PROVE  Mono
<1>1. m.ballot \in Elections
  BY MessageTypes DEF TInv, TypeOK, FailAccept, AcceptMsg
<1>2. maxRound \in [Node -> Nat] /\ m.ballot.round \in Nat /\ m.ballot \in BallotRec
  BY <1>1, BallotsAreRecords DEF TInv, TypeOK, DurableTypeOK, BallotRec
<1>3. /\ UNCHANGED <<votes, proposed, msgs>>
      /\ maxRound' = [maxRound EXCEPT ![n] = Higher(maxRound[n], m.ballot.round)]
      /\ promised' = [promised EXCEPT ![n] = m.ballot]
      /\ Less(promised[n], m.ballot)
  BY DEF FailAccept, Reset, history
<1>4. /\ Higher(maxRound[n], m.ballot.round) \in Nat
      /\ maxRound[n] <= Higher(maxRound[n], m.ballot.round)
  BY <1>2, HigherType
<1>5. \A a \in Node : maxRound[a] <= maxRound'[a]
  BY <1>2, <1>3, <1>4
<1>6. \A a \in Node : promised[a] \in BallotRec
  BY BallotsAreRecords DEF TInv, TypeOK, DurableTypeOK
<1>7. \A a \in Node : ~ Less(promised'[a], promised[a])
  <2>1. (\A a \in Node : ~ Less(promised[a], promised[a])) /\ ~ Less(m.ballot, promised[n])
    BY <1>2, <1>3, <1>6, LessOrder
  <2> QED
    BY <1>3, <2>1 DEF TInv, TypeOK, DurableTypeOK
<1> QED
  BY <1>3, <1>5, <1>7 DEF Mono

LEMMA MonoFailTakeover ==
  ASSUME TInv, NEW n \in Node, NEW m \in msgs, FailTakeover(n, m)
  PROVE  Mono
<1>1. /\ role[n] # Follower /\ UNCHANGED <<promised, maxRound, msgs>>
      /\ \E f : Record(n, f)
  BY RoleNames DEF FailTakeover, Reset
<1> QED
  BY <1>1, MonoRecord

LEMMA MonoFailLearn ==
  ASSUME TInv, NEW n \in Node, NEW s \in Slots, NEW b, NEW v, FailLearn(n, s, b, v)
  PROVE  Mono
<1>1. PICK k \in 0..DrainCount(n, s) : Record(n, Drained(n, k))
  BY DEF FailLearn
<1>2. DOMAIN Drained(n, k) # {} => role[n] # Follower
  BY DrainedType, RoleNames
<1>3. UNCHANGED <<promised, maxRound, msgs>>
  BY DEF FailLearn, Reset
<1> QED
  BY <1>1, <1>2, <1>3, MonoRecord

LEMMA MonoStep ==
  ASSUME TInv, NEW n \in Node, NEW m \in msgs, Step(n, m)
  PROVE  Mono
<1>1. CASE OnPrepare(n, m)
  BY <1>1, MonoOnPrepare
<1>2. CASE OnPromise(n, m)
  BY <1>2, MonoOnPromise
<1>3. CASE OnAccept(n, m)
  BY <1>3, MonoOnAccept
<1>4. CASE OnAccepted(n, m)
  <2>1. m.slot \in Slots
    BY <1>4, MessageTypes DEF TInv, TypeOK, OnAccepted, AcceptedMsg
  <2>2. CASE UNCHANGED <<durable, msgs, history>>
    BY <2>2, MonoQuiet, SameRounds DEF durable, history
  <2>3. CASE \E v, sends : Learn(n, m.slot, ballot[n], v, sends)
    BY <2>1, <2>3, MonoLearn
  <2> QED
    BY <1>4, <2>2, <2>3 DEF OnAccepted
<1>5. CASE OnNack(n, m)
  <2>1. m.promised \in BallotSet
    BY <1>5, MessageTypes DEF TInv, TypeOK, OnNack, NackMsg
  <2> QED
    BY <1>5, <2>1, MonoOvertaken DEF OnNack
<1>6. CASE OnLearn(n, m)
  <2>1. m.slot \in Slots
    BY <1>6, MessageTypes DEF TInv, TypeOK, OnLearn, LearnMsg
  <2> QED
    BY <1>6, <2>1, MonoLearn DEF OnLearn
<1>7. CASE OnLearnRequest(n, m)
  BY <1>7, MonoQuiet, SameRounds DEF OnLearnRequest, durable, history
<1>8. CASE OnHeartbeat(n, m)
  BY <1>8, MonoOnHeartbeat
<1>9. CASE OnHeartbeatAck(n, m)
  <2>1. m.promised \in BallotSet
    BY <1>9, MessageTypes DEF TInv, TypeOK, OnHeartbeatAck, HeartbeatAckMsg
  <2>2. CASE Overtaken(n, m.promised)
    BY <2>1, <2>2, MonoOvertaken
  <2>3. CASE UNCHANGED <<durable, msgs, history>>
    BY <2>3, MonoQuiet, SameRounds DEF durable, history
  <2> QED
    BY <1>9, <2>2, <2>3 DEF OnHeartbeatAck
<1> QED
  BY <1>1, <1>2, <1>3, <1>4, <1>5, <1>6, <1>7, <1>8, <1>9 DEF Step

LEMMA MonoNext == TInv /\ [Next]_vars => Mono
<1> SUFFICES ASSUME TInv, [Next]_vars PROVE Mono
  OBVIOUS
<1>1. CASE UNCHANGED vars
  BY <1>1, MonoQuiet, SameRounds DEF vars, durable, history
<1>2. ASSUME NEW n \in Node, Tick(n) PROVE Mono
  <2>1. CASE StartElection(n)
    BY <2>1, MonoStartElection
  <2>2. CASE CandidateTimeout(n) \/ LeaderTimeout(n) \/ Heartbeat(n)
    BY <2>2, MonoQuiet, SameRounds
       DEF CandidateTimeout, LeaderTimeout, Heartbeat, durable, history
  <2> QED
    BY <1>2, <2>1, <2>2 DEF Tick
<1>3. ASSUME NEW n \in Node, StoreFailure(n) PROVE Mono
  <2>1. ASSUME NEW m \in msgs, FailOnLearn(n, m) PROVE Mono
    <3>1. m.slot \in Slots
      BY <2>1, MessageTypes DEF TInv, TypeOK, FailOnLearn, LearnMsg
    <3> QED
      BY <2>1, <3>1, MonoFailLearn DEF FailOnLearn
  <2>2. ASSUME NEW m \in msgs, FailOnAccepted(n, m) PROVE Mono
    <3>1. m.slot \in Slots
      BY <2>2, MessageTypes DEF TInv, TypeOK, FailOnAccepted, AcceptedMsg
    <3> QED
      BY <2>2, <3>1, MonoFailLearn DEF FailOnAccepted
  <2> QED
    BY <1>3, <2>1, <2>2, MonoRestart, MonoFailPromise, MonoFailAccept, MonoFailTakeover
       DEF StoreFailure
<1>4. ASSUME NEW n \in Node, ReadIndex(n) PROVE Mono
  BY <1>4, MonoQuiet, SameRounds DEF ReadIndex, durable, history
<1> QED
  BY <1>1, <1>2, <1>3, <1>4, MonoStep, MonoPropose, MonoRestart DEF Next

\* S3 for every cluster: promises never go back and no acceptor votes below
\* the promise it holds, restarts and failed saves included (setPromised,
\* onAccept, New).
THEOREM PromisesHold == Spec => PromiseHolds
<1>1. Init => TInv
  BY TypeInit
<1>2. TInv /\ [Next]_vars => TInv'
  BY TypeNext
<1>3. TInv /\ [Next]_vars =>
        /\ \A n \in Node : ~ Less(promised'[n], promised[n])
        /\ \A v \in votes' \ votes : ~ Less(v.ballot, promised[v.node])
  BY MonoNext DEF Mono
<1> QED
  BY <1>1, <1>2, <1>3, PTL DEF Spec, PromiseHolds

-----------------------------------------------------------------------------
(* Facts that hold for good once they hold. *)

LEMMA VotedStable ==
  ASSUME Mono, NEW a, NEW s, NEW b, NEW v, Voted(a, s, b, v)
  PROVE  Voted(a, s, b, v)'
BY DEF Mono, Voted

LEMMA PromiseRecords ==
  ASSUME TInv
  PROVE  \A a \in Node : promised[a] \in BallotRec
BY BallotsAreRecords DEF TInv, TypeOK, DurableTypeOK

LEMMA ClosedStable ==
  ASSUME TInv, TInv', Mono, NEW a \in Node, NEW s, NEW b \in Elections, Closed(a, s, b)
  PROVE  Closed(a, s, b)'
<1>1. promised[a] \in BallotRec /\ promised'[a] \in BallotRec /\ b \in BallotRec
  BY BallotsAreRecords DEF TInv, TypeOK, DurableTypeOK
<1>2. Less(b, promised[a]) /\ ~ Less(promised'[a], promised[a])
  BY DEF Closed, Mono
<1>3. Less(b, promised'[a])
  BY <1>1, <1>2, LessOrder
<1>4. ASSUME NEW v \in Values, Voted(a, s, b, v)' PROVE FALSE
  <2> DEFINE w == [node |-> a, slot |-> s, ballot |-> b, value |-> v]
  <2>1. w \in votes' /\ w.node = a /\ w.ballot = b
    BY <1>4 DEF Voted
  <2>2. w \notin votes
    BY DEF Closed, Voted
  <2>3. ~ Less(w.ballot, promised[w.node])
    BY <2>1, <2>2 DEF Mono
  <2> QED
    BY <1>2, <2>1, <2>3
<1> QED
  BY <1>3, <1>4 DEF Closed

LEMMA SafeAtStable ==
  ASSUME TInv, TInv', Mono, NEW s, NEW b, NEW v, SafeAt(s, b, v)
  PROVE  SafeAt(s, b, v)'
<1> SUFFICES ASSUME NEW c \in Elections, Less(c, b) PROVE SafeBelow(s, c, v)'
  BY DEF SafeAt
<1>1. PICK Q \in SUBSET Node :
        IsQuorum(Q) /\ \A a \in Q : Voted(a, s, c, v) \/ Closed(a, s, c)
  BY DEF SafeAt, SafeBelow
<1>2. ASSUME NEW a \in Q PROVE Voted(a, s, c, v)' \/ Closed(a, s, c)'
  BY <1>1, VotedStable, ClosedStable
<1> QED
  BY <1>1, <1>2 DEF SafeBelow

LEMMA DecidedStable ==
  ASSUME Mono, NEW s, NEW b, NEW v, Decided(s, b, v)
  PROVE  Decided(s, b, v)'
<1> DEFINE Q == {n \in Node : [node |-> n, slot |-> s, ballot |-> b, value |-> v] \in votes}
           R == {n \in Node : [node |-> n, slot |-> s, ballot |-> b, value |-> v] \in votes'}
<1>1. Q \in SUBSET Node /\ R \in SUBSET Node /\ Q \subseteq R
  BY DEF Mono
<1>2. IsQuorum(Q)
  BY DEF Decided
<1> HIDE DEF Q, R
<1>3. IsQuorum(R)
  BY <1>1, <1>2, QuorumGrows
<1> QED
  BY <1>3 DEF Decided, R

LEMMA VoteFields ==
  ASSUME NEW v \in Votes
  PROVE  /\ v.node \in Node /\ v.slot \in Slots /\ v.ballot \in Elections
         /\ v.value \in Values
         /\ v = [node |-> v.node, slot |-> v.slot, ballot |-> v.ballot, value |-> v.value]
BY DEF Votes

LEMMA CoversStable ==
  ASSUME TInv, TInv', Mono, NEW m \in PromiseMsg, NEW from,
         ~ Less(promised[m.from], m.ballot), Covers(m, from)
  PROVE  Covers(m, from)'
<1> SUFFICES ASSUME NEW v \in votes', v.node = m.from, v.slot >= from,
                    Less(v.ballot, m.ballot)
             PROVE  \E r \in m.accepted : r.slot = v.slot /\ ~ Less(r.ballot, v.ballot)
  BY DEF Covers
<1>1. m.from \in Node /\ m.ballot \in Elections
  BY DEF PromiseMsg
<1>2. v.ballot \in Elections
  BY VoteFields DEF TInv, TypeOK
<1>3. v.ballot \in BallotRec /\ m.ballot \in BallotRec /\ promised[m.from] \in BallotRec
  BY <1>1, <1>2, BallotsAreRecords, PromiseRecords
<1>4. Less(v.ballot, promised[m.from])
  BY <1>3, LessOrder
<1>5. v \in votes
  BY <1>4 DEF Mono
<1> QED
  BY <1>5 DEF Covers

LEMMA PromiseOKStable ==
  ASSUME TInv, TInv', Mono, NEW m \in PromiseMsg, PromiseOK(m)
  PROVE  PromiseOK(m)'
<1>1. m.from \in Node /\ m.ballot \in Elections
  BY DEF PromiseMsg
<1>2. ~ Less(promised'[m.from], m.ballot)
  <2>1. ~ Less(promised[m.from], m.ballot) /\ ~ Less(promised'[m.from], promised[m.from])
    BY <1>1 DEF PromiseOK, Mono
  <2>2. /\ promised[m.from] \in BallotRec /\ promised'[m.from] \in BallotRec
        /\ m.ballot \in BallotRec
    BY <1>1, BallotsAreRecords DEF TInv, TypeOK, DurableTypeOK
  <2> QED
    BY <2>1, <2>2, LessOrder
<1>3. \A r \in m.accepted :
        Voted(m.from, r.slot, r.ballot, r.value)' /\ ~ Less(m.ballot, r.ballot)
  BY VotedStable DEF PromiseOK
<1>4. PICK p \in msgs : p.type = "prepare" /\ p.ballot = m.ballot /\ Covers(m, p.fromSlot)
  BY DEF PromiseOK
<1>5. p \in msgs' /\ Covers(m, p.fromSlot)'
  BY <1>4, CoversStable DEF PromiseOK, Mono
<1> QED
  BY <1>2, <1>3, <1>4, <1>5 DEF PromiseOK

LEMMA RoundStable ==
  ASSUME TInv, TInv', Mono, NEW b \in Elections, b.round <= maxRound[b.node]
  PROVE  b.round <= maxRound'[b.node]
<1>1. b.node \in Node /\ b.round \in Nat
  BY BallotsAreRecords DEF BallotRec
<1>2. maxRound[b.node] \in Nat /\ maxRound'[b.node] \in Nat /\ maxRound[b.node] <= maxRound'[b.node]
  BY <1>1 DEF TInv, TypeOK, DurableTypeOK, Mono
<1> QED
  BY <1>1, <1>2

LEMMA MessageOKStable ==
  ASSUME TInv, TInv', Mono, NEW m \in msgs, MessageOK(m)
  PROVE  MessageOK(m)'
<1>1. m \in Message
  BY DEF TInv, TypeOK
<1>2. ASSUME m.type = "prepare" PROVE m.ballot.round <= maxRound'[m.ballot.node]
  <2>1. m.ballot \in Elections
    BY <1>1, <1>2, MessageTypes DEF PrepareMsg
  <2> QED
    BY <1>2, <2>1, RoundStable DEF MessageOK
<1>3. ASSUME m.type = "promise" PROVE PromiseOK(m)'
  <2>1. m \in PromiseMsg
    BY <1>1, <1>3, MessageTypes
  <2> QED
    BY <1>3, <2>1, PromiseOKStable DEF MessageOK
<1>4. ASSUME m.type = "accept"
      PROVE  [slot |-> m.slot, ballot |-> m.ballot, value |-> m.value] \in proposed'
  BY <1>4 DEF MessageOK, Mono
<1>5. ASSUME m.type = "accepted" PROVE \E v \in Values : Voted(m.from, m.slot, m.ballot, v)'
  BY <1>5, VotedStable DEF MessageOK
<1>6. ASSUME m.type = "learn" PROVE Decided(m.slot, m.ballot, m.value)'
  BY <1>6, DecidedStable DEF MessageOK
<1> QED
  BY <1>2, <1>3, <1>4, <1>5, <1>6 DEF MessageOK

-----------------------------------------------------------------------------
(* Agreement follows from what was proposed. *)

\* One vote per acceptor, slot and ballot.
LEMMA OneVote ==
  ASSUME VoteInv, OneValuePerBallot, NEW a, NEW c, NEW s, NEW b, NEW v, NEW w,
         Voted(a, s, b, v), Voted(c, s, b, w)
  PROVE  v = w
<1> DEFINE x == [node |-> a, slot |-> s, ballot |-> b, value |-> v]
           y == [node |-> c, slot |-> s, ballot |-> b, value |-> w]
<1>1. x \in votes /\ y \in votes
  BY DEF Voted
<1>2. [slot |-> s, ballot |-> b, value |-> v] \in proposed
  BY <1>1 DEF VoteInv
<1>3. [slot |-> s, ballot |-> b, value |-> w] \in proposed
  BY <1>1 DEF VoteInv
<1>4. [slot |-> s, ballot |-> b, value |-> v] = [slot |-> s, ballot |-> b, value |-> w]
  BY <1>2, <1>3 DEF OneValuePerBallot
<1> QED
  BY <1>4

LEMMA DecidedVotes ==
  ASSUME NEW s, NEW b, NEW v, Decided(s, b, v)
  PROVE  \E Q \in SUBSET Node : IsQuorum(Q) /\ \A a \in Q : Voted(a, s, b, v)
<1> DEFINE Q == {n \in Node : [node |-> n, slot |-> s, ballot |-> b, value |-> v] \in votes}
<1>1. Q \in SUBSET Node /\ \A a \in Q : Voted(a, s, b, v)
  BY DEF Voted
<1>2. IsQuorum(Q)
  BY DEF Decided
<1> QED
  BY <1>1, <1>2

LEMMA SafeDecided ==
  ASSUME VoteInv, OneValuePerBallot, NEW s, NEW c, NEW v, NEW w \in Values,
         SafeBelow(s, c, v), Decided(s, c, w)
  PROVE  v = w
<1>1. PICK Q \in SUBSET Node :
        IsQuorum(Q) /\ \A a \in Q : Voted(a, s, c, v) \/ Closed(a, s, c)
  BY DEF SafeBelow
<1>2. PICK R \in SUBSET Node : IsQuorum(R) /\ \A a \in R : Voted(a, s, c, w)
  BY DecidedVotes
<1>3. PICK a \in Node : a \in Q /\ a \in R
  BY <1>1, <1>2, QuorumsMeet
<1>4. Voted(a, s, c, w) /\ Voted(a, s, c, v)
  BY <1>1, <1>2, <1>3 DEF Closed
<1> QED
  BY <1>4, OneVote

LEMMA InvAgreement ==
  ASSUME TInv, VoteInv, ProposedInv
  PROVE  Agreement
<1> SUFFICES ASSUME NEW v \in votes, NEW w \in votes, v.slot = w.slot,
                    Decided(v.slot, v.ballot, v.value), Decided(w.slot, w.ballot, w.value)
             PROVE  v.value = w.value
  BY DEF Agreement
<1>1. v \in Votes /\ w \in Votes
  BY DEF TInv, TypeOK
<1>2. ASSUME NEW x \in votes, NEW y \in votes, x \in Votes, y \in Votes,
             x.slot = y.slot, Less(y.ballot, x.ballot),
             Decided(y.slot, y.ballot, y.value)
      PROVE  x.value = y.value
  <2> DEFINE p == [slot |-> x.slot, ballot |-> x.ballot, value |-> x.value]
  <2>1. p \in proposed
    BY <1>2 DEF VoteInv
  <2>2. SafeAt(p.slot, p.ballot, p.value)
    BY <2>1 DEF ProposedInv
  <2>3. SafeAt(x.slot, x.ballot, x.value)
    BY <2>2
  <2>4. y.ballot \in Elections /\ y.value \in Values
    BY <1>2, VoteFields
  <2>5. SafeBelow(y.slot, y.ballot, x.value)
    BY <1>2, <2>3, <2>4 DEF SafeAt
  <2> QED
    BY <1>2, <2>4, <2>5, SafeDecided DEF ProposedInv
<1>3. v.ballot \in BallotRec /\ w.ballot \in BallotRec
  BY <1>1, VoteFields, BallotsAreRecords
<1>4. CASE Less(v.ballot, w.ballot)
  BY <1>1, <1>2, <1>4
<1>5. CASE Less(w.ballot, v.ballot)
  BY <1>1, <1>2, <1>5
<1>6. CASE v.ballot = w.ballot
  <2>1. Voted(v.node, v.slot, v.ballot, v.value) /\ Voted(w.node, w.slot, w.ballot, w.value)
    BY <1>1, VoteFields DEF Voted
  <2> QED
    BY <1>6, <2>1, OneVote DEF ProposedInv
<1> QED
  BY <1>3, <1>4, <1>5, <1>6, LessOrder

-----------------------------------------------------------------------------
(* The invariant, one component at a time. *)

\* A step that accepts nothing.
LEMMA NoVoteStep ==
  ASSUME TInv, TInv', Mono, VoteInv, AcceptedInv, UNCHANGED <<accepted, votes>>
  PROVE  VoteInv' /\ AcceptedInv'
<1>1. ASSUME NEW v \in votes PROVE ~ Less(promised'[v.node], v.ballot)
  <2>1. v.node \in Node /\ v.ballot \in Elections
    BY VoteFields DEF TInv, TypeOK
  <2>2. /\ promised[v.node] \in BallotRec /\ promised'[v.node] \in BallotRec
        /\ v.ballot \in BallotRec
    BY <2>1, BallotsAreRecords DEF TInv, TypeOK, DurableTypeOK
  <2>3. ~ Less(promised[v.node], v.ballot) /\ ~ Less(promised'[v.node], promised[v.node])
    BY <2>1 DEF VoteInv, Mono
  <2> QED
    BY <2>2, <2>3, LessOrder
<1>2. VoteInv'
  BY <1>1 DEF VoteInv, Mono
<1>3. AcceptedInv'
  BY DEF AcceptedInv, Voted
<1> QED
  BY <1>2, <1>3

\* A step in which acceptor n votes for the batch f at ballot b.
LEMMA VoteStep ==
  ASSUME TInv, TInv', Mono, VoteInv, AcceptedInv, NEW n \in Node, NEW b, NEW f,
         Batch(f), AcceptAt(n, b, f),
         DOMAIN f # {} => /\ b \in Elections
                          /\ ~ Less(b, promised[n]) /\ ~ Less(promised'[n], b),
         \A s \in DOMAIN f : [slot |-> s, ballot |-> b, value |-> f[s]] \in proposed'
  PROVE  VoteInv' /\ AcceptedInv'
<1> DEFINE new == {[node |-> n, slot |-> s, ballot |-> b, value |-> f[s]] : s \in DOMAIN f}
<1>1. votes' = votes \cup new
  BY DEF AcceptAt
<1>2. \A a \in Node : promised[a] \in BallotRec /\ promised'[a] \in BallotRec
  BY BallotsAreRecords DEF TInv, TypeOK, DurableTypeOK
<1>3. ASSUME NEW v \in votes
      PROVE  /\ [slot |-> v.slot, ballot |-> v.ballot, value |-> v.value] \in proposed'
             /\ ~ Less(promised'[v.node], v.ballot)
             /\ v.node \in Node /\ v.slot \in Slots /\ v.ballot \in BallotRec
             /\ ~ Less(promised[v.node], v.ballot)
  <2>1. v.node \in Node /\ v.ballot \in Elections /\ v.slot \in Slots
    BY VoteFields DEF TInv, TypeOK
  <2>2. v.ballot \in BallotRec
    BY <2>1, BallotsAreRecords
  <2>3. ~ Less(promised[v.node], v.ballot) /\ ~ Less(promised'[v.node], promised[v.node])
    BY <2>1 DEF VoteInv, Mono
  <2>4. ~ Less(promised'[v.node], v.ballot)
    BY <1>2, <2>1, <2>2, <2>3, LessOrder
  <2> QED
    BY <2>1, <2>2, <2>3, <2>4 DEF VoteInv, Mono
<1>4. ASSUME NEW v \in new
      PROVE  /\ [slot |-> v.slot, ballot |-> v.ballot, value |-> v.value] \in proposed'
             /\ ~ Less(promised'[v.node], v.ballot)
             /\ v.node = n /\ v.slot \in DOMAIN f /\ v.ballot = b
  <2>1. PICK s \in DOMAIN f : v = [node |-> n, slot |-> s, ballot |-> b, value |-> f[s]]
    OBVIOUS
  <2>2. v.node = n /\ v.slot = s /\ v.ballot = b /\ v.value = f[s]
    BY <2>1
  <2> QED
    BY <2>2
<1>5. VoteInv'
  BY <1>1, <1>3, <1>4 DEF VoteInv
<1>6. /\ \A s \in DOMAIN f : accepted'[n][s].ballot = b /\ accepted'[n][s].value = f[s]
      /\ \A s \in Slots : s \notin DOMAIN f => accepted'[n][s] = accepted[n][s]
      /\ \A a \in Node : a # n => accepted'[a] = accepted[a]
  BY DEF AcceptAt, Batch, TInv, TypeOK, DurableTypeOK
<1>7. ASSUME NEW a \in Node, NEW s \in Slots, accepted'[a][s].ballot # ZeroBallot
      PROVE  Voted(a, s, accepted[a][s].ballot, accepted[a][s].value)'
  <2>1. CASE a = n /\ s \in DOMAIN f
    <3>1. accepted'[a][s].ballot = b /\ accepted'[a][s].value = f[s]
      BY <1>6, <2>1
    <3>2. [node |-> n, slot |-> s, ballot |-> b, value |-> f[s]] \in votes'
      BY <1>1, <2>1
    <3> QED
      BY <2>1, <3>1, <3>2 DEF Voted
  <2>2. CASE ~ (a = n /\ s \in DOMAIN f)
    <3>1. accepted'[a][s] = accepted[a][s]
      BY <1>6, <2>2
    <3>2. Voted(a, s, accepted[a][s].ballot, accepted[a][s].value)
      BY <1>7, <3>1 DEF AcceptedInv
    <3> QED
      BY <3>1, <3>2, VotedStable
  <2> QED
    BY <2>1, <2>2
<1>8. ASSUME NEW v \in votes' PROVE ~ Less(accepted'[v.node][v.slot].ballot, v.ballot)
  <2>1. CASE v \in new
    <3>1. accepted'[v.node][v.slot].ballot = b /\ v.ballot = b /\ DOMAIN f # {}
      BY <1>4, <1>6, <2>1
    <3>2. b \in BallotRec
      BY <3>1, BallotsAreRecords
    <3> QED
      BY <3>1, <3>2, LessOrder
  <2>2. CASE v \in votes /\ v.node = n /\ v.slot \in DOMAIN f
    <3>1. accepted'[v.node][v.slot].ballot = b
      BY <1>6, <2>2
    <3>2. b \in BallotRec /\ ~ Less(b, promised[n]) /\ ~ Less(promised[n], v.ballot)
      BY <1>3, <2>2, BallotsAreRecords
    <3> QED
      BY <1>2, <1>3, <2>2, <3>1, <3>2, LessOrder
  <2>3. CASE v \in votes /\ ~ (v.node = n /\ v.slot \in DOMAIN f)
    <3>1. accepted'[v.node][v.slot] = accepted[v.node][v.slot]
      <4>1. v.node \in Node /\ v.slot \in Slots
        BY <1>3, <2>3
      <4>2. CASE v.node = n
        BY <1>6, <2>3, <4>1, <4>2
      <4>3. CASE v.node # n
        BY <1>6, <4>1, <4>3
      <4> QED
        BY <4>2, <4>3
    <3> QED
      BY <2>3, <3>1 DEF AcceptedInv
  <2> QED
    BY <1>1, <2>1, <2>2, <2>3
<1>9. AcceptedInv'
  BY <1>7, <1>8 DEF AcceptedInv
<1> QED
  BY <1>5, <1>9

LEMMA NoProposalStep ==
  ASSUME TInv, TInv', Mono, ProposedInv, UNCHANGED proposed
  PROVE  ProposedInv'
<1>1. OneValuePerBallot'
  BY DEF ProposedInv, OneValuePerBallot
<1>2. ASSUME NEW p \in proposed
      PROVE  SafeAt(p.slot, p.ballot, p.value)' /\ p.ballot.round <= maxRound'[p.ballot.node]
  <2>1. p.ballot \in Elections
    BY DEF TInv, TypeOK, PValues
  <2> QED
    BY <2>1, SafeAtStable, RoundStable DEF ProposedInv
<1> QED
  BY <1>1, <1>2 DEF ProposedInv

\* A step in which node n proposes the batch f at its ballot, and votes for it.
LEMMA RecordStep ==
  ASSUME TInv, TInv', Mono, VoteInv, AcceptedInv, ProposedInv, NEW n \in Node, NEW f,
         Batch(f), Record(n, f), UNCHANGED promised,
         DOMAIN f # {} => role[n] # Follower,
         \A s \in DOMAIN f : Unused(s, ballot[n]) /\ SafeAt(s, ballot[n], f[s])
  PROVE  VoteInv' /\ AcceptedInv' /\ ProposedInv'
<1> DEFINE new == {[slot |-> s, ballot |-> ballot[n], value |-> f[s]] : s \in DOMAIN f}
<1>1. proposed' = proposed \cup new /\ AcceptAt(n, ballot[n], f)
  BY DEF Record
<1>2. DOMAIN f # {} => /\ ballot[n] \in Elections /\ promised[n] = ballot[n]
                       /\ ballot[n].node = n /\ promised'[n] = ballot[n]
                       /\ ballot[n].round <= maxRound[n]
                       /\ ~ Less(ballot[n], ballot[n])
  <2>1. promised[n] \in BallotRec
    BY PromiseRecords
  <2> QED
    BY <2>1, LessOrder DEF TInv, RoleInv
<1>3. \A s \in DOMAIN f : [slot |-> s, ballot |-> ballot[n], value |-> f[s]] \in proposed'
  BY <1>1
<1>4. VoteInv' /\ AcceptedInv'
  BY <1>1, <1>2, <1>3, VoteStep
<1>5. ASSUME NEW p \in new
      PROVE  /\ p.slot \in DOMAIN f /\ p.ballot = ballot[n] /\ p.value = f[p.slot]
             /\ p = [slot |-> p.slot, ballot |-> p.ballot, value |-> p.value]
  OBVIOUS
<1>6. ASSUME NEW p \in proposed', NEW q \in proposed', p.ballot = q.ballot, p.slot = q.slot
      PROVE  p = q
  <2>1. CASE p \in proposed /\ q \in proposed
    BY <1>6, <2>1 DEF ProposedInv, OneValuePerBallot
  <2>2. CASE p \in new /\ q \in new
    BY <1>5, <1>6, <2>2
  <2>3. CASE (p \in new /\ q \in proposed) \/ (p \in proposed /\ q \in new)
    BY <1>5, <1>6, <2>3 DEF Unused
  <2> QED
    BY <1>1, <2>1, <2>2, <2>3
<1>7. ASSUME NEW p \in proposed'
      PROVE  SafeAt(p.slot, p.ballot, p.value) /\ p.ballot.round <= maxRound[p.ballot.node]
             /\ p.ballot \in Elections
  <2>1. CASE p \in proposed
    BY <2>1 DEF ProposedInv, TInv, TypeOK, PValues
  <2>2. CASE p \in new
    BY <1>2, <1>5, <2>2
  <2> QED
    BY <1>1, <2>1, <2>2
<1>8. ASSUME NEW p \in proposed'
      PROVE  SafeAt(p.slot, p.ballot, p.value)' /\ p.ballot.round <= maxRound'[p.ballot.node]
  BY <1>7, SafeAtStable, RoundStable
<1> QED
  BY <1>4, <1>6, <1>8 DEF ProposedInv, OneValuePerBallot

LEMMA MessageStep ==
  ASSUME TInv, TInv', Mono, MessageInv, \A m \in msgs' \ msgs : MessageOK(m)'
  PROVE  MessageInv'
BY MessageOKStable DEF MessageInv

\* The leadership state of node p.
Kept(p) ==
  /\ role'[p] = role[p] /\ ballot'[p] = ballot[p] /\ fromSlot'[p] = fromSlot[p]
  /\ promises'[p] = promises[p] /\ nextSlot'[p] = nextSlot[p]
  /\ role[p] = Leader => proposals'[p] = proposals[p]

\* The step used neither the ballot of p for a proposal nor for a Prepare.
Elsewhere(p) ==
  /\ \A q \in proposed' \ proposed : q.ballot # ballot[p]
  /\ \A m \in msgs' \ msgs : m.type = "prepare" => m.ballot # ballot[p]

LeadershipOK(p) == /\ role[p] = Candidate => CandidateOK(p)
                   /\ role[p] = Leader => LeaderOK(p)

LEMMA PromisesStable ==
  ASSUME TInv, TInv', Mono, NEW p \in Node, CandidateOK(p)
  PROVE  \A m \in promises[p] : m.ballot = ballot[p] /\ PromiseOK(m)'
<1>1. \A m \in promises[p] : m \in PromiseMsg
  BY DEF TInv, TypeOK, VolatileTypeOK
<1> QED
  BY <1>1, PromiseOKStable DEF CandidateOK

LEMMA UnusedStable ==
  ASSUME NEW p, NEW s, Elsewhere(p), Unused(s, ballot[p])
  PROVE  \A q \in proposed' : ~ (q.slot = s /\ q.ballot = ballot[p])
BY DEF Elsewhere, Unused

LEMMA KeptOK ==
  ASSUME TInv, TInv', Mono, NEW p \in Node, Kept(p), LeadershipOK(p),
         role[p] # Follower => Elsewhere(p)
  PROVE  LeadershipOK(p)'
<1>1. ASSUME role[p] = Candidate PROVE CandidateOK(p)'
  <2>1. CandidateOK(p) /\ Elsewhere(p)
    BY <1>1, RoleNames DEF LeadershipOK
  <2>2. \A s \in Slots : Unused(s, ballot[p])'
    BY <2>1, UnusedStable DEF CandidateOK, Unused, Kept
  <2>3. \A m \in msgs' : m.type = "prepare" /\ m.ballot = ballot[p] => m.fromSlot = fromSlot[p]
    BY <2>1 DEF CandidateOK, Elsewhere
  <2> QED
    BY <2>1, <2>2, <2>3, PromisesStable DEF CandidateOK, Kept
<1>2. ASSUME role[p] = Leader PROVE LeaderOK(p)'
  <2>1. LeaderOK(p) /\ Elsewhere(p)
    BY <1>2, RoleNames DEF LeadershipOK
  <2>2. PICK b : b = ballot[p] /\ b = ballot'[p]
    BY DEF Kept
  <2>3. ASSUME NEW s \in Slots, s >= nextSlot[p]
        PROVE  Unused(s, b)' /\ \A v \in Values : SafeAt(s, b, v)'
    <3>1. Unused(s, b) /\ \A v \in Values : SafeAt(s, b, v)
      BY <2>1, <2>2, <2>3 DEF LeaderOK
    <3> QED
      BY <2>1, <2>2, <3>1, UnusedStable, SafeAtStable DEF Unused
  <2>4. ASSUME NEW s \in Slots, NEW a \in proposals[p][s].accepts
        PROVE  Voted(a, s, ballot[p], proposals[p][s].value)'
    <3>1. [node |-> a, slot |-> s, ballot |-> ballot[p], value |-> proposals[p][s].value] \in votes
      BY <2>1 DEF LeaderOK, Voted
    <3> QED
      BY <1>2, <3>1 DEF Voted, Kept, Mono
  <2> QED
    BY <1>2, <2>2, <2>3, <2>4 DEF LeaderOK, Kept
<1> QED
  BY <1>1, <1>2 DEF LeadershipOK, Kept

LEMMA LeadershipSplit == LeadershipInv <=> \A p \in Node : LeadershipOK(p)
BY DEF LeadershipInv, LeadershipOK

LEMMA FollowerOK ==
  ASSUME NEW p \in Node, role'[p] = Follower
  PROVE  LeadershipOK(p)'
BY RoleNames DEF LeadershipOK

\* A step that proposes nothing and starts no election.
LEMMA PassiveStep ==
  ASSUME TInv, TInv', Mono, SafetyInv, UNCHANGED proposed,
         \A m \in msgs' \ msgs : m.type # "prepare" /\ MessageOK(m)',
         \A p \in Node : Kept(p) \/ role'[p] = Follower
  PROVE  ProposedInv' /\ MessageInv' /\ LeadershipInv'
<1>1. ProposedInv' /\ MessageInv'
  BY NoProposalStep, MessageStep DEF SafetyInv
<1>2. ASSUME NEW p \in Node PROVE LeadershipOK(p)'
  <2>1. Elsewhere(p) /\ LeadershipOK(p)
    BY LeadershipSplit DEF SafetyInv, Elsewhere
  <2> QED
    BY <2>1, KeptOK, FollowerOK
<1> QED
  BY <1>1, <1>2 DEF LeadershipInv, LeadershipOK

LEMMA NothingLearned ==
  ASSUME Mono, ChosenInv, UNCHANGED chosen
  PROVE  ChosenInv'
<1> SUFFICES ASSUME NEW n \in Node, NEW s \in Slots, Known(n, s)'
             PROVE  Decided(s, chosen[n][s].ballot, chosen[n][s].value)'
  BY DEF ChosenInv
<1>1. PICK b, v : /\ b = chosen[n][s].ballot /\ v = chosen[n][s].value
                  /\ b = chosen'[n][s].ballot /\ v = chosen'[n][s].value
  OBVIOUS
<1>2. Decided(s, b, v)
  BY <1>1 DEF ChosenInv, Known
<1>3. Decided(s, b, v)'
  BY <1>2, DecidedStable
<1> QED
  BY <1>1, <1>3

LEMMA OneLearned ==
  ASSUME TInv, Mono, ChosenInv, NEW n \in Node, NEW s \in Slots, NEW b, NEW v,
         SetChosen(n, s, b, v), Decided(s, b, v)'
  PROVE  ChosenInv'
<1> SUFFICES ASSUME NEW p \in Node, NEW t \in Slots, Known(p, t)'
             PROVE  Decided(t, chosen[p][t].ballot, chosen[p][t].value)'
  BY DEF ChosenInv
<1>1. chosen \in [Node -> [Slots -> Entries]]
  BY DEF TInv, TypeOK, DurableTypeOK
<1>2. CASE p = n /\ t = s
  <2>1. chosen'[p][t].ballot = b /\ chosen'[p][t].value = v
    BY <1>1, <1>2 DEF SetChosen
  <2> QED
    BY <1>2, <2>1
<1>3. CASE ~ (p = n /\ t = s)
  <2>1. chosen'[p][t] = chosen[p][t]
    BY <1>1, <1>3 DEF SetChosen
  <2>2. PICK c, w : /\ c = chosen[p][t].ballot /\ w = chosen[p][t].value
                    /\ c = chosen'[p][t].ballot /\ w = chosen'[p][t].value
    BY <2>1
  <2>3. Decided(t, c, w)
    BY <2>2 DEF ChosenInv, Known
  <2>4. Decided(t, c, w)'
    BY <2>3, DecidedStable
  <2> QED
    BY <2>2, <2>4
<1> QED
  BY <1>2, <1>3

-----------------------------------------------------------------------------
(* The acceptor's actions. *)

LEMMA StepDownKept ==
  ASSUME TInv, NEW n \in Node, StepDown(n)
  PROVE  \A p \in Node : Kept(p) \/ role'[p] = Follower
<1>1. VolatileTypeOK
  BY DEF TInv, TypeOK
<1> QED
  BY <1>1 DEF VolatileTypeOK, StepDown, Kept

LEMMA RaisePromiseKept ==
  ASSUME TInv, NEW n \in Node, NEW b, RaisePromise(n, b)
  PROVE  \A p \in Node : Kept(p) \/ role'[p] = Follower
<1>1. StepDown(n) \/ UNCHANGED volatile
  BY DEF RaisePromise, SetPromised
<1>2. CASE StepDown(n)
  BY <1>2, StepDownKept
<1>3. CASE UNCHANGED volatile
  BY <1>3 DEF volatile, Kept
<1> QED
  BY <1>1, <1>2, <1>3

LEMMA VolatileKept ==
  ASSUME UNCHANGED volatile
  PROVE  \A p \in Node : Kept(p)
BY DEF volatile, Kept

\* Types that nothing is claimed about.
LEMMA PlainMessage ==
  ASSUME NEW m, m.type \in {"nack", "learnRequest", "heartbeat", "heartbeatAck"}
  PROVE  MessageOK(m) /\ MessageOK(m)' /\ m.type # "prepare"
BY DEF MessageOK

\* The promise of an acceptor reports its votes below the ballot.
LEMMA PromiseSent ==
  ASSUME TInv, VoteInv, AcceptedInv, NEW n \in Node, NEW b \in Elections,
         NEW from \in 1..MaxSlot + 1, ~ Less(b, promised[n])
  PROVE  LET m == Promise(n, b, from)
         IN  /\ \A r \in m.accepted :
                  Voted(n, r.slot, r.ballot, r.value) /\ ~ Less(b, r.ballot)
             /\ Covers(m, from)
<1> DEFINE m == Promise(n, b, from)
<1>1. /\ m.from = n /\ m.ballot = b /\ m.accepted = AcceptedFrom(n, from)
  BY DEF Promise
<1>2. b \in BallotRec /\ promised[n] \in BallotRec /\ from \in Nat
  BY BallotsAreRecords, PromiseRecords, Constants
<1>3. ASSUME NEW r \in AcceptedFrom(n, from)
      PROVE  Voted(n, r.slot, r.ballot, r.value) /\ ~ Less(b, r.ballot)
  <2>1. PICK s \in Slots : /\ accepted[n][s].ballot # ZeroBallot
                           /\ r = [slot |-> s, ballot |-> accepted[n][s].ballot,
                                   value |-> accepted[n][s].value]
    BY DEF AcceptedFrom
  <2>2. r.slot = s /\ r.ballot = accepted[n][s].ballot /\ r.value = accepted[n][s].value
    BY <2>1
  <2>3. Voted(n, s, accepted[n][s].ballot, accepted[n][s].value)
    BY <2>1 DEF AcceptedInv
  <2>4. Voted(n, r.slot, r.ballot, r.value)
    BY <2>2, <2>3
  <2> DEFINE v == [node |-> n, slot |-> r.slot, ballot |-> r.ballot, value |-> r.value]
  <2>5. v \in votes /\ v.node = n /\ v.ballot = r.ballot
    BY <2>4 DEF Voted
  <2>6. ~ Less(promised[n], r.ballot) /\ r.ballot \in BallotRec
    <3>1. v.ballot \in Elections
      BY <2>5, VoteFields DEF TInv, TypeOK
    <3> HIDE DEF v
    <3> QED
      BY <2>5, <3>1, BallotsAreRecords DEF VoteInv
  <2> QED
    BY <1>2, <2>4, <2>6, LessOrder
<1>4. ASSUME NEW v \in votes, v.node = n, v.slot >= from, Less(v.ballot, b)
      PROVE  \E r \in AcceptedFrom(n, from) : r.slot = v.slot /\ ~ Less(r.ballot, v.ballot)
  <2>1. v.slot \in Slots /\ v.ballot \in Elections
    BY VoteFields DEF TInv, TypeOK
  <2>2. ~ Less(accepted[n][v.slot].ballot, v.ballot)
    BY <1>4 DEF AcceptedInv
  <2>3. accepted[n][v.slot].ballot # ZeroBallot
    BY <2>1, <2>2, BallotsAreRecords
  <2> DEFINE r == [slot |-> v.slot, ballot |-> accepted[n][v.slot].ballot,
                   value |-> accepted[n][v.slot].value]
  <2>4. r \in AcceptedFrom(n, from)
    BY <1>4, <2>1, <2>3 DEF AcceptedFrom
  <2> QED
    BY <2>2, <2>4
<1> QED
  BY <1>1, <1>3, <1>4 DEF Covers

LEMMA OnPrepareSafe ==
  ASSUME TInv, TInv', Mono, SafetyInv, NEW n \in Node, NEW m \in msgs, OnPrepare(n, m)
  PROVE  SafetyInv'
<1>1. m.ballot \in Elections /\ m.fromSlot \in 1..MaxSlot + 1 /\ m.type = "prepare"
  BY MessageTypes DEF TInv, TypeOK, OnPrepare, PrepareMsg
<1>2. UNCHANGED <<accepted, votes, proposed, chosen>>
  BY DEF OnPrepare, history
<1>3. VoteInv' /\ AcceptedInv' /\ ChosenInv'
  BY <1>2, NoVoteStep, NothingLearned DEF SafetyInv
<1>4. CASE m.ballot = promised[n] \/ MayPromise(promised[n], m.ballot)
  <2> DEFINE a == Promise(n, m.ballot, m.fromSlot)
  <2>1. RaisePromise(n, m.ballot) /\ msgs' = msgs \cup {a}
    BY <1>4 DEF OnPrepare
  <2>2. m.ballot \in BallotRec /\ promised[n] \in BallotRec
    BY <1>1, BallotsAreRecords, PromiseRecords
  <2>3. ~ Less(m.ballot, promised[n])
    BY <1>4, <2>2, LessOrder DEF MayPromise
  <2>4. /\ \A r \in a.accepted :
             Voted(n, r.slot, r.ballot, r.value) /\ ~ Less(m.ballot, r.ballot)
        /\ Covers(a, m.fromSlot)
    BY <1>1, <2>3, PromiseSent DEF SafetyInv
  <2>5. a \in PromiseMsg /\ a.from = n /\ a.ballot = m.ballot /\ a.type = "promise"
    BY <1>1, PromiseType DEF TInv, Promise
  <2>6. a = Promise(n, m.ballot, m.fromSlot)
    OBVIOUS
  <2>7. ~ Less(promised'[n], m.ballot)
    BY <1>1, <2>1, RaisePromiseType
  <2>8. PICK c : c = a /\ c = a'
    \* the reply is computed from the accepted entries, which do not change
    BY <1>2 DEF Promise, AcceptedFrom
  <2> HIDE DEF a
  <2>9. PromiseOK(c)'
    <3>1. \A r \in c.accepted : Voted(n, r.slot, r.ballot, r.value)' /\ ~ Less(m.ballot, r.ballot)
      BY <2>4, <2>8, VotedStable
    <3>2. Covers(c, m.fromSlot)'
      BY <1>2, <2>4, <2>8 DEF Covers
    <3>3. m \in msgs'
      BY <2>1
    <3> QED
      BY <1>1, <2>5, <2>7, <2>8, <3>1, <3>2, <3>3 DEF PromiseOK
  <2>10. MessageOK(c)' /\ c.type # "prepare"
    BY <2>5, <2>8, <2>9 DEF MessageOK
  <2>11. \A x \in msgs' \ msgs : x.type # "prepare" /\ MessageOK(x)'
    BY <2>1, <2>8, <2>10
  <2> QED
    BY <1>2, <1>3, <2>1, <2>11, RaisePromiseKept, PassiveStep DEF SafetyInv
<1>5. CASE ~ (m.ballot = promised[n] \/ MayPromise(promised[n], m.ballot))
  <2>1. /\ msgs' = msgs \cup {[type |-> "nack", ballot |-> m.ballot,
                               promised |-> promised[n]]}
        /\ UNCHANGED volatile
    BY <1>5 DEF OnPrepare
  <2>2. \A x \in msgs' \ msgs : x.type = "nack"
    BY <2>1
  <2>3. \A x \in msgs' \ msgs : x.type # "prepare" /\ MessageOK(x)'
    BY <2>2, PlainMessage
  <2> QED
    BY <1>2, <1>3, <2>1, <2>3, VolatileKept, PassiveStep DEF SafetyInv
<1> QED
  BY <1>4, <1>5

LEMMA OnAcceptSafe ==
  ASSUME TInv, TInv', Mono, SafetyInv, NEW n \in Node, NEW m \in msgs, OnAccept(n, m)
  PROVE  SafetyInv'
<1>1. /\ m.ballot \in Elections /\ m.slot \in Slots /\ m.value \in Values
      /\ m.type = "accept"
  BY MessageTypes DEF TInv, TypeOK, OnAccept, AcceptMsg
<1>2. UNCHANGED <<chosen, proposed>>
  BY DEF OnAccept
<1>3. ChosenInv'
  BY <1>2, NothingLearned DEF SafetyInv
<1>4. CASE MayAccept(promised[n], m.ballot)
  <2> DEFINE f == [s \in {m.slot} |-> m.value]
             a == [type |-> "accepted", from |-> n, ballot |-> m.ballot, slot |-> m.slot]
  <2>1. RaisePromise(n, m.ballot) /\ AcceptAt(n, m.ballot, f) /\ msgs' = msgs \cup {a}
    BY <1>4 DEF OnAccept
  <2>2. Batch(f) /\ DOMAIN f = {m.slot} /\ f[m.slot] = m.value
    BY <1>1 DEF Batch
  <2>3. ~ Less(m.ballot, promised[n]) /\ ~ Less(promised'[n], m.ballot)
    BY <1>1, <1>4, <2>1, RaisePromiseType DEF MayAccept
  <2>4. [slot |-> m.slot, ballot |-> m.ballot, value |-> m.value] \in proposed'
    BY <1>1, <1>2 DEF SafetyInv, MessageInv, MessageOK
  <2>5. [node |-> n, slot |-> m.slot, ballot |-> m.ballot, value |-> m.value] \in votes'
    BY <2>1 DEF AcceptAt
  <2> HIDE DEF f
  <2>6. VoteInv' /\ AcceptedInv'
    BY <1>1, <2>1, <2>2, <2>3, <2>4, VoteStep DEF SafetyInv
  <2>7. MessageOK(a)' /\ a.type # "prepare"
    <3>1. a.type = "accepted" /\ a.from = n /\ a.slot = m.slot /\ a.ballot = m.ballot
      OBVIOUS
    <3>2. Voted(n, m.slot, m.ballot, m.value)'
      BY <2>5 DEF Voted
    <3> HIDE DEF a
    <3> QED
      BY <1>1, <3>1, <3>2 DEF MessageOK
  <2>8. \A x \in msgs' \ msgs : x.type # "prepare" /\ MessageOK(x)'
    <3>1. PICK c : c = a /\ c = a'
      OBVIOUS
    <3> HIDE DEF a
    <3> QED
      BY <2>1, <2>7, <3>1
  <2> QED
    BY <1>2, <1>3, <2>1, <2>6, <2>8, RaisePromiseKept, PassiveStep DEF SafetyInv
<1>5. CASE ~ MayAccept(promised[n], m.ballot)
  <2>1. /\ msgs' = msgs \cup {[type |-> "nack", ballot |-> m.ballot,
                               promised |-> promised[n]]}
        /\ UNCHANGED <<accepted, votes, volatile>>
    BY <1>5 DEF OnAccept
  <2>2. \A x \in msgs' \ msgs : x.type = "nack"
    BY <2>1
  <2>3. \A x \in msgs' \ msgs : x.type # "prepare" /\ MessageOK(x)'
    BY <2>2, PlainMessage
  <2>4. VoteInv' /\ AcceptedInv'
    BY <2>1, NoVoteStep DEF SafetyInv
  <2> QED
    BY <1>2, <1>3, <2>1, <2>3, <2>4, VolatileKept, PassiveStep DEF SafetyInv
<1> QED
  BY <1>4, <1>5

\* A step that changes neither what is voted, proposed or learned, and sends
\* nothing of consequence.
LEMMA QuietStep ==
  ASSUME TInv, TInv', Mono, SafetyInv,
         UNCHANGED <<accepted, votes, proposed, chosen>>,
         \A m \in msgs' \ msgs :
           m.type \in {"nack", "learnRequest", "heartbeat", "heartbeatAck"},
         \A p \in Node : Kept(p) \/ role'[p] = Follower
  PROVE  SafetyInv'
<1>1. VoteInv' /\ AcceptedInv' /\ ChosenInv'
  BY NoVoteStep, NothingLearned DEF SafetyInv
<1>2. \A x \in msgs' \ msgs : x.type # "prepare" /\ MessageOK(x)'
  BY PlainMessage
<1> QED
  BY <1>1, <1>2, PassiveStep DEF SafetyInv

LEMMA OnHeartbeatSafe ==
  ASSUME TInv, TInv', Mono, SafetyInv, NEW n \in Node, NEW m \in msgs, OnHeartbeat(n, m)
  PROVE  SafetyInv'
<1>1. RaisePromise(n, m.ballot) /\ UNCHANGED <<accepted, votes, proposed, chosen>>
  BY DEF OnHeartbeat, history
<1>2. \A x \in msgs' \ msgs : x.type \in {"heartbeatAck", "learnRequest"}
  BY DEF OnHeartbeat, HeartbeatAck
<1> QED
  BY <1>1, <1>2, RaisePromiseKept, QuietStep

LEMMA ResetKept ==
  ASSUME TInv, NEW n \in Node, Reset(n)
  PROVE  (\A p \in Node : Kept(p) \/ role'[p] = Follower) /\ role'[n] = Follower
         /\ \A p \in Node : p # n => Kept(p)
<1>1. VolatileTypeOK
  BY DEF TInv, TypeOK
<1> QED
  BY <1>1 DEF VolatileTypeOK, Reset, Kept

\* The actions that leave votes, proposals and learned entries alone: timers,
\* heartbeats, reads, being overtaken, restarts and early store errors.
LEMMA QuietActionsSafe ==
  ASSUME TInv, TInv', Mono, SafetyInv, NEW n \in Node,
         \/ CandidateTimeout(n) \/ LeaderTimeout(n) \/ Heartbeat(n) \/ ReadIndex(n)
         \/ Restart(n) \/ FailElection(n)
         \/ \E m \in msgs : \/ OnNack(n, m) \/ OnHeartbeatAck(n, m)
                            \/ FailPromise(n, m) \/ FailAccept(n, m)
  PROVE  SafetyInv'
<1>1. VolatileTypeOK
  BY DEF TInv, TypeOK
<1>2. CASE CandidateTimeout(n)
  <2>1. \A p \in Node : Kept(p) \/ role'[p] = Follower
    BY <1>1, <1>2 DEF CandidateTimeout, VolatileTypeOK, Kept
  <2> QED
    BY <1>2, <2>1, QuietStep DEF CandidateTimeout, durable, history
<1>3. CASE LeaderTimeout(n)
  BY <1>3, StepDownKept, QuietStep DEF LeaderTimeout, durable, history
<1>4. CASE Heartbeat(n)
  <2>1. \A x \in msgs' \ msgs : x.type = "heartbeat"
    BY <1>4 DEF Heartbeat
  <2> QED
    BY <1>4, <2>1, VolatileKept, QuietStep DEF Heartbeat, durable, history
<1>5. CASE ReadIndex(n)
  <2>1. \A x \in msgs' \ msgs : x.type = "heartbeat"
    BY <1>5 DEF ReadIndex
  <2>2. \A p \in Node : Kept(p)
    BY <1>5 DEF ReadIndex, Kept
  <2> QED
    BY <1>5, <2>1, <2>2, QuietStep DEF ReadIndex, durable, history
<1>6. ASSUME NEW b, Overtaken(n, b) PROVE SafetyInv'
  BY <1>6, StepDownKept, QuietStep DEF Overtaken, history
<1>7. CASE \E m \in msgs : OnNack(n, m)
  BY <1>6, <1>7 DEF OnNack
<1>8. CASE \E m \in msgs : OnHeartbeatAck(n, m)
  <2>1. CASE \E b : Overtaken(n, b)
    BY <1>6, <2>1
  <2>2. CASE UNCHANGED <<durable, role, ballot, fromSlot, promises, proposals,
                         nextSlot, firstOwnSlot, queue, readSeq, msgs, history>>
    <3>1. \A p \in Node : Kept(p)
      BY <2>2 DEF Kept
    <3> QED
      BY <2>2, <3>1, QuietStep DEF durable, history
  <2> QED
    BY <1>8, <2>1, <2>2 DEF OnHeartbeatAck
<1>9. CASE Restart(n) \/ FailElection(n) \/ \E m \in msgs : FailPromise(n, m) \/ FailAccept(n, m)
  <2>1. Reset(n) /\ UNCHANGED <<accepted, votes, proposed, chosen>>
    BY <1>9 DEF Restart, FailElection, FailPromise, FailAccept, history
  <2>2. msgs' = msgs
    BY <2>1 DEF Reset
  <2> QED
    BY <2>1, <2>2, ResetKept, QuietStep
<1> QED
  BY <1>2, <1>3, <1>4, <1>5, <1>7, <1>8, <1>9

LEMMA OnLearnRequestSafe ==
  ASSUME TInv, TInv', Mono, SafetyInv, NEW n \in Node, NEW m \in msgs, OnLearnRequest(n, m)
  PROVE  SafetyInv'
<1> DEFINE S == {s \in Slots : /\ s >= m.fromSlot
                               /\ s < m.fromSlot + LearnBatch
                               /\ Known(n, s)}
<1>1. msgs' = msgs \cup Learns(n, S, {m.from}) /\ UNCHANGED <<durable, volatile, history>>
  BY DEF OnLearnRequest
<1>2. UNCHANGED <<accepted, votes, proposed, chosen>>
  BY <1>1 DEF durable, history
<1>3. VoteInv' /\ AcceptedInv' /\ ChosenInv'
  BY <1>2, NoVoteStep, NothingLearned DEF SafetyInv
<1>4. ASSUME NEW x \in msgs' \ msgs PROVE x.type # "prepare" /\ MessageOK(x)'
  <2>1. PICK s \in S, p \in {m.from} :
          x = [type |-> "learn", to |-> p, slot |-> s, ballot |-> chosen[n][s].ballot,
               value |-> chosen[n][s].value]
    BY <1>1 DEF Learns
  <2>2. /\ x.type = "learn" /\ x.slot = s /\ x.ballot = chosen[n][s].ballot
        /\ x.value = chosen[n][s].value
    BY <2>1
  <2>3. Decided(x.slot, x.ballot, x.value)
    BY <2>2 DEF SafetyInv, ChosenInv
  <2>4. Decided(x.slot, x.ballot, x.value)'
    BY <2>3, DecidedStable
  <2> QED
    BY <2>2, <2>4 DEF MessageOK
<1> QED
  BY <1>1, <1>2, <1>3, <1>4, VolatileKept, PassiveStep DEF SafetyInv

-----------------------------------------------------------------------------
(* The candidate's actions. *)

LEMMA StartElectionSafe ==
  ASSUME TInv, TInv', Mono, SafetyInv, NEW n \in Node, StartElection(n)
  PROVE  SafetyInv'
<1>1. PICK b, from : b = [round |-> maxRound[n] + 1, node |-> n] /\ from = CommitIndex(n) + 1
  OBVIOUS
<1>2. PICK c : c = Promise(n, b, from) /\ c = Promise(n, b, from)'
  BY DEF Promise, AcceptedFrom, StartElection
<1>3. /\ b \in Elections /\ b.round = maxRound[n] + 1 /\ b.node = n
      /\ maxRound' = [maxRound EXCEPT ![n] = b.round]
      /\ promised' = [promised EXCEPT ![n] = b]
      /\ role' = [role EXCEPT ![n] = Candidate]
      /\ ballot' = [ballot EXCEPT ![n] = b]
      /\ fromSlot' = [fromSlot EXCEPT ![n] = from]
      /\ promises' = [promises EXCEPT ![n] = {c}]
      /\ msgs' = msgs \cup {[type |-> "prepare", ballot |-> b, fromSlot |-> from]}
      /\ UNCHANGED <<accepted, chosen, proposals, nextSlot, votes, proposed>>
  BY <1>1, <1>2 DEF StartElection, history
<1>4. DurableTypeOK /\ VolatileTypeOK /\ maxRound[n] \in Nat /\ from \in 1..MaxSlot + 1
  BY <1>1, CommitIndexType, Constants DEF TInv, TypeOK, DurableTypeOK
<1>5. VoteInv' /\ AcceptedInv' /\ ChosenInv' /\ ProposedInv'
  BY <1>3, NoVoteStep, NothingLearned, NoProposalStep DEF SafetyInv
<1> DEFINE pr == [type |-> "prepare", ballot |-> b, fromSlot |-> from]
<1>6. pr.type = "prepare" /\ pr.ballot = b /\ pr.fromSlot = from /\ pr \in msgs'
  BY <1>3
<1>7. MessageInv'
  <2>1. b.round <= maxRound'[b.node]
    BY <1>3, <1>4 DEF DurableTypeOK
  <2>2. ASSUME NEW x \in msgs' \ msgs PROVE MessageOK(x)'
    <3>1. x.type = "prepare" /\ x.ballot = b
      BY <1>3
    <3> QED
      BY <2>1, <3>1 DEF MessageOK
  <2> QED
    BY <2>2, MessageStep DEF SafetyInv
<1>8. \A q \in proposed : q.ballot # b
  <2>1. ASSUME NEW q \in proposed, q.ballot = b PROVE FALSE
    <3>1. q.ballot.round <= maxRound[q.ballot.node]
      BY DEF SafetyInv, ProposedInv
    <3> QED
      BY <1>3, <1>4, <2>1, <3>1
  <2> QED
    BY <2>1
<1>9. \A x \in msgs : x.type = "prepare" => x.ballot # b
  <2>1. ASSUME NEW x \in msgs, x.type = "prepare", x.ballot = b PROVE FALSE
    <3>1. x.ballot.round <= maxRound[x.ballot.node]
      BY <2>1 DEF SafetyInv, MessageInv, MessageOK
    <3> QED
      BY <1>3, <1>4, <2>1, <3>1
  <2> QED
    BY <2>1
<1>10. PromiseOK(c)' /\ c.ballot = b
  <2>1. b \in BallotRec /\ promised[n] \in BallotRec
    BY <1>3, BallotsAreRecords, PromiseRecords
  <2>2. promised'[n] = b /\ ~ Less(b, b) /\ ~ Less(b, promised[n])
    BY <1>3, <1>4, <2>1, StartElectionType, LessOrder DEF DurableTypeOK
  <2>3. /\ \A r \in c.accepted : Voted(n, r.slot, r.ballot, r.value) /\ ~ Less(b, r.ballot)
        /\ Covers(c, from)
    BY <1>2, <1>3, <1>4, <2>2, PromiseSent DEF SafetyInv
  <2>4. c.from = n /\ c.ballot = b
    BY <1>2 DEF Promise
  <2>5. \A r \in c.accepted : Voted(n, r.slot, r.ballot, r.value)' /\ ~ Less(b, r.ballot)
    BY <2>3, VotedStable
  <2>6. Covers(c, from)'
    BY <1>3, <2>3 DEF Covers
  <2> HIDE DEF pr
  <2> QED
    BY <1>6, <2>2, <2>4, <2>5, <2>6 DEF PromiseOK
<1>11. CandidateOK(n)'
  <2>1. ballot'[n] = b /\ fromSlot'[n] = from /\ promises'[n] = {c}
    BY <1>3, <1>4 DEF VolatileTypeOK
  <2>2. \A s \in Slots : Unused(s, ballot[n])'
    BY <1>3, <1>8, <2>1 DEF Unused
  <2>3. \A x \in msgs' : x.type = "prepare" /\ x.ballot = b => x.fromSlot = from
    BY <1>3, <1>9
  <2> QED
    BY <1>10, <2>1, <2>2, <2>3 DEF CandidateOK
<1>12. ASSUME NEW p \in Node PROVE LeadershipOK(p)'
  <2>1. CASE p = n
    <3>1. role'[n] = Candidate
      BY <1>3, <1>4 DEF VolatileTypeOK
    <3> QED
      BY <1>11, <2>1, <3>1, RoleNames DEF LeadershipOK
  <2>2. CASE p # n
    <3>1. Kept(p)
      BY <1>3, <1>4, <2>2 DEF VolatileTypeOK, Kept
    <3>2. role[p] # Follower => Elsewhere(p)
      BY <1>3, <2>2 DEF Elsewhere, TInv, RoleInv
    <3> QED
      BY <3>1, <3>2, KeptOK, LeadershipSplit DEF SafetyInv
  <2> QED
    BY <2>1, <2>2
<1> QED
  BY <1>5, <1>7, <1>12 DEF SafetyInv, LeadershipInv, LeadershipOK

\* What a set of promises for the candidate's ballot says about its senders.
Answers(n, got) ==
  \A p \in got : p.ballot = ballot[n] /\ PromiseOK(p)

LEMMA CollectedAnswers ==
  ASSUME TInv, SafetyInv, NEW n \in Node, NEW m \in msgs, m.type = "promise",
         role[n] = Candidate, m.ballot = ballot[n]
  PROVE  Answers(n, Collected(n, m))
<1>1. \A p \in promises[n] : p.ballot = ballot[n] /\ PromiseOK(p)
  BY DEF SafetyInv, LeadershipInv, CandidateOK
<1>2. PromiseOK(m)
  BY DEF SafetyInv, MessageInv, MessageOK
<1> QED
  BY <1>1, <1>2 DEF Answers, Collected

\* The sender of a promise that reports nothing as high as c for slot s never
\* votes at c.
LEMMA NothingReported ==
  ASSUME TInv, SafetyInv, NEW n \in Node, role[n] = Candidate,
         NEW p \in PromiseMsg, p.ballot = ballot[n], PromiseOK(p),
         NEW s \in Slots, s >= fromSlot[n],
         NEW c \in Elections, Less(c, ballot[n]),
         \A r \in p.accepted : r.slot = s => Less(r.ballot, c)
  PROVE  Closed(p.from, s, c)
<1>1. p.from \in Node /\ p.ballot \in Elections /\ p.accepted \subseteq PValues
  BY DEF PromiseMsg
<1>2. Less(c, promised[p.from])
  <2>1. ~ Less(promised[p.from], p.ballot)
    BY DEF PromiseOK
  <2>2. promised[p.from] \in BallotRec /\ p.ballot \in BallotRec /\ c \in BallotRec
    BY <1>1, PromiseRecords, BallotsAreRecords
  <2> QED
    BY <2>1, <2>2, LessOrder
<1>3. Covers(p, fromSlot[n])
  <2>1. PICK q \in msgs : q.type = "prepare" /\ q.ballot = p.ballot /\ Covers(p, q.fromSlot)
    BY DEF PromiseOK
  <2>2. q.fromSlot = fromSlot[n]
    BY <2>1 DEF SafetyInv, LeadershipInv, CandidateOK
  <2> QED
    BY <2>1, <2>2
<1>4. ASSUME NEW w \in Values, Voted(p.from, s, c, w) PROVE FALSE
  <2>1. PICK v \in votes : v.node = p.from /\ v.slot = s /\ v.ballot = c
    BY <1>4 DEF Voted
  <2>2. PICK r \in p.accepted : r.slot = s /\ ~ Less(r.ballot, c)
    BY <1>3, <2>1 DEF Covers
  <2> QED
    BY <2>2
<1> QED
  BY <1>2, <1>4 DEF Closed

\* Phase 1 of Paxos: what a majority of promises reports for a slot decides
\* which values are safe there.
LEMMA ReportsAreSafe ==
  ASSUME TInv, SafetyInv, NEW n \in Node, role[n] = Candidate,
         NEW got \in SUBSET PromiseMsg, Answers(n, got),
         IsQuorum({p.from : p \in got}),
         NEW s \in Slots, s >= fromSlot[n],
         NEW R, R = {r \in Reported(got) : r.slot = s}
  PROVE  /\ R = {} => \A v \in Values : SafeAt(s, ballot[n], v)
         /\ \A r \in R : (\A q \in R : ~ Less(r.ballot, q.ballot)) =>
              SafeAt(s, ballot[n], r.value)
<1> DEFINE Q == {p.from : p \in got}
<1>1. Q \in SUBSET Node /\ IsQuorum(Q)
  BY DEF PromiseMsg
<1>2. \A p \in got : \A r \in p.accepted : r.slot = s => r \in R
  BY DEF Reported
<1>3. ASSUME NEW c \in Elections, Less(c, ballot[n]), \A r \in R : Less(r.ballot, c),
             NEW v
      PROVE  SafeBelow(s, c, v)
  <2>1. ASSUME NEW a \in Q PROVE Closed(a, s, c)
    <3>1. PICK p \in got : p.from = a
      BY <2>1
    <3>2. \A r \in p.accepted : r.slot = s => Less(r.ballot, c)
      BY <1>2, <1>3
    <3> QED
      BY <1>3, <3>1, <3>2, NothingReported DEF Answers
  <2> HIDE DEF Q
  <2> QED
    BY <1>1, <2>1 DEF SafeBelow
<1>4. ASSUME NEW r \in R, \A q \in R : ~ Less(r.ballot, q.ballot),
             NEW c \in Elections, Less(c, ballot[n])
      PROVE  SafeBelow(s, c, r.value)
  <2>1. PICK p \in got : r \in p.accepted /\ r.slot = s
    BY DEF Reported
  <2>2. r \in PValues /\ p.from \in Node
    BY <2>1 DEF PromiseMsg
  <2>3. Voted(p.from, s, r.ballot, r.value)
    BY <2>1 DEF Answers, PromiseOK
  <2>4. r.ballot \in BallotRec /\ c \in BallotRec /\ r.ballot \in Elections
    BY <2>2, BallotsAreRecords DEF PValues
  <2>5. CASE Less(c, r.ballot)
    <3>1. PICK q \in proposed : q.slot = s /\ q.ballot = r.ballot /\ q.value = r.value
      BY <2>3 DEF Voted, SafetyInv, VoteInv
    <3>2. SafeAt(s, r.ballot, r.value)
      BY <3>1 DEF SafetyInv, ProposedInv
    <3> QED
      BY <2>5, <3>2 DEF SafeAt
  <2>6. CASE c = r.ballot
    <3>1. ASSUME NEW a \in Q PROVE Voted(a, s, c, r.value) \/ Closed(a, s, c)
      <4>1. PICK x \in got : x.from = a
        BY <3>1
      <4>2. CASE \E w \in Values : Voted(a, s, c, w)
        BY <2>3, <2>6, <4>2, OneVote DEF SafetyInv, ProposedInv
      <4>3. CASE ~ \E w \in Values : Voted(a, s, c, w)
        <5>1. ~ Less(promised[a], ballot[n])
          BY <4>1 DEF Answers, PromiseOK
        <5>2. promised[a] \in BallotRec /\ ballot[n] \in BallotRec
          BY <1>1, <3>1, PromiseRecords, BallotsAreRecords DEF TInv, TypeOK, VolatileTypeOK
        <5>3. Less(c, promised[a])
          BY <1>4, <2>4, <5>1, <5>2, LessOrder
        <5> QED
          BY <4>3, <5>3 DEF Closed
      <4> QED
        BY <4>2, <4>3
    <3> HIDE DEF Q
    <3> QED
      BY <1>1, <3>1 DEF SafeBelow
  <2>7. CASE Less(r.ballot, c)
    <3>1. ASSUME NEW q \in R PROVE Less(q.ballot, c)
      <4>1. q \in PValues
        BY DEF Reported, PromiseMsg
      <4>2. q.ballot \in BallotRec
        BY <4>1, BallotsAreRecords DEF PValues
      <4> QED
        BY <1>4, <2>4, <2>7, <4>2, LessOrder
    <3> QED
      BY <1>3, <1>4, <3>1
  <2> QED
    BY <2>4, <2>5, <2>6, <2>7, LessOrder
<1>5. ASSUME R = {} PROVE \A v \in Values : SafeAt(s, ballot[n], v)
  BY <1>3, <1>5 DEF SafeAt
<1>6. ASSUME NEW r \in R, \A q \in R : ~ Less(r.ballot, q.ballot)
      PROVE  SafeAt(s, ballot[n], r.value)
  BY <1>4, <1>6 DEF SafeAt
<1> QED
  BY <1>5, <1>6

\* Nothing is reported above the top of the log, so every value is safe there.
LEMMA AboveTop ==
  ASSUME TInv, SafetyInv, NEW n \in Node, role[n] = Candidate,
         NEW got \in SUBSET PromiseMsg, Answers(n, got), IsQuorum({p.from : p \in got}),
         NEW top \in Int, top \in Taken(n, got), \A t \in Taken(n, got) : t <= top,
         NEW s \in Slots, s > top
  PROVE  s >= fromSlot[n] /\ \A v \in Values : SafeAt(s, ballot[n], v)
<1> DEFINE R == {r \in Reported(got) : r.slot = s}
<1>1. s \in Nat /\ fromSlot[n] \in Nat
  BY Constants DEF TInv, TypeOK, VolatileTypeOK
<1>2. fromSlot[n] - 1 <= top
  BY DEF Taken
<1>3. s >= fromSlot[n]
  BY <1>1, <1>2
<1>4. R = {}
  <2>1. ASSUME NEW r \in R PROVE FALSE
    <3>1. r.slot \in Taken(n, got)
      BY <1>3 DEF Taken
    <3> QED
      BY <1>1, <3>1
  <2> QED
    BY <2>1
<1> HIDE DEF R
<1>5. R = {r \in Reported(got) : r.slot = s}
  BY DEF R
<1> QED
  BY <1>3, <1>4, <1>5, ReportsAreSafe

\* What the new leader proposes is fresh and safe at its ballot.
LEMMA TakeoverSafe ==
  ASSUME TInv, SafetyInv, NEW n \in Node, role[n] = Candidate,
         NEW got \in SUBSET PromiseMsg, Answers(n, got), IsQuorum({p.from : p \in got}),
         NEW top \in Int, top \in Taken(n, got), \A t \in Taken(n, got) : t <= top,
         NEW s \in DOMAIN Takeover(n, got, top)
  PROVE  /\ s \in Slots /\ s <= top + 1
         /\ Unused(s, ballot[n])
         /\ SafeAt(s, ballot[n], Takeover(n, got, top)[s])
<1> DEFINE R == {r \in Reported(got) : r.slot = s}
<1>1. /\ s \in Slots
      /\ s \in fromSlot[n]..top \/ s = top + 1
      /\ Takeover(n, got, top)[s] = IF s = top + 1 THEN NoOp ELSE Choose(R, NoOp)
  BY DEF Takeover
<1>2. fromSlot[n] \in Nat
  BY Constants DEF TInv, TypeOK, VolatileTypeOK
<1>3. s <= top + 1 /\ s \in Nat
  BY <1>1, <1>2, Constants
<1>4. Unused(s, ballot[n])
  BY <1>1 DEF SafetyInv, LeadershipInv, CandidateOK
<1>5. CASE s = top + 1
  <2>1. s > top
    BY <1>3, <1>5
  <2> QED
    BY <1>1, <1>3, <1>4, <1>5, <2>1, AboveTop, Constants
<1>6. CASE s # top + 1
  <2>1. s >= fromSlot[n]
    BY <1>1, <1>2, <1>6
  <2>2. R \in SUBSET PValues
    BY DEF Reported, PromiseMsg
  <2>3. Takeover(n, got, top)[s] = Choose(R, NoOp) /\ R = {r \in Reported(got) : r.slot = s}
    BY <1>1, <1>6
  <2> HIDE DEF R
  <2>4. CASE R = {}
    <3>1. Choose(R, NoOp) = NoOp
      BY <2>2, <2>4, ChooseReport
    <3> QED
      BY <1>1, <1>3, <1>4, <2>1, <2>3, <2>4, <3>1, ReportsAreSafe, Constants
  <2>5. CASE R # {}
    <3>1. PICK r \in R : Choose(R, NoOp) = r.value /\ \A q \in R : ~ Less(r.ballot, q.ballot)
      BY <2>2, <2>5, ChooseReport
    <3> QED
      BY <1>1, <1>3, <1>4, <2>1, <2>3, <3>1, ReportsAreSafe
  <2> QED
    BY <2>4, <2>5
<1> QED
  BY <1>5, <1>6

\* Only node n uses its own ballots.
LEMMA OwnBallots ==
  ASSUME TInv, NEW n \in Node, role[n] # Follower, NEW p \in Node, p # n, role[p] # Follower,
         \A q \in proposed' \ proposed : q.ballot = ballot[n],
         \A m \in msgs' \ msgs : m.type # "prepare"
  PROVE  Elsewhere(p)
<1>1. ballot[n].node = n /\ ballot[p].node = p
  BY DEF TInv, RoleInv
<1> QED
  BY <1>1 DEF Elsewhere

\* A step in which node n proposes the batch f, whose slots are fresh and safe.
\* What remains to show is what n counts on afterwards.
LEMMA BatchStep ==
  ASSUME TInv, TInv', Mono, SafetyInv, NEW n \in Node, NEW f, Batch(f), Record(n, f),
         UNCHANGED promised, DOMAIN f # {} => role[n] # Follower,
         \A s \in DOMAIN f : Unused(s, ballot[n]) /\ SafeAt(s, ballot[n], f[s]),
         \A m \in msgs' \ msgs : m \in Accepts(n, f) \/ (m.type # "prepare" /\ MessageOK(m)'),
         \A p \in Node : p # n => Kept(p),
         LeadershipOK(n)', ChosenInv'
  PROVE  SafetyInv'
<1>1. VoteInv' /\ AcceptedInv' /\ ProposedInv'
  BY RecordStep DEF SafetyInv
<1>2. ASSUME NEW m \in msgs' \ msgs PROVE m.type # "prepare" /\ MessageOK(m)'
  <2>1. CASE m \in Accepts(n, f)
    <3>1. PICK s \in DOMAIN f :
            m = [type |-> "accept", ballot |-> ballot[n], slot |-> s, value |-> f[s]]
      BY <2>1 DEF Accepts
    <3>2. [slot |-> s, ballot |-> ballot[n], value |-> f[s]] \in proposed'
      BY DEF Record
    <3>3. m.type = "accept" /\ m.ballot = ballot[n] /\ m.slot = s /\ m.value = f[s]
      BY <3>1
    <3> QED
      BY <3>2, <3>3 DEF MessageOK
  <2> QED
    BY <2>1
<1>3. MessageInv'
  BY <1>2, MessageStep DEF SafetyInv
<1>4. ASSUME NEW p \in Node PROVE LeadershipOK(p)'
  <2>1. CASE p = n
    BY <2>1
  <2>2. CASE p # n
    <3>1. ASSUME role[p] # Follower PROVE Elsewhere(p)
      <4>1. CASE DOMAIN f = {}
        <5>1. proposed' = proposed
          BY <4>1 DEF Record
        <5> QED
          BY <1>2, <5>1 DEF Elsewhere
      <4>2. CASE DOMAIN f # {}
        <5>1. \A q \in proposed' \ proposed : q.ballot = ballot[n]
          BY DEF Record
        <5> QED
          BY <1>2, <2>2, <3>1, <4>2, <5>1, OwnBallots
      <4> QED
        BY <4>1, <4>2
    <3> QED
      BY <2>2, <3>1, KeptOK, LeadershipSplit DEF SafetyInv
  <2> QED
    BY <2>1, <2>2
<1>5. LeadershipInv'
  BY <1>4 DEF LeadershipInv, LeadershipOK
<1> QED
  BY <1>1, <1>3, <1>5 DEF SafetyInv

LEMMA BecomeLeaderSafe ==
  ASSUME TInv, TInv', Mono, SafetyInv, NEW n \in Node, role[n] = Candidate,
         NEW got \in SUBSET PromiseMsg, Answers(n, got), IsQuorum({p.from : p \in got}),
         NEW top \in Int, top \in Taken(n, got), \A t \in Taken(n, got) : t <= top,
         BecomeLeader(n, got, top)
  PROVE  SafetyInv'
<1> DEFINE g == Takeover(n, got, top)
<1>1. PICK f : f = g
  OBVIOUS
<1>2. /\ role' = [role EXCEPT ![n] = Leader]
      /\ nextSlot' = [nextSlot EXCEPT ![n] = top + 2]
      /\ proposals' = [proposals EXCEPT ![n] =
           [s \in Slots |-> IF s \in DOMAIN f
                            THEN [value |-> f[s], accepts |-> {n}] ELSE Idle]]
      /\ fromSlot' = [fromSlot EXCEPT ![n] = 0]
      /\ promises' = [promises EXCEPT ![n] = {}]
      /\ Record(n, f)
      /\ msgs' = msgs \cup Accepts(n, f)
      /\ UNCHANGED <<promised, maxRound, chosen, ballot>>
  BY <1>1 DEF BecomeLeader, FirstFree
<1>3. Batch(f) /\ \A s \in DOMAIN f : /\ s \in Slots /\ s <= top + 1
                                      /\ Unused(s, ballot[n]) /\ SafeAt(s, ballot[n], f[s])
  BY <1>1, TakeoverType, TakeoverSafe
<1> HIDE DEF g
<1>4. VolatileTypeOK
  BY DEF TInv, TypeOK
<1>5. role'[n] = Leader /\ nextSlot'[n] = top + 2 /\ ballot'[n] = ballot[n]
  BY <1>2, <1>4 DEF VolatileTypeOK
<1>6. \A p \in Node : p # n => Kept(p)
  BY <1>2, <1>4 DEF VolatileTypeOK, Kept
<1>7. PICK b : b = ballot[n] /\ b = ballot'[n]
  BY <1>5
<1>8. ASSUME NEW s \in Slots, s >= top + 2
      PROVE  Unused(s, b)' /\ \A v \in Values : SafeAt(s, b, v)'
  <2>1. s \in Nat /\ s > top
    BY <1>8, Constants
  <2>2. \A v \in Values : SafeAt(s, b, v)
    BY <1>7, <2>1, AboveTop
  <2>3. \A v \in Values : SafeAt(s, b, v)'
    BY <2>2, SafeAtStable
  <2>4. Unused(s, b)
    BY <1>7 DEF SafetyInv, LeadershipInv, CandidateOK
  <2>5. ASSUME NEW q \in proposed', q.slot = s, q.ballot = b PROVE FALSE
    <3>1. q \notin proposed
      BY <2>4, <2>5 DEF Unused
    <3>2. PICK t \in DOMAIN f : q = [slot |-> t, ballot |-> ballot[n], value |-> f[t]]
      BY <1>2, <3>1 DEF Record
    <3>3. t = s
      BY <2>5, <3>2
    <3> QED
      BY <1>3, <1>8, <2>1, <3>3
  <2> QED
    BY <2>3, <2>5 DEF Unused
<1>9. ASSUME NEW s \in Slots, NEW a \in proposals'[n][s].accepts
      PROVE  [node |-> a, slot |-> s, ballot |-> b, value |-> proposals'[n][s].value] \in votes'
  <2>1. proposals'[n][s] = IF s \in DOMAIN f THEN [value |-> f[s], accepts |-> {n}] ELSE Idle
    BY <1>2, <1>4 DEF VolatileTypeOK
  <2>2. s \in DOMAIN f /\ a = n /\ proposals'[n][s].value = f[s]
    BY <1>9, <2>1 DEF Idle
  <2>3. [node |-> n, slot |-> s, ballot |-> b, value |-> f[s]] \in votes'
    BY <1>2, <1>7, <2>2 DEF Record, AcceptAt
  <2> QED
    BY <2>2, <2>3
<1>10. LeaderOK(n)'
  BY <1>5, <1>7, <1>8, <1>9 DEF LeaderOK, Voted
<1>11. LeadershipOK(n)'
  BY <1>5, <1>10, RoleNames DEF LeadershipOK
<1>12. role[n] # Follower /\ ChosenInv'
  BY <1>2, NothingLearned, RoleNames DEF SafetyInv
<1> QED
  BY <1>2, <1>3, <1>6, <1>11, <1>12, BatchStep

LEMMA OnPromiseSafe ==
  ASSUME TInv, TInv', Mono, SafetyInv, NEW n \in Node, NEW m \in msgs, OnPromise(n, m)
  PROVE  SafetyInv'
<1> DEFINE got == Collected(n, m)
<1>1. m.type = "promise" /\ role[n] = Candidate /\ m.ballot = ballot[n]
  BY DEF OnPromise
<1>2. /\ got \subseteq PromiseMsg /\ Answers(n, got)
      /\ \A top \in Taken(n, got) : top \in Int
  BY <1>1, CollectedType, CollectedAnswers
<1>3. CASE IsQuorum({p.from : p \in got})
  <2>1. PICK top \in Taken(n, got) :
          (\A s \in Taken(n, got) : s <= top) /\ BecomeLeader(n, got, top)
    BY <1>3 DEF OnPromise
  <2> HIDE DEF got
  <2> QED
    BY <1>1, <1>2, <1>3, <2>1, BecomeLeaderSafe
<1>4. CASE ~ IsQuorum({p.from : p \in got})
  <2>1. PICK c : c = got
    OBVIOUS
  <2>2. /\ promises' = [promises EXCEPT ![n] = c]
        /\ UNCHANGED <<accepted, chosen, role, ballot, fromSlot, proposals, nextSlot,
                       msgs, proposed, votes>>
    BY <1>4, <2>1 DEF OnPromise, durable, history
  <2>3. VolatileTypeOK
    BY DEF TInv, TypeOK
  <2>4. VoteInv' /\ AcceptedInv' /\ ChosenInv' /\ ProposedInv' /\ MessageInv'
    BY <2>2, NoVoteStep, NothingLearned, NoProposalStep, MessageStep DEF SafetyInv
  <2>5. PICK b, from : b = ballot[n] /\ from = fromSlot[n]
    OBVIOUS
  <2>6. ballot'[n] = b /\ fromSlot'[n] = from /\ promises'[n] = c
    BY <2>2, <2>3, <2>5 DEF VolatileTypeOK
  <2>7. CandidateOK(n)
    BY <1>1 DEF SafetyInv, LeadershipInv
  <2>8. \A s \in Slots : Unused(s, b)'
    BY <2>2, <2>5, <2>7 DEF CandidateOK, Unused
  <2>9. \A x \in c : x.ballot = b /\ PromiseOK(x)'
    <3>1. \A x \in c : x \in PromiseMsg /\ x.ballot = b /\ PromiseOK(x)
      BY <1>2, <2>1, <2>5 DEF Answers
    <3> QED
      BY <3>1, PromiseOKStable
  <2>10. \A x \in msgs' : x.type = "prepare" /\ x.ballot = b => x.fromSlot = from
    BY <2>2, <2>5, <2>7 DEF CandidateOK
  <2>11. CandidateOK(n)'
    BY <2>6, <2>8, <2>9, <2>10 DEF CandidateOK
  <2>12. ASSUME NEW p \in Node PROVE LeadershipOK(p)'
    <3>1. CASE p = n
      BY <1>1, <2>2, <2>11, <3>1, RoleNames DEF LeadershipOK
    <3>2. CASE p # n
      <4>1. Kept(p) /\ Elsewhere(p)
        BY <2>2, <2>3, <3>2 DEF Kept, Elsewhere, VolatileTypeOK
      <4> QED
        BY <4>1, KeptOK, LeadershipSplit DEF SafetyInv
    <3> QED
      BY <3>1, <3>2
  <2> QED
    BY <2>4, <2>12 DEF SafetyInv, LeadershipInv, LeadershipOK
<1> QED
  BY <1>3, <1>4

LEMMA FailTakeoverSafe ==
  ASSUME TInv, TInv', Mono, SafetyInv, NEW n \in Node, NEW m \in msgs, FailTakeover(n, m)
  PROVE  SafetyInv'
<1> DEFINE got == Collected(n, m)
<1>1. /\ m.type = "promise" /\ role[n] = Candidate /\ m.ballot = ballot[n]
      /\ IsQuorum({p.from : p \in got})
      /\ Reset(n) /\ UNCHANGED <<promised, maxRound, chosen>>
  BY DEF FailTakeover
<1>2. /\ got \in SUBSET PromiseMsg /\ Answers(n, got)
      /\ \A top \in Taken(n, got) : top \in Int
  BY <1>1, CollectedType, CollectedAnswers
<1>3. PICK top \in Taken(n, got) :
        /\ \A s \in Taken(n, got) : s <= top
        /\ \E k \in DOMAIN Takeover(n, got, top) :
             Record(n, [s \in {t \in DOMAIN Takeover(n, got, top) : t <= k} |->
                          Takeover(n, got, top)[s]])
  BY DEF FailTakeover
<1> HIDE DEF got
<1>4. PICK k : Record(n, [s \in {t \in DOMAIN Takeover(n, got, top) : t <= k} |->
                            Takeover(n, got, top)[s]])
  BY <1>3
<1>5. PICK f : f = [s \in {t \in DOMAIN Takeover(n, got, top) : t <= k} |->
                      Takeover(n, got, top)[s]]
  OBVIOUS
<1>6. Batch(f)
  BY <1>2, <1>3, <1>5, TakeoverType, PartOfBatch
<1>7. ASSUME NEW s \in DOMAIN f
      PROVE  Unused(s, ballot[n]) /\ SafeAt(s, ballot[n], f[s])
  <2>1. s \in DOMAIN Takeover(n, got, top) /\ f[s] = Takeover(n, got, top)[s]
    BY <1>5
  <2> QED
    BY <1>1, <1>2, <1>3, <2>1, TakeoverSafe
<1>8. Record(n, f) /\ msgs' = msgs
  BY <1>1, <1>4, <1>5 DEF Reset
<1>9. LeadershipOK(n)' /\ \A p \in Node : p # n => Kept(p)
  BY <1>1, ResetKept, FollowerOK
<1>10. ChosenInv' /\ role[n] # Follower
  BY <1>1, NothingLearned, RoleNames DEF SafetyInv
<1> QED
  BY <1>1, <1>6, <1>7, <1>8, <1>9, <1>10, BatchStep

-----------------------------------------------------------------------------
(* The leader's actions, and learning. *)

\* A leader that goes on leading: it used slots below its next slot only, and
\* counts only votes that were cast.
LEMMA LeaderStill ==
  ASSUME TInv, TInv', Mono, SafetyInv, NEW n \in Node, role[n] = Leader,
         role'[n] = Leader, ballot'[n] = ballot[n], nextSlot[n] <= nextSlot'[n],
         \A q \in proposed' \ proposed : q.slot < nextSlot'[n],
         \A s \in Slots : \A a \in proposals'[n][s].accepts :
           [node |-> a, slot |-> s, ballot |-> ballot[n], value |-> proposals'[n][s].value]
             \in votes'
  PROVE  LeadershipOK(n)'
<1>1. LeaderOK(n) /\ nextSlot[n] \in Nat /\ nextSlot'[n] \in Nat
  BY DEF SafetyInv, LeadershipInv, TInv, TypeOK, VolatileTypeOK
<1>2. PICK b : b = ballot[n] /\ b = ballot'[n]
  OBVIOUS
<1>3. ASSUME NEW s \in Slots, s >= nextSlot'[n]
      PROVE  Unused(s, b)' /\ \A v \in Values : SafeAt(s, b, v)'
  <2>1. s \in Nat /\ s >= nextSlot[n]
    BY <1>1, <1>3, Constants
  <2>2. Unused(s, b) /\ \A v \in Values : SafeAt(s, b, v)
    BY <1>1, <1>2, <2>1 DEF LeaderOK
  <2>3. ASSUME NEW q \in proposed', q.slot = s, q.ballot = b PROVE FALSE
    <3>1. q \in proposed' \ proposed
      BY <2>2, <2>3 DEF Unused
    <3>2. s < nextSlot'[n]
      BY <2>3, <3>1
    <3> QED
      BY <1>1, <1>3, <2>1, <3>2
  <2> QED
    BY <2>2, <2>3, SafeAtStable DEF Unused
<1>4. LeaderOK(n)'
  BY <1>2, <1>3 DEF LeaderOK, Voted
<1> QED
  BY <1>4, RoleNames DEF LeadershipOK

\* Above its next slot a leader may propose what it likes.
LEMMA LeaderMay ==
  ASSUME SafetyInv, NEW n \in Node, role[n] = Leader, NEW f, Batch(f),
         \A s \in DOMAIN f : s >= nextSlot[n]
  PROVE  \A s \in DOMAIN f : Unused(s, ballot[n]) /\ SafeAt(s, ballot[n], f[s])
BY DEF SafetyInv, LeadershipInv, LeaderOK, Batch

\* The votes a leader counts, once it has started the batch f.
LEMMA StartedVotes ==
  ASSUME TInv, Mono, SafetyInv, NEW n \in Node, role[n] = Leader, NEW f, Batch(f),
         Record(n, f), NEW s \in Slots, NEW a \in Started(n, f)[s].accepts
  PROVE  [node |-> a, slot |-> s, ballot |-> ballot[n], value |-> Started(n, f)[s].value]
           \in votes'
<1>1. Started(n, f)[s] = IF s \in DOMAIN f THEN [value |-> f[s], accepts |-> {n}]
                         ELSE proposals[n][s]
  BY DEF Started
<1>2. CASE s \in DOMAIN f
  BY <1>1, <1>2 DEF Record, AcceptAt
<1>3. CASE s \notin DOMAIN f
  <2>1. Voted(a, s, ballot[n], proposals[n][s].value)
    BY <1>1, <1>3 DEF SafetyInv, LeadershipInv, LeaderOK
  <2> QED
    BY <1>1, <1>3, <2>1 DEF Voted, Mono
<1> QED
  BY <1>2, <1>3

LEMMA ProposeSafe ==
  ASSUME TInv, TInv', Mono, SafetyInv, NEW n \in Node, NEW v \in Value, Propose(n, v)
  PROVE  SafetyInv'
<1>1. /\ role[n] = Leader /\ nextSlot[n] + Len(queue[n]) \in Slots
      /\ UNCHANGED <<promised, maxRound, chosen, role, ballot, fromSlot, promises>>
  BY DEF Propose
<1>2. VolatileTypeOK /\ nextSlot[n] \in Nat /\ Len(queue[n]) \in Nat
  BY DEF TInv, TypeOK, VolatileTypeOK
<1>3. CASE UNCHANGED <<accepted, proposals, nextSlot, msgs, history>>
  <2>1. \A p \in Node : Kept(p)
    BY <1>1, <1>3 DEF Kept
  <2> QED
    BY <1>1, <1>3, <2>1, QuietStep DEF history
<1>4. CASE ~ UNCHANGED <<accepted, proposals, nextSlot, msgs, history>>
  <2> DEFINE g == [s \in {nextSlot[n]} |-> v]
  <2>1. PICK f : f = g
    OBVIOUS
  <2>2. /\ proposals' = [proposals EXCEPT ![n] = Started(n, f)]
        /\ nextSlot' = [nextSlot EXCEPT ![n] = nextSlot[n] + 1]
        /\ Record(n, f) /\ msgs' = msgs \cup Accepts(n, f)
        /\ UNCHANGED queue
    BY <1>4, <2>1 DEF Propose
  <2>3. DOMAIN f = {nextSlot[n]} /\ f[nextSlot[n]] = v
    BY <2>1
  <2> HIDE DEF g
  <2>4. CASE nextSlot[n] \in Slots
    <3>1. Batch(f)
      BY <2>3, <2>4, Constants DEF Batch
    <3>2. \A s \in DOMAIN f : Unused(s, ballot[n]) /\ SafeAt(s, ballot[n], f[s])
      BY <1>1, <1>2, <2>3, <3>1, LeaderMay
    <3>3. /\ proposals'[n] = Started(n, f) /\ nextSlot'[n] = nextSlot[n] + 1
          /\ \A p \in Node : p # n => Kept(p)
      BY <1>1, <1>2, <2>2 DEF VolatileTypeOK, Kept
    <3>4. \A q \in proposed' \ proposed : q.slot < nextSlot'[n]
      <4>1. \A q \in proposed' \ proposed : q.slot = nextSlot[n]
        BY <2>2, <2>3 DEF Record
      <4> QED
        BY <1>2, <3>3, <4>1
    <3>5. \A s \in Slots : \A a \in proposals'[n][s].accepts :
            [node |-> a, slot |-> s, ballot |-> ballot[n], value |-> proposals'[n][s].value]
              \in votes'
      BY <1>1, <2>2, <3>1, <3>3, StartedVotes
    <3>6. LeadershipOK(n)'
      BY <1>1, <1>2, <3>3, <3>4, <3>5, LeaderStill
    <3>7. ChosenInv' /\ role[n] # Follower
      BY <1>1, NothingLearned, RoleNames DEF SafetyInv
    <3> QED
      BY <1>1, <2>2, <3>1, <3>2, <3>3, <3>6, <3>7, BatchStep
  <2>5. nextSlot[n] \in Slots
    <3>1. nextSlot[n] # 0
      BY <1>1 DEF TInv, RoleInv
    <3> QED
      BY <1>1, <1>2, <3>1, Constants DEF Slots
  <2> QED
    BY <2>4, <2>5
<1> QED
  BY <1>3, <1>4

\* The values drained from the queue go to fresh slots.
LEMMA DrainedSafe ==
  ASSUME TInv, SafetyInv, NEW n \in Node, NEW s \in Slots, NEW k \in 0..DrainCount(n, s),
         NEW f, f = Drained(n, k)
  PROVE  /\ Batch(f) /\ (DOMAIN f # {} => role[n] = Leader)
         /\ \A t \in DOMAIN f : /\ t < nextSlot[n] + k
                                /\ Unused(t, ballot[n]) /\ SafeAt(t, ballot[n], f[t])
<1>1. Batch(f) /\ (DOMAIN f # {} => role[n] = Leader)
  BY DrainedType
<1>2. \A t \in DOMAIN f : t >= nextSlot[n] /\ t < nextSlot[n] + k
  <2>1. DOMAIN f = {u \in Slots : nextSlot[n] <= u /\ u < nextSlot[n] + k}
    BY DEF Drained
  <2>2. nextSlot[n] \in Nat
    BY DEF TInv, TypeOK, VolatileTypeOK
  <2> QED
    BY <2>1, <2>2, Constants
<1>3. CASE DOMAIN f = {}
  BY <1>1, <1>3
<1>4. CASE DOMAIN f # {}
  BY <1>1, <1>2, <1>4, LeaderMay
<1> QED
  BY <1>3, <1>4

\* learn records a decided value.
LEMMA LearnSafe ==
  ASSUME TInv, TInv', Mono, SafetyInv, NEW n \in Node, NEW s \in Slots, NEW b, NEW v,
         NEW sends, Learn(n, s, b, v, sends), Decided(s, b, v),
         \A m \in sends : m.type = "learn" /\ m.slot = s /\ m.ballot = b /\ m.value = v
  PROVE  SafetyInv'
<1>1. PICK k : k = DrainCount(n, s)
  OBVIOUS
<1>2. PICK f : f = Drained(n, k)
  OBVIOUS
<1>3. /\ SetChosen(n, s, b, v)
      /\ proposals' = [proposals EXCEPT ![n] =
           [t \in Slots |-> IF t = s /\ t \notin DOMAIN f THEN Idle ELSE Started(n, f)[t]]]
      /\ nextSlot' = [nextSlot EXCEPT ![n] = nextSlot[n] + k]
      /\ Record(n, f)
      /\ msgs' = msgs \cup Accepts(n, f) \cup sends
      /\ UNCHANGED <<promised, maxRound, role, ballot, fromSlot, promises>>
  BY <1>1, <1>2 DEF Learn
<1>4. /\ k \in Nat /\ k \in 0..DrainCount(n, s) /\ (k # 0 => role[n] = Leader)
      /\ nextSlot[n] \in Nat /\ VolatileTypeOK
  <2>1. Len(queue[n]) \in Nat /\ nextSlot[n] \in Nat /\ VolatileTypeOK
    BY DEF TInv, TypeOK, VolatileTypeOK
  <2> QED
    BY <1>1, <2>1, DrainCountType
<1>5. /\ Batch(f) /\ (DOMAIN f # {} => role[n] = Leader)
      /\ \A t \in DOMAIN f : /\ t < nextSlot[n] + k
                             /\ Unused(t, ballot[n]) /\ SafeAt(t, ballot[n], f[t])
  BY <1>2, <1>4, DrainedSafe
<1>6. /\ nextSlot'[n] = nextSlot[n] + k
      /\ \A t \in Slots : proposals'[n][t] =
           IF t = s /\ t \notin DOMAIN f THEN Idle ELSE Started(n, f)[t]
      /\ \A p \in Node : p # n => Kept(p)
  BY <1>3, <1>4 DEF VolatileTypeOK, Kept
<1>7. Decided(s, b, v)'
  BY DecidedStable
<1>8. ChosenInv'
  BY <1>3, <1>7, OneLearned DEF SafetyInv
<1>9. \A m \in sends : m.type # "prepare" /\ MessageOK(m)'
  BY <1>7 DEF MessageOK
<1>10. \A q \in proposed' \ proposed : q.ballot = ballot[n] /\ q.slot \in DOMAIN f
  BY <1>3 DEF Record
<1>11. LeadershipOK(n)'
  <2>1. CASE role[n] = Leader
    <3>1. \A t \in Slots : \A a \in proposals'[n][t].accepts :
            [node |-> a, slot |-> t, ballot |-> ballot[n], value |-> proposals'[n][t].value]
              \in votes'
      <4>1. ASSUME NEW t \in Slots, NEW a \in proposals'[n][t].accepts
            PROVE  [node |-> a, slot |-> t, ballot |-> ballot[n],
                    value |-> proposals'[n][t].value] \in votes'
        <5>1. proposals'[n][t] = Started(n, f)[t]
          BY <1>6, <4>1 DEF Idle
        <5> QED
          BY <1>3, <1>5, <2>1, <4>1, <5>1, StartedVotes
      <4> QED
        BY <4>1
    <3>2. \A q \in proposed' \ proposed : q.slot < nextSlot'[n]
      BY <1>5, <1>6, <1>10
    <3>3. nextSlot[n] <= nextSlot'[n]
      BY <1>4, <1>6
    <3> QED
      BY <1>3, <2>1, <3>1, <3>2, <3>3, LeaderStill
  <2>2. CASE role[n] # Leader
    <3>1. DOMAIN f = {} /\ k = 0
      BY <1>4, <1>5, <2>2
    <3>2. Kept(n)
      BY <1>3, <1>4, <1>6, <2>2, <3>1 DEF Kept
    <3>3. Accepts(n, f) = {} /\ \A q \in proposed' : q \in proposed
      BY <1>10, <3>1 DEF Accepts
    <3>4. Elsewhere(n)
      BY <1>3, <1>9, <3>3 DEF Elsewhere
    <3> QED
      BY <3>2, <3>4, KeptOK, LeadershipSplit DEF SafetyInv
  <2> QED
    BY <2>1, <2>2
<1>12. DOMAIN f # {} => role[n] # Follower
  BY <1>5, RoleNames
<1> QED
  BY <1>3, <1>5, <1>6, <1>8, <1>9, <1>11, <1>12, BatchStep

\* learn stopped by a store error.
LEMMA FailLearnSafe ==
  ASSUME TInv, TInv', Mono, SafetyInv, NEW n \in Node, NEW s \in Slots, NEW b, NEW v,
         FailLearn(n, s, b, v), Decided(s, b, v)
  PROVE  SafetyInv'
<1>1. PICK k \in 0..DrainCount(n, s) : Record(n, Drained(n, k))
  BY DEF FailLearn
<1>2. PICK f : f = Drained(n, k)
  OBVIOUS
<1>3. SetChosen(n, s, b, v) /\ Reset(n) /\ UNCHANGED promised /\ Record(n, f)
  BY <1>1, <1>2 DEF FailLearn
<1>4. /\ Batch(f) /\ (DOMAIN f # {} => role[n] = Leader)
      /\ \A t \in DOMAIN f : Unused(t, ballot[n]) /\ SafeAt(t, ballot[n], f[t])
  BY <1>1, <1>2, DrainedSafe
<1>5. ChosenInv'
  BY <1>3, DecidedStable, OneLearned DEF SafetyInv
<1>6. LeadershipOK(n)' /\ \A p \in Node : p # n => Kept(p)
  BY <1>3, ResetKept, FollowerOK
<1>7. msgs' = msgs /\ (DOMAIN f # {} => role[n] # Follower)
  BY <1>3, <1>4, RoleNames DEF Reset
<1> QED
  BY <1>3, <1>4, <1>5, <1>6, <1>7, BatchStep

LEMMA LearnActionsSafe ==
  ASSUME TInv, TInv', Mono, SafetyInv, NEW n \in Node, NEW m \in msgs,
         OnLearn(n, m) \/ FailOnLearn(n, m)
  PROVE  SafetyInv'
<1>1. m.type = "learn"
  BY DEF OnLearn, FailOnLearn
<1>2. m.slot \in Slots
  BY <1>1, MessageTypes DEF TInv, TypeOK, LearnMsg
<1>3. Decided(m.slot, m.ballot, m.value)
  BY <1>1 DEF SafetyInv, MessageInv, MessageOK
<1>4. CASE OnLearn(n, m)
  BY <1>2, <1>3, <1>4, LearnSafe DEF OnLearn
<1>5. CASE FailOnLearn(n, m)
  BY <1>2, <1>3, <1>5, FailLearnSafe DEF FailOnLearn
<1> QED
  BY <1>4, <1>5

\* The acceptors a leader has counted, and the one it hears from, voted for
\* its proposal.
LEMMA CountedVotes ==
  ASSUME TInv, SafetyInv, NEW n \in Node, NEW m \in msgs, m.type = "accepted", Counts(n, m)
  PROVE  /\ m.slot \in Slots /\ m.from \in Node
         /\ proposals[n][m.slot].accepts \subseteq Node
         /\ \A a \in proposals[n][m.slot].accepts \cup {m.from} :
              Voted(a, m.slot, ballot[n], proposals[n][m.slot].value)
<1>1. m.slot \in Slots /\ m.from \in Node
  BY MessageTypes DEF TInv, TypeOK, AcceptedMsg
<1>2. proposals[n][m.slot].accepts \subseteq Node
  BY <1>1 DEF TInv, TypeOK, VolatileTypeOK
<1>3. LeaderOK(n) /\ m.ballot = ballot[n] /\ proposals[n][m.slot].accepts # {}
  BY DEF Counts, SafetyInv, LeadershipInv
<1>4. \A a \in proposals[n][m.slot].accepts :
        Voted(a, m.slot, ballot[n], proposals[n][m.slot].value)
  BY <1>1, <1>3 DEF LeaderOK
<1>5. PICK w \in Values : Voted(m.from, m.slot, ballot[n], w)
  BY <1>3 DEF SafetyInv, MessageInv, MessageOK
<1>6. w = proposals[n][m.slot].value
  BY <1>3, <1>4, <1>5, OneVote DEF SafetyInv, ProposedInv
<1> QED
  BY <1>1, <1>2, <1>4, <1>5, <1>6

LEMMA CountedDecided ==
  ASSUME TInv, SafetyInv, NEW n \in Node, NEW m \in msgs, m.type = "accepted", Counts(n, m),
         IsQuorum(proposals[n][m.slot].accepts \cup {m.from})
  PROVE  Decided(m.slot, ballot[n], proposals[n][m.slot].value)
<1> DEFINE Q == proposals[n][m.slot].accepts \cup {m.from}
           R == {a \in Node : [node |-> a, slot |-> m.slot, ballot |-> ballot[n],
                               value |-> proposals[n][m.slot].value] \in votes}
<1>1. Q \in SUBSET Node /\ Q \subseteq R /\ R \in SUBSET Node
  BY CountedVotes DEF Voted
<1>2. IsQuorum(Q)
  OBVIOUS
<1>3. IsQuorum(R)
  <2> HIDE DEF Q, R
  <2> QED
    BY <1>1, <1>2, QuorumGrows
<1> QED
  BY <1>3 DEF Decided

LEMMA OnAcceptedSafe ==
  ASSUME TInv, TInv', Mono, SafetyInv, NEW n \in Node, NEW m \in msgs, OnAccepted(n, m)
  PROVE  SafetyInv'
<1>1. m.type = "accepted" /\ Counts(n, m) /\ role[n] = Leader
  BY DEF OnAccepted, Counts
<1>2. PICK v, acks : v = proposals[n][m.slot].value
                     /\ acks = proposals[n][m.slot].accepts \cup {m.from}
  OBVIOUS
<1>3. m.slot \in Slots /\ \A a \in acks : Voted(a, m.slot, ballot[n], v)
  BY <1>1, <1>2, CountedVotes
<1>4. CASE IsQuorum(acks)
  <2>1. Decided(m.slot, ballot[n], v)
    BY <1>1, <1>2, <1>4, CountedDecided
  <2>2. PICK sends : sends = {[type |-> "learn", to |-> q, slot |-> m.slot,
                               ballot |-> ballot[n], value |-> v] : q \in Node \ {n}}
    OBVIOUS
  <2>3. Learn(n, m.slot, ballot[n], v, sends)
    BY <1>2, <1>4, <2>2 DEF OnAccepted
  <2>4. \A x \in sends : /\ x.type = "learn" /\ x.slot = m.slot
                         /\ x.ballot = ballot[n] /\ x.value = v
    BY <2>2
  <2> QED
    BY <1>3, <2>1, <2>3, <2>4, LearnSafe
<1>5. CASE ~ IsQuorum(acks)
  <2>1. /\ proposals' = [proposals EXCEPT ![n] =
             [proposals[n] EXCEPT ![m.slot] = [value |-> v, accepts |-> acks]]]
        /\ UNCHANGED <<durable, role, ballot, fromSlot, promises, nextSlot, msgs, history>>
    BY <1>2, <1>5 DEF OnAccepted
  <2>2. UNCHANGED <<accepted, votes, proposed, chosen>>
    BY <2>1 DEF durable, history
  <2>3. VoteInv' /\ AcceptedInv' /\ ChosenInv' /\ ProposedInv' /\ MessageInv'
    BY <2>1, <2>2, NoVoteStep, NothingLearned, NoProposalStep, MessageStep DEF SafetyInv
  <2>4. VolatileTypeOK /\ nextSlot[n] \in Nat
    BY DEF TInv, TypeOK, VolatileTypeOK
  <2>5. \A t \in Slots : proposals'[n][t] =
          IF t = m.slot THEN [value |-> v, accepts |-> acks] ELSE proposals[n][t]
    BY <1>3, <2>1, <2>4 DEF VolatileTypeOK
  <2>6. ASSUME NEW t \in Slots, NEW a \in proposals'[n][t].accepts
        PROVE  [node |-> a, slot |-> t, ballot |-> ballot[n],
                value |-> proposals'[n][t].value] \in votes'
    <3>1. CASE t = m.slot
      BY <1>3, <2>2, <2>5, <2>6, <3>1 DEF Voted
    <3>2. CASE t # m.slot
      <4>1. Voted(a, t, ballot[n], proposals[n][t].value)
        BY <1>1, <2>5, <2>6, <3>2 DEF SafetyInv, LeadershipInv, LeaderOK
      <4> QED
        BY <2>2, <2>5, <3>2, <4>1 DEF Voted
    <3> QED
      BY <3>1, <3>2
  <2>7. LeadershipOK(n)'
    BY <1>1, <2>1, <2>2, <2>4, <2>6, LeaderStill
  <2>8. ASSUME NEW p \in Node, p # n PROVE LeadershipOK(p)'
    <3>1. Kept(p) /\ Elsewhere(p)
      BY <2>1, <2>2, <2>4, <2>8 DEF Kept, Elsewhere, VolatileTypeOK
    <3> QED
      BY <3>1, KeptOK, LeadershipSplit DEF SafetyInv
  <2> QED
    BY <2>3, <2>7, <2>8 DEF SafetyInv, LeadershipInv, LeadershipOK
<1> QED
  BY <1>4, <1>5

LEMMA FailOnAcceptedSafe ==
  ASSUME TInv, TInv', Mono, SafetyInv, NEW n \in Node, NEW m \in msgs, FailOnAccepted(n, m)
  PROVE  SafetyInv'
<1>1. /\ m.type = "accepted" /\ Counts(n, m)
      /\ IsQuorum(proposals[n][m.slot].accepts \cup {m.from})
      /\ FailLearn(n, m.slot, ballot[n], proposals[n][m.slot].value)
  BY DEF FailOnAccepted
<1>2. m.slot \in Slots /\ Decided(m.slot, ballot[n], proposals[n][m.slot].value)
  BY <1>1, CountedVotes, CountedDecided
<1> QED
  BY <1>1, <1>2, FailLearnSafe

-----------------------------------------------------------------------------
(* The invariant holds, and what follows from it. *)

LEMMA SafetyInit == Init => SafetyInv
<1> SUFFICES ASSUME Init PROVE SafetyInv
  OBVIOUS
<1>1. VoteInv /\ ProposedInv /\ MessageInv
  BY DEF Init, VoteInv, ProposedInv, OneValuePerBallot, MessageInv
<1>2. AcceptedInv
  BY DEF Init, AcceptedInv, NoEntry
<1>3. LeadershipInv
  BY RoleNames DEF Init, LeadershipInv
<1>4. ChosenInv
  BY DEF Init, ChosenInv, Known, NoEntry
<1> QED
  BY <1>1, <1>2, <1>3, <1>4 DEF SafetyInv

LEMMA SafetyNext == TInv /\ SafetyInv /\ [Next]_vars => SafetyInv'
<1> SUFFICES ASSUME TInv, SafetyInv, [Next]_vars PROVE SafetyInv'
  OBVIOUS
<1>1. TInv' /\ Mono
  BY TypeNext, MonoNext
<1>2. CASE UNCHANGED vars
  <2>1. UNCHANGED <<accepted, votes, proposed, chosen, msgs>> /\ UNCHANGED volatile
    BY <1>2 DEF vars, durable, history
  <2> QED
    BY <1>1, <2>1, VolatileKept, QuietStep
<1>3. ASSUME NEW n \in Node, NEW m \in msgs, Step(n, m) PROVE SafetyInv'
  <2>1. CASE OnPrepare(n, m) \/ OnPromise(n, m) \/ OnAccept(n, m) \/ OnAccepted(n, m)
    BY <1>1, <2>1, OnPrepareSafe, OnPromiseSafe, OnAcceptSafe, OnAcceptedSafe
  <2>2. CASE OnLearn(n, m) \/ OnLearnRequest(n, m) \/ OnHeartbeat(n, m)
    BY <1>1, <2>2, LearnActionsSafe, OnLearnRequestSafe, OnHeartbeatSafe
  <2>3. CASE OnNack(n, m) \/ OnHeartbeatAck(n, m)
    BY <1>1, <2>3, QuietActionsSafe
  <2> QED
    BY <1>3, <2>1, <2>2, <2>3 DEF Step
<1>4. ASSUME NEW n \in Node, Tick(n) PROVE SafetyInv'
  BY <1>1, <1>4, StartElectionSafe, QuietActionsSafe DEF Tick
<1>5. ASSUME NEW n \in Node, StoreFailure(n) PROVE SafetyInv'
  <2>1. CASE FailElection(n) \/ \E m \in msgs : FailPromise(n, m) \/ FailAccept(n, m)
    BY <1>1, <2>1, QuietActionsSafe
  <2>2. CASE \E m \in msgs : \/ FailTakeover(n, m) \/ FailOnLearn(n, m)
                             \/ FailOnAccepted(n, m)
    BY <1>1, <2>2, FailTakeoverSafe, LearnActionsSafe, FailOnAcceptedSafe
  <2> QED
    BY <1>5, <2>1, <2>2 DEF StoreFailure
<1>6. ASSUME NEW n \in Node, NEW v \in Value, Propose(n, v) PROVE SafetyInv'
  BY <1>1, <1>6, ProposeSafe
<1>7. ASSUME NEW n \in Node, ReadIndex(n) \/ Restart(n) PROVE SafetyInv'
  BY <1>1, <1>7, QuietActionsSafe
<1> QED
  BY <1>2, <1>3, <1>4, <1>5, <1>6, <1>7 DEF Next

\* The inductive invariant holds in every reachable state.
THEOREM SafetyHolds == Spec => [](TInv /\ SafetyInv)
<1>1. Init => TInv /\ SafetyInv
  BY TypeInit, SafetyInit
<1>2. TInv /\ SafetyInv /\ [Next]_vars => (TInv /\ SafetyInv)'
  BY TypeNext, SafetyNext
<1> QED
  BY <1>1, <1>2, PTL DEF Spec

\* S1 for every cluster: no slot is decided with two values, whatever the
\* number of nodes, leaders, slots and values, with lost, late, duplicated and
\* reordered messages, restarts and failed saves (onAccept, becomeLeader,
\* Choose).
THEOREM LogAgrees == Spec => []Agreement
<1>1. TInv /\ SafetyInv => Agreement
  BY InvAgreement DEF SafetyInv
<1> QED
  BY <1>1, SafetyHolds, PTL

\* Every entry held or announced as chosen was accepted by a majority at the
\* ballot it names (onAccepted, onLearn, onLearnRequest).
THEOREM LearnedIsDecided == Spec => []ChosenIsDecided
<1>1. SafetyInv => ChosenIsDecided
  BY DEF SafetyInv, ChosenInv, MessageInv, MessageOK, ChosenIsDecided
<1> QED
  BY <1>1, SafetyHolds, PTL

\* S4 for every cluster: no leader uses its ballot for two values of a slot,
\* not even across a restart or a failed save (startElection, becomeLeader,
\* drainQueue).
THEOREM BallotsAreUsedOnce == Spec => []OneValuePerBallot
<1>1. SafetyInv => OneValuePerBallot
  BY DEF SafetyInv, ProposedInv
<1> QED
  BY <1>1, SafetyHolds, PTL

DecidesOnce ==
  \A s, b, c, v, w : Decided(s, b, v) /\ Decided(s, c, w) => v = w

LEMMA AgreementDecides == Agreement => DecidesOnce
<1> SUFFICES ASSUME Agreement, NEW s, NEW b, NEW c, NEW v, NEW w,
                    Decided(s, b, v), Decided(s, c, w)
             PROVE  v = w
  BY DEF DecidesOnce
<1>1. PICK Q \in SUBSET Node : IsQuorum(Q) /\ \A a \in Q : Voted(a, s, b, v)
  BY DecidedVotes
<1>2. PICK R \in SUBSET Node : IsQuorum(R) /\ \A a \in R : Voted(a, s, c, w)
  BY DecidedVotes
<1>3. PICK a \in Node : a \in Q /\ a \in R
  BY <1>1, <1>2, QuorumsMeet
<1>4. PICK x \in votes, y \in votes : /\ x.slot = s /\ x.ballot = b /\ x.value = v
                                      /\ y.slot = s /\ y.ballot = c /\ y.value = w
  BY <1>1, <1>2, <1>3 DEF Voted
<1> QED
  BY <1>4 DEF Agreement

\* A step learns at most one entry.
LEMMA LearnsOne ==
  ASSUME TInv, [Next]_vars
  PROVE  \/ chosen' = chosen
         \/ \E n \in Node, s \in Slots, b \in Elections, v \in Values :
              SetChosen(n, s, b, v)
<1>1. CASE UNCHANGED vars
  BY <1>1 DEF vars, durable
<1>2. ASSUME NEW n \in Node, NEW m \in msgs,
             OnLearn(n, m) \/ FailOnLearn(n, m)
      PROVE  /\ SetChosen(n, m.slot, m.ballot, m.value)
             /\ m.slot \in Slots /\ m.ballot \in Elections /\ m.value \in Values
  BY <1>2, MessageTypes DEF TInv, TypeOK, LearnMsg, OnLearn, FailOnLearn, Learn, FailLearn
<1>3. ASSUME NEW n \in Node, NEW m \in msgs, OnAccepted(n, m) \/ FailOnAccepted(n, m)
      PROVE  \/ chosen' = chosen
             \/ \E v \in Values : /\ SetChosen(n, m.slot, ballot[n], v)
                                 /\ m.slot \in Slots /\ ballot[n] \in Elections
  <2>1. m.slot \in Slots /\ Counts(n, m)
    BY <1>3, MessageTypes DEF TInv, TypeOK, AcceptedMsg, OnAccepted, FailOnAccepted
  <2>2. ballot[n] \in Elections
    BY <2>1, RoleNames DEF Counts, TInv, RoleInv
  <2>3. proposals[n][m.slot].value \in Values
    BY <2>1 DEF TInv, TypeOK, VolatileTypeOK
  <2> QED
    BY <1>3, <2>1, <2>2, <2>3 DEF OnAccepted, FailOnAccepted, Learn, FailLearn, durable
<1>4. ASSUME NEW n \in Node, NEW m \in msgs, Step(n, m), ~ OnLearn(n, m), ~ OnAccepted(n, m)
      PROVE  chosen' = chosen
  BY <1>4 DEF Step, OnPrepare, OnPromise, BecomeLeader, OnAccept, OnNack, Overtaken,
              OnLearnRequest, OnHeartbeat, OnHeartbeatAck, durable
<1>5. ASSUME NEW n \in Node, Tick(n) \/ ReadIndex(n) \/ Restart(n) \/ FailElection(n)
      PROVE  chosen' = chosen
  BY <1>5 DEF Tick, StartElection, CandidateTimeout, LeaderTimeout, Heartbeat, ReadIndex,
              Restart, FailElection, durable
<1>6. ASSUME NEW n \in Node, NEW v \in Value, Propose(n, v) PROVE chosen' = chosen
  BY <1>6 DEF Propose
<1>7. ASSUME NEW n \in Node, NEW m \in msgs,
             FailPromise(n, m) \/ FailAccept(n, m) \/ FailTakeover(n, m)
      PROVE  chosen' = chosen
  BY <1>7 DEF FailPromise, FailAccept, FailTakeover
<1>8. CASE Next
  BY <1>2, <1>3, <1>4, <1>5, <1>6, <1>7, <1>8 DEF Next, StoreFailure
<1> QED
  BY <1>1, <1>8

\* S5 for every cluster: a node never forgets a chosen slot nor changes its
\* value, although learn writes it without looking (learn, onAccepted, New).
THEOREM LearnedIsStable == Spec => ChosenIsStable
<1>1. ASSUME TInv, SafetyInv, SafetyInv', DecidesOnce', [Next]_vars,
             NEW n \in Node, NEW s \in Slots, Known(n, s)
      PROVE  Known(n, s)' /\ chosen'[n][s].value = chosen[n][s].value
  <2>1. Mono
    BY <1>1, MonoNext
  <2>2. Known(n, s)'
    <3>1. CASE chosen' = chosen
      BY <1>1, <3>1 DEF Known
    <3>2. CASE \E p \in Node, t \in Slots, b \in Elections, v \in Values :
                SetChosen(p, t, b, v)
      <4>1. PICK p \in Node, t \in Slots, b \in Elections, v \in Values :
                SetChosen(p, t, b, v)
        BY <3>2
      <4>2. chosen'[n][s].ballot = b \/ chosen'[n][s].ballot = chosen[n][s].ballot
        <5>1. chosen \in [Node -> [Slots -> Entries]]
          BY <1>1 DEF TInv, TypeOK, DurableTypeOK
        <5> QED
          BY <4>1, <5>1 DEF SetChosen
      <4> QED
        BY <1>1, <4>2, BallotsAreRecords DEF Known
    <3> QED
      BY <1>1, <3>1, <3>2, LearnsOne
  <2>3. PICK b, v, c, w : /\ b = chosen[n][s].ballot /\ v = chosen[n][s].value
                          /\ c = chosen'[n][s].ballot /\ w = chosen'[n][s].value
    OBVIOUS
  <2>4. Decided(s, b, v)
    BY <1>1, <2>3 DEF SafetyInv, ChosenInv
  <2>5. Decided(s, b, v)'
    BY <2>1, <2>4, DecidedStable
  <2>6. Decided(s, c, w)'
    BY <1>1, <2>2, <2>3 DEF SafetyInv, ChosenInv
  <2>7. v = w
    BY <1>1, <2>5, <2>6 DEF DecidesOnce
  <2> QED
    BY <2>2, <2>3, <2>7
<1>2. TInv /\ SafetyInv /\ SafetyInv' /\ DecidesOnce' /\ [Next]_vars =>
        \A n \in Node, s \in Slots : Known(n, s) =>
          Known(n, s)' /\ chosen'[n][s].value = chosen[n][s].value
  BY <1>1
<1> QED
  BY <1>2, SafetyHolds, LogAgrees, AgreementDecides, PTL DEF Spec, ChosenIsStable

-----------------------------------------------------------------------------
(* The agreed log. *)

\* No step but a vote decides.
SameDecisions == \A s \in Slots : \A b, v : Decided(s, b, v)' => Decided(s, b, v)

DecisionsOf(s) == {v \in Values : \E b \in Elections : Decided(s, b, v)}

LogIsDecisions == DecidedLog = [s \in Slots |-> DecisionsOf(s)]

LEMMA DecidedLogIs == TInv => LogIsDecisions
<1> SUFFICES ASSUME TInv, NEW s \in Slots
             PROVE  {v.value : v \in {w \in votes : w.slot = s /\ Decided(s, w.ballot, w.value)}}
                      = {v \in Values : \E b \in Elections : Decided(s, b, v)}
  BY DEF DecidedLog, LogIsDecisions, DecisionsOf
<1>1. ASSUME NEW w \in votes, w.slot = s, Decided(s, w.ballot, w.value)
      PROVE  w.value \in Values /\ w.ballot \in Elections
  BY VoteFields DEF TInv, TypeOK
<1>2. ASSUME NEW v \in Values, NEW b \in Elections, Decided(s, b, v)
      PROVE  \E w \in votes : w.slot = s /\ w.ballot = b /\ w.value = v
  <2>1. PICK Q \in SUBSET Node : IsQuorum(Q) /\ \A a \in Q : Voted(a, s, b, v)
    BY <1>2, DecidedVotes
  <2>2. PICK a \in Node : a \in Q
    BY <2>1, QuorumsMeet
  <2> QED
    BY <2>1, <2>2 DEF Voted
<1> QED
  BY <1>1, <1>2

LEMMA DecidedLogNext == TInv' => LogIsDecisions'
BY DecidedLogIs, PTL

\* One vote decides its slot or nothing.
LEMMA DecideStep ==
  ASSUME TInv, TInv', Mono, DecidesOnce', UNCHANGED chosen, NEW t \in Slots,
         \A s \in Slots : \A b, v : s # t /\ Decided(s, b, v)' => Decided(s, b, v)
  PROVE  [Log!Next]_<<DecidedLog, KnownSlots>>
<1> DEFINE D(s) == {v \in Values : \E b \in Elections : Decided(s, b, v)}
           E(s) == {v \in Values : \E b \in Elections : Decided(s, b, v)'}
<1>1. DecidedLog = [s \in Slots |-> D(s)] /\ DecidedLog' = [s \in Slots |-> E(s)]
  BY DecidedLogIs, DecidedLogNext DEF LogIsDecisions, DecisionsOf
<1>2. KnownSlots' = KnownSlots
  BY DEF KnownSlots, Known
<1>3. \A s \in Slots : D(s) \subseteq E(s)
  BY DecidedStable
<1>4. \A s \in Slots : s # t => E(s) = D(s)
  BY <1>3
<1>5. \A v, w \in E(t) : v = w
  BY DEF DecidesOnce
<1> HIDE DEF D, E
<1>6. CASE E(t) = D(t)
  <2>1. DecidedLog' = DecidedLog
    BY <1>1, <1>4, <1>6
  <2> QED
    BY <1>2, <2>1
<1>7. CASE E(t) # D(t)
  <2>1. PICK v : v \in E(t) /\ v \notin D(t)
    BY <1>3, <1>7
  <2>2. E(t) = {v} /\ D(t) = {}
    BY <1>3, <1>5, <2>1
  <2>3. v \in Values
    BY <2>1 DEF E
  <2>4. DecidedLog' = [DecidedLog EXCEPT ![t] = {v}] /\ DecidedLog[t] = {}
    BY <1>1, <1>4, <2>2
  <2>5. Log!Decide(t, v)
    BY <1>2, <2>4 DEF Log!Decide
  <2> QED
    BY <2>3, <2>5 DEF Log!Next
<1> QED
  BY <1>6, <1>7

\* A node learns what is decided.
LEMMA LearnStep ==
  ASSUME TInv, TInv', Mono, SafetyInv', SameDecisions,
         NEW n \in Node, NEW s \in Slots, NEW b \in Elections, NEW v \in Values,
         SetChosen(n, s, b, v)
  PROVE  [Log!Next]_<<DecidedLog, KnownSlots>>
<1> DEFINE D(t) == {w \in Values : \E c \in Elections : Decided(t, c, w)}
           E(t) == {w \in Values : \E c \in Elections : Decided(t, c, w)'}
<1>1. DecidedLog = [t \in Slots |-> D(t)] /\ DecidedLog' = [t \in Slots |-> E(t)]
  BY DecidedLogIs, DecidedLogNext DEF LogIsDecisions, DecisionsOf
<1>2. \A t \in Slots : D(t) = E(t)
  BY DecidedStable DEF SameDecisions
<1>3. chosen \in [Node -> [Slots -> Entries]]
  BY DEF TInv, TypeOK, DurableTypeOK
<1>4. /\ \A p \in Node, t \in Slots : ~ (p = n /\ t = s) => chosen'[p][t] = chosen[p][t]
      /\ chosen'[n][s] = [ballot |-> b, value |-> v]
  BY <1>3 DEF SetChosen
<1>5. b # ZeroBallot
  BY BallotsAreRecords
<1>6. KnownSlots' = [KnownSlots EXCEPT ![n] = @ \cup {s}]
  <2>1. /\ Known(n, s)'
        /\ \A p \in Node, t \in Slots : ~ (p = n /\ t = s) => (Known(p, t)' <=> Known(p, t))
    BY <1>4, <1>5 DEF Known
  <2>2. /\ KnownSlots = [p \in Node |-> {t \in Slots : Known(p, t)}]
        /\ KnownSlots' = [p \in Node |-> {t \in Slots : Known(p, t)'}]
    BY DEF KnownSlots
  <2>3. {t \in Slots : Known(n, t)'} = {t \in Slots : Known(n, t)} \cup {s}
    BY <2>1
  <2>4. \A p \in Node : p # n => {t \in Slots : Known(p, t)'} = {t \in Slots : Known(p, t)}
    BY <2>1
  <2> QED
    BY <2>2, <2>3, <2>4
<1>7. Decided(s, b, v)'
  <2>1. Known(n, s)'
    BY <1>4, <1>5 DEF Known
  <2> QED
    BY <1>4, <2>1 DEF SafetyInv, ChosenInv
<1>8. v \in E(s)
  BY <1>7
<1> HIDE DEF D, E
<1>9. DecidedLog' = DecidedLog /\ DecidedLog[s] # {}
  BY <1>1, <1>2, <1>8
<1>10. Log!Learn(n, s)
  BY <1>6, <1>9 DEF Log!Learn
<1> QED
  BY <1>10 DEF Log!Next

LEMMA SameVotes ==
  ASSUME votes' = votes
  PROVE  SameDecisions
BY DEF SameDecisions, Decided

\* A leader's own vote for a fresh proposal is one of a majority of at least
\* two.
LEMMA FreshVotes ==
  ASSUME TInv, SafetyInv, NEW n \in Node, NEW f, Record(n, f),
         \A t \in DOMAIN f : Unused(t, ballot[n])
  PROVE  SameDecisions
<1> SUFFICES ASSUME NEW s \in Slots, NEW b, NEW v, Decided(s, b, v)'
             PROVE  Decided(s, b, v)
  BY DEF SameDecisions
<1> DEFINE vote(a) == [node |-> a, slot |-> s, ballot |-> b, value |-> v]
           Q == {a \in Node : vote(a) \in votes}
           R == {a \in Node : vote(a) \in votes'}
<1>1. IsQuorum(R)
  BY DEF Decided
<1>2. \A x \in votes' : x \in votes \/ \E t \in DOMAIN f :
        x = [node |-> n, slot |-> t, ballot |-> ballot[n], value |-> f[t]]
  BY DEF Record, AcceptAt
<1>3. CASE s \in DOMAIN f /\ b = ballot[n]
  <2>1. \A a \in Node : vote(a) \notin votes
    BY <1>3 DEF SafetyInv, VoteInv, Unused
  <2>2. R \subseteq {n}
    BY <1>2, <2>1
  <2>3. R = {} \/ R = {n}
    BY <2>2
  <2>4. Cardinality(R) = 0 \/ Cardinality(R) = 1
    BY <2>3, FS_EmptySet, FS_Singleton
  <2> QED
    BY <1>1, <2>4, QuorumSizes DEF IsQuorum
<1>4. CASE ~ (s \in DOMAIN f /\ b = ballot[n])
  <2>1. R \subseteq Q
    BY <1>2, <1>4
  <2>2. IsQuorum(Q)
    BY <1>1, <2>1, QuorumGrows
  <2> QED
    BY <2>2 DEF Decided
<1> QED
  BY <1>3, <1>4

LEMMA DrainDecidesNothing ==
  ASSUME TInv, SafetyInv, NEW n \in Node, NEW s \in Slots, NEW k \in 0..DrainCount(n, s),
         Record(n, Drained(n, k))
  PROVE  SameDecisions
<1>1. PICK f : f = Drained(n, k)
  OBVIOUS
<1>2. \A t \in DOMAIN f : Unused(t, ballot[n])
  BY <1>1, DrainedSafe
<1> QED
  BY <1>1, <1>2, FreshVotes

LEMMA LearnDecidesNothing ==
  ASSUME TInv, SafetyInv, NEW n \in Node, NEW s \in Slots, NEW b, NEW v
  PROVE  /\ \A sends : Learn(n, s, b, v, sends) => SameDecisions
         /\ FailLearn(n, s, b, v) => SameDecisions
<1>1. DrainCount(n, s) \in 0..DrainCount(n, s)
  BY DrainCountType DEF TInv, TypeOK, VolatileTypeOK
<1>2. ASSUME NEW sends, Learn(n, s, b, v, sends) PROVE SameDecisions
  BY <1>1, <1>2, DrainDecidesNothing DEF Learn
<1>3. ASSUME FailLearn(n, s, b, v) PROVE SameDecisions
  BY <1>3, DrainDecidesNothing DEF FailLearn
<1> QED
  BY <1>2, <1>3

LEMMA TakeoverDecidesNothing ==
  ASSUME TInv, SafetyInv, NEW n \in Node, NEW m \in msgs, OnPromise(n, m) \/ FailTakeover(n, m)
  PROVE  SameDecisions
<1> DEFINE got == Collected(n, m)
<1>1. m.type = "promise" /\ role[n] = Candidate /\ m.ballot = ballot[n]
  BY DEF OnPromise, FailTakeover
<1>2. /\ got \in SUBSET PromiseMsg /\ Answers(n, got)
      /\ \A top \in Taken(n, got) : top \in Int
  BY <1>1, CollectedType, CollectedAnswers
<1>3. CASE ~ IsQuorum({p.from : p \in got})
  BY <1>3, SameVotes DEF OnPromise, FailTakeover, history
<1>4. CASE IsQuorum({p.from : p \in got})
  <2>1. PICK top \in Taken(n, got) :
          /\ \A s \in Taken(n, got) : s <= top
          /\ \/ BecomeLeader(n, got, top)
             \/ \E k : Record(n, [s \in {t \in DOMAIN Takeover(n, got, top) : t <= k} |->
                                    Takeover(n, got, top)[s]])
    BY <1>4 DEF OnPromise, FailTakeover
  <2> HIDE DEF got
  <2>2. PICK f : Record(n, f) /\ DOMAIN f \subseteq DOMAIN Takeover(n, got, top)
    <3>1. CASE BecomeLeader(n, got, top)
      BY <3>1 DEF BecomeLeader
    <3>2. CASE ~ BecomeLeader(n, got, top)
      <4>1. PICK k : Record(n, [s \in {t \in DOMAIN Takeover(n, got, top) : t <= k} |->
                                  Takeover(n, got, top)[s]])
        BY <2>1, <3>2
      <4>2. DOMAIN [s \in {t \in DOMAIN Takeover(n, got, top) : t <= k} |->
                      Takeover(n, got, top)[s]] \subseteq DOMAIN Takeover(n, got, top)
        OBVIOUS
      <4> QED
        BY <4>1, <4>2
    <3> QED
      BY <3>1, <3>2
  <2>3. \A t \in DOMAIN f : Unused(t, ballot[n])
    BY <1>1, <1>2, <1>4, <2>1, <2>2, TakeoverSafe
  <2> QED
    BY <2>2, <2>3, FreshVotes
<1> QED
  BY <1>3, <1>4

LEMMA ProposeDecidesNothing ==
  ASSUME TInv, SafetyInv, NEW n \in Node, NEW v \in Value, Propose(n, v)
  PROVE  SameDecisions
<1>1. CASE Cardinality(InFlight(n)) >= Window
  BY <1>1, SameVotes DEF Propose, history
<1>2. CASE ~ (Cardinality(InFlight(n)) >= Window)
  <2>1. PICK f : f = [s \in {nextSlot[n]} |-> v]
    OBVIOUS
  <2>2. Record(n, f) /\ role[n] = Leader
    BY <1>2, <2>1 DEF Propose
  <2>3. nextSlot[n] + Len(queue[n]) \in Slots /\ nextSlot[n] \in Nat /\ Len(queue[n]) \in Nat
    BY DEF Propose, TInv, TypeOK, VolatileTypeOK
  <2>4. \A t \in DOMAIN f : t \in Slots => Unused(t, ballot[n])
    BY <2>1, <2>2, <2>3 DEF SafetyInv, LeadershipInv, LeaderOK
  <2>5. \A t \in DOMAIN f : Unused(t, ballot[n])
    <3>1. \A p \in proposed : p.slot \in Slots
      BY DEF TInv, TypeOK, PValues
    <3> QED
      BY <2>4, <3>1 DEF Unused
  <2> QED
    BY <2>2, <2>5, FreshVotes
<1> QED
  BY <1>1, <1>2

\* An acceptor's vote may decide the slot it is for, and no other.
LEMMA VoteDecidesOne ==
  ASSUME TInv, NEW n \in Node, NEW m \in msgs, OnAccept(n, m)
  PROVE  /\ m.slot \in Slots /\ UNCHANGED chosen
         /\ \A s \in Slots : \A b, v : s # m.slot /\ Decided(s, b, v)' => Decided(s, b, v)
<1>1. m.slot \in Slots /\ UNCHANGED chosen
  BY MessageTypes DEF OnAccept, TInv, TypeOK, AcceptMsg
<1>2. \A x \in votes' : x \in votes \/ x.slot = m.slot
  BY DEF OnAccept, AcceptAt
<1>3. ASSUME NEW s \in Slots, s # m.slot, NEW b, NEW v, Decided(s, b, v)'
      PROVE  Decided(s, b, v)
  <2> DEFINE vote(a) == [node |-> a, slot |-> s, ballot |-> b, value |-> v]
             Q == {a \in Node : vote(a) \in votes}
             R == {a \in Node : vote(a) \in votes'}
  <2>1. IsQuorum(R)
    BY <1>3 DEF Decided
  <2>2. R \subseteq Q
    BY <1>2, <1>3
  <2>3. IsQuorum(Q)
    BY <2>1, <2>2, QuorumGrows
  <2> QED
    BY <2>3 DEF Decided
<1> QED
  BY <1>1, <1>3

\* Only a vote in answer to an Accept decides a slot.
LEMMA OnlyVotesDecide ==
  ASSUME TInv, SafetyInv, [Next]_vars
  PROVE  SameDecisions \/ \E n \in Node, m \in msgs : OnAccept(n, m)
<1>1. CASE UNCHANGED vars
  BY <1>1, SameVotes DEF vars, history
<1>2. ASSUME NEW n \in Node, NEW m \in msgs,
             OnLearn(n, m) \/ FailOnLearn(n, m)
      PROVE  SameDecisions
  <2>1. m.slot \in Slots
    BY <1>2, MessageTypes DEF TInv, TypeOK, LearnMsg, OnLearn, FailOnLearn
  <2> QED
    BY <1>2, <2>1, LearnDecidesNothing DEF OnLearn, FailOnLearn
<1>3. ASSUME NEW n \in Node, NEW m \in msgs, OnAccepted(n, m) \/ FailOnAccepted(n, m)
      PROVE  SameDecisions
  <2>1. m.slot \in Slots
    BY <1>3, MessageTypes DEF TInv, TypeOK, AcceptedMsg, OnAccepted, FailOnAccepted
  <2>2. CASE votes' = votes
    BY <2>2, SameVotes
  <2>3. CASE votes' # votes
    BY <1>3, <2>1, <2>3, LearnDecidesNothing DEF OnAccepted, FailOnAccepted, history
  <2> QED
    BY <2>2, <2>3
<1>4. ASSUME NEW n \in Node, NEW m \in msgs, Step(n, m), ~ OnLearn(n, m), ~ OnAccepted(n, m),
             ~ OnPromise(n, m), ~ OnAccept(n, m)
      PROVE  SameDecisions
  BY <1>4, SameVotes DEF Step, OnPrepare, OnNack, Overtaken, OnLearnRequest, OnHeartbeat,
                         OnHeartbeatAck, history
<1>5. ASSUME NEW n \in Node, Tick(n) \/ ReadIndex(n) \/ Restart(n) \/ FailElection(n)
      PROVE  SameDecisions
  BY <1>5, SameVotes DEF Tick, StartElection, CandidateTimeout, LeaderTimeout, Heartbeat,
                         ReadIndex, Restart, FailElection, history
<1>6. ASSUME NEW n \in Node, NEW m \in msgs, FailPromise(n, m) \/ FailAccept(n, m)
      PROVE  SameDecisions
  BY <1>6, SameVotes DEF FailPromise, FailAccept, history
<1>7. CASE Next
  BY <1>2, <1>3, <1>4, <1>5, <1>6, <1>7, TakeoverDecidesNothing, ProposeDecidesNothing
     DEF Next, StoreFailure
<1> QED
  BY <1>1, <1>7

LEMMA StepImplements ==
  ASSUME TInv, TInv', SafetyInv, SafetyInv', DecidesOnce', [Next]_vars
  PROVE  [Log!Next]_<<DecidedLog, KnownSlots>>
<1>1. Mono
  BY MonoNext
<1>2. CASE \E n \in Node, m \in msgs : OnAccept(n, m)
  <2>1. PICK n \in Node, m \in msgs : OnAccept(n, m)
    BY <1>2
  <2>2. PICK t \in Slots : /\ UNCHANGED chosen
                           /\ \A s \in Slots : \A b, v :
                                s # t /\ Decided(s, b, v)' => Decided(s, b, v)
    BY <2>1, VoteDecidesOne
  <2> QED
    BY <1>1, <2>2, DecideStep
<1>3. CASE SameDecisions
  <2>1. CASE chosen' = chosen
    <3>1. LogIsDecisions /\ LogIsDecisions'
      BY DecidedLogIs, DecidedLogNext
    <3>2. \A s \in Slots : {v \in Values : \E b \in Elections : Decided(s, b, v)'}
                           = {v \in Values : \E b \in Elections : Decided(s, b, v)}
      BY <1>1, <1>3, DecidedStable DEF SameDecisions
    <3>3. DecidedLog' = DecidedLog
      BY <3>1, <3>2 DEF LogIsDecisions, DecisionsOf
    <3>4. KnownSlots' = KnownSlots
      BY <2>1 DEF KnownSlots, Known
    <3> QED
      BY <3>3, <3>4
  <2>2. CASE \E n \in Node, s \in Slots, b \in Elections, v \in Values :
               SetChosen(n, s, b, v)
    BY <1>1, <1>3, <2>2, LearnStep
  <2> QED
    BY <2>1, <2>2, LearnsOne
<1> QED
  BY <1>2, <1>3, OnlyVotesDecide

LEMMA InitImplements == Init => Log!Init
<1> SUFFICES ASSUME Init PROVE Log!Init
  OBVIOUS
<1>1. DecidedLog = [s \in Slots |-> {}]
  BY DEF Init, DecidedLog
<1>2. KnownSlots = [n \in Node |-> {}]
  BY DEF Init, KnownSlots, Known, NoEntry
<1> QED
  BY <1>1, <1>2 DEF Log!Init

\* What the layers above rely on, for every cluster: seen through the votes
\* and the chosen entries, the nodes are a log in which every slot is decided
\* at most once, a decision is never revoked, and a node learns only what was
\* decided and keeps it, one slot at a time (onAccept, learn, becomeLeader, New).
THEOREM LogImplements == Spec => ImplementsAgreedLog
<1>1. Init => Log!Init
  BY InitImplements
<1>2. TInv /\ TInv' /\ SafetyInv /\ SafetyInv' /\ DecidesOnce' /\ [Next]_vars =>
        [Log!Next]_<<DecidedLog, KnownSlots>>
  BY StepImplements
<1> QED
  BY <1>1, <1>2, SafetyHolds, LogAgrees, AgreementDecides, PTL
     DEF Spec, ImplementsAgreedLog, Log!Spec

-----------------------------------------------------------------------------
(* The leader's queue. *)

\* Only a leader queues; what it has in flight lies below its next slot, and a
\* queued value waits for a full window.
QueueOK(n) ==
  /\ role[n] # Leader => queue[n] = <<>>
  /\ role[n] = Leader => \A s \in InFlight(n) : s < nextSlot[n]
  /\ queue[n] # <<>> =>
       /\ Cardinality(InFlight(n)) >= Window
       /\ nextSlot[n] + Len(queue[n]) <= MaxSlot + 1

QueueInv == \A n \in Node : QueueOK(n)

\* A step that leaves p's part alone, or in which p stops leading.
Quiet(p) ==
  \/ /\ role'[p] = role[p] /\ queue'[p] = queue[p]
     /\ nextSlot'[p] = nextSlot[p] /\ proposals'[p] = proposals[p]
  \/ role'[p] # Leader /\ queue'[p] = <<>>

LEMMA QuietKeeps ==
  ASSUME NEW p \in Node, QueueOK(p), Quiet(p)
  PROVE  QueueOK(p)'
<1>1. CASE role'[p] # Leader /\ queue'[p] = <<>>
  BY <1>1 DEF QueueOK
<1>2. CASE /\ role'[p] = role[p] /\ queue'[p] = queue[p]
           /\ nextSlot'[p] = nextSlot[p] /\ proposals'[p] = proposals[p]
  <2>1. InFlight(p)' = InFlight(p)
    BY <1>2 DEF InFlight
  <2> QED
    BY <1>2, <2>1 DEF QueueOK
<1> QED
  BY <1>1, <1>2 DEF Quiet

LEMMA StoppedQuiet ==
  ASSUME TInv, NEW n \in Node, StepDown(n) \/ Reset(n)
  PROVE  \A p \in Node : Quiet(p)
BY RoleNames DEF TInv, TypeOK, VolatileTypeOK, StepDown, Reset, Quiet

LEMMA RaiseQuiet ==
  ASSUME TInv, NEW n \in Node, NEW b, RaisePromise(n, b)
  PROVE  \A p \in Node : Quiet(p)
<1>1. CASE UNCHANGED volatile
  BY <1>1 DEF volatile, Quiet
<1> QED
  BY <1>1, StoppedQuiet DEF RaisePromise, SetPromised

\* How many slots are in flight after drainQueue proposed k values.
LEMMA DrainFills ==
  ASSUME TInv, NEW n \in Node, QueueOK(n), NEW s \in Slots, NEW k, k = DrainCount(n, s),
         NEW F, F = (InFlight(n) \ {s}) \cup DOMAIN Drained(n, k)
  PROVE  /\ k < Len(queue[n]) => Cardinality(F) >= Window
         /\ \A t \in F : role[n] = Leader => t < nextSlot[n] + k
<1> DEFINE G == InFlight(n) \ {s}
           D == DOMAIN Drained(n, k)
           q == Len(queue[n])
           c == nextSlot[n]
<1>1. /\ c \in Nat /\ q \in Nat /\ Window \in Nat /\ MaxSlot \in Nat
      /\ (role[n] = Leader => c # 0) /\ queue[n] \in Seq(Value)
  BY BoundAssumption DEF BoundAssumption, TInv, TypeOK, VolatileTypeOK, RoleInv
<1>2. k \in 0..q /\ (k # 0 => role[n] = Leader)
  BY DrainCountType
<1>3. /\ IsFiniteSet(G) /\ Cardinality(G) \in Nat /\ G \subseteq Slots
      /\ (role[n] = Leader => \A t \in G : t < c)
  <2>1. G \subseteq Slots
    BY DEF InFlight
  <2>2. IsFiniteSet(Slots)
    <3>1. MaxSlot \in Int /\ 1 \in Int
      BY <1>1
    <3> QED
      BY <3>1, FS_Interval DEF Slots
  <2> QED
    BY <2>1, <2>2, FS_Subset, FS_CardinalityType DEF QueueOK
<1>4. D = {u \in Slots : c <= u /\ u < c + k}
  BY DEF Drained
<1>5. k = IF role[n] # Leader \/ Window - Cardinality(G) < 0 THEN 0
          ELSE IF Window - Cardinality(G) < q THEN Window - Cardinality(G) ELSE q
  BY DEF DrainCount
<1>6. F = G \cup D /\ G \subseteq Slots
  BY <1>3
<1>7. queue[n] # <<>> => q > 0 /\ c + q <= MaxSlot + 1 /\ role[n] = Leader
  BY <1>1 DEF QueueOK
<1>8. q > 0 => queue[n] # <<>>
  BY <1>1
<1> HIDE DEF G, D, q, c
<1>9. ASSUME k < q PROVE Cardinality(F) >= Window
  <2>1. role[n] = Leader /\ c + q <= MaxSlot + 1 /\ c # 0
    BY <1>1, <1>2, <1>7, <1>8, <1>9
  <2>2. D = c..(c + k - 1)
    BY <1>1, <1>2, <1>4, <1>9, <2>1 DEF Slots
  <2>3. IsFiniteSet(D) /\ Cardinality(D) = k
    <3>1. PICK d : d = c + k - 1
      OBVIOUS
    <3>2. c \in Int /\ d \in Int /\ k = (IF c > d THEN 0 ELSE d - c + 1)
      BY <1>1, <1>2, <3>1
    <3>3. IsFiniteSet(c..d) /\ Cardinality(c..d) = IF c > d THEN 0 ELSE d - c + 1
      BY <3>2, FS_Interval
    <3> QED
      BY <2>2, <3>1, <3>2, <3>3
  <2>4. G \cap D = {}
    BY <1>1, <1>2, <1>3, <2>1, <2>2, Constants
  <2>5. Cardinality(G \cap D) = 0
    BY <2>4, FS_EmptySet
  <2>6. Cardinality(F) = Cardinality(G) + k
    BY <1>2, <1>3, <1>6, <2>3, <2>5, FS_Union
  <2> QED
    BY <1>1, <1>2, <1>3, <1>5, <1>9, <2>1, <2>6
<1>10. ASSUME NEW t \in F, role[n] = Leader PROVE t < c + k
  BY <1>1, <1>2, <1>3, <1>4, <1>6, <1>10, Constants
<1> QED
  BY <1>9, <1>10 DEF q, c

LEMMA LearnKeepsQueue ==
  ASSUME TInv, QueueInv, NEW n \in Node, NEW s \in Slots, NEW b, NEW v, NEW sends,
         Learn(n, s, b, v, sends)
  PROVE  QueueInv'
<1> DEFINE k == DrainCount(n, s)
           f == Drained(n, k)
<1>1. /\ proposals' = [proposals EXCEPT ![n] =
           [t \in Slots |-> IF t = s /\ t \notin DOMAIN f THEN Idle ELSE Started(n, f)[t]]]
      /\ queue' = [queue EXCEPT ![n] = SubSeq(@, k + 1, Len(@))]
      /\ nextSlot' = [nextSlot EXCEPT ![n] = @ + k]
      /\ role' = role
  BY DEF Learn
<1>2. QueueOK(n)
  BY DEF QueueInv
<1>3. k \in 0..Len(queue[n]) /\ (k # 0 => role[n] = Leader) /\ DOMAIN f \subseteq Slots
  BY DrainCountType DEF Drained
<1>4. k = DrainCount(n, s) /\ f = Drained(n, k)
  OBVIOUS
<1> HIDE DEF k, f
<1>5. /\ proposals \in [Node -> [Slots -> [value : Values, accepts : SUBSET Node]]]
      /\ queue \in [Node -> Seq(Value)] /\ nextSlot \in [Node -> Nat]
  BY DEF TInv, TypeOK, VolatileTypeOK
<1>6. ASSUME NEW t \in Slots
      PROVE  proposals'[n][t].accepts # {} <=>
               t \in (InFlight(n) \ {s}) \cup DOMAIN f
  <2>1. proposals'[n][t] = IF t = s /\ t \notin DOMAIN f THEN Idle ELSE Started(n, f)[t]
    BY <1>1, <1>5
  <2>2. Started(n, f)[t] = IF t \in DOMAIN f THEN [value |-> f[t], accepts |-> {n}]
                           ELSE proposals[n][t]
    BY DEF Started
  <2> QED
    BY <2>1, <2>2 DEF Idle, InFlight
<1>7. InFlight(n)' = (InFlight(n) \ {s}) \cup DOMAIN f
  <2>1. InFlight(n)' = {t \in Slots : proposals'[n][t].accepts # {}}
    BY DEF InFlight
  <2>2. InFlight(n) \subseteq Slots
    BY DEF InFlight
  <2> QED
    BY <1>3, <1>6, <2>1, <2>2
<1>8. /\ k < Len(queue[n]) => Cardinality(InFlight(n)') >= Window
      /\ \A t \in InFlight(n)' : role[n] = Leader => t < nextSlot[n] + k
  BY <1>2, <1>4, <1>7, DrainFills
<1>9. /\ queue'[n] = SubSeq(queue[n], k + 1, Len(queue[n]))
      /\ nextSlot'[n] = nextSlot[n] + k /\ role'[n] = role[n]
      /\ queue[n] \in Seq(Value) /\ nextSlot[n] \in Nat /\ Len(queue[n]) \in Nat
  <2>1. queue'[n] = SubSeq(queue[n], k + 1, Len(queue[n]))
    BY <1>1, <1>5
  <2>2. nextSlot'[n] = nextSlot[n] + k /\ role'[n] = role[n]
    BY <1>1, <1>5
  <2>3. queue[n] \in Seq(Value) /\ nextSlot[n] \in Nat
    BY <1>5
  <2> QED
    BY <2>1, <2>2, <2>3
<1>10. /\ queue'[n] # <<>> => k < Len(queue[n])
       /\ Len(queue'[n]) = Len(queue[n]) - k
  BY <1>3, <1>9
<1>11. QueueOK(n)'
  <2>1. role'[n] # Leader => queue'[n] = <<>>
    <3>1. queue[n] = <<>> => Len(queue[n]) = 0
      OBVIOUS
    <3> QED
      BY <1>2, <1>3, <1>9, <1>10, <3>1 DEF QueueOK
  <2>2. queue'[n] # <<>> => nextSlot'[n] + Len(queue'[n]) <= MaxSlot + 1
    <3>1. queue[n] = <<>> => Len(queue[n]) = 0
      OBVIOUS
    <3> QED
      BY <1>2, <1>3, <1>9, <1>10, <3>1, Constants DEF QueueOK
  <2> QED
    BY <1>8, <1>9, <1>10, <2>1, <2>2 DEF QueueOK
<1>12. ASSUME NEW p \in Node, p # n PROVE QueueOK(p)'
  <2>1. Quiet(p)
    BY <1>1, <1>5, <1>12 DEF Quiet
  <2> QED
    BY <2>1, QuietKeeps DEF QueueInv
<1> QED
  BY <1>11, <1>12 DEF QueueInv

LEMMA AllQuiet ==
  ASSUME QueueInv, \A p \in Node : Quiet(p)
  PROVE  QueueInv'
BY QuietKeeps DEF QueueInv

LEMMA OnPromiseKeepsQueue ==
  ASSUME TInv, QueueInv, NEW n \in Node, NEW m \in msgs, OnPromise(n, m)
  PROVE  QueueInv'
<1> DEFINE got == Collected(n, m)
<1>1. /\ role \in [Node -> {Follower, Candidate, Leader}] /\ nextSlot \in [Node -> Nat]
      /\ proposals \in [Node -> [Slots -> [value : Values, accepts : SUBSET Node]]]
      /\ role[n] = Candidate /\ \A top \in Taken(n, got) : top \in Int
  BY CollectedType DEF OnPromise, TInv, TypeOK, VolatileTypeOK
<1>2. CASE ~ IsQuorum({p.from : p \in got})
  BY <1>2, AllQuiet DEF OnPromise, Quiet
<1>3. CASE IsQuorum({p.from : p \in got})
  <2>1. PICK top \in Taken(n, got) : BecomeLeader(n, got, top)
    BY <1>3 DEF OnPromise
  <2> DEFINE f == Takeover(n, got, top)
  <2>2. /\ role' = [role EXCEPT ![n] = Leader] /\ queue' = queue
        /\ nextSlot' = [nextSlot EXCEPT ![n] = top + 2]
        /\ proposals' = [proposals EXCEPT ![n] =
             [s \in Slots |-> IF s \in DOMAIN f
                              THEN [value |-> f[s], accepts |-> {n}] ELSE Idle]]
    BY <2>1 DEF BecomeLeader, FirstFree
  <2>3. \A s \in DOMAIN f : s <= top + 1
    BY <1>1, Constants DEF Takeover
  <2> HIDE DEF f
  <2>4. \A s \in Slots : proposals'[n][s].accepts # {} => s \in DOMAIN f
    BY <1>1, <2>2 DEF Idle
  <2>5. QueueOK(n)'
    <3>1. role'[n] = Leader /\ nextSlot'[n] = top + 2 /\ queue'[n] = <<>>
      BY <1>1, <2>2, RoleNames DEF QueueInv, QueueOK
    <3>2. \A s \in InFlight(n)' : s < nextSlot'[n]
      BY <1>1, <2>3, <2>4, <3>1, Constants DEF InFlight
    <3> QED
      BY <3>1, <3>2 DEF QueueOK
  <2>6. ASSUME NEW p \in Node, p # n PROVE QueueOK(p)'
    <3>1. Quiet(p)
      BY <1>1, <2>2, <2>6 DEF Quiet
    <3> QED
      BY <3>1, QuietKeeps DEF QueueInv
  <2> QED
    BY <2>5, <2>6 DEF QueueInv
<1> QED
  BY <1>2, <1>3

LEMMA ProposeKeepsQueue ==
  ASSUME TInv, QueueInv, NEW n \in Node, NEW v \in Value, Propose(n, v)
  PROVE  QueueInv'
<1>1. /\ nextSlot \in [Node -> Nat] /\ queue \in [Node -> Seq(Value)] /\ MaxSlot \in Nat
      /\ proposals \in [Node -> [Slots -> [value : Values, accepts : SUBSET Node]]]
  BY Constants DEF TInv, TypeOK, VolatileTypeOK
<1>2. role[n] = Leader /\ role' = role /\ nextSlot[n] + Len(queue[n]) \in 1..MaxSlot
  BY DEF Propose, Slots
<1>3. QueueOK(n)
  BY DEF QueueInv
<1>4. \A p \in Node : p # n => Quiet(p)
  BY <1>1, <1>2 DEF Propose, Quiet
<1>5. ASSUME Cardinality(InFlight(n)) >= Window PROVE QueueOK(n)'
  <2>1. queue' = [queue EXCEPT ![n] = Append(@, v)] /\ UNCHANGED <<proposals, nextSlot>>
    BY <1>5 DEF Propose
  <2>2. queue'[n] = Append(queue[n], v)
    BY <1>1, <2>1
  <2>3. Len(queue'[n]) = Len(queue[n]) + 1 /\ Len(queue[n]) \in Nat /\ nextSlot[n] \in Nat
    BY <1>1, <2>2
  <2>4. InFlight(n)' = InFlight(n) /\ nextSlot'[n] = nextSlot[n] /\ role'[n] = Leader
    BY <1>2, <2>1 DEF InFlight
  <2>5. nextSlot'[n] + Len(queue'[n]) <= MaxSlot + 1
    BY <1>1, <1>2, <2>3, <2>4
  <2> QED
    BY <1>2, <1>3, <1>5, <2>4, <2>5 DEF QueueOK
<1>6. ASSUME ~ (Cardinality(InFlight(n)) >= Window) PROVE QueueOK(n)'
  <2> DEFINE f == [s \in {nextSlot[n]} |-> v]
  <2>1. /\ proposals' = [proposals EXCEPT ![n] = Started(n, f)]
        /\ nextSlot' = [nextSlot EXCEPT ![n] = @ + 1] /\ queue' = queue
    BY <1>6 DEF Propose
  <2>2. queue[n] = <<>>
    BY <1>3, <1>6 DEF QueueOK
  <2>3. proposals'[n] = Started(n, f) /\ nextSlot'[n] = nextSlot[n] + 1 /\ queue'[n] = <<>>
        /\ role'[n] = Leader
    BY <1>1, <1>2, <2>1, <2>2
  <2>4. ASSUME NEW s \in InFlight(n)' PROVE s = nextSlot[n] \/ s \in InFlight(n)
    <3>1. s \in Slots /\ Started(n, f)[s].accepts # {}
      BY <2>3, <2>4 DEF InFlight
    <3>2. Started(n, f)[s] = IF s \in {nextSlot[n]} THEN [value |-> f[s], accepts |-> {n}]
                             ELSE proposals[n][s]
      BY <3>1 DEF Started
    <3> QED
      BY <3>1, <3>2 DEF InFlight
  <2>5. \A s \in InFlight(n)' : s < nextSlot'[n]
    <3>1. InFlight(n) \subseteq Nat /\ \A s \in InFlight(n) : s < nextSlot[n]
      BY <1>2, <1>3, Constants DEF InFlight, QueueOK
    <3>2. nextSlot[n] \in Nat /\ nextSlot'[n] = nextSlot[n] + 1
      BY <1>1, <2>3
    <3> QED
      BY <2>4, <3>1, <3>2
  <2> QED
    BY <2>3, <2>5 DEF QueueOK
<1>7. QueueOK(n)' /\ \A p \in Node : p # n => QueueOK(p)'
  BY <1>4, <1>5, <1>6, QuietKeeps DEF QueueInv
<1> QED
  BY <1>7 DEF QueueInv

LEMMA OnAcceptedKeepsQueue ==
  ASSUME TInv, QueueInv, NEW n \in Node, NEW m \in msgs, OnAccepted(n, m)
  PROVE  QueueInv'
<1> DEFINE p == proposals[n][m.slot]
           acks == p.accepts \cup {m.from}
<1>1. m.slot \in Slots
  BY MessageTypes DEF OnAccepted, TInv, TypeOK, AcceptedMsg
<1>2. proposals \in [Node -> [Slots -> [value : Values, accepts : SUBSET Node]]]
  BY DEF TInv, TypeOK, VolatileTypeOK
<1>3. CASE IsQuorum(acks)
  BY <1>1, <1>3, LearnKeepsQueue DEF OnAccepted
<1>4. CASE ~ IsQuorum(acks)
  <2>1. /\ proposals' = [proposals EXCEPT ![n] =
             [@ EXCEPT ![m.slot] = [value |-> p.value, accepts |-> acks]]]
        /\ UNCHANGED <<role, queue, nextSlot>>
        /\ p.accepts # {}
    BY <1>4 DEF OnAccepted, Counts
  <2>2. \A s \in Slots : proposals'[n][s].accepts # {} <=> proposals[n][s].accepts # {}
    BY <1>1, <1>2, <2>1
  <2>3. InFlight(n)' = InFlight(n)
    BY <2>2 DEF InFlight
  <2>4. QueueOK(n)'
    BY <2>1, <2>3 DEF QueueInv, QueueOK
  <2>5. \A q \in Node : q # n => Quiet(q)
    BY <1>2, <2>1 DEF Quiet
  <2> QED
    BY <2>4, <2>5, QuietKeeps DEF QueueInv
<1> QED
  BY <1>3, <1>4

LEMMA TickKeepsQueue ==
  ASSUME TInv, QueueInv, NEW n \in Node, Tick(n)
  PROVE  QueueInv'
<1>1. role \in [Node -> {Follower, Candidate, Leader}]
  BY DEF TInv, TypeOK, VolatileTypeOK
<1>2. ASSUME StartElection(n) \/ CandidateTimeout(n) PROVE \A p \in Node : Quiet(p)
  <2>1. /\ UNCHANGED <<queue, nextSlot, proposals>>
        /\ role' = [role EXCEPT ![n] = Candidate] \/ role' = [role EXCEPT ![n] = Follower]
        /\ role[n] # Leader
    BY <1>2, RoleNames DEF StartElection, CandidateTimeout
  <2>2. queue[n] = <<>>
    BY <2>1 DEF QueueInv, QueueOK
  <2> QED
    BY <1>1, <2>1, <2>2, RoleNames DEF Quiet
<1>3. ASSUME Heartbeat(n) PROVE \A p \in Node : Quiet(p)
  BY <1>3 DEF Heartbeat, volatile, Quiet
<1>4. ASSUME LeaderTimeout(n) PROVE \A p \in Node : Quiet(p)
  BY <1>4, StoppedQuiet DEF LeaderTimeout
<1> QED
  BY <1>2, <1>3, <1>4, AllQuiet DEF Tick

LEMMA StepKeepsQueue ==
  ASSUME TInv, QueueInv, NEW n \in Node, NEW m \in msgs, Step(n, m)
  PROVE  QueueInv'
<1>1. CASE OnPromise(n, m)
  BY <1>1, OnPromiseKeepsQueue
<1>2. CASE OnAccepted(n, m)
  BY <1>2, OnAcceptedKeepsQueue
<1>3. CASE OnLearn(n, m)
  <2>1. m.slot \in Slots
    BY <1>3, MessageTypes DEF OnLearn, TInv, TypeOK, LearnMsg
  <2> QED
    BY <1>3, <2>1, LearnKeepsQueue DEF OnLearn
<1>4. ASSUME UNCHANGED volatile PROVE \A p \in Node : Quiet(p)
  BY <1>4 DEF volatile, Quiet
<1>5. CASE OnPrepare(n, m) \/ OnAccept(n, m) \/ OnHeartbeat(n, m)
  BY <1>4, <1>5, RaiseQuiet, AllQuiet DEF OnPrepare, OnAccept, OnHeartbeat
<1>6. CASE OnNack(n, m) \/ OnHeartbeatAck(n, m)
  <2>1. ASSUME NEW b, Overtaken(n, b) PROVE \A p \in Node : Quiet(p)
    BY <2>1, StoppedQuiet DEF Overtaken
  <2>2. CASE UNCHANGED <<role, queue, nextSlot, proposals>>
    BY <2>2, AllQuiet DEF Quiet
  <2> QED
    BY <1>6, <2>1, <2>2, AllQuiet DEF OnNack, OnHeartbeatAck
<1>7. CASE OnLearnRequest(n, m)
  BY <1>4, <1>7, AllQuiet DEF OnLearnRequest
<1> QED
  BY <1>1, <1>2, <1>3, <1>5, <1>6, <1>7 DEF Step

LEMMA QueueNext == TInv /\ QueueInv /\ [Next]_vars => QueueInv'
<1> SUFFICES ASSUME TInv, QueueInv, [Next]_vars PROVE QueueInv'
  OBVIOUS
<1>1. CASE UNCHANGED vars
  BY <1>1, AllQuiet DEF vars, volatile, Quiet
<1>2. ASSUME NEW n \in Node, ReadIndex(n) PROVE QueueInv'
  BY <1>2, AllQuiet DEF ReadIndex, Quiet
<1>3. ASSUME NEW n \in Node, Restart(n) \/ StoreFailure(n) PROVE QueueInv'
  <2>1. Reset(n)
    BY <1>3 DEF Restart, StoreFailure, FailElection, FailPromise, FailAccept, FailTakeover,
                FailOnLearn, FailOnAccepted, FailLearn
  <2> QED
    BY <2>1, StoppedQuiet, AllQuiet
<1> QED
  BY <1>1, <1>2, <1>3, StepKeepsQueue, TickKeepsQueue, ProposeKeepsQueue DEF Next

\* Back-pressure for every window, queue limit and cluster: a value waits in
\* a leader's queue only while Window proposals are in flight, so there is
\* always a slot whose Accepted will call drainQueue (Propose, learn,
\* drainQueue, stepDown).
THEOREM QueueWaitsForWindow == Spec => []QueueOnlyWhenFull
<1>1. Init => QueueInv
  BY RoleNames DEF Init, QueueInv, QueueOK
<1>2. TInv /\ QueueInv /\ [Next]_vars => QueueInv'
  BY QueueNext
<1>3. QueueInv => QueueOnlyWhenFull
  BY DEF QueueInv, QueueOK, QueueOnlyWhenFull
<1> QED
  BY <1>1, <1>2, <1>3, SafetyHolds, PTL DEF Spec

-----------------------------------------------------------------------------
(* Read barriers. *)

Beats == {"heartbeat", "heartbeatAck"}

\* A leader's heartbeats carry its own ballot, which no later leader uses, and
\* read numbers it has given out.
BeatInv ==
  \A m \in msgs : m.type \in Beats =>
    /\ m.ballot.round <= maxRound[m.ballot.node]
    /\ \A n \in Node : role[n] # Follower /\ m.ballot = ballot[n] => m.readSeq <= readSeq[n]

\* A majority can no longer vote below the leader's ballot for slot s.
OpenTo(n, s) ==
  \A c \in Elections : Less(c, ballot[n]) =>
    \E Q \in SUBSET Node : IsQuorum(Q) /\ \A a \in Q : Closed(a, s, c)

\* From its first own slot on, a leader finds nothing decided before it.
OwnSlotsInv ==
  \A n \in Node : role[n] = Leader =>
    \A s \in Slots : s >= firstOwnSlot[n] => OpenTo(n, s)

\* What was chosen at a ballot, the node of that ballot learned first.
TaughtInv ==
  /\ \A n \in Node, s \in Slots : Known(n, s) => Known(chosen[n][s].ballot.node, s)
  /\ \A m \in msgs : m.type = "learn" => Known(m.ballot.node, m.slot)

\* A majority promised above ballot b before read number seq was asked of it:
\* none of it is among those that acknowledged, and none will.
Superseded(b, seq, acks) ==
  \E Q \in SUBSET Node :
    /\ IsQuorum(Q)
    /\ \A q \in Q : /\ Less(b, promised[q])
                    /\ q \notin acks
                    /\ \A m \in msgs : /\ m.type = "heartbeatAck" /\ m.from = q
                                       /\ m.ballot = b /\ m.promised = b
                                       => m.readSeq < seq

PendingOK(n, r) ==
  /\ r.seq <= readSeq[n]
  /\ r.index < r.observed => Superseded(ballot[n], r.seq, r.acks)

PendingInv == \A n \in Node : role[n] = Leader => \A r \in reads[n] : PendingOK(n, r)

ReadInv ==
  /\ BeatInv
  /\ OwnSlotsInv
  /\ TaughtInv
  /\ PendingInv
  /\ ReadsAreFresh

\* The commit index is where the known prefix ends.
LEMMA KnownPrefix ==
  ASSUME NEW n \in Node
  PROVE  /\ CommitIndex(n) \in 0..MaxSlot
         /\ \A s \in Slots : s <= CommitIndex(n) => Known(n, s)
         /\ CommitIndex(n) < MaxSlot => ~ Known(n, CommitIndex(n) + 1)
<1> DEFINE P == {c \in Slots : \A s \in 1..c : Known(n, s)}
<1>1. CommitIndex(n) = Cardinality(P) /\ CommitIndex(n) \in 0..MaxSlot /\ MaxSlot \in Nat
  BY CommitIndexType, Constants DEF CommitIndex
<1>2. CASE P = {}
  <2>1. CommitIndex(n) = 0
    BY <1>1, <1>2, FS_EmptySet
  <2>2. MaxSlot > 0 => 1 \notin P /\ 1 \in Slots /\ 1..1 = {1}
    BY <1>1, <1>2 DEF Slots
  <2>3. MaxSlot > 0 => ~ Known(n, 1)
    BY <2>2
  <2>4. CommitIndex(n) + 1 = 1 /\ \A s \in Slots : ~ (s <= CommitIndex(n))
    BY <2>1, Constants DEF Slots
  <2> QED
    BY <1>1, <2>1, <2>3, <2>4
<1>3. CASE P # {}
  <2>1. P \in SUBSET (0..MaxSlot) /\ MaxSlot \in Nat
    BY <1>1 DEF Slots
  <2>2. PICK k \in P : \A y \in P : y <= k
    BY <1>3, <2>1, LargestNumber
  <2>3. k \in Nat /\ 1 <= k /\ k <= MaxSlot /\ \A s \in 1..k : Known(n, s)
    BY <1>1, <2>2 DEF Slots
  <2>4. P = 1..k
    <3>1. P \subseteq 1..k
      BY <1>1, <2>2, <2>3 DEF Slots
    <3>2. ASSUME NEW c \in 1..k PROVE c \in P
      <4>1. c \in Slots /\ 1..c \subseteq 1..k
        BY <1>1, <2>3, <3>2 DEF Slots
      <4> QED
        BY <2>3, <4>1
    <3> QED
      BY <3>1, <3>2
  <2>5. Cardinality(P) = k
    <3>1. 1 \in Int /\ k \in Int /\ ~ (1 > k) /\ k - 1 + 1 = k
      BY <2>3
    <3>2. Cardinality(1..k) = IF 1 > k THEN 0 ELSE k - 1 + 1
      BY <3>1, FS_Interval
    <3> QED
      BY <2>4, <3>1, <3>2
  <2>6. ASSUME k < MaxSlot, Known(n, k + 1) PROVE FALSE
    <3>1. k + 1 \in Slots /\ \A s \in 1..(k + 1) : s \in 1..k \/ s = k + 1
      BY <1>1, <2>3, <2>6 DEF Slots
    <3>2. k + 1 \in P
      BY <2>3, <2>6, <3>1
    <3> QED
      BY <2>2, <2>3, <3>2
  <2>7. CommitIndex(n) = k
    BY <1>1, <2>5
  <2>8. CommitIndex(n) + 1 = k + 1 /\ \A s \in Slots : s <= CommitIndex(n) => s \in 1..k
    <3>1. k \in Nat
      BY <2>3
    <3> HIDE DEF P
    <3> QED
      BY <2>7, <3>1, Constants DEF Slots
  <2> QED
    BY <1>1, <2>3, <2>6, <2>7, <2>8
<1> QED
  BY <1>2, <1>3

\* A step that leaves p's role and its reads alone.
Still(p) ==
  /\ role'[p] = role[p] /\ ballot'[p] = ballot[p] /\ firstOwnSlot'[p] = firstOwnSlot[p]
  /\ readSeq'[p] = readSeq[p] /\ reads'[p] = reads[p]

Acked(p, m) ==
  /\ m.type = "heartbeatAck" /\ role[p] = Leader
  /\ m.ballot = ballot[p] /\ m.promised = ballot[p]
  /\ AckReads(p, m)
  /\ UNCHANGED <<role, ballot, firstOwnSlot, readSeq, msgs, chosen>>

\* How a step may touch what the reads of p depend on.
Moves(p) ==
  \/ Still(p)
  \/ role'[p] = Follower
  \/ StartElection(p)
  \/ \E m \in msgs : OnPromise(p, m) /\ IsQuorum({x.from : x \in Collected(p, m)})
  \/ ReadIndex(p)
  \/ \E m \in msgs : Acked(p, m)

LEMMA StoppedMoves ==
  ASSUME TInv, NEW n \in Node, StepDown(n) \/ Reset(n)
  PROVE  \A p \in Node : Still(p) \/ role'[p] = Follower
BY DEF TInv, TypeOK, VolatileTypeOK, StepDown, Reset, Still

LEMMA RaiseMoves ==
  ASSUME TInv, NEW n \in Node, NEW b, RaisePromise(n, b)
  PROVE  \A p \in Node : Still(p) \/ role'[p] = Follower
<1>1. CASE UNCHANGED volatile
  BY <1>1 DEF volatile, Still
<1> QED
  BY <1>1, StoppedMoves DEF RaisePromise, SetPromised

LEMMA StepMoves ==
  ASSUME TInv, NEW n \in Node, NEW m \in msgs, Step(n, m), NEW p \in Node
  PROVE  Moves(p)
<1>1. CASE OnPromise(n, m)
  <2> DEFINE got == Collected(n, m)
  <2>1. CASE IsQuorum({x.from : x \in got}) /\ p = n
    BY <1>1, <2>1 DEF Moves
  <2>2. CASE IsQuorum({x.from : x \in got}) /\ p # n
    <3>1. PICK top \in Taken(n, got) : BecomeLeader(n, got, top)
      BY <1>1, <2>2 DEF OnPromise
    <3>2. /\ role' = [role EXCEPT ![n] = Leader]
          /\ firstOwnSlot' = [firstOwnSlot EXCEPT ![n] = top + 1]
          /\ reads' = [reads EXCEPT ![n] = {}] /\ UNCHANGED <<ballot, readSeq>>
      BY <3>1 DEF BecomeLeader
    <3>3. Still(p)
      BY <2>2, <3>2 DEF TInv, TypeOK, VolatileTypeOK, Still
    <3> QED
      BY <3>3 DEF Moves
  <2>3. CASE ~ IsQuorum({x.from : x \in got})
    <3>1. Still(p)
      BY <1>1, <2>3 DEF OnPromise, Still
    <3> QED
      BY <3>1 DEF Moves
  <2> QED
    BY <2>1, <2>2, <2>3
<1>2. CASE OnPrepare(n, m) \/ OnAccept(n, m) \/ OnHeartbeat(n, m)
  <2>1. CASE UNCHANGED volatile
    BY <2>1 DEF volatile, Still, Moves
  <2> QED
    BY <1>2, <2>1, RaiseMoves DEF OnPrepare, OnAccept, OnHeartbeat, Moves
<1>3. CASE OnAccepted(n, m) \/ OnLearn(n, m) \/ OnLearnRequest(n, m)
  BY <1>3 DEF OnAccepted, OnLearn, OnLearnRequest, Learn, volatile, Still, Moves
<1>4. CASE OnNack(n, m) \/ OnHeartbeatAck(n, m)
  <2>1. ASSUME NEW b, Overtaken(n, b) PROVE Moves(p)
    BY <2>1, StoppedMoves DEF Overtaken, Moves
  <2>2. ASSUME OnHeartbeatAck(n, m), ~ Overtaken(n, m.promised) PROVE Moves(p)
    <3>1. Acked(n, m) /\ reads' = [reads EXCEPT ![n] = reads'[n]]
      BY <2>2 DEF OnHeartbeatAck, Acked, AckReads, durable, TInv, TypeOK, VolatileTypeOK
    <3>2. CASE p = n
      BY <3>1, <3>2 DEF Moves
    <3>3. CASE p # n
      BY <3>1, <3>3 DEF Moves, Still, Acked, TInv, TypeOK, VolatileTypeOK
    <3> QED
      BY <3>2, <3>3
  <2> QED
    BY <1>4, <2>1, <2>2 DEF OnNack, OnHeartbeatAck
<1> QED
  BY <1>1, <1>2, <1>3, <1>4 DEF Step

LEMMA NodeMoves ==
  ASSUME TInv, [Next]_vars, NEW p \in Node
  PROVE  Moves(p)
<1>1. CASE UNCHANGED vars
  BY <1>1 DEF vars, volatile, Still, Moves
<1>2. ASSUME NEW n \in Node, Tick(n) PROVE Moves(p)
  <2>1. CASE StartElection(n)
    <3>1. CASE p = n
      BY <2>1, <3>1 DEF Moves
    <3>2. CASE p # n
      BY <2>1, <3>2 DEF Moves, Still, StartElection, TInv, TypeOK, VolatileTypeOK
    <3> QED
      BY <3>1, <3>2
  <2>2. CASE CandidateTimeout(n)
    BY <2>2 DEF CandidateTimeout, Moves, Still, TInv, TypeOK, VolatileTypeOK
  <2>3. CASE LeaderTimeout(n)
    BY <2>3, StoppedMoves DEF LeaderTimeout, Moves
  <2>4. CASE Heartbeat(n)
    BY <2>4 DEF Heartbeat, volatile, Still, Moves
  <2> QED
    BY <1>2, <2>1, <2>2, <2>3, <2>4 DEF Tick
<1>3. ASSUME NEW n \in Node, NEW v \in Value, Propose(n, v) PROVE Moves(p)
  BY <1>3 DEF Propose, Still, Moves
<1>4. ASSUME NEW n \in Node, ReadIndex(n) PROVE Moves(p)
  <2>1. CASE p = n
    BY <1>4, <2>1 DEF Moves
  <2>2. CASE p # n
    <3>1. /\ readSeq' = [readSeq EXCEPT ![n] = readSeq'[n]]
          /\ reads' = [reads EXCEPT ![n] = reads'[n]]
          /\ UNCHANGED <<role, ballot, firstOwnSlot>>
      BY <1>4 DEF ReadIndex, TInv, TypeOK, VolatileTypeOK
    <3> QED
      BY <2>2, <3>1 DEF Moves, Still, TInv, TypeOK, VolatileTypeOK
  <2> QED
    BY <2>1, <2>2
<1>5. ASSUME NEW n \in Node, Restart(n) \/ StoreFailure(n) PROVE Moves(p)
  <2>1. Reset(n)
    BY <1>5 DEF Restart, StoreFailure, FailElection, FailPromise, FailAccept, FailTakeover,
                FailOnLearn, FailOnAccepted, FailLearn
  <2> QED
    BY <2>1, StoppedMoves DEF Moves
<1> QED
  BY <1>1, <1>2, <1>3, <1>4, <1>5, StepMoves DEF Next

\* A step learns what its own ballot decided, or what it was told.
LEMMA TaughtOne ==
  ASSUME TInv, [Next]_vars
  PROVE  \/ chosen' = chosen
         \/ \E n \in Node, s \in Slots, b \in Elections, v \in Values :
              /\ SetChosen(n, s, b, v)
              /\ b.node = n \/ \E m \in msgs : m.type = "learn" /\ m.slot = s /\ m.ballot = b
<1>1. CASE UNCHANGED vars
  BY <1>1 DEF vars, durable
<1>2. ASSUME NEW n \in Node, NEW m \in msgs,
             OnLearn(n, m) \/ FailOnLearn(n, m)
      PROVE  /\ SetChosen(n, m.slot, m.ballot, m.value) /\ m.type = "learn"
             /\ m.slot \in Slots /\ m.ballot \in Elections /\ m.value \in Values
  BY <1>2, MessageTypes DEF TInv, TypeOK, LearnMsg, OnLearn, FailOnLearn, Learn, FailLearn
<1>3. ASSUME NEW n \in Node, NEW m \in msgs, OnAccepted(n, m) \/ FailOnAccepted(n, m)
      PROVE  \/ chosen' = chosen
             \/ \E v \in Values : /\ SetChosen(n, m.slot, ballot[n], v) /\ ballot[n].node = n
                                 /\ m.slot \in Slots /\ ballot[n] \in Elections
  <2>1. m.slot \in Slots /\ Counts(n, m)
    BY <1>3, MessageTypes DEF TInv, TypeOK, AcceptedMsg, OnAccepted, FailOnAccepted
  <2>2. ballot[n] \in Elections /\ ballot[n].node = n
    BY <2>1, RoleNames DEF Counts, TInv, RoleInv
  <2>3. proposals[n][m.slot].value \in Values
    BY <2>1 DEF TInv, TypeOK, VolatileTypeOK
  <2> QED
    BY <1>3, <2>1, <2>2, <2>3 DEF OnAccepted, FailOnAccepted, Learn, FailLearn, durable
<1>4. ASSUME NEW n \in Node, NEW m \in msgs, Step(n, m), ~ OnLearn(n, m), ~ OnAccepted(n, m)
      PROVE  chosen' = chosen
  BY <1>4 DEF Step, OnPrepare, OnPromise, BecomeLeader, OnAccept, OnNack, Overtaken,
              OnLearnRequest, OnHeartbeat, OnHeartbeatAck, durable
<1>5. ASSUME NEW n \in Node, Tick(n) \/ ReadIndex(n) \/ Restart(n) \/ FailElection(n)
      PROVE  chosen' = chosen
  BY <1>5 DEF Tick, StartElection, CandidateTimeout, LeaderTimeout, Heartbeat, ReadIndex,
              Restart, FailElection, durable
<1>6. ASSUME NEW n \in Node, NEW v \in Value, Propose(n, v) PROVE chosen' = chosen
  BY <1>6 DEF Propose
<1>7. ASSUME NEW n \in Node, NEW m \in msgs,
             FailPromise(n, m) \/ FailAccept(n, m) \/ FailTakeover(n, m)
      PROVE  chosen' = chosen
  BY <1>7 DEF FailPromise, FailAccept, FailTakeover
<1>8. CASE Next
  BY <1>2, <1>3, <1>4, <1>5, <1>6, <1>7, <1>8 DEF Next, StoreFailure
<1> QED
  BY <1>1, <1>8

\* Where a heartbeat, its acknowledgement or a Learn comes from.
NewBeat(m) ==
  \E p \in Node :
    /\ role[p] = Leader /\ m.ballot = ballot[p]
    /\ \/ UNCHANGED volatile /\ m.readSeq = Highest({0} \cup {r.seq : r \in reads[p]})
       \/ ReadIndex(p) /\ m.readSeq = readSeq[p] + 1

NewAck(m) ==
  \E h \in msgs : /\ h.type = "heartbeat" /\ m.ballot = h.ballot /\ m.readSeq = h.readSeq
                  /\ m.promised = promised'[m.from]

NewLearn(m) ==
  \/ \E p \in Node : Known(p, m.slot) /\ m.ballot = chosen[p][m.slot].ballot
  \/ Known(m.ballot.node, m.slot)'

Sent(m) ==
  /\ m.type = "heartbeat" => NewBeat(m)
  /\ m.type = "heartbeatAck" => NewAck(m)
  /\ m.type = "learn" => m.slot \in Slots /\ NewLearn(m)

\* Steps that send nothing of these kinds.
LEMMA OtherSent ==
  ASSUME \A m \in msgs' \ msgs : m.type \notin {"heartbeat", "heartbeatAck", "learn"}
  PROVE  \A m \in msgs' \ msgs : Sent(m)
BY DEF Sent

LEMMA AcceptsSent ==
  ASSUME NEW n, NEW f, NEW m \in Accepts(n, f)
  PROVE  m.type = "accept"
BY DEF Accepts

LEMMA LearnSent ==
  ASSUME TInv, NEW n \in Node, NEW m \in msgs, OnAccepted(n, m) \/ OnLearn(n, m)
  PROVE  \A x \in msgs' \ msgs : Sent(x)
<1>1. CASE OnLearn(n, m)
  <2>1. msgs' = msgs \cup Accepts(n, Drained(n, DrainCount(n, m.slot)))
    BY <1>1 DEF OnLearn, Learn
  <2> QED
    BY <2>1, AcceptsSent, OtherSent
<1>2. CASE OnAccepted(n, m)
  <2>1. /\ m.slot \in Slots /\ ballot[n] \in Elections /\ ballot[n].node = n
        /\ chosen \in [Node -> [Slots -> Entries]]
    BY <1>2, MessageTypes, RoleNames
       DEF TInv, TypeOK, DurableTypeOK, AcceptedMsg, OnAccepted, Counts, RoleInv
  <2>2. CASE msgs' = msgs
    BY <2>2
  <2>3. CASE msgs' # msgs
    <3> DEFINE p == proposals[n][m.slot]
               sends == {[type |-> "learn", to |-> q, slot |-> m.slot,
                          ballot |-> ballot[n], value |-> p.value] : q \in Node \ {n}}
    <3>1. Learn(n, m.slot, ballot[n], p.value, sends)
      BY <1>2, <2>3 DEF OnAccepted
    <3>2. SetChosen(n, m.slot, ballot[n], p.value)
      BY <3>1 DEF Learn
    <3>3. chosen'[n][m.slot].ballot = ballot[n]
      BY <2>1, <3>2 DEF SetChosen
    <3>4. Known(n, m.slot)'
      BY <2>1, <3>3, BallotsAreRecords DEF Known
    <3>5. msgs' = msgs \cup Accepts(n, Drained(n, DrainCount(n, m.slot))) \cup sends
      BY <3>1 DEF Learn
    <3>6. \A x \in sends : x.type = "learn" /\ x.slot = m.slot /\ x.ballot = ballot[n]
      OBVIOUS
    <3> HIDE DEF sends
    <3>7. ASSUME NEW x \in sends PROVE Sent(x)
      <4>1. x.type = "learn" /\ x.slot = m.slot /\ x.ballot.node = n
        BY <2>1, <3>6
      <4>2. Known(x.ballot.node, x.slot)'
        BY <3>4, <4>1
      <4> QED
        BY <2>1, <4>1, <4>2 DEF Sent, NewLearn
    <3>8. ASSUME NEW x \in msgs' \ msgs, x \notin sends PROVE Sent(x)
      <4>1. x.type = "accept"
        BY <3>5, <3>8, AcceptsSent
      <4> QED
        BY <4>1 DEF Sent
    <3> QED
      BY <3>7, <3>8
  <2> QED
    BY <2>2, <2>3
<1> QED
  BY <1>1, <1>2

LEMMA StepSent ==
  ASSUME TInv, NEW n \in Node, NEW m \in msgs, Step(n, m)
  PROVE  \A x \in msgs' \ msgs : Sent(x)
<1>1. CASE OnAccepted(n, m) \/ OnLearn(n, m)
  BY <1>1, LearnSent
<1>2. CASE OnPrepare(n, m) \/ OnAccept(n, m)
  <2>1. \A x \in msgs' \ msgs : x.type \in {"promise", "accepted", "nack"}
    BY <1>2 DEF OnPrepare, OnAccept, Promise
  <2> QED
    BY <2>1, OtherSent
<1>3. CASE OnPromise(n, m)
  <2>1. \A x \in msgs' \ msgs : x.type = "accept"
    BY <1>3, AcceptsSent DEF OnPromise, BecomeLeader
  <2> QED
    BY <2>1, OtherSent
<1>4. CASE OnNack(n, m) \/ OnHeartbeatAck(n, m)
  <2>1. msgs' = msgs
    BY <1>4 DEF OnNack, OnHeartbeatAck, Overtaken
  <2> QED
    BY <2>1
<1>5. CASE OnLearnRequest(n, m)
  <2> DEFINE S == {s \in Slots : /\ s >= m.fromSlot /\ s < m.fromSlot + LearnBatch
                                 /\ Known(n, s)}
  <2>1. msgs' = msgs \cup Learns(n, S, {m.from}) /\ S \subseteq Slots /\ \A s \in S : Known(n, s)
    BY <1>5 DEF OnLearnRequest
  <2> HIDE DEF S
  <2>2. ASSUME NEW x \in Learns(n, S, {m.from}) PROVE Sent(x)
    <3>1. PICK s \in S : x.type = "learn" /\ x.slot = s /\ x.ballot = chosen[n][s].ballot
      BY <2>2 DEF Learns
    <3> QED
      BY <2>1, <3>1 DEF Sent, NewLearn
  <2> QED
    BY <2>1, <2>2
<1>6. CASE OnHeartbeat(n, m)
  <2> DEFINE ack == HeartbeatAck(n, m)
  <2>1. ack.type = "heartbeatAck" /\ NewAck(ack)
    BY <1>6 DEF OnHeartbeat, HeartbeatAck, NewAck
  <2>2. \A x \in msgs' \ msgs : x = ack \/ x.type = "learnRequest"
    BY <1>6 DEF OnHeartbeat
  <2> HIDE DEF ack
  <2> QED
    BY <2>1, <2>2 DEF Sent
<1> QED
  BY <1>1, <1>2, <1>3, <1>4, <1>5, <1>6 DEF Step

LEMMA NextSent ==
  ASSUME TInv, [Next]_vars
  PROVE  \A x \in msgs' \ msgs : Sent(x)
<1>1. CASE UNCHANGED vars
  BY <1>1 DEF vars
<1>2. ASSUME NEW n \in Node, Tick(n) PROVE \A x \in msgs' \ msgs : Sent(x)
  <2>1. CASE StartElection(n)
    <3>1. \A x \in msgs' \ msgs : x.type = "prepare"
      BY <2>1 DEF StartElection
    <3> QED
      BY <3>1, OtherSent
  <2>2. CASE CandidateTimeout(n) \/ LeaderTimeout(n)
    BY <2>2 DEF CandidateTimeout, LeaderTimeout
  <2>3. CASE Heartbeat(n)
    <3>1. \A x \in msgs' \ msgs :
            /\ x.type = "heartbeat" /\ x.ballot = ballot[n] /\ role[n] = Leader
            /\ x.readSeq = Highest({0} \cup {r.seq : r \in reads[n]})
            /\ UNCHANGED volatile
      BY <2>3 DEF Heartbeat
    <3> QED
      BY <3>1 DEF Sent, NewBeat
  <2> QED
    BY <1>2, <2>1, <2>2, <2>3 DEF Tick
<1>3. ASSUME NEW n \in Node, NEW v \in Value, Propose(n, v)
      PROVE  \A x \in msgs' \ msgs : Sent(x)
  <2>1. \A x \in msgs' \ msgs : x.type = "accept"
    BY <1>3, AcceptsSent DEF Propose
  <2> QED
    BY <2>1, OtherSent
<1>4. ASSUME NEW n \in Node, ReadIndex(n) PROVE \A x \in msgs' \ msgs : Sent(x)
  <2>1. \A x \in msgs' \ msgs : /\ x.type = "heartbeat" /\ x.ballot = ballot[n]
                                /\ x.readSeq = readSeq[n] + 1 /\ role[n] = Leader
    BY <1>4 DEF ReadIndex, Ready
  <2> QED
    BY <1>4, <2>1 DEF Sent, NewBeat
<1>5. ASSUME NEW n \in Node, Restart(n) \/ StoreFailure(n)
      PROVE  \A x \in msgs' \ msgs : Sent(x)
  BY <1>5 DEF Restart, StoreFailure, FailElection, FailPromise, FailAccept, FailTakeover,
              FailOnLearn, FailOnAccepted, FailLearn, Reset
<1> QED
  BY <1>1, <1>2, <1>3, <1>4, <1>5, StepSent DEF Next

LEMMA KnownBallot ==
  ASSUME TInv, NEW n \in Node, NEW s \in Slots, Known(n, s)
  PROVE  chosen[n][s].ballot \in Elections /\ chosen[n][s].ballot.node \in Node
<1>1. chosen[n][s].ballot \in BallotSet
  BY DEF TInv, TypeOK, DurableTypeOK, Entries
<1> QED
  BY <1>1, BallotsAreRecords DEF Known, BallotSet

LEMMA KnownStays ==
  ASSUME TInv, [Next]_vars, NEW n \in Node, NEW s \in Slots, Known(n, s)
  PROVE  Known(n, s)'
<1>1. CASE chosen' = chosen
  BY <1>1 DEF Known
<1>2. ASSUME NEW p \in Node, NEW t \in Slots, NEW b \in Elections, NEW v \in Values,
             SetChosen(p, t, b, v)
      PROVE  Known(n, s)'
  <2>1. chosen'[n][s].ballot = b \/ chosen'[n][s].ballot = chosen[n][s].ballot
    <3>1. chosen \in [Node -> [Slots -> Entries]]
      BY DEF TInv, TypeOK, DurableTypeOK
    <3> QED
      BY <1>2, <3>1 DEF SetChosen
  <2> QED
    BY <2>1, BallotsAreRecords DEF Known
<1> QED
  BY <1>1, <1>2, LearnsOne

LEMMA TaughtNext ==
  ASSUME TInv, TInv', TaughtInv, [Next]_vars
  PROVE  TaughtInv'
<1>1. ASSUME NEW n \in Node, NEW s \in Slots, Known(n, s)'
      PROVE  Known(chosen[n][s].ballot.node, s)'
  <2>1. CASE chosen'[n][s] = chosen[n][s]
    <3>1. Known(n, s)
      BY <1>1, <2>1 DEF Known
    <3>2. PICK c : c = chosen[n][s].ballot.node
      OBVIOUS
    <3>3. c \in Node /\ Known(c, s)
      BY <3>1, <3>2, KnownBallot DEF TaughtInv
    <3>4. Known(c, s)'
      BY <3>3, KnownStays
    <3> QED
      BY <2>1, <3>2, <3>4 DEF Known
  <2>2. CASE chosen'[n][s] # chosen[n][s]
    <3>1. PICK p \in Node, t \in Slots, b \in Elections, v \in Values :
            /\ SetChosen(p, t, b, v)
            /\ b.node = p \/ \E m \in msgs : m.type = "learn" /\ m.slot = t /\ m.ballot = b
      BY <2>2, TaughtOne
    <3>2. chosen \in [Node -> [Slots -> Entries]]
      BY DEF TInv, TypeOK, DurableTypeOK
    <3>3. p = n /\ t = s /\ chosen'[n][s].ballot = b
      BY <2>2, <3>1, <3>2 DEF SetChosen
    <3>4. Known(b.node, s)'
      <4>1. CASE b.node = p
        BY <1>1, <3>3, <4>1
      <4>2. CASE \E m \in msgs : m.type = "learn" /\ m.slot = t /\ m.ballot = b
        <5>1. Known(b.node, s)
          BY <3>3, <4>2 DEF TaughtInv
        <5>2. b.node \in Node
          BY BallotsAreRecords
        <5> QED
          BY <5>1, <5>2, KnownStays
      <4> QED
        BY <3>1, <4>1, <4>2
    <3> QED
      BY <3>3, <3>4 DEF Known
  <2> QED
    BY <2>1, <2>2
<1>2. ASSUME NEW m \in msgs', m.type = "learn"
      PROVE  Known(m.ballot.node, m.slot)'
  <2>1. m.slot \in Slots /\ m.ballot \in Elections /\ m.ballot.node \in Node
    BY <1>2, MessageTypes, BallotsAreRecords DEF TInv, TypeOK, LearnMsg
  <2>2. CASE m \in msgs
    BY <1>2, <2>1, <2>2, KnownStays DEF TaughtInv
  <2>3. CASE \E p \in Node : Known(p, m.slot) /\ m.ballot = chosen[p][m.slot].ballot
    <3>1. Known(m.ballot.node, m.slot)
      BY <2>1, <2>3 DEF TaughtInv
    <3> QED
      BY <2>1, <3>1, KnownStays
  <2>4. CASE m \notin msgs
    BY <1>2, <2>3, <2>4, NextSent DEF Sent, NewLearn
  <2> QED
    BY <2>2, <2>4
<1> QED
  BY <1>1, <1>2 DEF TaughtInv

LEMMA PendingSeq ==
  ASSUME TInv, PendingInv, NEW n \in Node, role[n] = Leader
  PROVE  Highest({0} \cup {r.seq : r \in reads[n]}) <= readSeq[n]
<1> DEFINE S == {0} \cup {r.seq : r \in reads[n]}
<1>1. reads[n] \subseteq Read /\ readSeq[n] \in 0..MaxReads /\ MaxReads \in Nat
  BY Constants DEF TInv, TypeOK, VolatileTypeOK
<1>2. S \in SUBSET (0..MaxReads)
  BY <1>1 DEF Read
<1>3. Highest(S) \in S
  BY <1>1, <1>2, HighestOfRange
<1>4. \A x \in S : x <= readSeq[n]
  BY <1>1 DEF PendingInv, PendingOK
<1> QED
  BY <1>3, <1>4

\* A node that is not a follower after the step keeps its ballot and read
\* numbers, or took a ballot above all it has seen.
LEMMA BallotMoves ==
  ASSUME TInv, [Next]_vars, NEW n \in Node, role'[n] # Follower
  PROVE  \/ /\ role[n] # Follower /\ ballot'[n] = ballot[n]
            /\ readSeq[n] \in Nat /\ readSeq'[n] \in {readSeq[n], readSeq[n] + 1}
         \/ ballot'[n].round = maxRound[n] + 1
<1>1. /\ readSeq \in [Node -> 0..MaxReads] /\ maxRound \in [Node -> Nat] /\ MaxReads \in Nat
      /\ ballot \in [Node -> BallotSet] /\ role \in [Node -> {Follower, Candidate, Leader}]
  BY Constants DEF TInv, TypeOK, DurableTypeOK, VolatileTypeOK
<1>2. readSeq[n] \in Nat
  BY <1>1
<1>3. CASE Still(n)
  BY <1>2, <1>3 DEF Still
<1>4. CASE StartElection(n)
  <2>1. ballot' = [ballot EXCEPT ![n] = [round |-> maxRound[n] + 1, node |-> n]]
    BY <1>4 DEF StartElection
  <2> QED
    BY <1>1, <2>1
<1>5. CASE \E m \in msgs : OnPromise(n, m) /\ IsQuorum({x.from : x \in Collected(n, m)})
  <2>1. UNCHANGED <<ballot, readSeq>> /\ role[n] = Candidate
    BY <1>5 DEF OnPromise, BecomeLeader
  <2> QED
    BY <1>2, <2>1, RoleNames
<1>6. CASE ReadIndex(n)
  <2>1. readSeq' = [readSeq EXCEPT ![n] = readSeq[n] + 1] /\ role[n] = Leader /\ ballot' = ballot
    BY <1>6 DEF ReadIndex, Ready
  <2> QED
    BY <1>1, <1>2, <2>1, RoleNames
<1>7. CASE \E m \in msgs : Acked(n, m)
  BY <1>2, <1>7, RoleNames DEF Acked
<1> QED
  BY <1>3, <1>4, <1>5, <1>6, <1>7, NodeMoves DEF Moves

LEMMA BeatFields ==
  ASSUME NEW m \in Message, m.type \in Beats
  PROVE  m.ballot \in Elections /\ m.ballot.node \in Node /\ m.ballot.round \in Nat
         /\ m.readSeq \in Nat
<1>1. m.ballot \in Elections /\ m.readSeq \in 0..MaxReads
  BY MessageTypes DEF Beats, HeartbeatMsg, HeartbeatAckMsg
<1> QED
  BY <1>1, BallotsAreRecords, Constants DEF BallotRec

LEMMA BeatNext ==
  ASSUME TInv, TInv', Mono, BeatInv, PendingInv, [Next]_vars
  PROVE  BeatInv'
<1>1. /\ maxRound \in [Node -> Nat] /\ maxRound' \in [Node -> Nat]
      /\ \A a \in Node : maxRound[a] <= maxRound'[a]
      /\ msgs \subseteq Message /\ msgs' \subseteq Message
  BY DEF TInv, TypeOK, DurableTypeOK, Mono
<1>2. ASSUME NEW m \in msgs, m.type \in Beats
      PROVE  /\ m.ballot.round <= maxRound'[m.ballot.node]
             /\ \A n \in Node : role'[n] # Follower /\ m.ballot = ballot'[n] =>
                  m.readSeq <= readSeq'[n]
  <2>1. /\ m.ballot.round <= maxRound[m.ballot.node]
        /\ m.ballot.node \in Node /\ m.ballot.round \in Nat /\ m.readSeq \in Nat
        /\ \A n \in Node : role[n] # Follower /\ m.ballot = ballot[n] => m.readSeq <= readSeq[n]
    BY <1>1, <1>2, BeatFields DEF BeatInv
  <2>2. m.ballot.round <= maxRound'[m.ballot.node]
    BY <1>1, <2>1
  <2>3. ASSUME NEW n \in Node, role'[n] # Follower, m.ballot = ballot'[n]
        PROVE  m.readSeq <= readSeq'[n]
    <3>1. m.ballot.node = n
      BY <2>3 DEF TInv, RoleInv
    <3>2. ballot'[n].round # maxRound[n] + 1
      BY <1>1, <2>1, <2>3, <3>1
    <3>3. /\ role[n] # Follower /\ ballot'[n] = ballot[n]
          /\ readSeq[n] \in Nat /\ readSeq'[n] \in {readSeq[n], readSeq[n] + 1}
      BY <2>3, <3>2, BallotMoves
    <3>4. m.readSeq <= readSeq[n]
      BY <2>1, <2>3, <3>3
    <3> QED
      BY <2>1, <3>3, <3>4
  <2> QED
    BY <2>2, <2>3
<1>3. ASSUME NEW m \in msgs', m \notin msgs, m.type = "heartbeat"
      PROVE  /\ m.ballot.round <= maxRound'[m.ballot.node]
             /\ \A n \in Node : role'[n] # Follower /\ m.ballot = ballot'[n] =>
                  m.readSeq <= readSeq'[n]
  <2>1. PICK p \in Node :
          /\ role[p] = Leader /\ m.ballot = ballot[p]
          /\ \/ UNCHANGED volatile /\ m.readSeq = Highest({0} \cup {r.seq : r \in reads[p]})
             \/ ReadIndex(p) /\ m.readSeq = readSeq[p] + 1
    BY <1>3, NextSent DEF Sent, NewBeat
  <2>2. /\ ballot[p] = promised[p] /\ ballot[p].node = p
        /\ promised[p].round <= maxRound[p] /\ ballot[p].round \in Nat
    BY <2>1, RoleNames, BallotsAreRecords DEF TInv, RoleInv, BallotRec
  <2>3. m.ballot.round <= maxRound'[m.ballot.node]
    BY <1>1, <2>1, <2>2
  <2>4. ASSUME NEW n \in Node, role'[n] # Follower, m.ballot = ballot'[n]
        PROVE  m.readSeq <= readSeq'[n]
    <3>1. n = p
      BY <2>1, <2>2, <2>4 DEF TInv, RoleInv
    <3>2. CASE UNCHANGED volatile /\ m.readSeq = Highest({0} \cup {r.seq : r \in reads[p]})
      BY <2>1, <3>1, <3>2, PendingSeq DEF volatile
    <3>3. CASE ReadIndex(p) /\ m.readSeq = readSeq[p] + 1
      <4>1. readSeq'[p] = readSeq[p] + 1 /\ readSeq[p] \in Nat
        BY <3>3, Constants DEF ReadIndex, TInv, TypeOK, VolatileTypeOK
      <4> QED
        BY <3>1, <3>3, <4>1
    <3> QED
      BY <2>1, <3>2, <3>3
  <2> QED
    BY <2>3, <2>4
<1>4. ASSUME NEW m \in msgs', m \notin msgs, m.type = "heartbeatAck"
      PROVE  /\ m.ballot.round <= maxRound'[m.ballot.node]
             /\ \A n \in Node : role'[n] # Follower /\ m.ballot = ballot'[n] =>
                  m.readSeq <= readSeq'[n]
  <2>1. PICK h \in msgs : h.type = "heartbeat" /\ m.ballot = h.ballot /\ m.readSeq = h.readSeq
    BY <1>4, NextSent DEF Sent, NewAck
  <2>2. h.type \in Beats
    BY <2>1 DEF Beats
  <2> QED
    BY <1>2, <2>1, <2>2
<1>5. \A m \in msgs' : m.type \in Beats =>
        /\ m.ballot.round <= maxRound'[m.ballot.node]
        /\ \A n \in Node : role'[n] # Follower /\ m.ballot = ballot'[n] =>
             m.readSeq <= readSeq'[n]
  BY <1>2, <1>3, <1>4 DEF Beats
<1> QED
  BY <1>5 DEF BeatInv

\* A new leader's majority has nothing above the top of the log, at any ballot
\* below the leader's.
LEMMA NewLeaderOpens ==
  ASSUME TInv, TInv', Mono, SafetyInv, NEW n \in Node, NEW m \in msgs, OnPromise(n, m),
         IsQuorum({x.from : x \in Collected(n, m)}),
         NEW s \in Slots, s >= firstOwnSlot'[n]
  PROVE  OpenTo(n, s)'
<1> DEFINE got == Collected(n, m)
<1>1. m.type = "promise" /\ role[n] = Candidate /\ m.ballot = ballot[n]
  BY DEF OnPromise
<1>2. /\ got \in SUBSET PromiseMsg /\ Answers(n, got)
      /\ \A top \in Taken(n, got) : top \in Int
  BY <1>1, CollectedType, CollectedAnswers
<1>3. PICK top \in Taken(n, got) :
        (\A t \in Taken(n, got) : t <= top) /\ BecomeLeader(n, got, top)
  BY DEF OnPromise
<1>4. firstOwnSlot' = [firstOwnSlot EXCEPT ![n] = top + 1] /\ ballot' = ballot
  BY <1>3 DEF BecomeLeader
<1>5. IsQuorum({x.from : x \in got})
  OBVIOUS
<1> HIDE DEF got
<1>6. s > top /\ s \in Nat /\ top \in Int
  BY <1>2, <1>3, <1>4, Constants DEF TInv, TypeOK, VolatileTypeOK
<1>7. s >= fromSlot[n]
  BY <1>1, <1>2, <1>3, <1>5, <1>6, AboveTop
<1>8. ASSUME NEW c \in Elections, Less(c, ballot[n]), NEW a \in {x.from : x \in got}
      PROVE  Closed(a, s, c)
  <2>1. PICK x \in got : a = x.from
    BY <1>8
  <2>2. ASSUME NEW r \in x.accepted, r.slot = s PROVE FALSE
    <3>1. r \in Reported(got)
      BY <2>1, <2>2 DEF Reported
    <3>2. r.slot \in Taken(n, got)
      BY <1>7, <2>2, <3>1 DEF Taken
    <3> QED
      BY <1>3, <1>6, <2>2, <3>2
  <2>3. x \in PromiseMsg /\ x.ballot = ballot[n] /\ PromiseOK(x)
    BY <1>2, <2>1 DEF Answers
  <2> QED
    BY <1>1, <1>7, <1>8, <2>1, <2>2, <2>3, NothingReported
<1>9. PICK Q : Q = {x.from : x \in got}
  OBVIOUS
<1>10. Q \in SUBSET Node
  BY <1>2, <1>9 DEF PromiseMsg
<1>11. ASSUME NEW c \in Elections, Less(c, ballot[n]), NEW a \in Q PROVE Closed(a, s, c)'
  BY <1>8, <1>9, <1>10, <1>11, ClosedStable
<1> QED
  BY <1>4, <1>5, <1>9, <1>10, <1>11 DEF OpenTo

LEMMA OpenToStays ==
  ASSUME TInv, TInv', Mono, NEW n \in Node, NEW s \in Slots, OpenTo(n, s),
         ballot'[n] = ballot[n]
  PROVE  OpenTo(n, s)'
<1> SUFFICES ASSUME NEW c \in Elections, Less(c, ballot[n])
             PROVE  \E Q \in SUBSET Node : IsQuorum(Q) /\ \A a \in Q : Closed(a, s, c)'
  BY DEF OpenTo
<1>1. PICK Q \in SUBSET Node : IsQuorum(Q) /\ \A a \in Q : Closed(a, s, c)
  BY DEF OpenTo
<1> QED
  BY <1>1, ClosedStable

LEMMA OwnSlotsNext ==
  ASSUME TInv, TInv', Mono, SafetyInv, OwnSlotsInv, [Next]_vars
  PROVE  OwnSlotsInv'
<1> SUFFICES ASSUME NEW n \in Node, role'[n] = Leader, NEW s \in Slots, s >= firstOwnSlot'[n]
             PROVE  OpenTo(n, s)'
  BY DEF OwnSlotsInv
<1>1. ASSUME role[n] = Leader, ballot'[n] = ballot[n], firstOwnSlot'[n] = firstOwnSlot[n]
      PROVE  OpenTo(n, s)'
  BY <1>1, OpenToStays DEF OwnSlotsInv
<1>2. CASE Still(n)
  BY <1>1, <1>2 DEF Still
<1>3. CASE StartElection(n)
  <2>1. role'[n] = Candidate
    BY <1>3 DEF StartElection, TInv, TypeOK, VolatileTypeOK
  <2> QED
    BY <2>1, RoleNames
<1>4. CASE \E m \in msgs : OnPromise(n, m) /\ IsQuorum({x.from : x \in Collected(n, m)})
  BY <1>4, NewLeaderOpens
<1>5. CASE ReadIndex(n)
  BY <1>1, <1>5 DEF ReadIndex, Ready
<1>6. CASE \E m \in msgs : Acked(n, m)
  BY <1>1, <1>6 DEF Acked
<1> QED
  BY <1>2, <1>3, <1>4, <1>5, <1>6, NodeMoves, RoleNames DEF Moves

\* If some replica knows more than the leader that starts a barrier, a
\* majority has promised a higher ballot already.
LEMMA AheadMeansReplaced ==
  ASSUME TInv, SafetyInv, OwnSlotsInv, TaughtInv, NEW n \in Node, Ready(n),
         NEW p \in Node, CommitIndex(n) < CommitIndex(p)
  PROVE  \E Q \in SUBSET Node : IsQuorum(Q) /\ \A q \in Q : Less(ballot[n], promised[q])
<1>1. PICK s : s = CommitIndex(n) + 1
  OBVIOUS
<1>2. CommitIndex(n) \in 0..MaxSlot /\ CommitIndex(p) \in 0..MaxSlot /\ MaxSlot \in Nat
  BY KnownPrefix, Constants
<1>3. s \in Slots /\ s <= CommitIndex(p) /\ CommitIndex(n) < MaxSlot
  BY <1>1, <1>2 DEF Slots
<1>4. ~ Known(n, s) /\ Known(p, s)
  BY <1>1, <1>3, KnownPrefix
<1>5. /\ role[n] = Leader /\ ballot[n] \in Elections /\ ballot[n].node = n
      /\ firstOwnSlot[n] \in Nat /\ s >= firstOwnSlot[n]
  BY <1>1, <1>2, RoleNames DEF Ready, TInv, TypeOK, VolatileTypeOK, RoleInv
<1>6. PICK b, v : b = chosen[p][s].ballot /\ v = chosen[p][s].value
  OBVIOUS
<1>7. b \in Elections /\ Known(b.node, s) /\ Decided(s, b, v)
  BY <1>3, <1>4, <1>6, KnownBallot DEF TaughtInv, SafetyInv, ChosenInv
<1>8. b # ballot[n]
  BY <1>4, <1>5, <1>7
<1>9. PICK R \in SUBSET Node : IsQuorum(R) /\ \A a \in R : Voted(a, s, b, v)
  BY <1>7, DecidedVotes
<1>10. ~ Less(b, ballot[n])
  <2>1. SUFFICES ASSUME Less(b, ballot[n]) PROVE FALSE
    OBVIOUS
  <2>2. PICK Q \in SUBSET Node : IsQuorum(Q) /\ \A a \in Q : Closed(a, s, b)
    BY <1>3, <1>5, <1>7, <2>1 DEF OwnSlotsInv, OpenTo
  <2>3. PICK a \in Node : a \in Q /\ a \in R
    BY <1>9, <2>2, QuorumsMeet
  <2>4. v \in Values
    BY <1>3, <1>6 DEF TInv, TypeOK, DurableTypeOK, Entries
  <2> QED
    BY <1>9, <2>2, <2>3, <2>4 DEF Closed
<1>11. b \in BallotRec /\ ballot[n] \in BallotRec
  BY <1>5, <1>7, BallotsAreRecords
<1>12. Less(ballot[n], b)
  BY <1>8, <1>10, <1>11, LessOrder
<1>13. ASSUME NEW q \in R PROVE Less(ballot[n], promised[q])
  <2>1. q \in Node /\ promised[q] \in BallotRec
    BY PromiseRecords
  <2>2. PICK x \in votes : x.node = q /\ x.ballot = b
    BY <1>9 DEF Voted
  <2>3. ~ Less(promised[q], b)
    BY <2>2 DEF SafetyInv, VoteInv
  <2> QED
    BY <1>11, <1>12, <2>1, <2>3, LessOrder
<1> QED
  BY <1>9, <1>13

\* Nothing that acknowledges a superseded read arrives later.
LEMMA SupersededStays ==
  ASSUME TInv, TInv', Mono, [Next]_vars, NEW b \in Elections, NEW seq, NEW acks,
         Superseded(b, seq, acks)
  PROVE  Superseded(b, seq, acks)'
<1>1. PICK Q \in SUBSET Node :
        /\ IsQuorum(Q)
        /\ \A q \in Q : /\ Less(b, promised[q])
                        /\ q \notin acks
                        /\ \A m \in msgs : /\ m.type = "heartbeatAck" /\ m.from = q
                                           /\ m.ballot = b /\ m.promised = b
                                           => m.readSeq < seq
  BY DEF Superseded
<1>2. ASSUME NEW q \in Q
      PROVE  /\ Less(b, promised'[q])
             /\ \A m \in msgs' : /\ m.type = "heartbeatAck" /\ m.from = q
                                 /\ m.ballot = b /\ m.promised = b
                                 => m.readSeq < seq
  <2>1. /\ b \in BallotRec /\ promised[q] \in BallotRec /\ promised'[q] \in BallotRec
        /\ ~ Less(promised'[q], promised[q])
    BY BallotsAreRecords DEF TInv, TypeOK, DurableTypeOK, Mono
  <2>2. Less(b, promised'[q])
    BY <1>1, <2>1, LessOrder
  <2>3. ASSUME NEW m \in msgs', m.type = "heartbeatAck", m.from = q, m.ballot = b,
               m.promised = b
        PROVE  m.readSeq < seq
    <3>1. CASE m \in msgs
      BY <1>1, <2>3, <3>1
    <3>2. CASE m \notin msgs
      <4>1. m.promised = promised'[q]
        BY <2>3, <3>2, NextSent DEF Sent, NewAck
      <4> QED
        BY <2>1, <2>2, <2>3, <4>1, LessOrder
    <3> QED
      BY <3>1, <3>2
  <2> QED
    BY <2>2, <2>3
<1>3. \A q \in Q : /\ Less(b, promised'[q]) /\ q \notin acks
                   /\ \A m \in msgs' : /\ m.type = "heartbeatAck" /\ m.from = q
                                       /\ m.ballot = b /\ m.promised = b
                                       => m.readSeq < seq
  BY <1>1, <1>2
<1> QED
  BY <1>1, <1>3 DEF Superseded

LEMMA NewReadOK ==
  ASSUME TInv, SafetyInv, ReadInv, NEW n \in Node, ReadIndex(n), NEW r,
         r = [seq |-> readSeq[n] + 1, index |-> CommitIndex(n), acks |-> {n},
              observed |-> Highest({CommitIndex(p) : p \in Node})],
         r.index < r.observed
  PROVE  Superseded(ballot[n], r.seq, r.acks)'
<1>1. PICK b : b = ballot[n]
  OBVIOUS
<1>2. /\ Ready(n) /\ UNCHANGED <<promised, ballot>>
      /\ \A m \in msgs' : m.type = "heartbeatAck" => m \in msgs
  BY DEF ReadIndex, durable
<1>3. /\ role[n] # Follower /\ promised[n] = b /\ b \in BallotRec /\ readSeq[n] \in Nat
  BY <1>1, <1>2, RoleNames, BallotsAreRecords, Constants
     DEF Ready, TInv, RoleInv, TypeOK, VolatileTypeOK
<1>4. PICK p \in Node : r.observed = CommitIndex(p)
  <2> DEFINE S == {CommitIndex(p) : p \in Node}
  <2>1. S \in SUBSET (0..MaxSlot) /\ S # {} /\ MaxSlot \in Nat
    BY CommitIndexType, Constants
  <2>2. Highest(S) \in S
    BY <2>1, HighestOfRange
  <2>3. r.observed = Highest(S)
    OBVIOUS
  <2> QED
    BY <2>2, <2>3
<1>5. CommitIndex(n) < CommitIndex(p)
  BY <1>4
<1>6. PICK Q \in SUBSET Node : IsQuorum(Q) /\ \A q \in Q : Less(b, promised[q])
  BY <1>1, <1>2, <1>5, AheadMeansReplaced DEF ReadInv
<1>7. ASSUME NEW q \in Q PROVE q # n
  BY <1>3, <1>6, LessOrder
<1>8. ASSUME NEW m \in msgs', m.type = "heartbeatAck", m.ballot = b
      PROVE  m.readSeq < readSeq[n] + 1
  <2>1. m \in msgs /\ m.type \in Beats
    BY <1>2, <1>8 DEF Beats
  <2>2. m.readSeq <= readSeq[n]
    BY <1>1, <1>3, <1>8, <2>1 DEF ReadInv, BeatInv
  <2>3. m.readSeq \in Nat
    BY <2>1, BeatFields DEF TInv, TypeOK
  <2> QED
    BY <1>3, <2>2, <2>3
<1>9. r.seq = readSeq[n] + 1 /\ r.acks = {n}
  OBVIOUS
<1>10. PICK seq, acks : seq = r.seq /\ acks = r.acks
  OBVIOUS
<1>11. \A q \in Q : /\ Less(b, promised'[q]) /\ q \notin acks
                    /\ \A m \in msgs' : /\ m.type = "heartbeatAck" /\ m.from = q
                                        /\ m.ballot = b /\ m.promised = b
                                        => m.readSeq < seq
  BY <1>2, <1>6, <1>7, <1>8, <1>9, <1>10
<1>12. ballot'[n] = b
  BY <1>1, <1>2
<1> QED
  BY <1>6, <1>10, <1>11, <1>12 DEF Superseded

LEMMA PendingStays ==
  ASSUME TInv, TInv', Mono, [Next]_vars, NEW n \in Node, role[n] = Leader,
         ballot'[n] = ballot[n], readSeq[n] <= readSeq'[n], NEW r \in Read, PendingOK(n, r)
  PROVE  PendingOK(n, r)'
<1>1. readSeq[n] \in Nat /\ readSeq'[n] \in Nat /\ r.seq \in Nat
  BY Constants DEF TInv, TypeOK, VolatileTypeOK, Read
<1>2. PICK b : b = ballot[n]
  OBVIOUS
<1>3. b \in Elections
  BY <1>2, RoleNames DEF TInv, RoleInv
<1>4. PICK seq, acks : seq = r.seq /\ acks = r.acks
  OBVIOUS
<1>5. ASSUME r.index < r.observed PROVE Superseded(b, seq, acks)'
  BY <1>2, <1>3, <1>4, <1>5, SupersededStays DEF PendingOK
<1>6. r.seq <= readSeq'[n]
  BY <1>1 DEF PendingOK
<1> QED
  BY <1>2, <1>4, <1>5, <1>6 DEF PendingOK

\* The node whose acknowledgement counts is none of those that moved on.
LEMMA AckedOK ==
  ASSUME NEW b, NEW seq, NEW acks, Superseded(b, seq, acks), NEW m \in msgs,
         m.type = "heartbeatAck", m.ballot = b, m.promised = b, ~ (m.readSeq < seq)
  PROVE  Superseded(b, seq, acks \cup {m.from})
<1>1. PICK Q \in SUBSET Node :
        /\ IsQuorum(Q)
        /\ \A q \in Q : /\ Less(b, promised[q])
                        /\ q \notin acks
                        /\ \A x \in msgs : /\ x.type = "heartbeatAck" /\ x.from = q
                                           /\ x.ballot = b /\ x.promised = b
                                           => x.readSeq < seq
  BY DEF Superseded
<1>2. m.from \notin Q
  BY <1>1
<1>3. \A q \in Q : q \notin acks \cup {m.from}
  BY <1>1, <1>2
<1> QED
  BY <1>1, <1>3 DEF Superseded

\* What an acknowledgement does to the reads it covers.
LEMMA AckedReads ==
  ASSUME TInv, NEW n \in Node, NEW m \in msgs, Acked(n, m), PendingInv, NEW r \in reads[n],
         r.seq <= m.readSeq, NEW a, a = [r EXCEPT !.acks = @ \cup {m.from}]
  PROVE  /\ a \in Read /\ a.index = r.index /\ a.observed = r.observed /\ a.seq = r.seq
         /\ PendingOK(n, a)
<1>1. r \in Read /\ PendingOK(n, r)
  BY DEF Acked, PendingInv, TInv, TypeOK, VolatileTypeOK
<1>2. m.from \in Node /\ m.type \in Beats /\ m.readSeq \in Nat
  <2>1. m \in Message /\ m \in HeartbeatAckMsg /\ m.type \in Beats
    BY MessageTypes DEF Acked, TInv, TypeOK, Beats
  <2> QED
    BY <2>1, BeatFields DEF HeartbeatAckMsg
<1>3. /\ a.index = r.index /\ a.observed = r.observed /\ a.seq = r.seq
      /\ a.acks = r.acks \cup {m.from} /\ a \in Read
  BY <1>1, <1>2 DEF Read
<1>4. r.seq \in Nat
  BY <1>1, Constants DEF Read
<1>5. ~ (m.readSeq < r.seq)
  BY <1>2, <1>4
<1>6. ASSUME r.index < r.observed PROVE Superseded(ballot[n], r.seq, r.acks \cup {m.from})
  BY <1>1, <1>5, <1>6, AckedOK DEF Acked, PendingOK
<1> QED
  BY <1>1, <1>3, <1>6 DEF PendingOK

LEMMA PendingNext ==
  ASSUME TInv, TInv', Mono, SafetyInv, ReadInv, [Next]_vars
  PROVE  PendingInv'
<1> SUFFICES ASSUME NEW n \in Node, role'[n] = Leader, NEW r \in reads'[n]
             PROVE  PendingOK(n, r)'
  BY DEF PendingInv
<1>1. readSeq[n] \in Nat /\ r \in Read /\ PendingInv
  BY Constants DEF TInv, TypeOK, VolatileTypeOK, ReadInv
<1>2. ASSUME role[n] = Leader, ballot'[n] = ballot[n],
             readSeq'[n] = readSeq[n] \/ readSeq'[n] = readSeq[n] + 1, r \in reads[n]
      PROVE  PendingOK(n, r)'
  <2>1. PendingOK(n, r) /\ readSeq[n] <= readSeq'[n]
    BY <1>1, <1>2 DEF PendingInv
  <2> QED
    BY <1>1, <1>2, <2>1, PendingStays
<1>3. CASE Still(n)
  BY <1>2, <1>3 DEF Still
<1>4. CASE StartElection(n)
  <2>1. role'[n] = Candidate
    BY <1>4 DEF StartElection, TInv, TypeOK, VolatileTypeOK
  <2> QED
    BY <2>1, RoleNames
<1>5. CASE \E m \in msgs : OnPromise(n, m) /\ IsQuorum({x.from : x \in Collected(n, m)})
  <2>1. reads'[n] = {}
    BY <1>5 DEF OnPromise, BecomeLeader, TInv, TypeOK, VolatileTypeOK
  <2> QED
    BY <2>1
<1>6. CASE ReadIndex(n)
  <2> DEFINE new == [seq |-> readSeq[n] + 1, index |-> CommitIndex(n), acks |-> {n},
                     observed |-> Highest({CommitIndex(p) : p \in Node})]
  <2>1. /\ role[n] = Leader /\ ballot'[n] = ballot[n] /\ readSeq'[n] = readSeq[n] + 1
        /\ r \in reads[n] \/ r = new
    BY <1>6 DEF ReadIndex, Ready, TInv, TypeOK, VolatileTypeOK
  <2>2. CASE r \in reads[n]
    BY <1>2, <2>1, <2>2
  <2>3. CASE r = new
    <3>1. r.seq <= readSeq'[n]
      BY <1>1, <2>1, <2>3
    <3>2. ASSUME r.index < r.observed PROVE Superseded(ballot[n], r.seq, r.acks)'
      BY <1>6, <2>3, <3>2, NewReadOK
    <3> HIDE DEF new
    <3> QED
      BY <3>1, <3>2 DEF PendingOK
  <2> QED
    BY <2>1, <2>2, <2>3
<1>7. ASSUME NEW m \in msgs, Acked(n, m) PROVE PendingOK(n, r)'
  <2> DEFINE covered == {x \in reads[n] : x.seq <= m.readSeq}
             acked == {[x EXCEPT !.acks = @ \cup {m.from}] : x \in covered}
  <2>1. /\ role[n] = Leader /\ ballot'[n] = ballot[n] /\ readSeq'[n] = readSeq[n]
        /\ r \in reads[n] \/ r \in acked
    BY <1>7 DEF Acked, AckReads, TInv, TypeOK, VolatileTypeOK
  <2>2. CASE r \in reads[n]
    BY <1>2, <2>1, <2>2
  <2>3. CASE r \in acked
    <3>1. PICK x \in reads[n] : x.seq <= m.readSeq /\ r = [x EXCEPT !.acks = @ \cup {m.from}]
      BY <2>3
    <3>2. PendingOK(n, r)
      BY <1>1, <1>7, <3>1, AckedReads
    <3>3. readSeq[n] <= readSeq'[n]
      BY <1>1, <2>1
    <3> QED
      BY <1>1, <2>1, <3>2, <3>3, PendingStays
  <2> QED
    BY <2>1, <2>2, <2>3
<1> QED
  BY <1>3, <1>4, <1>5, <1>6, <1>7, NodeMoves, RoleNames DEF Moves

\* A barrier completes only on a majority of acknowledgements.
LEMMA FreshNext ==
  ASSUME TInv, ReadInv, [Next]_vars
  PROVE  ReadsAreFresh'
<1>1. CASE ready' = ready
  BY <1>1 DEF ReadInv, ReadsAreFresh
<1>2. ASSUME NEW n \in Node, NEW m \in msgs, Acked(n, m) PROVE ReadsAreFresh'
  <2> DEFINE covered == {x \in reads[n] : x.seq <= m.readSeq}
             acked == {[x EXCEPT !.acks = @ \cup {m.from}] : x \in covered}
             done == {x \in acked : IsQuorum(x.acks)}
  <2>1. ready' = ready \cup {[index |-> x.index, observed |-> x.observed] : x \in done}
    BY <1>2 DEF Acked, AckReads
  <2>2. ASSUME NEW a \in done PROVE a.observed <= a.index
    <3>1. PICK x \in reads[n] : x.seq <= m.readSeq /\ a = [x EXCEPT !.acks = @ \cup {m.from}]
      OBVIOUS
    <3>2. IsQuorum(a.acks)
      OBVIOUS
    <3> HIDE DEF done, acked, covered
    <3>3. a \in Read /\ PendingOK(n, a)
      BY <1>2, <3>1, AckedReads DEF ReadInv
    <3>4. a.index \in Nat /\ a.observed \in Nat /\ a.acks \in SUBSET Node
      BY <3>3, Constants DEF Read
    <3>5. ASSUME a.index < a.observed PROVE FALSE
      <4>1. PICK Q \in SUBSET Node : IsQuorum(Q) /\ \A q \in Q : q \notin a.acks
        BY <3>3, <3>5 DEF PendingOK, Superseded
      <4> QED
        BY <3>2, <3>4, <4>1, QuorumsMeet
    <3> QED
      BY <3>4, <3>5
  <2> HIDE DEF done
  <2>3. ASSUME NEW r \in ready' PROVE r.observed <= r.index
    <3>1. CASE r \in ready
      BY <3>1 DEF ReadInv, ReadsAreFresh
    <3>2. CASE r \notin ready
      <4>1. PICK a \in done : r = [index |-> a.index, observed |-> a.observed]
        BY <2>1, <3>2
      <4> QED
        BY <2>2, <4>1
    <3> QED
      BY <3>1, <3>2
  <2> QED
    BY <2>3 DEF ReadsAreFresh
<1>3. ASSUME NEW n \in Node, NEW m \in msgs, Step(n, m), ~ Acked(n, m) PROVE ready' = ready
  BY <1>3 DEF Step, OnPrepare, OnPromise, BecomeLeader, OnAccept, OnAccepted, OnNack,
              OnLearn, Learn, Overtaken, OnLearnRequest, OnHeartbeat, OnHeartbeatAck, Acked,
              durable
<1>4. ASSUME NEW n \in Node, Tick(n) \/ ReadIndex(n) \/ Restart(n) \/ StoreFailure(n)
      PROVE  ready' = ready
  BY <1>4 DEF Tick, StartElection, CandidateTimeout, LeaderTimeout, Heartbeat, ReadIndex,
              Restart, StoreFailure, FailElection, FailPromise, FailAccept, FailTakeover,
              FailOnLearn, FailOnAccepted, FailLearn, Reset
<1>5. ASSUME NEW n \in Node, NEW v \in Value, Propose(n, v) PROVE ready' = ready
  BY <1>5 DEF Propose
<1>6. CASE UNCHANGED vars
  BY <1>1, <1>6 DEF vars
<1> QED
  BY <1>1, <1>2, <1>3, <1>4, <1>5, <1>6 DEF Next

LEMMA ReadInit == Init => ReadInv
<1> SUFFICES ASSUME Init PROVE ReadInv
  OBVIOUS
<1>1. msgs = {} /\ ready = {} /\ \A n \in Node : role[n] # Leader
  BY RoleNames DEF Init
<1>2. \A n \in Node, s \in Slots : ~ Known(n, s)
  BY DEF Init, Known, NoEntry
<1> QED
  BY <1>1, <1>2 DEF ReadInv, BeatInv, OwnSlotsInv, TaughtInv, PendingInv, ReadsAreFresh

LEMMA ReadNext == TInv /\ TInv' /\ SafetyInv /\ ReadInv /\ [Next]_vars => ReadInv'
<1> SUFFICES ASSUME TInv, TInv', SafetyInv, ReadInv, [Next]_vars PROVE ReadInv'
  OBVIOUS
<1>1. Mono
  BY MonoNext
<1>2. BeatInv' /\ OwnSlotsInv' /\ TaughtInv'
  BY <1>1, BeatNext, OwnSlotsNext, TaughtNext DEF ReadInv
<1>3. PendingInv' /\ ReadsAreFresh'
  BY <1>1, PendingNext, FreshNext
<1> QED
  BY <1>2, <1>3 DEF ReadInv

\* S7 for every cluster: a read barrier that completes returns an index that
\* covers what any replica had committed when ReadIndex was called, whichever
\* leaders were elected in between and however late its acknowledgements
\* arrive (ReadIndex, onHeartbeat, onHeartbeatAck, becomeLeader's no-op).
THEOREM BarriersAreFresh == Spec => []ReadsAreFresh
<1>1. Init => ReadInv
  BY ReadInit
<1>2. TInv /\ TInv' /\ SafetyInv /\ ReadInv /\ [Next]_vars => ReadInv'
  BY ReadNext
<1>3. ReadInv => ReadsAreFresh
  BY DEF ReadInv
<1> QED
  BY <1>1, <1>2, <1>3, SafetyHolds, PTL DEF Spec
=============================================================================

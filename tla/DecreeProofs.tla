----------------------------- MODULE DecreeProofs -----------------------------
(***************************************************************************)
(* The reference acceptor and proposer agree, for every group of acceptors *)
(* and every set of proposers, ballots and values.                         *)
(***************************************************************************)
EXTENDS Decree, BallotProofs

Ballots0 == Attempts \cup {ZeroBallot}

Voted(a, b) == Accepted(a, b) \in msgs
Offered(b, v) == Accept(b, v) \in msgs

\* Acceptor a did not accept at b and never will.
Closed(a, b) == Less(b, promised[a]) /\ ~ Voted(a, b)

\* No value other than v was or will be chosen at c.
SafeBelow(c, v) ==
  \E Q \in SUBSET Acceptors :
    IsQuorum(Q) /\ \A a \in Q : (Voted(a, c) /\ Offered(c, v)) \/ Closed(a, c)

SafeAt(b, v) == \A c \in Attempts : Less(c, b) => SafeBelow(c, v)

\* A promise reports the highest ballot its sender accepted below its own.
PromiseOK(m) ==
  /\ ~ Less(promised[m.from], m.ballot)
  /\ m.accepted # ZeroBallot =>
       /\ Voted(m.from, m.accepted) /\ Offered(m.accepted, m.value)
       /\ Less(m.accepted, m.ballot)
  /\ \A b \in Attempts : Less(b, m.ballot) /\ Voted(m.from, b) => ~ Less(m.accepted, b)

VoteOK(a, b) ==
  /\ ~ Less(promised[a], b) /\ ~ Less(accepted[a], b)
  /\ \E v \in Values : Offered(b, v)

MessageInv ==
  /\ \A m \in Of("promise") : PromiseOK(m)
  /\ \A m \in Of("accept") : SafeAt(m.ballot, m.value)
  /\ \A a \in Acceptors, b \in Attempts : Voted(a, b) => VoteOK(a, b)

\* What an acceptor holds is what it accepted last.
HoldsOK(a) ==
  /\ accepted[a] # ZeroBallot => Voted(a, accepted[a]) /\ Offered(accepted[a], value[a])
  /\ ~ Less(promised[a], accepted[a])

AcceptorInv == \A a \in Acceptors : HoldsOK(a)

\* An attempt has a ballot no earlier one had, and one value.
AttemptOK(p) ==
  LET t == attempt[p]
  IN /\ t.ballot # ZeroBallot => t.ballot.node = p
     /\ \A m \in Of("accept") : m.ballot.node = p =>
          /\ m.ballot.round <= t.ballot.round
          /\ m.ballot = t.ballot => t.proposed /\ m.value = t.value
     /\ \A m \in t.promises : m.ballot = t.ballot
     /\ t.proposed => Offered(t.ballot, t.value)
     /\ \A a \in t.accepts : Voted(a, t.ballot)

AttemptInv == \A p \in Proposers : AttemptOK(p)

ReportInv == \A p \in Proposers : \A v \in reported[p] : Chosen(v)

Inv == TypeOK /\ MessageInv /\ AcceptorInv /\ AttemptInv /\ OneValuePerBallot /\ ReportInv

-----------------------------------------------------------------------------
(* Ballots and quorums *)

LEMMA BallotsAreRecords ==
  /\ Attempts \subseteq BallotRec /\ ZeroBallot \in BallotRec /\ Ballots0 \subseteq BallotRec
  /\ \A b \in Attempts : /\ b.node \in Proposers /\ b.round \in Nat \ {0}
                         /\ b # ZeroBallot /\ Less(ZeroBallot, b)
<1>1. ASSUME NEW b \in Attempts
      PROVE  b \in BallotRec /\ b.node \in Proposers /\ b.round \in Nat \ {0}
  <2>1. b \in [round : Nat \ {0}, node : Proposers] /\ Proposers \subseteq Nat
    BY DecreeAssumption DEF DecreeAssumption
  <2> QED
    BY <2>1 DEF BallotRec
<1>2. ZeroBallot \in BallotRec /\ ZeroBallot.round = 0
  BY DEF BallotRec, ZeroBallot
<1>3. ASSUME NEW b \in Attempts PROVE b # ZeroBallot /\ Less(ZeroBallot, b)
  BY <1>1, <1>2 DEF Less
<1> QED
  BY <1>1, <1>2, <1>3 DEF Ballots0

LEMMA QuorumsMeet ==
  ASSUME NEW Q \in SUBSET Acceptors, NEW R \in SUBSET Acceptors, IsQuorum(Q), IsQuorum(R)
  PROVE  \E a \in Acceptors : a \in Q /\ a \in R
<1> DEFINE n == Cardinality(Acceptors)
<1>1. IsFiniteSet(Acceptors)
  BY DecreeAssumption DEF DecreeAssumption
<1>2. n \in Nat
  BY <1>1, FS_CardinalityType
<1>3. Cardinality(Q) \in Nat /\ Cardinality(R) \in Nat
  BY <1>1, FS_Subset, FS_CardinalityType
<1>4. Cardinality(Q) >= n \div 2 + 1 /\ Cardinality(R) >= n \div 2 + 1
  BY DEF IsQuorum, QuorumSize
<1> HIDE DEF n
<1>5. Cardinality(Q) + Cardinality(R) > n
  BY <1>2, <1>3, <1>4
<1>6. Q \cap R # {}
  BY <1>1, <1>5, FS_MajoritiesIntersect DEF n
<1> QED
  BY <1>6

LEMMA QuorumGrows ==
  ASSUME NEW Q \in SUBSET Acceptors, NEW R \in SUBSET Acceptors, IsQuorum(Q), Q \subseteq R
  PROVE  IsQuorum(R)
<1>1. IsFiniteSet(Acceptors)
  BY DecreeAssumption DEF DecreeAssumption
<1>2. IsFiniteSet(R) /\ Cardinality(Q) <= Cardinality(R)
  BY <1>1, FS_Subset
<1>3. Cardinality(Q) \in Nat /\ Cardinality(R) \in Nat /\ Cardinality(Acceptors) \in Nat
  BY <1>1, <1>2, FS_Subset, FS_CardinalityType
<1>4. Cardinality(Acceptors) \div 2 + 1 \in Int
  BY <1>3
<1> QED
  BY <1>2, <1>3, <1>4 DEF IsQuorum, QuorumSize

LEMMA MessageFields ==
  ASSUME TypeOK
  PROVE  /\ \A m \in Of("prepare") \cup Of("nack") : m.ballot \in Attempts
         /\ \A m \in Of("promise") :
              /\ m.from \in Acceptors /\ m.ballot \in Attempts /\ m.accepted \in Ballots0
              /\ m.value \in Values \cup {NoValue}
         /\ \A m \in Of("accept") :
              /\ m.ballot \in Attempts /\ m.value \in Values
              /\ m = Accept(m.ballot, m.value)
         /\ \A m \in Of("accepted") :
              m.from \in Acceptors /\ m.ballot \in Attempts /\ m = Accepted(m.from, m.ballot)
         /\ \A b, v : Offered(b, v) =>
              b \in Attempts /\ v \in Values /\ Accept(b, v) \in Of("accept")
         /\ \A a, b : Voted(a, b) => a \in Acceptors /\ b \in Attempts
<1>1. msgs \subseteq Messages
  BY DEF TypeOK
<1>2. \A m \in Of("prepare") \cup Of("nack") : m.ballot \in Attempts
  BY <1>1 DEF Of, Messages
<1>3. \A m \in Of("promise") :
        /\ m.from \in Acceptors /\ m.ballot \in Attempts /\ m.accepted \in Ballots0
        /\ m.value \in Values \cup {NoValue}
  BY <1>1 DEF Of, Messages, Ballots0
<1>4. \A m \in Of("accept") :
        m.ballot \in Attempts /\ m.value \in Values /\ m = Accept(m.ballot, m.value)
  <2> SUFFICES ASSUME NEW m \in Of("accept")
               PROVE m.ballot \in Attempts /\ m.value \in Values /\ m = Accept(m.ballot, m.value)
    OBVIOUS
  <2>1. m \in [type : {"accept"}, ballot : Attempts, value : Values]
    BY <1>1 DEF Of, Messages
  <2> QED
    BY <2>1 DEF Accept
<1>5. \A m \in Of("accepted") :
        m.from \in Acceptors /\ m.ballot \in Attempts /\ m = Accepted(m.from, m.ballot)
  <2> SUFFICES ASSUME NEW m \in Of("accepted")
               PROVE m.from \in Acceptors /\ m.ballot \in Attempts /\ m = Accepted(m.from, m.ballot)
    OBVIOUS
  <2>1. m \in [type : {"accepted"}, from : Acceptors, ballot : Attempts]
    BY <1>1 DEF Of, Messages
  <2> QED
    BY <2>1 DEF Accepted
<1>6. ASSUME NEW b, NEW v, Offered(b, v)
      PROVE  b \in Attempts /\ v \in Values /\ Accept(b, v) \in Of("accept")
  <2>1. Accept(b, v) \in Of("accept")
    BY <1>6 DEF Offered, Of, Accept
  <2>2. Accept(b, v).ballot = b /\ Accept(b, v).value = v
    BY DEF Accept
  <2> QED
    BY <1>4, <2>1, <2>2
<1>7. ASSUME NEW a, NEW b, Voted(a, b)
      PROVE  a \in Acceptors /\ b \in Attempts
  <2>1. Accepted(a, b) \in Of("accepted")
    BY <1>7 DEF Voted, Of, Accepted
  <2>2. Accepted(a, b).from = a /\ Accepted(a, b).ballot = b
    BY DEF Accepted
  <2> QED
    BY <1>5, <2>1, <2>2
<1> QED
  BY <1>2, <1>3, <1>4, <1>5, <1>6, <1>7

-----------------------------------------------------------------------------
(* What no step undoes *)

Mono ==
  /\ msgs \subseteq msgs'
  /\ \A a \in Acceptors : /\ ~ Less(promised'[a], promised[a])
                          /\ ~ Less(accepted'[a], accepted[a])
  /\ \A a \in Acceptors, b \in Attempts :
       Accepted(a, b) \in msgs' /\ ~ Voted(a, b) => ~ Less(b, promised[a])

LEMMA AcceptorTypes ==
  ASSUME TypeOK, NEW a \in Acceptors
  PROVE  promised[a] \in BallotRec /\ accepted[a] \in BallotRec
BY BallotsAreRecords DEF TypeOK, Ballots0

LEMMA AcceptorTypesNext ==
  ASSUME TypeOK', NEW a \in Acceptors
  PROVE  promised'[a] \in BallotRec /\ accepted'[a] \in BallotRec
BY BallotsAreRecords DEF TypeOK, Ballots0

LEMMA ClosedStable ==
  ASSUME TypeOK, TypeOK', Mono, NEW a \in Acceptors, NEW b \in Attempts, Closed(a, b)
  PROVE  Closed(a, b)'
<1>1. b \in BallotRec /\ promised[a] \in BallotRec /\ promised'[a] \in BallotRec
  BY AcceptorTypes, AcceptorTypesNext, BallotsAreRecords
<1>2. Less(b, promised'[a])
  BY <1>1, LessOrder DEF Mono, Closed
<1>3. Accepted(a, b) \notin msgs'
  BY DEF Mono, Closed
<1> QED
  BY <1>2, <1>3 DEF Closed, Voted

LEMMA SafeAtStable ==
  ASSUME TypeOK, TypeOK', Mono, NEW b, NEW v, SafeAt(b, v)
  PROVE  SafeAt(b, v)'
<1> SUFFICES ASSUME NEW c \in Attempts, Less(c, b)
             PROVE  SafeBelow(c, v)'
  BY DEF SafeAt
<1>1. PICK Q \in SUBSET Acceptors :
        IsQuorum(Q) /\ \A a \in Q : (Voted(a, c) /\ Offered(c, v)) \/ Closed(a, c)
  BY DEF SafeAt, SafeBelow
<1>2. ASSUME NEW a \in Q PROVE (Voted(a, c)' /\ Offered(c, v)') \/ Closed(a, c)'
  <2>1. CASE Voted(a, c) /\ Offered(c, v)
    BY <2>1 DEF Mono, Voted, Offered
  <2>2. CASE Closed(a, c)
    BY <2>2, ClosedStable
  <2> QED
    BY <1>1, <2>1, <2>2
<1> QED
  BY <1>1, <1>2 DEF SafeBelow

LEMMA PromiseOKStable ==
  ASSUME TypeOK, TypeOK', Mono, NEW m \in Of("promise"), PromiseOK(m)
  PROVE  PromiseOK(m)'
<1>1. m.from \in Acceptors /\ m.ballot \in Attempts
  BY MessageFields
<1>2. /\ promised[m.from] \in BallotRec /\ promised'[m.from] \in BallotRec
      /\ m.ballot \in BallotRec
  BY <1>1, AcceptorTypes, AcceptorTypesNext, BallotsAreRecords
<1>3. ~ Less(promised'[m.from], m.ballot)
  BY <1>1, <1>2, LessOrder DEF Mono, PromiseOK
<1>4. ASSUME NEW b \in Attempts, Less(b, m.ballot), Voted(m.from, b)'
      PROVE  ~ Less(m.accepted, b)
  <2>1. b \in BallotRec
    BY BallotsAreRecords
  <2>2. Less(b, promised[m.from])
    BY <1>2, <1>4, <2>1, LessOrder DEF PromiseOK
  <2>3. Voted(m.from, b)
    BY <1>1, <1>4, <2>2 DEF Mono, Voted
  <2> QED
    BY <1>4, <2>3 DEF PromiseOK
<1> QED
  BY <1>3, <1>4 DEF PromiseOK, Mono, Voted, Offered

LEMMA VoteOKStable ==
  ASSUME TypeOK, TypeOK', Mono, NEW a \in Acceptors, NEW b \in Attempts, VoteOK(a, b)
  PROVE  VoteOK(a, b)'
<1>1. /\ promised[a] \in BallotRec /\ promised'[a] \in BallotRec
      /\ accepted[a] \in BallotRec /\ accepted'[a] \in BallotRec /\ b \in BallotRec
  BY AcceptorTypes, AcceptorTypesNext, BallotsAreRecords
<1>2. ~ Less(promised'[a], b) /\ ~ Less(accepted'[a], b)
  BY <1>1, LessOrder DEF Mono, VoteOK
<1> QED
  BY <1>2 DEF VoteOK, Mono, Offered

LEMMA ChosenStable ==
  ASSUME TypeOK, msgs \subseteq msgs', NEW v, Chosen(v)
  PROVE  Chosen(v)'
<1>1. PICK m \in Of("accept") :
        m.value = v /\ IsQuorum({a \in Acceptors : Accepted(a, m.ballot) \in msgs})
  BY DEF Chosen
<1> DEFINE Q == {a \in Acceptors : Accepted(a, m.ballot) \in msgs}
           R == {a \in Acceptors : Accepted(a, m.ballot) \in msgs'}
<1>2. Q \subseteq R
  OBVIOUS
<1> HIDE DEF Q, R
<1>3. Q \in SUBSET Acceptors /\ R \in SUBSET Acceptors /\ IsQuorum(Q)
  BY <1>1 DEF Q, R
<1>4. IsQuorum(R)
  BY <1>2, <1>3, QuorumGrows
<1>5. m \in Of("accept")'
  BY DEF Of
<1> QED
  BY <1>1, <1>4, <1>5 DEF Chosen, R

\* What is left to show of a step, for the messages.
LEMMA MessageStep ==
  ASSUME TypeOK, TypeOK', Mono, MessageInv,
         \A m \in Of("promise")' : m \notin msgs => PromiseOK(m)',
         \A m \in Of("accept")' : m \notin msgs => SafeAt(m.ballot, m.value)',
         \A a \in Acceptors, b \in Attempts :
           Voted(a, b)' /\ ~ Voted(a, b) => VoteOK(a, b)'
  PROVE  MessageInv'
<1>1. ASSUME NEW m \in Of("promise")' PROVE PromiseOK(m)'
  <2>1. CASE m \in msgs
    <3>1. m \in Of("promise")
      BY <1>1, <2>1 DEF Of
    <3> QED
      BY <3>1, PromiseOKStable DEF MessageInv
  <2> QED
    BY <1>1, <2>1
<1>2. ASSUME NEW m \in Of("accept")' PROVE SafeAt(m.ballot, m.value)'
  <2>1. CASE m \in msgs
    <3>1. m \in Of("accept")
      BY <1>2, <2>1 DEF Of
    <3>2. SafeAt(m.ballot, m.value)
      BY <3>1 DEF MessageInv
    <3> QED
      BY <3>2, SafeAtStable
  <2> QED
    BY <1>2, <2>1
<1>3. ASSUME NEW a \in Acceptors, NEW b \in Attempts, Voted(a, b)' PROVE VoteOK(a, b)'
  <2>1. CASE Voted(a, b)
    BY <2>1, VoteOKStable DEF MessageInv
  <2> QED
    BY <1>3, <2>1
<1> QED
  BY <1>1, <1>2, <1>3 DEF MessageInv

LEMMA HoldsOKStable ==
  ASSUME TypeOK, TypeOK', Mono, NEW a \in Acceptors, HoldsOK(a),
         accepted'[a] = accepted[a], value'[a] = value[a]
  PROVE  HoldsOK(a)'
<1>1. promised[a] \in BallotRec /\ promised'[a] \in BallotRec /\ accepted[a] \in BallotRec
  BY AcceptorTypes, AcceptorTypesNext
<1>2. ~ Less(promised'[a], accepted[a])
  BY <1>1, LessOrder DEF Mono, HoldsOK
<1> QED
  BY <1>2 DEF HoldsOK, Mono, Voted, Offered

LEMMA AttemptOKStable ==
  ASSUME msgs \subseteq msgs', NEW p \in Proposers, AttemptOK(p), attempt'[p] = attempt[p],
         \A m \in Of("accept")' : m.ballot.node = p => m \in msgs
  PROVE  AttemptOK(p)'
<1>1. \A m \in Of("accept")' : m.ballot.node = p => m \in Of("accept")
  BY DEF Of
<1> QED
  BY <1>1 DEF AttemptOK, Voted, Offered

-----------------------------------------------------------------------------
(* The steps of the acceptor *)

AttemptSet ==
  [ballot : Attempts \cup {ZeroBallot}, promises : SUBSET Of("promise"),
   accepts : SUBSET Acceptors, abandoned : BOOLEAN, proposed : BOOLEAN,
   value : Values \cup {NoValue}]

LEMMA AttemptsGrow ==
  ASSUME TypeOK, msgs \subseteq msgs', NEW p \in Proposers
  PROVE  attempt[p] \in AttemptSet'
<1>1. attempt[p] \in AttemptSet
  BY DEF TypeOK, AttemptSet
<1>2. Of("promise") \subseteq Of("promise")'
  BY DEF Of
<1> QED
  BY <1>1, <1>2 DEF AttemptSet

\* A step that sends something and leaves the proposers alone.
LEMMA SentType ==
  ASSUME TypeOK, NEW m \in Messages, Send(m), UNCHANGED <<attempt, reported>>,
         promised' \in [Acceptors -> Ballots0], accepted' \in [Acceptors -> Ballots0],
         value' \in [Acceptors -> Values \cup {NoValue}]
  PROVE  TypeOK' /\ msgs \subseteq msgs'
<1>1. msgs \subseteq msgs' /\ msgs' \subseteq Messages
  BY DEF TypeOK, Send
<1>2. attempt' \in [Proposers -> AttemptSet']
  BY <1>1, AttemptsGrow DEF TypeOK
<1> QED
  BY <1>1, <1>2 DEF TypeOK, AttemptSet, Ballots0

LEMMA NoNewAccept ==
  ASSUME NEW m, Send(m), m.type # "accept"
  PROVE  Of("accept")' = Of("accept")
BY DEF Of, Send

LEMMA ReportsKept ==
  ASSUME TypeOK, msgs \subseteq msgs', ReportInv, UNCHANGED reported
  PROVE  ReportInv'
BY ChosenStable DEF ReportInv

LEMMA ProposersKept ==
  ASSUME TypeOK, msgs \subseteq msgs', AttemptInv, OneValuePerBallot, ReportInv,
         UNCHANGED <<attempt, reported>>, Of("accept")' = Of("accept")
  PROVE  AttemptInv' /\ OneValuePerBallot' /\ ReportInv'
<1>1. \A m \in Of("accept")' : m \in msgs
  BY DEF Of
<1>2. AttemptInv'
  BY <1>1, AttemptOKStable DEF AttemptInv
<1>3. OneValuePerBallot'
  BY DEF OneValuePerBallot
<1> QED
  BY <1>2, <1>3, ReportsKept

\* Refusals, and a prepare: nothing but the message.
LEMMA PlainSend ==
  ASSUME Inv, NEW m \in Messages, Send(m), m.type \in {"nack", "prepare"},
         UNCHANGED acceptorVars, TypeOK'
  PROVE  MessageInv' /\ AcceptorInv' /\ Mono /\ Of("accept")' = Of("accept")
<1>1. Mono
  <2>1. \A a \in Acceptors : promised[a] \in BallotRec /\ accepted[a] \in BallotRec
    BY AcceptorTypes DEF Inv
  <2>2. \A a, b : Accepted(a, b) # m
    BY DEF Accepted
  <2>3. \A a \in Acceptors :
          ~ Less(promised[a], promised[a]) /\ ~ Less(accepted[a], accepted[a])
    BY <2>1, LessOrder
  <2> QED
    BY <2>2, <2>3 DEF Mono, Send, Voted, acceptorVars
<1>2. MessageInv'
  <2>1. \A q \in Of("promise")' \cup Of("accept")' : q \in msgs
    BY DEF Of, Send
  <2>2. \A a, b : Voted(a, b)' => Voted(a, b)
    BY DEF Voted, Send, Accepted
  <2> QED
    BY <1>1, <2>1, <2>2, MessageStep DEF Inv
<1>3. AcceptorInv'
  BY <1>1, HoldsOKStable DEF Inv, AcceptorInv, acceptorVars
<1>4. Of("accept")' = Of("accept")
  BY NoNewAccept
<1> QED
  BY <1>1, <1>2, <1>3, <1>4

LEMMA NackInv ==
  ASSUME Inv, NEW b \in Attempts, Send(Nack(b)), UNCHANGED <<acceptorVars, attempt, reported>>
  PROVE  Inv'
<1>1. Nack(b) \in Messages /\ Nack(b).type = "nack"
  BY DEF Nack, Messages
<1>2. TypeOK' /\ msgs \subseteq msgs'
  BY <1>1, SentType DEF Inv, TypeOK, acceptorVars, Ballots0
<1>3. MessageInv' /\ AcceptorInv' /\ Of("accept")' = Of("accept")
  BY <1>1, <1>2, PlainSend
<1> QED
  BY <1>2, <1>3, ProposersKept DEF Inv

\* A granted promise.
LEMMA PromiseInv ==
  ASSUME Inv, NEW a \in Acceptors, NEW b \in Attempts, MayPromise(promised[a], b),
         promised' = [promised EXCEPT ![a] = b],
         Send(Promise(a, b, accepted[a], value[a])),
         UNCHANGED <<accepted, value, attempt, reported>>
  PROVE  Inv'
<1> DEFINE m == Promise(a, b, accepted[a], value[a])
<1>1. /\ m.type = "promise" /\ m.from = a /\ m.ballot = b
      /\ m.accepted = accepted[a] /\ m.value = value[a]
  BY DEF Promise
<1>2. m \in Messages
  BY DEF Promise, Messages, Inv, TypeOK
<1>3. TypeOK' /\ msgs \subseteq msgs' /\ TypeOK
  BY <1>2, SentType DEF Inv, TypeOK, Ballots0
<1>4. b \in BallotRec /\ \A c \in Acceptors : promised[c] \in BallotRec /\ accepted[c] \in BallotRec
  BY <1>3, AcceptorTypes, BallotsAreRecords
<1>5. \A c, d : Voted(c, d)' <=> Voted(c, d)
  BY <1>1 DEF Voted, Send, Accepted, Promise
<1>6. promised'[a] = b /\ \A c \in Acceptors : c # a => promised'[c] = promised[c]
  BY DEF Inv, TypeOK
<1>7. Mono
  <2>1. \A c \in Acceptors : ~ Less(promised'[c], promised[c]) /\ ~ Less(accepted[c], accepted[c])
    BY <1>4, <1>6, LessOrder DEF MayPromise
  <2> QED
    BY <1>3, <1>5, <2>1 DEF Mono, Voted
<1>8. PromiseOK(m)'
  <2>1. ~ Less(promised'[a], b)
    BY <1>4, <1>6, LessOrder
  <2>2. HoldsOK(a)
    BY DEF Inv, AcceptorInv
  <2>3. Less(accepted[a], b)
    BY <1>4, <2>2, LessOrder DEF HoldsOK, MayPromise
  <2>4. \A c \in Attempts : Voted(a, c)' => ~ Less(accepted[a], c)
    BY <1>5 DEF Inv, MessageInv, VoteOK
  <2>5. accepted[a] # ZeroBallot => Voted(a, accepted[a])' /\ Offered(accepted[a], value[a])'
    BY <1>3, <2>2 DEF HoldsOK, Voted, Offered
  <2> QED
    BY <1>1, <2>1, <2>3, <2>4, <2>5 DEF PromiseOK
<1>9. MessageInv'
  <2>1. \A q \in Of("promise")' : q \notin msgs => q = m
    BY DEF Of, Send
  <2>2. \A q \in Of("accept")' : q \in msgs
    BY <1>1 DEF Of, Send
  <2> QED
    BY <1>3, <1>5, <1>7, <1>8, <2>1, <2>2, MessageStep DEF Inv
<1>10. AcceptorInv'
  BY <1>3, <1>7, HoldsOKStable DEF Inv, AcceptorInv
<1>11. Of("accept")' = Of("accept")
  BY <1>1, NoNewAccept
<1> QED
  BY <1>3, <1>9, <1>10, <1>11, ProposersKept DEF Inv

\* An accepted proposal.
LEMMA AcceptInv ==
  ASSUME Inv, NEW a \in Acceptors, NEW q \in Of("accept"),
         MayAccept(promised[a], q.ballot),
         promised' = [promised EXCEPT ![a] = IF Less(@, q.ballot) THEN q.ballot ELSE @],
         accepted' = [accepted EXCEPT ![a] = q.ballot],
         value' = [value EXCEPT ![a] = q.value],
         Send(Accepted(a, q.ballot)),
         UNCHANGED <<attempt, reported>>
  PROVE  Inv'
<1> DEFINE b == q.ballot
           m == Accepted(a, b)
<1>1. m.type = "accepted" /\ m.from = a /\ m.ballot = b
  BY DEF Accepted
<1>2. TypeOK /\ b \in Attempts /\ q.value \in Values /\ q = Accept(b, q.value)
  BY MessageFields DEF Inv
<1>3. m \in Messages
  BY <1>2 DEF Accepted, Messages
<1>4. TypeOK' /\ msgs \subseteq msgs'
  <2>1. /\ promised' \in [Acceptors -> Ballots0] /\ accepted' \in [Acceptors -> Ballots0]
        /\ value' \in [Acceptors -> Values \cup {NoValue}]
    BY <1>2 DEF TypeOK, Ballots0
  <2> QED
    BY <1>2, <1>3, <2>1, SentType
<1>5. b \in BallotRec /\ \A c \in Acceptors : promised[c] \in BallotRec /\ accepted[c] \in BallotRec
  BY <1>2, AcceptorTypes, BallotsAreRecords
<1>6. /\ promised'[a] = b /\ accepted'[a] = b /\ value'[a] = q.value
      /\ \A c \in Acceptors : c # a => /\ promised'[c] = promised[c]
                                     /\ accepted'[c] = accepted[c] /\ value'[c] = value[c]
  <2>1. (IF Less(promised[a], b) THEN b ELSE promised[a]) = b
    BY <1>5, LessOrder DEF MayAccept
  <2> QED
    BY <2>1 DEF Inv, TypeOK
<1>7. \A c, d : Voted(c, d)' <=> Voted(c, d) \/ (c = a /\ d = b)
  BY DEF Voted, Send, Accepted
<1>8. Offered(b, q.value)'
  BY <1>2, <1>4 DEF Offered, Of
<1>9. ~ Less(accepted'[a], accepted[a]) /\ ~ Less(promised'[a], promised[a])
  <2>1. ~ Less(promised[a], accepted[a])
    BY DEF Inv, AcceptorInv, HoldsOK
  <2> QED
    BY <1>5, <1>6, <2>1, LessOrder DEF MayAccept
<1>10. Mono
  <2>1. \A c \in Acceptors : /\ ~ Less(promised'[c], promised[c])
                             /\ ~ Less(accepted'[c], accepted[c])
    BY <1>5, <1>6, <1>9, LessOrder
  <2>2. \A c \in Acceptors, d \in Attempts :
          Voted(c, d)' /\ ~ Voted(c, d) => ~ Less(d, promised[c])
    BY <1>7 DEF MayAccept
  <2> QED
    BY <1>4, <2>1, <2>2 DEF Mono, Voted
<1>11. VoteOK(a, b)'
  <2>1. ~ Less(b, b)
    BY <1>5, LessOrder
  <2> QED
    BY <1>2, <1>6, <1>8, <2>1 DEF VoteOK
<1>12. MessageInv'
  <2>1. \A x \in Of("promise")' \cup Of("accept")' : x \in msgs
    BY <1>1 DEF Of, Send
  <2>2. \A c \in Acceptors, d \in Attempts : Voted(c, d)' /\ ~ Voted(c, d) => VoteOK(c, d)'
    BY <1>7, <1>11
  <2> QED
    BY <1>2, <1>4, <1>10, <2>1, <2>2, MessageStep DEF Inv
<1>13. AcceptorInv'
  <2>1. HoldsOK(a)'
    <3>1. ~ Less(b, b) /\ Voted(a, b)'
      BY <1>5, <1>7, LessOrder
    <3> QED
      BY <1>6, <1>8, <3>1 DEF HoldsOK
  <2>2. ASSUME NEW c \in Acceptors, c # a PROVE HoldsOK(c)'
    BY <1>2, <1>4, <1>6, <1>10, <2>2, HoldsOKStable DEF Inv, AcceptorInv
  <2> QED
    BY <2>1, <2>2 DEF AcceptorInv
<1>14. Of("accept")' = Of("accept")
  BY <1>1, NoNewAccept
<1> QED
  BY <1>4, <1>12, <1>13, <1>14, ProposersKept DEF Inv

-----------------------------------------------------------------------------
(* The steps of the proposer *)

LEMMA Quiet ==
  ASSUME MessageInv, AcceptorInv, OneValuePerBallot, UNCHANGED <<acceptorVars, msgs>>
  PROVE  MessageInv' /\ AcceptorInv' /\ OneValuePerBallot'
<1>1. promised' = promised /\ accepted' = accepted /\ value' = value /\ msgs' = msgs
  BY DEF acceptorVars
<1>2. \A a, b : (Voted(a, b)' <=> Voted(a, b)) /\ (Offered(a, b)' <=> Offered(a, b))
  BY <1>1 DEF Voted, Offered
<1>3. Of("promise")' = Of("promise") /\ Of("accept")' = Of("accept")
  BY <1>1 DEF Of
<1>4. \A m : PromiseOK(m)' <=> PromiseOK(m)
  BY <1>1, <1>2 DEF PromiseOK
<1>5. \A b, v : SafeAt(b, v)' <=> SafeAt(b, v)
  BY <1>1, <1>2 DEF SafeAt, SafeBelow, Closed
<1>6. \A a, b : VoteOK(a, b)' <=> VoteOK(a, b)
  BY <1>1, <1>2 DEF VoteOK
<1>7. MessageInv'
  BY <1>2, <1>3, <1>4, <1>5, <1>6 DEF MessageInv
<1>8. AcceptorInv'
  BY <1>1, <1>2 DEF AcceptorInv, HoldsOK
<1> QED
  BY <1>3, <1>7, <1>8 DEF OneValuePerBallot

\* One attempt changes.
LEMMA OneAttempt ==
  ASSUME TypeOK, NEW p \in Proposers, NEW t, attempt' = [attempt EXCEPT ![p] = t],
         msgs \subseteq msgs', t \in AttemptSet'
  PROVE  /\ attempt'[p] = t
         /\ \A q \in Proposers : q # p => attempt'[q] = attempt[q]
         /\ attempt' \in [Proposers -> AttemptSet']
<1>1. attempt \in [Proposers -> AttemptSet]
  BY DEF TypeOK, AttemptSet
<1>2. \A q \in Proposers : attempt[q] \in AttemptSet'
  BY AttemptsGrow
<1>3. attempt'[p] = t /\ \A q \in Proposers : q # p => attempt'[q] = attempt[q]
  BY <1>1
<1> QED
  BY <1>1, <1>2, <1>3

LEMMA OthersKept ==
  ASSUME AttemptInv, NEW p \in Proposers, msgs \subseteq msgs', AttemptOK(p)',
         \A q \in Proposers : q # p => attempt'[q] = attempt[q],
         \A m \in Of("accept")' : m \in msgs \/ m.ballot.node = p
  PROVE  AttemptInv'
<1>1. ASSUME NEW q \in Proposers, q # p PROVE AttemptOK(q)'
  BY <1>1, AttemptOKStable DEF AttemptInv
<1> QED
  BY <1>1 DEF AttemptInv

LEMMA StartInv ==
  ASSUME Inv, NEW p \in Proposers, NEW b \in Attempts, Start(p, b)
  PROVE  Inv'
<1> DEFINE m == Prepare(b)
<1>1. m \in Messages /\ m.type = "prepare" /\ TypeOK
  BY DEF Prepare, Messages, Inv
<1>2. Send(m) /\ UNCHANGED <<promised, accepted, value, reported>> /\ UNCHANGED acceptorVars
  BY DEF Start, acceptorVars
<1>3. msgs \subseteq msgs' /\ msgs' \subseteq Messages
  BY <1>1, <1>2 DEF Send, TypeOK
<1>4. Attempt(b) \in AttemptSet'
  BY DEF Attempt, AttemptSet
<1>5. /\ attempt'[p] = Attempt(b) /\ \A q \in Proposers : q # p => attempt'[q] = attempt[q]
      /\ attempt' \in [Proposers -> AttemptSet']
  BY <1>1, <1>3, <1>4, OneAttempt DEF Start
<1>6. TypeOK'
  BY <1>1, <1>2, <1>3, <1>5 DEF TypeOK, AttemptSet
<1>7. MessageInv' /\ AcceptorInv' /\ Of("accept")' = Of("accept")
  BY <1>1, <1>2, <1>6, PlainSend
<1>8. AttemptOK(p)'
  <2>1. ASSUME NEW q \in Of("accept"), q.ballot.node = p
        PROVE  q.ballot.round <= b.round /\ q.ballot # b
    <3>1. q.ballot.round <= attempt[p].ballot.round /\ attempt[p].ballot.round < b.round
      BY <2>1 DEF Inv, AttemptInv, AttemptOK, Start
    <3>2. q.ballot \in BallotRec /\ attempt[p].ballot \in BallotRec /\ b \in BallotRec
      <4>1. attempt[p].ballot \in Ballots0
        BY <1>1 DEF TypeOK, Ballots0
      <4> QED
        BY <1>1, <4>1, MessageFields, BallotsAreRecords
    <3> QED
      BY <3>1, <3>2 DEF BallotRec
  <2>2. b.node = p
    BY DEF Start
  <2> QED
    BY <1>5, <1>7, <2>1, <2>2 DEF AttemptOK, Attempt
<1>9. AttemptInv'
  BY <1>3, <1>5, <1>7, <1>8, OthersKept DEF Inv, Of
<1>10. OneValuePerBallot' /\ ReportInv'
  BY <1>1, <1>2, <1>3, <1>7, ReportsKept DEF Inv, OneValuePerBallot
<1> QED
  BY <1>6, <1>7, <1>9, <1>10 DEF Inv

\* A step that only adds to what an attempt knows.
LEMMA LearnInv ==
  ASSUME Inv, NEW p \in Proposers, NEW t \in AttemptSet, attempt' = [attempt EXCEPT ![p] = t],
         UNCHANGED <<acceptorVars, msgs>>,
         reported' \in [Proposers -> SUBSET Values], ReportInv',
         t.ballot = attempt[p].ballot, t.proposed = attempt[p].proposed,
         t.value = attempt[p].value,
         \A m \in t.promises : m.ballot = t.ballot, \A a \in t.accepts : Voted(a, t.ballot)
  PROVE  Inv'
<1>1. TypeOK /\ msgs' = msgs /\ AttemptSet' = AttemptSet
  BY DEF Inv, AttemptSet, Of
<1>2. /\ attempt'[p] = t /\ \A q \in Proposers : q # p => attempt'[q] = attempt[q]
      /\ attempt' \in [Proposers -> AttemptSet']
  BY <1>1, OneAttempt
<1>3. TypeOK'
  BY <1>1, <1>2 DEF TypeOK, AttemptSet, acceptorVars
<1>4. Of("accept")' = Of("accept")
  BY <1>1 DEF Of
<1>5. AttemptOK(p)'
  <2>1. AttemptOK(p)
    BY DEF Inv, AttemptInv
  <2> QED
    BY <1>1, <1>2, <1>4, <2>1 DEF AttemptOK, Voted, Offered
<1>6. AttemptInv'
  BY <1>1, <1>2, <1>4, <1>5, OthersKept DEF Inv, Of
<1>7. MessageInv' /\ AcceptorInv' /\ OneValuePerBallot'
  BY Quiet DEF Inv
<1> QED
  BY <1>3, <1>6, <1>7 DEF Inv

LEMMA OnPromiseInv ==
  ASSUME Inv, NEW p \in Proposers, NEW m \in Of("promise"), OnPromise(p, m)
  PROVE  Inv'
<1> DEFINE old == attempt[p]
           t == [old EXCEPT !.promises = {q \in @ : q.from # m.from} \cup {m}]
<1>1. attempt \in [Proposers -> AttemptSet] /\ old \in AttemptSet
  BY DEF Inv, TypeOK, AttemptSet
<1>2. attempt' = [attempt EXCEPT ![p] = t] /\ UNCHANGED <<acceptorVars, msgs, reported>>
  BY DEF OnPromise
<1>3. AttemptOK(p) /\ m.ballot = old.ballot
  BY DEF OnPromise, Takes, Inv, AttemptInv
<1>4. t \in AttemptSet
  BY <1>1 DEF AttemptSet
<1>5. /\ t.ballot = old.ballot /\ t.proposed = old.proposed /\ t.value = old.value
      /\ t.accepts = old.accepts /\ t.promises = {q \in old.promises : q.from # m.from} \cup {m}
  BY <1>1 DEF AttemptSet
<1>6. \A q \in t.promises : q.ballot = t.ballot
  BY <1>3, <1>5 DEF AttemptOK
<1>7. \A a \in t.accepts : Voted(a, t.ballot)
  BY <1>3, <1>5 DEF AttemptOK
<1>8. reported' \in [Proposers -> SUBSET Values] /\ ReportInv'
  BY <1>2, ReportsKept DEF Inv, TypeOK
<1> HIDE DEF t
<1> QED
  BY <1>2, <1>4, <1>5, <1>6, <1>7, <1>8, LearnInv

LEMMA OnNackInv ==
  ASSUME Inv, NEW p \in Proposers, NEW m \in Of("nack"), OnNack(p, m)
  PROVE  Inv'
<1> DEFINE old == attempt[p]
           t == [old EXCEPT !.abandoned = TRUE]
<1>1. attempt \in [Proposers -> AttemptSet] /\ old \in AttemptSet
  BY DEF Inv, TypeOK, AttemptSet
<1>2. attempt' = [attempt EXCEPT ![p] = t] /\ UNCHANGED <<acceptorVars, msgs, reported>>
  BY DEF OnNack
<1>3. AttemptOK(p)
  BY DEF Inv, AttemptInv
<1>4. t \in AttemptSet
  BY <1>1 DEF AttemptSet
<1>5. /\ t.ballot = old.ballot /\ t.proposed = old.proposed /\ t.value = old.value
      /\ t.accepts = old.accepts /\ t.promises = old.promises
  BY <1>1 DEF AttemptSet
<1>6. (\A q \in t.promises : q.ballot = t.ballot) /\ \A a \in t.accepts : Voted(a, t.ballot)
  BY <1>3, <1>5 DEF AttemptOK
<1>7. reported' \in [Proposers -> SUBSET Values] /\ ReportInv'
  BY <1>2, ReportsKept DEF Inv, TypeOK
<1> HIDE DEF t
<1> QED
  BY <1>2, <1>4, <1>5, <1>6, <1>7, LearnInv

\* Enough replies: the value of the attempt is chosen.
LEMMA OnAcceptedInv ==
  ASSUME Inv, NEW p \in Proposers, NEW m \in Of("accepted"), OnAccepted(p, m)
  PROVE  Inv'
<1> DEFINE old == attempt[p]
           got == old.accepts \cup {m.from}
           t == [old EXCEPT !.accepts = got]
<1>1. attempt \in [Proposers -> AttemptSet] /\ old \in AttemptSet /\ TypeOK
  BY DEF Inv, TypeOK, AttemptSet
<1>2. /\ attempt' = [attempt EXCEPT ![p] = t] /\ UNCHANGED <<acceptorVars, msgs>>
      /\ reported' = IF IsQuorum(got) THEN [reported EXCEPT ![p] = @ \cup {old.value}]
                     ELSE reported
      /\ old.proposed /\ m.ballot = old.ballot
  BY DEF OnAccepted, Counts
<1>3. AttemptOK(p) /\ ReportInv
  BY DEF Inv, AttemptInv
<1>4. m.from \in Acceptors /\ Voted(m.from, old.ballot)
  BY <1>1, <1>2, MessageFields DEF Voted, Of
<1>5. t \in AttemptSet
  BY <1>1, <1>4 DEF AttemptSet
<1>6. /\ t.ballot = old.ballot /\ t.proposed = old.proposed /\ t.value = old.value
      /\ t.accepts = got /\ t.promises = old.promises
  BY <1>1 DEF AttemptSet
<1>7. (\A q \in t.promises : q.ballot = t.ballot) /\ \A a \in got : Voted(a, old.ballot)
  BY <1>3, <1>4, <1>6 DEF AttemptOK
<1>8. Offered(old.ballot, old.value) /\ old.value \in Values
  BY <1>1, <1>2, <1>3, MessageFields DEF AttemptOK
<1>9. IsQuorum(got) => Chosen(old.value)
  <2> DEFINE R == {a \in Acceptors : Accepted(a, old.ballot) \in msgs}
  <2>1. got \in SUBSET Acceptors /\ got \subseteq R /\ R \in SUBSET Acceptors
    BY <1>1, <1>4, <1>7 DEF Voted, AttemptSet
  <2> HIDE DEF R
  <2>2. IsQuorum(got) => IsQuorum(R)
    BY <2>1, QuorumGrows
  <2>3. /\ Accept(old.ballot, old.value) \in Of("accept")
        /\ Accept(old.ballot, old.value).ballot = old.ballot
        /\ Accept(old.ballot, old.value).value = old.value
    BY <1>8 DEF Offered, Of, Accept
  <2> QED
    BY <2>2, <2>3 DEF Chosen, R
<1> HIDE DEF got, t
<1>10. \A v : Chosen(v)' <=> Chosen(v)
  BY <1>2 DEF Chosen, Of
<1>11. reported' \in [Proposers -> SUBSET Values] /\ ReportInv'
  <2>1. reported \in [Proposers -> SUBSET Values]
    BY <1>1 DEF TypeOK
  <2>2. \A q \in Proposers : \A v \in reported'[q] :
          v \in reported[q] \/ (v = old.value /\ IsQuorum(got))
    BY <1>2, <2>1
  <2>3. reported' \in [Proposers -> SUBSET Values]
    BY <1>2, <1>8, <2>1
  <2> QED
    BY <1>3, <1>9, <1>10, <2>2, <2>3 DEF ReportInv
<1> QED
  BY <1>2, <1>5, <1>6, <1>7, <1>11, LearnInv

-----------------------------------------------------------------------------
(* Propose: the value a quorum of promises allows *)

\* Whoever promised b without having accepted at c, between what it reported
\* and b, never will.
LEMMA PromiseCloses ==
  ASSUME Inv, NEW m \in Of("promise"), NEW c \in Attempts, Less(c, m.ballot)
  PROVE  /\ m.from \in Acceptors
         /\ Voted(m.from, c) \/ Closed(m.from, c)
         /\ Less(m.accepted, c) => Closed(m.from, c)
<1>1. m.from \in Acceptors /\ m.ballot \in Attempts /\ PromiseOK(m)
  BY MessageFields DEF Inv, MessageInv
<1>2. c \in BallotRec /\ m.ballot \in BallotRec /\ promised[m.from] \in BallotRec
  BY <1>1, BallotsAreRecords, AcceptorTypes DEF Inv
<1>3. Less(c, promised[m.from])
  BY <1>1, <1>2, LessOrder DEF PromiseOK
<1> QED
  BY <1>1, <1>3 DEF PromiseOK, Closed

LEMMA ProposalSafe ==
  ASSUME Inv, NEW p \in Proposers, NEW want \in Values, Ready(p), ~ attempt[p].proposed
  PROVE  /\ attempt[p].ballot \in Attempts /\ Proposal(p, want) \in Values
         /\ SafeAt(attempt[p].ballot, Proposal(p, want))
<1> DEFINE t == attempt[p]
           b == t.ballot
           Q == {m.from : m \in t.promises}
           R == {[ballot |-> m.accepted, value |-> m.value] : m \in t.promises}
           v == Proposal(p, want)
<1>1. TypeOK /\ t \in AttemptSet /\ AttemptOK(p)
  BY DEF Inv, AttemptInv, TypeOK, AttemptSet
<1>2. \A m \in t.promises : /\ m \in Of("promise") /\ m.ballot = b /\ m.from \in Acceptors
                            /\ m.ballot \in Attempts /\ m.accepted \in Ballots0 /\ PromiseOK(m)
  BY <1>1, MessageFields DEF AttemptSet, AttemptOK, Inv, MessageInv
<1>3. Q \in SUBSET Acceptors /\ IsQuorum(Q)
  BY <1>2 DEF Ready
<1>4. b \in Attempts
  <2>1. Q # {}
    BY <1>3, QuorumsMeet
  <2> QED
    BY <1>2, <2>1
<1>5. \A r \in R : \E m \in t.promises : r.ballot = m.accepted /\ r.value = m.value
  OBVIOUS
<1>6. ASSUME NEW m \in t.promises PROVE \E r \in R : r.ballot = m.accepted /\ r.value = m.value
  <2>1. [ballot |-> m.accepted, value |-> m.value] \in R
    OBVIOUS
  <2> HIDE DEF R
  <2> QED
    BY <2>1
<1>7. v = Choose(R, want)
  BY DEF Proposal
<1>8. IsFiniteSet(Attempts) /\ Attempts \subseteq BallotRec /\ ZeroBallot \notin Attempts
  BY DecreeAssumption, BallotsAreRecords DEF DecreeAssumption
<1>9. \A r \in R : r.ballot \in Attempts \cup {ZeroBallot}
  BY <1>2, <1>5 DEF Ballots0
<1> HIDE DEF t, b, Q, R, v
<1>10. \A a \in Q : \E m \in t.promises : m.from = a
  BY DEF Q
<1>11. CASE \A r \in R : r.ballot = ZeroBallot
  <2>1. v = want
    BY <1>7, <1>8, <1>9, <1>11, ChooseTakesHighest
  <2>2. \A m \in t.promises : m.accepted = ZeroBallot
    BY <1>6, <1>11
  <2>3. ASSUME NEW c \in Attempts, Less(c, b) PROVE SafeBelow(c, v)
    <3>1. \A a \in Q : Closed(a, c)
      BY <1>2, <1>10, <2>2, <2>3, PromiseCloses, BallotsAreRecords
    <3> QED
      BY <1>3, <3>1 DEF SafeBelow
  <2>4. SafeAt(b, v)
    BY <2>3 DEF SafeAt
  <2> QED
    BY <1>4, <2>1, <2>4 DEF t, b, v
<1>12. CASE \E r \in R : r.ballot # ZeroBallot
  <2>1. PICK r \in R : /\ r.ballot \in Attempts /\ v = r.value
                       /\ \A q \in R : q.ballot \in Attempts => ~ Less(r.ballot, q.ballot)
    BY <1>7, <1>8, <1>9, <1>12, ChooseTakesHighest
  <2> DEFINE k == r.ballot
  <2>2. Offered(k, v) /\ k # ZeroBallot
    <3>1. PICK m \in t.promises : r.ballot = m.accepted /\ r.value = m.value
      BY <1>5
    <3> QED
      BY <1>2, <1>8, <2>1, <3>1 DEF PromiseOK
  <2>3. v \in Values /\ SafeAt(k, v)
    <3>1. Accept(k, v) \in Of("accept") /\ v \in Values
      BY <1>1, <2>2, MessageFields
    <3>2. Accept(k, v).ballot = k /\ Accept(k, v).value = v
      BY DEF Accept
    <3> QED
      BY <3>1, <3>2 DEF Inv, MessageInv
  <2>4. k \in Attempts /\ k \in BallotRec
    BY <1>8, <2>1
  <2> HIDE DEF k
  <2>5. \A m \in t.promises : m.accepted = ZeroBallot \/ ~ Less(k, m.accepted)
    BY <1>6, <1>9, <2>1 DEF k
  <2>6. ASSUME NEW c \in Attempts, Less(c, b) PROVE SafeBelow(c, v)
    <3>1. c \in BallotRec
      BY <1>8
    <3>2. CASE Less(c, k)
      BY <2>3, <3>2 DEF SafeAt
    <3>3. CASE c = k
      <4>1. \A a \in Q : Voted(a, c) \/ Closed(a, c)
        BY <1>2, <1>10, <2>6, PromiseCloses
      <4> QED
        BY <1>3, <2>2, <3>3, <4>1 DEF SafeBelow
    <3>4. CASE Less(k, c)
      <4>1. ASSUME NEW m \in t.promises PROVE Less(m.accepted, c)
        <5>1. m.accepted \in BallotRec
          BY <1>2, BallotsAreRecords
        <5>2. CASE m.accepted = ZeroBallot
          BY <5>2, BallotsAreRecords
        <5>3. CASE ~ Less(k, m.accepted)
          BY <2>4, <3>1, <3>4, <5>1, <5>3, LessOrder
        <5> QED
          BY <2>5, <5>2, <5>3
      <4>2. \A a \in Q : Closed(a, c)
        BY <1>2, <1>10, <2>6, <4>1, PromiseCloses
      <4> QED
        BY <1>3, <4>2 DEF SafeBelow
    <3> QED
      BY <2>4, <3>1, <3>2, <3>3, <3>4, LessOrder
  <2>7. SafeAt(b, v)
    BY <2>6 DEF SafeAt
  <2> QED
    BY <1>4, <2>3, <2>7 DEF t, b, v
<1> QED
  BY <1>11, <1>12

\* The first call of Propose.
LEMMA FirstProposeInv ==
  ASSUME Inv, NEW p \in Proposers, NEW b \in Attempts, NEW v \in Values, NEW t \in AttemptSet,
         attempt[p].ballot = b, ~ attempt[p].proposed, SafeAt(b, v),
         attempt' = [attempt EXCEPT ![p] = t], Send(Accept(b, v)),
         UNCHANGED <<acceptorVars, reported>>,
         t.ballot = b, t.proposed = TRUE, t.value = v,
         t.accepts = attempt[p].accepts, t.promises = attempt[p].promises
  PROVE  Inv'
<1> DEFINE m == Accept(b, v)
<1>0. m.type = "accept" /\ m.ballot = b /\ m.value = v
  BY DEF Accept
<1>1. TypeOK /\ AttemptOK(p)
  BY DEF Inv, AttemptInv
<1>2. m \in Messages /\ b.node = p /\ b \in BallotRec
  BY <1>1, BallotsAreRecords DEF Accept, Messages, AttemptOK
<1>3. msgs \subseteq msgs' /\ msgs' \subseteq Messages
  BY <1>1, <1>2 DEF Send, TypeOK
<1>4. t \in AttemptSet'
  <2>1. Of("promise") \subseteq Of("promise")'
    BY <1>3 DEF Of
  <2> QED
    BY <1>1, <2>1 DEF AttemptSet
<1>5. UNCHANGED <<promised, accepted, value, reported>>
  BY DEF acceptorVars
<1>6. /\ attempt'[p] = t /\ \A q \in Proposers : q # p => attempt'[q] = attempt[q]
      /\ attempt' \in [Proposers -> AttemptSet']
  BY <1>1, <1>3, <1>4, OneAttempt
<1>7. TypeOK'
  BY <1>1, <1>3, <1>5, <1>6 DEF TypeOK, AttemptSet
<1>8. \A a, c : Voted(a, c)' <=> Voted(a, c)
  BY <1>0 DEF Voted, Send, Accepted, Accept
<1>9. Mono
  <2>1. \A a \in Acceptors : promised[a] \in BallotRec /\ accepted[a] \in BallotRec
    BY <1>1, AcceptorTypes
  <2>2. \A a \in Acceptors :
          ~ Less(promised[a], promised[a]) /\ ~ Less(accepted[a], accepted[a])
    BY <2>1, LessOrder
  <2> QED
    BY <1>3, <1>5, <1>8, <2>2 DEF Mono, Voted
<1>10. \A q \in Of("accept")' : q \in Of("accept") \/ q = m
  BY DEF Of, Send
<1>11. SafeAt(b, v)'
  BY <1>1, <1>7, <1>9, SafeAtStable
<1>12. MessageInv'
  <2>1. \A q \in Of("promise")' : q \in msgs
    BY <1>0 DEF Of, Send
  <2>2. \A q \in Of("accept")' : q \notin msgs => SafeAt(q.ballot, q.value)'
    BY <1>0, <1>10, <1>11 DEF Of
  <2> QED
    BY <1>1, <1>7, <1>8, <1>9, <2>1, <2>2, MessageStep DEF Inv
<1>13. AcceptorInv'
  BY <1>1, <1>5, <1>7, <1>9, HoldsOKStable DEF Inv, AcceptorInv
<1>14. \A q \in Of("accept") : q.ballot # b
  BY <1>1, <1>2 DEF AttemptOK
<1>15. OneValuePerBallot'
  BY <1>0, <1>10, <1>14 DEF Inv, OneValuePerBallot
<1>16. AttemptOK(p)'
  <2>1. ASSUME NEW q \in Of("accept")', q.ballot.node = p
        PROVE  q.ballot.round <= b.round /\ (q.ballot = b => q.value = v)
    <3>1. CASE q \in Of("accept")
      BY <1>1, <1>14, <2>1, <3>1 DEF AttemptOK
    <3>2. CASE q = m
      BY <1>0, <1>2, <3>2 DEF BallotRec
    <3> QED
      BY <1>10, <3>1, <3>2
  <2>2. Offered(b, v)'
    BY DEF Offered, Send
  <2>3. (\A q \in t.promises : q.ballot = b) /\ \A a \in t.accepts : Voted(a, b)'
    BY <1>1, <1>8 DEF AttemptOK
  <2> QED
    BY <1>2, <1>6, <2>1, <2>2, <2>3 DEF AttemptOK
<1>17. AttemptInv'
  <2>1. \A q \in Of("accept")' : q \in msgs \/ q.ballot.node = p
    BY <1>0, <1>2, <1>10 DEF Of
  <2> QED
    BY <1>3, <1>6, <1>16, <2>1, OthersKept DEF Inv
<1>18. ReportInv'
  BY <1>1, <1>3, <1>5, ReportsKept DEF Inv
<1> QED
  BY <1>7, <1>12, <1>13, <1>15, <1>17, <1>18 DEF Inv

LEMMA ProposeInv ==
  ASSUME Inv, NEW p \in Proposers, NEW want \in Values, Propose(p, want)
  PROVE  Inv'
<1> DEFINE old == attempt[p]
           b == old.ballot
           v == Proposal(p, want)
           t == [old EXCEPT !.value = v, !.proposed = TRUE]
           m == Accept(b, v)
<1>1. attempt \in [Proposers -> AttemptSet] /\ old \in AttemptSet /\ TypeOK /\ AttemptOK(p)
  BY DEF Inv, TypeOK, AttemptSet, AttemptInv
<1>2. /\ attempt' = [attempt EXCEPT ![p] = t] /\ Send(m) /\ Ready(p)
      /\ UNCHANGED <<acceptorVars, reported>>
  BY DEF Propose
<1>3. /\ t.ballot = b /\ t.proposed = TRUE /\ t.value = v
      /\ t.accepts = old.accepts /\ t.promises = old.promises
  BY <1>1 DEF AttemptSet
<1>4. m.type = "accept" /\ m.ballot = b /\ m.value = v
  BY DEF Accept
<1>5. CASE old.proposed
  <2>1. v = old.value /\ Offered(b, v)
    BY <1>1, <1>5 DEF Proposal, AttemptOK
  <2>2. msgs' = msgs
    BY <1>2, <2>1 DEF Send, Offered
  <2>3. t \in AttemptSet
    BY <1>1, <2>1 DEF AttemptSet
  <2>4. (\A q \in t.promises : q.ballot = t.ballot) /\ \A a \in t.accepts : Voted(a, t.ballot)
    BY <1>1, <1>3 DEF AttemptOK
  <2>5. reported' \in [Proposers -> SUBSET Values] /\ ReportInv'
    BY <1>1, <1>2, <2>2, ReportsKept DEF Inv, TypeOK
  <2>6. t.proposed = old.proposed
    BY <1>1, <1>3, <1>5 DEF AttemptSet
  <2>7. UNCHANGED <<acceptorVars, msgs>>
    BY <1>2, <2>2
  <2> HIDE DEF t
  <2> QED
    BY <1>2, <1>3, <2>1, <2>3, <2>4, <2>5, <2>6, <2>7, LearnInv
<1>6. CASE ~ old.proposed
  <2>1. b \in Attempts /\ v \in Values /\ SafeAt(b, v)
    BY <1>2, <1>6, ProposalSafe
  <2>2. t \in AttemptSet
    BY <1>1, <2>1 DEF AttemptSet
  <2> HIDE DEF t, v, b
  <2>3. attempt[p].ballot = b
    BY DEF b
  <2> QED
    BY <1>2, <1>3, <1>6, <2>1, <2>2, <2>3, FirstProposeInv
<1> QED
  BY <1>5, <1>6

-----------------------------------------------------------------------------
(* The invariant, and agreement *)

LEMMA InitInv == Init => Inv
<1> SUFFICES ASSUME Init PROVE Inv
  OBVIOUS
<1>1. \A type : Of(type) = {}
  BY DEF Init, Of
<1>2. \A a, b : ~ Voted(a, b) /\ ~ Offered(a, b)
  BY DEF Init, Voted, Offered
<1>3. TypeOK
  <2>1. \A p \in Proposers : Attempt(ZeroBallot) \in AttemptSet
    BY DEF Attempt, AttemptSet
  <2> QED
    BY <2>1 DEF Init, TypeOK, AttemptSet
<1>4. MessageInv
  BY <1>1, <1>2 DEF MessageInv
<1>5. AcceptorInv
  <2>1. ~ Less(ZeroBallot, ZeroBallot)
    BY LessOrder, BallotsAreRecords
  <2> QED
    BY <2>1 DEF Init, AcceptorInv, HoldsOK
<1>6. AttemptInv
  <2>1. \A p \in Proposers : attempt[p] = Attempt(ZeroBallot)
    BY DEF Init
  <2> QED
    BY <1>1, <2>1 DEF AttemptInv, AttemptOK, Attempt
<1>7. OneValuePerBallot /\ ReportInv
  BY <1>1 DEF Init, OneValuePerBallot, ReportInv
<1> QED
  BY <1>3, <1>4, <1>5, <1>6, <1>7 DEF Inv

LEMMA NextInv == Inv /\ [Next]_vars => Inv'
<1> SUFFICES ASSUME Inv, [Next]_vars PROVE Inv'
  OBVIOUS
<1>1. \A m \in Of("prepare") \cup Of("accept") : m.ballot \in Attempts
  BY MessageFields DEF Inv
<1>2. ASSUME NEW a \in Acceptors, NEW m \in Of("prepare"), OnPrepare(a, m) PROVE Inv'
  BY <1>1, <1>2, PromiseInv, NackInv DEF OnPrepare
<1>3. ASSUME NEW a \in Acceptors, NEW m \in Of("accept"), OnAccept(a, m) PROVE Inv'
  BY <1>1, <1>3, AcceptInv, NackInv DEF OnAccept
<1>4. ASSUME NEW p \in Proposers, NEW b \in Attempts, Start(p, b) PROVE Inv'
  BY <1>4, StartInv
<1>5. ASSUME NEW p \in Proposers, NEW m \in Of("promise"), OnPromise(p, m) PROVE Inv'
  BY <1>5, OnPromiseInv
<1>6. ASSUME NEW p \in Proposers, NEW m \in Of("nack"), OnNack(p, m) PROVE Inv'
  BY <1>6, OnNackInv
<1>7. ASSUME NEW p \in Proposers, NEW want \in Values, Propose(p, want) PROVE Inv'
  BY <1>7, ProposeInv
<1>8. ASSUME NEW p \in Proposers, NEW m \in Of("accepted"), OnAccepted(p, m) PROVE Inv'
  BY <1>8, OnAcceptedInv
<1>9. CASE UNCHANGED vars
  <2>1. UNCHANGED <<acceptorVars, msgs, attempt, reported>>
    BY <1>9 DEF vars
  <2>2. MessageInv' /\ AcceptorInv' /\ OneValuePerBallot'
    BY <2>1, Quiet DEF Inv
  <2>3. TypeOK'
    BY <2>1 DEF Inv, TypeOK, acceptorVars, Of
  <2>4. AttemptInv' /\ ReportInv'
    BY <2>1, ProposersKept DEF Inv, Of
  <2> QED
    BY <2>2, <2>3, <2>4 DEF Inv
<1> QED
  BY <1>2, <1>3, <1>4, <1>5, <1>6, <1>7, <1>8, <1>9 DEF Next

\* A value chosen at a ballot is the value of every higher one.
LEMMA ChosenIsKept ==
  ASSUME Inv, NEW m \in Of("accept"), NEW n \in Of("accept"), Less(m.ballot, n.ballot),
         IsQuorum({a \in Acceptors : Accepted(a, m.ballot) \in msgs})
  PROVE  m.value = n.value
<1> DEFINE R == {a \in Acceptors : Accepted(a, m.ballot) \in msgs}
<1>1. m.ballot \in Attempts /\ SafeAt(n.ballot, n.value)
  BY MessageFields DEF Inv, MessageInv
<1>2. PICK Q \in SUBSET Acceptors :
        /\ IsQuorum(Q)
        /\ \A a \in Q : \/ Voted(a, m.ballot) /\ Offered(m.ballot, n.value)
                        \/ Closed(a, m.ballot)
  BY <1>1 DEF SafeAt, SafeBelow
<1>3. PICK a \in Acceptors : a \in Q /\ a \in R
  <2>1. R \in SUBSET Acceptors
    OBVIOUS
  <2> QED
    BY <1>2, <2>1, QuorumsMeet
<1>4. Voted(a, m.ballot) /\ ~ Closed(a, m.ballot)
  BY <1>3 DEF Voted, Closed
<1>5. Accept(m.ballot, n.value) \in Of("accept")
  BY <1>2, <1>3, <1>4, MessageFields DEF Inv
<1>6. Accept(m.ballot, n.value).ballot = m.ballot /\ Accept(m.ballot, n.value).value = n.value
  BY DEF Accept
<1> QED
  BY <1>5, <1>6 DEF Inv, OneValuePerBallot

LEMMA InvAgreement == Inv => Agreement
<1> SUFFICES ASSUME Inv, NEW v \in Values, NEW w \in Values, Chosen(v), Chosen(w) PROVE v = w
  BY DEF Agreement
<1>1. PICK m \in Of("accept") :
        m.value = v /\ IsQuorum({a \in Acceptors : Accepted(a, m.ballot) \in msgs})
  BY DEF Chosen
<1>2. PICK n \in Of("accept") :
        n.value = w /\ IsQuorum({a \in Acceptors : Accepted(a, n.ballot) \in msgs})
  BY DEF Chosen
<1>3. m.ballot \in BallotRec /\ n.ballot \in BallotRec
  BY MessageFields, BallotsAreRecords DEF Inv
<1>4. CASE Less(m.ballot, n.ballot)
  BY <1>1, <1>2, <1>4, ChosenIsKept
<1>5. CASE Less(n.ballot, m.ballot)
  BY <1>1, <1>2, <1>5, ChosenIsKept
<1>6. CASE m.ballot = n.ballot
  BY <1>1, <1>2, <1>6 DEF Inv, OneValuePerBallot
<1> QED
  BY <1>3, <1>4, <1>5, <1>6, LessOrder

LEMMA InvAgreementNext == Inv' => Agreement'
BY InvAgreement, PTL

LEMMA InvAlways == Spec => []Inv
BY InitInv, NextInv, PTL DEF Spec

\* For any group, proposers and values, the fields of the acceptors, the
\* attempts, the messages and the reports keep their types (Acceptor, Proposer).
THEOREM TypeCorrect == Spec => []TypeOK
<1>1. Inv => TypeOK
  BY DEF Inv
<1> QED
  BY <1>1, InvAlways, PTL

\* A ballot proposes one value, whatever promises come late and however often
\* Propose is called (OnPromise, Propose; S4).
THEOREM BallotsHaveOneValue == Spec => []OneValuePerBallot
<1>1. Inv => OneValuePerBallot
  BY DEF Inv
<1> QED
  BY <1>1, InvAlways, PTL

\* Two values are never chosen (OnPrepare, OnAccept, Propose; S1).
THEOREM ReferenceAgrees == Spec => []Agreement
BY InvAgreement, InvAlways, PTL

-----------------------------------------------------------------------------
(* The reference implements one slot of the agreed log *)

AbsKnown == [p \in Proposers |-> IF reported[p] = {} THEN {} ELSE {Slot}]
AbsLog == [s \in {Slot} |-> Decided]

LEMMA DecidedIsChosen ==
  ASSUME Inv
  PROVE  Decided = {v \in Values : Chosen(v)} /\ \A v, w \in Decided : v = w
<1>1. Decided = {v \in Values : Chosen(v)}
  BY DEF Decided, Inv, ReportInv
<1> QED
  BY <1>1, InvAgreement DEF Agreement

LEMMA DecidedIsChosenNext ==
  ASSUME Inv'
  PROVE  Decided' = {v \in Values : Chosen(v)'} /\ \A v, w \in Decided' : v = w
<1>1. Decided' = {v \in Values : Chosen(v)'}
  BY DEF Decided, Inv, ReportInv
<1> QED
  BY <1>1, InvAgreementNext DEF Agreement

\* A step of the acceptors, or one that only sends, decides or does nothing.
LEMMA DecideStep ==
  ASSUME Inv, Inv', msgs \subseteq msgs', UNCHANGED reported
  PROVE  [Log!Next]_<<AbsLog, AbsKnown>>
<1>1. AbsKnown' = AbsKnown
  BY DEF AbsKnown
<1>2. Decided \subseteq Decided'
  BY DecidedIsChosen, DecidedIsChosenNext, ChosenStable DEF Inv
<1>3. CASE Decided' = Decided
  BY <1>1, <1>3 DEF AbsLog
<1>4. CASE Decided' # Decided
  <2>1. PICK v \in Decided' : v \notin Decided
    BY <1>2, <1>4
  <2>2. Decided' = {v}
    BY <2>1, DecidedIsChosenNext
  <2>3. Decided = {} /\ v \in Values
    BY <1>2, <2>1, <2>2, DecidedIsChosenNext
  <2>4. Log!Decide(Slot, v)
    BY <1>1, <2>2, <2>3 DEF Log!Decide, AbsLog, AbsKnown
  <2> QED
    BY <2>3, <2>4 DEF Log!Next
<1> QED
  BY <1>3, <1>4

\* OnAccepted: the proposer learns, or nothing happens.
LEMMA LearnStep ==
  ASSUME Inv, Inv', NEW p \in Proposers, NEW m \in Of("accepted"), OnAccepted(p, m)
  PROVE  [Log!Next]_<<AbsLog, AbsKnown>>
<1>1. msgs' = msgs /\ \A v : Chosen(v)' <=> Chosen(v)
  BY DEF OnAccepted, Chosen, Of
<1>2. Decided' = Decided
  BY <1>1, DecidedIsChosen, DecidedIsChosenNext
<1>3. AbsLog' = AbsLog
  BY <1>2 DEF AbsLog
<1>4. /\ reported \in [Proposers -> SUBSET Values] /\ reported' \in [Proposers -> SUBSET Values]
      /\ \A q \in Proposers : q # p => reported'[q] = reported[q]
      /\ reported[p] \subseteq reported'[p]
  BY DEF Inv, TypeOK, OnAccepted
<1>5. CASE reported'[p] = {} \/ reported[p] # {}
  <2>1. \A q \in Proposers : reported'[q] = {} <=> reported[q] = {}
    BY <1>4, <1>5
  <2>2. AbsKnown' = AbsKnown
    BY <2>1 DEF AbsKnown
  <2> QED
    BY <1>3, <2>2
<1>6. CASE reported'[p] # {} /\ reported[p] = {}
  <2>1. AbsKnown' = [AbsKnown EXCEPT ![p] = @ \cup {Slot}]
    BY <1>4, <1>6 DEF AbsKnown
  <2>2. Decided # {}
    BY <1>2, <1>4, <1>6 DEF Decided
  <2>3. Log!Learn(p, Slot)
    BY <1>3, <2>1, <2>2 DEF Log!Learn, AbsLog, AbsKnown
  <2> QED
    BY <2>3 DEF Log!Next
<1> QED
  BY <1>5, <1>6

LEMMA StepImplements ==
  ASSUME Inv, Inv', [Next]_vars
  PROVE  [Log!Next]_<<AbsLog, AbsKnown>>
<1>1. CASE \E p \in Proposers : \E m \in Of("accepted") : OnAccepted(p, m)
  BY <1>1, LearnStep
<1>2. CASE ~ \E p \in Proposers : \E m \in Of("accepted") : OnAccepted(p, m)
  <2>1. msgs \subseteq msgs' /\ UNCHANGED reported
    BY <1>2 DEF Next, vars, OnPrepare, OnAccept, Start, OnPromise, OnNack, Propose, Send
  <2> QED
    BY <2>1, DecideStep
<1> QED
  BY <1>1, <1>2

\* For any group, the reference decides one value, never takes it back, and
\* reports to a proposer only what is decided (OnAccepted): it implements one
\* slot of the agreed log.
THEOREM ReferenceImplementsLog == Spec => ImplementsAgreedLog
<1>1. Init => Log!Init
  <2> SUFFICES ASSUME Init PROVE Log!Init
    OBVIOUS
  <2>1. Decided = {} /\ \A p \in Proposers : reported[p] = {}
    BY DEF Init, Decided, Chosen, Of
  <2> QED
    BY <2>1 DEF Log!Init
<1>2. Inv /\ Inv' /\ [Next]_vars => [Log!Next]_<<AbsLog, AbsKnown>>
  BY StepImplements
<1> QED
  BY <1>1, <1>2, InvAlways, PTL DEF Spec, ImplementsAgreedLog, Log!Spec, AbsLog, AbsKnown

=============================================================================

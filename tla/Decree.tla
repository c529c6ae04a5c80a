------------------------------- MODULE Decree -------------------------------
(***************************************************************************)
(* The reference acceptor and proposer of internal/paxos, which agree on   *)
(* one value, and the caller the package describes: it sends what Start    *)
(* and Propose return to every acceptor, starts again with a higher round  *)
(* whenever it likes, and may call Propose again, with any value, to send  *)
(* the accept once more.                                                   *)
(*                                                                         *)
(* Messages are never removed from msgs, so each may be lost, delayed and  *)
(* delivered again.  An acceptor's three fields are durable; a crash that  *)
(* keeps them is no step.                                                  *)
(***************************************************************************)
EXTENDS Ballots

CONSTANTS
  Acceptors,  \* the group of n acceptors
  Proposers,  \* their node numbers
  Values,
  NoValue,    \* the nil value
  Attempts    \* bound: the ballots that may be started

ASSUME DecreeAssumption ==
  /\ IsFiniteSet(Acceptors)
  /\ Proposers \subseteq Nat \ {0}
  /\ NoValue \notin Values
  /\ IsFiniteSet(Attempts)
  /\ Attempts \subseteq [round : Nat \ {0}, node : Proposers]

VARIABLES
  promised,   \* Acceptor.Promised
  accepted,   \* Acceptor.Accepted
  value,      \* Acceptor.Value
  attempt,    \* proposer -> its current attempt
  msgs,       \* every message sent
  reported    \* proposer -> the values that OnAccepted reported as chosen

acceptorVars == <<promised, accepted, value>>
vars == <<acceptorVars, attempt, msgs, reported>>

\* A majority of the acceptors.
IsQuorum(S) == Cardinality(S) >= QuorumSize(Cardinality(Acceptors))

-----------------------------------------------------------------------------
(* Messages *)

Prepare(b) == [type |-> "prepare", ballot |-> b]
Promise(a, b, acc, v) ==
  [type |-> "promise", from |-> a, ballot |-> b, accepted |-> acc, value |-> v]
Accept(b, v) == [type |-> "accept", ballot |-> b, value |-> v]
Accepted(a, b) == [type |-> "accepted", from |-> a, ballot |-> b]

\* The promise a refusal names makes the caller choose a higher round, and
\* the caller here may choose any: it is left out.
Nack(b) == [type |-> "nack", ballot |-> b]

Messages ==
  [type : {"prepare", "nack"}, ballot : Attempts]
    \cup [type : {"promise"}, from : Acceptors, ballot : Attempts,
          accepted : Attempts \cup {ZeroBallot}, value : Values \cup {NoValue}]
    \cup [type : {"accept"}, ballot : Attempts, value : Values]
    \cup [type : {"accepted"}, from : Acceptors, ballot : Attempts]

Of(type) == {m \in msgs : m.type = type}
Send(m) == msgs' = msgs \cup {m}

-----------------------------------------------------------------------------
(* The acceptor *)

OnPrepare(a, m) ==
  LET b == m.ballot
  IN \/ /\ MayPromise(promised[a], b)
        /\ promised' = [promised EXCEPT ![a] = b]
        /\ Send(Promise(a, b, accepted[a], value[a]))
        /\ UNCHANGED <<accepted, value, attempt, reported>>
     \/ /\ ~ MayPromise(promised[a], b)
        /\ Send(Nack(b))
        /\ UNCHANGED <<acceptorVars, attempt, reported>>

OnAccept(a, m) ==
  LET b == m.ballot
  IN \/ /\ MayAccept(promised[a], b)
        /\ promised' = [promised EXCEPT ![a] = IF Less(@, b) THEN b ELSE @]
        /\ accepted' = [accepted EXCEPT ![a] = b]
        /\ value' = [value EXCEPT ![a] = m.value]
        /\ Send(Accepted(a, b))
        /\ UNCHANGED <<attempt, reported>>
     \/ /\ ~ MayAccept(promised[a], b)
        /\ Send(Nack(b))
        /\ UNCHANGED <<acceptorVars, attempt, reported>>

-----------------------------------------------------------------------------
(* The proposer *)

\* An attempt: promises are messages, at most one of an acceptor.
Attempt(b) ==
  [ballot |-> b, promises |-> {}, accepts |-> {}, abandoned |-> FALSE,
   proposed |-> FALSE, value |-> NoValue]

\* Start(round): the caller's rounds go up.
Start(p, b) ==
  /\ b.node = p
  /\ b.round > attempt[p].ballot.round
  /\ attempt' = [attempt EXCEPT ![p] = Attempt(b)]
  /\ Send(Prepare(b))
  /\ UNCHANGED <<acceptorVars, reported>>

\* OnPromise ignores other ballots, and everything after Propose.
Takes(p, m) ==
  ~ attempt[p].abandoned /\ ~ attempt[p].proposed /\ m.ballot = attempt[p].ballot

OnPromise(p, m) ==
  /\ Takes(p, m)
  /\ attempt' = [attempt EXCEPT ![p].promises = {q \in @ : q.from # m.from} \cup {m}]
  /\ UNCHANGED <<acceptorVars, msgs, reported>>

Ready(p) == ~ attempt[p].abandoned /\ IsQuorum({m.from : m \in attempt[p].promises})

OnNack(p, m) ==
  /\ m.ballot = attempt[p].ballot
  /\ attempt' = [attempt EXCEPT ![p].abandoned = TRUE]
  /\ UNCHANGED <<acceptorVars, msgs, reported>>

\* Plausible slip: every call looks at the promises and at want again.
Proposal_Again(p, want) ==
  Choose({[ballot |-> m.accepted, value |-> m.value] : m \in attempt[p].promises}, want)

\* What Propose(want) returns: the first call fixes the value of the attempt.
Proposal(p, want) ==
  IF attempt[p].proposed THEN attempt[p].value
  ELSE Choose({[ballot |-> m.accepted, value |-> m.value] : m \in attempt[p].promises}, want)

Propose(p, want) ==
  /\ Ready(p)
  /\ attempt' = [attempt EXCEPT ![p].value = Proposal(p, want), ![p].proposed = TRUE]
  /\ Send(Accept(attempt[p].ballot, Proposal(p, want)))
  /\ UNCHANGED <<acceptorVars, reported>>

\* Plausible slip: replies to an earlier ballot are counted.
Counts_Any(p, m) == ~ attempt[p].abandoned /\ attempt[p].proposed

Counts(p, m) ==
  ~ attempt[p].abandoned /\ attempt[p].proposed /\ m.ballot = attempt[p].ballot

OnAccepted(p, m) ==
  LET got == attempt[p].accepts \cup {m.from}
  IN /\ Counts(p, m)
     /\ attempt' = [attempt EXCEPT ![p].accepts = got]
     /\ reported' = IF IsQuorum(got)
                    THEN [reported EXCEPT ![p] = @ \cup {attempt[p].value}] ELSE reported
     /\ UNCHANGED <<acceptorVars, msgs>>

-----------------------------------------------------------------------------
Init ==
  /\ promised = [a \in Acceptors |-> ZeroBallot]
  /\ accepted = [a \in Acceptors |-> ZeroBallot]
  /\ value = [a \in Acceptors |-> NoValue]
  /\ attempt = [p \in Proposers |-> Attempt(ZeroBallot)]
  /\ msgs = {}
  /\ reported = [p \in Proposers |-> {}]

Next ==
  \/ \E a \in Acceptors :
       \/ \E m \in Of("prepare") : OnPrepare(a, m)
       \/ \E m \in Of("accept") : OnAccept(a, m)
  \/ \E p \in Proposers :
       \/ \E b \in Attempts : Start(p, b)
       \/ \E m \in Of("promise") : OnPromise(p, m)
       \/ \E m \in Of("nack") : OnNack(p, m)
       \/ \E want \in Values : Propose(p, want)
       \/ \E m \in Of("accepted") : OnAccepted(p, m)

Spec == Init /\ [][Next]_vars

-----------------------------------------------------------------------------
(* Properties *)

\* Every variable keeps its type.
TypeOK ==
  /\ promised \in [Acceptors -> Attempts \cup {ZeroBallot}]
  /\ accepted \in [Acceptors -> Attempts \cup {ZeroBallot}]
  /\ value \in [Acceptors -> Values \cup {NoValue}]
  /\ attempt \in [Proposers ->
       [ballot : Attempts \cup {ZeroBallot}, promises : SUBSET Of("promise"),
        accepts : SUBSET Acceptors, abandoned : BOOLEAN, proposed : BOOLEAN,
        value : Values \cup {NoValue}]]
  /\ msgs \subseteq Messages
  /\ reported \in [Proposers -> SUBSET Values]

\* A value is chosen when a majority accepted it at one ballot.
Chosen(v) ==
  \E m \in Of("accept") :
    /\ m.value = v
    /\ IsQuorum({a \in Acceptors : Accepted(a, m.ballot) \in msgs})

\* One ballot proposes one value: a promise that comes late, or a second call
\* of Propose that wants something else, never makes the proposer send another
\* (Propose, OnPromise; S4 of DESIGN.md).
OneValuePerBallot ==
  \A m, n \in Of("accept") : m.ballot = n.ballot => m.value = n.value

\* Two values are never chosen, whatever is lost, repeated or late (S1).
Agreement == \A v, w \in Values : Chosen(v) /\ Chosen(w) => v = w

\* What is decided or held for decided, in the form of the agreed log: one
\* slot, and proposers that learn of it.
Decided == {v \in Values : Chosen(v) \/ \E p \in Proposers : v \in reported[p]}
Slot == 1

Log == INSTANCE AgreedLog WITH
  Node <- Proposers, Slots <- {Slot},
  log <- [s \in {Slot} |-> Decided],
  known <- [p \in Proposers |-> IF reported[p] = {} THEN {} ELSE {Slot}]

\* The reference implements one slot of the agreed log: a value is decided
\* once, and OnAccepted reports it to a proposer only after that, whichever
\* attempt the replies it counts belong to.
ImplementsAgreedLog == Log!Spec

=============================================================================

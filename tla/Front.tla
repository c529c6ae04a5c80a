-------------------------------- MODULE Front --------------------------------
(***************************************************************************)
(* The HTTP fronts of a cluster: internal/api/server.go, the operators'    *)
(* API that forwards a request once to the leader, and internal/intent     *)
(* (server.go, post.go and the reads of reads.go), the players' API that   *)
(* redirects the client to it.  Each client has one command, sends it with *)
(* the same key until it gets a definitive answer and then reads what it   *)
(* wrote.                                                                  *)
(*                                                                         *)
(* The cluster is seen through what Replog and Runner promise: one log, a  *)
(* leader whose proposals are chosen, replicas that apply the log in order *)
(* and may each be behind, a results table in which the first entry with a *)
(* key decides the key.  Every request in progress is a try: those of the  *)
(* clients and those one replica forwards to another.                      *)
(***************************************************************************)
EXTENDS Naturals, FiniteSets, Sequences, FiniteSetsExt

CONSTANTS
  Nodes,
  Clients,
  Operators,   \* the clients that use internal/api; the others use internal/intent
  KeyOf,       \* client -> the key of its command, in its namespace
  BodyOf,      \* client -> the rest of its command
  Starts,      \* [crew, log, at]: the clients at work, and the log and the node
               \* they begin with
  First,       \* the leader when they start
  None,
  MaxTries,    \* bound: requests in progress
  MaxChanges,  \* bound: leaders elected
  MaxFaults    \* bound: timeouts, failures, crashes and calls given up

ASSUME FrontAssumption ==
  /\ Operators \subseteq Clients
  /\ Starts \subseteq [crew : SUBSET Clients, log : Seq(Clients), at : Nodes]
  /\ First \in Nodes
  /\ None \notin Nodes
  /\ {MaxTries, MaxChanges, MaxFaults} \subseteq Nat

VARIABLES
  log,        \* the chosen prefix: the clients whose command is in each slot
  proposals,  \* [cl, by]: commands proposed and not chosen yet
  lead,       \* the node whose proposals are chosen
  role,       \* node -> Status.Role
  ready,      \* node -> Status.Ready
  hint,       \* node -> Status.Leader
  applied,    \* node -> Status.Applied
  inflight,   \* node -> the Server.inflight of its two fronts
  tries,      \* the requests in progress
  at,         \* client -> the node its next try goes to
  call,       \* client -> the try it waits for, 0 for none
  resp,       \* client -> the answer it has not looked at yet
  written,    \* client -> the slot of its command, once it knows it
  seen,       \* client -> the applied slot its read was answered with
  finished,   \* the clients that have all their answers
  changes, faults

cluster == <<log, proposals, lead, role, ready, hint, applied>>
client == <<at, call, resp, written, seen, finished>>
bounds == <<changes, faults>>
vars == <<cluster, inflight, tries, client, bounds>>

Tries == 1..MaxTries

Fault == faults < MaxFaults /\ faults' = faults + 1

-----------------------------------------------------------------------------
(* The cluster *)

SlotsOf(k, n) == {s \in 1..n : KeyOf[log[s]] = k}
Recorded(k, n) == SlotsOf(k, applied[n]) # {}

\* Plausible slip: a later entry with the key replaces the record.
FirstSlot_Last(k, n) == Max(SlotsOf(k, applied[n]))

\* The slot that decides key k on node n.
FirstSlot(k, n) == Min(SlotsOf(k, applied[n]))

\* Node.becomeLeader, as the layers above see it; the old leader does not know.
Elect(n) ==
  /\ changes < MaxChanges \/ lead = None
  /\ lead # n /\ role[n] # "leader"
  /\ lead' = n
  /\ role' = [role EXCEPT ![n] = "leader"]
  /\ ready' = [ready EXCEPT ![n] = FALSE]
  /\ hint' = [hint EXCEPT ![n] = n]
  /\ changes' = IF lead = None THEN changes ELSE changes + 1
  /\ UNCHANGED <<log, proposals, applied, inflight, tries, client, faults>>

\* The leader has applied its own no-op, after every slot chosen before it.
BecomeReady(n) ==
  /\ lead = n /\ ~ready[n]
  /\ applied[n] = Len(log)
  /\ ready' = [ready EXCEPT ![n] = TRUE]
  /\ UNCHANGED <<log, proposals, lead, role, hint, applied, inflight, tries, client, bounds>>

\* A node hears of the leader; when it was one itself it steps down, and the
\* commands it holds fail with ErrLeadershipLost.
Hear(n) ==
  /\ lead \notin {n, None}
  /\ role[n] = "leader" \/ hint[n] # lead
  /\ role' = [role EXCEPT ![n] = "follower"]
  /\ ready' = [ready EXCEPT ![n] = FALSE]
  /\ hint' = [hint EXCEPT ![n] = lead]
  /\ tries' = [t \in Tries |-> IF tries[t].at = n /\ tries[t].st = "held"
                               THEN [tries[t] EXCEPT !.st = "lost"] ELSE tries[t]]
  /\ UNCHANGED <<log, proposals, lead, applied, inflight, client, bounds>>

\* Node.onAccepted counts a majority for a proposal.
Choose(p) ==
  /\ log' = Append(log, p.cl)
  /\ proposals' = proposals \ {p}
  /\ UNCHANGED <<lead, role, ready, hint, applied, inflight, tries, client, bounds>>

\* What a deposed leader proposed may never be chosen; Node.stepDown drops it.
Lose(p) ==
  /\ lead # p.by
  /\ proposals' = proposals \ {p}
  /\ UNCHANGED <<log, lead, role, ready, hint, applied, inflight, tries, client, bounds>>

Apply(n) ==
  /\ applied[n] < Len(log)
  /\ applied' = [applied EXCEPT ![n] = @ + 1]
  /\ UNCHANGED <<log, proposals, lead, role, ready, hint, inflight, tries, client, bounds>>

-----------------------------------------------------------------------------
(* Tries *)

NoAnswer == [code |-> "none", slot |-> 0, to |-> None]
Answer(code) == [NoAnswer EXCEPT !.code = code]

NoTry == [st |-> "free", at |-> None, cl |-> None, kind |-> "command",
          forwarded |-> FALSE, parent |-> 0, slot |-> 0, ans |-> NoAnswer]

NewTry(c, n, kind, parent) ==
  [NoTry EXCEPT !.st = "new", !.at = n, !.cl = c, !.kind = kind,
                !.forwarded = parent # 0, !.parent = parent]

Free == {t \in Tries : tries[t] = NoTry}
Operator(t) == tries[t].cl \in Operators
Key(t) == KeyOf[tries[t].cl]

\* The two fronts of a replica each have their keys in flight.
FrontKey(t) == <<IF Operator(t) THEN "api" ELSE "intent", Key(t)>>

Goto(t, st) == tries' = [tries EXCEPT ![t].st = st]

\* The handler of t writes its answer and goes on to st: to the handler that
\* forwarded the request, or to the client if it still waits.
Reply(t, a, st) ==
  LET up == tries[t].parent
      c == tries[t].cl
  IN /\ tries' = [u \in Tries |->
                    IF u = t THEN IF st = "free" THEN NoTry
                                  ELSE [tries[t] EXCEPT !.st = st, !.parent = 0, !.ans = NoAnswer]
                    ELSE IF u = up THEN [tries[u] EXCEPT !.ans = a]
                    ELSE tries[u]]
     /\ resp' = IF up = 0 /\ call[c] = t THEN [resp EXCEPT ![c] = a] ELSE resp
     /\ UNCHANGED <<at, call, written, seen, finished>>

\* Where the handler goes once it has answered: a command gives its key back.
After(t) == IF tries[t].kind = "command" THEN "unlock" ELSE "free"

\* redirect: 307 to the leader known here, or 503 no_leader.
Redirect(t, leader, st) ==
  Reply(t, IF leader \notin {None, tries[t].at}
           THEN [Answer("redirect") EXCEPT !.to = leader] ELSE Answer("no_leader"), st)

\* forwardOrRefuse forwards a request of a client only, to a leader it knows.
MayForward(t, leader) == leader # None /\ ~tries[t].forwarded

\* forwardOrRefuse: leadership that came back to this node is no leader known.
ForwardOrRefuse(t, named) ==
  LET known == IF named = None THEN hint[tries[t].at] ELSE named
      leader == IF known = tries[t].at THEN None ELSE known
  IN \/ /\ MayForward(t, leader)
        /\ \E u \in Free :
             /\ \A v \in Free : u <= v
             /\ tries' = [tries EXCEPT ![t].st = "forwarding", ![t].ans = NoAnswer,
                             ![u] = NewTry(tries[t].cl, leader, tries[t].kind, t)]
        /\ UNCHANGED client
     \/ /\ ~MayForward(t, leader)
        /\ Reply(t, Answer("not_leader"), After(t))

\* What a front does with NotLeaderError and ErrLeadershipLost.
SendOn(t, named) ==
  \/ Operator(t) /\ ForwardOrRefuse(t, named)
  \/ ~Operator(t) /\ Redirect(t, named, After(t))

-----------------------------------------------------------------------------
(* Commands *)

\* A try with the same key is in progress on this replica.
Busy(t) == FrontKey(t) \in inflight[tries[t].at]

\* lock, and the same lines of command: a key is in flight once.
Lock(t) ==
  \/ /\ Busy(t)
     /\ Reply(t, Answer("in_flight"), "free")
     /\ UNCHANGED inflight
  \/ /\ ~Busy(t)
     /\ inflight' = [inflight EXCEPT ![tries[t].at] = @ \cup {FrontKey(t)}]
     /\ Goto(t, "submit")
     /\ UNCHANGED client

\* command of internal/api up to Submit: any replica takes the request.
BeginCommand(t) ==
  /\ tries[t].st = "new" /\ tries[t].kind = "command" /\ Operator(t)
  /\ Lock(t)
  /\ UNCHANGED <<cluster, bounds>>

\* onLeader: the replica is a leader that has committed its leadership.
OnLeader(n) == role[n] = "leader" /\ ready[n]

\* beginIntent and finishIntent up to submit: only such a leader takes it.
BeginIntent(t) ==
  LET n == tries[t].at
  IN /\ tries[t].st = "new" /\ tries[t].kind = "command" /\ ~Operator(t)
     /\ \/ /\ role[n] # "leader"
           /\ Redirect(t, hint[n], "free")
           /\ UNCHANGED inflight
        \/ /\ role[n] = "leader" /\ ~ready[n]
           /\ Reply(t, Answer("unavailable"), "free")
           /\ UNCHANGED inflight
        \/ OnLeader(n) /\ Lock(t)
     /\ UNCHANGED <<cluster, bounds>>

\* The limiter of beginIntent turns the request away.
Limited(t) ==
  /\ tries[t].st = "new" /\ tries[t].kind = "command" /\ ~Operator(t)
  /\ OnLeader(tries[t].at)
  /\ Reply(t, Answer("rate_limited"), "free")
  /\ Fault
  /\ UNCHANGED <<cluster, inflight, changes>>

\* Runner.Submit: a recorded key is answered, a leader proposes, and another
\* node names the leader it knows.
Submit(t) ==
  LET n == tries[t].at
  IN /\ tries[t].st = "submit"
     /\ \/ /\ Recorded(Key(t), n)
           /\ tries' = [tries EXCEPT ![t].st = "answer", ![t].slot = FirstSlot(Key(t), n)]
           /\ UNCHANGED <<proposals, client>>
        \/ /\ ~Recorded(Key(t), n) /\ role[n] = "leader"
           /\ proposals' = proposals \cup {[cl |-> tries[t].cl, by |-> n]}
           /\ Goto(t, "held")
           /\ UNCHANGED client
        \/ /\ ~Recorded(Key(t), n) /\ role[n] # "leader"
           /\ SendOn(t, hint[n])
           /\ UNCHANGED proposals
     /\ UNCHANGED <<log, lead, role, ready, hint, applied, inflight, bounds>>

\* ErrBusy or ErrStopped: nothing was proposed.
Refused(t) ==
  /\ tries[t].st = "submit"
  /\ Reply(t, Answer("unavailable"), "unlock")
  /\ Fault
  /\ UNCHANGED <<cluster, inflight, changes>>

\* Runner.Submit returns the result once the key is applied.
Resolve(t) ==
  LET n == tries[t].at
  IN /\ tries[t].st = "held"
     /\ Recorded(Key(t), n)
     /\ tries' = [tries EXCEPT ![t].st = "answer", ![t].slot = FirstSlot(Key(t), n)]
     /\ UNCHANGED client
     /\ UNCHANGED <<cluster, inflight, bounds>>

\* Runner.Submit returns ErrLeadershipLost: the command may be chosen yet.
LeadershipLost(t) ==
  /\ tries[t].st = "lost"
  /\ SendOn(t, hint[tries[t].at])
  /\ UNCHANGED <<cluster, inflight, bounds>>

\* RequestTimeout has passed, or the client's connection has ended.
TimesOut(t) ==
  /\ tries[t].st = "held"
  /\ Reply(t, Answer("outcome_unknown"), "unlock")
  /\ Fault
  /\ UNCHANGED <<cluster, inflight, changes>>

\* The result of the command that the key's first entry recorded, read after
\* the command was applied here: the slot, or key_reused for another command.
Result(t) ==
  IF BodyOf[log[tries[t].slot]] = BodyOf[tries[t].cl]
  THEN [Answer("result") EXCEPT !.slot = tries[t].slot] ELSE Answer("key_reused")

\* command and answer write the recorded result, whatever it is.
WriteResult(t) ==
  /\ tries[t].st = "answer"
  /\ Reply(t, Result(t), "unlock")
  /\ UNCHANGED <<cluster, inflight, bounds>>

\* answer: readState fails after the command was applied.
ViewFails(t) ==
  /\ tries[t].st = "answer" /\ ~Operator(t)
  /\ Result(t).code = "result"
  /\ Reply(t, Answer("unavailable"), "unlock")
  /\ Fault
  /\ UNCHANGED <<cluster, inflight, changes>>

\* forwardOrRefuse relays the leader's answer whole.
Relay(t) ==
  /\ tries[t].st = "forwarding" /\ tries[t].ans # NoAnswer
  /\ Reply(t, tries[t].ans, After(t))
  /\ UNCHANGED <<cluster, inflight, bounds>>

\* Client.Do fails: the forwarded request may still be in progress.
ForwardFails(t) ==
  /\ tries[t].st = "forwarding" /\ tries[t].ans = NoAnswer
  /\ LET c == tries[t].cl
     IN /\ tries' = [u \in Tries |->
                       IF u = t THEN IF After(t) = "free" THEN NoTry
                                     ELSE [tries[t] EXCEPT !.st = After(t)]
                       ELSE IF tries[u].parent = t THEN [tries[u] EXCEPT !.parent = 0]
                       ELSE tries[u]]
        /\ resp' = IF call[c] = t THEN [resp EXCEPT ![c] = Answer("forward_failed")] ELSE resp
  /\ Fault
  /\ UNCHANGED <<cluster, inflight, at, call, written, seen, finished, changes>>

\* The keys the deferred function of command, or unlock, removes.
Release(t) == {FrontKey(t)}

\* The handler returns.
Unlock(t) ==
  /\ tries[t].st = "unlock"
  /\ inflight' = [inflight EXCEPT ![tries[t].at] = @ \ Release(t)]
  /\ tries' = [tries EXCEPT ![t] = NoTry]
  /\ UNCHANGED <<cluster, client, bounds>>

-----------------------------------------------------------------------------
(* Reads *)

\* Plausible slips: the wait ends one slot early, or one slot late.
Reached_Early(n, slot) == applied[n] + 1 >= slot
Reached_Late(n, slot) == applied[n] > slot

\* WaitApplied(minSlot - 1) returns without an error.
Reached(n, slot) == applied[n] >= slot

\* waitMinSlot, then the state is read: a player's read names the slot of its
\* command as min_slot.
ReadAfterSlot(t) ==
  LET n == tries[t].at
  IN /\ tries[t].st = "new" /\ tries[t].kind = "read" /\ ~Operator(t)
     /\ Reached(n, written[tries[t].cl])
     /\ Reply(t, [Answer("result") EXCEPT !.slot = applied[n]], "free")
     /\ UNCHANGED <<cluster, inflight, bounds>>

\* waitMinSlot gives up after MinSlotWait.
Behind(t) ==
  LET n == tries[t].at
  IN /\ tries[t].st = "new" /\ tries[t].kind = "read" /\ ~Operator(t)
     /\ ~Reached(n, written[tries[t].cl])
     /\ Reply(t, IF role[n] # "leader" /\ hint[n] \notin {None, n}
                 THEN [Answer("redirect") EXCEPT !.to = hint[n]] ELSE Answer("replica_behind"),
              "free")
     /\ UNCHANGED <<cluster, inflight, bounds>>

\* read of internal/api: a consistent read runs on a leader whose barrier
\* completed, and is forwarded by another node.
ConsistentRead(t) ==
  LET n == tries[t].at
  IN /\ tries[t].st = "new" /\ tries[t].kind = "read" /\ Operator(t)
     /\ \/ /\ role[n] = "leader" /\ ready[n]
           /\ lead = n /\ applied[n] = Len(log)
           /\ Reply(t, [Answer("result") EXCEPT !.slot = applied[n]], "free")
        \/ /\ role[n] = "leader" /\ ~ready[n]
           /\ Reply(t, Answer("not_ready"), "free")
        \/ /\ role[n] # "leader"
           /\ ForwardOrRefuse(t, hint[n])
     /\ UNCHANGED <<cluster, inflight, bounds>>

\* The read barrier does not complete in time.
ReadTimesOut(t) ==
  /\ tries[t].st = "new" /\ tries[t].kind = "read" /\ Operator(t)
  /\ Reply(t, Answer("outcome_unknown"), "free")
  /\ Fault
  /\ UNCHANGED <<cluster, inflight, changes>>

-----------------------------------------------------------------------------
(* Clients *)

Kind(c) == IF written[c] = 0 THEN "command" ELSE "read"

\* The client sends its command, or its read, to the node it has in mind.
Send(c) ==
  /\ call[c] = 0 /\ resp[c] = NoAnswer /\ c \notin finished
  /\ \E t \in Free :
       /\ \A v \in Free : t <= v
       /\ tries' = [tries EXCEPT ![t] = NewTry(c, at[c], Kind(c), 0)]
       /\ call' = [call EXCEPT ![c] = t]
  /\ UNCHANGED <<cluster, inflight, at, resp, written, seen, finished, bounds>>

\* The client looks at an answer: a result is definitive, a redirect is
\* followed, and anything else is sent again, to any node.
Look(c) ==
  LET a == resp[c]
  IN /\ a # NoAnswer
     /\ resp' = [resp EXCEPT ![c] = NoAnswer]
     /\ call' = [call EXCEPT ![c] = 0]
     /\ \/ /\ a.code = "result" /\ Kind(c) = "command"
           /\ written' = [written EXCEPT ![c] = a.slot]
           /\ \E n \in Nodes : at' = [at EXCEPT ![c] = n]
           /\ UNCHANGED <<seen, finished>>
        \/ /\ a.code = "result" /\ Kind(c) = "read"
           /\ seen' = [seen EXCEPT ![c] = a.slot]
           /\ finished' = finished \cup {c}
           /\ UNCHANGED <<at, written>>
        \/ /\ a.code = "key_reused"
           /\ finished' = finished \cup {c}
           /\ UNCHANGED <<at, written, seen>>
        \/ /\ a.code \notin {"result", "key_reused"}
           /\ \E n \in Nodes : (a.to # None => n = a.to) /\ at' = [at EXCEPT ![c] = n]
           /\ UNCHANGED <<written, seen, finished>>
     /\ UNCHANGED <<cluster, inflight, tries, bounds>>

\* The client's own timeout, or an answer that is lost.
GiveUp(c) ==
  /\ call[c] # 0
  /\ resp' = [resp EXCEPT ![c] = NoAnswer]
  /\ call' = [call EXCEPT ![c] = 0]
  /\ \E n \in Nodes : at' = [at EXCEPT ![c] = n]
  /\ Fault
  /\ UNCHANGED <<cluster, inflight, tries, written, seen, finished, changes>>

\* A replica crashes and starts again from its log: its handlers are gone, and
\* the connections to it fail.
Crash(n) ==
  LET dead == {t \in Tries : tries[t].at = n}
      cut == {t \in Tries : \E u \in dead : tries[u].parent = t} \ dead
  IN /\ Fault
     /\ role' = [role EXCEPT ![n] = "follower"]
     /\ ready' = [ready EXCEPT ![n] = FALSE]
     /\ hint' = [hint EXCEPT ![n] = None]
     /\ lead' = IF lead = n THEN None ELSE lead
     /\ applied' = [applied EXCEPT ![n] = 0]
     /\ inflight' = [inflight EXCEPT ![n] = {}]
     /\ tries' = [t \in Tries |->
                    IF t \in dead THEN NoTry
                    ELSE IF t \in cut THEN [tries[t] EXCEPT !.ans = Answer("forward_failed")]
                    ELSE IF tries[t].parent \in dead THEN [tries[t] EXCEPT !.parent = 0]
                    ELSE tries[t]]
     /\ resp' = [c \in Clients |-> IF call[c] \in dead /\ resp[c] = NoAnswer
                                   THEN Answer("gone") ELSE resp[c]]
     /\ UNCHANGED <<log, proposals, at, call, written, seen, finished, changes>>

-----------------------------------------------------------------------------
\* There is a leader that is ready; the other nodes have not heard of it.
Init ==
  /\ \E s \in Starts :
       log = s.log /\ finished = Clients \ s.crew /\ at = [c \in Clients |-> s.at]
  /\ proposals = {}
  /\ lead = First
  /\ role = [n \in Nodes |-> IF n = lead THEN "leader" ELSE "follower"]
  /\ ready = [n \in Nodes |-> n = lead]
  /\ hint = [n \in Nodes |-> IF n = lead THEN n ELSE None]
  /\ applied = [n \in Nodes |-> IF n = lead THEN Len(log) ELSE 0]
  /\ inflight = [n \in Nodes |-> {}]
  /\ tries = [t \in Tries |-> NoTry]
  /\ call = [c \in Clients |-> 0]
  /\ resp = [c \in Clients |-> NoAnswer]
  /\ written = [c \in Clients |-> 0]
  /\ seen = [c \in Clients |-> 0]
  /\ changes = 0 /\ faults = 0

\* The steps a handler takes by itself.
Handler(t) ==
  \/ BeginCommand(t) \/ BeginIntent(t)
  \/ Submit(t) \/ Resolve(t) \/ LeadershipLost(t) \/ WriteResult(t)
  \/ Relay(t) \/ Unlock(t) \/ ReadAfterSlot(t) \/ Behind(t) \/ ConsistentRead(t)

Next ==
  \/ \E n \in Nodes : Elect(n) \/ BecomeReady(n) \/ Hear(n) \/ Apply(n) \/ Crash(n)
  \/ \E p \in proposals : Choose(p) \/ Lose(p)
  \/ \E t \in Tries :
       \/ BeginCommand(t) \/ BeginIntent(t)
       \/ Submit(t) \/ Resolve(t) \/ LeadershipLost(t) \/ WriteResult(t)
       \/ Relay(t) \/ Unlock(t) \/ ReadAfterSlot(t) \/ Behind(t) \/ ConsistentRead(t)
       \/ Limited(t) \/ Refused(t) \/ TimesOut(t) \/ ViewFails(t) \/ ForwardFails(t)
       \/ ReadTimesOut(t)
  \/ \E c \in Clients : Send(c) \/ Look(c) \/ GiveUp(c)

\* Handlers and clients go on when they can, a leader is elected and heard of,
\* its proposals are chosen and every replica applies the log.  The faults and
\* the changes of leader are finitely many.
Fairness ==
  /\ \A t \in Tries : WF_vars(Handler(t))
  /\ \A c \in Clients : WF_vars(Send(c)) /\ WF_vars(Look(c))
  /\ \A n \in Nodes : WF_vars(BecomeReady(n)) /\ WF_vars(Hear(n)) /\ WF_vars(Apply(n))
  /\ WF_vars(\E n \in Nodes : lead = None /\ Elect(n))
  /\ WF_vars(\E p \in proposals : p.by = lead /\ Choose(p))

Spec == Init /\ [][Next]_vars /\ Fairness

-----------------------------------------------------------------------------
(* Properties *)

\* Every variable keeps its type.
TypeOK ==
  /\ log \in Seq(Clients)
  /\ proposals \subseteq [cl : Clients, by : Nodes]
  /\ lead \in Nodes \cup {None}
  /\ \A n \in Nodes :
       /\ role[n] \in {"leader", "follower"} /\ ready[n] \in BOOLEAN
       /\ hint[n] \in Nodes \cup {None} /\ applied[n] \in 0..Len(log)
  /\ \A t \in Tries :
       /\ tries[t].st \in {"free", "new", "submit", "held", "lost", "answer", "forwarding",
                           "unlock"}
       /\ tries[t].parent \in 0..MaxTries
  /\ \A c \in Clients : call[c] \in 0..MaxTries /\ written[c] \in 0..Len(log)

\* The answers on their way: to clients, and to the replicas that forwarded.
Answers == {<<c, resp[c]>> : c \in Clients} \cup {<<tries[t].cl, tries[t].ans>> : t \in Tries}

\* Whichever replica answers a command, and however often it was sent, timed
\* out or was proposed again under another leader, the answer is the outcome
\* of the first entry with its key: its slot for the same command, key_reused
\* for another one (command, answer, Replay).
OneOutcomePerKey ==
  /\ \A x \in Answers : x[1] # None /\ (x[2].code = "key_reused" \/ written[x[1]] = 0) =>
       LET first == Min(SlotsOf(KeyOf[x[1]], Len(log)) \cup {Len(log) + 1})
           same == first <= Len(log) /\ BodyOf[log[first]] = BodyOf[x[1]]
       IN /\ x[2].code = "result" => same /\ x[2].slot = first
          /\ x[2].code = "key_reused" => first <= Len(log) /\ ~same
  /\ \A c \in Clients : written[c] # 0 =>
       written[c] = Min(SlotsOf(KeyOf[c], Len(log)))

\* A client that was told the slot of its command reads a state that has it,
\* wherever it reads (waitMinSlot, read).
ReadsOwnWrites ==
  \A c \in finished : written[c] # 0 => seen[c] >= written[c]

\* Once the faults have ended every client gets the answers to its command and
\* to its read: no key stays in flight, no request waits for a leader that is
\* gone and no redirect goes in circles.
EveryoneFinishes == <>(finished = Clients)

=============================================================================

------------------------------- MODULE Runner -------------------------------
(***************************************************************************)
(* internal/replica: the goroutine that owns one replica's log node and    *)
(* state machine, and the callers of Submit and Read around it.            *)
(*                                                                         *)
(* The log node is seen through what Replog promises: entries are appended *)
(* to the chosen prefix and never change, leadership comes and goes, and a *)
(* read barrier completes, or fails when leadership is lost. The state     *)
(* machine is seen through its results table: the first entry with a key   *)
(* decides that key.                                                       *)
(*                                                                         *)
(* The event loop handles one event at a time. What follows an event (the  *)
(* method after) is split wherever another goroutine can observe it: mark, *)
(* try the lock and apply, clear the mark, publish the status, answer.     *)
(***************************************************************************)
EXTENDS Integers, Sequences, FiniteSets

CONSTANTS
  Client,      \* callers of Submit, one call each
  Reader,      \* callers of Read, any number of calls each
  Consistent,  \* the readers that ask for the read barrier
  KeyOf,       \* caller of Submit -> idempotency key of its command
  BodyOf,      \* caller of Submit -> the rest of its command
  Crews,       \* sets of callers: those that call at all
  NoOp,        \* an entry the state machine skips
  MaxLog,      \* bound: chosen slots followed
  MayCancel    \* bound: the callers whose context may end

ASSUME RunnerAssumption ==
  /\ Consistent \subseteq Reader
  /\ Client \cap Reader = {}
  /\ MaxLog \in Nat
  /\ Crews \subseteq SUBSET (Client \cup Reader)
  /\ MayCancel \subseteq Client \cup Reader

VARIABLES
  log,       \* the chosen prefix: entries [key, body] or NoOp
  leader,    \* the node's role is Leader
  applied,   \* State.applied
  status,    \* the applied slot of the published snapshot
  phase,     \* what the event loop does next
  from,      \* the applied slot before this event's apply
  waiters,   \* Submit calls held
  pending,   \* reader -> index of its barrier in progress, or None
  failing,   \* reads whose barrier failed in this event
  waits,     \* applyWaits: reader -> index to wait for, or None
  marked,    \* applyWait is set
  kick,      \* the kick channel holds a token
  pc,        \* caller -> where it is
  released,  \* readers whose wait channel was closed
  reply,     \* caller -> everything sent on its reply channel
  need       \* history: reader -> commit index when its barrier began

node == <<log, leader>>
held == <<waiters, pending, failing, waits>>
vars == <<node, applied, status, phase, from, held, marked, kick, pc, released,
          reply, need>>

Caller == Client \cup Reader
Command(c) == [key |-> KeyOf[c], body |-> BodyOf[c]]
Entries == {Command(c) : c \in Client} \cup {NoOp}
None == MaxLog + 1

TypeOK ==
  /\ log \in Seq(Entries)
  /\ leader \in BOOLEAN
  /\ applied \in 0..Len(log)
  /\ status \in 0..applied
  /\ phase \in {"idle", "mark", "try", "clear", "status", "answer", "stopped"}
  /\ from \in 0..applied
  /\ waiters \subseteq Client
  /\ pending \in [Reader -> 0..None]
  /\ failing \subseteq Reader
  /\ waits \in [Reader -> 0..None]
  /\ marked \in BOOLEAN
  /\ kick \in BOOLEAN
  /\ pc \in [Caller -> {"start", "held", "lock", "check", "unlock", "nudge",
                        "blocked", "reading", "leave", "done", "gone"}]
  /\ released \subseteq Reader
  /\ reply \in [Caller -> Seq({"result", "reused", "nil", "error"})]
  /\ need \in [Reader -> 0..MaxLog]

Init ==
  /\ log = <<>>
  /\ leader = FALSE
  /\ applied = 0
  /\ status = 0
  /\ phase = "mark"
  /\ from = 0
  /\ waiters = {}
  /\ pending = [r \in Reader |-> None]
  /\ failing = {}
  /\ waits = [r \in Reader |-> None]
  /\ marked = FALSE
  /\ kick = FALSE
  /\ \E crew \in Crews : pc = [c \in Caller |-> IF c \in crew THEN "start" ELSE "gone"]
  /\ released = {}
  /\ reply = [c \in Caller |-> <<>>]
  /\ need = [r \in Reader |-> 0]

-----------------------------------------------------------------------------
(* The results table *)

SlotsOf(k, n) == {s \in 1..n : log[s] # NoOp /\ log[s].key = k}
Recorded(k) == SlotsOf(k, applied) # {}

\* The first entry with the key is the one that was executed.
Record(k) == log[CHOOSE s \in SlotsOf(k, applied) :
                   \A t \in SlotsOf(k, applied) : s <= t]

\* Replay: the recorded result when the command is the recorded one.
Replay(cmd) == IF Record(cmd.key).body = cmd.body THEN "result" ELSE "reused"

Send(S, v) == [c \in Caller |-> IF c \in S THEN Append(reply[c], v) ELSE reply[c]]

Cancelled(c) == pc[c] = "gone"

-----------------------------------------------------------------------------
(* Events of the log node. Each is a Step or a Tick that the loop follows   *)
(* with after.                                                             *)

Chosen(e) ==
  /\ phase = "idle"
  /\ Len(log) < MaxLog
  /\ log' = Append(log, e)
  /\ phase' = "mark"
  /\ UNCHANGED <<leader, applied, status, from, held, marked, kick, pc, released,
                 reply, need>>

Elected ==
  /\ phase = "idle"
  /\ ~ leader
  /\ leader' = TRUE
  /\ phase' = "mark"
  /\ UNCHANGED <<log, applied, status, from, held, marked, kick, pc, released,
                 reply, need>>

\* stepDown fails every barrier in progress.
Deposed ==
  /\ phase = "idle"
  /\ leader
  /\ leader' = FALSE
  /\ failing' = {r \in Reader : pending[r] # None}
  /\ pending' = [r \in Reader |-> None]
  /\ phase' = "mark"
  /\ UNCHANGED <<log, applied, status, from, waiters, waits, marked, kick, pc,
                 released, reply, need>>

\* ReadReady: the read now waits for its index to be applied.
Barrier(r) ==
  /\ phase = "idle"
  /\ leader
  /\ pending[r] # None
  /\ waits' = [waits EXCEPT ![r] = pending[r]]
  /\ pending' = [pending EXCEPT ![r] = None]
  /\ phase' = "mark"
  /\ UNCHANGED <<node, applied, status, from, waiters, failing, marked, kick, pc,
                 released, reply, need>>

\* sweepAbandoned: a tick forgets the callers that have returned.
Tick ==
  /\ phase = "idle"
  /\ waiters' = {c \in waiters : ~ Cancelled(c)}
  /\ pending' = [r \in Reader |-> IF Cancelled(r) THEN None ELSE pending[r]]
  /\ waits' = [r \in Reader |-> IF Cancelled(r) THEN None ELSE waits[r]]
  /\ phase' = "mark"
  /\ UNCHANGED <<node, applied, status, from, failing, marked, kick, pc, released,
                 reply, need>>

Kicked ==
  /\ phase = "idle"
  /\ kick
  /\ kick' = FALSE
  /\ phase' = "mark"
  /\ UNCHANGED <<node, applied, status, from, held, marked, pc, released, reply,
                 need>>

-----------------------------------------------------------------------------
(* Requests: the unbuffered channel hands a call over when the loop takes  *)
(* it.                                                                     *)

\* handleSubmit: a recorded key is answered at once; a refusal by the node
\* (not the leader, or busy) is passed on; otherwise the call is held.
Submit(c) ==
  /\ phase = "idle"
  /\ pc[c] = "start"
  /\ pc' = [pc EXCEPT ![c] = "held"]
  /\ IF Recorded(KeyOf[c])
     THEN /\ reply' = Send({c}, Replay(Command(c)))
          /\ UNCHANGED <<waiters, phase>>
     ELSE /\ phase' = "mark"
          /\ \/ /\ reply' = Send({c}, "error")
                /\ UNCHANGED waiters
             \/ /\ leader
                /\ waiters' = waiters \cup {c}
                /\ UNCHANGED reply
  /\ UNCHANGED <<node, applied, status, from, pending, failing, waits, marked, kick,
                 released, need>>

\* handleRead: the node refuses unless it leads and its no-op is chosen.
Read(r) ==
  /\ phase = "idle"
  /\ r \in Consistent
  /\ pc[r] = "start"
  /\ pc' = [pc EXCEPT ![r] = "held"]
  /\ phase' = "mark"
  /\ \/ /\ reply' = Send({r}, "error")
        /\ UNCHANGED <<pending, need>>
     \/ /\ leader
        /\ pending' = [pending EXCEPT ![r] = Len(log)]
        /\ need' = [need EXCEPT ![r] = Len(log)]
        /\ UNCHANGED reply
  /\ UNCHANGED <<node, applied, status, from, waiters, failing, waits, marked, kick,
                 released>>

-----------------------------------------------------------------------------
(* after *)

Holds(r) == pc[r] \in {"check", "unlock", "reading"}

\* applyCommitted marks the apply as waiting before it tries the lock.
Mark ==
  /\ phase = "mark"
  /\ from' = applied
  /\ IF Len(log) > applied
     THEN phase' = "try" /\ marked' = TRUE
     ELSE phase' = "status" /\ UNCHANGED marked
  /\ UNCHANGED <<node, applied, status, held, kick, pc, released, reply, need>>

\* ApplyCommitted runs to the commit index.
LastApplied == Len(log)

\* TryLock fails while a reader holds the lock: nothing is applied and the
\* mark stays.
Try ==
  /\ phase = "try"
  /\ IF \E r \in Reader : Holds(r)
     THEN phase' = "status" /\ UNCHANGED applied
     ELSE phase' = "clear" /\ applied' = LastApplied
  /\ UNCHANGED <<node, status, from, held, marked, kick, pc, released, reply, need>>

\* Closing the channel releases every reader that has taken it.
Clear ==
  /\ phase = "clear"
  /\ marked' = FALSE
  /\ released' = released \cup {r \in Reader : pc[r] \in {"unlock", "nudge", "blocked"}}
  /\ phase' = "status"
  /\ UNCHANGED <<node, applied, status, from, held, kick, pc, reply, need>>

\* Plausible slip in after: the callers are answered before the snapshot is
\* published.
Publish_Late ==
  /\ phase = "status"
  /\ phase' = "answer"
  /\ UNCHANGED <<node, applied, status, from, held, marked, kick, pc, released,
                 reply, need>>

Publish ==
  /\ phase = "status"
  /\ status' = applied
  /\ phase' = "answer"
  /\ UNCHANGED <<node, applied, from, held, marked, kick, pc, released, reply, need>>

\* The Submit calls a slot of this batch answers.
Answered == {c \in waiters : \E s \in SlotsOf(KeyOf[c], applied) : s > from}

\* The first slot of the batch with the call's key.
AnsweredBy(c) ==
  CHOOSE s \in SlotsOf(KeyOf[c], applied) :
    s > from /\ \A t \in SlotsOf(KeyOf[c], applied) : t > from => s <= t

\* Plausible slip in after: every call with the key gets the slot's result.
Outcome_ByKey(c) == Replay(log[AnsweredBy(c)])

\* A call with the command of the slot gets the slot's result; one with the
\* same key and another command is answered from the results table.
Outcome(c) ==
  LET e == log[AnsweredBy(c)]
  IN  IF e.body = BodyOf[c] THEN Replay(e) ELSE Replay(Command(c))

\* The calls that end with ErrLeadershipLost.
Lost == IF leader THEN {} ELSE waiters \ Answered

\* Plausible slip in after: a completed barrier is answered at once.
Reached_AtOnce == {r \in Reader : waits[r] # None /\ ~ Cancelled(r)}

\* The reads whose index the snapshot has reached.
Reached == {r \in Reader : waits[r] <= status /\ ~ Cancelled(r)}

Answer ==
  /\ phase = "answer"
  /\ reply' = [c \in Caller |->
       IF c \in failing \/ c \in Lost THEN Append(reply[c], "error")
       ELSE IF c \in Answered THEN Append(reply[c], Outcome(c))
       ELSE IF c \in Reached THEN Append(reply[c], "nil")
       ELSE reply[c]]
  /\ failing' = {}
  /\ waiters' = waiters \ (Answered \cup Lost)
  /\ waits' = [r \in Reader |->
       IF r \in Reached \/ Cancelled(r) THEN None ELSE waits[r]]
  /\ phase' = "idle"
  /\ UNCHANGED <<node, applied, status, from, pending, marked, kick, pc, released,
                 need>>

\* Plausible slip in failAll: the reads that wait for an apply are left out.
FailAll_NoApplyWaits == waiters \cup {r \in Reader : pending[r] # None}

\* The callers failAll answers.
FailAll == waiters \cup {r \in Reader : pending[r] # None \/ waits[r] # None}

\* The context ended or the core failed: failAll, then done is closed.
Stop ==
  /\ phase = "idle"
  /\ phase' = "stopped"
  /\ reply' = Send(FailAll, "error")
  /\ waiters' = {}
  /\ pending' = [r \in Reader |-> None]
  /\ waits' = [r \in Reader |-> None]
  /\ UNCHANGED <<node, applied, status, from, failing, marked, kick, pc, released,
                 need>>

-----------------------------------------------------------------------------
(* Callers *)

Goto(c, label) ==
  /\ pc' = [pc EXCEPT ![c] = label]
  /\ UNCHANGED <<node, applied, status, phase, from, held, marked, reply, need>>

\* Submit returns with its answer; a Read goes on when its barrier is nil.
Receive(c) ==
  /\ pc[c] = "held"
  /\ reply[c] # <<>>
  /\ Goto(c, IF c \in Reader /\ reply[c][1] = "nil" THEN "lock" ELSE "done")
  /\ UNCHANGED <<kick, released>>

\* The context ends before the call is taken, or while it waits.
Cancel(c) ==
  /\ c \in MayCancel
  /\ pc[c] \in {"start", "held", "blocked"}
  /\ Goto(c, "gone")
  /\ UNCHANGED <<kick, released>>

\* A call made or waiting when the loop has ended gets ErrStopped.
Refuse(c) ==
  /\ phase = "stopped"
  /\ pc[c] \in {"start", "blocked"}
  /\ Goto(c, "done")
  /\ UNCHANGED <<kick, released>>

ReadLocal(r) ==
  /\ r \in Reader \ Consistent
  /\ pc[r] = "start"
  /\ phase # "stopped"
  /\ Goto(r, "lock")
  /\ UNCHANGED <<kick, released>>

\* readState: stateMu.RLock, then pendingApply.
Lock(r) ==
  /\ pc[r] = "lock"
  /\ Goto(r, "check")
  /\ UNCHANGED <<kick, released>>

\* Plausible slip in readState: a new read does not wait for the apply.
Check_NeverWaits(r) ==
  /\ pc[r] = "check"
  /\ Goto(r, "reading")
  /\ UNCHANGED <<kick, released>>

\* A read that finds an apply marked gives the lock back.
Check(r) ==
  /\ pc[r] = "check"
  /\ Goto(r, IF marked THEN "unlock" ELSE "reading")
  /\ released' = released \ {r}
  /\ UNCHANGED kick

Unlock(r) ==
  /\ pc[r] = "unlock"
  /\ Goto(r, "nudge")
  /\ UNCHANGED <<kick, released>>

Nudge(r) ==
  /\ pc[r] = "nudge"
  /\ kick' = TRUE
  /\ Goto(r, "blocked")
  /\ UNCHANGED released

Wake(r) ==
  /\ pc[r] = "blocked"
  /\ r \in released
  /\ Goto(r, "lock")
  /\ UNCHANGED <<kick, released>>

\* The read function returns and the lock is released.
Leave(r) ==
  /\ pc[r] = "reading"
  /\ Goto(r, "leave")
  /\ UNCHANGED <<kick, released>>

\* The deferred check: an apply that waits is nudged.
Left(r) ==
  /\ pc[r] = "leave"
  /\ kick' = (kick \/ marked)
  /\ Goto(r, "done")
  /\ UNCHANGED released

\* The caller comes back with another Read.
Again(r) ==
  /\ r \in Reader
  /\ pc[r] = "done"
  /\ phase # "stopped"
  /\ pc' = [pc EXCEPT ![r] = "start"]
  /\ reply' = [reply EXCEPT ![r] = <<>>]
  /\ UNCHANGED <<node, applied, status, phase, from, held, marked, kick, released,
                 need>>

-----------------------------------------------------------------------------
After == Mark \/ Try \/ Clear \/ Publish \/ Answer

ReadState(r) ==
  Lock(r) \/ Check(r) \/ Unlock(r) \/ Nudge(r) \/ Wake(r) \/ Leave(r) \/ Left(r)

Loop ==
  \/ \E e \in Entries : Chosen(e)
  \/ Elected
  \/ Deposed
  \/ \E r \in Reader : Barrier(r) \/ Read(r)
  \/ \E c \in Client : Submit(c)
  \/ Tick
  \/ Kicked
  \/ After
  \/ Stop

Callers ==
  \/ \E c \in Caller : Receive(c) \/ Cancel(c) \/ Refuse(c)
  \/ \E r \in Reader : ReadState(r) \/ ReadLocal(r) \/ Again(r)

\* Everything has been answered and the loop has ended.
Finished ==
  /\ phase = "stopped"
  /\ \A c \in Caller : pc[c] \in {"done", "gone"}
  /\ UNCHANGED vars

Next == Loop \/ Callers \/ Finished

Spec == Init /\ [][Next]_vars

\* The scheduler runs the loop between two events and when it is nudged, and
\* a read function that has started returns. No event, tick or request is
\* assumed to come.
Fairness ==
  /\ WF_vars(After)
  /\ WF_vars(Kicked)
  /\ \A r \in Reader : WF_vars(ReadState(r))

FairSpec == Spec /\ Fairness

-----------------------------------------------------------------------------
\* What a Submit is answered is what the replicated log says of its key: its
\* own command's result if that command was the first with the key, KeyReused
\* if another was, whichever of several calls with the key, before or after
\* the slot was applied, is answered.
AnswersAgreeWithLog ==
  \A c \in Client : reply[c] # <<>> /\ reply[c][1] # "error" =>
    Recorded(KeyOf[c]) /\ reply[c][1] = Replay(Command(c))

\* Status already shows the slot that answered a Submit when the caller wakes.
SnapshotBeforeAnswer ==
  \A c \in Client : reply[c] # <<>> /\ reply[c][1] # "error" =>
    SlotsOf(KeyOf[c], status) # {}

Held(c) ==
  \/ c \in waiters
  \/ c \in Reader /\ (pending[c] # None \/ waits[c] # None)

\* Between two events every call the loop has taken is either answered or still
\* in one of the tables that failAll empties, and never both: after and
\* failAll forget nobody, and nothing is sent twice on a reply channel, where a
\* second send would block the event loop for ever.
NobodyForgotten ==
  phase \in {"idle", "stopped"} =>
    \A c \in Caller :
      /\ Len(reply[c]) <= 1
      /\ pc[c] = "held" => (reply[c] = <<>> <=> Held(c))

\* A consistent Read is told to go on, and runs its function, only on a state
\* that includes everything committed when its barrier began, however long
\* other reads defer the apply.
BarrierHolds ==
  \A r \in Consistent :
    reply[r] = <<"nil">> \/ pc[r] = "reading" => applied >= need[r]

\* A deferred apply is made, without the help of a tick or of another event,
\* although readers keep coming.
CommittedIsApplied ==
  \A s \in 1..MaxLog :
    Len(log) >= s ~> (applied >= s \/ phase = "stopped")
=============================================================================

----------------------------- MODULE RunnerProofs -----------------------------
(***************************************************************************)
(* Theorems about Runner, for every set of callers, keys and commands and  *)
(* every length of the log.                                                *)
(***************************************************************************)
EXTENDS Runner, TLAPS

Numbers == INSTANCE BallotProofs

-----------------------------------------------------------------------------
(* The inductive invariant. *)

Phases == {"idle", "mark", "try", "clear", "status", "answer", "stopped"}
Labels == {"start", "held", "lock", "check", "unlock", "nudge", "blocked", "reading", "leave",
           "done", "gone"}
InRead == {"lock", "check", "unlock", "nudge", "blocked", "reading", "leave"}
Values == {"result", "reused", "nil", "error"}
Replies == {<<>>} \cup {<<v>> : v \in Values}

RunType ==
  /\ log \in Seq(Entries) /\ Len(log) <= MaxLog
  /\ applied \in 0..Len(log)
  /\ status \in 0..applied
  /\ phase \in Phases
  /\ waiters \subseteq Client
  /\ failing \subseteq Reader
  /\ pending \in [Reader -> 0..None]
  /\ waits \in [Reader -> 0..None]
  /\ need \in [Reader -> Nat]
  /\ pc \in [Caller -> Labels]
  /\ reply \in [Caller -> Replies]

\* Between two events the snapshot shows all that is applied, and the reads
\* whose barrier failed are answered.
EventInv ==
  /\ phase \notin {"clear", "status"} => status = applied
  /\ phase \in {"idle", "stopped"} => failing = {}

\* A caller that waits is in exactly one table until it is answered, and is
\* answered once.
Listed(c) ==
  \/ c \in waiters
  \/ c \in failing
  \/ c \in Reader /\ (pending[c] # None \/ waits[c] # None)
CallOK(c) ==
  /\ Listed(c) => reply[c] = <<>> /\ pc[c] \in {"held", "gone"}
  /\ pc[c] = "held" /\ reply[c] = <<>> => Listed(c)
  /\ pc[c] = "start" => reply[c] = <<>>

\* What a Submit was answered.
SubmitOK(c) ==
  \A v \in {"result", "reused", "nil"} : reply[c] = <<v>> =>
    /\ Recorded(KeyOf[c]) /\ v = Replay(Command(c))
    /\ SlotsOf(KeyOf[c], status) # {}

\* Where a Read is: its barrier is in one table only, the index it waits for is
\* the one its barrier began with, and it goes on only with a nil.
ReadOK(r) ==
  /\ ~ (r \in failing /\ (pending[r] # None \/ waits[r] # None))
  /\ pending[r] = None \/ waits[r] = None
  /\ pending[r] # None => pending[r] = need[r]
  /\ waits[r] # None => waits[r] = need[r]
  /\ reply[r] = <<"nil">> => need[r] <= applied
  /\ r \in Consistent /\ pc[r] \in InRead => reply[r] = <<"nil">>

RunInv ==
  /\ RunType
  /\ EventInv
  /\ \A c \in Caller : CallOK(c)
  /\ \A c \in Client : SubmitOK(c)
  /\ \A r \in Reader : ReadOK(r)

-----------------------------------------------------------------------------
(* Replies and the results table. *)

LEMMA OneReply ==
  ASSUME NEW v \in Values, NEW w \in Values
  PROVE  /\ <<v>> # <<>> /\ Len(<<v>>) = 1 /\ <<v>>[1] = v /\ Append(<<>>, v) = <<v>>
         /\ <<v>> = <<w>> => v = w
         /\ <<>> \in Replies /\ <<v>> \in Replies
BY DEF Replies

\* Slot s is the first of the first n that has key k.
FirstAt(l, n, k, s) ==
  /\ s \in 1..n /\ l[s] # NoOp /\ l[s].key = k
  /\ \A t \in 1..n : l[t] # NoOp /\ l[t].key = k => s <= t

LEMMA HasFirst ==
  ASSUME RunType, NEW k, Recorded(k)
  PROVE  \E s \in 1..applied : FirstAt(log, applied, k, s)
<1>1. PICK S : S = SlotsOf(k, applied)
  OBVIOUS
<1>2. applied \in Nat
  BY DEF RunType
<1>3. S = {s \in 1..applied : log[s] # NoOp /\ log[s].key = k} /\ S # {}
  BY <1>1 DEF SlotsOf, Recorded
<1>4. S \in SUBSET (0..applied)
  BY <1>2, <1>3
<1>5. PICK s \in S : \A t \in S : s <= t
  BY <1>2, <1>3, <1>4, Numbers!SmallestNumber
<1> QED
  BY <1>3, <1>5 DEF FirstAt

LEMMA FirstIsRecord ==
  ASSUME NEW n \in Nat, applied = n, NEW k, NEW s, FirstAt(log, n, k, s)
  PROVE  Recorded(k) /\ Record(k) = log[s]
<1>1. PICK S : S = SlotsOf(k, applied)
  OBVIOUS
<1>2. S = {t \in 1..n : log[t] # NoOp /\ log[t].key = k}
  BY <1>1 DEF SlotsOf
<1>3. s \in S /\ \A t \in S : s <= t
  BY <1>2 DEF FirstAt
<1>4. \A t \in S : (\A u \in S : t <= u) => t = s
  BY <1>2, <1>3
<1>5. s = CHOOSE t \in S : \A u \in S : t <= u
  BY <1>3, <1>4
<1> QED
  BY <1>1, <1>3, <1>5 DEF Record, Recorded

\* The log, what is applied of it and what the snapshot shows only grow.
Grown ==
  /\ \A s \in 1..Len(log) : log'[s] = log[s]
  /\ applied <= applied' /\ status <= status'

\* The record of a key never changes.
LEMMA RecordStays ==
  ASSUME RunType, RunType', Grown, NEW k, Recorded(k)
  PROVE  Recorded(k)' /\ Record(k)' = Record(k)
<1>1. PICK s \in 1..applied : FirstAt(log, applied, k, s)
  BY HasFirst
<1>2. applied \in Nat /\ applied' \in Nat /\ applied <= Len(log) /\ applied <= applied' /\ Len(log) \in Nat
  BY DEF RunType, Grown
<1>3. Record(k) = log[s]
  BY <1>1, <1>2, FirstIsRecord
<1>4. \A t \in 1..applied : log'[t] = log[t]
  BY <1>2 DEF Grown
<1>5. PICK g, m : g = log' /\ m = applied'
  OBVIOUS
<1>6. FirstAt(g, m, k, s)
  <2>1. s \in 1..m /\ g[s] # NoOp /\ g[s].key = k /\ s \in 1..applied
    BY <1>1, <1>2, <1>4, <1>5 DEF FirstAt
  <2>2. ASSUME NEW t \in 1..m, g[t] # NoOp, g[t].key = k PROVE s <= t
    <3>1. CASE t <= applied
      <4>1. t \in 1..applied
        BY <1>2, <1>5, <3>1
      <4> QED
        BY <1>1, <1>4, <1>5, <2>2, <4>1 DEF FirstAt
    <3>2. CASE ~ (t <= applied)
      BY <1>2, <1>5, <2>1, <3>2
    <3> QED
      BY <3>1, <3>2
  <2> QED
    BY <2>1, <2>2 DEF FirstAt
<1>7. PICK S : S = SlotsOf(k, applied)'
  OBVIOUS
<1>8. S = {t \in 1..m : g[t] # NoOp /\ g[t].key = k}
  BY <1>5, <1>7 DEF SlotsOf
<1>9. s \in S /\ \A t \in S : s <= t
  BY <1>6, <1>8 DEF FirstAt
<1>10. \A t \in S : (\A u \in S : t <= u) => t = s
  BY <1>2, <1>5, <1>8, <1>9
<1>11. s = CHOOSE t \in S : \A u \in S : t <= u
  BY <1>9, <1>10
<1>12. Recorded(k)' /\ Record(k)' = g[s]
  BY <1>5, <1>7, <1>9, <1>11 DEF Record, Recorded
<1> QED
  BY <1>1, <1>3, <1>4, <1>5, <1>12

LEMMA ReplayValue ==
  ASSUME NEW cmd
  PROVE  Replay(cmd) \in {"result", "reused"}
BY DEF Replay

\* What was answered stays the answer.
LEMMA SubmitStays ==
  ASSUME RunInv, RunType', Grown, NEW c \in Client, reply'[c] = reply[c]
  PROVE  SubmitOK(c)'
<1> SUFFICES ASSUME NEW v \in {"result", "reused", "nil"}, reply[c] = <<v>>
             PROVE  /\ Recorded(KeyOf[c])' /\ v = Replay(Command(c))'
                    /\ (SlotsOf(KeyOf[c], status) # {})'
  BY DEF SubmitOK
<1>1. Recorded(KeyOf[c]) /\ v = Replay(Command(c)) /\ SlotsOf(KeyOf[c], status) # {}
  BY DEF RunInv, SubmitOK
<1>2. RunType
  BY DEF RunInv
<1>3. PICK k : k = KeyOf[c]
  OBVIOUS
<1>4. Recorded(k)' /\ Record(k)' = Record(k)
  BY <1>1, <1>2, <1>3, RecordStays
<1>5. Command(c).key = k
  BY <1>3 DEF Command
<1>6. Replay(Command(c))' = Replay(Command(c))
  BY <1>4, <1>5 DEF Replay
<1>7. PICK s \in SlotsOf(k, status) : TRUE
  BY <1>1, <1>3
<1>8. s \in 1..status /\ log[s] # NoOp /\ log[s].key = k
  BY <1>7 DEF SlotsOf
<1>9. status \in Nat /\ status' \in Nat /\ status <= status' /\ status <= Len(log) /\ Len(log) \in Nat
  BY <1>2 DEF RunType, Grown
<1>10. s \in 1..status' /\ log'[s] = log[s]
  BY <1>8, <1>9 DEF Grown
<1>11. (SlotsOf(k, status) # {})'
  BY <1>8, <1>10 DEF SlotsOf
<1> QED
  BY <1>1, <1>3, <1>4, <1>6, <1>11

LEMMA SubmitSame ==
  ASSUME RunInv, UNCHANGED <<log, applied, status>>, NEW c \in Client, reply'[c] = reply[c]
  PROVE  SubmitOK(c)'
<1>1. \A k : /\ Recorded(k)' = Recorded(k) /\ Record(k)' = Record(k)
             /\ SlotsOf(k, status)' = SlotsOf(k, status)
  BY DEF Recorded, Record, SlotsOf
<1>2. Replay(Command(c))' = Replay(Command(c))
  BY <1>1 DEF Replay
<1> QED
  BY <1>1, <1>2 DEF RunInv, SubmitOK

\* A Submit that is told of a failure, or of the record of its key.
LEMMA SubmitAnswered ==
  ASSUME RunInv, UNCHANGED <<log, applied, status>>, NEW c \in Client, NEW v \in Values,
         reply'[c] = <<v>>,
         v # "error" => /\ v = Replay(Command(c)) /\ Recorded(KeyOf[c]) /\ status = applied
  PROVE  SubmitOK(c)'
<1>1. ASSUME NEW w \in {"result", "reused", "nil"}, reply'[c] = <<w>>
      PROVE  v # "error" /\ w = v
  <2>1. w \in Values /\ <<w>> = <<v>>
    BY <1>1 DEF Values
  <2>2. w = v
    BY <2>1, OneReply
  <2> QED
    BY <1>1, <2>2
<1>2. \A k : Recorded(k)' = Recorded(k) /\ Record(k)' = Record(k)
  BY DEF Recorded, Record, SlotsOf
<1>3. Replay(Command(c))' = Replay(Command(c))
  BY <1>2 DEF Replay
<1>4. v # "error" => (SlotsOf(KeyOf[c], status) # {})'
  BY DEF Recorded, SlotsOf
<1>5. v # "error" => Recorded(KeyOf[c])'
  BY <1>2
<1> QED
  BY <1>1, <1>3, <1>4, <1>5 DEF SubmitOK

LEMMA Bounds ==
  ASSUME RunType
  PROVE  /\ MaxLog \in Nat /\ Len(log) \in Nat /\ applied \in Nat /\ status \in Nat
         /\ applied <= Len(log) /\ status <= applied /\ Len(log) <= MaxLog
         /\ None \in Nat /\ status < None /\ Len(log) < None /\ Len(log) \in 0..None
BY RunnerAssumption DEF RunType, None

LEMMA Apart ==
  /\ \A c \in Client : c \in Caller /\ c \notin Reader
  /\ \A r \in Reader : r \in Caller /\ r \notin Client
BY RunnerAssumption DEF Caller

-----------------------------------------------------------------------------
(* Steps of the loop that answer nobody. *)

LEMMA SameCalls ==
  ASSUME RunInv, RunType', EventInv', Grown, UNCHANGED <<held, pc, reply, need>>
  PROVE  RunInv'
<1>1. ASSUME NEW c \in Caller PROVE CallOK(c)'
  BY DEF RunInv, CallOK, Listed, held
<1>2. ASSUME NEW c \in Client PROVE SubmitOK(c)'
  BY SubmitStays
<1>3. ASSUME NEW r \in Reader PROVE ReadOK(r)'
  <2>1. ReadOK(r) /\ need[r] \in Nat /\ applied \in Nat /\ applied' \in Nat /\ applied <= applied'
    BY DEF RunInv, RunType, Grown
  <2> QED
    BY <2>1 DEF ReadOK, held
<1> QED
  BY <1>1, <1>2, <1>3 DEF RunInv

LEMMA EventInvs ==
  ASSUME RunInv, (\E e \in Entries : Chosen(e)) \/ Elected \/ Kicked
  PROVE  RunInv'
<1>1. /\ UNCHANGED <<applied, status, held, pc, reply, need>> /\ phase = "idle" /\ phase' = "mark"
      /\ log' = log \/ \E e \in Entries : Len(log) < MaxLog /\ log' = Append(log, e)
  BY DEF Chosen, Elected, Kicked, node
<1>2. RunType /\ EventInv
  BY DEF RunInv
<1>3. /\ log' \in Seq(Entries) /\ Len(log) <= Len(log') /\ Len(log') <= MaxLog /\ Len(log') \in Nat
      /\ \A s \in 1..Len(log) : log'[s] = log[s]
  <2>1. log \in Seq(Entries) /\ Len(log) <= MaxLog /\ Len(log) \in Nat /\ MaxLog \in Nat
    BY <1>2, RunnerAssumption DEF RunType
  <2>2. CASE log' = log
    BY <2>1, <2>2
  <2>3. CASE \E e \in Entries : Len(log) < MaxLog /\ log' = Append(log, e)
    <3>1. PICK e \in Entries : Len(log) < MaxLog /\ log' = Append(log, e)
      BY <2>3
    <3>2. log' \in Seq(Entries) /\ Len(log') = Len(log) + 1
      BY <2>1, <3>1
    <3>3. \A s \in 1..Len(log) : log'[s] = log[s]
      BY <2>1, <3>1
    <3> QED
      BY <2>1, <3>1, <3>2, <3>3
  <2> QED
    BY <1>1, <2>2, <2>3
<1>4. RunType'
  <2>1. applied' \in 0..Len(log')
    BY <1>1, <1>2, <1>3 DEF RunType
  <2> QED
    BY <1>1, <1>2, <1>3, <2>1 DEF RunType, Phases, held
<1>5. EventInv'
  BY <1>1, <1>2 DEF EventInv
<1>6. Grown
  BY <1>1, <1>2, <1>3, Bounds DEF Grown
<1> QED
  BY <1>1, <1>4, <1>5, <1>6, SameCalls

\* The apply, and the snapshot after it.
LEMMA ApplyInv ==
  ASSUME RunInv, Mark \/ Try \/ Clear \/ Publish
  PROVE  RunInv'
<1>1. UNCHANGED <<log, held, pc, reply, need>>
  BY DEF Mark, Try, Clear, Publish, node
<1>2. RunType /\ EventInv
  BY DEF RunInv
<1>3. /\ Len(log) \in Nat /\ applied \in Nat /\ status \in Nat
      /\ applied <= Len(log) /\ status <= applied
  BY <1>2, Bounds
<1>4. /\ applied' \in {applied, Len(log)} /\ status' \in {status, applied}
      /\ status' # status => applied' = applied
      /\ phase' \in Phases /\ phase' \notin {"idle", "stopped"}
      /\ phase' \notin {"clear", "status"} => status' = applied'
  <2>1. CASE Mark
    BY <1>2, <2>1 DEF Mark, EventInv, Phases
  <2>2. CASE Try
    BY <1>2, <2>2 DEF Try, EventInv, Phases, LastApplied
  <2>3. CASE Clear
    BY <1>2, <2>3 DEF Clear, EventInv, Phases
  <2>4. CASE Publish
    BY <1>2, <2>4 DEF Publish, EventInv, Phases
  <2> QED
    BY <2>1, <2>2, <2>3, <2>4
<1>5. applied' \in 0..Len(log) /\ status' \in 0..applied' /\ applied <= applied' /\ status <= status'
  BY <1>3, <1>4
<1>6. RunType'
  BY <1>1, <1>2, <1>4, <1>5 DEF RunType, held
<1>7. EventInv' /\ Grown
  BY <1>1, <1>4, <1>5 DEF EventInv, Grown
<1> QED
  BY <1>1, <1>6, <1>7, SameCalls

\* The tables of the loop change and nobody is answered.
LEMMA TablesInv ==
  ASSUME RunInv, UNCHANGED <<log, applied, status, pc, reply, need>>,
         phase = "idle", phase' = "mark", RunType',
         \A c \in Caller : Listed(c)' => Listed(c),
         \A c \in Caller : pc[c] = "held" /\ Listed(c) => Listed(c)',
         \A r \in Reader :
           /\ ~ (r \in failing' /\ (pending'[r] # None \/ waits'[r] # None))
           /\ pending'[r] = None \/ waits'[r] = None
           /\ pending'[r] # None => pending'[r] = need[r]
           /\ waits'[r] # None => waits'[r] = need[r]
  PROVE  RunInv'
<1>1. EventInv'
  BY DEF RunInv, EventInv
<1>2. Grown
  BY Bounds DEF RunInv, Grown
<1>3. ASSUME NEW c \in Caller PROVE CallOK(c)'
  BY DEF RunInv, CallOK
<1>4. ASSUME NEW c \in Client PROVE SubmitOK(c)'
  BY <1>2, SubmitStays
<1>5. ASSUME NEW r \in Reader PROVE ReadOK(r)'
  BY DEF RunInv, ReadOK
<1> QED
  BY <1>1, <1>3, <1>4, <1>5 DEF RunInv

\* Every barrier in progress fails.
LEMMA DeposedInv ==
  ASSUME RunInv, Deposed
  PROVE  RunInv'
<1>1. /\ phase = "idle" /\ phase' = "mark"
      /\ UNCHANGED <<log, applied, status, waiters, waits, pc, reply, need>>
      /\ failing' = {r \in Reader : pending[r] # None}
      /\ pending' = [r \in Reader |-> None]
  BY DEF Deposed
<1>2. RunType /\ failing = {} /\ None \in 0..None
  BY <1>1, Bounds DEF RunInv, EventInv
<1>3. \A r \in Reader : pending'[r] = None /\ waits'[r] = waits[r] /\ (r \in failing' <=> pending[r] # None)
  BY <1>1
<1>4. RunType'
  BY <1>1, <1>2 DEF RunType, Phases
<1>5. \A r \in Reader : ReadOK(r)
  BY DEF RunInv
<1>6. ASSUME NEW c \in Caller PROVE Listed(c)' <=> Listed(c)
  BY <1>1, <1>2, <1>3 DEF Listed
<1> QED
  BY <1>1, <1>3, <1>4, <1>5, <1>6, TablesInv DEF ReadOK

\* A barrier completes.
LEMMA BarrierInv ==
  ASSUME RunInv, NEW r \in Reader, Barrier(r)
  PROVE  RunInv'
<1>1. /\ phase = "idle" /\ phase' = "mark" /\ pending[r] # None
      /\ UNCHANGED <<log, applied, status, waiters, failing, pc, reply, need>>
      /\ waits' = [waits EXCEPT ![r] = pending[r]]
      /\ pending' = [pending EXCEPT ![r] = None]
  BY DEF Barrier, node
<1>2. RunType /\ failing = {} /\ None \in 0..None
  BY <1>1, Bounds DEF RunInv, EventInv
<1>3. RunType'
  BY <1>1, <1>2 DEF RunType, Phases
<1>4. /\ waits'[r] = pending[r] /\ pending'[r] = None
      /\ \A q \in Reader \ {r} : waits'[q] = waits[q] /\ pending'[q] = pending[q]
  BY <1>1, <1>2 DEF RunType
<1>5. \A q \in Reader : ReadOK(q)
  BY DEF RunInv
<1>6. ASSUME NEW c \in Caller PROVE Listed(c)' <=> Listed(c)
  <2>1. CASE c = r
    BY <1>1, <1>4, <2>1 DEF Listed
  <2>2. CASE c # r
    BY <1>1, <1>4, <2>2 DEF Listed
  <2> QED
    BY <2>1, <2>2
<1>7. ASSUME NEW q \in Reader
      PROVE  /\ ~ (q \in failing' /\ (pending'[q] # None \/ waits'[q] # None))
             /\ pending'[q] = None \/ waits'[q] = None
             /\ pending'[q] # None => pending'[q] = need[q]
             /\ waits'[q] # None => waits'[q] = need[q]
  <2>1. CASE q = r
    BY <1>1, <1>2, <1>4, <1>5, <2>1 DEF ReadOK
  <2>2. CASE q # r
    BY <1>1, <1>2, <1>4, <1>5, <2>2 DEF ReadOK
  <2> QED
    BY <2>1, <2>2
<1> QED
  BY <1>1, <1>3, <1>6, <1>7, TablesInv

\* A tick forgets only callers that have returned.
LEMMA TickInv ==
  ASSUME RunInv, Tick
  PROVE  RunInv'
<1>1. /\ phase = "idle" /\ phase' = "mark"
      /\ UNCHANGED <<log, applied, status, failing, pc, reply, need>>
      /\ waiters' = {c \in waiters : ~ Cancelled(c)}
      /\ pending' = [r \in Reader |-> IF Cancelled(r) THEN None ELSE pending[r]]
      /\ waits' = [r \in Reader |-> IF Cancelled(r) THEN None ELSE waits[r]]
  BY DEF Tick, node
<1>2. RunType /\ failing = {} /\ None \in 0..None
  BY <1>1, Bounds DEF RunInv, EventInv
<1>3. \A r \in Reader : pending[r] \in 0..None /\ waits[r] \in 0..None
  BY <1>2 DEF RunType
<1>4. \A r \in Reader :
        /\ pending'[r] = IF Cancelled(r) THEN None ELSE pending[r]
        /\ waits'[r] = IF Cancelled(r) THEN None ELSE waits[r]
  BY <1>1
<1>5. RunType'
  <2>1. pending' \in [Reader -> 0..None] /\ waits' \in [Reader -> 0..None]
    BY <1>1, <1>2, <1>3
  <2> QED
    BY <1>1, <1>2, <2>1 DEF RunType, Phases
<1>6. ASSUME NEW c \in Caller, Listed(c)' PROVE Listed(c)
  BY <1>1, <1>4, <1>6 DEF Listed
<1>7. ASSUME NEW c \in Caller, pc[c] = "held", Listed(c) PROVE Listed(c)'
  <2>1. ~ Cancelled(c)
    BY <1>7 DEF Cancelled
  <2> QED
    BY <1>1, <1>4, <1>7, <2>1 DEF Listed
<1>8. \A r \in Reader : ReadOK(r)
  BY DEF RunInv
<1>9. ASSUME NEW q \in Reader
      PROVE  /\ ~ (q \in failing' /\ (pending'[q] # None \/ waits'[q] # None))
             /\ pending'[q] = None \/ waits'[q] = None
             /\ pending'[q] # None => pending'[q] = need[q]
             /\ waits'[q] # None => waits'[q] = need[q]
  BY <1>1, <1>2, <1>4, <1>8 DEF ReadOK
<1> QED
  BY <1>1, <1>5, <1>6, <1>7, <1>9, TablesInv

-----------------------------------------------------------------------------
(* Requests. *)

\* Everything about a caller that a step leaves alone.
Alone(c) ==
  /\ pc'[c] = pc[c] /\ reply'[c] = reply[c]
  /\ c \in waiters' <=> c \in waiters
  /\ c \in failing' <=> c \in failing
  /\ c \in Reader => pending'[c] = pending[c] /\ waits'[c] = waits[c] /\ need'[c] = need[c]

LEMMA AloneInv ==
  ASSUME RunInv, RunType', Grown, NEW c \in Caller, Alone(c)
  PROVE  /\ CallOK(c)'
         /\ c \in Client => SubmitOK(c)'
         /\ c \in Reader => ReadOK(c)'
<1>1. CallOK(c)'
  BY DEF RunInv, CallOK, Listed, Alone
<1>2. c \in Client => SubmitOK(c)'
  BY SubmitStays DEF Alone
<1>3. ASSUME c \in Reader PROVE ReadOK(c)'
  <2>1. ReadOK(c) /\ need[c] \in Nat /\ applied \in Nat /\ applied' \in Nat /\ applied <= applied'
    BY <1>3 DEF RunInv, RunType, Grown
  <2> QED
    BY <1>3, <2>1 DEF ReadOK, Alone
<1> QED
  BY <1>1, <1>2, <1>3

\* A step that concerns one caller only.
LEMMA OneCallerInv ==
  ASSUME RunInv, RunType', EventInv', Grown, NEW c \in Caller,
         \A d \in Caller : d # c => Alone(d),
         CallOK(c)', c \in Client => SubmitOK(c)', c \in Reader => ReadOK(c)'
  PROVE  RunInv'
<1>1. ASSUME NEW d \in Caller
      PROVE CallOK(d)' /\ (d \in Client => SubmitOK(d)') /\ (d \in Reader => ReadOK(d)')
  <2>1. CASE d = c
    BY <2>1
  <2>2. CASE d # c
    BY <2>2, AloneInv
  <2> QED
    BY <2>1, <2>2
<1> QED
  BY <1>1, Apart DEF RunInv

LEMMA SameLog ==
  ASSUME RunInv, UNCHANGED <<log, applied, status>>
  PROVE  Grown
BY Bounds DEF RunInv, Grown

\* The reply channel of a caller that had none.
LEMMA SendOne ==
  ASSUME RunInv, NEW c \in Caller, reply[c] = <<>>, NEW v \in Values
  PROVE  /\ Send({c}, v) \in [Caller -> Replies]
         /\ Send({c}, v)[c] = <<v>>
         /\ \A d \in Caller : d # c => Send({c}, v)[d] = reply[d]
<1>1. \A d \in Caller : Send({c}, v)[d] = IF d = c THEN <<v>> ELSE reply[d]
  BY OneReply DEF Send
<1>2. \A d \in Caller : reply[d] \in Replies
  BY DEF RunInv, RunType
<1>3. ASSUME NEW d \in Caller
      PROVE  (IF d \in {c} THEN Append(reply[d], v) ELSE reply[d]) \in Replies
  <2>1. CASE d = c
    <3>1. <<v>> \in Replies /\ Append(<<>>, v) = <<v>>
      BY OneReply
    <3>2. Append(reply[d], v) \in Replies
      BY <2>1, <3>1, Zenon
    <3> QED
      BY <2>1, <3>2, Zenon
  <2>2. CASE d # c
    BY <1>2, <2>2
  <2> QED
    BY <2>1, <2>2
<1>4. Send({c}, v) \in [Caller -> Replies]
  BY <1>3 DEF Send
<1> QED
  BY <1>1, <1>4

LEMMA SubmitInv ==
  ASSUME RunInv, NEW c \in Client, Submit(c)
  PROVE  RunInv'
<1>1. /\ phase = "idle" /\ pc[c] = "start" /\ pc' = [pc EXCEPT ![c] = "held"]
      /\ UNCHANGED <<log, applied, status, pending, failing, waits, need>>
  BY DEF Submit, node
<1>2. RunType /\ failing = {} /\ status = applied /\ c \in Caller /\ c \notin Reader
  BY <1>1, Apart DEF RunInv, EventInv
<1>3. reply[c] = <<>> /\ ~ Listed(c)
  BY <1>1, <1>2 DEF RunInv, CallOK
<1>4. PICK v : v \in Values /\
        \/ /\ reply' = Send({c}, v) /\ UNCHANGED waiters /\ phase' \in {"idle", "mark"}
           /\ v # "error" => v = Replay(Command(c)) /\ Recorded(KeyOf[c])
        \/ reply' = reply /\ waiters' = waiters \cup {c} /\ phase' = "mark"
  <2>1. CASE Recorded(KeyOf[c])
    <3>1. Replay(Command(c)) \in Values
      BY ReplayValue DEF Values
    <3> QED
      BY <1>1, <2>1, <3>1 DEF Submit
  <2>2. CASE ~ Recorded(KeyOf[c])
    <3>1. "error" \in Values
      BY DEF Values
    <3> QED
      BY <2>2, <3>1 DEF Submit
  <2> QED
    BY <2>1, <2>2
<1>5. /\ pc' \in [Caller -> Labels] /\ pc'[c] = "held"
      /\ \A d \in Caller : d # c => pc'[d] = pc[d]
  BY <1>1, <1>2 DEF RunType, Labels
<1>6. Grown
  BY <1>1, SameLog
<1>7. EventInv'
  BY <1>1, <1>2, <1>4 DEF EventInv
<1>8. CASE reply' = Send({c}, v) /\ UNCHANGED waiters /\ phase' \in {"idle", "mark"}
           /\ (v # "error" => v = Replay(Command(c)) /\ Recorded(KeyOf[c]))
  <2>1. /\ reply' \in [Caller -> Replies] /\ reply'[c] = <<v>>
        /\ \A d \in Caller : d # c => reply'[d] = reply[d]
    BY <1>2, <1>3, <1>4, <1>8, SendOne
  <2>2. RunType'
    BY <1>1, <1>2, <1>5, <1>8, <2>1 DEF RunType, Phases
  <2>3. SubmitOK(c)'
    BY <1>1, <1>2, <1>4, <1>8, <2>1, SubmitAnswered
  <2>4. CallOK(c)'
    <3>1. ~ Listed(c)'
      BY <1>1, <1>3, <1>8 DEF Listed
    <3>2. reply'[c] # <<>>
      BY <1>4, <2>1, OneReply
    <3> QED
      BY <1>5, <3>1, <3>2 DEF CallOK
  <2>5. ASSUME NEW d \in Caller, d # c PROVE Alone(d)
    BY <1>1, <1>5, <1>8, <2>1, <2>5 DEF Alone
  <2> QED
    BY <1>2, <1>6, <1>7, <2>2, <2>3, <2>4, <2>5, OneCallerInv
<1>9. CASE reply' = reply /\ waiters' = waiters \cup {c} /\ phase' = "mark"
  <2>1. RunType'
    BY <1>1, <1>2, <1>5, <1>9 DEF RunType, Phases
  <2>2. SubmitOK(c)'
    BY <1>6, <1>9, <2>1, SubmitStays
  <2>3. CallOK(c)'
    BY <1>3, <1>5, <1>9 DEF CallOK, Listed
  <2>4. ASSUME NEW d \in Caller, d # c PROVE Alone(d)
    BY <1>1, <1>5, <1>9, <2>4 DEF Alone
  <2> QED
    BY <1>2, <1>6, <1>7, <2>1, <2>2, <2>3, <2>4, OneCallerInv
<1> QED
  BY <1>4, <1>8, <1>9

LEMMA ReadInv ==
  ASSUME RunInv, NEW r \in Reader, Read(r)
  PROVE  RunInv'
<1>1. /\ phase = "idle" /\ phase' = "mark" /\ pc[r] = "start" /\ pc' = [pc EXCEPT ![r] = "held"]
      /\ UNCHANGED <<log, applied, status, waiters, failing, waits>>
      /\ \/ reply' = Send({r}, "error") /\ UNCHANGED <<pending, need>>
         \/ /\ pending' = [pending EXCEPT ![r] = Len(log)]
            /\ need' = [need EXCEPT ![r] = Len(log)]
            /\ UNCHANGED reply
  BY DEF Read, node
<1>2. RunType /\ failing = {} /\ status = applied /\ r \in Caller /\ r \notin Client
  BY <1>1, Apart DEF RunInv, EventInv
<1>3. reply[r] = <<>> /\ ~ Listed(r)
  BY <1>1, <1>2 DEF RunInv, CallOK
<1>4. ReadOK(r) /\ pending[r] = None /\ waits[r] = None /\ r \notin failing /\ r \notin waiters
  BY <1>3 DEF RunInv, Listed
<1>5. /\ pc' \in [Caller -> Labels] /\ pc'[r] = "held"
      /\ \A d \in Caller : d # r => pc'[d] = pc[d]
  BY <1>1, <1>2 DEF RunType, Labels
<1>6. Grown
  BY <1>1, SameLog
<1>7. EventInv'
  BY <1>1, <1>2 DEF EventInv
<1>8. "error" \in Values /\ "nil" \in Values
  BY DEF Values
<1>9. CASE reply' = Send({r}, "error") /\ UNCHANGED <<pending, need>>
  <2>1. /\ reply' \in [Caller -> Replies] /\ reply'[r] = <<"error">>
        /\ \A d \in Caller : d # r => reply'[d] = reply[d]
    BY <1>2, <1>3, <1>8, <1>9, SendOne
  <2>2. RunType'
    BY <1>1, <1>2, <1>5, <1>9, <2>1 DEF RunType, Phases
  <2>3. reply'[r] # <<>> /\ reply'[r] # <<"nil">>
    BY <1>8, <2>1, OneReply
  <2>4. CallOK(r)'
    BY <1>1, <1>4, <1>5, <1>9, <2>3 DEF CallOK, Listed
  <2>5. ReadOK(r)'
    BY <1>1, <1>4, <1>5, <1>9, <2>3 DEF ReadOK, InRead
  <2>6. ASSUME NEW d \in Caller, d # r PROVE Alone(d)
    BY <1>1, <1>5, <1>9, <2>1, <2>6 DEF Alone
  <2> QED
    BY <1>2, <1>6, <1>7, <2>2, <2>4, <2>5, <2>6, OneCallerInv
<1>10. CASE /\ pending' = [pending EXCEPT ![r] = Len(log)]
            /\ need' = [need EXCEPT ![r] = Len(log)]
            /\ UNCHANGED reply
  <2>1. Len(log) \in 0..None /\ Len(log) \in Nat /\ Len(log) # None
    BY <1>2, Bounds
  <2>2. RunType'
    BY <1>1, <1>2, <1>5, <1>10, <2>1 DEF RunType, Phases
  <2>3. /\ pending'[r] = Len(log) /\ need'[r] = Len(log) /\ reply'[r] = <<>>
        /\ \A d \in Reader : d # r => pending'[d] = pending[d] /\ need'[d] = need[d]
    BY <1>2, <1>3, <1>10 DEF RunType
  <2>4. CallOK(r)'
    BY <1>5, <2>1, <2>3 DEF CallOK, Listed
  <2>5. ReadOK(r)'
    <3>1. <<>> # <<"nil">>
      BY <1>8, OneReply
    <3> QED
      BY <1>1, <1>4, <1>5, <2>3, <3>1 DEF ReadOK, InRead
  <2>6. ASSUME NEW d \in Caller, d # r PROVE Alone(d)
    BY <1>1, <1>5, <1>10, <2>3, <2>6 DEF Alone
  <2> QED
    BY <1>2, <1>6, <1>7, <2>2, <2>4, <2>5, <2>6, OneCallerInv
<1> QED
  BY <1>1, <1>9, <1>10

-----------------------------------------------------------------------------
(* Answers. *)

\* A caller is taken off its table and told v.
LEMMA ToldInv ==
  ASSUME RunInv, UNCHANGED <<log, applied, status, pc, need>>, NEW c \in Caller, NEW v \in Values,
         Listed(c), ~ Listed(c)', reply'[c] = Append(reply[c], v),
         c \in Client /\ v # "error" =>
           v = Replay(Command(c)) /\ Recorded(KeyOf[c]) /\ status = applied,
         c \in Reader /\ v = "nil" => need[c] <= applied
  PROVE  /\ reply'[c] \in Replies
         /\ CallOK(c)'
         /\ c \in Client => SubmitOK(c)'
         /\ c \in Reader => ReadOK(c)'
<1>1. reply[c] = <<>> /\ pc[c] \in {"held", "gone"}
  BY DEF RunInv, CallOK
<1>2. <<v>> \in Replies /\ Append(<<>>, v) = <<v>> /\ <<v>> # <<>>
  BY OneReply
<1>3. reply'[c] = <<v>>
  BY <1>1, <1>2, Zenon
<1>4. CallOK(c)'
  BY <1>1, <1>2, <1>3 DEF CallOK
<1>5. ASSUME c \in Client PROVE SubmitOK(c)'
  BY <1>3, <1>5, SubmitAnswered
<1>6. ASSUME c \in Reader PROVE ReadOK(c)'
  <2>1. c \notin failing' /\ pending'[c] = None /\ waits'[c] = None
    BY <1>6 DEF Listed
  <2>2. "nil" \in Values
    BY DEF Values
  <2>3. <<v>> = <<"nil">> => v = "nil"
    BY <2>2, OneReply
  <2>4. (reply[c] = <<"nil">> => need[c] <= applied)'
    BY <1>3, <1>6, <2>3
  <2> QED
    BY <1>1, <2>1, <2>4 DEF ReadOK, InRead
<1> QED
  BY <1>2, <1>3, <1>4, <1>5, <1>6

\* The slot that answers a call has the key of the call.
LEMMA AnsweredKey ==
  ASSUME RunInv, NEW c \in Answered
  PROVE  Recorded(KeyOf[c]) /\ Outcome(c) = Replay(Command(c)) /\ c \in waiters
<1>1. PICK k : k = KeyOf[c]
  OBVIOUS
<1>2. PICK S : S = SlotsOf(k, applied)
  OBVIOUS
<1>3. c \in waiters /\ \E s \in S : s > from
  BY <1>1, <1>2 DEF Answered
<1>4. applied \in Nat /\ S = {s \in 1..applied : log[s] # NoOp /\ log[s].key = k}
  BY <1>2, Bounds DEF SlotsOf, RunInv
<1>5. PICK T : T = {s \in S : s > from}
  OBVIOUS
<1>6. T \in SUBSET (0..applied) /\ T # {}
  BY <1>3, <1>4, <1>5
<1>7. PICK m \in T : \A t \in T : m <= t
  BY <1>4, <1>6, Numbers!SmallestNumber
<1>8. \E s \in S : s > from /\ \A t \in S : t > from => s <= t
  BY <1>5, <1>7
<1>9. PICK a : a = CHOOSE s \in S : s > from /\ \A t \in S : t > from => s <= t
  OBVIOUS
<1>10. a \in S
  BY <1>8, <1>9
<1>11. a = AnsweredBy(c)
  BY <1>1, <1>2, <1>9 DEF AnsweredBy
<1>12. log[a].key = k
  BY <1>4, <1>10
<1>13. Command(c).key = k /\ Command(c).body = BodyOf[c]
  BY <1>1 DEF Command
<1>14. log[a].body = BodyOf[c] => Replay(log[a]) = Replay(Command(c))
  BY <1>12, <1>13 DEF Replay
<1>15. Outcome(c) = Replay(Command(c))
  BY <1>11, <1>14 DEF Outcome
<1>16. Recorded(k)
  BY <1>2, <1>3 DEF Recorded
<1> QED
  BY <1>1, <1>3, <1>15, <1>16

LEMMA AnswerInv ==
  ASSUME RunInv, Answer
  PROVE  RunInv'
<1>1. /\ phase = "answer" /\ phase' = "idle" /\ failing' = {}
      /\ UNCHANGED <<log, applied, status, pending, pc, need>>
      /\ waiters' = waiters \ (Answered \cup Lost)
      /\ waits' = [r \in Reader |-> IF r \in Reached \/ Cancelled(r) THEN None ELSE waits[r]]
  BY DEF Answer, node
<1>2. PICK f : f = reply'
  OBVIOUS
<1>3. f = [c \in Caller |->
       IF c \in failing \/ c \in Lost THEN Append(reply[c], "error")
       ELSE IF c \in Answered THEN Append(reply[c], Outcome(c))
       ELSE IF c \in Reached THEN Append(reply[c], "nil")
       ELSE reply[c]]
  BY <1>2 DEF Answer
<1>4. RunType /\ status = applied /\ None \in Nat /\ status < None /\ status \in Nat
  BY <1>1, Bounds DEF RunInv, EventInv
<1>5. \A r \in Reader : waits'[r] = IF r \in Reached \/ Cancelled(r) THEN None ELSE waits[r]
  BY <1>1
<1>6. /\ Lost \subseteq waiters /\ Answered \subseteq waiters /\ waiters \subseteq Client
      /\ failing \subseteq Reader /\ Reached \subseteq Reader /\ Lost \cap Answered = {}
  BY <1>4 DEF Lost, Answered, Reached, RunType
<1>7. \A r \in Reader : ReadOK(r) /\ waits[r] \in 0..None
  BY <1>4 DEF RunInv, RunType
<1>8. \A r \in Reached : waits[r] # None /\ waits[r] = need[r] /\ need[r] <= applied
                           /\ pending[r] = None /\ r \notin failing
  BY <1>4, <1>6, <1>7 DEF Reached, ReadOK
<1>9. "error" \in Values /\ "nil" \in Values /\ \A c \in Caller : Outcome(c) \in Values
  BY ReplayValue DEF Values, Outcome
<1>10. /\ waiters' \subseteq Client
       /\ waits' \in [Reader -> 0..None]
  BY <1>1, <1>4, <1>6, <1>7
<1>11. ASSUME NEW c \in Caller
       PROVE  /\ f[c] \in Replies /\ CallOK(c)'
              /\ c \in Client => SubmitOK(c)'
              /\ c \in Reader => ReadOK(c)'
  <2>1. CASE c \in failing
    <3>1. f[c] = Append(reply[c], "error") /\ c \in Reader /\ c \notin waiters' /\ c \notin Reached
      BY <1>1, <1>3, <1>6, <1>8, <2>1, Apart
    <3>2. pending[c] = None /\ waits[c] = None
      BY <1>7, <2>1, <3>1 DEF ReadOK
    <3>3. Listed(c) /\ ~ Listed(c)'
      BY <1>1, <1>5, <2>1, <3>1, <3>2 DEF Listed
    <3>4. c \notin Client /\ "error" # "nil"
      BY <3>1, Apart
    <3> QED
      BY <1>1, <1>2, <1>9, <3>1, <3>3, <3>4, ToldInv
  <2>2. CASE c \in Lost
    <3>1. f[c] = Append(reply[c], "error") /\ c \in Client /\ c \in waiters /\ c \notin waiters'
      BY <1>1, <1>3, <1>6, <2>2
    <3>2. c \notin Reader
      BY <3>1, Apart
    <3>3. Listed(c) /\ ~ Listed(c)'
      BY <1>1, <3>1, <3>2 DEF Listed
    <3> QED
      BY <1>1, <1>2, <1>9, <3>1, <3>2, <3>3, ToldInv
  <2>3. CASE c \in Answered
    <3>1. c \in Client /\ c \in waiters /\ c \notin waiters' /\ c \notin Lost
      BY <1>1, <1>6, <2>3
    <3>2. c \notin Reader
      BY <3>1, Apart
    <3>3. f[c] = Append(reply[c], Outcome(c))
      BY <1>3, <1>6, <2>3, <3>1, <3>2
    <3>4. Listed(c) /\ ~ Listed(c)'
      BY <1>1, <3>1, <3>2 DEF Listed
    <3>5. Recorded(KeyOf[c]) /\ Outcome(c) = Replay(Command(c))
      BY <2>3, AnsweredKey
    <3>6. PICK v \in Values : v = Outcome(c)
      BY <1>9
    <3> QED
      BY <1>1, <1>2, <1>4, <3>1, <3>2, <3>3, <3>4, <3>5, <3>6, ToldInv
  <2>4. CASE c \in Reached
    <3>1. c \in Reader /\ c \notin failing /\ need[c] <= applied /\ waits[c] # None /\ pending[c] = None
      BY <1>6, <1>8, <2>4
    <3>2. c \notin Client /\ c \notin waiters /\ c \notin Lost /\ c \notin Answered
      BY <1>6, <3>1, Apart
    <3>3. f[c] = Append(reply[c], "nil")
      BY <1>3, <2>4, <3>1, <3>2
    <3>4. Listed(c)
      BY <3>1 DEF Listed
    <3>5. ~ Listed(c)'
      BY <1>1, <1>5, <2>4, <3>1, <3>2 DEF Listed
    <3> QED
      BY <1>1, <1>2, <1>9, <3>1, <3>2, <3>3, <3>4, <3>5, ToldInv
  <2>5. CASE c \notin failing /\ c \notin Lost /\ c \notin Answered /\ c \notin Reached
    <3>1. f[c] = reply[c]
      BY <1>3, <2>5
    <3>2. c \in waiters' <=> c \in waiters
      BY <1>1, <2>5
    <3>3. c \in Reader => waits'[c] \in {waits[c], None} /\ (~ Cancelled(c) => waits'[c] = waits[c])
      BY <1>5, <2>5
    <3>4. Listed(c)' => Listed(c)
      BY <1>1, <3>2, <3>3 DEF Listed
    <3>5. ASSUME pc[c] = "held", Listed(c) PROVE Listed(c)'
      <4>1. ~ Cancelled(c)
        BY <3>5 DEF Cancelled
      <4> QED
        BY <1>1, <2>5, <3>2, <3>3, <3>5, <4>1 DEF Listed
    <3>6. CallOK(c)'
      BY <1>1, <1>2, <3>1, <3>4, <3>5 DEF RunInv, CallOK
    <3>7. c \in Client => SubmitOK(c)'
      BY <1>1, <1>2, <3>1, SubmitSame
    <3>8. ASSUME c \in Reader PROVE ReadOK(c)'
      BY <1>1, <1>2, <1>7, <3>1, <3>3, <3>8 DEF ReadOK
    <3>9. reply[c] \in Replies
      BY <1>4 DEF RunType
    <3> QED
      BY <3>1, <3>6, <3>7, <3>8, <3>9
  <2> QED
    BY <2>1, <2>2, <2>3, <2>4, <2>5
<1>12. f \in [Caller -> Replies]
  BY <1>3, <1>11
<1>13. RunType'
  BY <1>1, <1>2, <1>4, <1>10, <1>12 DEF RunType, Phases
<1>14. EventInv'
  BY <1>1, <1>4 DEF EventInv
<1> QED
  BY <1>11, <1>13, <1>14, Apart DEF RunInv

\* failAll answers everyone that is listed.
LEMMA StopInv ==
  ASSUME RunInv, Stop
  PROVE  RunInv'
<1>1. /\ phase = "idle" /\ phase' = "stopped"
      /\ UNCHANGED <<log, applied, status, failing, pc, need>>
      /\ waiters' = {} /\ pending' = [r \in Reader |-> None] /\ waits' = [r \in Reader |-> None]
  BY DEF Stop, node
<1>2. PICK f : f = reply'
  OBVIOUS
<1>3. \A c \in Caller : f[c] = IF c \in FailAll THEN Append(reply[c], "error") ELSE reply[c]
  BY <1>2 DEF Stop, Send
<1>4. RunType /\ failing = {} /\ status = applied /\ None \in 0..None
  BY <1>1, Bounds DEF RunInv, EventInv
<1>5. \A r \in Reader : pending'[r] = None /\ waits'[r] = None
  BY <1>1
<1>6. \A c \in Caller : ~ Listed(c)'
  BY <1>1, <1>4, <1>5 DEF Listed
<1>7. \A c \in Caller : c \in FailAll <=> Listed(c)
  BY <1>4 DEF FailAll, Listed
<1>8. "error" \in Values
  BY DEF Values
<1>9. ASSUME NEW c \in Caller
      PROVE  /\ f[c] \in Replies /\ CallOK(c)'
             /\ c \in Client => SubmitOK(c)'
             /\ c \in Reader => ReadOK(c)'
  <2>1. CASE c \in FailAll
    <3>1. f[c] = Append(reply[c], "error") /\ Listed(c) /\ "error" # "nil"
      BY <1>3, <1>7, <2>1
    <3> QED
      BY <1>1, <1>2, <1>6, <1>8, <3>1, ToldInv
  <2>2. CASE c \notin FailAll
    <3>1. f[c] = reply[c] /\ ~ Listed(c)
      BY <1>3, <1>7, <2>2
    <3>2. CallOK(c)'
      BY <1>1, <1>2, <1>6, <3>1 DEF RunInv, CallOK
    <3>3. c \in Client => SubmitOK(c)'
      BY <1>1, <1>2, <3>1, SubmitSame
    <3>4. ASSUME c \in Reader PROVE ReadOK(c)'
      BY <1>1, <1>2, <1>4, <1>5, <3>1, <3>4 DEF RunInv, ReadOK
    <3>5. reply[c] \in Replies
      BY <1>4 DEF RunType
    <3> QED
      BY <3>1, <3>2, <3>3, <3>4, <3>5
  <2> QED
    BY <2>1, <2>2
<1>10. f \in [Caller -> Replies]
  <2>1. f = [c \in Caller |-> IF c \in FailAll THEN Append(reply[c], "error") ELSE reply[c]]
    BY <1>2 DEF Stop, Send
  <2> QED
    BY <1>9, <2>1
<1>11. RunType'
  BY <1>1, <1>2, <1>4, <1>10 DEF RunType, Phases
<1>12. EventInv'
  BY <1>1, <1>4 DEF EventInv
<1> QED
  BY <1>9, <1>11, <1>12, Apart DEF RunInv

-----------------------------------------------------------------------------
(* Callers. *)

\* A caller moves on without a word to or from the loop: one that the loop
\* still holds may only give up, and a consistent Read takes the lock only when
\* its barrier was answered with nil.
LEMMA GotoInv ==
  ASSUME RunInv, NEW c \in Caller, NEW label \in Labels \ {"start", "held"}, Goto(c, label),
         Listed(c) => label = "gone",
         c \in Consistent /\ label \in InRead => reply[c] = <<"nil">>
  PROVE  RunInv'
<1>1. /\ UNCHANGED <<log, applied, status, phase, waiters, pending, failing, waits, reply, need>>
      /\ pc' = [pc EXCEPT ![c] = label]
  BY DEF Goto, node, held
<1>2. RunType
  BY DEF RunInv
<1>3. /\ pc' \in [Caller -> Labels] /\ pc'[c] = label
      /\ \A d \in Caller : d # c => pc'[d] = pc[d]
  BY <1>1, <1>2 DEF RunType
<1>4. RunType'
  BY <1>1, <1>2, <1>3 DEF RunType
<1>5. EventInv'
  BY <1>1 DEF RunInv, EventInv
<1>6. Grown
  BY <1>1, SameLog
<1>7. CallOK(c)'
  <2>1. Listed(c)' <=> Listed(c)
    BY <1>1 DEF Listed
  <2> QED
    BY <1>1, <1>3, <2>1 DEF RunInv, CallOK
<1>8. c \in Client => SubmitOK(c)'
  BY <1>1, SubmitSame
<1>9. ASSUME c \in Reader PROVE ReadOK(c)'
  BY <1>1, <1>3, <1>9 DEF RunInv, ReadOK, InRead
<1>10. ASSUME NEW d \in Caller, d # c PROVE Alone(d)
  BY <1>1, <1>3, <1>10 DEF Alone
<1> QED
  BY <1>4, <1>5, <1>6, <1>7, <1>8, <1>9, <1>10, OneCallerInv

\* Only a call that waits for its answer is listed.
LEMMA OnlyHeld ==
  ASSUME RunInv, NEW c \in Caller, Listed(c)
  PROVE  reply[c] = <<>> /\ pc[c] \in {"held", "gone"}
BY DEF RunInv, CallOK

LEMMA CallInv ==
  ASSUME RunInv, NEW c \in Caller, Receive(c) \/ Cancel(c) \/ Refuse(c)
  PROVE  RunInv'
<1>1. CASE Receive(c)
  <2>1. PICK label : label = IF c \in Reader /\ reply[c][1] = "nil" THEN "lock" ELSE "done"
    OBVIOUS
  <2>2. Goto(c, label) /\ reply[c] # <<>> /\ label \in {"lock", "done"} /\ label \in Labels \ {"start", "held"}
    BY <1>1, <2>1 DEF Receive, Labels
  <2>3. ~ Listed(c)
    BY <2>2, OnlyHeld
  <2>4. ASSUME label = "lock" PROVE reply[c] = <<"nil">>
    <3>1. reply[c][1] = "nil"
      BY <2>1, <2>4
    <3>2. reply[c] \in Replies
      BY DEF RunInv, RunType
    <3>3. PICK v \in Values : reply[c] = <<v>>
      BY <2>2, <3>2 DEF Replies
    <3>4. v = "nil"
      BY <3>1, <3>3, OneReply
    <3> QED
      BY <3>3, <3>4
  <2>5. c \in Consistent /\ label \in InRead => reply[c] = <<"nil">>
    BY <2>2, <2>4 DEF InRead
  <2> QED
    BY <2>2, <2>3, <2>5, GotoInv
<1>2. CASE Cancel(c)
  <2>1. Goto(c, "gone") /\ "gone" \in Labels \ {"start", "held"} /\ "gone" \notin InRead
    BY <1>2 DEF Cancel, Labels, InRead
  <2> QED
    BY <2>1, GotoInv
<1>3. CASE Refuse(c)
  <2>1. Goto(c, "done") /\ "done" \in Labels \ {"start", "held"} /\ "done" \notin InRead
        /\ pc[c] \in {"start", "blocked"}
    BY <1>3 DEF Refuse, Labels, InRead
  <2>2. ~ Listed(c)
    BY <2>1, OnlyHeld
  <2> QED
    BY <2>1, <2>2, GotoInv
<1> QED
  BY <1>1, <1>2, <1>3

LEMMA ReadStateInv ==
  ASSUME RunInv, NEW r \in Reader, ReadState(r) \/ ReadLocal(r)
  PROVE  RunInv'
<1>1. r \in Caller
  BY Apart
<1>2. PICK label : /\ Goto(r, label) /\ label \in Labels \ {"start", "held"}
                   /\ pc[r] \in InRead \/ (r \notin Consistent /\ pc[r] = "start")
  <2>1. CASE ReadLocal(r)
    BY <2>1 DEF ReadLocal, Labels
  <2>2. CASE Lock(r)
    BY <2>2 DEF Lock, Labels, InRead
  <2>3. CASE Check(r)
    <3>1. PICK l : l = IF marked THEN "unlock" ELSE "reading"
      OBVIOUS
    <3>2. Goto(r, l) /\ l \in {"unlock", "reading"} /\ pc[r] = "check"
      BY <2>3, <3>1 DEF Check
    <3> QED
      BY <3>2 DEF Labels, InRead
  <2>4. CASE Unlock(r)
    BY <2>4 DEF Unlock, Labels, InRead
  <2>5. CASE Nudge(r)
    BY <2>5 DEF Nudge, Labels, InRead
  <2>6. CASE Wake(r)
    BY <2>6 DEF Wake, Labels, InRead
  <2>7. CASE Leave(r)
    BY <2>7 DEF Leave, Labels, InRead
  <2>8. CASE Left(r)
    BY <2>8 DEF Left, Labels, InRead
  <2> QED
    BY <2>1, <2>2, <2>3, <2>4, <2>5, <2>6, <2>7, <2>8 DEF ReadState
<1>3. ~ Listed(r)
  BY <1>1, <1>2, OnlyHeld DEF InRead
<1>4. r \in Consistent => reply[r] = <<"nil">>
  BY <1>2 DEF RunInv, ReadOK, InRead
<1> QED
  BY <1>1, <1>2, <1>3, <1>4, GotoInv

LEMMA AgainInv ==
  ASSUME RunInv, NEW r \in Reader, Again(r)
  PROVE  RunInv'
<1>1. /\ UNCHANGED <<log, applied, status, phase, waiters, pending, failing, waits, need>>
      /\ pc[r] = "done" /\ pc' = [pc EXCEPT ![r] = "start"]
      /\ reply' = [reply EXCEPT ![r] = <<>>]
  BY DEF Again, node, held
<1>2. RunType /\ r \in Caller /\ r \notin Client
  BY Apart DEF RunInv
<1>3. /\ pc' \in [Caller -> Labels] /\ pc'[r] = "start"
      /\ \A d \in Caller : d # r => pc'[d] = pc[d]
  BY <1>1, <1>2 DEF RunType, Labels
<1>4. "nil" \in Values
  BY DEF Values
<1>5. <<>> \in Replies /\ <<>> # <<"nil">>
  BY <1>4, OneReply
<1>6. /\ reply' \in [Caller -> Replies] /\ reply'[r] = <<>>
      /\ \A d \in Caller : d # r => reply'[d] = reply[d]
  <2>1. reply \in [Caller -> Replies]
    BY <1>2 DEF RunType
  <2> QED
    BY <1>1, <1>2, <1>5, <2>1
<1>7. RunType'
  BY <1>1, <1>2, <1>3, <1>6 DEF RunType
<1>8. EventInv'
  BY <1>1 DEF RunInv, EventInv
<1>9. Grown
  BY <1>1, SameLog
<1>10. CallOK(r)'
  <2>1. ~ Listed(r)
    BY <1>1, <1>2, OnlyHeld
  <2>2. ~ Listed(r)'
    BY <1>1, <2>1 DEF Listed
  <2> QED
    BY <1>3, <1>6, <2>2 DEF CallOK
<1>11. ReadOK(r)'
  BY <1>1, <1>3, <1>5, <1>6 DEF RunInv, ReadOK, InRead
<1>12. ASSUME NEW d \in Caller, d # r PROVE Alone(d)
  BY <1>1, <1>3, <1>6, <1>12 DEF Alone
<1> QED
  BY <1>2, <1>7, <1>8, <1>9, <1>10, <1>11, <1>12, OneCallerInv

LEMMA StutterInv ==
  ASSUME RunInv, UNCHANGED vars
  PROVE  RunInv'
<1>1. UNCHANGED <<log, applied, status, phase, waiters, pending, failing, waits, pc, reply, need>>
  BY DEF vars, node, held
<1>2. RunType' /\ EventInv'
  BY <1>1 DEF RunInv, RunType, EventInv
<1>3. Grown
  BY <1>1, SameLog
<1> QED
  BY <1>1, <1>2, <1>3, SameCalls DEF held

-----------------------------------------------------------------------------
(* The invariant. *)

LEMMA InitInv ==
  ASSUME Init
  PROVE  RunInv
<1>1. None \in 0..None /\ 0 \in 0..0 /\ MaxLog \in Nat
  BY RunnerAssumption DEF None
<1>2. PICK crew \in Crews : pc = [c \in Caller |-> IF c \in crew THEN "start" ELSE "gone"]
  BY DEF Init
<1>3. pc \in [Caller -> Labels] /\ \A c \in Caller : pc[c] \in {"start", "gone"}
  BY <1>2 DEF Labels
<1>4. "result" \in Values /\ "nil" \in Values /\ "reused" \in Values
  BY DEF Values
<1>5. <<>> \in Replies /\ \A v \in {"result", "reused", "nil"} : <<>> # <<v>>
  BY <1>4, OneReply
<1>6. reply \in [Caller -> Replies] /\ \A c \in Caller : reply[c] = <<>>
  BY <1>5 DEF Init
<1>7. /\ log \in Seq(Entries) /\ Len(log) = 0
      /\ applied = 0 /\ status = 0 /\ phase = "mark" /\ waiters = {} /\ failing = {}
      /\ pending = [r \in Reader |-> None] /\ waits = [r \in Reader |-> None]
      /\ need = [r \in Reader |-> 0]
  BY DEF Init
<1>8. \A r \in Reader : pending[r] = None /\ waits[r] = None
  BY <1>7
<1>9. RunType
  <2>1. /\ pending \in [Reader -> 0..None] /\ waits \in [Reader -> 0..None]
        /\ need \in [Reader -> Nat]
    BY <1>1, <1>7
  <2> QED
    BY <1>1, <1>3, <1>6, <1>7, <2>1 DEF RunType, Phases
<1>10. EventInv
  BY <1>7 DEF EventInv
<1>11. \A c \in Caller : CallOK(c)
  BY <1>3, <1>6, <1>7, <1>8 DEF CallOK, Listed
<1>12. \A c \in Client : SubmitOK(c)
  BY <1>5, <1>6, Apart DEF SubmitOK
<1>13. \A r \in Reader : ReadOK(r)
  BY <1>3, <1>5, <1>6, <1>7, <1>8, Apart DEF ReadOK, InRead
<1> QED
  BY <1>9, <1>10, <1>11, <1>12, <1>13 DEF RunInv

LEMMA StepInv ==
  ASSUME RunInv, [Next]_vars
  PROVE  RunInv'
<1>1. CASE Loop
  BY <1>1, EventInvs, DeposedInv, BarrierInv, ReadInv, SubmitInv, TickInv, ApplyInv, AnswerInv,
     StopInv DEF Loop, After
<1>2. CASE Callers
  BY <1>2, CallInv, ReadStateInv, AgainInv DEF Callers
<1>3. CASE Finished \/ UNCHANGED vars
  BY <1>3, StutterInv DEF Finished
<1> QED
  BY <1>1, <1>2, <1>3 DEF Next

LEMMA Invariant == Spec => []RunInv
<1>1. Init => RunInv
  BY InitInv
<1>2. RunInv /\ [Next]_vars => RunInv'
  BY StepInv
<1> QED
  BY <1>1, <1>2, PTL DEF Spec

\* A reply that has come is one value.
LEMMA ReplyIsOne ==
  ASSUME RunInv, NEW c \in Caller
  PROVE  /\ reply[c] = <<>> \/ \E v \in Values : reply[c] = <<v>> /\ reply[c][1] = v
         /\ Len(reply[c]) <= 1
<1>1. reply[c] \in Replies
  BY DEF RunInv, RunType
<1>2. CASE reply[c] = <<>>
  BY <1>2
<1>3. CASE reply[c] # <<>>
  <2>1. PICK v \in Values : reply[c] = <<v>>
    BY <1>1, <1>3 DEF Replies
  <2>2. Len(<<v>>) = 1 /\ <<v>>[1] = v
    BY OneReply
  <2>3. Len(reply[c]) = 1 /\ reply[c][1] = v
    BY <2>1, <2>2
  <2> QED
    BY <2>1, <2>3
<1> QED
  BY <1>2, <1>3

\* Runner.after and handleSubmit answer every Submit as the log says of its
\* key: the first entry with the key decides, for a call that waited for its
\* slot, a call with the same key and another command, and a call that came
\* after the slot was applied.
THEOREM SubmitsToldTheRecord == Spec => []AnswersAgreeWithLog
<1>1. RunInv => AnswersAgreeWithLog
  <2> SUFFICES ASSUME RunInv, NEW c \in Client, reply[c] # <<>>, reply[c][1] # "error"
               PROVE  Recorded(KeyOf[c]) /\ reply[c][1] = Replay(Command(c))
    BY DEF AnswersAgreeWithLog
  <2>1. PICK v \in Values : reply[c] = <<v>> /\ reply[c][1] = v
    BY Apart, ReplyIsOne
  <2>2. v \in {"result", "reused", "nil"}
    BY <2>1 DEF Values
  <2> QED
    BY <2>1, <2>2 DEF RunInv, SubmitOK
<1> QED
  BY <1>1, Invariant, PTL

\* Runner.after stores the status snapshot before it answers: a caller that
\* asks for the status after its Submit returned finds its slot applied.
THEOREM StatusCoversAnswers == Spec => []SnapshotBeforeAnswer
<1>1. RunInv => SnapshotBeforeAnswer
  <2> SUFFICES ASSUME RunInv, NEW c \in Client, reply[c] # <<>>, reply[c][1] # "error"
               PROVE  SlotsOf(KeyOf[c], status) # {}
    BY DEF SnapshotBeforeAnswer
  <2>1. PICK v \in Values : reply[c] = <<v>> /\ reply[c][1] = v
    BY Apart, ReplyIsOne
  <2>2. v \in {"result", "reused", "nil"}
    BY <2>1 DEF Values
  <2> QED
    BY <2>1, <2>2 DEF RunInv, SubmitOK
<1> QED
  BY <1>1, Invariant, PTL

\* after, sweepAbandoned and failAll answer every call once: whenever the loop
\* is between two events, or has stopped, a caller that waits is in a table if
\* and only if nothing was sent to it.
THEOREM AnsweredOnce == Spec => []NobodyForgotten
<1>1. RunInv => NobodyForgotten
  <2> SUFFICES ASSUME RunInv, phase \in {"idle", "stopped"}, NEW c \in Caller
               PROVE  /\ Len(reply[c]) <= 1
                      /\ pc[c] = "held" => (reply[c] = <<>> <=> Held(c))
    BY DEF NobodyForgotten
  <2>1. failing = {} /\ CallOK(c)
    BY DEF RunInv, EventInv
  <2>2. Listed(c) <=> Held(c)
    BY <2>1 DEF Listed, Held
  <2> QED
    BY <2>1, <2>2, ReplyIsOne DEF CallOK
<1> QED
  BY <1>1, Invariant, PTL

\* after lets a consistent Read go on only when the applied index has reached
\* the index its barrier began with, and readState runs the function no earlier.
THEOREM BarrierCovers == Spec => []BarrierHolds
<1>1. RunInv => BarrierHolds
  <2> SUFFICES ASSUME RunInv, NEW r \in Consistent, reply[r] = <<"nil">> \/ pc[r] = "reading"
               PROVE  applied >= need[r]
    BY DEF BarrierHolds
  <2>1. r \in Reader
    BY RunnerAssumption
  <2>2. reply[r] = <<"nil">> /\ need[r] <= applied
    BY <2>1 DEF RunInv, ReadOK, InRead
  <2>3. need[r] \in Nat /\ applied \in Nat
    BY <2>1, Bounds DEF RunInv, RunType
  <2> QED
    BY <2>2, <2>3
<1> QED
  BY <1>1, Invariant, PTL
=============================================================================

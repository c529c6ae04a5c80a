----------------------------- MODULE FrontProofs -----------------------------
(***************************************************************************)
(* Theorems about Front, for every number of nodes, clients, requests in   *)
(* progress, changes of leader and faults.                                 *)
(***************************************************************************)
EXTENDS Front, TLAPS

Numbers == INSTANCE BallotProofs

-----------------------------------------------------------------------------
(* The inductive invariant. *)

Codes == {"none", "result", "key_reused", "in_flight", "redirect", "no_leader", "not_leader",
          "not_ready", "unavailable", "rate_limited", "outcome_unknown", "replica_behind",
          "forward_failed", "gone"}
States == {"free", "new", "submit", "held", "lost", "answer", "forwarding", "unlock"}
AnswerType == [code : Codes, slot : Nat, to : Nodes \cup {None}]
TryType == [st : States, at : Nodes \cup {None}, cl : Clients \cup {None},
            kind : {"command", "read"}, forwarded : BOOLEAN, parent : 0..MaxTries,
            slot : Nat, ans : AnswerType]

FrontType ==
  /\ log \in Seq(Clients)
  /\ proposals \subseteq [cl : Clients, by : Nodes]
  /\ lead \in Nodes \cup {None}
  /\ hint \in [Nodes -> Nodes \cup {None}]
  /\ applied \in [Nodes -> 0..Len(log)]
  /\ tries \in [Tries -> TryType]
  /\ at \in [Clients -> Nodes]
  /\ call \in [Clients -> 0..MaxTries]
  /\ resp \in [Clients -> AnswerType]
  /\ written \in [Clients -> Nat]
  /\ seen \in [Clients -> Nat]
  /\ finished \subseteq Clients

\* Slot s holds the first entry of log l with key k.
IsFirst(l, s, k) ==
  /\ s \in 1..Len(l)
  /\ KeyOf[l[s]] = k
  /\ \A r \in 1..Len(l) : KeyOf[l[r]] = k => s <= r

\* What an answer may tell client c when the log is l and c knows slot w: of a
\* command the outcome of the first entry with its key, of a read (which only a
\* client that knows its slot sends) a state not before that slot.
Told(l, w, c, a) ==
  /\ a.code = "result" =>
       IF w = 0 THEN IsFirst(l, a.slot, KeyOf[c]) /\ BodyOf[l[a.slot]] = BodyOf[c]
       ELSE w <= a.slot
  /\ a.code = "key_reused" =>
       \E s \in 1..Len(l) : IsFirst(l, s, KeyOf[c]) /\ BodyOf[l[s]] # BodyOf[c]

\* A request in progress: what it may tell its client, and to whom. The one it
\* was forwarded by waits for it alone, and was not forwarded itself.
LiveTry(t) ==
  tries[t].st # "free" =>
    /\ tries[t].cl \in Clients /\ tries[t].at \in Nodes
    /\ tries[t].kind = "read" => written[tries[t].cl] # 0
AnsweredTry(t) ==
  /\ tries[t].cl \in Clients => Told(log, written[tries[t].cl], tries[t].cl, tries[t].ans)
  /\ tries[t].st = "answer" => IsFirst(log, tries[t].slot, KeyOf[tries[t].cl])
ChildTry(t) ==
  /\ tries[t].parent # 0 =>
       /\ tries[tries[t].parent].st = "forwarding"
       /\ tries[tries[t].parent].ans = NoAnswer
       /\ tries[tries[t].parent].cl = tries[t].cl
       /\ tries[t].forwarded
       /\ \A v \in Tries : tries[v].parent = tries[t].parent => v = t
  /\ tries[t].st = "forwarding" => tries[t].parent = 0
TryInv == \A t \in Tries : LiveTry(t) /\ AnsweredTry(t) /\ ChildTry(t)

\* A client: the answer it holds is one it waits for, and the slot it knows is
\* that of the first entry with its key.
ClientOK(c) ==
  /\ Told(log, written[c], c, resp[c])
  /\ written[c] # 0 =>
       IsFirst(log, written[c], KeyOf[c]) /\ BodyOf[log[written[c]]] = BodyOf[c]
  /\ c \in finished => call[c] = 0 /\ (written[c] # 0 => written[c] <= seen[c])
  /\ call[c] = 0 => resp[c] = NoAnswer
ClientInv == \A c \in Clients : ClientOK(c)

FrontInv == FrontType /\ TryInv /\ ClientInv

-----------------------------------------------------------------------------
(* The log and the answers. *)

LEMMA FirstGrows ==
  ASSUME NEW l \in Seq(Clients), NEW x \in Clients, NEW s, NEW k, IsFirst(l, s, k)
  PROVE  IsFirst(Append(l, x), s, k) /\ Append(l, x)[s] = l[s]
<1>1. PICK g, n : g = Append(l, x) /\ n = Len(l)
  OBVIOUS
<1>2. n \in Nat /\ Len(g) = n + 1 /\ \A i \in 1..n : g[i] = l[i]
  BY <1>1
<1>3. s \in 1..n /\ KeyOf[l[s]] = k /\ \A r \in 1..n : KeyOf[l[r]] = k => s <= r
  BY <1>1 DEF IsFirst
<1>4. s \in 1..(n + 1) /\ g[s] = l[s]
  BY <1>2, <1>3
<1>5. ASSUME NEW r \in 1..(n + 1), KeyOf[g[r]] = k PROVE s <= r
  <2>1. CASE r = n + 1
    BY <1>2, <1>3, <2>1
  <2>2. CASE r # n + 1
    <3>1. r \in 1..n
      BY <1>2, <2>2
    <3> QED
      BY <1>2, <1>3, <1>5, <3>1
  <2> QED
    BY <2>1, <2>2
<1> QED
  BY <1>1, <1>2, <1>3, <1>4, <1>5 DEF IsFirst

LEMMA OneFirst ==
  ASSUME NEW l \in Seq(Clients), NEW k, NEW s, NEW r, IsFirst(l, s, k), IsFirst(l, r, k)
  PROVE  s = r
<1>1. s \in 1..Len(l) /\ r \in 1..Len(l) /\ s <= r /\ r <= s
  BY DEF IsFirst
<1>2. Len(l) \in Nat
  OBVIOUS
<1> QED
  BY <1>1, <1>2

LEMMA ToldGrows ==
  ASSUME NEW l \in Seq(Clients), NEW x \in Clients, NEW w, NEW c, NEW a, Told(l, w, c, a)
  PROVE  Told(Append(l, x), w, c, a)
<1>1. Len(l) \in Nat /\ Len(Append(l, x)) = Len(l) + 1
  OBVIOUS
<1>2. 1..Len(l) \subseteq 1..Len(Append(l, x))
  BY <1>1
<1>3. ASSUME a.code = "result", w = 0
      PROVE  IsFirst(Append(l, x), a.slot, KeyOf[c]) /\ BodyOf[Append(l, x)[a.slot]] = BodyOf[c]
  BY <1>3, FirstGrows DEF Told
<1>4. ASSUME a.code = "key_reused"
      PROVE  \E s \in 1..Len(Append(l, x)) :
               IsFirst(Append(l, x), s, KeyOf[c]) /\ BodyOf[Append(l, x)[s]] # BodyOf[c]
  <2>1. PICK s \in 1..Len(l) : IsFirst(l, s, KeyOf[c]) /\ BodyOf[l[s]] # BodyOf[c]
    BY <1>4 DEF Told
  <2>2. IsFirst(Append(l, x), s, KeyOf[c]) /\ Append(l, x)[s] = l[s]
    BY <2>1, FirstGrows
  <2> QED
    BY <1>2, <2>1, <2>2
<1> QED
  BY <1>3, <1>4 DEF Told

\* An answer on its way stays right when the client learns its slot.
LEMMA ToldKnows ==
  ASSUME NEW l \in Seq(Clients), NEW w, NEW c, NEW a, Told(l, 0, c, a), IsFirst(l, w, KeyOf[c])
  PROVE  Told(l, w, c, a)
<1>1. w \in 1..Len(l) /\ Len(l) \in Nat
  BY DEF IsFirst
<1>2. ASSUME a.code = "result" PROVE w <= a.slot
  <2>1. IsFirst(l, a.slot, KeyOf[c])
    BY <1>2 DEF Told
  <2>2. w = a.slot
    BY <2>1, OneFirst
  <2> QED
    BY <1>1, <2>2
<1>3. w # 0
  BY <1>1
<1> QED
  BY <1>2, <1>3 DEF Told

LEMMA ToldNothing ==
  ASSUME NEW l, NEW w, NEW c, NEW a, a.code \notin {"result", "key_reused"}
  PROVE  Told(l, w, c, a)
BY DEF Told

LEMMA AnswerFields ==
  ASSUME NEW code \in Codes
  PROVE  /\ Answer(code) \in AnswerType /\ Answer(code).code = code
         /\ NoAnswer \in AnswerType /\ NoAnswer.code = "none"
         /\ \A s \in Nat : /\ [Answer(code) EXCEPT !.slot = s] \in AnswerType
                           /\ [Answer(code) EXCEPT !.slot = s].code = code
                           /\ [Answer(code) EXCEPT !.slot = s].slot = s
         /\ \A n \in Nodes : /\ [Answer(code) EXCEPT !.to = n] \in AnswerType
                             /\ [Answer(code) EXCEPT !.to = n].code = code
BY DEF Answer, NoAnswer, AnswerType, Codes

\* The slot Submit finds is that of the first entry of the whole log.
LEMMA FirstSlotIsFirst ==
  ASSUME FrontType, NEW k, NEW n \in Nodes, Recorded(k, n)
  PROVE  IsFirst(log, FirstSlot(k, n), k) /\ FirstSlot(k, n) \in Nat
<1>1. PICK m, S : m = applied[n] /\ S = SlotsOf(k, m)
  OBVIOUS
<1>2. m \in Nat /\ m <= Len(log) /\ Len(log) \in Nat
  BY <1>1 DEF FrontType
<1>3. S = {s \in 1..m : KeyOf[log[s]] = k} /\ S # {}
  BY <1>1 DEF SlotsOf, Recorded
<1>4. S \in SUBSET (0..m)
  BY <1>2, <1>3
<1>5. \E x \in S : \A y \in S : x <= y
  BY <1>2, <1>3, <1>4, Numbers!SmallestNumber
<1>6. PICK s : s = FirstSlot(k, n)
  OBVIOUS
<1>7. s = CHOOSE x \in S : \A y \in S : x <= y
  BY <1>1, <1>6 DEF FirstSlot, Min
<1>8. s \in S /\ \A y \in S : s <= y
  BY <1>5, <1>7
<1>9. s \in 1..m /\ KeyOf[log[s]] = k
  BY <1>3, <1>8
<1>10. ASSUME NEW r \in 1..Len(log), KeyOf[log[r]] = k PROVE s <= r
  <2>1. CASE r <= m
    <3>1. r \in S
      BY <1>2, <1>3, <1>10, <2>1
    <3> QED
      BY <1>8, <3>1
  <2>2. CASE ~ (r <= m)
    BY <1>2, <1>9, <2>2
  <2> QED
    BY <2>1, <2>2
<1>11. s \in 1..Len(log) /\ s \in Nat
  BY <1>2, <1>9
<1> QED
  BY <1>6, <1>9, <1>10, <1>11 DEF IsFirst

-----------------------------------------------------------------------------
(* The requests in progress. *)

LEMMA TryFields ==
  ASSUME NEW r \in TryType
  PROVE  /\ r.st \in States /\ r.at \in Nodes \cup {None} /\ r.cl \in Clients \cup {None}
         /\ r.kind \in {"command", "read"} /\ r.parent \in 0..MaxTries /\ r.slot \in Nat /\ r.ans \in AnswerType
BY DEF TryType

LEMMA TryParent ==
  ASSUME FrontInv, NEW t \in Tries, tries[t].parent # 0
  PROVE  tries[t].parent \in Tries
<1>1. tries[t] \in TryType /\ MaxTries \in Nat
  BY FrontAssumption DEF FrontInv, FrontType
<1>2. tries[t].parent \in 0..MaxTries
  BY <1>1 DEF TryType
<1> QED
  BY <1>1, <1>2 DEF Tries

\* Steps of handlers that wait for nobody.
LEMMA MoveInv ==
  ASSUME FrontInv, log' = log, written' = written, tries' \in [Tries -> TryType],
         \A t \in Tries :
           \/ tries'[t] = tries[t]
           \/ /\ tries'[t].cl = tries[t].cl /\ tries'[t].at = tries[t].at
              /\ tries'[t].kind = tries[t].kind /\ tries'[t].ans = tries[t].ans
              /\ tries'[t].parent = tries[t].parent
              /\ tries'[t].forwarded = tries[t].forwarded
              /\ tries[t].st \notin {"free", "forwarding"}
              /\ tries'[t].st \notin {"free", "forwarding"}
              /\ tries'[t].st = "answer" => IsFirst(log, tries'[t].slot, KeyOf[tries[t].cl])
  PROVE  TryInv'
<1>1. \A t \in Tries : LiveTry(t) /\ AnsweredTry(t) /\ ChildTry(t)
  BY DEF FrontInv, TryInv
<1>2. \A t \in Tries : /\ tries'[t].parent = tries[t].parent /\ tries'[t].cl = tries[t].cl
                       /\ tries'[t].forwarded = tries[t].forwarded /\ tries'[t].ans = tries[t].ans
                       /\ tries'[t].at = tries[t].at /\ tries'[t].kind = tries[t].kind
  OBVIOUS
<1>3. ASSUME NEW t \in Tries PROVE LiveTry(t)' /\ AnsweredTry(t)'
  BY <1>1, <1>2, <1>3 DEF LiveTry, AnsweredTry
<1>4. ASSUME NEW t \in Tries PROVE ChildTry(t)'
  <2>1. CASE tries[t].parent # 0
    <3>1. PICK u : u = tries[t].parent
      OBVIOUS
    <3>2. u \in Tries
      BY <2>1, <3>1, TryParent
    <3>3. /\ tries[u].st = "forwarding" /\ tries[u].ans = NoAnswer /\ tries[u].cl = tries[t].cl
          /\ tries[t].forwarded /\ \A v \in Tries : tries[v].parent = u => v = t
          /\ tries[t].st # "forwarding"
      BY <1>1, <2>1, <3>1 DEF ChildTry
    <3>4. tries'[u] = tries[u]
      BY <3>2, <3>3
    <3>5. tries'[t].parent = u /\ tries'[t].st # "forwarding" /\ tries'[t].cl = tries[t].cl
      BY <1>2, <3>1, <3>3
    <3>6. tries'[t].forwarded
      BY <1>2, <3>3
    <3>7. \A v \in Tries : tries'[v].parent = u => v = t
      BY <1>2, <3>3
    <3> QED
      BY <3>3, <3>4, <3>5, <3>6, <3>7 DEF ChildTry
  <2>2. CASE tries[t].parent = 0
    BY <1>2, <2>2 DEF ChildTry
  <2> QED
    BY <2>1, <2>2
<1> QED
  BY <1>3, <1>4 DEF TryInv

LEMMA NoTryType == NoTry \in TryType /\ NoTry.st = "free" /\ NoTry.parent = 0 /\ NoTry.ans = NoAnswer
                   /\ NoTry.cl = None
<1>1. MaxTries \in Nat
  BY FrontAssumption
<1> QED
  BY <1>1 DEF NoTry, TryType, NoAnswer, AnswerType, Codes, States

\* The request of a handler that has answered and still holds its key.
LEMMA RepliedFields ==
  ASSUME NEW r \in TryType,
         NEW d, d = [r EXCEPT !.st = "unlock", !.parent = 0, !.ans = NoAnswer]
  PROVE  /\ d \in TryType /\ d.st = "unlock" /\ d.parent = 0 /\ d.ans = NoAnswer
         /\ d.cl = r.cl /\ d.at = r.at /\ d.kind = r.kind
<1>1. 0 \in 0..MaxTries /\ NoAnswer \in AnswerType
  BY FrontAssumption DEF NoAnswer, AnswerType, Codes
<1>2. r = [st |-> r.st, at |-> r.at, cl |-> r.cl, kind |-> r.kind, forwarded |-> r.forwarded,
           parent |-> r.parent, slot |-> r.slot, ans |-> r.ans]
  BY DEF TryType
<1>3. d = [st |-> "unlock", at |-> r.at, cl |-> r.cl, kind |-> r.kind, forwarded |-> r.forwarded,
           parent |-> 0, slot |-> r.slot, ans |-> NoAnswer]
  BY <1>2
<1>4. r.forwarded \in BOOLEAN /\ r.at \in Nodes \cup {None} /\ r.cl \in Clients \cup {None}
      /\ r.kind \in {"command", "read"} /\ r.slot \in Nat
  BY DEF TryType
<1> QED
  BY <1>1, <1>3, <1>4 DEF TryType, States

\* A handler that answers: the one it answers to is waiting for it, or is the
\* client.
LEMMA ReplyInv ==
  ASSUME FrontInv, UNCHANGED <<log, proposals, lead, hint, applied>>,
         NEW t \in Tries, NEW a \in AnswerType, NEW st \in {"free", "unlock"}, Reply(t, a, st),
         tries[t].st # "free", Told(log, written[tries[t].cl], tries[t].cl, a),
         tries[t].st = "forwarding" => tries[t].ans # NoAnswer
  PROVE  FrontInv'
<1>1. PICK up, c : up = tries[t].parent /\ c = tries[t].cl
  OBVIOUS
<1>2. tries \in [Tries -> TryType] /\ tries[t] \in TryType /\ c \in Clients
  BY <1>1 DEF FrontInv, FrontType, TryInv, LiveTry
<1>3. PICK d : d = IF st = "free" THEN NoTry
                   ELSE [tries[t] EXCEPT !.st = st, !.parent = 0, !.ans = NoAnswer]
  OBVIOUS
<1>4. /\ d \in TryType /\ d.parent = 0 /\ d.ans = NoAnswer /\ d.st \in {"free", "unlock"}
      /\ d.st = "unlock" => d.cl = c /\ d.at = tries[t].at /\ d.kind = tries[t].kind
  <2>1. CASE st = "free"
    BY <1>3, <2>1, NoTryType
  <2>2. CASE st = "unlock"
    <3>1. d = [tries[t] EXCEPT !.st = "unlock", !.parent = 0, !.ans = NoAnswer]
      BY <1>3, <2>2
    <3> QED
      BY <1>1, <1>2, <3>1, RepliedFields
  <2> QED
    BY <2>1, <2>2
<1>5. /\ tries' = [u \in Tries |-> IF u = t THEN d
                                   ELSE IF u = up THEN [tries[u] EXCEPT !.ans = a] ELSE tries[u]]
      /\ resp' = IF up = 0 /\ call[c] = t THEN [resp EXCEPT ![c] = a] ELSE resp
      /\ UNCHANGED <<at, call, written, seen, finished>>
  BY <1>1, <1>3 DEF Reply
<1>6. ASSUME NEW u \in Tries, u # t
      PROVE  /\ tries'[u] \in TryType /\ tries'[u].parent = tries[u].parent
             /\ tries'[u].st = tries[u].st /\ tries'[u].cl = tries[u].cl
             /\ tries'[u].at = tries[u].at /\ tries'[u].kind = tries[u].kind
             /\ tries'[u].forwarded = tries[u].forwarded /\ tries'[u].slot = tries[u].slot
             /\ tries'[u].ans = IF u = up THEN a ELSE tries[u].ans
  <2>1. tries[u] \in TryType
    BY <1>2
  <2>2. CASE u = up
    <3>1. tries'[u] = [tries[u] EXCEPT !.ans = a]
      BY <1>5, <1>6, <2>2
    <3> QED
      BY <2>1, <2>2, <3>1 DEF TryType
  <2>3. CASE u # up
    <3>1. tries'[u] = tries[u]
      BY <1>5, <1>6, <2>3
    <3> QED
      BY <2>1, <2>3, <3>1
  <2> QED
    BY <2>2, <2>3
<1>7. tries'[t] = d
  BY <1>5
<1>8. tries' \in [Tries -> TryType]
  <2>1. \A u \in Tries : tries'[u] \in TryType
    BY <1>4, <1>6, <1>7
  <2>2. tries' = [u \in Tries |-> tries'[u]]
    BY <1>5
  <2> QED
    BY <2>1, <2>2
<1>9. \A u \in Tries : LiveTry(u) /\ AnsweredTry(u) /\ ChildTry(u)
  BY DEF FrontInv, TryInv
<1>10. \A u \in Tries : tries[u].parent # t
  <2> SUFFICES ASSUME NEW u \in Tries, tries[u].parent = t PROVE FALSE
    OBVIOUS
  <2>1. t # 0
    BY FrontAssumption DEF Tries
  <2>2. tries[t].st = "forwarding" /\ tries[t].ans = NoAnswer
    BY <1>9, <2>1 DEF ChildTry
  <2> QED
    BY <2>2
<1>11. ASSUME NEW u \in Tries PROVE LiveTry(u)' /\ AnsweredTry(u)'
  <2>1. CASE u = t
    <3>1. LiveTry(u)'
      BY <1>4, <1>5, <1>7, <1>9, <1>1, <2>1 DEF LiveTry
    <3>2. NoAnswer.code = "none"
      BY DEF NoAnswer
    <3>3. AnsweredTry(u)'
      BY <1>4, <1>7, <2>1, <3>2 DEF AnsweredTry, Told
    <3> QED
      BY <3>1, <3>3
  <2>2. CASE u # t
    <3>1. LiveTry(u)'
      BY <1>5, <1>6, <1>9, <2>2 DEF LiveTry
    <3>2. CASE u = up
      <4>1. tries[t].parent # 0
        BY <1>1, <3>2, FrontAssumption DEF Tries
      <4>2. tries[u].st = "forwarding" /\ tries[u].cl = c
        BY <1>1, <1>9, <3>2, <4>1 DEF ChildTry
      <4>3. Told(log, written[c], c, a) /\ tries'[u].cl = c /\ tries'[u].ans = a /\ tries'[u].st = "forwarding"
        BY <1>1, <1>6, <2>2, <3>2, <4>2
      <4> QED
        BY <1>5, <3>1, <4>3 DEF AnsweredTry
    <3>3. CASE u # up
      BY <1>5, <1>6, <1>9, <2>2, <3>1, <3>3 DEF AnsweredTry
    <3> QED
      BY <3>2, <3>3
  <2> QED
    BY <2>1, <2>2
<1>12. ASSUME NEW u \in Tries PROVE ChildTry(u)'
  <2>1. CASE u = t
    BY <1>4, <1>7, <2>1 DEF ChildTry
  <2>2. CASE u # t /\ tries[u].parent = 0
    BY <1>6, <2>2 DEF ChildTry
  <2>3. CASE u # t /\ tries[u].parent # 0
    <3>1. PICK p : p = tries[u].parent
      OBVIOUS
    <3>2. p \in Tries /\ p # t /\ p # 0
      BY <1>10, <2>3, <3>1, TryParent
    <3>3. /\ tries[p].st = "forwarding" /\ tries[p].ans = NoAnswer /\ tries[p].cl = tries[u].cl
          /\ tries[u].forwarded /\ \A v \in Tries : tries[v].parent = p => v = u
          /\ tries[u].st # "forwarding"
      BY <1>9, <2>3, <3>1 DEF ChildTry
    <3>4. p # up
      BY <1>1, <2>3, <3>3
    <3>5. tries'[p].st = "forwarding" /\ tries'[p].ans = NoAnswer /\ tries'[p].cl = tries[u].cl
      BY <1>6, <3>2, <3>3, <3>4
    <3>6. \A v \in Tries : tries'[v].parent = p => v = u
      BY <1>4, <1>6, <1>7, <3>2, <3>3
    <3>7. tries'[u].forwarded
      BY <1>6, <2>3, <3>3
    <3> QED
      BY <1>6, <2>3, <3>1, <3>3, <3>5, <3>6, <3>7 DEF ChildTry
  <2> QED
    BY <2>1, <2>2, <2>3
<1>13. FrontType'
  <2>1. resp' \in [Clients -> AnswerType]
    BY <1>2, <1>5 DEF FrontInv, FrontType
  <2> QED
    BY <1>5, <1>8, <2>1 DEF FrontInv, FrontType
<1>14. ASSUME NEW e \in Clients PROVE ClientOK(e)'
  <2>1. ClientOK(e)
    BY DEF FrontInv, ClientInv
  <2>2. CASE up = 0 /\ call[c] = t /\ e = c
    <3>1. resp'[e] = a /\ call[e] # 0
      BY <1>2, <1>5, <2>2, FrontAssumption DEF FrontInv, FrontType, Tries
    <3> QED
      BY <1>1, <1>5, <2>1, <2>2, <3>1 DEF ClientOK
  <2>3. CASE ~ (up = 0 /\ call[c] = t /\ e = c)
    <3>1. resp'[e] = resp[e]
      BY <1>2, <1>5, <2>3 DEF FrontInv, FrontType
    <3> QED
      BY <1>5, <2>1, <3>1 DEF ClientOK
  <2> QED
    BY <2>2, <2>3
<1> QED
  BY <1>11, <1>12, <1>13, <1>14 DEF FrontInv, TryInv, ClientInv

-----------------------------------------------------------------------------
(* Steps that leave the clients, or the requests, alone. *)

LEMMA SameClients ==
  ASSUME FrontInv, UNCHANGED <<log, client>>
  PROVE  ClientInv'
BY DEF FrontInv, ClientInv, ClientOK, client

LEMMA SameTries ==
  ASSUME FrontInv, UNCHANGED <<log, written, tries>>
  PROVE  TryInv'
BY DEF FrontInv, TryInv, LiveTry, AnsweredTry, ChildTry

LEMMA ElectInv ==
  ASSUME FrontInv, NEW n \in Nodes, Elect(n) \/ BecomeReady(n)
  PROVE  FrontInv'
<1>1. /\ UNCHANGED <<log, proposals, applied, tries, client>>
      /\ lead' \in {lead, n} /\ (hint' = hint \/ hint' = [hint EXCEPT ![n] = n])
  BY DEF Elect, BecomeReady
<1>2. lead' \in Nodes \cup {None} /\ hint' \in [Nodes -> Nodes \cup {None}]
  <2>1. lead \in Nodes \cup {None} /\ hint \in [Nodes -> Nodes \cup {None}]
    BY DEF FrontInv, FrontType
  <2>2. CASE hint' = hint
    BY <1>1, <2>1, <2>2
  <2>3. CASE hint' = [hint EXCEPT ![n] = n]
    BY <1>1, <2>1, <2>3
  <2> QED
    BY <1>1, <2>2, <2>3
<1>3. FrontType'
  BY <1>1, <1>2 DEF FrontInv, FrontType, client
<1> QED
  BY <1>1, <1>3, SameClients, SameTries DEF FrontInv, client

LEMMA ApplyInv ==
  ASSUME FrontInv, NEW n \in Nodes, Apply(n)
  PROVE  FrontInv'
<1>1. /\ UNCHANGED <<log, proposals, lead, hint, tries, client>>
      /\ applied[n] < Len(log) /\ applied' = [applied EXCEPT ![n] = applied[n] + 1]
  BY DEF Apply
<1>2. log \in Seq(Clients) /\ Len(log) \in Nat /\ applied \in [Nodes -> 0..Len(log)]
  BY DEF FrontInv, FrontType
<1>3. applied[n] + 1 \in 0..Len(log)
  BY <1>1, <1>2
<1>4. applied' \in [Nodes -> 0..Len(log)]
  BY <1>1, <1>2, <1>3
<1>5. FrontType'
  BY <1>1, <1>4 DEF FrontInv, FrontType, client
<1> QED
  BY <1>1, <1>5, SameClients, SameTries DEF FrontInv, client

LEMMA LoseInv ==
  ASSUME FrontInv, NEW p \in proposals, Lose(p)
  PROVE  FrontInv'
<1>1. UNCHANGED <<log, lead, hint, applied, tries, client>> /\ proposals' \subseteq proposals
  BY DEF Lose
<1>2. FrontType'
  BY <1>1 DEF FrontInv, FrontType, client
<1> QED
  BY <1>1, <1>2, SameClients, SameTries DEF FrontInv, client

\* The log grows: the first entry of a key stays its first.
LEMMA ChooseInv ==
  ASSUME FrontInv, NEW p \in proposals, Choose(p)
  PROVE  FrontInv'
<1>1. /\ UNCHANGED <<lead, hint, applied, tries, client>> /\ proposals' \subseteq proposals
      /\ log' = Append(log, p.cl)
  BY DEF Choose
<1>2. log \in Seq(Clients) /\ p.cl \in Clients /\ Len(log) \in Nat
  BY DEF FrontInv, FrontType
<1>3. log' \in Seq(Clients) /\ Len(log') = Len(log) + 1
  BY <1>1, <1>2
<1>4. 0..Len(log) \subseteq 0..Len(log')
  BY <1>2, <1>3
<1>5. FrontType'
  <2>1. applied' \in [Nodes -> 0..Len(log')]
    BY <1>1, <1>4 DEF FrontInv, FrontType
  <2> QED
    BY <1>1, <1>3, <2>1 DEF FrontInv, FrontType, client
<1>6. \A w, c, a : Told(log, w, c, a) => Told(log', w, c, a)
  BY <1>1, <1>2, ToldGrows
<1>7. \A s, k : IsFirst(log, s, k) => IsFirst(log', s, k) /\ log'[s] = log[s]
  BY <1>1, <1>2, FirstGrows
<1>8. TryInv'
  BY <1>1, <1>6, <1>7 DEF FrontInv, TryInv, LiveTry, AnsweredTry, ChildTry, client
<1>9. ClientInv'
  BY <1>1, <1>6, <1>7 DEF FrontInv, ClientInv, ClientOK, client
<1> QED
  BY <1>5, <1>8, <1>9 DEF FrontInv

LEMMA HearInv ==
  ASSUME FrontInv, NEW n \in Nodes, Hear(n)
  PROVE  FrontInv'
<1>1. /\ UNCHANGED <<log, proposals, lead, applied, client>>
      /\ hint' = [hint EXCEPT ![n] = lead]
      /\ tries' = [t \in Tries |-> IF tries[t].at = n /\ tries[t].st = "held"
                                   THEN [tries[t] EXCEPT !.st = "lost"] ELSE tries[t]]
  BY DEF Hear
<1>2. ASSUME NEW t \in Tries
      PROVE  /\ tries'[t] \in TryType
             /\ \/ tries'[t] = tries[t]
                \/ /\ tries'[t].cl = tries[t].cl /\ tries'[t].at = tries[t].at
                   /\ tries'[t].kind = tries[t].kind /\ tries'[t].ans = tries[t].ans
                   /\ tries'[t].parent = tries[t].parent
                   /\ tries'[t].forwarded = tries[t].forwarded
                   /\ tries[t].st = "held" /\ tries'[t].st = "lost"
  <2>1. tries[t] \in TryType
    BY DEF FrontInv, FrontType
  <2>2. CASE tries[t].at = n /\ tries[t].st = "held"
    <3>1. tries'[t] = [tries[t] EXCEPT !.st = "lost"]
      BY <1>1, <2>2
    <3> QED
      BY <2>1, <2>2, <3>1 DEF TryType, States
  <2>3. CASE ~ (tries[t].at = n /\ tries[t].st = "held")
    BY <1>1, <2>1, <2>3
  <2> QED
    BY <2>2, <2>3
<1>3. tries' \in [Tries -> TryType]
  <2>1. tries' = [t \in Tries |-> tries'[t]]
    BY <1>1
  <2> QED
    BY <1>2, <2>1
<1>4. written' = written
  BY <1>1 DEF client
<1>5. TryInv'
  BY <1>1, <1>2, <1>3, <1>4, MoveInv
<1>6. FrontType'
  BY <1>1, <1>3 DEF FrontInv, FrontType, client
<1> QED
  BY <1>1, <1>5, <1>6, SameClients DEF FrontInv, client

-----------------------------------------------------------------------------
(* Steps of one handler. *)

LEMMA LiveHandler ==
  ASSUME FrontInv, NEW t \in Tries, tries[t].st # "free"
  PROVE  /\ tries[t] \in TryType /\ tries[t].cl \in Clients /\ tries[t].at \in Nodes
         /\ tries[t].kind = "read" => written[tries[t].cl] # 0
         /\ After(t) \in {"free", "unlock"}
BY DEF FrontInv, FrontType, TryInv, LiveTry, After

LEMMA GotoInv ==
  ASSUME FrontInv, UNCHANGED <<log, lead, hint, applied, client>>,
         proposals' \subseteq [cl : Clients, by : Nodes],
         NEW t \in Tries, NEW st \in {"submit", "held"}, Goto(t, st),
         tries[t].st \notin {"free", "forwarding"}
  PROVE  FrontInv'
<1>1. tries' = [tries EXCEPT ![t] = [tries[t] EXCEPT !.st = st]]
  BY DEF Goto
<1>2. PICK d : d = [tries[t] EXCEPT !.st = st]
  OBVIOUS
<1>3. tries[t] \in TryType /\ tries \in [Tries -> TryType]
  BY DEF FrontInv, FrontType
<1>4. /\ d \in TryType /\ d.st = st /\ d.cl = tries[t].cl /\ d.at = tries[t].at
      /\ d.kind = tries[t].kind /\ d.ans = tries[t].ans /\ d.parent = tries[t].parent
      /\ d.forwarded = tries[t].forwarded
  BY <1>2, <1>3 DEF TryType, States
<1>5. /\ tries' \in [Tries -> TryType] /\ tries'[t] = d
      /\ \A u \in Tries : u # t => tries'[u] = tries[u]
  BY <1>1, <1>2, <1>3, <1>4
<1>6. written' = written
  BY DEF client
<1>7. TryInv'
  <2>1. st \notin {"free", "forwarding", "answer"}
    OBVIOUS
  <2> QED
    BY <1>4, <1>5, <1>6, <2>1, MoveInv
<1>8. FrontType'
  BY <1>5 DEF FrontInv, FrontType, client
<1> QED
  BY <1>7, <1>8, SameClients DEF FrontInv, client

\* The key of the command is recorded on the node: its first slot is found.
LEMMA FoundInv ==
  ASSUME FrontInv, UNCHANGED <<log, proposals, lead, hint, applied, client>>,
         NEW t \in Tries, tries[t].st \notin {"free", "forwarding"},
         Recorded(Key(t), tries[t].at),
         tries' = [tries EXCEPT ![t].st = "answer", ![t].slot = FirstSlot(Key(t), tries[t].at)]
  PROVE  FrontInv'
<1>1. tries[t] \in TryType /\ tries \in [Tries -> TryType] /\ tries[t].at \in Nodes
  BY LiveHandler DEF FrontInv, FrontType
<1>2. PICK s : s = FirstSlot(Key(t), tries[t].at)
  OBVIOUS
<1>3. IsFirst(log, s, KeyOf[tries[t].cl]) /\ s \in Nat
  BY <1>1, <1>2, FirstSlotIsFirst DEF FrontInv, Key
<1>4. PICK d : d = [tries[t] EXCEPT !.st = "answer", !.slot = s]
  OBVIOUS
<1>5. /\ d \in TryType /\ d.st = "answer" /\ d.cl = tries[t].cl /\ d.at = tries[t].at
      /\ d.kind = tries[t].kind /\ d.ans = tries[t].ans /\ d.parent = tries[t].parent
      /\ d.forwarded = tries[t].forwarded /\ d.slot = s
  BY <1>1, <1>3, <1>4 DEF TryType, States
<1>6. /\ tries' \in [Tries -> TryType] /\ tries'[t] = d
      /\ \A u \in Tries : u # t => tries'[u] = tries[u]
  BY <1>1, <1>2, <1>4, <1>5
<1>7. written' = written
  BY DEF client
<1>8. TryInv'
  BY <1>3, <1>5, <1>6, <1>7, MoveInv
<1>9. FrontType'
  BY <1>6 DEF FrontInv, FrontType, client
<1> QED
  BY <1>8, <1>9, SameClients DEF FrontInv, client

\* An answer that settles nothing.
LEMMA ReplyNothing ==
  ASSUME FrontInv, UNCHANGED <<log, proposals, lead, hint, applied>>,
         NEW t \in Tries, NEW code \in Codes \ {"result", "key_reused"},
         NEW st \in {"free", "unlock"}, Reply(t, Answer(code), st),
         tries[t].st \notin {"free", "forwarding"}
  PROVE  FrontInv'
<1>1. PICK a : a = Answer(code)
  OBVIOUS
<1>2. a \in AnswerType /\ a.code \notin {"result", "key_reused"}
  BY <1>1, AnswerFields
<1>3. Told(log, written[tries[t].cl], tries[t].cl, a)
  BY <1>2, ToldNothing
<1> QED
  BY <1>1, <1>2, <1>3, ReplyInv

LEMMA RedirectInv ==
  ASSUME FrontInv, UNCHANGED <<log, proposals, lead, hint, applied>>,
         NEW t \in Tries, NEW leader \in Nodes \cup {None},
         NEW st \in {"free", "unlock"}, Redirect(t, leader, st),
         tries[t].st \notin {"free", "forwarding"}
  PROVE  FrontInv'
<1>1. CASE leader \notin {None, tries[t].at}
  <2>1. PICK a : a = [Answer("redirect") EXCEPT !.to = leader]
    OBVIOUS
  <2>2. leader \in Nodes /\ "redirect" \in Codes
    BY <1>1 DEF Codes
  <2>3. a \in AnswerType /\ a.code = "redirect"
    BY <2>1, <2>2, AnswerFields
  <2>4. Reply(t, a, st)
    BY <1>1, <2>1 DEF Redirect
  <2>5. Told(log, written[tries[t].cl], tries[t].cl, a)
    BY <2>3, ToldNothing
  <2> QED
    BY <2>3, <2>4, <2>5, ReplyInv
<1>2. CASE leader \in {None, tries[t].at}
  <2>1. Reply(t, Answer("no_leader"), st)
    BY <1>2 DEF Redirect
  <2> QED
    BY <2>1, ReplyNothing DEF Codes
<1> QED
  BY <1>1, <1>2

LEMMA NewTryFields ==
  ASSUME NEW c \in Clients, NEW n \in Nodes, NEW kind \in {"command", "read"},
         NEW parent \in 0..MaxTries, NEW d, d = NewTry(c, n, kind, parent)
  PROVE  /\ d \in TryType /\ d.st = "new" /\ d.at = n /\ d.cl = c /\ d.kind = kind
         /\ d.forwarded = (parent # 0) /\ d.parent = parent /\ d.ans = NoAnswer
<1>1. d = [st |-> "new", at |-> n, cl |-> c, kind |-> kind, forwarded |-> (parent # 0),
           parent |-> parent, slot |-> 0, ans |-> NoAnswer]
  BY DEF NewTry, NoTry
<1>2. NoAnswer \in AnswerType
  BY DEF NoAnswer, AnswerType, Codes
<1>3. (parent # 0) \in BOOLEAN
  OBVIOUS
<1> QED
  BY <1>1, <1>2, <1>3 DEF TryType, States

\* A request sent on: the handler waits for the one it started, and for no
\* other.
LEMMA ForwardInv ==
  ASSUME FrontInv, UNCHANGED <<log, proposals, lead, hint, applied, client>>,
         NEW t \in Tries, tries[t].st \notin {"free", "forwarding"}, ~ tries[t].forwarded,
         NEW leader \in Nodes, NEW u \in Free,
         tries' = [tries EXCEPT ![t].st = "forwarding", ![t].ans = NoAnswer,
                      ![u] = NewTry(tries[t].cl, leader, tries[t].kind, t)]
  PROVE  FrontInv'
<1>1. /\ tries \in [Tries -> TryType] /\ tries[t] \in TryType /\ tries[t].cl \in Clients
      /\ tries[t].at \in Nodes
      /\ tries[t].kind = "read" => written[tries[t].cl] # 0
  BY LiveHandler DEF FrontInv, FrontType
<1>2. u \in Tries /\ u # t /\ tries[u].st = "free"
  BY NoTryType DEF Free
<1>3. PICK d, e : /\ d = [tries[t] EXCEPT !.st = "forwarding", !.ans = NoAnswer]
                  /\ e = NewTry(tries[t].cl, leader, tries[t].kind, t)
  OBVIOUS
<1>4. NoAnswer \in AnswerType /\ NoAnswer.code = "none"
  BY DEF NoAnswer, AnswerType, Codes
<1>5. /\ d \in TryType /\ d.st = "forwarding" /\ d.ans = NoAnswer /\ d.cl = tries[t].cl
      /\ d.at = tries[t].at /\ d.kind = tries[t].kind /\ d.parent = tries[t].parent
  BY <1>1, <1>3, <1>4 DEF TryType, States
<1>6. t \in 0..MaxTries /\ t # 0 /\ tries[t].kind \in {"command", "read"}
  BY <1>1, FrontAssumption DEF Tries, TryType
<1>7. /\ e \in TryType /\ e.st = "new" /\ e.at = leader /\ e.cl = tries[t].cl
      /\ e.kind = tries[t].kind /\ e.parent = t /\ e.ans = NoAnswer /\ e.forwarded = (t # 0)
  BY <1>1, <1>3, <1>6, NewTryFields
<1>8. e.forwarded
  BY <1>6, <1>7
<1>9. /\ tries' \in [Tries -> TryType] /\ tries'[t] = d /\ tries'[u] = e
      /\ \A v \in Tries : v # t /\ v # u => tries'[v] = tries[v]
  BY <1>1, <1>2, <1>3, <1>5, <1>7
<1>10. \A v \in Tries : LiveTry(v) /\ AnsweredTry(v) /\ ChildTry(v)
  BY DEF FrontInv, TryInv
<1>11. tries[t].parent = 0 /\ \A v \in Tries : tries[v].parent \notin {t, u}
  <2>1. tries[t].parent = 0
    BY <1>10 DEF ChildTry
  <2>2. ASSUME NEW v \in Tries, tries[v].parent \in {t, u} PROVE FALSE
    <3>1. tries[v].parent # 0
      BY <1>2, <2>2, FrontAssumption DEF Tries
    <3>2. tries[tries[v].parent].st = "forwarding"
      BY <1>10, <3>1 DEF ChildTry
    <3> QED
      BY <1>2, <2>2, <3>2
  <2> QED
    BY <2>1, <2>2
<1>12. written' = written /\ log' = log
  BY DEF client
<1>13. ASSUME NEW v \in Tries PROVE LiveTry(v)' /\ AnsweredTry(v)'
  <2>1. CASE v = t
    BY <1>1, <1>4, <1>5, <1>9, <1>12, <2>1 DEF LiveTry, AnsweredTry, Told
  <2>2. CASE v = u
    BY <1>1, <1>4, <1>7, <1>9, <1>12, <2>2 DEF LiveTry, AnsweredTry, Told
  <2>3. CASE v # t /\ v # u
    BY <1>9, <1>10, <1>12, <2>3 DEF LiveTry, AnsweredTry
  <2> QED
    BY <2>1, <2>2, <2>3
<1>14. ASSUME NEW v \in Tries PROVE ChildTry(v)'
  <2>1. CASE v = t
    BY <1>5, <1>9, <1>11, <2>1 DEF ChildTry
  <2>2. CASE v = u
    <3>1. \A x \in Tries : tries'[x].parent = t => x = u
      BY <1>5, <1>6, <1>9, <1>11
    <3> QED
      BY <1>5, <1>7, <1>8, <1>9, <2>2, <3>1 DEF ChildTry
  <2>3. CASE v # t /\ v # u /\ tries[v].parent = 0
    BY <1>9, <1>10, <2>3 DEF ChildTry
  <2>4. CASE v # t /\ v # u /\ tries[v].parent # 0
    <3>1. PICK p : p = tries[v].parent
      OBVIOUS
    <3>2. p \in Tries /\ p # t /\ p # u /\ p # 0
      BY <1>11, <2>4, <3>1, TryParent
    <3>3. /\ tries[p].st = "forwarding" /\ tries[p].ans = NoAnswer /\ tries[p].cl = tries[v].cl
          /\ tries[v].forwarded /\ \A x \in Tries : tries[x].parent = p => x = v
          /\ tries[v].st # "forwarding"
      BY <1>10, <2>4, <3>1 DEF ChildTry
    <3>4. tries'[p] = tries[p] /\ tries'[v] = tries[v]
      BY <1>9, <2>4, <3>2
    <3>5. \A x \in Tries : tries'[x].parent = p => x = v
      BY <1>5, <1>7, <1>9, <1>11, <3>2, <3>3
    <3> QED
      BY <3>1, <3>3, <3>4, <3>5 DEF ChildTry
  <2> QED
    BY <2>1, <2>2, <2>3, <2>4
<1>15. FrontType'
  BY <1>9 DEF FrontInv, FrontType, client
<1>16. ClientInv'
  BY SameClients
<1> QED
  BY <1>13, <1>14, <1>15, <1>16 DEF FrontInv, TryInv

LEMMA ForwardOrRefuseInv ==
  ASSUME FrontInv, UNCHANGED <<log, proposals, lead, hint, applied>>,
         NEW t \in Tries, tries[t].st \notin {"free", "forwarding"},
         NEW named \in Nodes \cup {None}, ForwardOrRefuse(t, named)
  PROVE  FrontInv'
<1>1. tries[t].at \in Nodes /\ After(t) \in {"free", "unlock"}
  BY LiveHandler
<1>2. PICK known : known = IF named = None THEN hint[tries[t].at] ELSE named
  OBVIOUS
<1>3. PICK leader : leader = IF known = tries[t].at THEN None ELSE known
  OBVIOUS
<1>4. leader \in Nodes \cup {None}
  BY <1>1, <1>2, <1>3 DEF FrontInv, FrontType
<1>5. CASE MayForward(t, leader)
  <2>1. leader \in Nodes /\ ~ tries[t].forwarded
    BY <1>4, <1>5 DEF MayForward
  <2>2. PICK u \in Free :
          tries' = [tries EXCEPT ![t].st = "forwarding", ![t].ans = NoAnswer,
                      ![u] = NewTry(tries[t].cl, leader, tries[t].kind, t)]
    BY <1>2, <1>3, <1>5 DEF ForwardOrRefuse
  <2>3. UNCHANGED client
    BY <1>2, <1>3, <1>5 DEF ForwardOrRefuse
  <2> QED
    BY <2>1, <2>2, <2>3, ForwardInv
<1>6. CASE ~ MayForward(t, leader)
  <2>1. Reply(t, Answer("not_leader"), After(t))
    BY <1>2, <1>3, <1>6 DEF ForwardOrRefuse
  <2> QED
    BY <1>1, <2>1, ReplyNothing DEF Codes
<1> QED
  BY <1>5, <1>6

LEMMA SendOnInv ==
  ASSUME FrontInv, UNCHANGED <<log, proposals, lead, hint, applied>>,
         NEW t \in Tries, tries[t].st \notin {"free", "forwarding"},
         NEW named \in Nodes \cup {None}, SendOn(t, named)
  PROVE  FrontInv'
<1>1. After(t) \in {"free", "unlock"}
  BY LiveHandler
<1> QED
  BY <1>1, ForwardOrRefuseInv, RedirectInv DEF SendOn

-----------------------------------------------------------------------------
(* The handlers. *)

LEMMA LockInv ==
  ASSUME FrontInv, UNCHANGED <<log, proposals, lead, hint, applied>>,
         NEW t \in Tries, tries[t].st = "new", Lock(t)
  PROVE  FrontInv'
<1>1. CASE Busy(t) /\ Reply(t, Answer("in_flight"), "free")
  BY <1>1, ReplyNothing DEF Codes
<1>2. CASE Goto(t, "submit") /\ UNCHANGED client
  <2>1. proposals' \subseteq [cl : Clients, by : Nodes]
    BY DEF FrontInv, FrontType
  <2> QED
    BY <1>2, <2>1, GotoInv
<1> QED
  BY <1>1, <1>2 DEF Lock

LEMMA BeginInv ==
  ASSUME FrontInv, NEW t \in Tries, BeginCommand(t) \/ BeginIntent(t) \/ Limited(t)
  PROVE  FrontInv'
<1>1. UNCHANGED <<log, proposals, lead, hint, applied>> /\ tries[t].st = "new"
  BY DEF BeginCommand, BeginIntent, Limited, cluster
<1>2. tries[t].at \in Nodes
  BY <1>1, LiveHandler
<1>3. hint[tries[t].at] \in Nodes \cup {None}
  BY <1>2 DEF FrontInv, FrontType
<1>4. CASE Lock(t)
  BY <1>1, <1>4, LockInv
<1>5. CASE Redirect(t, hint[tries[t].at], "free")
  BY <1>1, <1>3, <1>5, RedirectInv
<1>6. CASE Reply(t, Answer("unavailable"), "free") \/ Reply(t, Answer("rate_limited"), "free")
  BY <1>1, <1>6, ReplyNothing DEF Codes
<1> QED
  BY <1>4, <1>5, <1>6 DEF BeginCommand, BeginIntent, Limited

LEMMA SubmitInv ==
  ASSUME FrontInv, NEW t \in Tries, Submit(t)
  PROVE  FrontInv'
<1>1. UNCHANGED <<log, lead, hint, applied>> /\ tries[t].st = "submit"
  BY DEF Submit
<1>2. PICK n : n = tries[t].at
  OBVIOUS
<1>3. n \in Nodes /\ tries[t].cl \in Clients
  BY <1>1, <1>2, LiveHandler
<1>4. ASSUME Recorded(Key(t), n), UNCHANGED <<proposals, client>>,
             tries' = [tries EXCEPT ![t].st = "answer", ![t].slot = FirstSlot(Key(t), n)]
      PROVE  FrontInv'
  BY <1>1, <1>2, <1>4, FoundInv
<1>5. ASSUME proposals' = proposals \cup {[cl |-> tries[t].cl, by |-> n]}, Goto(t, "held"),
             UNCHANGED client
      PROVE  FrontInv'
  <2>1. proposals' \subseteq [cl : Clients, by : Nodes]
    BY <1>3, <1>5 DEF FrontInv, FrontType
  <2> QED
    BY <1>1, <1>5, <2>1, GotoInv
<1>6. ASSUME SendOn(t, hint[n]), UNCHANGED proposals PROVE FrontInv'
  <2>1. hint[n] \in Nodes \cup {None}
    BY <1>3 DEF FrontInv, FrontType
  <2> QED
    BY <1>1, <1>6, <2>1, SendOnInv
<1> QED
  BY <1>2, <1>4, <1>5, <1>6 DEF Submit

LEMMA ResolveInv ==
  ASSUME FrontInv, NEW t \in Tries, Resolve(t)
  PROVE  FrontInv'
BY FoundInv DEF Resolve, cluster

LEMMA LostInv ==
  ASSUME FrontInv, NEW t \in Tries, LeadershipLost(t)
  PROVE  FrontInv'
<1>1. UNCHANGED <<log, proposals, lead, hint, applied>> /\ tries[t].st = "lost"
  BY DEF LeadershipLost, cluster
<1>2. tries[t].at \in Nodes
  BY <1>1, LiveHandler
<1>3. hint[tries[t].at] \in Nodes \cup {None}
  BY <1>2 DEF FrontInv, FrontType
<1> QED
  BY <1>1, <1>3, SendOnInv DEF LeadershipLost

LEMMA UnknownInv ==
  ASSUME FrontInv, NEW t \in Tries,
         Refused(t) \/ TimesOut(t) \/ ViewFails(t) \/ ReadTimesOut(t)
  PROVE  FrontInv'
<1>1. UNCHANGED <<log, proposals, lead, hint, applied>> /\ tries[t].st \notin {"free", "forwarding"}
  BY DEF Refused, TimesOut, ViewFails, ReadTimesOut, cluster
<1>2. \/ Reply(t, Answer("unavailable"), "unlock")
      \/ Reply(t, Answer("outcome_unknown"), "unlock")
      \/ Reply(t, Answer("outcome_unknown"), "free")
  BY DEF Refused, TimesOut, ViewFails, ReadTimesOut
<1> QED
  BY <1>1, <1>2, ReplyNothing DEF Codes

\* The result of the first entry with the key is the outcome of the command.
LEMMA WriteResultInv ==
  ASSUME FrontInv, NEW t \in Tries, WriteResult(t)
  PROVE  FrontInv'
<1>1. UNCHANGED <<log, proposals, lead, hint, applied>> /\ tries[t].st = "answer"
      /\ Reply(t, Result(t), "unlock")
  BY DEF WriteResult, cluster
<1>2. PICK c, s : c = tries[t].cl /\ s = tries[t].slot
  OBVIOUS
<1>3. c \in Clients /\ s \in Nat /\ IsFirst(log, s, KeyOf[c])
  <2>1. tries[t] \in TryType /\ c \in Clients
    BY <1>1, <1>2, LiveHandler
  <2>2. s \in Nat
    BY <1>2, <2>1 DEF TryType
  <2> QED
    BY <1>1, <1>2, <2>1, <2>2 DEF FrontInv, TryInv, AnsweredTry
<1>4. PICK a : a = Result(t)
  OBVIOUS
<1>5. a \in AnswerType /\ Told(log, written[c], c, a)
  <2>1. CASE BodyOf[log[s]] = BodyOf[c]
    <3>1. a = [Answer("result") EXCEPT !.slot = s]
      BY <1>2, <1>4, <2>1 DEF Result
    <3>2. a \in AnswerType /\ a.code = "result" /\ a.slot = s
      BY <1>3, <3>1, AnswerFields DEF Codes
    <3>3. CASE written[c] = 0
      BY <1>3, <2>1, <3>2, <3>3 DEF Told
    <3>4. CASE written[c] # 0
      <4>1. IsFirst(log, written[c], KeyOf[c]) /\ log \in Seq(Clients)
        BY <1>3, <3>4 DEF FrontInv, FrontType, ClientInv, ClientOK
      <4>2. written[c] = s
        BY <1>3, <4>1, OneFirst
      <4>3. written[c] <= s
        BY <1>3, <4>2
      <4> QED
        BY <3>2, <3>4, <4>3 DEF Told
    <3> QED
      BY <3>2, <3>3, <3>4
  <2>2. CASE BodyOf[log[s]] # BodyOf[c]
    <3>1. a = Answer("key_reused")
      BY <1>2, <1>4, <2>2 DEF Result
    <3>2. a \in AnswerType /\ a.code = "key_reused"
      BY <3>1, AnswerFields DEF Codes
    <3>3. s \in 1..Len(log)
      BY <1>3 DEF IsFirst
    <3> QED
      BY <1>3, <2>2, <3>2, <3>3 DEF Told
  <2> QED
    BY <2>1, <2>2
<1> QED
  BY <1>1, <1>2, <1>4, <1>5, ReplyInv

\* The answer of the replica a request was forwarded to is passed on.
LEMMA RelayInv ==
  ASSUME FrontInv, NEW t \in Tries, Relay(t)
  PROVE  FrontInv'
<1>1. UNCHANGED <<log, proposals, lead, hint, applied>> /\ tries[t].st = "forwarding"
      /\ tries[t].ans # NoAnswer /\ Reply(t, tries[t].ans, After(t))
  BY DEF Relay, cluster
<1>2. tries[t] \in TryType /\ tries[t].cl \in Clients /\ After(t) \in {"free", "unlock"}
  BY <1>1, LiveHandler
<1>3. PICK a, st : a = tries[t].ans /\ st = After(t)
  OBVIOUS
<1>4. a \in AnswerType
  BY <1>2, <1>3 DEF TryType
<1>5. Told(log, written[tries[t].cl], tries[t].cl, a)
  BY <1>2, <1>3 DEF FrontInv, TryInv, AnsweredTry
<1> QED
  BY <1>1, <1>2, <1>3, <1>4, <1>5, ReplyInv

\* A read is answered with a state that has the client's command.
LEMMA ReadInv ==
  ASSUME FrontInv, NEW t \in Tries, ReadAfterSlot(t) \/ Behind(t) \/ ConsistentRead(t)
  PROVE  FrontInv'
<1>1. UNCHANGED <<log, proposals, lead, hint, applied>> /\ tries[t].st = "new"
      /\ tries[t].kind = "read"
  BY DEF ReadAfterSlot, Behind, ConsistentRead, cluster
<1>2. PICK n, c : n = tries[t].at /\ c = tries[t].cl
  OBVIOUS
<1>3. n \in Nodes /\ c \in Clients /\ written[c] # 0 /\ tries[t] \in TryType
  BY <1>1, <1>2, LiveHandler
<1>4. hint[n] \in Nodes \cup {None} /\ applied[n] \in Nat /\ Len(log) \in Nat /\ written[c] \in Nat
  BY <1>3 DEF FrontInv, FrontType
<1>5. ASSUME Reply(t, [Answer("result") EXCEPT !.slot = applied[n]], "free"),
             written[c] <= applied[n]
      PROVE  FrontInv'
  <2>1. PICK a : a = [Answer("result") EXCEPT !.slot = applied[n]]
    OBVIOUS
  <2>2. a \in AnswerType /\ a.code = "result" /\ a.slot = applied[n]
    BY <1>4, <2>1, AnswerFields DEF Codes
  <2>3. Told(log, written[c], c, a)
    BY <1>3, <1>5, <2>2 DEF Told
  <2> QED
    BY <1>1, <1>2, <1>5, <2>1, <2>2, <2>3, ReplyInv
<1>6. CASE ReadAfterSlot(t)
  <2>1. written[c] <= applied[n]
    BY <1>2, <1>4, <1>6 DEF ReadAfterSlot, Reached
  <2> QED
    BY <1>2, <1>5, <1>6, <2>1 DEF ReadAfterSlot
<1>7. CASE Behind(t)
  <2>1. CASE role[n] # "leader" /\ hint[n] \notin {None, n}
    <3>1. PICK a : a = [Answer("redirect") EXCEPT !.to = hint[n]]
      OBVIOUS
    <3>2. hint[n] \in Nodes
      BY <1>4, <2>1
    <3>3. a \in AnswerType /\ a.code = "redirect"
      BY <3>1, <3>2, AnswerFields DEF Codes
    <3>4. Reply(t, a, "free")
      BY <1>2, <1>7, <2>1, <3>1 DEF Behind
    <3>5. Told(log, written[tries[t].cl], tries[t].cl, a)
      BY <3>3, ToldNothing
    <3> QED
      BY <1>1, <3>3, <3>4, <3>5, ReplyInv
  <2>2. CASE ~ (role[n] # "leader" /\ hint[n] \notin {None, n})
    <3>1. Reply(t, Answer("replica_behind"), "free")
      BY <1>2, <1>7, <2>2 DEF Behind
    <3> QED
      BY <1>1, <3>1, ReplyNothing DEF Codes
  <2> QED
    BY <2>1, <2>2
<1>8. CASE ConsistentRead(t)
  <2>1. ASSUME applied[n] = Len(log), Reply(t, [Answer("result") EXCEPT !.slot = applied[n]], "free")
        PROVE  FrontInv'
    <3>1. written[c] \in 1..Len(log)
      BY <1>3 DEF FrontInv, ClientInv, ClientOK, IsFirst
    <3>2. written[c] <= applied[n]
      BY <1>4, <2>1, <3>1
    <3> QED
      BY <1>5, <2>1, <3>2
  <2>2. ASSUME Reply(t, Answer("not_ready"), "free") PROVE FrontInv'
    BY <1>1, <2>2, ReplyNothing DEF Codes
  <2>3. ASSUME ForwardOrRefuse(t, hint[n]) PROVE FrontInv'
    BY <1>1, <1>4, <2>3, ForwardOrRefuseInv
  <2> QED
    BY <1>2, <1>8, <2>1, <2>2, <2>3 DEF ConsistentRead
<1> QED
  BY <1>6, <1>7, <1>8

\* A request whose handler returns, or a new one in a free place.
LEMMA ReplaceInv ==
  ASSUME FrontInv, UNCHANGED <<log, written>>, NEW t \in Tries, tries[t].st # "forwarding",
         NEW d \in TryType, tries' = [tries EXCEPT ![t] = d],
         d.st \in {"free", "new"}, d.parent = 0, d.ans = NoAnswer,
         d.st = "new" => d.cl \in Clients /\ d.at \in Nodes /\ (d.kind = "read" => written[d.cl] # 0)
  PROVE  tries' \in [Tries -> TryType] /\ TryInv'
<1>1. tries \in [Tries -> TryType] /\ \A v \in Tries : LiveTry(v) /\ AnsweredTry(v) /\ ChildTry(v)
  BY DEF FrontInv, FrontType, TryInv
<1>2. tries' \in [Tries -> TryType] /\ tries'[t] = d /\ \A v \in Tries : v # t => tries'[v] = tries[v]
  BY <1>1
<1>3. NoAnswer.code = "none"
  BY DEF NoAnswer
<1>4. ASSUME NEW v \in Tries PROVE LiveTry(v)' /\ AnsweredTry(v)'
  <2>1. CASE v = t
    BY <1>2, <1>3, <2>1 DEF LiveTry, AnsweredTry, Told
  <2>2. CASE v # t
    BY <1>1, <1>2, <2>2 DEF LiveTry, AnsweredTry
  <2> QED
    BY <2>1, <2>2
<1>5. ASSUME NEW v \in Tries PROVE ChildTry(v)'
  <2>1. CASE v = t
    BY <1>2, <2>1 DEF ChildTry
  <2>2. CASE v # t /\ tries[v].parent = 0
    BY <1>1, <1>2, <2>2 DEF ChildTry
  <2>3. CASE v # t /\ tries[v].parent # 0
    <3>1. PICK p : p = tries[v].parent
      OBVIOUS
    <3>2. /\ tries[p].st = "forwarding" /\ tries[p].ans = NoAnswer /\ tries[p].cl = tries[v].cl
          /\ tries[v].forwarded /\ \A x \in Tries : tries[x].parent = p => x = v
          /\ tries[v].st # "forwarding"
      BY <1>1, <2>3, <3>1 DEF ChildTry
    <3>3. p \in Tries /\ p # t /\ p # 0
      BY <2>3, <3>1, <3>2, TryParent
    <3>4. tries'[p] = tries[p] /\ tries'[v] = tries[v]
      BY <1>2, <2>3, <3>3
    <3>5. \A x \in Tries : tries'[x].parent = p => x = v
      BY <1>2, <3>2, <3>3
    <3> QED
      BY <3>1, <3>2, <3>4, <3>5 DEF ChildTry
  <2> QED
    BY <2>1, <2>2, <2>3
<1> QED
  BY <1>2, <1>4, <1>5 DEF TryInv

LEMMA UnlockInv ==
  ASSUME FrontInv, NEW t \in Tries, Unlock(t)
  PROVE  FrontInv'
<1>1. UNCHANGED <<log, proposals, lead, hint, applied, client, written>> /\ tries[t].st = "unlock"
      /\ tries' = [tries EXCEPT ![t] = NoTry]
  BY DEF Unlock, cluster, client
<1>2. tries' \in [Tries -> TryType] /\ TryInv'
  BY <1>1, NoTryType, ReplaceInv
<1>3. FrontType'
  BY <1>1, <1>2 DEF FrontInv, FrontType, client
<1> QED
  BY <1>1, <1>2, <1>3, SameClients DEF FrontInv

\* The handler gives up the request it forwarded, which goes on by itself.
LEMMA ForwardFailsInv ==
  ASSUME FrontInv, NEW t \in Tries, ForwardFails(t)
  PROVE  FrontInv'
<1>1. UNCHANGED <<log, proposals, lead, hint, applied, at, call, written, seen, finished>>
      /\ tries[t].st = "forwarding" /\ tries[t].ans = NoAnswer
  BY DEF ForwardFails, cluster
<1>2. PICK c : c = tries[t].cl
  OBVIOUS
<1>3. /\ tries \in [Tries -> TryType] /\ tries[t] \in TryType /\ c \in Clients
      /\ tries[t].at \in Nodes /\ After(t) \in {"free", "unlock"}
      /\ tries[t].kind = "read" => written[c] # 0
  BY <1>1, <1>2, LiveHandler DEF FrontInv, FrontType
<1>4. PICK d : d = IF After(t) = "free" THEN NoTry ELSE [tries[t] EXCEPT !.st = After(t)]
  OBVIOUS
<1>5. /\ tries' = [u \in Tries |-> IF u = t THEN d
                                   ELSE IF tries[u].parent = t THEN [tries[u] EXCEPT !.parent = 0]
                                   ELSE tries[u]]
      /\ resp' = IF call[c] = t THEN [resp EXCEPT ![c] = Answer("forward_failed")] ELSE resp
  BY <1>2, <1>4 DEF ForwardFails
<1>6. \A u \in Tries : LiveTry(u) /\ AnsweredTry(u) /\ ChildTry(u)
  BY DEF FrontInv, TryInv
<1>7. tries[t].parent = 0 /\ t # 0 /\ NoAnswer.code = "none"
  BY <1>1, <1>6, FrontAssumption DEF ChildTry, Tries, NoAnswer
<1>8. /\ d \in TryType /\ d.parent = 0 /\ d.ans = NoAnswer /\ d.st \in {"free", "unlock"}
      /\ d.st = "unlock" => d.cl = c /\ d.at = tries[t].at /\ d.kind = tries[t].kind
  <2>1. CASE After(t) = "free"
    BY <1>4, <2>1, NoTryType
  <2>2. CASE After(t) = "unlock"
    <3>1. d = [tries[t] EXCEPT !.st = "unlock"]
      BY <1>4, <2>2
    <3> QED
      BY <1>1, <1>2, <1>3, <1>7, <3>1 DEF TryType, States
  <2> QED
    BY <1>3, <2>1, <2>2
<1>9. ASSUME NEW u \in Tries, u # t
      PROVE  /\ tries'[u] \in TryType
             /\ tries'[u].parent = IF tries[u].parent = t THEN 0 ELSE tries[u].parent
             /\ tries'[u].st = tries[u].st /\ tries'[u].cl = tries[u].cl
             /\ tries'[u].at = tries[u].at /\ tries'[u].kind = tries[u].kind
             /\ tries'[u].forwarded = tries[u].forwarded /\ tries'[u].slot = tries[u].slot
             /\ tries'[u].ans = tries[u].ans
  <2>1. tries[u] \in TryType /\ 0 \in 0..MaxTries
    BY <1>3, FrontAssumption
  <2>2. CASE tries[u].parent = t
    <3>1. tries'[u] = [tries[u] EXCEPT !.parent = 0]
      BY <1>5, <1>9, <2>2
    <3> QED
      BY <2>1, <2>2, <3>1 DEF TryType
  <2>3. CASE tries[u].parent # t
    <3>1. tries'[u] = tries[u]
      BY <1>5, <1>9, <2>3
    <3> QED
      BY <2>1, <2>3, <3>1
  <2> QED
    BY <2>2, <2>3
<1>10. tries'[t] = d
  BY <1>5
<1>11. tries' \in [Tries -> TryType]
  <2>1. \A u \in Tries : tries'[u] \in TryType
    BY <1>8, <1>9, <1>10
  <2>2. tries' = [u \in Tries |-> tries'[u]]
    BY <1>5
  <2> QED
    BY <2>1, <2>2
<1>12. ASSUME NEW u \in Tries PROVE LiveTry(u)' /\ AnsweredTry(u)'
  <2>1. CASE u = t
    BY <1>1, <1>3, <1>7, <1>8, <1>10, <2>1 DEF LiveTry, AnsweredTry, Told
  <2>2. CASE u # t
    BY <1>1, <1>6, <1>9, <2>2 DEF LiveTry, AnsweredTry
  <2> QED
    BY <2>1, <2>2
<1>13. ASSUME NEW u \in Tries PROVE ChildTry(u)'
  <2>1. CASE u = t
    BY <1>8, <1>10, <2>1 DEF ChildTry
  <2>2. CASE u # t /\ tries[u].parent \in {0, t}
    <3>1. tries'[u].parent = 0
      BY <1>9, <2>2
    <3> QED
      BY <3>1 DEF ChildTry
  <2>3. CASE u # t /\ tries[u].parent \notin {0, t}
    <3>1. PICK p : p = tries[u].parent
      OBVIOUS
    <3>2. p \in Tries /\ p # t /\ p # 0
      BY <2>3, <3>1, TryParent
    <3>3. /\ tries[p].st = "forwarding" /\ tries[p].ans = NoAnswer /\ tries[p].cl = tries[u].cl
          /\ tries[u].forwarded /\ \A v \in Tries : tries[v].parent = p => v = u
          /\ tries[u].st # "forwarding"
      BY <1>6, <2>3, <3>1 DEF ChildTry
    <3>4. tries'[p].st = "forwarding" /\ tries'[p].ans = NoAnswer /\ tries'[p].cl = tries[u].cl
      BY <1>9, <3>2, <3>3
    <3>5. \A v \in Tries : tries'[v].parent = p => v = u
      BY <1>8, <1>9, <1>10, <3>2, <3>3
    <3>6. tries'[u].forwarded
      BY <1>9, <2>3, <3>3
    <3>7. tries'[u].parent = p /\ tries'[u].st # "forwarding" /\ tries'[u].cl = tries[u].cl
      BY <1>9, <2>3, <3>1, <3>3
    <3> QED
      BY <3>4, <3>5, <3>6, <3>7 DEF ChildTry
  <2> QED
    BY <2>1, <2>2, <2>3
<1>14. PICK a : a = Answer("forward_failed")
  OBVIOUS
<1>15. a \in AnswerType /\ a.code = "forward_failed"
  BY <1>14, AnswerFields DEF Codes
<1>16. FrontType'
  <2>1. resp' \in [Clients -> AnswerType]
    BY <1>3, <1>5, <1>14, <1>15 DEF FrontInv, FrontType
  <2> QED
    BY <1>1, <1>11, <2>1 DEF FrontInv, FrontType
<1>17. ASSUME NEW e \in Clients PROVE ClientOK(e)'
  <2>1. ClientOK(e)
    BY DEF FrontInv, ClientInv
  <2>2. CASE call[c] = t /\ e = c
    <3>1. resp'[e] = a /\ call[e] # 0
      BY <1>3, <1>5, <1>7, <1>14, <2>2 DEF FrontInv, FrontType
    <3>2. Told(log, written[e], e, a)
      BY <1>15, ToldNothing
    <3> QED
      BY <1>1, <2>1, <3>1, <3>2 DEF ClientOK
  <2>3. CASE ~ (call[c] = t /\ e = c)
    <3>1. resp'[e] = resp[e]
      BY <1>3, <1>5, <2>3 DEF FrontInv, FrontType
    <3> QED
      BY <1>1, <2>1, <3>1 DEF ClientOK
  <2> QED
    BY <2>2, <2>3
<1> QED
  BY <1>12, <1>13, <1>16, <1>17 DEF FrontInv, TryInv, ClientInv

-----------------------------------------------------------------------------
(* The clients, and crashes. *)

LEMMA SendInv ==
  ASSUME FrontInv, NEW c \in Clients, Send(c)
  PROVE  FrontInv'
<1>1. UNCHANGED <<log, proposals, lead, hint, applied, at, resp, written, seen, finished>>
      /\ c \notin finished
  BY DEF Send, cluster
<1>2. PICK t \in Free : tries' = [tries EXCEPT ![t] = NewTry(c, at[c], Kind(c), 0)]
                        /\ call' = [call EXCEPT ![c] = t]
  BY DEF Send
<1>3. t \in Tries /\ tries[t].st = "free" /\ t \in 0..MaxTries /\ t # 0 /\ 0 \in 0..MaxTries
  BY NoTryType, FrontAssumption DEF Free, Tries
<1>4. PICK d : d = NewTry(c, at[c], Kind(c), 0)
  OBVIOUS
<1>5. at[c] \in Nodes /\ Kind(c) \in {"command", "read"} /\ (Kind(c) = "read" => written[c] # 0)
  BY DEF FrontInv, FrontType, Kind
<1>6. /\ d \in TryType /\ d.st = "new" /\ d.at = at[c] /\ d.cl = c /\ d.kind = Kind(c)
      /\ d.parent = 0 /\ d.ans = NoAnswer
  BY <1>3, <1>4, <1>5, NewTryFields
<1>7. tries' = [tries EXCEPT ![t] = d]
  BY <1>2, <1>4
<1>8. tries' \in [Tries -> TryType] /\ TryInv'
  BY <1>1, <1>3, <1>5, <1>6, <1>7, ReplaceInv
<1>9. FrontType'
  <2>1. call' \in [Clients -> 0..MaxTries]
    BY <1>2, <1>3 DEF FrontInv, FrontType
  <2> QED
    BY <1>1, <1>8, <2>1 DEF FrontInv, FrontType
<1>10. ASSUME NEW e \in Clients PROVE ClientOK(e)'
  <2>1. ClientOK(e)
    BY DEF FrontInv, ClientInv
  <2>2. CASE e = c
    <3>1. call'[e] # 0
      BY <1>2, <1>3, <2>2 DEF FrontInv, FrontType
    <3> QED
      BY <1>1, <2>1, <2>2, <3>1 DEF ClientOK
  <2>3. CASE e # c
    <3>1. call'[e] = call[e]
      BY <1>2, <2>3 DEF FrontInv, FrontType
    <3> QED
      BY <1>1, <2>1, <3>1 DEF ClientOK
  <2> QED
    BY <2>2, <2>3
<1> QED
  BY <1>8, <1>9, <1>10 DEF FrontInv, ClientInv

\* The client has looked at its answer, or given up: it waits for nothing.
LEMMA IdleClients ==
  ASSUME FrontInv, NEW c \in Clients,
         resp' = [resp EXCEPT ![c] = NoAnswer], call' = [call EXCEPT ![c] = 0]
  PROVE  /\ resp' \in [Clients -> AnswerType] /\ call' \in [Clients -> 0..MaxTries]
         /\ resp'[c] = NoAnswer /\ call'[c] = 0 /\ NoAnswer.code = "none"
         /\ \A e \in Clients \ {c} : resp'[e] = resp[e] /\ call'[e] = call[e]
<1>1. NoAnswer \in AnswerType /\ NoAnswer.code = "none" /\ 0 \in 0..MaxTries
  BY FrontAssumption DEF NoAnswer, AnswerType, Codes
<1> QED
  BY <1>1 DEF FrontInv, FrontType

LEMMA GiveUpInv ==
  ASSUME FrontInv, NEW c \in Clients, GiveUp(c)
  PROVE  FrontInv'
<1>1. /\ UNCHANGED <<log, proposals, lead, hint, applied, tries, written, seen, finished>>
      /\ resp' = [resp EXCEPT ![c] = NoAnswer] /\ call' = [call EXCEPT ![c] = 0]
      /\ \E n \in Nodes : at' = [at EXCEPT ![c] = n]
  BY DEF GiveUp, cluster
<1>2. /\ resp' \in [Clients -> AnswerType] /\ call' \in [Clients -> 0..MaxTries]
      /\ resp'[c] = NoAnswer /\ call'[c] = 0 /\ NoAnswer.code = "none"
      /\ \A e \in Clients \ {c} : resp'[e] = resp[e] /\ call'[e] = call[e]
  BY <1>1, IdleClients
<1>3. FrontType'
  <2>1. at' \in [Clients -> Nodes]
    BY <1>1 DEF FrontInv, FrontType
  <2> QED
    BY <1>1, <1>2, <2>1 DEF FrontInv, FrontType
<1>4. ASSUME NEW e \in Clients PROVE ClientOK(e)'
  <2>1. ClientOK(e)
    BY DEF FrontInv, ClientInv
  <2>2. CASE e = c
    BY <1>1, <1>2, <2>1, <2>2 DEF ClientOK, Told
  <2>3. CASE e # c
    BY <1>1, <1>2, <2>1, <2>3 DEF ClientOK
  <2> QED
    BY <2>2, <2>3
<1> QED
  BY <1>1, <1>3, <1>4, SameTries DEF FrontInv, ClientInv

\* A client learns the slot of its command once, and its answers stay right.
LEMMA LookInv ==
  ASSUME FrontInv, NEW c \in Clients, Look(c)
  PROVE  FrontInv'
<1>1. PICK a : a = resp[c]
  OBVIOUS
<1>2. /\ UNCHANGED <<log, proposals, lead, hint, applied, tries>> /\ a # NoAnswer
      /\ resp' = [resp EXCEPT ![c] = NoAnswer] /\ call' = [call EXCEPT ![c] = 0]
  BY <1>1 DEF Look, cluster
<1>3. /\ resp' \in [Clients -> AnswerType] /\ call' \in [Clients -> 0..MaxTries]
      /\ resp'[c] = NoAnswer /\ call'[c] = 0 /\ NoAnswer.code = "none"
      /\ \A e \in Clients \ {c} : resp'[e] = resp[e] /\ call'[e] = call[e]
  BY <1>2, IdleClients
<1>4. \A e \in Clients : ClientOK(e)
  BY DEF FrontInv, ClientInv
<1>5. /\ Told(log, written[c], c, a) /\ c \notin finished /\ a \in AnswerType
      /\ at \in [Clients -> Nodes] /\ written \in [Clients -> Nat] /\ seen \in [Clients -> Nat]
      /\ finished \subseteq Clients /\ log \in Seq(Clients)
  BY <1>1, <1>2, <1>4 DEF ClientOK, FrontInv, FrontType
<1>6. ASSUME a.code = "result", Kind(c) = "command", written' = [written EXCEPT ![c] = a.slot],
             \E n \in Nodes : at' = [at EXCEPT ![c] = n], UNCHANGED <<seen, finished>>
      PROVE  FrontInv'
  <2>1. written[c] = 0
    BY <1>6 DEF Kind
  <2>2. IsFirst(log, a.slot, KeyOf[c]) /\ BodyOf[log[a.slot]] = BodyOf[c]
    BY <1>5, <1>6, <2>1 DEF Told
  <2>3. a.slot \in 1..Len(log) /\ Len(log) \in Nat
    BY <1>5, <2>2 DEF IsFirst
  <2>4. a.slot \in Nat /\ a.slot # 0
    BY <2>3
  <2>5. written' \in [Clients -> Nat] /\ written'[c] = a.slot
        /\ \A e \in Clients \ {c} : written'[e] = written[e]
    BY <1>5, <1>6, <2>4
  <2>6. FrontType'
    <3>1. at' \in [Clients -> Nodes]
      BY <1>5, <1>6
    <3> QED
      BY <1>2, <1>3, <1>6, <2>5, <3>1 DEF FrontInv, FrontType
  <2>7. ASSUME NEW b, Told(log, written[c], c, b) PROVE Told(log, written'[c], c, b)
    BY <1>5, <2>1, <2>2, <2>5, <2>7, ToldKnows
  <2>8. ASSUME NEW e \in Clients PROVE ClientOK(e)'
    <3>1. CASE e = c
      BY <1>2, <1>3, <1>5, <1>6, <2>2, <2>5, <3>1 DEF ClientOK, Told
    <3>2. CASE e # c
      BY <1>2, <1>3, <1>4, <1>6, <2>5, <3>2 DEF ClientOK
    <3> QED
      BY <3>1, <3>2
  <2>9. ASSUME NEW t \in Tries PROVE LiveTry(t)' /\ AnsweredTry(t)' /\ ChildTry(t)'
    <3>1. LiveTry(t) /\ AnsweredTry(t) /\ ChildTry(t)
      BY DEF FrontInv, TryInv
    <3>2. \A e \in Clients : written[e] # 0 => written'[e] # 0
      BY <2>4, <2>5
    <3>3. LiveTry(t)' /\ ChildTry(t)'
      BY <1>2, <3>1, <3>2 DEF LiveTry, ChildTry
    <3>4. AnsweredTry(t)'
      <4>1. ASSUME tries[t].cl \in Clients
            PROVE  Told(log, written'[tries[t].cl], tries[t].cl, tries[t].ans)
        <5>1. Told(log, written[tries[t].cl], tries[t].cl, tries[t].ans)
          BY <3>1, <4>1 DEF AnsweredTry
        <5>2. CASE tries[t].cl = c
          BY <2>7, <5>1, <5>2
        <5>3. CASE tries[t].cl # c
          BY <2>5, <4>1, <5>1, <5>3
        <5> QED
          BY <5>2, <5>3
      <4> QED
        BY <1>2, <3>1, <4>1 DEF AnsweredTry
    <3> QED
      BY <3>3, <3>4
  <2> QED
    BY <2>6, <2>8, <2>9 DEF FrontInv, TryInv, ClientInv
<1>7. ASSUME a.code = "result", Kind(c) = "read", seen' = [seen EXCEPT ![c] = a.slot],
             finished' = finished \cup {c}, UNCHANGED <<at, written>>
      PROVE  FrontInv'
  <2>1. written[c] # 0
    BY <1>7 DEF Kind
  <2>2. written[c] <= a.slot
    BY <1>5, <1>7, <2>1 DEF Told
  <2>3. a.slot \in Nat
    BY <1>5 DEF AnswerType
  <2>4. seen' \in [Clients -> Nat] /\ seen'[c] = a.slot /\ \A e \in Clients \ {c} : seen'[e] = seen[e]
    BY <1>5, <1>7, <2>3
  <2>5. FrontType'
    BY <1>2, <1>3, <1>5, <1>7, <2>4 DEF FrontInv, FrontType
  <2>6. ASSUME NEW e \in Clients PROVE ClientOK(e)'
    <3>1. CASE e = c
      BY <1>2, <1>3, <1>4, <1>7, <2>2, <2>4, <3>1 DEF ClientOK, Told
    <3>2. CASE e # c
      BY <1>2, <1>3, <1>4, <1>7, <2>4, <3>2 DEF ClientOK
    <3> QED
      BY <3>1, <3>2
  <2> QED
    BY <1>2, <1>7, <2>5, <2>6, SameTries DEF FrontInv, ClientInv
<1>8. ASSUME a.code = "key_reused", finished' = finished \cup {c}, UNCHANGED <<at, written, seen>>
      PROVE  FrontInv'
  <2>1. written[c] = 0
    <3> SUFFICES ASSUME written[c] # 0 PROVE FALSE
      OBVIOUS
    <3>1. IsFirst(log, written[c], KeyOf[c]) /\ BodyOf[log[written[c]]] = BodyOf[c]
      BY <1>4 DEF ClientOK
    <3>2. PICK s \in 1..Len(log) : IsFirst(log, s, KeyOf[c]) /\ BodyOf[log[s]] # BodyOf[c]
      BY <1>5, <1>8 DEF Told
    <3>3. s = written[c]
      BY <1>5, <3>1, <3>2, OneFirst
    <3> QED
      BY <3>1, <3>2, <3>3
  <2>2. FrontType'
    BY <1>2, <1>3, <1>5, <1>8 DEF FrontInv, FrontType
  <2>3. ASSUME NEW e \in Clients PROVE ClientOK(e)'
    <3>1. CASE e = c
      BY <1>2, <1>3, <1>4, <1>8, <2>1, <3>1 DEF ClientOK, Told
    <3>2. CASE e # c
      BY <1>2, <1>3, <1>4, <1>8, <3>2 DEF ClientOK
    <3> QED
      BY <3>1, <3>2
  <2> QED
    BY <1>2, <1>8, <2>2, <2>3, SameTries DEF FrontInv, ClientInv
<1>9. ASSUME \E n \in Nodes : at' = [at EXCEPT ![c] = n], UNCHANGED <<written, seen, finished>>
      PROVE  FrontInv'
  <2>1. FrontType'
    <3>1. at' \in [Clients -> Nodes]
      BY <1>5, <1>9
    <3> QED
      BY <1>2, <1>3, <1>9, <3>1 DEF FrontInv, FrontType
  <2>2. ASSUME NEW e \in Clients PROVE ClientOK(e)'
    <3>1. CASE e = c
      BY <1>2, <1>3, <1>4, <1>9, <3>1 DEF ClientOK, Told
    <3>2. CASE e # c
      BY <1>2, <1>3, <1>4, <1>9, <3>2 DEF ClientOK
    <3> QED
      BY <3>1, <3>2
  <2> QED
    BY <1>2, <1>9, <2>1, <2>2, SameTries DEF FrontInv, ClientInv
<1> QED
  BY <1>1, <1>6, <1>7, <1>8, <1>9 DEF Look

\* The handlers of a replica that crashes are gone; those that waited for one
\* of them, and those one of them waited for, are told so.
LEMMA CrashInv ==
  ASSUME FrontInv, NEW n \in Nodes, Crash(n)
  PROVE  FrontInv'
<1>1. PICK dead : dead = {t \in Tries : tries[t].at = n}
  OBVIOUS
<1>2. PICK cut : cut = {t \in Tries : \E u \in dead : tries[u].parent = t} \ dead
  OBVIOUS
<1>3. PICK gone, failed : gone = Answer("gone") /\ failed = Answer("forward_failed")
  OBVIOUS
<1>4. /\ UNCHANGED <<log, proposals, at, call, written, seen, finished>>
      /\ hint' = [hint EXCEPT ![n] = None] /\ lead' = (IF lead = n THEN None ELSE lead)
      /\ applied' = [applied EXCEPT ![n] = 0]
  BY DEF Crash
<1>5. tries' = [t \in Tries |->
                  IF t \in dead THEN NoTry
                  ELSE IF t \in cut THEN [tries[t] EXCEPT !.ans = failed]
                  ELSE IF tries[t].parent \in dead THEN [tries[t] EXCEPT !.parent = 0]
                  ELSE tries[t]]
  BY <1>1, <1>2, <1>3 DEF Crash
<1>6. resp' = [c \in Clients |-> IF call[c] \in dead /\ resp[c] = NoAnswer THEN gone ELSE resp[c]]
  BY <1>1, <1>3 DEF Crash
<1>7. /\ gone \in AnswerType /\ gone.code = "gone"
      /\ failed \in AnswerType /\ failed.code = "forward_failed"
  BY <1>3, AnswerFields DEF Codes
<1>8. tries \in [Tries -> TryType] /\ \A t \in Tries : LiveTry(t) /\ AnsweredTry(t) /\ ChildTry(t)
  BY DEF FrontInv, FrontType, TryInv
<1>9. 0 \in 0..MaxTries /\ 0 \notin Tries
  BY FrontAssumption DEF Tries
<1>10. ASSUME NEW t \in Tries, t \notin dead
       PROVE  /\ tries'[t] \in TryType
              /\ tries'[t].st = tries[t].st /\ tries'[t].cl = tries[t].cl
              /\ tries'[t].at = tries[t].at /\ tries'[t].kind = tries[t].kind
              /\ tries'[t].forwarded = tries[t].forwarded /\ tries'[t].slot = tries[t].slot
              /\ tries'[t].ans = IF t \in cut THEN failed ELSE tries[t].ans
              /\ t \in cut => tries[t].parent = 0
              /\ tries'[t].parent = IF tries[t].parent \in dead THEN 0 ELSE tries[t].parent
  <2>1. tries[t] \in TryType
    BY <1>8
  <2>2. CASE t \in cut
    <3>1. tries'[t] = [tries[t] EXCEPT !.ans = failed]
      BY <1>5, <1>10, <2>2
    <3>2. PICK u \in dead : tries[u].parent = t
      BY <1>2, <2>2
    <3>3. u \in Tries /\ t # 0
      BY <1>1, <1>9
    <3>4. tries[t].st = "forwarding"
      BY <1>8, <3>2, <3>3 DEF ChildTry
    <3>5. tries[t].parent = 0 /\ 0 \notin dead
      BY <1>1, <1>8, <1>9, <3>4 DEF ChildTry
    <3> QED
      BY <1>7, <2>1, <2>2, <3>1, <3>5 DEF TryType
  <2>3. CASE t \notin cut /\ tries[t].parent \in dead
    <3>1. tries'[t] = [tries[t] EXCEPT !.parent = 0]
      BY <1>5, <1>10, <2>3
    <3> QED
      BY <1>9, <2>1, <2>3, <3>1 DEF TryType
  <2>4. CASE t \notin cut /\ tries[t].parent \notin dead
    <3>1. tries'[t] = tries[t]
      BY <1>5, <1>10, <2>4
    <3> QED
      BY <2>1, <2>4, <3>1
  <2> QED
    BY <2>2, <2>3, <2>4
<1>11. \A t \in dead : t \in Tries /\ tries'[t] = NoTry
  BY <1>1, <1>5
<1>12. tries' \in [Tries -> TryType]
  <2>1. \A t \in Tries : tries'[t] \in TryType
    BY <1>10, <1>11, NoTryType
  <2>2. tries' = [t \in Tries |-> tries'[t]]
    BY <1>5
  <2> QED
    BY <2>1, <2>2
<1>13. ASSUME NEW t \in Tries PROVE LiveTry(t)' /\ AnsweredTry(t)'
  <2>1. CASE t \in dead
    <3>1. NoAnswer.code = "none"
      BY DEF NoAnswer
    <3> QED
      BY <1>11, <2>1, <3>1, NoTryType DEF LiveTry, AnsweredTry, Told
  <2>2. CASE t \notin dead
    <3>1. LiveTry(t)'
      BY <1>4, <1>8, <1>10, <2>2 DEF LiveTry
    <3>2. CASE t \in cut
      <4>1. tries'[t].ans = failed
        BY <1>10, <2>2, <3>2
      <4>2. Told(log, written[tries[t].cl], tries[t].cl, failed)
        BY <1>7, ToldNothing
      <4> QED
        BY <1>4, <1>8, <1>10, <2>2, <3>1, <4>1, <4>2 DEF AnsweredTry
    <3>3. CASE t \notin cut
      BY <1>4, <1>8, <1>10, <2>2, <3>1, <3>3 DEF AnsweredTry
    <3> QED
      BY <3>2, <3>3
  <2> QED
    BY <2>1, <2>2
<1>14. ASSUME NEW t \in Tries PROVE ChildTry(t)'
  <2>1. CASE t \in dead
    BY <1>11, <2>1, NoTryType DEF ChildTry
  <2>2. CASE t \notin dead /\ (tries[t].parent = 0 \/ tries[t].parent \in dead)
    <3>1. tries'[t].parent = 0
      BY <1>10, <2>2
    <3> QED
      BY <3>1 DEF ChildTry
  <2>3. CASE t \notin dead /\ tries[t].parent # 0 /\ tries[t].parent \notin dead
    <3>1. PICK p : p = tries[t].parent
      OBVIOUS
    <3>2. p \in Tries /\ p \notin dead /\ p # 0
      BY <2>3, <3>1, TryParent
    <3>3. /\ tries[p].st = "forwarding" /\ tries[p].ans = NoAnswer /\ tries[p].cl = tries[t].cl
          /\ tries[t].forwarded /\ \A v \in Tries : tries[v].parent = p => v = t
          /\ tries[t].st # "forwarding"
      BY <1>8, <2>3, <3>1 DEF ChildTry
    <3>4. p \notin cut
      BY <1>2, <1>11, <2>3, <3>3
    <3>5. tries'[p].st = "forwarding" /\ tries'[p].ans = NoAnswer /\ tries'[p].cl = tries[t].cl
      BY <1>10, <3>2, <3>3, <3>4
    <3>6. \A v \in Tries : tries'[v].parent = p => v = t
      <4>1. ASSUME NEW v \in Tries, tries'[v].parent = p PROVE v = t
        <5>1. v \notin dead
          BY <1>11, <3>2, <4>1, NoTryType
        <5>2. tries[v].parent = p
          BY <1>10, <3>2, <4>1, <5>1
        <5> QED
          BY <3>3, <5>2
      <4> QED
        BY <4>1
    <3>7. tries'[t].forwarded
      BY <1>10, <2>3, <3>3
    <3>8. tries'[t].parent = p /\ tries'[t].st # "forwarding" /\ tries'[t].cl = tries[t].cl
      BY <1>10, <2>3, <3>1, <3>3
    <3> QED
      BY <3>5, <3>6, <3>7, <3>8 DEF ChildTry
  <2> QED
    BY <2>1, <2>2, <2>3
<1>15. FrontType'
  <2>1. Len(log) \in Nat /\ applied \in [Nodes -> 0..Len(log)] /\ hint \in [Nodes -> Nodes \cup {None}]
        /\ resp \in [Clients -> AnswerType] /\ lead \in Nodes \cup {None}
    BY DEF FrontInv, FrontType
  <2>2. applied' \in [Nodes -> 0..Len(log)]
    BY <1>4, <2>1
  <2>3. hint' \in [Nodes -> Nodes \cup {None}] /\ lead' \in Nodes \cup {None}
    BY <1>4, <2>1
  <2>4. resp' \in [Clients -> AnswerType]
    BY <1>6, <1>7, <2>1
  <2> QED
    BY <1>4, <1>12, <2>2, <2>3, <2>4 DEF FrontInv, FrontType
<1>16. ASSUME NEW c \in Clients PROVE ClientOK(c)'
  <2>1. ClientOK(c)
    BY DEF FrontInv, ClientInv
  <2>2. CASE call[c] \in dead /\ resp[c] = NoAnswer
    <3>1. resp'[c] = gone /\ call[c] # 0
      BY <1>1, <1>6, <1>9, <2>2
    <3>2. Told(log, written[c], c, gone)
      BY <1>7, ToldNothing
    <3> QED
      BY <1>4, <2>1, <3>1, <3>2 DEF ClientOK
  <2>3. CASE ~ (call[c] \in dead /\ resp[c] = NoAnswer)
    <3>1. resp'[c] = resp[c]
      BY <1>6, <2>3
    <3> QED
      BY <1>4, <2>1, <3>1 DEF ClientOK
  <2> QED
    BY <2>2, <2>3
<1> QED
  BY <1>13, <1>14, <1>15, <1>16 DEF FrontInv, TryInv, ClientInv

-----------------------------------------------------------------------------
LEMMA InitInv == Init => FrontInv
<1> SUFFICES ASSUME Init PROVE FrontInv
  OBVIOUS
<1>1. PICK s \in Starts : log = s.log /\ finished = Clients \ s.crew /\ at = [c \in Clients |-> s.at]
  BY DEF Init
<1>2. s \in [crew : SUBSET Clients, log : Seq(Clients), at : Nodes]
  BY FrontAssumption
<1>3. log \in Seq(Clients) /\ finished \subseteq Clients /\ at \in [Clients -> Nodes] /\ Len(log) \in Nat
  BY <1>1, <1>2
<1>4. /\ proposals = {} /\ lead = First /\ hint = [n \in Nodes |-> IF n = lead THEN n ELSE None]
      /\ applied = [n \in Nodes |-> IF n = lead THEN Len(log) ELSE 0]
      /\ tries = [t \in Tries |-> NoTry] /\ call = [c \in Clients |-> 0]
      /\ resp = [c \in Clients |-> NoAnswer] /\ written = [c \in Clients |-> 0]
      /\ seen = [c \in Clients |-> 0]
  BY DEF Init
<1>5. lead \in Nodes /\ 0 \in 0..MaxTries
  BY <1>4, FrontAssumption
<1>6. NoAnswer \in AnswerType /\ NoAnswer.code = "none"
  BY DEF NoAnswer, AnswerType, Codes
<1>7. applied \in [Nodes -> 0..Len(log)] /\ hint \in [Nodes -> Nodes \cup {None}]
  BY <1>3, <1>4
<1>8. tries \in [Tries -> TryType] /\ \A t \in Tries : tries[t] = NoTry
  BY <1>4, NoTryType
<1>9. resp \in [Clients -> AnswerType] /\ call \in [Clients -> 0..MaxTries]
      /\ written \in [Clients -> Nat] /\ seen \in [Clients -> Nat]
  BY <1>4, <1>5, <1>6
<1>10. FrontType
  BY <1>3, <1>4, <1>5, <1>7, <1>8, <1>9 DEF FrontType
<1>11. TryInv
  BY <1>6, <1>8, NoTryType DEF TryInv, LiveTry, AnsweredTry, ChildTry, Told
<1>12. ClientInv
  BY <1>4, <1>6 DEF ClientInv, ClientOK, Told
<1> QED
  BY <1>10, <1>11, <1>12 DEF FrontInv

LEMMA StutterInv ==
  ASSUME FrontInv, UNCHANGED vars
  PROVE  FrontInv'
<1>1. UNCHANGED <<log, proposals, lead, hint, applied, tries, client, written>>
  BY DEF vars, cluster, client
<1>2. FrontType'
  BY <1>1 DEF FrontInv, FrontType, client
<1> QED
  BY <1>1, <1>2, SameClients, SameTries DEF FrontInv

LEMMA StepInv ==
  ASSUME FrontInv, [Next]_vars
  PROVE  FrontInv'
<1>1. ASSUME NEW n \in Nodes, Elect(n) \/ BecomeReady(n) \/ Hear(n) \/ Apply(n) \/ Crash(n)
      PROVE  FrontInv'
  BY <1>1, ElectInv, HearInv, ApplyInv, CrashInv
<1>2. ASSUME NEW p \in proposals, Choose(p) \/ Lose(p) PROVE FrontInv'
  BY <1>2, ChooseInv, LoseInv
<1>3. ASSUME NEW t \in Tries,
             \/ BeginCommand(t) \/ BeginIntent(t)
             \/ Submit(t) \/ Resolve(t) \/ LeadershipLost(t) \/ WriteResult(t)
             \/ Relay(t) \/ Unlock(t) \/ ReadAfterSlot(t) \/ Behind(t) \/ ConsistentRead(t)
             \/ Limited(t) \/ Refused(t) \/ TimesOut(t) \/ ViewFails(t) \/ ForwardFails(t)
             \/ ReadTimesOut(t)
      PROVE  FrontInv'
  <2>1. CASE BeginCommand(t) \/ BeginIntent(t) \/ Limited(t)
    BY <2>1, BeginInv
  <2>2. CASE Submit(t) \/ Resolve(t) \/ LeadershipLost(t) \/ WriteResult(t)
    BY <2>2, SubmitInv, ResolveInv, LostInv, WriteResultInv
  <2>3. CASE Relay(t) \/ Unlock(t) \/ ForwardFails(t)
    BY <2>3, RelayInv, UnlockInv, ForwardFailsInv
  <2>4. CASE ReadAfterSlot(t) \/ Behind(t) \/ ConsistentRead(t)
    BY <2>4, ReadInv
  <2>5. CASE Refused(t) \/ TimesOut(t) \/ ViewFails(t) \/ ReadTimesOut(t)
    BY <2>5, UnknownInv
  <2> QED
    BY <1>3, <2>1, <2>2, <2>3, <2>4, <2>5
<1>4. ASSUME NEW c \in Clients, Send(c) \/ Look(c) \/ GiveUp(c) PROVE FrontInv'
  BY <1>4, SendInv, LookInv, GiveUpInv
<1>5. CASE UNCHANGED vars
  BY <1>5, StutterInv
<1> QED
  BY <1>1, <1>2, <1>3, <1>4, <1>5 DEF Next

LEMMA Invariant == Spec => []FrontInv
<1>1. Init => FrontInv
  BY InitInv
<1>2. FrontInv /\ [Next]_vars => FrontInv'
  BY StepInv
<1> QED
  BY <1>1, <1>2, PTL DEF Spec

\* The first slot of a key, as the properties say it.
LEMMA FirstIsMin ==
  ASSUME FrontType, NEW s, NEW k, IsFirst(log, s, k)
  PROVE  /\ Min(SlotsOf(k, Len(log))) = s
         /\ Min(SlotsOf(k, Len(log)) \cup {Len(log) + 1}) = s
         /\ s <= Len(log)
<1>1. Len(log) \in Nat /\ s \in 1..Len(log) /\ KeyOf[log[s]] = k
      /\ \A r \in 1..Len(log) : KeyOf[log[r]] = k => s <= r
  BY DEF FrontType, IsFirst
<1>2. PICK S, n : S = SlotsOf(k, Len(log)) /\ n = Len(log)
  OBVIOUS
<1>3. S \subseteq 1..n /\ s \in S /\ \A r \in S : s <= r
  BY <1>1, <1>2 DEF SlotsOf
<1>4. \A x \in S : (\A y \in S : x <= y) => x = s
  BY <1>1, <1>2, <1>3
<1>5. Min(S) = s
  BY <1>3, <1>4 DEF Min
<1>6. \A r \in S \cup {n + 1} : s <= r
  BY <1>1, <1>2, <1>3
<1>7. \A x \in S \cup {n + 1} : (\A y \in S \cup {n + 1} : x <= y) => x = s
  BY <1>1, <1>2, <1>3
<1>8. Min(S \cup {n + 1}) = s
  BY <1>3, <1>6, <1>7 DEF Min
<1> QED
  BY <1>1, <1>2, <1>5, <1>8

\* Every answer to a command, from whichever replica, retry, forward or change
\* of leader, is the outcome of the first entry of the log with its key
\* (internal/api command, internal/intent answer, core.Replay).
THEOREM EveryAnswerIsTheOutcome == Spec => []OneOutcomePerKey
<1>1. FrontInv => OneOutcomePerKey
  <2> SUFFICES ASSUME FrontInv PROVE OneOutcomePerKey
    OBVIOUS
  <2> USE DEF FrontInv
  <2>1. ASSUME NEW x \in Answers, x[1] # None PROVE x[1] \in Clients /\ Told(log, written[x[1]], x[1], x[2])
    <3>1. CASE \E c \in Clients : x = <<c, resp[c]>>
      BY <3>1 DEF ClientInv, ClientOK
    <3>2. CASE \E t \in Tries : x = <<tries[t].cl, tries[t].ans>>
      <4>1. PICK t \in Tries : x = <<tries[t].cl, tries[t].ans>>
        BY <3>2
      <4>2. tries[t] \in TryType
        BY DEF FrontType
      <4>3. x[1] = tries[t].cl /\ x[2] = tries[t].ans /\ tries[t].cl \in Clients
        BY <2>1, <4>1, <4>2 DEF TryType
      <4> QED
        BY <4>3 DEF TryInv, AnsweredTry
    <3> QED
      BY <2>1, <3>1, <3>2 DEF Answers
  <2>2. ASSUME NEW x \in Answers, x[1] # None, x[2].code = "key_reused" \/ written[x[1]] = 0
        PROVE  LET first == Min(SlotsOf(KeyOf[x[1]], Len(log)) \cup {Len(log) + 1})
                   same == first <= Len(log) /\ BodyOf[log[first]] = BodyOf[x[1]]
               IN /\ x[2].code = "result" => same /\ x[2].slot = first
                  /\ x[2].code = "key_reused" => first <= Len(log) /\ ~same
    <3>1. PICK c, a : c = x[1] /\ a = x[2]
      OBVIOUS
    <3>2. PICK first : first = Min(SlotsOf(KeyOf[c], Len(log)) \cup {Len(log) + 1})
      OBVIOUS
    <3>3. c \in Clients /\ Told(log, written[c], c, a) /\ (a.code = "key_reused" \/ written[c] = 0)
      BY <2>1, <2>2, <3>1
    <3>4. ASSUME a.code = "result"
          PROVE  first <= Len(log) /\ BodyOf[log[first]] = BodyOf[c] /\ a.slot = first
      <4>1. IsFirst(log, a.slot, KeyOf[c]) /\ BodyOf[log[a.slot]] = BodyOf[c]
        BY <3>3, <3>4 DEF Told
      <4>2. first = a.slot /\ a.slot <= Len(log)
        BY <3>2, <4>1, FirstIsMin
      <4> QED
        BY <4>1, <4>2
    <3>5. ASSUME a.code = "key_reused"
          PROVE  first <= Len(log) /\ BodyOf[log[first]] # BodyOf[c]
      <4>1. PICK s \in 1..Len(log) : IsFirst(log, s, KeyOf[c]) /\ BodyOf[log[s]] # BodyOf[c]
        BY <3>3, <3>5 DEF Told
      <4>2. first = s /\ s <= Len(log)
        BY <3>2, <4>1, FirstIsMin
      <4> QED
        BY <4>1, <4>2
    <3> QED
      BY <3>1, <3>2, <3>4, <3>5
  <2>3. ASSUME NEW c \in Clients, written[c] # 0
        PROVE  written[c] = Min(SlotsOf(KeyOf[c], Len(log)))
    <3>1. IsFirst(log, written[c], KeyOf[c])
      BY <2>3 DEF ClientInv, ClientOK
    <3> QED
      BY <3>1, FirstIsMin
  <2> QED
    BY <2>2, <2>3 DEF OneOutcomePerKey
<1> QED
  BY <1>1, Invariant, PTL

\* A client that learned the slot of its command reads a state that has it, on
\* whichever replica (internal/intent waitMinSlot, internal/api read).
THEOREM ReadsSeeOwnWrites == Spec => []ReadsOwnWrites
<1>1. FrontInv => ReadsOwnWrites
  <2> SUFFICES ASSUME FrontInv, NEW c \in finished, written[c] # 0 PROVE seen[c] >= written[c]
    BY DEF ReadsOwnWrites
  <2>1. c \in Clients /\ written[c] \in Nat /\ seen[c] \in Nat
    BY DEF FrontInv, FrontType
  <2>2. written[c] <= seen[c]
    BY <2>1 DEF FrontInv, ClientInv, ClientOK
  <2> QED
    BY <2>1, <2>2
<1> QED
  BY <1>1, Invariant, PTL
=============================================================================

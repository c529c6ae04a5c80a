----------------------------- MODULE EventProofs -----------------------------
(***************************************************************************)
(* What holds of the long polls of Events for every set of players and     *)
(* requests, every log and every order of slots, polls, scans, timeouts    *)
(* and lost calls: the registrations are right, and every page a client is *)
(* handed is exact, so that it gets each event once and in order.          *)
(***************************************************************************)
EXTENDS Events, TLAPS, FiniteSetTheorems

Numbers == INSTANCE BallotProofs

-----------------------------------------------------------------------------
(* The events of a page. *)

SlotRec == [Players -> SUBSET Kinds]
ItemRec == [slot : Nat, events : SUBSET Kinds]

\* One round of the recursion of EventItems, and its solution.
Extend(p, in, D, g) ==
  [n \in D |-> IF n = 0 THEN <<>>
               ELSE IF n \in in /\ Left(p, in, n) # {}
                    THEN Append(g[n - 1], [slot |-> n, events |-> Left(p, in, n)])
                    ELSE g[n - 1]]
UpTo(p, in) == CHOOSE g : g = Extend(p, in, 0..applied, g)

LEMMA ItemsAreUpTo ==
  ASSUME NEW p, NEW in
  PROVE  EventItems(p, in) = UpTo(p, in)[applied]
BY Zenon DEF EventItems, UpTo, Extend

\* The recursion has a solution: one for every shorter range is extended.
LEMMA UpToExists ==
  ASSUME NEW N \in Nat, NEW p, NEW in
  PROVE  \E g : g = Extend(p, in, 0..N, g)
<1> DEFINE A == {m \in 0..N : \E g : g = Extend(p, in, 0..m, g)}
<1>1. 0 \in A
  <2> DEFINE g == [n \in 0..0 |-> <<>>]
  <2>1. g = Extend(p, in, 0..0, g)
    BY DEF Extend
  <2> QED
    BY <2>1
<1>2. ASSUME NEW m \in 1..N, m - 1 \in A PROVE m \in A
  <2>1. PICK g : g = Extend(p, in, 0..m - 1, g)
    BY <1>2
  <2>2. m - 1 \in 0..m - 1 /\ m \in 0..N /\ m # 0
    OBVIOUS
  <2> DEFINE h == [n \in 0..m |-> IF n = m
                     THEN IF n \in in /\ Left(p, in, n) # {}
                          THEN Append(g[n - 1], [slot |-> n, events |-> Left(p, in, n)])
                          ELSE g[n - 1]
                     ELSE g[n]]
             k == Extend(p, in, 0..m, h)
  <2>3. ASSUME NEW n \in 0..m PROVE h[n] = k[n]
    <3>1. CASE n = m
      <4>1. h[n - 1] = g[n - 1]
        BY <3>1, <2>2
      <4> QED
        BY <3>1, <4>1, <2>2 DEF Extend
    <3>2. CASE n = 0
      <4>1. g[0] = <<>> /\ h[0] = g[0]
        BY <2>1, <2>2 DEF Extend
      <4> QED
        BY <3>2, <4>1 DEF Extend
    <3>3. CASE n # m /\ n # 0
      <4>1. n \in 0..m - 1 /\ n - 1 \in 0..m /\ n - 1 # m
        BY <3>3
      <4>2. h[n] = g[n] /\ h[n - 1] = g[n - 1]
        BY <4>1, <3>3
      <4>3. g[n] = IF n \in in /\ Left(p, in, n) # {}
                   THEN Append(g[n - 1], [slot |-> n, events |-> Left(p, in, n)])
                   ELSE g[n - 1]
        BY <2>1, <3>3, <4>1 DEF Extend
      <4> QED
        BY <3>3, <4>2, <4>3 DEF Extend
    <3> QED
      BY <3>1, <3>2, <3>3
  <2>4. h = k
    BY <2>3 DEF Extend
  <2> HIDE DEF h
  <2> QED
    BY <2>2, <2>4
<1> HIDE DEF A
<1>3. 0..N \subseteq A
  BY <1>1, <1>2, Numbers!Counting
<1> QED
  BY <1>3 DEF A

\* The items s of the slots in up to n: in order, with what is left of each.
Listed(p, in, s, n) ==
  /\ s \in Seq(ItemRec)
  /\ \A i \in 1..Len(s) :
       /\ s[i].slot \in in /\ s[i].slot <= n
       /\ s[i].events = Left(p, in, s[i].slot) /\ s[i].events # {}
  /\ \A i, j \in 1..Len(s) : i < j => s[i].slot < s[j].slot
  /\ \A k \in in : k <= n /\ Left(p, in, k) # {} => \E i \in 1..Len(s) : s[i].slot = k

\* A slot that is listed next.
LEMMA ListedNext ==
  ASSUME NEW p, NEW in \in SUBSET Nat, NEW n \in Nat, n # 0, n \in in,
         NEW s, Listed(p, in, s, n - 1), Left(p, in, n) # {}, Left(p, in, n) \subseteq Kinds
  PROVE  Listed(p, in, Append(s, [slot |-> n, events |-> Left(p, in, n)]), n)
<1> DEFINE x == [slot |-> n, events |-> Left(p, in, n)]
           t == Append(s, x)
<1>1. x \in ItemRec /\ x.slot = n /\ x.events = Left(p, in, n)
  BY DEF ItemRec
<1>2. s \in Seq(ItemRec)
  BY DEF Listed
<1> HIDE DEF x
<1>3. t \in Seq(ItemRec) /\ Len(t) = Len(s) + 1 /\ t[Len(t)] = x /\ Len(s) \in Nat
      /\ \A i \in 1..Len(s) : t[i] = s[i]
  BY <1>1, <1>2
<1>4. ASSUME NEW i \in 1..Len(s) PROVE s[i].slot \in Nat
  <2>1. s[i] \in ItemRec
    BY <1>2
  <2> QED
    BY <2>1 DEF ItemRec
<1> HIDE DEF t
<1>5. ASSUME NEW i \in 1..Len(t)
      PROVE  /\ t[i].slot \in in /\ t[i].slot <= n
             /\ t[i].events = Left(p, in, t[i].slot) /\ t[i].events # {}
  <2>1. CASE i = Len(t)
    BY <1>1, <1>3, <2>1
  <2>2. CASE i # Len(t)
    <3>1. i \in 1..Len(s) /\ t[i] = s[i]
      BY <1>3, <2>2
    <3>2. /\ s[i].slot \in in /\ s[i].slot <= n - 1
          /\ s[i].events = Left(p, in, s[i].slot) /\ s[i].events # {}
      BY <3>1 DEF Listed
    <3> QED
      BY <1>4, <3>1, <3>2
  <2> QED
    BY <2>1, <2>2
<1>6. ASSUME NEW i \in 1..Len(t), NEW j \in 1..Len(t), i < j PROVE t[i].slot < t[j].slot
  <2>1. i \in 1..Len(s) /\ t[i] = s[i]
    BY <1>3, <1>6
  <2>2. CASE j = Len(t)
    <3>1. s[i].slot <= n - 1 /\ t[j].slot = n
      BY <1>1, <1>3, <2>1, <2>2 DEF Listed
    <3> QED
      BY <1>4, <2>1, <3>1
  <2>3. CASE j # Len(t)
    <3>1. j \in 1..Len(s) /\ t[j] = s[j]
      BY <1>3, <2>3
    <3> QED
      BY <1>6, <2>1, <3>1 DEF Listed
  <2> QED
    BY <2>2, <2>3
<1>7. ASSUME NEW k \in in, k <= n, Left(p, in, k) # {} PROVE \E i \in 1..Len(t) : t[i].slot = k
  <2>1. CASE k = n
    BY <1>1, <1>3, <2>1
  <2>2. CASE k # n
    <3>1. k <= n - 1
      BY <1>7, <2>2
    <3>2. PICK i \in 1..Len(s) : s[i].slot = k
      BY <1>7, <3>1 DEF Listed
    <3> QED
      BY <1>3, <3>2
  <2> QED
    BY <2>1, <2>2
<1> QED
  BY <1>3, <1>5, <1>6, <1>7 DEF Listed, t, x

\* What eventItems returns.
LEMMA ItemsAre ==
  ASSUME NEW p \in Players, log \in Seq(SlotRec), NEW in \in SUBSET (1..applied)
  PROVE  Listed(p, in, EventItems(p, in), applied)
<1> DEFINE g == UpTo(p, in)
           A == {n \in 0..applied : Listed(p, in, g[n], n)}
<1>0. applied \in Nat /\ in \in SUBSET Nat
  BY DEF applied
<1>1. g = Extend(p, in, 0..applied, g)
  BY <1>0, UpToExists, Zenon DEF UpTo
<1> HIDE DEF g
<1>2. ASSUME NEW n \in 0..applied
      PROVE  g[n] = IF n = 0 THEN <<>>
                    ELSE IF n \in in /\ Left(p, in, n) # {}
                         THEN Append(g[n - 1], [slot |-> n, events |-> Left(p, in, n)])
                         ELSE g[n - 1]
  BY <1>1 DEF Extend
<1>3. 0 \in A
  <2>0. 0 \in 0..applied
    BY <1>0
  <2>1. g[0] = <<>>
    BY <2>0, <1>2, Zenon
  <2>2. <<>> \in Seq(ItemRec) /\ \A i \in 1..Len(<<>>) : FALSE
    OBVIOUS
  <2>3. g[0] \in Seq(ItemRec) /\ \A i \in 1..Len(g[0]) : FALSE
    BY <2>1, <2>2, Zenon
  <2>4. \A k \in in : ~(k <= 0)
    BY <1>0
  <2>5. Listed(p, in, g[0], 0)
    BY <2>3, <2>4 DEF Listed
  <2> QED
    BY <2>0, <2>5
<1>4. ASSUME NEW n \in 1..applied, n - 1 \in A PROVE n \in A
  <2>0. n \in 0..applied /\ n # 0 /\ n \in Nat
    BY <1>0
  <2>1. Listed(p, in, g[n - 1], n - 1)
    BY <1>4
  <2>2. CASE n \in in /\ Left(p, in, n) # {}
    <3>1. g[n] = Append(g[n - 1], [slot |-> n, events |-> Left(p, in, n)])
      BY <1>2, <2>0, <2>2
    <3>2. Left(p, in, n) \subseteq Kinds
      <4>1. log[n] \in SlotRec
        BY <2>0 DEF applied
      <4>2. log[n][p] \subseteq Kinds
        BY <4>1 DEF SlotRec
      <4> QED
        BY <4>2 DEF Left
    <3> HIDE DEF A
    <3>3. Listed(p, in, g[n], n)
      BY <1>0, <2>0, <2>1, <2>2, <3>1, <3>2, ListedNext
    <3> QED
      BY <2>0, <3>3 DEF A
  <2>3. CASE ~(n \in in /\ Left(p, in, n) # {})
    <3>1. g[n] = g[n - 1]
      BY <1>2, <2>0, <2>3
    <3>2. \A k \in in : k <= n /\ Left(p, in, k) # {} => k <= n - 1
      BY <1>0, <2>0, <2>3
    <3>3. Listed(p, in, g[n - 1], n)
      <4>1. \A i \in 1..Len(g[n - 1]) : g[n - 1][i].slot <= n
        <5> SUFFICES ASSUME NEW i \in 1..Len(g[n - 1]) PROVE g[n - 1][i].slot <= n
          OBVIOUS
        <5>1. g[n - 1][i].slot \in Nat /\ g[n - 1][i].slot <= n - 1
          BY <1>0, <2>1 DEF Listed
        <5> QED
          BY <2>0, <5>1
      <4> QED
        BY <2>1, <3>2, <4>1 DEF Listed
    <3> QED
      BY <2>0, <3>1, <3>3
  <2> QED
    BY <2>2, <2>3
<1> HIDE DEF A
<1>5. 0..applied \subseteq A
  BY <1>0, <1>3, <1>4, Numbers!Counting
<1>6. applied \in A
  BY <1>0, <1>5
<1> QED
  BY <1>6, ItemsAreUpTo DEF A, g

\* Tells, for any log.
Told(l, p, s, a, b) ==
  /\ \A i, j \in 1..Len(s) : i < j => s[i].slot < s[j].slot
  /\ \A i \in 1..Len(s) :
       /\ a < s[i].slot /\ s[i].slot <= b
       /\ s[i].events # {} /\ s[i].events \subseteq l[s[i].slot][p]
  /\ \A n \in 1..b : n > a => \A e \in l[n][p] :
       \E i \in 1..Len(s) :
         /\ e \in s[i].events
         /\ s[i].slot = n \/ (e \in Boards /\ s[i].slot > n)

LEMMA TellsIs ==
  ASSUME NEW p, NEW s, NEW a, NEW b
  PROVE  Tells(p, s, a, b) <=> Told(log, p, s, a, b)
BY DEF Tells, Told

\* No tournament's leaderboard_changed is there twice.
BoardsOnce(s) ==
  \A i, j \in 1..Len(s) : s[i].events \cap s[j].events \cap Boards # {} => i = j

\* Between a and a slot that is not after a there is nothing to tell.
LEMMA ToldNothing ==
  ASSUME NEW l, NEW m, NEW p, NEW s \in Seq(ItemRec), NEW a \in Nat, NEW b \in Nat, NEW c \in Nat,
         b <= a, c <= a, Told(l, p, s, a, b)
  PROVE  Told(m, p, s, a, c) /\ Len(s) = 0
<1>1. ASSUME NEW i \in 1..Len(s) PROVE FALSE
  <2>1. s[i] \in ItemRec
    OBVIOUS
  <2>2. s[i].slot \in Nat
    BY <2>1 DEF ItemRec
  <2>3. a < s[i].slot /\ s[i].slot <= b
    BY DEF Told
  <2> QED
    BY <2>2, <2>3
<1>2. Len(s) = 0
  <2>1. Len(s) \in Nat
    OBVIOUS
  <2>2. Len(s) # 0 => 1 \in 1..Len(s)
    BY <2>1
  <2> QED
    BY <1>1, <2>2
<1>3. \A n \in 1..c : ~(n > a)
  OBVIOUS
<1> QED
  BY <1>1, <1>2, <1>3 DEF Told

\* A slot that is applied later changes nothing before it.
LEMMA ToldStays ==
  ASSUME NEW l, NEW m, Len(l) \in Nat, \A n \in 1..Len(l) : m[n] = l[n],
         NEW p, NEW s \in Seq(ItemRec), NEW a \in Nat, NEW b \in Nat, b <= Len(l),
         Told(l, p, s, a, b)
  PROVE  Told(m, p, s, a, b)
<1>1. ASSUME NEW i \in 1..Len(s) PROVE l[s[i].slot] = m[s[i].slot]
  <2>1. s[i] \in ItemRec
    OBVIOUS
  <2>2. s[i].slot \in Nat
    BY <2>1 DEF ItemRec
  <2>3. a < s[i].slot /\ s[i].slot <= b
    BY DEF Told
  <2>4. s[i].slot \in 1..Len(l)
    BY <2>2, <2>3
  <2> QED
    BY <2>4
<1>2. \A n \in 1..b : m[n] = l[n]
  OBVIOUS
<1> QED
  BY <1>1, <1>2 DEF Told

\* A page and the next one tell what both ranges bring.
LEMMA ToldJoin ==
  ASSUME NEW l, NEW p, NEW s \in Seq(ItemRec), NEW t \in Seq(ItemRec),
         NEW a \in Nat, NEW c \in Nat, NEW b \in Nat, a <= c, c <= b,
         Told(l, p, s, a, c), Told(l, p, t, c, b)
  PROVE  Told(l, p, s \o t, a, b)
<1> DEFINE u == s \o t
           L == Len(s)
<1>1. /\ u \in Seq(ItemRec) /\ L \in Nat /\ Len(t) \in Nat /\ Len(u) = L + Len(t)
      /\ \A i \in 1..L : u[i] = s[i]
      /\ \A i \in 1..Len(t) : u[L + i] = t[i]
  OBVIOUS
<1>a. \A i \in 1..Len(u) : i \in 1..L \/ (i - L \in 1..Len(t) /\ u[i] = t[i - L])
  <2> SUFFICES ASSUME NEW i \in 1..Len(u), i \notin 1..L
               PROVE  i - L \in 1..Len(t) /\ u[i] = t[i - L]
    OBVIOUS
  <2>1. i - L \in 1..Len(t) /\ L + (i - L) = i
    BY <1>1
  <2> QED
    BY <1>1, <2>1
<1> HIDE DEF u
<1>2. ASSUME NEW i \in 1..L
      PROVE  /\ s[i].slot \in Nat /\ u[i] = s[i] /\ i \in 1..Len(u)
             /\ a < s[i].slot /\ s[i].slot <= c
             /\ s[i].events # {} /\ s[i].events \subseteq l[s[i].slot][p]
  <2>1. s[i] \in ItemRec
    OBVIOUS
  <2>2. s[i].slot \in Nat
    BY <2>1 DEF ItemRec
  <2> QED
    BY <1>1, <2>2 DEF Told
<1>3. ASSUME NEW i \in 1..Len(t)
      PROVE  /\ t[i].slot \in Nat /\ u[L + i] = t[i] /\ L + i \in 1..Len(u)
             /\ c < t[i].slot /\ t[i].slot <= b
             /\ t[i].events # {} /\ t[i].events \subseteq l[t[i].slot][p]
  <2>1. t[i] \in ItemRec
    OBVIOUS
  <2>2. t[i].slot \in Nat
    BY <2>1 DEF ItemRec
  <2> QED
    BY <1>1, <2>2 DEF Told
<1>4. ASSUME NEW i \in 1..Len(u)
      PROVE  /\ a < u[i].slot /\ u[i].slot <= b
             /\ u[i].events # {} /\ u[i].events \subseteq l[u[i].slot][p]
  <2>1. CASE i \in 1..L
    BY <1>2, <2>1
  <2>2. CASE i - L \in 1..Len(t) /\ u[i] = t[i - L]
    BY <1>3, <2>2
  <2> QED
    BY <1>a, <2>1, <2>2
<1>5. ASSUME NEW i \in 1..Len(u), NEW j \in 1..Len(u), i < j PROVE u[i].slot < u[j].slot
  <2>1. CASE i \in 1..L /\ j \in 1..L
    BY <1>2, <1>5, <2>1 DEF Told
  <2>2. CASE i \in 1..L /\ j - L \in 1..Len(t) /\ u[j] = t[j - L]
    <3>1. s[i].slot \in Nat /\ s[i].slot <= c /\ u[i] = s[i]
      BY <1>2, <2>2
    <3>2. t[j - L].slot \in Nat /\ c < t[j - L].slot
      BY <1>3, <2>2
    <3>3. s[i].slot < t[j - L].slot
      BY <3>1, <3>2
    <3> QED
      BY <2>2, <3>1, <3>3
  <2>3. CASE i - L \in 1..Len(t) /\ u[i] = t[i - L] /\ j - L \in 1..Len(t) /\ u[j] = t[j - L]
    <3>1. i - L < j - L
      BY <1>1, <1>5
    <3> QED
      BY <2>3, <3>1 DEF Told
  <2>4. CASE i \notin 1..L /\ j \in 1..L
    BY <1>1, <1>5, <2>4
  <2> QED
    BY <1>a, <2>1, <2>2, <2>3, <2>4
<1>6. ASSUME NEW n \in 1..b, n > a, NEW e \in l[n][p]
      PROVE  \E i \in 1..Len(u) :
               /\ e \in u[i].events
               /\ u[i].slot = n \/ (e \in Boards /\ u[i].slot > n)
  <2>1. CASE n <= c
    <3>1. n \in 1..c
      BY <2>1
    <3>2. PICK i \in 1..L :
            e \in s[i].events /\ (s[i].slot = n \/ (e \in Boards /\ s[i].slot > n))
      BY <1>6, <3>1 DEF Told
    <3> QED
      BY <1>2, <3>2
  <2>2. CASE n > c
    <3>1. PICK i \in 1..Len(t) :
            e \in t[i].events /\ (t[i].slot = n \/ (e \in Boards /\ t[i].slot > n))
      BY <1>6, <2>2 DEF Told
    <3>2. u[L + i] = t[i] /\ L + i \in 1..Len(u)
      BY <1>3
    <3> QED
      BY <3>1, <3>2
  <2> QED
    BY <2>1, <2>2
<1> QED
  BY <1>4, <1>5, <1>6 DEF Told, u

-----------------------------------------------------------------------------
(* The slots of a page: from the front of what is visible, and one at least. *)

LEMMA LargestIs ==
  ASSUME NEW N \in Nat, NEW S \in SUBSET (1..N), S # {}
  PROVE  Max(S) \in S /\ \A y \in S : y <= Max(S)
<1>1. S \in SUBSET (0..N) /\ S \subseteq Nat
  OBVIOUS
<1>2. PICK x \in S : \A y \in S : y <= x
  BY <1>1, Numbers!LargestNumber
<1>3. \A y \in S : x >= y
  BY <1>1, <1>2
<1>4. Max(S) \in S /\ \A y \in S : Max(S) >= y
  BY <1>3, Zenon DEF Max
<1> QED
  BY <1>1, <1>4

LEMMA PageFromFront ==
  ASSUME NEW p \in Players, NEW from \in Nat, log \in Seq(SlotRec)
  PROVE  /\ Visible(p, from) \in SUBSET (1..applied)
         /\ EventsAfter(p, from) \subseteq Visible(p, from)
         /\ \A n \in EventsAfter(p, from), k \in Visible(p, from) :
              k < n => k \in EventsAfter(p, from)
         /\ EventsAfter(p, from) = {} => Visible(p, from) = {}
<1> DEFINE V == Visible(p, from)
           B(n) == EventsBefore(p, from, n)
<1>0. applied \in Nat /\ PageSize \in Nat \ {0} /\ IsFiniteSet(Kinds)
  BY EventsAssumption DEF EventsAssumption, applied
<1>1. V \in SUBSET (1..applied) /\ EventsAfter(p, from) \subseteq V
  BY DEF Visible, EventsAfter
<1>2. ASSUME NEW n \in V PROVE IsFiniteSet(B(n))
  <2>1. IsFiniteSet((1..applied) \X Kinds)
    <3>1. IsFiniteSet(1..applied)
      BY <1>0, FS_Interval
    <3> QED
      BY <1>0, <3>1, FS_Product
  <2>2. B(n) \subseteq (1..applied) \X Kinds
    <3> SUFFICES ASSUME NEW m \in V PROVE {m} \X log[m][p] \subseteq (1..applied) \X Kinds
      BY DEF EventsBefore
    <3>1. m \in 1..Len(log) /\ m \in 1..applied
      BY <1>1 DEF applied
    <3>2. log[m] \in SlotRec
      BY <3>1
    <3>3. log[m][p] \subseteq Kinds
      BY <3>2 DEF SlotRec
    <3> QED
      BY <3>1, <3>3
  <2> QED
    BY <2>1, <2>2, FS_Subset
<1>3. ASSUME NEW n \in EventsAfter(p, from), NEW k \in V, k < n
      PROVE  k \in EventsAfter(p, from)
  <2>1. n \in V /\ n \in Nat /\ k \in Nat /\ Cardinality(B(n)) < PageSize
    BY <1>1 DEF EventsAfter
  <2>2. {m \in V : m < k} \subseteq {m \in V : m < n}
    BY <1>1, <1>3, <2>1
  <2>3. B(k) \subseteq B(n)
    BY <2>2 DEF EventsBefore
  <2>4. IsFiniteSet(B(k)) /\ IsFiniteSet(B(n))
    BY <1>2, <2>1
  <2>5. /\ Cardinality(B(k)) <= Cardinality(B(n))
        /\ Cardinality(B(k)) \in Nat /\ Cardinality(B(n)) \in Nat
    BY <2>3, <2>4, FS_Subset, FS_CardinalityType
  <2>6. Cardinality(B(k)) < PageSize
    BY <1>0, <2>1, <2>5
  <2> QED
    BY <2>6 DEF EventsAfter
<1>4. ASSUME V # {} PROVE EventsAfter(p, from) # {}
  <2>1. V \in SUBSET (0..applied)
    BY <1>0, <1>1
  <2>2. PICK n \in V : \A m \in V : n <= m
    BY <1>0, <1>4, <2>1, Numbers!SmallestNumber
  <2>3. {m \in V : m < n} = {}
    BY <1>0, <2>1, <2>2
  <2>4. B(n) = {}
    BY <2>3 DEF EventsBefore
  <2>5. Cardinality(B(n)) < PageSize
    BY <1>0, <2>4, FS_EmptySet
  <2>6. n \in EventsAfter(p, from)
    BY <2>5 DEF EventsAfter
  <2> QED
    BY <2>6
<1> QED
  BY <1>1, <1>3, <1>4

\* What is left of the slots of a page tells everything they bring, a tournament's
\* leaderboard_changed only once.
LEMMA ItemsTell ==
  ASSUME NEW p \in Players, log \in Seq(SlotRec), NEW in \in SUBSET (1..applied),
         NEW s, Listed(p, in, s, applied)
  PROVE  /\ \A n \in in : \A e \in log[n][p] :
              \E i \in 1..Len(s) :
                /\ e \in s[i].events
                /\ s[i].slot = n \/ (e \in Boards /\ s[i].slot > n)
         /\ BoardsOnce(s)
<1>0. applied \in Nat /\ in \subseteq Nat
  BY DEF applied
<1>1. ASSUME NEW n \in in, NEW e \in log[n][p]
      PROVE  \E i \in 1..Len(s) :
                /\ e \in s[i].events
                /\ s[i].slot = n \/ (e \in Boards /\ s[i].slot > n)
  <2>1. ASSUME NEW k \in in, e \in Left(p, in, k) PROVE \E i \in 1..Len(s) : s[i].slot = k /\ e \in s[i].events
    <3>1. k <= applied /\ Left(p, in, k) # {}
      BY <1>0, <2>1
    <3>2. PICK i \in 1..Len(s) : s[i].slot = k
      BY <2>1, <3>1 DEF Listed
    <3>3. s[i].events = Left(p, in, k)
      BY <3>2 DEF Listed
    <3> QED
      BY <2>1, <3>2, <3>3
  <2>2. CASE e \notin Boards
    <3>1. e \in Left(p, in, n)
      BY <1>1, <2>2 DEF Left
    <3> QED
      BY <2>1, <3>1
  <2>3. CASE e \in Boards
    <3> DEFINE S == {k \in in : e \in log[k][p]}
    <3>1. S \in SUBSET (0..applied) /\ n \in S
      <4>1. 1..applied \subseteq 0..applied
        BY <1>0
      <4> QED
        BY <1>1, <4>1
    <3>2. PICK k \in S : \A m \in S : m <= k
      BY <1>0, <3>1, Numbers!LargestNumber
    <3>3. e \in Left(p, in, k)
      BY <3>2 DEF Left
    <3>4. PICK i \in 1..Len(s) : s[i].slot = k /\ e \in s[i].events
      BY <2>1, <3>2, <3>3
    <3>5. n <= k /\ k \in Nat /\ n \in Nat
      BY <1>0, <3>1, <3>2
    <3>6. k = n \/ k > n
      BY <3>5
    <3> QED
      BY <2>3, <3>4, <3>6
  <2> QED
    BY <2>2, <2>3
<1>2. ASSUME NEW i \in 1..Len(s), NEW j \in 1..Len(s), s[i].events \cap s[j].events \cap Boards # {}
      PROVE  i = j
  <2>1. PICK e \in Boards : e \in s[i].events /\ e \in s[j].events
    BY <1>2
  <2>2. /\ s[i].slot \in in /\ e \in Left(p, in, s[i].slot)
        /\ s[j].slot \in in /\ e \in Left(p, in, s[j].slot)
    BY <2>1 DEF Listed
  <2>3. s[i].slot <= s[j].slot /\ s[j].slot <= s[i].slot
    BY <2>1, <2>2 DEF Left
  <2>4. s[i].slot = s[j].slot /\ s[i].slot \in Nat
    BY <1>0, <2>2, <2>3
  <2>5. ~(i < j) /\ ~(j < i)
    BY <2>4 DEF Listed
  <2> QED
    BY <2>5
<1> QED
  BY <1>1, <1>2 DEF BoardsOnce

-----------------------------------------------------------------------------
(* Types *)

Labels == {"idle", "sent", "refused", "read", "wait", "await", "scan", "publish",
           "closing", "done"}
PageRec == [cursor : Nat, events : Seq(ItemRec)]
ReqRec ==
  [from : Nat, superseded : BOOLEAN, over : BOOLEAN, gone : BOOLEAN, page : PageRec,
   seen : Nat, woke : Nat, scanned : Nat, relevant : BOOLEAN]
ScanRec == [by : Requests \cup {None}, covers : SUBSET Requests, applied : Nat,
            found : SUBSET Requests]
AnswerRec == [kind : {"none", "page", "error"}, from : Nat, page : PageRec]

\* What a request has seen of the log is there.
SeenOK(r) == req[r].seen <= Len(log) /\ req[r].woke <= Len(log) /\ req[r].scanned <= Len(log)

TypesInv ==
  /\ log \in Seq(SlotRec) /\ Len(log) <= MaxSlot
  /\ pc \in [Requests -> Labels]
  /\ req \in [Requests -> ReqRec]
  /\ polls \in [Players -> Requests \cup {None}]
  /\ \A p \in Players : polls[p] # None => PlayerOf[polls[p]] = p
  /\ scan \in ScanRec
  /\ answer \in [Requests -> AnswerRec]
  /\ call \in [Players -> Requests \cup {None}]
  /\ \A p \in Players : call[p] # None => PlayerOf[call[p]] = p
  /\ cursor \in [Players -> Nat]
  /\ got \in [Players -> Seq(ItemRec)]
  /\ \A r \in Requests : SeenOK(r)
  /\ scan.applied <= Len(log)

LEMMA RecordsTyped ==
  /\ NoPage \in PageRec
  /\ \A n \in Nat : NewReq(n) \in ReqRec
  /\ NoScan \in ScanRec /\ NoAnswer \in AnswerRec /\ Error \in AnswerRec
<1>1. <<>> \in Seq(ItemRec)
  OBVIOUS
<1>2. NoPage \in PageRec
  BY <1>1 DEF NoPage, PageRec
<1> QED
  BY <1>2 DEF NewReq, ReqRec, NoScan, ScanRec, NoAnswer, Error, AnswerRec

\* A page that is cut from the log, and where its cursor stands.
Exact(l, p, from, page) ==
  /\ page.cursor >= from
  /\ page.cursor <= Len(l) \/ page.cursor = from
  /\ Told(l, p, page.events, from, Lower(page.cursor, Len(l)))
  /\ BoardsOnce(page.events)

LEMMA PageIsExact ==
  ASSUME NEW p \in Players, NEW from \in Nat, log \in Seq(SlotRec)
  PROVE  PageAfter(p, from) \in PageRec /\ Exact(log, p, from, PageAfter(p, from))
<1> DEFINE V == Visible(p, from)
           in == EventsAfter(p, from)
           s == EventItems(p, in)
           page == PageAfter(p, from)
           c == page.cursor
<1>0. applied = Len(log) /\ applied \in Nat
  BY DEF applied
<1>1. /\ V \in SUBSET (1..applied) /\ in \subseteq V
      /\ \A n \in in, k \in V : k < n => k \in in
      /\ in = {} => V = {}
  BY PageFromFront
<1>2. Listed(p, in, s, applied)
  BY <1>1, ItemsAre
<1>3. /\ \A n \in in : \A e \in log[n][p] :
           \E i \in 1..Len(s) :
             /\ e \in s[i].events
             /\ s[i].slot = n \/ (e \in Boards /\ s[i].slot > n)
      /\ BoardsOnce(s)
  BY <1>1, <1>2, ItemsTell
<1>4. \A n \in V : n \in 1..applied /\ n > from
  BY DEF Visible
<1>5. page = [cursor |-> c, events |-> s]
  BY DEF PageAfter
<1>6. /\ applied < from => c = from
      /\ ~(applied < from) /\ in # {} /\ HasEvents(p, Max(in)) => c = Max(in)
      /\ ~(applied < from) /\ ~(in # {} /\ HasEvents(p, Max(in))) => c = applied
  BY DEF PageAfter
<1>7. page.events = s
  BY <1>5
<1> HIDE DEF page, s
\* Where the cursor is, and what is visible up to there.
<1>8. /\ c \in Nat /\ c >= from /\ (c <= applied \/ c = from)
      /\ \A n \in in : n <= Lower(c, applied)
      /\ \A n \in V : n <= Lower(c, applied) => n \in in
  <2>1. CASE applied < from
    <3>1. c = from /\ V = {}
      BY <1>0, <1>1, <1>4, <1>6, <2>1
    <3> QED
      BY <1>0, <1>1, <3>1
  <2>2. CASE ~(applied < from) /\ in = {}
    <3>1. c = applied /\ V = {}
      BY <1>1, <1>6, <2>2
    <3> QED
      BY <1>0, <1>1, <2>2, <3>1
  <2>3. CASE ~(applied < from) /\ in # {}
    <3> DEFINE m == Max(in)
    <3>1. m \in in /\ \A n \in in : n <= m
      <4>1. in \in SUBSET (1..applied)
        BY <1>1
      <4> HIDE DEF in
      <4> QED
        BY <1>0, <2>3, <4>1, LargestIs
    <3>2. m \in Nat /\ m <= applied /\ m > from /\ m \in V
      BY <1>0, <1>1, <1>4, <3>1
    <3>3. \A n \in V : n <= m => n \in in
      BY <1>1, <1>4, <3>1, <3>2
    <3>4. CASE HasEvents(p, m)
      <4>1. c = m
        BY <1>6, <2>3, <3>4
      <4>2. Lower(c, applied) = m
        BY <1>0, <3>2, <4>1 DEF Lower
      <4> HIDE DEF m, V, in, c
      <4> QED
        BY <3>1, <3>2, <3>3, <4>1, <4>2
    <3>5. CASE ~HasEvents(p, m)
      <4>1. c = applied
        BY <1>6, <2>3, <3>5
      <4>2. \A n \in V : n <= m
        <5> SUFFICES ASSUME NEW n \in V, ~(n <= m) PROVE FALSE
          OBVIOUS
        <5>1. n \in 1..applied /\ n > m /\ log[n][p] # {}
          BY <1>4, <3>2 DEF Visible
        <5>2. n \in Visible(p, m)
          BY <5>1 DEF Visible
        <5> QED
          BY <3>5, <5>2 DEF HasEvents
      <4>3. Lower(c, applied) = applied
        BY <1>0, <4>1 DEF Lower
      <4>4. \A n \in V : n <= applied /\ n \in in
        BY <1>0, <1>4, <3>3, <4>2
      <4> HIDE DEF m, V, in, c
      <4> QED
        BY <1>0, <1>1, <2>3, <4>1, <4>3, <4>4
    <3> QED
      BY <3>4, <3>5
  <2> QED
    BY <2>1, <2>2, <2>3
<1>9. Told(log, p, s, from, Lower(c, applied))
  <2> DEFINE b == Lower(c, applied)
  <2>0. b \in Nat /\ b <= applied
    BY <1>0, <1>8 DEF Lower
  <2>1. ASSUME NEW i \in 1..Len(s)
        PROVE  /\ from < s[i].slot /\ s[i].slot <= b
               /\ s[i].events # {} /\ s[i].events \subseteq log[s[i].slot][p]
    <3>1. s[i].slot \in in /\ s[i].events = Left(p, in, s[i].slot) /\ s[i].events # {}
      BY <1>2 DEF Listed
    <3>2. s[i].events \subseteq log[s[i].slot][p]
      BY <3>1 DEF Left
    <3>3. s[i].slot > from /\ s[i].slot <= b /\ s[i].slot \in Nat
      BY <1>1, <1>4, <1>8, <3>1
    <3> HIDE DEF b
    <3> QED
      BY <3>1, <3>2, <3>3
  <2>2. ASSUME NEW n \in 1..b, n > from, NEW e \in log[n][p]
        PROVE  \E i \in 1..Len(s) :
                 /\ e \in s[i].events
                 /\ s[i].slot = n \/ (e \in Boards /\ s[i].slot > n)
    <3>1. n \in V
      BY <1>0, <2>0, <2>2 DEF Visible
    <3>2. n \in in
      BY <1>8, <2>0, <2>2, <3>1
    <3> QED
      BY <1>3, <2>2, <3>2
  <2>3. \A i, j \in 1..Len(s) : i < j => s[i].slot < s[j].slot
    BY <1>2 DEF Listed
  <2> HIDE DEF b
  <2>4. Told(log, p, s, from, b)
    BY <2>1, <2>2, <2>3 DEF Told
  <2> QED
    BY <2>4 DEF b
<1>10. s \in Seq(ItemRec)
  BY <1>2 DEF Listed
<1>11. page \in PageRec
  BY <1>5, <1>8, <1>10 DEF PageRec
<1>12. Exact(log, p, from, page)
  BY <1>0, <1>3, <1>7, <1>8, <1>9, Zenon DEF Exact
<1> QED
  BY <1>11, <1>12 DEF page

\* The requests that wait when the model starts are one for each player.
LEMMA HeldIs ==
  ASSUME NEW p \in Players
  PROVE  /\ Held(p) \in Waiting \cup {None}
         /\ Held(p) # None => PlayerOf[Held(p)] = p
         /\ \A r \in Waiting : PlayerOf[r] = p <=> Held(p) = r
<1>0. /\ \A r, s \in Waiting : PlayerOf[r] = PlayerOf[s] => r = s
      /\ None \notin Waiting
  BY EventsAssumption DEF EventsAssumption
<1>1. CASE \E r \in Waiting : PlayerOf[r] = p
  <2>1. Held(p) \in Waiting /\ PlayerOf[Held(p)] = p
    BY <1>1 DEF Held
  <2> QED
    BY <1>0, <2>1
<1>2. CASE ~\E r \in Waiting : PlayerOf[r] = p
  <2>1. Held(p) = None
    BY <1>2 DEF Held
  <2> QED
    BY <1>0, <1>2, <2>1
<1> QED
  BY <1>1, <1>2

LEMMA InitLog ==
  ASSUME Init
  PROVE  log \in Seq(SlotRec) /\ Len(log) = 0 /\ MaxSlot \in Nat
BY EventsAssumption DEF Init, EventsAssumption

LEMMA TypesInit == Init => TypesInv
<1> SUFFICES ASSUME Init PROVE TypesInv
  OBVIOUS
<1>1. log \in Seq(SlotRec) /\ Len(log) <= MaxSlot /\ Len(log) = 0
  BY InitLog
<1>2. /\ PlayerOf \in [Requests -> Players] /\ Waiting \subseteq Requests
      /\ Start \in [Players -> Nat]
  BY EventsAssumption DEF EventsAssumption
<1>3. ASSUME NEW r \in Requests
      PROVE  req[r] \in ReqRec /\ req[r].seen = 0 /\ req[r].woke = 0 /\ req[r].scanned = 0
  <2>1. CASE r \in Waiting
    <3> DEFINE f == Start[PlayerOf[r]]
    <3>0. f \in Nat /\ PlayerOf[r] \in Players
      BY <1>2
    <3>1. f \in Nat /\ PageAfter(PlayerOf[r], f) \in PageRec
      BY <1>1, <3>0, PageIsExact
    <3>2. req[r] = [NewReq(f) EXCEPT !.page = PageAfter(PlayerOf[r], f)]
      BY <2>1 DEF Init
    <3>3. NewReq(f) \in ReqRec
      BY <3>1, RecordsTyped
    <3> QED
      BY <3>1, <3>2, <3>3 DEF ReqRec, NewReq
  <2>2. CASE r \notin Waiting
    <3>1. req[r] = NewReq(0)
      BY <2>2 DEF Init
    <3> QED
      BY <3>1, RecordsTyped DEF NewReq
  <2> QED
    BY <2>1, <2>2
<1>4. req \in [Requests -> ReqRec] /\ \A r \in Requests : SeenOK(r)
  <2>1. req = [r \in Requests |-> req[r]]
    BY DEF Init
  <2> QED
    BY <1>1, <1>3, <2>1 DEF SeenOK
<1>5. pc \in [Requests -> Labels]
  BY DEF Init, Labels
<1>6. \A p \in Players : Held(p) \in Requests \cup {None} /\ (Held(p) # None => PlayerOf[Held(p)] = p)
  BY <1>2, HeldIs
<1>7. /\ polls = [p \in Players |-> Held(p)] /\ call = [p \in Players |-> Held(p)]
      /\ cursor = Start
      /\ got = [p \in Players |-> <<>>]
      /\ scan = NoScan
      /\ answer = [r \in Requests |-> NoAnswer]
  BY DEF Init
<1>8. scan \in ScanRec /\ scan.applied = 0 /\ answer \in [Requests -> AnswerRec]
  BY <1>7, RecordsTyped DEF NoScan
<1>9. got \in [Players -> Seq(ItemRec)]
  <2>1. <<>> \in Seq(ItemRec)
    OBVIOUS
  <2> QED
    BY <1>7, <2>1
<1> QED
  BY <1>1, <1>2, <1>4, <1>5, <1>6, <1>7, <1>8, <1>9 DEF TypesInv

-----------------------------------------------------------------------------
(* The invariant *)

\* Where a handler has read the state and holds the page of that read.
Asleep == {"wait", "await", "scan", "publish"}
Running == Asleep \cup {"read", "closing"}

Registered == {p \in Players : polls[p] # None}

RegInv == RegisteredIffOpen /\ IsFiniteSet(Registered)

\* The pages that are kept and those that are answered are exact.
PagesInv ==
  \A r \in Requests :
    /\ pc[r] \in Asleep => Exact(log, PlayerOf[r], req[r].from, req[r].page)
    /\ \/ answer[r] = NoAnswer \/ answer[r] = Error
       \/ answer[r].kind = "page" /\ Exact(log, PlayerOf[r], answer[r].from, answer[r].page)

\* The call a client waits for was made with the cursor it has.
CallsInv ==
  \A r \in Requests :
    /\ pc[r] = "idle" => answer[r] = NoAnswer
    /\ pc[r] = "sent" => ~req[r].superseded
    /\ call[PlayerOf[r]] = r =>
         /\ pc[r] # "idle"
         /\ pc[r] \in Running \cup {"sent"} => req[r].from = cursor[PlayerOf[r]]
         /\ answer[r].kind = "page" => answer[r].from = cursor[PlayerOf[r]]

\* A cursor is the one the client started with or a slot that is applied.
CursorInv ==
  \A p \in Players :
    /\ cursor[p] >= Start[p]
    /\ cursor[p] <= Len(log) \/ cursor[p] = Start[p]
    /\ Told(log, p, got[p], Start[p], Lower(cursor[p], Len(log)))

EventsInv == TypesInv /\ RegInv /\ PagesInv /\ CallsInv /\ CursorInv

\* The running labels are those of Active.
LEMMA ActiveIs ==
  ASSUME TypesInv, NEW r \in Requests
  PROVE  Active(r) <=> pc[r] \in Running
BY DEF TypesInv, Active, Labels, Running, Asleep

\* What the handler of r does between openPoll and closePoll: it keeps its
\* cursor, its registration and whether it is superseded, goes to sleep only
\* with an exact page, and answers nothing but an error or an exact page.
Step(r) ==
  /\ pc[r] \in Running
  /\ \E l \in Running, q \in ReqRec, a \in AnswerRec :
       /\ pc' = [pc EXCEPT ![r] = l] /\ req' = [req EXCEPT ![r] = q]
       /\ answer' = [answer EXCEPT ![r] = a]
       /\ q.from = req[r].from /\ q.superseded = req[r].superseded
       /\ q.seen <= Len(log) /\ q.woke <= Len(log) /\ q.scanned <= Len(log)
       /\ l \in Asleep => Exact(log, PlayerOf[r], q.from, q.page)
       /\ \/ a = answer[r] \/ a = Error
          \/ /\ a.kind = "page" /\ a.from = req[r].from
             /\ Exact(log, PlayerOf[r], a.from, a.page)
  /\ scan' \in ScanRec /\ scan'.applied <= Len(log)
  /\ UNCHANGED <<polls, log, clientVars>>

\* The three ways of a handler that keeps its page: an answer, a new place, or
\* nothing but its own record.
LEMMA StepBy ==
  ASSUME TypesInv, PagesInv, NEW r \in Requests, pc[r] \in Running,
         NEW l \in Running, NEW q \in ReqRec, l \in Asleep => pc[r] \in Asleep,
         pc' = [pc EXCEPT ![r] = l], req' = [req EXCEPT ![r] = q],
         q.from = req[r].from, q.superseded = req[r].superseded, q.page = req[r].page,
         q.seen <= Len(log), q.woke <= Len(log), q.scanned <= Len(log),
         \/ answer' = answer
         \/ answer' = [answer EXCEPT ![r] = Error]
         \/ answer' = [answer EXCEPT ![r] = Page(r)] /\ pc[r] \in Asleep,
         scan' \in ScanRec, scan'.applied <= Len(log), UNCHANGED <<polls, log, clientVars>>
  PROVE  Step(r)
<1>1. /\ answer \in [Requests -> AnswerRec] /\ req[r] \in ReqRec
      /\ answer[r] \in AnswerRec
  BY DEF TypesInv
<1>2. l \in Asleep => Exact(log, PlayerOf[r], q.from, q.page)
  BY DEF PagesInv
<1>3. pc[r] \in Running
  OBVIOUS
<1>4. CASE answer' = answer
  <2>1. answer' = [answer EXCEPT ![r] = answer[r]]
    BY <1>1, <1>4
  <2> QED
    BY <1>1, <1>2, <1>3, <2>1 DEF Step
<1>5. CASE answer' = [answer EXCEPT ![r] = Error]
  BY <1>2, <1>3, <1>5, RecordsTyped DEF Step
<1>6. CASE answer' = [answer EXCEPT ![r] = Page(r)] /\ pc[r] \in Asleep
  <2> DEFINE a == Page(r)
  <2>1. /\ a \in AnswerRec /\ a.kind = "page" /\ a.from = req[r].from
        /\ a.page = req[r].page
    BY <1>1 DEF Page, AnswerRec, ReqRec
  <2>2. Exact(log, PlayerOf[r], a.from, a.page)
    BY <1>6, <2>1 DEF PagesInv
  <2> HIDE DEF a
  <2>3. answer' = [answer EXCEPT ![r] = a]
    BY <1>6 DEF a
  <2> QED
    BY <1>2, <1>3, <2>1, <2>2, <2>3 DEF Step
<1> QED
  BY <1>4, <1>5, <1>6

LEMMA DecideSteps ==
  ASSUME TypesInv, PagesInv, NEW r \in Requests, pc[r] \in Asleep,
         NEW relevant, NEW upTo \in Nat, upTo <= Len(log), Decide(r, relevant, upTo),
         scan' \in ScanRec, scan'.applied <= Len(log), UNCHANGED <<polls, log, clientVars>>
  PROVE  Step(r)
<1>1. /\ req \in [Requests -> ReqRec] /\ SeenOK(r) /\ req[r] \in ReqRec /\ pc[r] \in Running
      /\ {"closing", "read", "wait"} \subseteq Running
  BY DEF TypesInv, Running, Asleep
<1>2. ASSUME NEW l \in {"closing", "read", "wait"}, NEW q \in ReqRec,
             pc' = [pc EXCEPT ![r] = l], req' = [req EXCEPT ![r] = q],
             q.from = req[r].from, q.superseded = req[r].superseded, q.page = req[r].page,
             q.seen <= Len(log), q.woke <= Len(log), q.scanned <= Len(log),
             answer' = answer \/ answer' = [answer EXCEPT ![r] = Page(r)]
      PROVE  Step(r)
  BY <1>1, <1>2, StepBy
<1>3. CASE req[r].superseded
  <2>1. /\ answer' = [answer EXCEPT ![r] = Page(r)]
        /\ pc' = [pc EXCEPT ![r] = "closing"] /\ req' = req
    BY <1>3 DEF Decide, Write, Goto
  <2>2. req' = [req EXCEPT ![r] = req[r]]
    BY <1>1, <2>1
  <2> QED
    BY <1>1, <1>2, <2>1, <2>2 DEF SeenOK
<1>4. CASE ~req[r].superseded /\ (relevant \/ req[r].over)
  <2> DEFINE q == [req[r] EXCEPT !.woke = 0]
  <2>1. /\ answer' = answer /\ pc' = [pc EXCEPT ![r] = "read"]
        /\ req' = [req EXCEPT ![r].woke = 0]
    BY <1>4 DEF Decide, Goto
  <2>2. req' = [req EXCEPT ![r] = q]
    BY <1>1, <2>1
  <2>3. /\ q \in ReqRec /\ q.from = req[r].from /\ q.superseded = req[r].superseded
        /\ q.page = req[r].page /\ q.seen = req[r].seen /\ q.woke = 0
        /\ q.scanned = req[r].scanned
    BY <1>1 DEF ReqRec
  <2>4. q.seen <= Len(log) /\ q.woke <= Len(log) /\ q.scanned <= Len(log)
    BY <1>1, <2>3 DEF SeenOK, TypesInv
  <2> HIDE DEF q
  <2> QED
    BY <1>2, <2>1, <2>2, <2>3, <2>4
<1>5. CASE ~req[r].superseded /\ ~(relevant \/ req[r].over)
  <2> DEFINE q == [req[r] EXCEPT !.seen = upTo, !.woke = 0]
  <2>1. /\ answer' = answer /\ pc' = [pc EXCEPT ![r] = "wait"]
        /\ req' = [req EXCEPT ![r].seen = upTo, ![r].woke = 0]
    BY <1>5 DEF Decide, Goto
  <2>2. req' = [req EXCEPT ![r] = q]
    BY <1>1, <2>1
  <2>3. /\ q \in ReqRec /\ q.from = req[r].from /\ q.superseded = req[r].superseded
        /\ q.page = req[r].page /\ q.seen = upTo /\ q.woke = 0
        /\ q.scanned = req[r].scanned
    BY <1>1 DEF ReqRec
  <2>4. q.seen <= Len(log) /\ q.woke <= Len(log) /\ q.scanned <= Len(log)
    BY <1>1, <2>3 DEF SeenOK, TypesInv
  <2> HIDE DEF q
  <2> QED
    BY <1>2, <2>1, <2>2, <2>3, <2>4
<1> QED
  BY <1>3, <1>4, <1>5

LEMMA ReadSteps ==
  ASSUME TypesInv, PagesInv, NEW r \in Requests, Read(r)
  PROVE  Step(r)
<1> DEFINE f == req[r].from
           page == PageAfter(PlayerOf[r], f)
           q == [req[r] EXCEPT !.page = page, !.seen = applied]
           a == [kind |-> "page", from |-> f, page |-> page]
<1>1. /\ req \in [Requests -> ReqRec] /\ SeenOK(r) /\ req[r] \in ReqRec /\ pc[r] = "read"
      /\ "read" \in Running /\ "closing" \in Running /\ "wait" \in Running
      /\ "closing" \notin Asleep
      /\ Len(log) \in Nat /\ f \in Nat /\ applied = Len(log)
      /\ answer \in [Requests -> AnswerRec] /\ answer[r] \in AnswerRec
      /\ scan \in ScanRec /\ scan.applied <= Len(log)
  BY DEF TypesInv, Running, Asleep, Read, applied, ReqRec
<1>2. page \in PageRec /\ Exact(log, PlayerOf[r], f, page)
  <2>1. PlayerOf[r] \in Players /\ log \in Seq(SlotRec)
    BY EventsAssumption DEF EventsAssumption, TypesInv
  <2> QED
    BY <1>1, <2>1, PageIsExact
<1>3. UNCHANGED <<polls, scan, log, clientVars>> /\ req' = [req EXCEPT ![r] = q]
  BY <1>1 DEF Read
<1>4. \/ answer' = [answer EXCEPT ![r] = a] /\ pc' = [pc EXCEPT ![r] = "closing"]
      \/ answer' = answer /\ pc' = [pc EXCEPT ![r] = "wait"]
  BY DEF Read, Write, Goto
<1> HIDE DEF page
<1>5. /\ q \in ReqRec /\ q.from = f /\ q.superseded = req[r].superseded
      /\ q.page = page /\ q.seen = Len(log) /\ q.woke = req[r].woke
      /\ q.scanned = req[r].scanned
  BY <1>1, <1>2 DEF ReqRec
<1>6. a \in AnswerRec /\ a.kind = "page" /\ a.from = f /\ a.page = page
  BY <1>1, <1>2 DEF AnswerRec
<1>7. answer = [answer EXCEPT ![r] = answer[r]]
  BY <1>1
<1>8. q.seen <= Len(log) /\ q.woke <= Len(log) /\ q.scanned <= Len(log)
  BY <1>1, <1>5 DEF SeenOK
<1>9. Exact(log, PlayerOf[r], q.from, q.page) /\ Exact(log, PlayerOf[r], a.from, a.page)
  BY <1>2, <1>5, <1>6
<1>10. scan' \in ScanRec /\ scan'.applied <= Len(log) /\ UNCHANGED <<polls, log, clientVars>>
  BY <1>1, <1>3
<1> HIDE DEF q, a
<1>11. CASE answer' = [answer EXCEPT ![r] = a] /\ pc' = [pc EXCEPT ![r] = "closing"]
  BY <1>1, <1>3, <1>5, <1>6, <1>8, <1>9, <1>10, <1>11 DEF Step
<1>12. CASE answer' = answer /\ pc' = [pc EXCEPT ![r] = "wait"]
  <2>1. answer' = [answer EXCEPT ![r] = answer[r]]
    BY <1>7, <1>12
  <2> QED
    BY <1>1, <1>3, <1>5, <1>8, <1>9, <1>10, <1>12, <2>1 DEF Step
<1> QED
  BY <1>4, <1>11, <1>12

LEMMA HandlerSteps ==
  ASSUME TypesInv, PagesInv, NEW r \in Requests,
         \/ Wake(r) \/ RunnerStops(r) \/ ReadFails(r)
         \/ StartScan(r) \/ ScanRead(r) \/ Timeout(r) \/ Notice(r)
  PROVE  Step(r)
<1>1. /\ req \in [Requests -> ReqRec] /\ SeenOK(r) /\ req[r] \in ReqRec
      /\ Len(log) \in Nat /\ applied = Len(log)
      /\ scan \in ScanRec /\ scan.applied <= Len(log)
  BY DEF TypesInv, applied
<1>a. req[r].seen <= Len(log) /\ req[r].woke <= Len(log) /\ req[r].scanned <= Len(log)
  BY <1>1 DEF SeenOK
<1>b. req = [req EXCEPT ![r] = req[r]]
  BY <1>1
<1>c. pc = [pc EXCEPT ![r] = pc[r]]
  BY DEF TypesInv
<1>2. CASE ReadFails(r) \/ RunnerStops(r)
  <2>1. /\ pc[r] \in Running /\ "closing" \in Running /\ "closing" \notin Asleep
        /\ pc' = [pc EXCEPT ![r] = "closing"] /\ answer' = [answer EXCEPT ![r] = Error]
        /\ UNCHANGED <<req, polls, scan, log, clientVars>>
    BY <1>2 DEF ReadFails, RunnerStops, Running, Asleep, Goto, Write
  <2> QED
    BY <1>1, <1>a, <1>b, <2>1, StepBy
<1>3. CASE Wake(r) /\ (req[r].gone \/ req[r].superseded \/ ~(applied > req[r].seen))
  <2>1. /\ pc[r] \in Running /\ pc[r] \in Asleep /\ "closing" \in Running
        /\ "read" \in Running /\ req' = req
        /\ answer' = answer \/ answer' = [answer EXCEPT ![r] = Page(r)]
        /\ UNCHANGED <<req, polls, scan, log, clientVars>>
    BY <1>3 DEF Wake, Running, Asleep, Write
  <2>2. pc' = [pc EXCEPT ![r] = "closing"] \/ pc' = [pc EXCEPT ![r] = "read"]
    BY <1>3 DEF Wake, Goto
  <2>3. CASE pc' = [pc EXCEPT ![r] = "closing"]
    BY <1>1, <1>a, <1>b, <2>1, <2>3, StepBy
  <2>4. CASE pc' = [pc EXCEPT ![r] = "read"]
    BY <1>1, <1>a, <1>b, <2>1, <2>4, StepBy
  <2> QED
    BY <2>2, <2>3, <2>4
<1>4. CASE Wake(r) /\ ~(req[r].gone \/ req[r].superseded \/ ~(applied > req[r].seen))
  <2> DEFINE q == [req[r] EXCEPT !.woke = applied]
  <2>1. /\ pc[r] \in Running /\ pc[r] \in Asleep /\ "await" \in Running
        /\ pc' = [pc EXCEPT ![r] = "await"] /\ answer' = answer
        /\ UNCHANGED <<polls, scan, log, clientVars>>
        /\ req' = [req EXCEPT ![r].woke = applied]
    BY <1>4 DEF Wake, Running, Asleep, Goto, Woke
  <2>2. /\ q \in ReqRec /\ q.from = req[r].from /\ q.superseded = req[r].superseded
        /\ q.page = req[r].page /\ q.seen = req[r].seen /\ q.woke = Len(log)
        /\ q.scanned = req[r].scanned
    BY <1>1 DEF ReqRec
  <2>3. req' = [req EXCEPT ![r] = q]
    BY <1>1, <2>1
  <2>4. q.seen <= Len(log) /\ q.woke <= Len(log) /\ q.scanned <= Len(log)
    BY <1>1, <1>a, <2>2
  <2> HIDE DEF q
  <2>5. scan' \in ScanRec /\ scan'.applied <= Len(log)
    BY <1>1, <2>1
  <2> QED
    BY <2>1, <2>2, <2>3, <2>4, <2>5, StepBy
<1>5. CASE StartScan(r) \/ ScanRead(r)
  <2>1. scan' \in ScanRec /\ scan'.applied <= Len(log)
    <3>1. CASE StartScan(r)
      <4>1. PICK open : open = {polls[p] : p \in Players} \ {None}
        OBVIOUS
      <4>2. open \in SUBSET Requests
        BY <4>1 DEF TypesInv
      <4>3. scan' = [NoScan EXCEPT !.by = r, !.covers = open]
        BY <3>1, <4>1 DEF StartScan
      <4>4. scan' = [by |-> r, covers |-> open, applied |-> 0, found |-> {}]
        BY <4>3 DEF NoScan
      <4> QED
        BY <1>1, <4>2, <4>4 DEF ScanRec
    <3>2. CASE ScanRead(r)
      <4>1. PICK found : found = {c \in scan.covers : HasEvents(PlayerOf[c], req[c].from)}
        OBVIOUS
      <4>2. scan.covers \in SUBSET Requests
        BY <1>1 DEF ScanRec
      <4>3. found \in SUBSET Requests
        BY <4>1, <4>2
      <4>4. scan' = [scan EXCEPT !.applied = Len(log), !.found = found]
        BY <1>1, <3>2, <4>1 DEF ScanRead
      <4>5. /\ scan' = [by |-> scan.by, covers |-> scan.covers, applied |-> Len(log),
                        found |-> found]
            /\ scan.by \in Requests \cup {None}
        BY <1>1, <4>4 DEF ScanRec
      <4>6. scan' \in ScanRec
        BY <1>1, <4>2, <4>3, <4>5 DEF ScanRec
      <4> QED
        BY <1>1, <4>5, <4>6
    <3> QED
      BY <1>5, <3>1, <3>2
  <2>2. /\ pc[r] \in Running /\ pc[r] \in Asleep /\ "scan" \in Running /\ "publish" \in Running
        /\ answer' = answer /\ UNCHANGED <<polls, req, log, clientVars>>
        /\ req' = [req EXCEPT ![r] = req[r]]
    BY <1>5, <1>b DEF StartScan, ScanRead, Running, Asleep
  <2>3. pc' = [pc EXCEPT ![r] = "scan"] \/ pc' = [pc EXCEPT ![r] = "publish"]
    BY <1>5 DEF StartScan, ScanRead, Goto
  <2>4. CASE pc' = [pc EXCEPT ![r] = "scan"]
    BY <1>1, <1>a, <2>1, <2>2, <2>4, StepBy
  <2>5. CASE pc' = [pc EXCEPT ![r] = "publish"]
    BY <1>1, <1>a, <2>1, <2>2, <2>5, StepBy
  <2> QED
    BY <2>3, <2>4, <2>5
<1>6. CASE Timeout(r) \/ Notice(r)
  <2> DEFINE q == IF Timeout(r) THEN [req[r] EXCEPT !.over = TRUE]
                                ELSE [req[r] EXCEPT !.gone = TRUE, !.over = TRUE]
  <2>1. /\ Active(r) /\ UNCHANGED <<pc, polls, scan, answer, log, clientVars>>
        /\ req' = [req EXCEPT ![r] = q]
    BY <1>1, <1>6 DEF Timeout, Notice
  <2>2. /\ q \in ReqRec /\ q.from = req[r].from /\ q.superseded = req[r].superseded
        /\ q.page = req[r].page /\ q.seen = req[r].seen /\ q.woke = req[r].woke
        /\ q.scanned = req[r].scanned
    BY <1>1 DEF ReqRec
  <2>3. pc[r] \in Running
    BY <2>1, ActiveIs
  <2> HIDE DEF q
  <2> QED
    BY <1>1, <1>a, <1>c, <2>1, <2>2, <2>3, StepBy
<1> QED
  BY <1>2, <1>3, <1>4, <1>5, <1>6

LEMMA AwaitSteps ==
  ASSUME TypesInv, PagesInv, NEW r \in Requests, Await(r) \/ ScanFails(r)
  PROVE  Step(r)
<1>1. /\ req[r] \in ReqRec /\ SeenOK(r) /\ Len(log) \in Nat
      /\ req[r].woke \in Nat /\ req[r].scanned \in Nat
      /\ scan \in ScanRec /\ scan.applied <= Len(log)
      /\ NoScan \in ScanRec /\ NoScan.applied <= Len(log)
  BY RecordsTyped DEF TypesInv, ReqRec, NoScan
<1>2. req[r].woke <= Len(log) /\ req[r].scanned <= Len(log)
  BY <1>1 DEF SeenOK
<1>3. /\ pc[r] \in Asleep /\ UNCHANGED <<polls, log, clientVars>>
      /\ scan' = scan \/ scan' = NoScan
  BY DEF Await, ScanFails, Asleep, AfterFailure
<1>4. \/ Decide(r, TRUE, req[r].woke) \/ Decide(r, req[r].relevant, req[r].scanned)
  BY DEF Await, ScanFails
<1>5. scan' \in ScanRec /\ scan'.applied <= Len(log)
  BY <1>1, <1>3
<1> QED
  BY <1>1, <1>2, <1>3, <1>4, <1>5, DecideSteps

-----------------------------------------------------------------------------
(* Every step keeps the invariant. *)

LEMMA PlayersOf == PlayerOf \in [Requests -> Players] /\ None \notin Requests
BY EventsAssumption DEF EventsAssumption

LEMMA StepKeeps ==
  ASSUME EventsInv, NEW r \in Requests, Step(r)
  PROVE  EventsInv'
<1>0. TypesInv /\ RegInv /\ PagesInv /\ CallsInv /\ CursorInv
  BY DEF EventsInv
<1>1. PICK l \in Running, q \in ReqRec, a \in AnswerRec :
        /\ pc' = [pc EXCEPT ![r] = l] /\ req' = [req EXCEPT ![r] = q]
        /\ answer' = [answer EXCEPT ![r] = a]
        /\ q.from = req[r].from /\ q.superseded = req[r].superseded
        /\ q.seen <= Len(log) /\ q.woke <= Len(log) /\ q.scanned <= Len(log)
        /\ l \in Asleep => Exact(log, PlayerOf[r], q.from, q.page)
        /\ \/ a = answer[r] \/ a = Error
           \/ /\ a.kind = "page" /\ a.from = req[r].from
              /\ Exact(log, PlayerOf[r], a.from, a.page)
  BY DEF Step
<1>2. /\ scan' \in ScanRec /\ scan'.applied <= Len(log) /\ pc[r] \in Running
      /\ UNCHANGED <<polls, log, call, cursor, got>>
  BY DEF Step, clientVars
<1>3. Running \subseteq Labels /\ "idle" \notin Running /\ "sent" \notin Running
  BY DEF Running, Asleep, Labels
<1>4. /\ pc'[r] = l /\ req'[r] = q /\ answer'[r] = a
      /\ \A s \in Requests : s # r => pc'[s] = pc[s] /\ req'[s] = req[s] /\ answer'[s] = answer[s]
  BY <1>0, <1>1 DEF TypesInv
<1>5. TypesInv'
  <2>1. pc' \in [Requests -> Labels] /\ req' \in [Requests -> ReqRec]
        /\ answer' \in [Requests -> AnswerRec]
    BY <1>0, <1>1, <1>3 DEF TypesInv
  <2>2. \A s \in Requests : SeenOK(s)'
    BY <1>0, <1>1, <1>2, <1>4 DEF TypesInv, SeenOK
  <2> QED
    BY <1>0, <1>2, <2>1, <2>2 DEF TypesInv
<1>6. RegInv'
  <2>1. \A s \in Requests : Active(s)' <=> Active(s)
    BY <1>0, <1>1, <1>2, <1>4, <1>3 DEF Active, Running, Asleep
  <2>2. \A s \in Requests : req'[s].superseded = req[s].superseded
    BY <1>1, <1>4
  <2>3. Registered' = Registered
    BY <1>2 DEF Registered
  <2>4. \A p \in Players : polls[p] # None => polls[p] \in Requests
    BY <1>0 DEF TypesInv
  <2> QED
    BY <1>0, <1>2, <2>1, <2>2, <2>3, <2>4 DEF RegInv, RegisteredIffOpen, Registered
<1>7. PagesInv'
  BY <1>0, <1>1, <1>2, <1>4 DEF PagesInv
<1>8. CallsInv'
  <2>1. Error.kind = "error" /\ pc[r] # "idle" /\ pc'[r] # "idle" /\ pc'[r] # "sent"
    BY <1>1, <1>2, <1>3, <1>4 DEF Error, NoAnswer
  <2>2. ASSUME NEW s \in Requests, s # r
        PROVE  /\ pc'[s] = "idle" => answer'[s] = NoAnswer
               /\ pc'[s] = "sent" => ~req'[s].superseded
               /\ call'[PlayerOf[s]] = s =>
                    /\ pc'[s] # "idle"
                    /\ pc'[s] \in Running \cup {"sent"} => req'[s].from = cursor'[PlayerOf[s]]
                    /\ answer'[s].kind = "page" => answer'[s].from = cursor'[PlayerOf[s]]
    BY <1>0, <1>2, <1>4, <2>2 DEF CallsInv
  <2>3. /\ call'[PlayerOf[r]] = r =>
             /\ req'[r].from = cursor'[PlayerOf[r]]
             /\ answer'[r].kind = "page" => answer'[r].from = cursor'[PlayerOf[r]]
    BY <1>0, <1>1, <1>2, <1>4, <2>1 DEF CallsInv
  <2> QED
    BY <2>1, <2>2, <2>3 DEF CallsInv
<1>9. CursorInv'
  BY <1>0, <1>2 DEF CursorInv
<1> QED
  BY <1>5, <1>6, <1>7, <1>8, <1>9 DEF EventsInv

\* What is told up to a cursor stays told while the log grows.
LEMMA ToldGrows ==
  ASSUME NEW l, NEW m, Len(l) \in Nat, Len(m) \in Nat, Len(l) <= Len(m),
         \A n \in 1..Len(l) : m[n] = l[n],
         NEW p, NEW s \in Seq(ItemRec), NEW from \in Nat, NEW cur \in Nat,
         cur <= Len(l) \/ cur = from, Told(l, p, s, from, Lower(cur, Len(l)))
  PROVE  (cur <= Len(m) \/ cur = from) /\ Told(m, p, s, from, Lower(cur, Len(m)))
<1>1. CASE cur <= Len(l)
  <2>1. Lower(cur, Len(l)) = cur /\ Lower(cur, Len(m)) = cur /\ cur <= Len(m)
    BY <1>1 DEF Lower
  <2>2. Told(m, p, s, from, cur)
    BY <1>1, <2>1, ToldStays
  <2> QED
    BY <2>1, <2>2
<1>2. CASE ~(cur <= Len(l))
  <2> DEFINE b == Lower(cur, Len(l))
             c == Lower(cur, Len(m))
  <2>1. cur = from /\ b \in Nat /\ c \in Nat /\ b <= from /\ c <= from
    BY <1>2 DEF Lower
  <2>2. Told(l, p, s, from, b)
    OBVIOUS
  <2> HIDE DEF b, c
  <2>3. Told(m, p, s, from, c)
    BY <2>1, <2>2, ToldNothing
  <2> QED
    BY <2>1, <2>3 DEF c
<1> QED
  BY <1>1, <1>2

\* So an exact page stays exact.
LEMMA ExactStays ==
  ASSUME NEW l, NEW m, Len(l) \in Nat, Len(m) \in Nat, Len(l) <= Len(m),
         \A n \in 1..Len(l) : m[n] = l[n],
         NEW p, NEW from \in Nat, NEW page \in PageRec, Exact(l, p, from, page)
  PROVE  Exact(m, p, from, page)
<1>1. page.cursor \in Nat /\ page.events \in Seq(ItemRec)
  BY DEF PageRec
<1>2. /\ page.cursor <= Len(l) \/ page.cursor = from
      /\ Told(l, p, page.events, from, Lower(page.cursor, Len(l)))
  BY DEF Exact
<1>3. /\ page.cursor <= Len(m) \/ page.cursor = from
      /\ Told(m, p, page.events, from, Lower(page.cursor, Len(m)))
  BY <1>1, <1>2, ToldGrows
<1> QED
  BY <1>3 DEF Exact

LEMMA ApplyKeeps ==
  ASSUME EventsInv, NEW slot \in Slots, Apply(slot)
  PROVE  EventsInv'
<1>0. TypesInv /\ RegInv /\ PagesInv /\ CallsInv /\ CursorInv
  BY DEF EventsInv
<1>1. /\ log' = Append(log, slot) /\ Len(log) < MaxSlot
      /\ UNCHANGED <<pc, req, polls, scan, answer, call, cursor, got>>
  BY DEF Apply, serverVars, clientVars, applied
<1>2. slot \in SlotRec /\ MaxSlot \in Nat /\ Start \in [Players -> Nat]
  BY EventsAssumption DEF EventsAssumption, SlotRec
<1>3. /\ log \in Seq(SlotRec) /\ Len(log) \in Nat
      /\ log' \in Seq(SlotRec) /\ Len(log') = Len(log) + 1
      /\ \A n \in 1..Len(log) : log'[n] = log[n]
  BY <1>0, <1>1, <1>2 DEF TypesInv
<1>4. TypesInv'
  <2>1. Len(log') <= MaxSlot
    BY <1>1, <1>2, <1>3
  <2>2. ASSUME NEW r \in Requests PROVE SeenOK(r)'
    <3>1. req[r] \in ReqRec /\ SeenOK(r)
      BY <1>0 DEF TypesInv
    <3>2. req[r].seen \in Nat /\ req[r].woke \in Nat /\ req[r].scanned \in Nat
      BY <3>1 DEF ReqRec
    <3> QED
      BY <1>1, <1>3, <3>1, <3>2 DEF SeenOK
  <2>3. scan'.applied <= Len(log')
    <3>1. scan \in ScanRec /\ scan.applied <= Len(log)
      BY <1>0 DEF TypesInv
    <3>2. scan.applied \in Nat
      BY <3>1 DEF ScanRec
    <3> QED
      BY <1>1, <1>3, <3>1, <3>2
  <2> QED
    BY <1>0, <1>1, <1>3, <2>1, <2>2, <2>3 DEF TypesInv
<1>5. RegInv'
  BY <1>0, <1>1 DEF RegInv, RegisteredIffOpen, Registered, Active
<1>6. PagesInv'
  <2> SUFFICES ASSUME NEW r \in Requests
               PROVE  /\ pc[r] \in Asleep => Exact(log', PlayerOf[r], req[r].from, req[r].page)
                      /\ answer[r].kind = "page" =>
                           Exact(log', PlayerOf[r], answer[r].from, answer[r].page)
    BY <1>0, <1>1 DEF PagesInv
  <2>1. req[r] \in ReqRec /\ answer[r] \in AnswerRec
    BY <1>0 DEF TypesInv
  <2>2. /\ req[r].from \in Nat /\ req[r].page \in PageRec
        /\ answer[r].from \in Nat /\ answer[r].page \in PageRec
    BY <2>1 DEF ReqRec, AnswerRec
  <2>3. NoAnswer.kind # "page" /\ Error.kind # "page"
    BY DEF NoAnswer, Error
  <2>4. /\ pc[r] \in Asleep => Exact(log, PlayerOf[r], req[r].from, req[r].page)
        /\ answer[r].kind = "page" => Exact(log, PlayerOf[r], answer[r].from, answer[r].page)
    BY <1>0, <2>3 DEF PagesInv
  <2>5. Len(log) <= Len(log') /\ Len(log') \in Nat
    BY <1>3
  <2> QED
    BY <1>3, <2>2, <2>4, <2>5, ExactStays
<1>7. CallsInv'
  BY <1>0, <1>1 DEF CallsInv
<1>8. CursorInv'
  <2> SUFFICES ASSUME NEW p \in Players
               PROVE  /\ cursor[p] >= Start[p]
                      /\ cursor[p] <= Len(log') \/ cursor[p] = Start[p]
                      /\ Told(log', p, got[p], Start[p], Lower(cursor[p], Len(log')))
    BY <1>1 DEF CursorInv
  <2>1. cursor[p] \in Nat /\ Start[p] \in Nat /\ got[p] \in Seq(ItemRec)
    BY <1>0, <1>2 DEF TypesInv
  <2>2. Len(log) <= Len(log') /\ Len(log') \in Nat
    BY <1>3
  <2>3. /\ cursor[p] >= Start[p]
        /\ cursor[p] <= Len(log) \/ cursor[p] = Start[p]
        /\ Told(log, p, got[p], Start[p], Lower(cursor[p], Len(log)))
    BY <1>0 DEF CursorInv
  <2>4. /\ cursor[p] <= Len(log') \/ cursor[p] = Start[p]
        /\ Told(log', p, got[p], Start[p], Lower(cursor[p], Len(log')))
    BY <1>3, <2>1, <2>2, <2>3, ToldGrows
  <2> QED
    BY <2>3, <2>4
<1> QED
  BY <1>4, <1>5, <1>6, <1>7, <1>8 DEF EventsInv

LEMMA RefuseKeeps ==
  ASSUME EventsInv, NEW r \in Requests, pc[r] = "sent",
         pc' = [pc EXCEPT ![r] = "refused"], answer' = [answer EXCEPT ![r] = Error],
         UNCHANGED <<req, polls, scan, log, clientVars>>
  PROVE  EventsInv'
<1>0. TypesInv /\ RegInv /\ PagesInv /\ CallsInv /\ CursorInv
  BY DEF EventsInv
<1>1. /\ pc'[r] = "refused" /\ answer'[r] = Error /\ Error \in AnswerRec
      /\ \A s \in Requests : s # r => pc'[s] = pc[s] /\ answer'[s] = answer[s]
      /\ UNCHANGED <<req, polls, scan, log, call, cursor, got>>
  BY <1>0, RecordsTyped DEF TypesInv, clientVars
<1>2. /\ "refused" \in Labels /\ "refused" \notin Running \cup {"sent", "idle"}
      /\ "refused" \notin Asleep /\ Error.kind = "error"
  BY DEF Labels, Running, Asleep, Error, NoAnswer
<1>3. TypesInv'
  <2>1. pc' \in [Requests -> Labels] /\ answer' \in [Requests -> AnswerRec]
    BY <1>0, <1>1, <1>2 DEF TypesInv
  <2> QED
    BY <1>0, <1>1, <2>1 DEF TypesInv, SeenOK
<1>4. RegInv'
  <2>1. \A s \in Requests : Active(s)' <=> Active(s)
    BY <1>1 DEF Active
  <2>2. \A p \in Players : polls[p] # None => polls[p] \in Requests
    BY <1>0 DEF TypesInv
  <2> QED
    BY <1>0, <1>1, <2>1, <2>2 DEF RegInv, RegisteredIffOpen, Registered
<1>5. PagesInv'
  BY <1>0, <1>1, <1>2 DEF PagesInv
<1>6. CallsInv'
  BY <1>0, <1>1, <1>2 DEF CallsInv
<1>7. CursorInv'
  BY <1>0, <1>1 DEF CursorInv
<1> QED
  BY <1>3, <1>4, <1>5, <1>6, <1>7 DEF EventsInv

LEMMA RegisterKeeps ==
  ASSUME EventsInv, NEW r \in Requests, pc[r] = "sent",
         polls[PlayerOf[r]] # None \/ Cardinality(Registered) < MaxEventPolls,
         pc' = [pc EXCEPT ![r] = "read"], req' = Superseding(polls[PlayerOf[r]], req),
         polls' = [polls EXCEPT ![PlayerOf[r]] = r],
         UNCHANGED <<answer, scan, log, clientVars>>
  PROVE  EventsInv'
<1> DEFINE p == PlayerOf[r]
           prev == polls[p]
<1>0. TypesInv /\ RegInv /\ PagesInv /\ CallsInv /\ CursorInv
  BY DEF EventsInv
<1>a. p \in Players /\ None \notin Requests /\ prev \in Requests \cup {None}
  BY <1>0, PlayersOf DEF TypesInv
<1>1. /\ pc'[r] = "read"
      /\ \A s \in Requests : s # r => pc'[s] = pc[s]
      /\ UNCHANGED <<answer, scan, log, call, cursor, got>>
      /\ polls'[p] = r /\ \A o \in Players : o # p => polls'[o] = polls[o]
  BY <1>0, <1>a DEF TypesInv, clientVars
<1>2. /\ "read" \in Labels /\ "read" \in Running /\ "sent" \notin Running
      /\ "read" \notin Asleep /\ "read" # "idle"
  BY DEF Labels, Running, Asleep
<1>3. /\ req' \in [Requests -> ReqRec]
      /\ \A s \in Requests :
           /\ req'[s].from = req[s].from /\ req'[s].page = req[s].page
           /\ req'[s].seen = req[s].seen /\ req'[s].woke = req[s].woke
           /\ req'[s].scanned = req[s].scanned
           /\ s # prev => req'[s].superseded = req[s].superseded
           /\ s = prev => req'[s].superseded
  <2>0. req \in [Requests -> ReqRec]
    BY <1>0 DEF TypesInv
  <2>1. CASE prev = None
    <3>1. req' = req
      BY <2>1 DEF Superseding
    <3> QED
      BY <1>a, <2>0, <2>1, <3>1
  <2>2. CASE prev # None
    <3>1. req' = [req EXCEPT ![prev].superseded = TRUE, ![prev].over = TRUE]
      BY <2>2 DEF Superseding
    <3>2. prev \in Requests
      BY <1>a, <2>2
    <3> HIDE DEF p, prev
    <3> DEFINE q == [req[prev] EXCEPT !.superseded = TRUE, !.over = TRUE]
    <3>3. /\ q \in ReqRec /\ q.from = req[prev].from /\ q.superseded
          /\ q.page = req[prev].page /\ q.seen = req[prev].seen /\ q.woke = req[prev].woke
          /\ q.scanned = req[prev].scanned
      BY <2>0, <3>2 DEF ReqRec
    <3>4. req' = [req EXCEPT ![prev] = q]
      BY <2>0, <3>1, <3>2
    <3> HIDE DEF q
    <3>5. req' \in [Requests -> ReqRec] /\ req'[prev] = q
          /\ \A s \in Requests : s # prev => req'[s] = req[s]
      BY <2>0, <3>2, <3>3, <3>4
    <3> QED
      BY <3>2, <3>3, <3>5
  <2> QED
    BY <2>1, <2>2
<1>4. TypesInv'
  <2>1. pc' \in [Requests -> Labels]
    BY <1>0, <1>2 DEF TypesInv
  <2>2. /\ polls' \in [Players -> Requests \cup {None}]
        /\ \A o \in Players : polls'[o] # None => PlayerOf[polls'[o]] = o
    BY <1>0, <1>a, <1>1 DEF TypesInv
  <2>3. \A s \in Requests : SeenOK(s)'
    BY <1>0, <1>1, <1>3 DEF TypesInv, SeenOK
  <2> QED
    BY <1>0, <1>1, <1>3, <2>1, <2>2, <2>3 DEF TypesInv
<1>5. RegInv'
  <2>1. /\ Active(r)' /\ ~Active(r)
        /\ \A s \in Requests : s # r => (Active(s)' <=> Active(s))
    BY <1>1 DEF Active
  <2>2. /\ \A s \in Requests : Active(s) /\ ~req[s].superseded => polls[PlayerOf[s]] = s
        /\ \A o \in Players : polls[o] # None => /\ polls[o] \in Requests
                                                 /\ PlayerOf[polls[o]] = o
                                                 /\ Active(polls[o])
                                                 /\ ~req[polls[o]].superseded
        /\ Cardinality(Registered) <= MaxEventPolls /\ IsFiniteSet(Registered)
    BY <1>0 DEF RegInv, RegisteredIffOpen, TypesInv, Registered
  <2>3. ~req[r].superseded
    <3>1. pc[r] = "sent" => ~req[r].superseded
      BY <1>0 DEF CallsInv
    <3> QED
      BY <3>1
  <2>4. prev # r
    BY <1>a, <2>1, <2>2
  <2>5. ASSUME NEW s \in Requests, Active(s)', ~req'[s].superseded
        PROVE  polls'[PlayerOf[s]] = s
    <3>1. CASE s = r
      BY <1>1, <3>1
    <3>2. CASE s # r
      <4>1. Active(s) /\ s # prev /\ ~req[s].superseded
        BY <1>3, <2>1, <2>5, <3>2
      <4>2. polls[PlayerOf[s]] = s /\ PlayerOf[s] \in Players
        BY <2>2, <4>1, PlayersOf
      <4>3. PlayerOf[s] # p
        BY <4>1, <4>2
      <4> QED
        BY <1>1, <4>2, <4>3
    <3> QED
      BY <3>1, <3>2
  <2>6. ASSUME NEW o \in Players, NEW s \in Requests, polls'[o] = s
        PROVE  Active(s)' /\ ~req'[s].superseded
    <3>1. CASE o = p
      <4>1. s = r
        BY <1>1, <2>6, <3>1
      <4> QED
        BY <1>3, <2>1, <2>3, <2>4, <4>1
    <3>2. CASE o # p
      <4>1. polls[o] = s /\ s # None
        BY <1>1, <1>a, <2>6, <3>2
      <4>2. PlayerOf[s] = o /\ Active(s) /\ ~req[s].superseded
        BY <2>2, <4>1
      <4>3. s # r /\ s # prev
        BY <2>1, <2>2, <4>2, <1>a, <3>2
      <4> QED
        BY <1>3, <2>1, <4>2, <4>3
    <3> QED
      BY <3>1, <3>2
  <2>7. Registered' = Registered \cup {p}
    BY <1>a, <1>1 DEF Registered
  <2>8. IsFiniteSet(Registered') /\ Cardinality(Registered') <= MaxEventPolls
    <3>1. CASE p \in Registered
      <4>1. Registered' = Registered
        BY <2>7, <3>1
      <4> QED
        BY <2>2, <4>1
    <3>2. CASE p \notin Registered
      <4>1. Cardinality(Registered) < MaxEventPolls
        BY <1>a, <3>2 DEF Registered
      <4>2. IsFiniteSet(Registered') /\ Cardinality(Registered') = Cardinality(Registered) + 1
        BY <2>2, <2>7, <3>2, FS_AddElement
      <4>3. Cardinality(Registered) \in Nat /\ MaxEventPolls \in Nat
        BY <2>2, FS_CardinalityType, EventsAssumption DEF EventsAssumption
      <4> QED
        BY <4>1, <4>2, <4>3
    <3> QED
      BY <3>1, <3>2
  <2>9. \A o \in Players : polls'[o] # None => polls'[o] \in Requests
    BY <1>4 DEF TypesInv
  <2> QED
    BY <2>5, <2>6, <2>8, <2>9 DEF RegInv, RegisteredIffOpen, Registered, Active
<1>6. PagesInv'
  <2>1. \A s \in Requests : pc'[s] \in Asleep => pc[s] \in Asleep
    BY <1>1, <1>2
  <2> QED
    BY <1>0, <1>1, <1>3, <2>1 DEF PagesInv
<1>7. CallsInv'
  <2>1. \A s \in Requests :
          /\ pc'[s] = "idle" => pc[s] = "idle"
          /\ pc[s] # "idle" => pc'[s] # "idle"
          /\ pc'[s] \in Running \cup {"sent"} => pc[s] \in Running \cup {"sent"}
    BY <1>1, <1>2
  <2>2. ASSUME NEW s \in Requests, pc'[s] = "sent" PROVE ~req'[s].superseded
    <3>1. pc[s] = "sent" /\ ~Active(s)
      BY <1>1, <2>2 DEF Active
    <3>2. s # prev
      BY <1>0, <1>a, <3>1 DEF RegInv, RegisteredIffOpen
    <3> QED
      BY <1>0, <1>3, <3>1, <3>2 DEF CallsInv
  <2> QED
    BY <1>0, <1>1, <1>3, <2>1, <2>2 DEF CallsInv
<1>8. CursorInv'
  BY <1>0, <1>1 DEF CursorInv
<1> QED
  BY <1>4, <1>5, <1>6, <1>7, <1>8 DEF EventsInv

LEMMA PublishKeeps ==
  ASSUME EventsInv, NEW r \in Requests, Publish(r)
  PROVE  EventsInv'
<1>0. TypesInv /\ RegInv /\ PagesInv /\ CallsInv /\ CursorInv
  BY DEF EventsInv
<1>1. /\ pc[r] = "publish" /\ pc' = [pc EXCEPT ![r] = "await"] /\ scan' = NoScan
      /\ UNCHANGED <<polls, answer, log, call, cursor, got>>
  BY DEF Publish, Goto, clientVars
<1>2. /\ {"await", "publish"} \subseteq Labels /\ {"await", "publish"} \subseteq Running
      /\ {"await", "publish"} \subseteq Asleep
      /\ "await" \notin {"idle", "sent"}
  BY DEF Labels, Running, Asleep
<1>3. pc'[r] = "await" /\ \A s \in Requests : s # r => pc'[s] = pc[s]
  BY <1>0, <1>1 DEF TypesInv
<1>4. ASSUME NEW s \in Requests
      PROVE  /\ req'[s] \in ReqRec
             /\ req'[s].from = req[s].from /\ req'[s].page = req[s].page
             /\ req'[s].superseded = req[s].superseded
             /\ req'[s].seen <= Len(log) /\ req'[s].woke <= Len(log) /\ req'[s].scanned <= Len(log)
  <2>1. req[s] \in ReqRec /\ SeenOK(s) /\ scan.applied \in Nat /\ scan.applied <= Len(log)
    BY <1>0 DEF TypesInv, ScanRec
  <2>2. CASE s \in Covered
    <3> DEFINE b == s \in scan.found
    <3>1. req' = [c \in Requests |->
                    IF c \in Covered
                    THEN [req[c] EXCEPT !.scanned = scan.applied, !.relevant = c \in scan.found]
                    ELSE req[c]]
      BY DEF Publish
    <3>2. req'[s] = [req[s] EXCEPT !.scanned = scan.applied, !.relevant = b]
      BY <2>2, <3>1, Zenon
    <3>3. b \in BOOLEAN
      OBVIOUS
    <3> HIDE DEF b
    <3> QED
      BY <2>1, <3>2, <3>3 DEF ReqRec, SeenOK
  <2>3. CASE s \notin Covered
    <3>1. req'[s] = req[s]
      BY <2>3 DEF Publish
    <3> QED
      BY <2>1, <3>1 DEF SeenOK
  <2> QED
    BY <2>2, <2>3
<1>5. TypesInv'
  <2>1. pc' \in [Requests -> Labels]
    BY <1>0, <1>1, <1>2 DEF TypesInv
  <2>2. req' \in [Requests -> ReqRec]
    <3>1. req' = [c \in Requests |-> req'[c]]
      BY DEF Publish
    <3> QED
      BY <3>1, <1>4
  <2>3. \A s \in Requests : SeenOK(s)'
    BY <1>1, <1>4 DEF SeenOK
  <2>4. scan' \in ScanRec /\ scan'.applied <= Len(log)
    BY <1>0, <1>1, RecordsTyped DEF NoScan, TypesInv
  <2> QED
    BY <1>0, <1>1, <2>1, <2>2, <2>3, <2>4 DEF TypesInv
<1>6. RegInv'
  <2>1. \A s \in Requests : Active(s)' <=> Active(s)
    BY <1>1, <1>3 DEF Active
  <2>2. \A p \in Players : polls[p] # None => polls[p] \in Requests
    BY <1>0 DEF TypesInv
  <2> QED
    BY <1>0, <1>1, <1>4, <2>1, <2>2 DEF RegInv, RegisteredIffOpen, Registered, Active
<1>7. PagesInv'
  BY <1>0, <1>1, <1>2, <1>3, <1>4 DEF PagesInv
<1>8. CallsInv'
  BY <1>0, <1>1, <1>2, <1>3, <1>4 DEF CallsInv
<1>9. CursorInv'
  BY <1>0, <1>1 DEF CursorInv
<1> QED
  BY <1>5, <1>6, <1>7, <1>8, <1>9 DEF EventsInv

LEMMA CloseKeeps ==
  ASSUME EventsInv, NEW r \in Requests, Close(r)
  PROVE  EventsInv'
<1> DEFINE p == PlayerOf[r]
<1>0. TypesInv /\ RegInv /\ PagesInv /\ CallsInv /\ CursorInv
  BY DEF EventsInv
<1>1. /\ pc[r] = "closing" /\ pc' = [pc EXCEPT ![r] = "done"]
      /\ req' = [req EXCEPT ![r] = NewReq(0)] /\ polls' = Unregister(r)
      /\ UNCHANGED <<scan, answer, log, call, cursor, got>>
  BY DEF Close, Goto, clientVars
<1>a. p \in Players /\ None \notin Requests
  BY PlayersOf
<1>2. /\ "done" \in Labels /\ "done" \notin Running \cup {"idle", "sent"} \cup Asleep
      /\ NewReq(0) \in ReqRec /\ ~NewReq(0).superseded
      /\ NewReq(0).seen = 0 /\ NewReq(0).woke = 0 /\ NewReq(0).scanned = 0
  BY RecordsTyped DEF Labels, Running, Asleep, NewReq
<1>3. /\ pc'[r] = "done" /\ req'[r] = NewReq(0)
      /\ \A s \in Requests : s # r => pc'[s] = pc[s] /\ req'[s] = req[s]
  BY <1>0, <1>1 DEF TypesInv
<1>4. /\ \A o \in Players : polls'[o] = IF polls[o] = r THEN None ELSE polls[o]
      /\ polls' \in [Players -> Requests \cup {None}]
  <2>1. \A o \in Players : polls[o] = r => o = p
    BY <1>0, <1>a DEF TypesInv
  <2> QED
    BY <1>0, <1>1, <1>a, <2>1 DEF Unregister, TypesInv
<1>5. TypesInv'
  <2>1. pc' \in [Requests -> Labels] /\ req' \in [Requests -> ReqRec]
    BY <1>0, <1>1, <1>2 DEF TypesInv
  <2>2. ASSUME NEW s \in Requests PROVE SeenOK(s)'
    BY <1>0, <1>1, <1>2, <1>3 DEF TypesInv, SeenOK
  <2>3. \A o \in Players : polls'[o] # None => PlayerOf[polls'[o]] = o
    BY <1>0, <1>4 DEF TypesInv
  <2> QED
    BY <1>0, <1>1, <1>4, <2>1, <2>2, <2>3 DEF TypesInv
<1>6. RegInv'
  <2>1. ~Active(r)' /\ \A s \in Requests : s # r => (Active(s)' <=> Active(s))
    BY <1>3 DEF Active
  <2>2. /\ \A s \in Requests : Active(s) /\ ~req[s].superseded => polls[PlayerOf[s]] = s
        /\ \A o \in Players : polls[o] # None => /\ polls[o] \in Requests
                                                 /\ Active(polls[o])
                                                 /\ ~req[polls[o]].superseded
        /\ Cardinality(Registered) <= MaxEventPolls /\ IsFiniteSet(Registered)
    BY <1>0 DEF RegInv, RegisteredIffOpen, TypesInv, Registered
  <2>3. ASSUME NEW s \in Requests, Active(s)', ~req'[s].superseded
        PROVE  polls'[PlayerOf[s]] = s
    <3>1. s # r /\ Active(s) /\ ~req[s].superseded /\ PlayerOf[s] \in Players
      BY <1>3, <2>1, <2>3, PlayersOf
    <3> QED
      BY <1>4, <2>2, <3>1
  <2>4. ASSUME NEW o \in Players, NEW s \in Requests, polls'[o] = s
        PROVE  Active(s)' /\ ~req'[s].superseded
    <3>1. s # r /\ polls[o] = s /\ s # None
      BY <1>4, <1>a, <2>4
    <3> QED
      BY <1>3, <2>1, <2>2, <3>1
  <2>5. Registered' \in SUBSET Registered
    BY <1>4 DEF Registered
  <2>6. IsFiniteSet(Registered') /\ Cardinality(Registered') <= Cardinality(Registered)
        /\ Cardinality(Registered) \in Nat
    BY <2>2, <2>5, FS_Subset, FS_CardinalityType
  <2>7. Cardinality(Registered') <= MaxEventPolls
    <3>1. Cardinality(Registered') \in Nat /\ MaxEventPolls \in Nat
      BY <2>6, FS_CardinalityType, EventsAssumption DEF EventsAssumption
    <3> QED
      BY <2>2, <2>6, <3>1
  <2>8. \A o \in Players : polls'[o] # None => polls'[o] \in Requests
    BY <1>4
  <2> QED
    BY <2>3, <2>4, <2>6, <2>7, <2>8 DEF RegInv, RegisteredIffOpen, Registered, Active
<1>7. PagesInv'
  BY <1>0, <1>1, <1>2, <1>3 DEF PagesInv
<1>8. CallsInv'
  BY <1>0, <1>1, <1>2, <1>3 DEF CallsInv
<1>9. CursorInv'
  BY <1>0, <1>1 DEF CursorInv
<1> QED
  BY <1>5, <1>6, <1>7, <1>8, <1>9 DEF EventsInv

LEMMA SendKeeps ==
  ASSUME EventsInv, NEW r \in Requests, Send(r)
  PROVE  EventsInv'
<1> DEFINE p == PlayerOf[r]
           q == NewReq(cursor[p])
<1>0. TypesInv /\ RegInv /\ PagesInv /\ CallsInv /\ CursorInv
  BY DEF EventsInv
<1>1. /\ pc[r] = "idle" /\ pc' = [pc EXCEPT ![r] = "sent"]
      /\ req' = [req EXCEPT ![r] = q] /\ call' = [call EXCEPT ![p] = r]
      /\ UNCHANGED <<polls, scan, answer, log, cursor, got>>
  BY DEF Send, Goto
<1>a. p \in Players /\ None \notin Requests /\ cursor[p] \in Nat
  BY <1>0, PlayersOf DEF TypesInv
<1>2. /\ "sent" \in Labels /\ "sent" \notin Running \cup {"idle"} \cup Asleep
      /\ q \in ReqRec /\ ~q.superseded /\ q.from = cursor[p]
      /\ q.seen = 0 /\ q.woke = 0 /\ q.scanned = 0
  BY <1>a, RecordsTyped DEF Labels, Running, Asleep, NewReq
<1> HIDE DEF q
<1>3. /\ pc'[r] = "sent" /\ req'[r] = q /\ call'[p] = r
      /\ \A s \in Requests : s # r => pc'[s] = pc[s] /\ req'[s] = req[s]
      /\ \A o \in Players : o # p => call'[o] = call[o]
  BY <1>0, <1>1, <1>a DEF TypesInv
<1>5. TypesInv'
  <2>1. pc' \in [Requests -> Labels] /\ req' \in [Requests -> ReqRec]
        /\ call' \in [Players -> Requests \cup {None}]
    BY <1>0, <1>1, <1>2 DEF TypesInv
  <2>2. ASSUME NEW s \in Requests PROVE SeenOK(s)'
    BY <1>0, <1>1, <1>2, <1>3 DEF TypesInv, SeenOK
  <2>3. \A o \in Players : call'[o] # None => PlayerOf[call'[o]] = o
    BY <1>0, <1>3 DEF TypesInv
  <2> QED
    BY <1>0, <1>1, <2>1, <2>2, <2>3 DEF TypesInv
<1>6. RegInv'
  <2>1. ~Active(r)' /\ ~Active(r) /\ \A s \in Requests : s # r => (Active(s)' <=> Active(s))
    BY <1>1, <1>3 DEF Active
  <2>2. \A o \in Players : polls[o] # None => polls[o] \in Requests
    BY <1>0 DEF TypesInv
  <2> QED
    BY <1>0, <1>1, <1>3, <2>1, <2>2 DEF RegInv, RegisteredIffOpen, Registered, Active
<1>7. PagesInv'
  BY <1>0, <1>1, <1>2, <1>3 DEF PagesInv
<1>8. CallsInv'
  <2>1. NoAnswer.kind # "page" /\ answer[r] = NoAnswer
    BY <1>0, <1>1 DEF NoAnswer, CallsInv
  <2>2. ASSUME NEW s \in Requests, s # r PROVE call'[PlayerOf[s]] = s => call[PlayerOf[s]] = s
    BY <1>3, <2>2, PlayersOf
  <2> QED
    BY <1>0, <1>1, <1>2, <1>3, <2>1, <2>2 DEF CallsInv
<1>9. CursorInv'
  BY <1>0, <1>1 DEF CursorInv
<1> QED
  BY <1>5, <1>6, <1>7, <1>8, <1>9 DEF EventsInv

\* A client takes the answer of the call it waits for: the page follows on what
\* it was handed before.
LEMMA HandOver ==
  ASSUME NEW l, Len(l) \in Nat, NEW p, NEW a \in Nat, NEW c \in Nat, NEW cur \in Nat,
         NEW s \in Seq(ItemRec), NEW t \in Seq(ItemRec),
         a <= c, c <= Len(l) \/ c = a, cur >= c, cur <= Len(l) \/ cur = c,
         Told(l, p, s, a, Lower(c, Len(l))), Told(l, p, t, c, Lower(cur, Len(l)))
  PROVE  Told(l, p, s \o t, a, Lower(cur, Len(l)))
<1> DEFINE b == Lower(cur, Len(l))
<1>1. b \in Nat /\ b <= cur
  BY DEF Lower
<1>2. CASE c <= Len(l)
  <2>1. Lower(c, Len(l)) = c /\ c <= b
    BY <1>2 DEF Lower
  <2>2. Told(l, p, s, a, c) /\ Told(l, p, t, c, b)
    BY <2>1
  <2> HIDE DEF b
  <2>3. Told(l, p, s \o t, a, b)
    BY <1>1, <2>1, <2>2, ToldJoin
  <2> QED
    BY <2>3 DEF b
<1>3. CASE ~(c <= Len(l))
  <2>1. c = a /\ cur = c /\ Lower(c, Len(l)) = b
    BY <1>3
  <2>2. b <= a /\ Told(l, p, s, a, b) /\ Told(l, p, t, a, b)
    BY <1>1, <2>1
  <2> HIDE DEF b
  <2>3. Len(s) = 0 /\ Len(t) = 0
    BY <1>1, <2>2, ToldNothing
  <2>4. s \o t = s
    BY <2>3
  <2> QED
    BY <2>2, <2>4 DEF b
<1> QED
  BY <1>2, <1>3

LEMMA ReceiveKeeps ==
  ASSUME EventsInv, NEW r \in Requests, Receive(r)
  PROVE  EventsInv'
<1> DEFINE p == PlayerOf[r]
           page == answer[r].page
<1>0. TypesInv /\ RegInv /\ PagesInv /\ CallsInv /\ CursorInv
  BY DEF EventsInv
<1>1. /\ answer[r] # NoAnswer /\ call[p] = r
      /\ call' = [call EXCEPT ![p] = None] /\ answer' = [answer EXCEPT ![r] = NoAnswer]
      /\ UNCHANGED <<pc, req, polls, scan, log>>
  BY DEF Receive, Expects
<1>a. /\ p \in Players /\ None \notin Requests /\ Start[p] \in Nat /\ cursor[p] \in Nat
      /\ NoAnswer \in AnswerRec /\ Len(log) \in Nat /\ answer[r] \in AnswerRec
  BY <1>0, PlayersOf, RecordsTyped, EventsAssumption DEF TypesInv, EventsAssumption
<1>2. /\ call'[p] = None /\ answer'[r] = NoAnswer
      /\ \A s \in Requests : s # r => answer'[s] = answer[s]
      /\ \A o \in Players : o # p => call'[o] = call[o]
  BY <1>0, <1>1, <1>a DEF TypesInv
<1>3. \/ UNCHANGED <<cursor, got>>
      \/ /\ answer[r].kind = "page"
         /\ got' = [got EXCEPT ![p] = got[p] \o page.events]
         /\ cursor' = [cursor EXCEPT ![p] = IF page.cursor > cursor[p] THEN page.cursor ELSE cursor[p]]
  BY <1>0, <1>1 DEF Receive, PagesInv
<1>4. CASE UNCHANGED <<cursor, got>>
  <2>1. TypesInv'
    <3>1. /\ call' \in [Players -> Requests \cup {None}]
          /\ \A o \in Players : call'[o] # None => PlayerOf[call'[o]] = o
          /\ answer' \in [Requests -> AnswerRec]
      BY <1>0, <1>1, <1>2, <1>a DEF TypesInv
    <3> QED
      BY <1>0, <1>1, <1>4, <3>1 DEF TypesInv, SeenOK
  <2>2. CursorInv'
    BY <1>0, <1>1, <1>4 DEF CursorInv
  <2> QED
    <3>1. RegInv'
      BY <1>0, <1>1 DEF RegInv, RegisteredIffOpen, Registered, Active
    <3>2. PagesInv'
      BY <1>0, <1>1, <1>2 DEF PagesInv
    <3>3. CallsInv'
      <4>1. \A s \in Requests : call'[PlayerOf[s]] = s => call[PlayerOf[s]] = s /\ s # r
        BY <1>2, <1>a, PlayersOf
      <4> QED
        BY <1>0, <1>1, <1>2, <1>4, <4>1 DEF CallsInv
    <3> QED
      BY <2>1, <2>2, <3>1, <3>2, <3>3 DEF EventsInv
<1>5. CASE /\ answer[r].kind = "page"
           /\ got' = [got EXCEPT ![p] = got[p] \o page.events]
           /\ cursor' = [cursor EXCEPT ![p] = IF page.cursor > cursor[p] THEN page.cursor ELSE cursor[p]]
  <2>1. page.cursor \in Nat /\ page.events \in Seq(ItemRec)
    BY <1>a DEF AnswerRec, PageRec
  <2>2. Exact(log, p, cursor[p], page)
    <3>1. NoAnswer.kind # "page" /\ Error.kind # "page"
      BY DEF NoAnswer, Error
    <3> QED
      BY <1>0, <1>1, <1>5, <3>1 DEF PagesInv, CallsInv
  <2>3. page.cursor >= cursor[p]
    BY <2>2 DEF Exact
  <2>4. cursor' = [cursor EXCEPT ![p] = page.cursor]
    <3>1. PICK n : n = page.cursor
      OBVIOUS
    <3>2. n \in Nat /\ n >= cursor[p] /\ cursor[p] \in Nat
      BY <1>a, <2>1, <2>3, <3>1
    <3>3. (IF n > cursor[p] THEN n ELSE cursor[p]) = n
      BY <3>2
    <3>4. cursor' = [cursor EXCEPT ![p] = IF n > cursor[p] THEN n ELSE cursor[p]]
      BY <1>5, <3>1, Zenon
    <3> QED
      BY <3>1, <3>3, <3>4, Zenon
  <2> HIDE DEF page
  <2>5. /\ cursor'[p] = page.cursor /\ got'[p] = got[p] \o page.events
        /\ \A o \in Players : o # p => cursor'[o] = cursor[o] /\ got'[o] = got[o]
    BY <1>0, <1>5, <1>a, <2>4 DEF TypesInv
  <2>6. TypesInv'
    <3>1. /\ call' \in [Players -> Requests \cup {None}]
          /\ \A o \in Players : call'[o] # None => PlayerOf[call'[o]] = o
          /\ answer' \in [Requests -> AnswerRec]
      BY <1>0, <1>1, <1>2, <1>a DEF TypesInv
    <3>2. cursor' \in [Players -> Nat]
      BY <1>0, <2>1, <2>4 DEF TypesInv
    <3>3. got[p] \in Seq(ItemRec)
      BY <1>0, <1>a DEF TypesInv
    <3>4. got[p] \o page.events \in Seq(ItemRec)
      BY <2>1, <3>3
    <3>5. got' \in [Players -> Seq(ItemRec)]
      BY <1>0, <1>5, <3>4 DEF TypesInv
    <3> QED
      BY <1>0, <1>1, <3>1, <3>2, <3>5 DEF TypesInv, SeenOK
  <2>7. CursorInv'
    <3> SUFFICES ASSUME NEW o \in Players
                 PROVE  /\ cursor'[o] >= Start[o]
                        /\ cursor'[o] <= Len(log) \/ cursor'[o] = Start[o]
                        /\ Told(log, o, got'[o], Start[o], Lower(cursor'[o], Len(log)))
      BY <1>1 DEF CursorInv
    <3>1. CASE o = p
      <4>1. /\ Start[p] <= cursor[p] /\ (cursor[p] <= Len(log) \/ cursor[p] = Start[p])
            /\ Told(log, p, got[p], Start[p], Lower(cursor[p], Len(log)))
        BY <1>0, <1>a DEF CursorInv
      <4>2. /\ page.cursor >= Start[p]
            /\ page.cursor <= Len(log) \/ page.cursor = Start[p]
            /\ Told(log, p, got[p] \o page.events, Start[p], Lower(page.cursor, Len(log)))
        <5> HIDE DEF p
        <5>1. Start[p] \in Nat /\ cursor[p] \in Nat /\ Len(log) \in Nat
          BY <1>a
        <5>2. /\ page.cursor >= cursor[p] /\ (page.cursor <= Len(log) \/ page.cursor = cursor[p])
              /\ Told(log, p, page.events, cursor[p], Lower(page.cursor, Len(log)))
          BY <2>2 DEF Exact
        <5>3. PICK st, c, g, cur, evs : /\ st = Start[p] /\ c = cursor[p] /\ g = got[p]
                                        /\ cur = page.cursor /\ evs = page.events
          OBVIOUS
        <5>4. /\ st \in Nat /\ c \in Nat /\ cur \in Nat
              /\ st <= c /\ (c <= Len(log) \/ c = st) /\ Told(log, p, g, st, Lower(c, Len(log)))
              /\ cur >= c /\ (cur <= Len(log) \/ cur = c)
              /\ Told(log, p, evs, c, Lower(cur, Len(log)))
          BY <5>1, <5>2, <5>3, <2>1, <4>1
        <5>5. /\ cur >= st
              /\ cur <= Len(log) \/ cur = st
          BY <5>1, <5>4
        <5>6. g \in Seq(ItemRec) /\ evs \in Seq(ItemRec)
          BY <1>0, <1>a, <2>1, <5>3 DEF TypesInv, p
        <5>7. Told(log, p, g \o evs, st, Lower(cur, Len(log)))
          BY <5>1, <5>4, <5>6, HandOver
        <5> QED
          BY <5>3, <5>5, <5>7, Zenon
      <4> QED
        BY <2>5, <3>1, <4>2
    <3>2. CASE o # p
      <4>1. cursor'[o] = cursor[o] /\ got'[o] = got[o]
        BY <2>5, <3>2
      <4>2. /\ cursor[o] >= Start[o] /\ (cursor[o] <= Len(log) \/ cursor[o] = Start[o])
            /\ Told(log, o, got[o], Start[o], Lower(cursor[o], Len(log)))
        <5>1. cursor \in [Players -> Nat] /\ Start \in [Players -> Nat] /\ Len(log) \in Nat
          BY <1>0, EventsAssumption DEF TypesInv, EventsAssumption
        <5> QED
          BY <1>0, <5>1 DEF CursorInv
      <4> QED
        BY <4>1, <4>2
    <3> QED
      BY <3>1, <3>2
  <2> QED
    <3>1. RegInv'
      BY <1>0, <1>1 DEF RegInv, RegisteredIffOpen, Registered, Active
    <3>2. PagesInv'
      BY <1>0, <1>1, <1>2 DEF PagesInv
    <3>3. CallsInv'
      <4>1. \A s \in Requests : call'[PlayerOf[s]] = s =>
              call[PlayerOf[s]] = s /\ s # r /\ PlayerOf[s] # p /\ PlayerOf[s] \in Players
        BY <1>2, <1>a, PlayersOf
      <4> QED
        BY <1>0, <1>1, <1>2, <2>5, <4>1 DEF CallsInv
    <3> QED
      BY <2>6, <2>7, <3>1, <3>2, <3>3 DEF EventsInv
<1> QED
  BY <1>3, <1>4, <1>5

LEMMA AbandonKeeps ==
  ASSUME EventsInv, NEW p \in Players, Abandon(p)
  PROVE  EventsInv'
<1>0. TypesInv /\ RegInv /\ PagesInv /\ CallsInv /\ CursorInv
  BY DEF EventsInv
<1>1. /\ call' = [call EXCEPT ![p] = None]
      /\ UNCHANGED <<pc, req, polls, scan, answer, log, cursor, got>>
  BY DEF Abandon, serverVars
<1>2. call'[p] = None /\ \A o \in Players : o # p => call'[o] = call[o]
  BY <1>0, <1>1 DEF TypesInv
<1>3. TypesInv'
  <2>1. /\ call' \in [Players -> Requests \cup {None}]
        /\ \A o \in Players : call'[o] # None => PlayerOf[call'[o]] = o
    BY <1>0, <1>1, <1>2 DEF TypesInv
  <2> QED
    BY <1>0, <1>1, <2>1 DEF TypesInv, SeenOK
<1>4. RegInv'
  BY <1>0, <1>1 DEF RegInv, RegisteredIffOpen, Registered, Active
<1>5. PagesInv'
  BY <1>0, <1>1 DEF PagesInv
<1>6. CallsInv'
  <2>1. \A s \in Requests : call'[PlayerOf[s]] = s => call[PlayerOf[s]] = s
    BY <1>2, PlayersOf
  <2> QED
    BY <1>0, <1>1, <2>1 DEF CallsInv
<1>7. CursorInv'
  BY <1>0, <1>1 DEF CursorInv
<1> QED
  BY <1>3, <1>4, <1>5, <1>6, <1>7 DEF EventsInv

LEMMA EventsInit == Init => EventsInv
<1> SUFFICES ASSUME Init PROVE EventsInv
  OBVIOUS
<1>0. TypesInv
  BY TypesInit
<1>1. /\ PlayerOf \in [Requests -> Players] /\ Waiting \subseteq Requests
      /\ None \notin Requests /\ Start \in [Players -> Nat] /\ MaxEventPolls \in Nat
      /\ IsFiniteSet(Waiting) /\ Cardinality(Waiting) <= MaxEventPolls
  BY EventsAssumption DEF EventsAssumption
<1>2. /\ Len(log) = 0 /\ Len(log) \in Nat
      /\ polls = [p \in Players |-> Held(p)] /\ call = [p \in Players |-> Held(p)]
      /\ cursor = Start /\ got = [p \in Players |-> <<>>]
      /\ answer = [r \in Requests |-> NoAnswer]
      /\ pc = [r \in Requests |-> IF r \in Waiting THEN "wait" ELSE "idle"]
  BY InitLog DEF Init
<1>3. ASSUME NEW r \in Requests
      PROVE  /\ r \in Waiting <=> polls[PlayerOf[r]] = r
             /\ pc[r] = (IF r \in Waiting THEN "wait" ELSE "idle")
             /\ ~req[r].superseded /\ answer[r] = NoAnswer
             /\ r \in Waiting => /\ req[r].from = Start[PlayerOf[r]]
                                /\ req[r].page = PageAfter(PlayerOf[r], req[r].from)
  <2>1. PlayerOf[r] \in Players
    BY <1>1
  <2>2. r \in Waiting <=> polls[PlayerOf[r]] = r
    BY <1>1, <1>2, <2>1, HeldIs
  <2>3. CASE r \in Waiting
    <3> DEFINE f == Start[PlayerOf[r]]
               page == PageAfter(PlayerOf[r], f)
    <3>1. req[r] = [NewReq(f) EXCEPT !.page = page]
      BY <2>3 DEF Init
    <3> HIDE DEF f, page
    <3>2. ~req[r].superseded /\ req[r].from = f /\ req[r].page = page
      BY <3>1 DEF NewReq
    <3> QED
      BY <1>2, <2>2, <2>3, <3>2 DEF f, page
  <2>4. CASE r \notin Waiting
    <3>1. req[r] = NewReq(0)
      BY <2>4 DEF Init
    <3> QED
      BY <1>2, <2>2, <2>4, <3>1 DEF NewReq
  <2> QED
    BY <2>3, <2>4
<1>4. RegInv
  <2>1. \A r \in Requests : Active(r) <=> r \in Waiting
    BY <1>3 DEF Active
  <2>2. \A p \in Players : polls[p] # None => polls[p] \in Waiting /\ polls[p] \in Requests
    BY <1>1, <1>2, HeldIs
  <2>3. Registered = {PlayerOf[r] : r \in Waiting}
    <3>1. \A p \in Players : polls[p] # None => PlayerOf[polls[p]] = p
      BY <1>0 DEF TypesInv
    <3>2. \A r \in Waiting : PlayerOf[r] \in Players /\ polls[PlayerOf[r]] = r /\ r # None
      BY <1>1, <1>3
    <3> QED
      BY <2>2, <3>1, <3>2 DEF Registered
  <2>4. IsFiniteSet(Registered) /\ Cardinality(Registered) <= Cardinality(Waiting)
    <3> DEFINE F(r) == PlayerOf[r]
    <3>1. Registered = {F(r) : r \in Waiting}
      BY <2>3
    <3>2. IsFiniteSet({F(r) : r \in Waiting})
          /\ Cardinality({F(r) : r \in Waiting}) <= Cardinality(Waiting)
      <4> DEFINE G == [r \in Waiting |-> PlayerOf[r]]
                 T == {F(r) : r \in Waiting}
      <4>1. G \in [Waiting -> T] /\ \A t \in T : \E r \in Waiting : G[r] = t
        OBVIOUS
      <4>2. G \in Surjection(Waiting, T)
        BY <4>1 DEF Surjection
      <4> HIDE DEF G, T
      <4> QED
        BY <1>1, <4>2, FS_Surjection DEF T
    <3> QED
      BY <3>1, <3>2
  <2>5. Cardinality(Registered) <= MaxEventPolls
    <3>1. Cardinality(Registered) \in Nat /\ Cardinality(Waiting) \in Nat
      BY <1>1, <2>4, FS_CardinalityType
    <3> QED
      BY <1>1, <2>4, <3>1
  <2> QED
    BY <1>3, <2>1, <2>2, <2>4, <2>5 DEF RegInv, RegisteredIffOpen, Registered
<1>5. PagesInv
  <2> SUFFICES ASSUME NEW r \in Waiting
               PROVE  Exact(log, PlayerOf[r], req[r].from, req[r].page)
    BY <1>1, <1>3 DEF PagesInv, Asleep
  <2>1. /\ req[r].from \in Nat /\ req[r].page = PageAfter(PlayerOf[r], req[r].from)
        /\ PlayerOf[r] \in Players
    BY <1>1, <1>3
  <2> QED
    BY <2>1, InitLog, PageIsExact
<1>6. CallsInv
  <2>1. NoAnswer.kind # "page"
    BY DEF NoAnswer
  <2>2. \A r \in Requests : call[PlayerOf[r]] = r => r \in Waiting
    BY <1>2, <1>3
  <2> QED
    BY <1>2, <1>3, <2>1, <2>2 DEF CallsInv
<1>7. CursorInv
  <2> SUFFICES ASSUME NEW p \in Players
               PROVE  Told(log, p, got[p], Start[p], Lower(Start[p], Len(log)))
    BY <1>1, <1>2 DEF CursorInv
  <2>1. Start[p] \in Nat /\ Lower(Start[p], Len(log)) = 0
    BY <1>1, <1>2 DEF Lower
  <2>2. got[p] = <<>>
    BY <1>2
  <2>3. \A i \in 1..Len(<<>>) : FALSE
    OBVIOUS
  <2>4. \A i \in 1..Len(got[p]) : FALSE
    BY <2>2, <2>3, Zenon
  <2>5. \A n \in 1..0 : FALSE
    OBVIOUS
  <2>6. Told(log, p, got[p], Start[p], 0)
    BY <2>4, <2>5, Zenon DEF Told
  <2> QED
    BY <2>1, <2>6, Zenon
<1> QED
  BY <1>0, <1>4, <1>5, <1>6, <1>7 DEF EventsInv

LEMMA OpenKeeps ==
  ASSUME EventsInv, NEW r \in Requests, Open(r)
  PROVE  EventsInv'
<1> DEFINE full == /\ polls[PlayerOf[r]] = None
                   /\ Cardinality(Registered) >= MaxEventPolls
<1>1. pc[r] = "sent" /\ UNCHANGED <<scan, log, clientVars>>
  BY DEF Open
<1>2. CASE full
  <2>1. /\ pc' = [pc EXCEPT ![r] = "refused"] /\ answer' = [answer EXCEPT ![r] = Error]
        /\ UNCHANGED <<req, polls>>
    BY <1>2 DEF Open, Registered, Goto, Write
  <2> QED
    BY <1>1, <2>1, RefuseKeeps
<1>3. CASE ~full
  <2>1. /\ pc' = [pc EXCEPT ![r] = "read"] /\ req' = Superseding(polls[PlayerOf[r]], req)
        /\ polls' = [polls EXCEPT ![PlayerOf[r]] = r] /\ UNCHANGED answer
    BY <1>3 DEF Open, Registered, Goto
  <2>2. polls[PlayerOf[r]] # None \/ Cardinality(Registered) < MaxEventPolls
    <3>1. Cardinality(Registered) \in Nat /\ MaxEventPolls \in Nat
      BY FS_CardinalityType, EventsAssumption DEF EventsInv, RegInv, EventsAssumption
    <3> QED
      BY <1>3, <3>1
  <2> QED
    BY <1>1, <2>1, <2>2, RegisterKeeps
<1> QED
  BY <1>2, <1>3

LEMMA EventsNext == EventsInv /\ [Next]_vars => EventsInv'
<1> SUFFICES ASSUME EventsInv, [Next]_vars PROVE EventsInv'
  OBVIOUS
<1>0. TypesInv /\ PagesInv
  BY DEF EventsInv
<1>1. CASE UNCHANGED vars
  <2>1. UNCHANGED <<log, pc, req, polls, scan, answer, call, cursor, got>>
    BY <1>1 DEF vars, serverVars, clientVars
  <2> QED
    BY <2>1 DEF EventsInv, TypesInv, SeenOK, RegInv, RegisteredIffOpen, Registered, Active,
             PagesInv, CallsInv, CursorInv
<1>2. ASSUME NEW slot \in Slots, Apply(slot) PROVE EventsInv'
  BY <1>2, ApplyKeeps
<1>3. ASSUME NEW r \in Requests, Step(r) PROVE EventsInv'
  BY <1>3, StepKeeps
<1>4. ASSUME NEW r \in Requests,
             \/ Send(r) \/ Receive(r) \/ Timeout(r) \/ Notice(r)
             \/ ReadFails(r) \/ RunnerStops(r) \/ ScanFails(r)
             \/ Open(r) \/ Read(r) \/ Wake(r)
             \/ Await(r) \/ StartScan(r) \/ ScanRead(r) \/ Publish(r) \/ Close(r)
      PROVE  EventsInv'
  <2>1. CASE Send(r)
    BY <2>1, SendKeeps
  <2>2. CASE Receive(r)
    BY <2>2, ReceiveKeeps
  <2>3. CASE Open(r)
    BY <2>3, OpenKeeps
  <2>4. CASE Publish(r)
    BY <2>4, PublishKeeps
  <2>5. CASE Close(r)
    BY <2>5, CloseKeeps
  <2>6. CASE Read(r)
    BY <1>0, <1>3, <2>6, ReadSteps
  <2>7. CASE Await(r) \/ ScanFails(r)
    BY <1>0, <1>3, <2>7, AwaitSteps
  <2>8. CASE \/ Wake(r) \/ RunnerStops(r) \/ ReadFails(r)
             \/ StartScan(r) \/ ScanRead(r) \/ Timeout(r) \/ Notice(r)
    BY <1>0, <1>3, <2>8, HandlerSteps
  <2> QED
    BY <1>4, <2>1, <2>2, <2>3, <2>4, <2>5, <2>6, <2>7, <2>8
<1>5. ASSUME NEW p \in Players, Abandon(p) PROVE EventsInv'
  BY <1>5, AbandonKeeps
<1> QED
  BY <1>1, <1>2, <1>4, <1>5 DEF Next

LEMMA EventsHold == Spec => []EventsInv
BY EventsInit, EventsNext, PTL DEF Spec

-----------------------------------------------------------------------------
(* The theorems *)

\* Every variable keeps its type: what a handler has seen, woken for or scanned
\* is never ahead of the log.
THEOREM EventsTyped == Spec => []TypeOK
<1>1. EventsInv => TypeOK
  <2> SUFFICES ASSUME EventsInv PROVE TypeOK
    OBVIOUS
  <2>0. TypesInv
    BY DEF EventsInv
  <2>1. applied \in 0..MaxSlot
    BY <2>0, EventsAssumption DEF TypesInv, applied, EventsAssumption
  <2>2. ASSUME NEW r \in Requests
        PROVE  /\ pc[r] \in {"idle", "sent", "refused", "read", "wait", "await", "scan",
                              "publish", "closing", "done"}
               /\ answer[r].kind \in {"none", "page", "error"}
               /\ {req[r].seen, req[r].woke, req[r].scanned} \subseteq 0..applied
    <3>1. pc[r] \in Labels /\ answer[r] \in AnswerRec /\ req[r] \in ReqRec /\ SeenOK(r)
      BY <2>0 DEF TypesInv
    <3>2. req[r].seen \in Nat /\ req[r].woke \in Nat /\ req[r].scanned \in Nat
      BY <3>1 DEF ReqRec
    <3>3. {req[r].seen, req[r].woke, req[r].scanned} \subseteq 0..applied
      BY <2>0, <3>1, <3>2 DEF SeenOK, applied, TypesInv
    <3> QED
      BY <3>1, <3>3 DEF Labels, AnswerRec
  <2>3. scan.covers \subseteq Requests
    BY <2>0 DEF TypesInv, ScanRec
  <2>4. \A p \in Players : polls[p] = None \/ PlayerOf[polls[p]] = p
    BY <2>0 DEF TypesInv
  <2> QED
    BY <2>1, <2>2, <2>3, <2>4 DEF TypeOK
<1> QED
  BY <1>1, EventsHold, PTL

\* A handler that was not superseded is the one registered for its player, a
\* registered one is running, and the registrations never exceed the limit,
\* whatever closes after whatever has replaced it (openPoll, closePoll).
THEOREM RegistrationsHold == Spec => []RegisteredIffOpen
<1>1. EventsInv => RegisteredIffOpen
  BY DEF EventsInv, RegInv
<1> QED
  BY <1>1, EventsHold, PTL

\* An answer with a page tells the player all that follows the request's cursor
\* up to the cursor it returns, in slot order, and nothing else; of each
\* tournament's leaderboard_changed it holds only the last (handleEvents,
\* awaitEvents, eventItems).
THEOREM PagesAreExact == Spec => []AnswersAreExact
<1>1. EventsInv => AnswersAreExact
  <2> SUFFICES ASSUME PagesInv, NEW r \in Requests, answer[r].kind = "page"
               PROVE  LET from == answer[r].from
                          page == answer[r].page
                      IN /\ page.cursor >= from
                         /\ Tells(PlayerOf[r], page.events, from, Lower(page.cursor, applied))
                         /\ BoardsOnce(page.events)
    BY Zenon DEF EventsInv, AnswersAreExact, BoardsOnce
  <2>1. NoAnswer.kind # "page" /\ Error.kind # "page"
    BY DEF NoAnswer, Error
  <2>2. Exact(log, PlayerOf[r], answer[r].from, answer[r].page)
    BY <2>1 DEF PagesInv
  <2> QED
    BY <2>2, TellsIs DEF Exact, applied
<1> QED
  BY <1>1, EventsHold, PTL

\* A client is handed each event once and in slot order, and nothing that its
\* cursor has passed is missing, except a leaderboard_changed that a later one of
\* its tournament has followed: through timeouts, calls given up, pages that were
\* cut, superseded requests and replicas that are behind (EventFollower).
THEOREM EventsHandedOnce == Spec => []EachEventOnce
<1>1. EventsInv => EachEventOnce
  <2> SUFFICES ASSUME CursorInv, NEW p \in Players
               PROVE  Tells(p, got[p], Start[p], Lower(cursor[p], applied))
    BY DEF EventsInv, EachEventOnce
  <2> QED
    BY TellsIs DEF CursorInv, applied
<1> QED
  BY <1>1, EventsHold, PTL

=============================================================================

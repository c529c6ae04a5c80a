----------------------------- MODULE BallotProofs -----------------------------
(***************************************************************************)
(* Facts about the rules of internal/paxos that the proofs of the          *)
(* single-decree reference and of the replicated log share: the ballot     *)
(* order is a strict total order, and Choose takes up the report with the  *)
(* highest ballot.                                                         *)
(***************************************************************************)
EXTENDS Ballots, TLAPS, FiniteSetTheorems

BallotRec == [round : Nat, node : Nat]

LEMMA LessOrder ==
  ASSUME NEW a \in BallotRec, NEW b \in BallotRec, NEW c \in BallotRec
  PROVE  /\ ~ Less(a, a)
         /\ Less(a, b) => ~ Less(b, a)
         /\ Less(a, b) /\ Less(b, c) => Less(a, c)
         /\ Less(a, b) /\ ~ Less(c, b) => Less(a, c)
         /\ ~ Less(a, b) /\ Less(c, b) => Less(c, a)
         /\ ~ Less(a, b) /\ ~ Less(b, c) => ~ Less(a, c)
         /\ ~ Less(a, b) /\ ~ Less(b, a) => a = b
BY DEF BallotRec, Less

-----------------------------------------------------------------------------
(* Largest elements. The library's induction theorems cannot be            *)
(* instantiated, so the largest number of a bounded set is found by        *)
(* counting the numbers below it.                                          *)

LEMMA LargestNumber ==
  ASSUME NEW K \in Nat, NEW S \in SUBSET (0..K), S # {}
  PROVE  \E x \in S : \A y \in S : y <= x
<1> DEFINE D == {x \in 0..K : \E y \in S : x <= y}
<1> DEFINE d == Cardinality(D)
<1>1. IsFiniteSet(0..K) /\ D \in SUBSET (0..K)
  BY FS_Interval
<1>2. IsFiniteSet(D) /\ d \in Nat
  BY <1>1, FS_Subset, FS_CardinalityType
<1>3. d # 0
  <2>1. PICK y \in S : TRUE
    OBVIOUS
  <2>2. y \in D
    BY <2>1
  <2> QED
    BY <1>2, <2>2, FS_EmptySet
<1>4. d - 1 \in Nat
  BY <1>2, <1>3
<1>5. \A x \in D : \A z \in 0..x : z \in D
  OBVIOUS
<1>6. d - 1 \in D
  <2> SUFFICES ASSUME d - 1 \notin D PROVE FALSE
    OBVIOUS
  <2>1. ASSUME NEW x \in D PROVE x \in 0..(d - 2)
    <3> HIDE DEF d
    <3>1. x \in 0..K
      OBVIOUS
    <3>2. ~ (d - 1 <= x)
      <4>1. ASSUME d - 1 <= x PROVE FALSE
        <5>1. d - 1 \in 0..x
          BY <4>1, <1>4, <3>1
        <5> QED
          BY <5>1, <1>5
      <4> QED
        BY <4>1
    <3> QED
      BY <3>1, <3>2, <1>2
  <2>2. IsFiniteSet(0..(d - 2)) /\ Cardinality(0..(d - 2)) = d - 1
    <3>1. d - 2 \in Int /\ 0 \in Int
      BY <1>2
    <3> HIDE DEF d
    <3>2. Cardinality(0..(d - 2)) = IF 0 > d - 2 THEN 0 ELSE d - 2 - 0 + 1
      BY <3>1, FS_Interval
    <3>3. IsFiniteSet(0..(d - 2))
      BY <3>1, FS_Interval
    <3> QED
      BY <3>2, <3>3, <1>2, <1>3
  <2>3. D \in SUBSET (0..(d - 2))
    BY <2>1
  <2>4. d <= d - 1
    <3> DEFINE I == 0..(d - 2)
    <3>1. IsFiniteSet(I) /\ Cardinality(I) = d - 1 /\ D \in SUBSET I
      BY <2>2, <2>3
    <3> HIDE DEF I
    <3>2. Cardinality(D) <= Cardinality(I)
      BY <3>1, FS_Subset
    <3> QED
      BY <3>1, <3>2
  <2> QED
    BY <2>4, <1>2
<1>7. d \notin D
  <2> SUFFICES ASSUME d \in D PROVE FALSE
    OBVIOUS
  <2>1. (0..d) \in SUBSET D
    BY <1>5
  <2>2. Cardinality(0..d) = d + 1
    <3> HIDE DEF d
    <3>1. Cardinality(0..d) = IF 0 > d THEN 0 ELSE d - 0 + 1
      BY <1>2, FS_Interval
    <3> QED
      BY <3>1, <1>2
  <2>3. d + 1 <= d
    BY <1>2, <2>1, <2>2, FS_Subset
  <2> QED
    BY <2>3, <1>2
<1>8. PICK y \in S : d - 1 <= y
  BY <1>6
<1>9. ASSUME NEW z \in S PROVE z <= y
  <2>1. z \in D /\ z \in Nat /\ y \in Nat
    OBVIOUS
  <2>2. ~ (d <= z)
    <3>1. ASSUME d <= z PROVE FALSE
      <4>1. d \in 0..z
        BY <3>1, <2>1, <1>2
      <4> QED
        BY <4>1, <1>5, <1>7, <2>1
    <3> QED
      BY <3>1
  <2> HIDE DEF d
  <2> QED
    BY <1>2, <1>8, <2>1, <2>2
<1> QED
  BY <1>9

LEMMA SmallestNumber ==
  ASSUME NEW K \in Nat, NEW S \in SUBSET (0..K), S # {}
  PROVE  \E x \in S : \A y \in S : x <= y
<1> DEFINE T == {x \in 0..K : K - x \in S}
<1>1. PICK z \in S : TRUE
  OBVIOUS
<1>2. K - z \in T
  BY <1>1
<1>3. T \in SUBSET (0..K) /\ T # {}
  BY <1>2
<1>4. PICK x \in T : \A y \in T : y <= x
  BY <1>3, LargestNumber
<1>5. ASSUME NEW y \in S PROVE K - x <= y
  <2>1. K - y \in T
    BY <1>5
  <2> QED
    BY <1>4, <2>1
<1> QED
  BY <1>4, <1>5

\* Induction up to N, with the numbers that are done as a set.
LEMMA Counting ==
  ASSUME NEW N \in Nat, NEW A, 0 \in A, \A n \in 1..N : n - 1 \in A => n \in A
  PROVE  0..N \subseteq A
<1> SUFFICES ASSUME 0..N \ A # {} PROVE FALSE
  OBVIOUS
<1>1. PICK k \in 0..N \ A : \A m \in 0..N \ A : k <= m
  BY SmallestNumber
<1>2. k \in 1..N /\ k - 1 \in 0..N /\ ~(k <= k - 1)
  BY <1>1
<1> QED
  BY <1>1, <1>2

\* Among finitely many ballots one is not below any other: the one with most
\* ballots below it.
LEMMA HighestBallot ==
  ASSUME NEW E, IsFiniteSet(E), E \subseteq BallotRec,
         NEW R, R # {}, \A r \in R : r.ballot \in E
  PROVE  \E r \in R : \A q \in R : ~ Less(r.ballot, q.ballot)
<1> DEFINE below(b) == {c \in E : Less(c, b)}
<1> DEFINE rank(b) == Cardinality(below(b))
<1> DEFINE K == Cardinality(E)
<1>1. IsFiniteSet(E) /\ K \in Nat
  BY FS_CardinalityType
<1>2. ASSUME NEW b \in E
      PROVE  IsFiniteSet(below(b)) /\ rank(b) \in 0..K /\ rank(b) \in Nat
  <2>1. below(b) \in SUBSET E
    OBVIOUS
  <2> HIDE DEF below
  <2>2. IsFiniteSet(below(b)) /\ Cardinality(below(b)) <= K
    BY <1>1, <2>1, FS_Subset
  <2> QED
    BY <1>1, <2>2, FS_CardinalityType
<1>3. ASSUME NEW b \in E, NEW c \in E, Less(b, c)
      PROVE  rank(b) < rank(c)
  <2>1. b \in BallotRec /\ c \in BallotRec
    OBVIOUS
  <2>2. below(b) \in SUBSET below(c)
    BY <1>3, <2>1, LessOrder
  <2>3. b \in below(c) /\ b \notin below(b)
    BY <1>3, <2>1, LessOrder
  <2>4. IsFiniteSet(below(c)) /\ IsFiniteSet(below(b))
    BY <1>2
  <2>5. Cardinality(below(c)) \in Nat /\ Cardinality(below(b)) \in Nat
    BY <2>4, FS_CardinalityType
  <2> HIDE DEF below
  <2>6. Cardinality(below(b)) <= Cardinality(below(c))
    BY <2>2, <2>4, FS_Subset
  <2>7. Cardinality(below(c)) # Cardinality(below(b))
    BY <2>2, <2>3, <2>4, FS_Subset
  <2> QED
    BY <2>5, <2>6, <2>7
<1> HIDE DEF rank, K
<1> DEFINE Ranks == {rank(r.ballot) : r \in R}
<1>4. Ranks \in SUBSET (0..K) /\ Ranks # {}
  BY <1>2
<1>5. PICK x \in Ranks : \A y \in Ranks : y <= x
  BY <1>1, <1>4, LargestNumber
<1>6. PICK r \in R : x = rank(r.ballot)
  OBVIOUS
<1>7. ASSUME NEW q \in R PROVE ~ Less(r.ballot, q.ballot)
  <2>1. rank(q.ballot) <= rank(r.ballot)
    BY <1>5, <1>6
  <2>2. q.ballot \in E /\ r.ballot \in E
    OBVIOUS
  <2>3. rank(q.ballot) \in Nat /\ rank(r.ballot) \in Nat
    BY <1>2, <2>2
  <2> QED
    BY <1>3, <2>1, <2>2, <2>3
<1> QED
  BY <1>7

\* What Choose returns: the fallback when nothing is reported, otherwise the
\* value of a report whose ballot no other report exceeds.
LEMMA ChooseTakesHighest ==
  ASSUME NEW E, IsFiniteSet(E), E \subseteq BallotRec, ZeroBallot \notin E,
         NEW R, \A r \in R : r.ballot \in E \cup {ZeroBallot}, NEW fallback
  PROVE  /\ (\A r \in R : r.ballot = ZeroBallot) => Choose(R, fallback) = fallback
         /\ (\E r \in R : r.ballot # ZeroBallot) =>
              \E r \in R : /\ r.ballot \in E /\ Choose(R, fallback) = r.value
                           /\ \A q \in R : q.ballot \in E => ~ Less(r.ballot, q.ballot)
<1> DEFINE real == {r \in R : r.ballot # ZeroBallot}
<1>1. CASE \A r \in R : r.ballot = ZeroBallot
  <2>1. real = {}
    BY <1>1
  <2> QED
    BY <1>1, <2>1 DEF Choose
<1>2. CASE \E r \in R : r.ballot # ZeroBallot
  <2>1. real # {} /\ \A r \in real : r.ballot \in E
    BY <1>2
  <2>2. Choose(R, fallback) =
          (CHOOSE r \in real : \A q \in real : ~ Less(r.ballot, q.ballot)).value
    BY <2>1 DEF Choose
  <2>3. \A r \in R : r.ballot \in E <=> r \in real
    OBVIOUS
  <2>4. \A r \in real : r \in R
    OBVIOUS
  <2> HIDE DEF real
  <2>5. \E r \in real : \A q \in real : ~ Less(r.ballot, q.ballot)
    BY <2>1, HighestBallot
  <2> DEFINE top == CHOOSE r \in real : \A q \in real : ~ Less(r.ballot, q.ballot)
  <2>6. top \in real /\ \A q \in real : ~ Less(top.ballot, q.ballot)
    BY <2>5
  <2> HIDE DEF top
  <2>7. Choose(R, fallback) = top.value
    BY <2>2 DEF top
  <2> QED
    BY <1>2, <2>1, <2>3, <2>4, <2>6, <2>7
<1> QED
  BY <1>1, <1>2

=============================================================================

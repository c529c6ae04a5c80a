------------------------------ MODULE WalProofs ------------------------------
(***************************************************************************)
(* Theorems about Wal, for every set of keys, replicas and faults and any  *)
(* number of records that wait for a sync.                                 *)
(***************************************************************************)
EXTENDS Wal, BallotProofs

-----------------------------------------------------------------------------
(* The file as a sequence. *)

LEMMA Cut ==
  ASSUME NEW f \in Seq(Records), NEW n \in 0..Len(f)
  PROVE  /\ SubSeq(f, 1, n) \in Seq(Records)
         /\ Len(SubSeq(f, 1, n)) = n
         /\ \A i \in 1..n : SubSeq(f, 1, n)[i] = f[i]
OBVIOUS

LEMMA Extended ==
  ASSUME NEW f \in Seq(Records), NEW n \in 0..Len(f), NEW rec \in Records,
         NEW g, g = Append(SubSeq(f, 1, n), rec)
  PROVE  /\ g \in Seq(Records)
         /\ Len(g) = n + 1
         /\ \A i \in 1..n : g[i] = f[i]
         /\ g[n + 1] = rec
<1>1. PICK h : h = SubSeq(f, 1, n)
  OBVIOUS
<1>2. h \in Seq(Records) /\ Len(h) = n /\ \A i \in 1..n : h[i] = f[i]
  BY <1>1, Cut
<1>3. g = Append(h, rec)
  BY <1>1
<1> QED
  BY <1>2, <1>3

\* Valid counts the records before the first bad one.
LEMMA ValidPrefix ==
  ASSUME NEW f \in Seq(Records)
  PROVE  /\ Valid(f) \in 0..Len(f)
         /\ \A i \in 1..Valid(f) : f[i].form = "whole"
         /\ Valid(f) < Len(f) => /\ Bad(f) # {} /\ FirstBad(f) = Valid(f) + 1
                                 /\ f[Valid(f) + 1].form # "whole"
<1>1. Len(f) \in Nat /\ Bad(f) \in SUBSET (0..Len(f))
  BY DEF Bad
<1>2. CASE Bad(f) = {}
  BY <1>1, <1>2 DEF Valid, Bad
<1>3. CASE Bad(f) # {}
  <2>1. \E x \in Bad(f) : \A y \in Bad(f) : x <= y
    BY <1>1, <1>3, SmallestNumber
  <2>2. PICK i : i = FirstBad(f)
    OBVIOUS
  <2>3. i \in Bad(f) /\ \A y \in Bad(f) : i <= y
    BY <2>1, <2>2 DEF FirstBad
  <2>4. i \in 1..Len(f) /\ f[i].form # "whole" /\ Valid(f) = i - 1
    BY <1>3, <2>2, <2>3 DEF Bad, Valid
  <2>5. ASSUME NEW j \in 1..(i - 1) PROVE f[j].form = "whole"
    <3>1. j \in 1..Len(f) /\ ~ (i <= j)
      BY <1>1, <2>4
    <3> QED
      BY <2>3, <3>1 DEF Bad
  <2>6. Valid(f) + 1 = i
    BY <1>1, <2>4
  <2> QED
    BY <1>1, <1>3, <2>2, <2>4, <2>5, <2>6
<1> QED
  BY <1>2, <1>3

LEMMA ValidCovers ==
  ASSUME NEW f \in Seq(Records), NEW i \in 0..Len(f), \A j \in 1..i : f[j].form = "whole"
  PROVE  i <= Valid(f)
<1>1. Valid(f) \in 0..Len(f) /\ (Valid(f) < Len(f) => f[Valid(f) + 1].form # "whole")
  BY ValidPrefix
<1>2. PICK v : v = Valid(f)
  OBVIOUS
<1>3. Len(f) \in Nat
  OBVIOUS
<1>4. ASSUME v < i PROVE FALSE
  <2>1. v + 1 \in 1..i /\ v < Len(f)
    BY <1>1, <1>2, <1>3, <1>4
  <2> QED
    BY <1>1, <1>2, <2>1
<1> QED
  BY <1>1, <1>2, <1>3, <1>4

\* What Load returns for a key is its last record.
LEMMA ReplayLast ==
  ASSUME NEW f \in Seq(Records), NEW k \in Key
  PROVE  \/ Replay(f)[k] = 0 /\ \A i \in 1..Len(f) : f[i].key # k
         \/ \E i \in 1..Len(f) : /\ f[i].key = k /\ Replay(f)[k] = f[i].version
                                 /\ \A j \in 1..Len(f) : f[j].key = k => j <= i
<1> DEFINE at == {i \in 1..Len(f) : f[i].key = k}
<1>1. Replay(f)[k] = IF at = {} THEN 0
                     ELSE f[CHOOSE i \in at : \A j \in at : j <= i].version
  BY DEF Replay
<1>2. CASE at = {}
  BY <1>1, <1>2
<1>3. CASE at # {}
  <2>1. at \in SUBSET (0..Len(f)) /\ Len(f) \in Nat
    OBVIOUS
  <2>2. \E i \in at : \A j \in at : j <= i
    BY <1>3, <2>1, LargestNumber
  <2>3. PICK i : i = CHOOSE m \in at : \A j \in at : j <= m
    OBVIOUS
  <2>4. i \in at /\ \A j \in at : j <= i
    BY <2>2, <2>3
  <2> QED
    BY <1>1, <1>3, <2>3, <2>4
<1> QED
  BY <1>2, <1>3

-----------------------------------------------------------------------------
(* The inductive invariant. *)

Whole(i) == file[i].form = "whole"

FileType ==
  /\ file \in Seq(Records)
  /\ stable \in 0..Len(file)
  /\ size \in Nat
  /\ self \in Replica \cup {None}
  /\ member \in Nat
  /\ pc \in {Down, Opened, Bound, Serving}
  /\ mem \in [Key -> Nat] /\ acked \in [Key -> Nat]
  /\ saving \in BOOLEAN /\ poisoned \in BOOLEAN /\ rotted \in BOOLEAN /\ lossy \in BOOLEAN

\* How the file looks to a running process: what it counts is whole, and one
\* record at most lies behind it, the one it writes or failed to write.
ProcessInv ==
  /\ pc # Down => /\ self \in Replica
                  /\ \A i \in 1..size : Whole(i)
                  /\ Len(file) \in {size, size + 1}
                  /\ ~ poisoned => \A i \in 1..Len(file) : Whole(i)
                  /\ ~ poisoned /\ ~ saving => Len(file) = size
  /\ saving => /\ ~ poisoned /\ Len(file) = size + 1
               /\ pc \in {Opened, Serving}

\* The membership is the first record and no other, and is the process's own
\* from Bind on.
MemberInv ==
  /\ \A i \in 2..Len(file) : file[i].key \in Key
  /\ pc \in {Bound, Serving} =>
       size >= 1 /\ file[1].key = Membership /\ file[1].version = self
  /\ pc = Opened =>
       /\ member = IF size > 0 /\ file[1].key = Membership THEN file[1].version ELSE None
       /\ saving => size = 0 /\ file[1] = Rec(Membership, self)

\* Saves that returned belong to the replica of the first record.
OwnerInv ==
  ~ rotted /\ owners # {} =>
    /\ stable >= 1 /\ Whole(1) /\ file[1].key = Membership
    /\ \A r \in owners : r = file[1].version

\* Versions of a key grow along the file, and the node holds the latest.
VersionInv ==
  /\ \A i, j \in 1..Len(file) :
       i <= j /\ file[i].key = file[j].key /\ file[i].key \in Key =>
         file[i].version <= file[j].version
  /\ pc = Serving =>
       /\ \A i \in 1..size : file[i].key \in Key => file[i].version <= mem[file[i].key]
       /\ saving => /\ file[Len(file)].key \in Key
                    /\ file[Len(file)].version = mem[file[Len(file)].key] + 1

\* What was answered is on the disk, and whole up to there.
AckInv ==
  ~ rotted =>
    /\ \A k \in Key : acked[k] # 0 =>
         \E i \in 1..stable : /\ file[i].key = k /\ file[i].version = acked[k]
                              /\ \A j \in 1..i : Whole(j)
    /\ pc = Serving => \A k \in Key : acked[k] <= mem[k]

\* Only the last record can be damaged while no power loss met two of them.
TailInv == ~ rotted /\ ~ lossy => \A i \in 1..(Len(file) - 1) : Whole(i)

WalInv ==
  FileType /\ ProcessInv /\ MemberInv /\ OwnerInv /\ VersionInv /\ AckInv /\ TailInv

\* The keys and versions of the file, from which all but its damage follows.
Ordered(f) ==
  /\ \A i \in 2..Len(f) : f[i].key \in Key
  /\ \A i, j \in 1..Len(f) :
       i <= j /\ f[i].key = f[j].key /\ f[i].key \in Key => f[i].version <= f[j].version

LEMMA OrderedFile == WalInv => Ordered(file)
BY DEF WalInv, MemberInv, VersionInv, Ordered

\* A file with fewer records, or with other damage.
LEMMA OrderedPrefix ==
  ASSUME NEW f \in Seq(Records), NEW g \in Seq(Records), Ordered(f), Len(g) <= Len(f),
         \A i \in 1..Len(g) : g[i].key = f[i].key /\ g[i].version = f[i].version
  PROVE  Ordered(g)
<1>1. Len(f) \in Nat /\ Len(g) \in Nat
  OBVIOUS
<1>2. 1..Len(g) \subseteq 1..Len(f) /\ 2..Len(g) \subseteq 2..Len(f) /\ 2..Len(g) \subseteq 1..Len(g)
  BY <1>1
<1> QED
  BY <1>2 DEF Ordered

\* A file with a newer record at its end.
LEMMA OrderedAppend ==
  ASSUME NEW f \in Seq(Records), NEW g \in Seq(Records), Ordered(f), Len(g) = Len(f) + 1,
         \A i \in 1..Len(f) : g[i] = f[i],
         Len(f) >= 1 => g[Len(f) + 1].key \in Key,
         \A i \in 1..Len(f) : f[i].key = g[Len(f) + 1].key =>
           f[i].version <= g[Len(f) + 1].version
  PROVE  Ordered(g)
<1>1. PICK n : n = Len(f)
  OBVIOUS
<1>2. n \in Nat /\ Len(g) = n + 1
  BY <1>1
<1>3. \A i \in 1..Len(g) : i \in 1..n \/ i = n + 1
  BY <1>2
<1>4. ASSUME NEW i \in 2..Len(g) PROVE g[i].key \in Key
  <2>1. CASE i \in 2..n
    BY <1>1, <1>2, <2>1 DEF Ordered
  <2>2. CASE i = n + 1
    BY <1>1, <1>2, <1>4, <2>2
  <2> QED
    BY <1>2, <1>4, <2>1, <2>2
<1>5. ASSUME NEW i \in 1..Len(g), NEW j \in 1..Len(g), i <= j, g[i].key = g[j].key,
             g[i].key \in Key
      PROVE  g[i].version <= g[j].version
  <2>1. CASE j \in 1..n
    <3>1. i \in 1..n
      BY <1>2, <1>5, <2>1
    <3> QED
      BY <1>1, <1>5, <2>1, <3>1 DEF Ordered
  <2>2. CASE j = n + 1
    <3>1. CASE i = j
      <4>1. g[i] \in Records
        BY <1>5
      <4>2. g[i].version \in Nat
        BY <4>1 DEF Records
      <4> QED
        BY <3>1, <4>2
    <3>2. CASE i # j
      <4>1. i \in 1..n
        BY <1>2, <1>5, <2>2, <3>2
      <4> QED
        BY <1>1, <1>5, <2>2, <4>1
    <3> QED
      BY <3>1, <3>2
  <2> QED
    BY <1>3, <2>1, <2>2
<1> QED
  BY <1>4, <1>5 DEF Ordered

\* Nothing of what was answered is lost while the records that are whole and
\* on the disk stay as they are.
LEMMA AnsweredStays ==
  ASSUME AckInv, ~ rotted, NEW k \in Key, acked'[k] = acked[k], acked[k] # 0,
         stable \in Nat, stable' \in Nat,
         \A i \in 1..stable : (\A j \in 1..i : Whole(j)) => i <= stable' /\ file'[i] = file[i]
  PROVE  \E i \in 1..stable' : /\ file'[i].key = k /\ file'[i].version = acked'[k]
                               /\ \A j \in 1..i : file'[j].form = "whole"
<1>1. PICK i \in 1..stable : /\ file[i].key = k /\ file[i].version = acked[k]
                             /\ \A j \in 1..i : Whole(j)
  BY DEF AckInv
<1>2. i \in 1..stable' /\ file'[i] = file[i]
  BY <1>1
<1>3. ASSUME NEW j \in 1..i PROVE file'[j].form = "whole"
  <2>1. j \in 1..stable /\ 1..j \subseteq 1..i
    BY <1>1
  <2>2. file'[j] = file[j] /\ Whole(j)
    BY <1>1, <2>1
  <2> QED
    BY <2>2 DEF Whole
<1> QED
  BY <1>1, <1>2, <1>3

\* Without a process only the file matters.
LEMMA DownInv ==
  ASSUME FileType', pc' = Down, saving' = FALSE, Ordered(file)', OwnerInv', TailInv',
         ~ rotted' => \A k \in Key : acked'[k] # 0 =>
           \E i \in 1..stable' : /\ file'[i].key = k /\ file'[i].version = acked'[k]
                                 /\ \A j \in 1..i : file'[j].form = "whole"
  PROVE  WalInv'
<1>1. Down # Opened /\ Down # Bound /\ Down # Serving
  BY DEF Down, Opened, Bound, Serving
<1>2. ProcessInv'
  BY DEF ProcessInv
<1>3. MemberInv' /\ VersionInv'
  BY <1>1 DEF MemberInv, VersionInv, Ordered
<1>4. AckInv'
  BY <1>1 DEF AckInv, Whole
<1> QED
  BY <1>2, <1>3, <1>4 DEF WalInv

LEMMA InitInv == Init => WalInv
<1> SUFFICES ASSUME Init PROVE WalInv
  OBVIOUS
<1>1. FileType
  <2>1. file \in Seq(Records) /\ Len(file) = 0
    BY DEF Init
  <2>2. stable \in 0..Len(file) /\ size \in Nat /\ member \in Nat
    BY <2>1 DEF Init, None
  <2>3. mem \in [Key -> Nat] /\ acked \in [Key -> Nat]
    BY DEF Init
  <2>4. saving \in BOOLEAN /\ poisoned \in BOOLEAN /\ rotted \in BOOLEAN /\ lossy \in BOOLEAN
    BY Zenon DEF Init
  <2>5. pc \in {Down, Opened, Bound, Serving} /\ self \in Replica \cup {None}
    BY DEF Init
  <2> QED
    BY <2>1, <2>2, <2>3, <2>4, <2>5 DEF FileType
<1>2. Len(file) = 0 /\ 1..0 = {} /\ 2..0 = {} /\ 1..(0 - 1) = {}
  BY DEF Init
<1>3. Down # Opened /\ Down # Bound /\ Down # Serving
  BY DEF Down, Opened, Bound, Serving
<1>4. ProcessInv /\ MemberInv
  BY <1>2, <1>3 DEF Init, ProcessInv, MemberInv
<1>5. OwnerInv /\ VersionInv /\ AckInv /\ TailInv
  BY <1>2, <1>3 DEF Init, OwnerInv, VersionInv, AckInv, TailInv
<1> QED
  BY <1>1, <1>4, <1>5 DEF WalInv

-----------------------------------------------------------------------------
(* The file between two processes: it is cut, and power is lost. *)

\* What is answered, as AckInv says it of the next state.
Answered ==
  ~ rotted => \A k \in Key : acked[k] # 0 =>
    \E i \in 1..stable : /\ file[i].key = k /\ file[i].version = acked[k]
                         /\ \A j \in 1..i : file[j].form = "whole"

\* Open, whether or not its sync succeeds, keeps the whole records.
LEMMA CutKeeps ==
  ASSUME WalInv, file' = SubSeq(file, 1, Valid(file)),
         stable' \in 0..Valid(file), stable' = Valid(file) \/ stable' = stable,
         UNCHANGED <<acked, owners, rotted, lossy>>
  PROVE  /\ file' \in Seq(Records) /\ Len(file') = Valid(file)
         /\ \A i \in 1..Len(file') : file'[i] = file[i] /\ file[i].form = "whole"
         /\ Ordered(file') /\ OwnerInv' /\ Answered' /\ TailInv'
<1>1. file \in Seq(Records) /\ stable \in 0..Len(file) /\ Len(file) \in Nat
  BY DEF WalInv, FileType
<1>2. PICK v : v = Valid(file)
  OBVIOUS
<1>3. v \in 0..Len(file) /\ \A i \in 1..v : file[i].form = "whole"
  BY <1>1, <1>2, ValidPrefix
<1>4. /\ file' \in Seq(Records) /\ Len(file') = v
      /\ \A i \in 1..v : file'[i] = file[i] /\ file[i].form = "whole"
  BY <1>1, <1>2, <1>3, Cut
<1>5. Ordered(file')
  <2>1. PICK g : g = file'
    OBVIOUS
  <2>2. g \in Seq(Records) /\ Len(g) <= Len(file) /\ \A i \in 1..Len(g) : g[i] = file[i]
    BY <1>1, <1>3, <1>4, <2>1
  <2>3. Ordered(g)
    BY <1>1, <2>2, OrderedFile, OrderedPrefix
  <2> QED
    BY <2>1, <2>3
<1>6. ASSUME NEW i \in 1..stable, \A j \in 1..i : Whole(j)
      PROVE  i <= v /\ i <= stable' /\ file'[i] = file[i]
  <2>1. i \in 0..Len(file) /\ \A j \in 1..i : file[j].form = "whole"
    BY <1>1, <1>6 DEF Whole
  <2>2. i <= v
    BY <1>1, <1>2, <2>1, ValidCovers
  <2>3. i <= stable'
    BY <1>1, <1>2, <1>3, <1>6, <2>2
  <2>4. i \in 1..v
    BY <1>3, <1>6, <2>2
  <2> QED
    BY <1>4, <2>2, <2>3, <2>4
<1>7. OwnerInv'
  <2>1. SUFFICES ASSUME ~ rotted, owners # {}
                 PROVE  /\ stable' >= 1 /\ file'[1].form = "whole" /\ file'[1].key = Membership
                        /\ \A r \in owners : r = file'[1].version
    BY DEF OwnerInv, Whole
  <2>2. /\ stable >= 1 /\ Whole(1) /\ file[1].key = Membership
        /\ \A r \in owners : r = file[1].version
    BY <2>1 DEF WalInv, OwnerInv
  <2>3. 1 \in 1..stable /\ \A j \in 1..1 : Whole(j)
    BY <1>1, <2>2
  <2>4. 1 <= stable' /\ file'[1] = file[1]
    BY <1>6, <2>3
  <2> QED
    BY <1>2, <1>3, <2>2, <2>4 DEF Whole
<1>8. Answered'
  <2>1. SUFFICES ASSUME ~ rotted, NEW k \in Key, acked[k] # 0
                 PROVE  \E i \in 1..stable' : /\ file'[i].key = k /\ file'[i].version = acked'[k]
                                              /\ \A j \in 1..i : file'[j].form = "whole"
    BY DEF Answered
  <2>2. stable \in Nat /\ stable' \in Nat
    BY <1>1, <1>2, <1>3
  <2> QED
    BY <1>6, <2>1, <2>2, AnsweredStays DEF WalInv
<1>9. TailInv'
  <2>1. 1..(v - 1) \subseteq 1..v
    BY <1>3
  <2> QED
    BY <1>4, <2>1 DEF TailInv, Whole
<1> QED
  BY <1>2, <1>4, <1>5, <1>7, <1>8, <1>9

LEMMA OpenInv ==
  ASSUME WalInv, NEW r \in Replica, Open(r)
  PROVE  WalInv'
<1>1. file \in Seq(Records) /\ stable \in 0..Len(file) /\ Len(file) \in Nat
  BY DEF WalInv, FileType
<1>2. PICK v : v = Valid(file)
  OBVIOUS
<1>3. v \in 0..Len(file)
  BY <1>1, <1>2, ValidPrefix
<1>4. /\ file' = SubSeq(file, 1, v) /\ stable' = IF v < Len(file) THEN v ELSE stable
      /\ size' = v /\ pc' = Opened /\ self' = r /\ poisoned' = FALSE /\ saving' = FALSE
      /\ member' = IF v > 0 /\ file[1].key = Membership THEN file[1].version ELSE None
      /\ UNCHANGED <<mem, acked, seen, owners, rotted, lossy>>
  BY <1>2 DEF Open, past
<1>5. stable' \in 0..v /\ (stable' = v \/ stable' = stable)
  BY <1>1, <1>3, <1>4
<1>6. /\ file' \in Seq(Records) /\ Len(file') = v
      /\ \A i \in 1..Len(file') : file'[i] = file[i] /\ file[i].form = "whole"
      /\ Ordered(file') /\ OwnerInv' /\ Answered' /\ TailInv'
  BY <1>2, <1>4, <1>5, CutKeeps
<1>7. Opened # Down /\ Opened # Bound /\ Opened # Serving
  BY DEF Down, Opened, Bound, Serving
<1>8. FileType'
  <2>1. member' \in Nat
    <3>1. CASE v > 0
      <4>1. file[1] \in Records
        BY <1>1, <1>3, <3>1
      <4>2. file[1].version \in Nat
        BY <4>1 DEF Records
      <4> QED
        BY <1>4, <4>2 DEF None
    <3>2. CASE ~ (v > 0)
      BY <1>4, <3>2 DEF None
    <3> QED
      BY <3>1, <3>2
  <2>2. saving' \in BOOLEAN /\ poisoned' \in BOOLEAN /\ rotted' \in BOOLEAN /\ lossy' \in BOOLEAN
    BY <1>4, Zenon DEF WalInv, FileType
  <2>3. mem' \in [Key -> Nat] /\ acked' \in [Key -> Nat]
    BY <1>4 DEF WalInv, FileType
  <2> QED
    BY <1>3, <1>4, <1>5, <1>6, <2>1, <2>2, <2>3 DEF FileType
<1>9. ProcessInv'
  BY <1>3, <1>4, <1>6 DEF ProcessInv, Whole
<1>10. MemberInv'
  <2>1. v > 0 => file'[1] = file[1]
    BY <1>3, <1>6
  <2> QED
    BY <1>4, <1>6, <1>7, <2>1 DEF MemberInv, Ordered
<1>11. VersionInv' /\ AckInv'
  BY <1>4, <1>6, <1>7 DEF VersionInv, AckInv, Ordered, Answered, Whole
<1> QED
  BY <1>6, <1>8, <1>9, <1>10, <1>11 DEF WalInv

LEMMA OpenFailsInv ==
  ASSUME WalInv, OpenFails
  PROVE  WalInv'
<1>1. file \in Seq(Records) /\ stable \in 0..Len(file) /\ Len(file) \in Nat
  BY DEF WalInv, FileType
<1>2. PICK v : v = Valid(file)
  OBVIOUS
<1>3. v \in 0..Len(file)
  BY <1>1, <1>2, ValidPrefix
<1>4. /\ file' = SubSeq(file, 1, v) /\ stable' = IF v < stable THEN v ELSE stable
      /\ pc = Down
      /\ UNCHANGED <<pc, self, size, member, poisoned, saving, mem, acked, seen, owners, rotted, lossy>>
  BY <1>2 DEF OpenFails, past, process
<1>5. stable' \in 0..v /\ (stable' = v \/ stable' = stable)
  BY <1>1, <1>3, <1>4
<1>6. /\ file' \in Seq(Records) /\ Len(file') = v
      /\ Ordered(file') /\ OwnerInv' /\ Answered' /\ TailInv'
  BY <1>2, <1>4, <1>5, CutKeeps
<1>7. FileType'
  <2>1. saving' \in BOOLEAN /\ poisoned' \in BOOLEAN /\ rotted' \in BOOLEAN /\ lossy' \in BOOLEAN
    BY <1>4, Zenon DEF WalInv, FileType
  <2> QED
    BY <1>4, <1>5, <1>6, <2>1 DEF WalInv, FileType
<1>8. ~ saving
  BY <1>4 DEF WalInv, ProcessInv, Down, Opened, Serving
<1>9. saving' = FALSE
  BY <1>4, <1>8 DEF WalInv, FileType
<1> QED
  BY <1>4, <1>6, <1>7, <1>9, DownInv DEF Answered

\* A process that ends keeps nothing but the file.
LEMMA StopInv ==
  ASSUME WalInv, Stop, UNCHANGED <<file, stable, lossy>>
  PROVE  WalInv'
<1>1. /\ pc' = Down /\ saving' = FALSE /\ poisoned' = FALSE /\ size' = 0 /\ member' = None
      /\ self' = None /\ mem' = [k \in Key |-> 0]
      /\ UNCHANGED <<file, stable, acked, seen, owners, rotted, lossy>>
  BY DEF Stop
<1>2. FileType'
  <2>1. saving' \in BOOLEAN /\ poisoned' \in BOOLEAN /\ rotted' \in BOOLEAN /\ lossy' \in BOOLEAN
    BY <1>1, Zenon DEF WalInv, FileType
  <2>2. mem' \in [Key -> Nat]
    BY <1>1
  <2> QED
    BY <1>1, <2>1, <2>2 DEF WalInv, FileType, None
<1>3. Ordered(file')
  BY <1>1, OrderedFile
<1>4. OwnerInv' /\ TailInv' /\ Answered'
  BY <1>1 DEF WalInv, OwnerInv, TailInv, AckInv, Answered, Whole
<1> QED
  BY <1>1, <1>2, <1>3, <1>4, DownInv DEF Answered

\* A power loss keeps the stable records as they are and all keys and versions.
LEMMA PowerLossInv ==
  ASSUME WalInv, PowerLoss
  PROVE  WalInv'
<1>1. file \in Seq(Records) /\ stable \in 0..Len(file) /\ Len(file) \in Nat
  BY DEF WalInv, FileType
<1>2. /\ pc' = Down /\ saving' = FALSE /\ poisoned' = FALSE /\ size' = 0 /\ member' = None
      /\ self' = None /\ mem' = [k \in Key |-> 0]
      /\ UNCHANGED <<acked, seen, owners, rotted>>
      /\ lossy' = (lossy \/ Len(file) > stable + 1)
  BY DEF Stop, PowerLoss
<1>3. PICK n \in stable..Len(file), damage \in [stable + 1..Len(file) -> Damage \cup {"kept"}] :
        /\ file' = [i \in 1..n |->
             IF i > stable /\ damage[i] # "kept"
             THEN [file[i] EXCEPT !.form = damage[i]] ELSE file[i]]
        /\ stable' = n
  BY DEF PowerLoss
<1>4. n \in Nat /\ stable \in Nat /\ n <= Len(file) /\ stable <= n
  BY <1>1
<1>5. ASSUME NEW i \in 1..n
      PROVE  /\ file'[i] \in Records /\ file'[i].key = file[i].key
             /\ file'[i].version = file[i].version
             /\ i <= stable => file'[i] = file[i]
  <2>1. file[i] \in Records
    BY <1>1, <1>4
  <2>2. CASE i > stable /\ damage[i] # "kept"
    <3>1. i \in stable + 1..Len(file)
      BY <1>1, <1>4, <2>2
    <3>2. damage[i] \in Damage
      BY <2>2, <3>1
    <3>3. file'[i] = [file[i] EXCEPT !.form = damage[i]]
      BY <1>3, <2>2
    <3>4. ~ (i <= stable)
      BY <1>4, <2>2
    <3> QED
      BY <2>1, <3>2, <3>3, <3>4 DEF Records
  <2>3. CASE ~ (i > stable /\ damage[i] # "kept")
    <3>1. file'[i] = file[i]
      BY <1>3, <2>3
    <3> QED
      BY <2>1, <3>1
  <2> QED
    BY <2>2, <2>3
<1>6. file' \in Seq(Records) /\ Len(file') = n
  <2>1. DOMAIN file' = 1..n /\ file' = [i \in 1..n |-> file'[i]]
    BY <1>3
  <2>2. file' \in [1..n -> Records]
    BY <1>5, <2>1
  <2> QED
    BY <1>4, <2>1, <2>2
<1>7. Ordered(file')
  <2>1. PICK g : g = file'
    OBVIOUS
  <2>2. /\ g \in Seq(Records) /\ Len(g) <= Len(file)
        /\ \A i \in 1..Len(g) : g[i].key = file[i].key /\ g[i].version = file[i].version
    BY <1>4, <1>5, <1>6, <2>1
  <2>3. Ordered(g)
    BY <1>1, <2>2, OrderedFile, OrderedPrefix
  <2> QED
    BY <2>1, <2>3
<1>8. \A i \in 1..stable : i <= stable' /\ file'[i] = file[i]
  BY <1>3, <1>4, <1>5
<1>9. Answered'
  <2>1. SUFFICES ASSUME ~ rotted, NEW k \in Key, acked[k] # 0
                 PROVE  \E i \in 1..stable' : /\ file'[i].key = k /\ file'[i].version = acked'[k]
                                              /\ \A j \in 1..i : file'[j].form = "whole"
    BY <1>2 DEF Answered
  <2>2. stable \in Nat /\ stable' \in Nat
    BY <1>3, <1>4
  <2> QED
    BY <1>2, <1>8, <2>1, <2>2, AnsweredStays DEF WalInv
<1>10. OwnerInv'
  <2>1. SUFFICES ASSUME ~ rotted, owners # {}
                 PROVE  /\ stable' >= 1 /\ file'[1].form = "whole" /\ file'[1].key = Membership
                        /\ \A r \in owners : r = file'[1].version
    BY <1>2 DEF OwnerInv, Whole
  <2>2. /\ stable >= 1 /\ Whole(1) /\ file[1].key = Membership
        /\ \A r \in owners : r = file[1].version
    BY <2>1 DEF WalInv, OwnerInv
  <2>3. 1 \in 1..stable
    BY <1>4, <2>2
  <2> QED
    BY <1>3, <1>4, <1>8, <2>2, <2>3 DEF Whole
<1>11. TailInv'
  <2>1. SUFFICES ASSUME ~ rotted, ~ lossy', NEW i \in 1..(n - 1)
                 PROVE  file'[i].form = "whole"
    BY <1>2, <1>6 DEF TailInv, Whole
  <2>2. ~ lossy /\ ~ (Len(file) > stable + 1)
    BY <1>2, <2>1
  <2>3. i \in 1..stable /\ i \in 1..(Len(file) - 1)
    BY <1>1, <1>4, <2>1, <2>2
  <2> QED
    BY <1>8, <2>1, <2>2, <2>3 DEF WalInv, TailInv, Whole
<1>12. FileType'
  <2>1. saving' \in BOOLEAN /\ poisoned' \in BOOLEAN /\ rotted' \in BOOLEAN
    BY <1>2, Zenon DEF WalInv, FileType
  <2>2. lossy' \in BOOLEAN
    BY <1>2
  <2>3. mem' \in [Key -> Nat] /\ acked' \in [Key -> Nat]
    BY <1>2 DEF WalInv, FileType
  <2>4. stable' \in 0..Len(file')
    BY <1>3, <1>4, <1>6
  <2> QED
    BY <1>2, <1>6, <2>1, <2>2, <2>3, <2>4 DEF FileType, None
<1> QED
  BY <1>2, <1>7, <1>9, <1>10, <1>11, <1>12, DownInv DEF Answered

\* A record that rots on the disk is the one thing rotted stands for.
LEMMA RotInv ==
  ASSUME WalInv, Rot
  PROVE  WalInv'
<1>1. file \in Seq(Records) /\ stable \in 0..Len(file) /\ Len(file) \in Nat
  BY DEF WalInv, FileType
<1>2. PICK i \in 1..Len(file), d \in {"garbled", "length"} \cap Event :
        file' = [file EXCEPT ![i] = [@ EXCEPT !.form = d]]
  BY DEF Rot
<1>3. pc = Down /\ rotted' = TRUE
      /\ UNCHANGED <<stable, pc, self, size, member, poisoned, saving, mem, acked, seen, owners, lossy>>
  BY DEF Rot, process
<1>4. file[i] \in Records
  BY <1>1
<1>5. [file[i] EXCEPT !.form = d] \in Records
  BY <1>4 DEF Records, Damage
<1>6. file' \in Seq(Records) /\ Len(file') = Len(file)
  BY <1>1, <1>2, <1>5
<1>7. \A j \in 1..Len(file) : file'[j].key = file[j].key /\ file'[j].version = file[j].version
  <2>1. ASSUME NEW j \in 1..Len(file)
        PROVE file'[j].key = file[j].key /\ file'[j].version = file[j].version
    <3>1. CASE i = j
      <4>1. file'[j] = [file[i] EXCEPT !.form = d]
        BY <1>1, <1>2, <3>1
      <4> QED
        BY <1>4, <3>1, <4>1 DEF Records
    <3>2. CASE i # j
      BY <1>1, <1>2, <3>2
    <3> QED
      BY <3>1, <3>2
  <2> QED
    BY <2>1
<1>8. Ordered(file')
  <2>1. PICK g : g = file'
    OBVIOUS
  <2>2. /\ g \in Seq(Records) /\ Len(g) <= Len(file)
        /\ \A j \in 1..Len(g) : g[j].key = file[j].key /\ g[j].version = file[j].version
    BY <1>1, <1>6, <1>7, <2>1
  <2>3. Ordered(g)
    BY <1>1, <2>2, OrderedFile, OrderedPrefix
  <2> QED
    BY <2>1, <2>3
<1>9. FileType'
  <2>1. saving' \in BOOLEAN /\ poisoned' \in BOOLEAN /\ rotted' \in BOOLEAN /\ lossy' \in BOOLEAN
    BY <1>3, Zenon DEF WalInv, FileType
  <2> QED
    BY <1>3, <1>6, <2>1 DEF WalInv, FileType
<1>10. ~ saving
  BY <1>3 DEF WalInv, ProcessInv, Down, Opened, Serving
<1>11. saving' = FALSE
  BY <1>3, <1>10 DEF WalInv, FileType
<1>12. OwnerInv' /\ TailInv'
  BY <1>3 DEF OwnerInv, TailInv
<1> QED
  BY <1>3, <1>8, <1>9, <1>11, <1>12, DownInv

-----------------------------------------------------------------------------
(* The running process: it writes, syncs, binds and loads. *)

\* A process that may write sees a file of size whole records.
LEMMA Ready ==
  ASSUME WalInv, pc # Down, ~ poisoned, ~ saving
  PROVE  /\ file \in Seq(Records) /\ Len(file) = size /\ size \in Nat
         /\ \A i \in 1..size : file[i].form = "whole"
BY DEF WalInv, FileType, ProcessInv, Whole

\* What appendLocked writes: the membership of a fresh file, or a newer version.
Fresh(rec) ==
  \/ pc = Opened /\ member = None /\ size = 0 /\ rec = Rec(Membership, self)
  \/ pc = Serving /\ \E k \in Key : rec = Rec(k, mem[k] + 1)

LEMMA FreshRecord ==
  ASSUME WalInv, NEW rec, Fresh(rec)
  PROVE  /\ rec \in Records /\ rec.form = "whole" /\ pc # Down
         /\ size >= 1 => rec.key \in Key
         /\ \A i \in 1..size : file[i].key = rec.key => file[i].version <= rec.version
<1>1. size \in Nat /\ mem \in [Key -> Nat] /\ Opened # Down /\ Serving # Down
  BY DEF WalInv, FileType, Down, Opened, Serving
<1>2. CASE pc = Opened /\ member = None /\ size = 0 /\ rec = Rec(Membership, self)
  <2>1. self \in Nat
    BY <1>1, <1>2, WalAssumption DEF WalInv, ProcessInv
  <2>2. rec \in Records /\ rec.form = "whole"
    BY <1>2, <2>1 DEF Rec, Records
  <2> QED
    BY <1>1, <1>2, <2>2
<1>3. CASE pc = Serving /\ \E k \in Key : rec = Rec(k, mem[k] + 1)
  <2>1. PICK k \in Key : rec = Rec(k, mem[k] + 1)
    BY <1>3
  <2>2. mem[k] \in Nat /\ rec.key = k /\ rec.version = mem[k] + 1 /\ rec.form = "whole"
    BY <1>1, <2>1 DEF Rec
  <2>3. rec \in Records
    BY <2>1, <2>2 DEF Rec, Records
  <2>4. ASSUME NEW i \in 1..size, file[i].key = rec.key
        PROVE  file[i].version <= rec.version
    <3>1. file[i].version <= mem[k]
      BY <1>3, <2>2, <2>4 DEF WalInv, VersionInv
    <3>2. i \in 1..Len(file) /\ file \in Seq(Records)
      BY <1>1, <1>3, <2>4 DEF WalInv, FileType, ProcessInv, Down, Serving
    <3>3. file[i] \in Records
      BY <3>2
    <3>4. file[i].version \in Nat
      BY <3>3 DEF Records
    <3> QED
      BY <2>2, <3>1, <3>4
  <2> QED
    BY <1>1, <1>3, <2>2, <2>3, <2>4
<1> QED
  BY <1>2, <1>3 DEF Fresh

\* An append, whole or torn, changes none of the records before it.
LEMMA AppendKeeps ==
  ASSUME WalInv, ~ poisoned, ~ saving, NEW rec, Fresh(rec),
         NEW r \in Records, r.key = rec.key, r.version = rec.version,
         file' = Append(SubSeq(file, 1, size), r),
         UNCHANGED <<stable, acked, owners, rotted, lossy>>
  PROVE  /\ file' \in Seq(Records) /\ Len(file') = size + 1 /\ file'[size + 1] = r
         /\ \A i \in 1..size : file'[i] = file[i] /\ file[i].form = "whole"
         /\ stable' \in 0..Len(file')
         /\ Ordered(file') /\ OwnerInv' /\ Answered' /\ TailInv'
<1>1. /\ rec \in Records /\ pc # Down
      /\ size >= 1 => rec.key \in Key
      /\ \A i \in 1..size : file[i].key = rec.key => file[i].version <= rec.version
  BY FreshRecord
<1>2. /\ file \in Seq(Records) /\ Len(file) = size /\ size \in Nat
      /\ \A i \in 1..size : file[i].form = "whole"
  BY <1>1, Ready
<1>3. stable \in 0..size
  BY <1>2 DEF WalInv, FileType
<1>4. PICK g : g = file'
  OBVIOUS
<1>5. size \in 0..Len(file) /\ g = Append(SubSeq(file, 1, size), r)
  BY <1>2, <1>4
<1>6. /\ g \in Seq(Records) /\ Len(g) = size + 1 /\ g[size + 1] = r
      /\ \A i \in 1..size : g[i] = file[i]
  BY <1>2, <1>5, Extended
<1>7. Ordered(g)
  BY <1>1, <1>2, <1>6, OrderedFile, OrderedAppend
<1>8. \A i \in 1..stable : i <= stable' /\ file'[i] = file[i]
  BY <1>2, <1>3, <1>4, <1>6
<1>9. OwnerInv'
  <2>1. SUFFICES ASSUME ~ rotted, owners # {}
                 PROVE  /\ stable >= 1 /\ file'[1].form = "whole" /\ file'[1].key = Membership
                        /\ \A q \in owners : q = file'[1].version
    BY DEF OwnerInv, Whole
  <2>2. /\ stable >= 1 /\ Whole(1) /\ file[1].key = Membership
        /\ \A q \in owners : q = file[1].version
    BY <2>1 DEF WalInv, OwnerInv
  <2>3. 1 \in 1..stable
    BY <1>2, <1>3, <2>2
  <2> QED
    BY <1>8, <2>2, <2>3 DEF Whole
<1>10. Answered'
  <2>1. SUFFICES ASSUME ~ rotted, NEW k \in Key, acked[k] # 0
                 PROVE  \E i \in 1..stable' : /\ file'[i].key = k /\ file'[i].version = acked'[k]
                                              /\ \A j \in 1..i : file'[j].form = "whole"
    BY DEF Answered
  <2>2. stable \in Nat /\ stable' \in Nat
    BY <1>2, <1>3
  <2>3. acked'[k] = acked[k]
    OBVIOUS
  <2> QED
    BY <1>8, <2>1, <2>2, <2>3, AnsweredStays DEF WalInv
<1>11. TailInv'
  <2>1. \A i \in 1..(size + 1 - 1) : i \in 1..size
    BY <1>2
  <2> QED
    BY <1>2, <1>4, <1>6, <2>1 DEF TailInv, Whole
<1>12. stable' \in 0..Len(file')
  BY <1>2, <1>3, <1>4, <1>6
<1> QED
  BY <1>2, <1>4, <1>6, <1>7, <1>9, <1>10, <1>11, <1>12

LEMMA WriteInv ==
  ASSUME WalInv, NEW rec, Fresh(rec), Write(rec)
  PROVE  WalInv'
<1>1. /\ rec \in Records /\ rec.form = "whole" /\ pc # Down
  BY FreshRecord
<1>2. /\ ~ poisoned /\ ~ saving /\ saving' = TRUE /\ file' = Append(SubSeq(file, 1, size), rec)
      /\ UNCHANGED <<stable, pc, self, size, member, poisoned, mem, acked, seen, owners, rotted, lossy>>
  BY DEF Write, past
<1>3. /\ file' \in Seq(Records) /\ Len(file') = size + 1 /\ file'[size + 1] = rec
      /\ \A i \in 1..size : file'[i] = file[i] /\ file[i].form = "whole"
      /\ stable' \in 0..Len(file')
      /\ Ordered(file') /\ OwnerInv' /\ Answered' /\ TailInv'
  BY <1>1, <1>2, AppendKeeps
<1>4. size \in Nat /\ mem \in [Key -> Nat] /\ pc \in {Opened, Serving}
  BY DEF WalInv, FileType, Fresh
<1>5. FileType'
  <2>1. saving' \in BOOLEAN /\ poisoned' \in BOOLEAN /\ rotted' \in BOOLEAN /\ lossy' \in BOOLEAN
    BY <1>2, Zenon DEF WalInv, FileType
  <2> QED
    BY <1>2, <1>3, <2>1 DEF WalInv, FileType
<1>6. \A i \in 1..(size + 1) : file'[i].form = "whole"
  <2>1. \A i \in 1..(size + 1) : i \in 1..size \/ i = size + 1
    BY <1>4
  <2> QED
    BY <1>1, <1>3, <2>1
<1>7. ProcessInv'
  <2>1. self \in Replica /\ \A i \in 1..size : i \in 1..(size + 1)
    BY <1>1, <1>4 DEF WalInv, ProcessInv
  <2> QED
    BY <1>2, <1>3, <1>4, <1>6, <2>1 DEF ProcessInv, Whole
<1>8. size >= 1 => file'[1] = file[1]
  BY <1>3, <1>4
<1>9. MemberInv'
  <2>1. CASE pc = Opened /\ member = None /\ size = 0 /\ rec = Rec(Membership, self)
    BY <1>2, <1>3, <2>1 DEF MemberInv, Ordered, Opened, Bound, Serving
  <2>2. CASE pc = Serving
    BY <1>2, <1>3, <1>8, <2>2 DEF WalInv, MemberInv, Ordered, Opened, Bound, Serving
  <2> QED
    BY <2>1, <2>2 DEF Fresh
<1>10. VersionInv'
  <2>1. SUFFICES ASSUME pc = Serving
                 PROVE  /\ \A i \in 1..size : file'[i].key \in Key => file'[i].version <= mem[file'[i].key]
                        /\ rec.key \in Key /\ rec.version = mem[rec.key] + 1
    BY <1>2, <1>3 DEF VersionInv, Ordered
  <2>2. \A i \in 1..size : file[i].key \in Key => file[i].version <= mem[file[i].key]
    BY <2>1 DEF WalInv, VersionInv
  <2>3. PICK k \in Key : rec = Rec(k, mem[k] + 1)
    BY <2>1 DEF Fresh, Opened, Serving
  <2>4. rec.key = k /\ rec.version = mem[k] + 1
    BY <2>3 DEF Rec
  <2> QED
    BY <1>3, <2>2, <2>4
<1>11. AckInv'
  BY <1>2, <1>3 DEF WalInv, AckInv, Answered, Whole
<1> QED
  BY <1>3, <1>5, <1>7, <1>9, <1>10, <1>11 DEF WalInv

LEMMA WriteFailsInv ==
  ASSUME WalInv, NEW rec, Fresh(rec), WriteFails(rec)
  PROVE  WalInv'
<1>1. /\ rec \in Records /\ pc # Down
  BY FreshRecord
<1>2. /\ ~ poisoned /\ ~ saving /\ poisoned' = TRUE
      /\ UNCHANGED <<stable, pc, self, size, member, saving, mem, acked, seen, owners, rotted, lossy>>
  BY DEF WriteFails, past
<1>3. /\ file \in Seq(Records) /\ Len(file) = size /\ size \in Nat
      /\ \A i \in 1..size : file[i].form = "whole"
  BY <1>1, <1>2, Ready
<1>4. /\ file' \in Seq(Records) /\ Len(file') \in {size, size + 1}
      /\ \A i \in 1..size : file'[i] = file[i]
      /\ stable' \in 0..Len(file')
      /\ Ordered(file') /\ OwnerInv' /\ Answered' /\ TailInv'
  <2>1. CASE file' = SubSeq(file, 1, size)
    <3>1. file' = file
      BY <1>3, <2>1
    <3>2. Ordered(file')
      BY <3>1, OrderedFile
    <3>3. OwnerInv' /\ Answered' /\ TailInv'
      BY <1>2, <3>1 DEF WalInv, OwnerInv, AckInv, Answered, TailInv, Whole
    <3> QED
      BY <1>2, <1>3, <3>1, <3>2, <3>3 DEF WalInv, FileType
  <2>2. CASE file' = Append(SubSeq(file, 1, size), [rec EXCEPT !.form = "torn"])
    <3>1. PICK r : r = [rec EXCEPT !.form = "torn"]
      OBVIOUS
    <3>2. r \in Records /\ r.key = rec.key /\ r.version = rec.version
      BY <1>1, <3>1 DEF Records, Damage
    <3> QED
      BY <1>2, <2>2, <3>1, <3>2, AppendKeeps
  <2> QED
    BY <2>1, <2>2 DEF WriteFails
<1>5. FileType'
  <2>1. saving' \in BOOLEAN /\ poisoned' \in BOOLEAN /\ rotted' \in BOOLEAN /\ lossy' \in BOOLEAN
    BY <1>2, Zenon DEF WalInv, FileType
  <2> QED
    BY <1>2, <1>4, <2>1 DEF WalInv, FileType
<1>6. ProcessInv'
  <2>1. self \in Replica
    BY <1>1 DEF WalInv, ProcessInv
  <2>2. saving' = FALSE
    BY <1>2 DEF WalInv, FileType
  <2>3. ~ saving' /\ poisoned'
    BY <1>2, <2>2
  <2> QED
    BY <1>2, <1>3, <1>4, <2>1, <2>3 DEF ProcessInv, Whole
<1>7. size >= 1 => file'[1] = file[1]
  BY <1>3, <1>4
<1>8. MemberInv'
  <2>1. pc \in {Bound, Serving} => size >= 1 /\ file[1].key = Membership /\ file[1].version = self
    BY DEF WalInv, MemberInv
  <2>2. pc = Opened => member = IF size > 0 /\ file[1].key = Membership THEN file[1].version ELSE None
    BY DEF WalInv, MemberInv
  <2>3. size > 0 => file'[1] = file[1]
    BY <1>3, <1>7
  <2> QED
    BY <1>2, <1>4, <1>7, <2>1, <2>2, <2>3 DEF MemberInv, Ordered
<1>9. VersionInv'
  BY <1>2, <1>4 DEF WalInv, VersionInv, Ordered
<1>10. AckInv'
  BY <1>2, <1>4 DEF WalInv, AckInv, Answered, Whole
<1> QED
  BY <1>4, <1>5, <1>6, <1>8, <1>9, <1>10 DEF WalInv

LEMMA AppendLockedInv ==
  ASSUME WalInv, NEW rec, Fresh(rec), AppendLocked(rec)
  PROVE  WalInv'
BY WriteInv, WriteFailsInv DEF AppendLocked

LEMMA BindInv ==
  ASSUME WalInv, Bind
  PROVE  WalInv'
<1>1. /\ pc = Opened /\ member = self /\ pc' = Bound
      /\ UNCHANGED <<file, stable, self, size, member, poisoned, saving, mem, acked, seen, owners, rotted, lossy>>
  BY DEF Bind, past
<1>2. Opened # Down /\ Bound # Down /\ Bound # Opened /\ Bound # Serving
  BY DEF Down, Opened, Bound, Serving
<1>3. self \in Replica /\ self # None /\ size \in Nat
  BY <1>1, <1>2, WalAssumption DEF WalInv, ProcessInv, FileType, None
<1>4. size > 0 /\ file[1].key = Membership /\ file[1].version = self
  BY <1>1, <1>3 DEF WalInv, MemberInv
<1>5. ~ saving
  BY <1>1, <1>3, <1>4 DEF WalInv, MemberInv
<1>6. FileType' /\ OwnerInv' /\ TailInv' /\ VersionInv' /\ AckInv'
  <2>1. saving' \in BOOLEAN /\ poisoned' \in BOOLEAN /\ rotted' \in BOOLEAN /\ lossy' \in BOOLEAN
    BY <1>1, Zenon DEF WalInv, FileType
  <2>2. FileType'
    BY <1>1, <2>1 DEF WalInv, FileType
  <2>3. OwnerInv' /\ TailInv' /\ VersionInv' /\ AckInv'
    BY <1>1, <1>2 DEF WalInv, OwnerInv, TailInv, VersionInv, AckInv, Whole
  <2> QED
    BY <2>2, <2>3
<1>7. ProcessInv' /\ MemberInv'
  BY <1>1, <1>2, <1>3, <1>4, <1>5 DEF WalInv, ProcessInv, MemberInv, Whole
<1> QED
  BY <1>6, <1>7 DEF WalInv

\* Load reads every answered save: the last record of a key has its highest
\* version.
LEMMA LoadInv ==
  ASSUME WalInv, Load
  PROVE  WalInv'
<1>1. /\ pc = Bound /\ ~ poisoned /\ pc' = Serving /\ mem' = Replay(file)
      /\ UNCHANGED <<file, stable, self, size, member, poisoned, saving, acked, owners, rotted, lossy>>
  BY DEF Load
<1>2. Bound # Down /\ Bound # Opened /\ Bound # Serving /\ Serving # Down /\ Serving # Opened
  BY DEF Down, Opened, Bound, Serving
<1>3. ~ saving
  BY <1>1, <1>2 DEF WalInv, ProcessInv
<1>4. /\ file \in Seq(Records) /\ Len(file) = size /\ size \in Nat
  BY <1>1, <1>2, <1>3, Ready
<1>5. ASSUME NEW k \in Key
      PROVE  mem'[k] \in Nat /\ \A i \in 1..size : file[i].key = k => file[i].version <= mem'[k]
  <2>1. CASE Replay(file)[k] = 0 /\ \A i \in 1..Len(file) : file[i].key # k
    BY <1>1, <1>4, <2>1
  <2>2. ASSUME NEW l \in 1..Len(file), file[l].key = k, Replay(file)[k] = file[l].version,
               \A j \in 1..Len(file) : file[j].key = k => j <= l
        PROVE  mem'[k] \in Nat /\ \A i \in 1..size : file[i].key = k => file[i].version <= mem'[k]
    <3>1. file[l] \in Records
      BY <1>4, <2>2
    <3>2. mem'[k] \in Nat
      BY <1>1, <2>2, <3>1 DEF Records
    <3>3. ASSUME NEW i \in 1..size, file[i].key = k PROVE file[i].version <= mem'[k]
      <4>1. i <= l /\ i \in 1..Len(file)
        BY <1>4, <2>2, <3>3
      <4>2. file[i].version <= file[l].version
        BY <2>2, <3>3, <4>1 DEF WalInv, VersionInv
      <4> QED
        BY <1>1, <2>2, <4>2
    <3> QED
      BY <3>2, <3>3
  <2> QED
    BY <1>4, <2>1, <2>2, ReplayLast
<1>6. mem' \in [Key -> Nat]
  <2>1. mem' = [k \in Key |-> mem'[k]]
    BY <1>1 DEF Replay
  <2> QED
    BY <1>5, <2>1
<1>7. FileType'
  <2>1. saving' \in BOOLEAN /\ poisoned' \in BOOLEAN /\ rotted' \in BOOLEAN /\ lossy' \in BOOLEAN
    BY <1>1, Zenon DEF WalInv, FileType
  <2> QED
    BY <1>1, <1>6, <2>1 DEF WalInv, FileType
<1>8. ProcessInv' /\ MemberInv' /\ OwnerInv' /\ TailInv'
  BY <1>1, <1>2, <1>3 DEF WalInv, ProcessInv, MemberInv, OwnerInv, TailInv, Whole
<1>9. VersionInv'
  <2>1. \A i \in 1..size : file[i].key \in Key => file[i].version <= mem'[file[i].key]
    BY <1>5
  <2> QED
    BY <1>1, <1>3, <2>1 DEF WalInv, VersionInv
<1>10. AckInv'
  <2>1. ASSUME ~ rotted, NEW k \in Key PROVE acked[k] <= mem'[k]
    <3>1. CASE acked[k] = 0
      BY <1>5, <3>1
    <3>2. CASE acked[k] # 0
      <4>1. PICK i \in 1..stable : file[i].key = k /\ file[i].version = acked[k]
        BY <2>1, <3>2 DEF WalInv, AckInv
      <4>2. i \in 1..size
        BY <1>4 DEF WalInv, FileType
      <4> QED
        BY <1>5, <4>1, <4>2
    <3> QED
      BY <3>1, <3>2
  <2> QED
    BY <1>1, <2>1 DEF WalInv, AckInv, Whole
<1> QED
  BY <1>7, <1>8, <1>9, <1>10 DEF WalInv

LEMMA SyncFailsInv ==
  ASSUME WalInv, SyncFails
  PROVE  WalInv'
<1>1. /\ saving /\ saving' = FALSE /\ poisoned' = TRUE
      /\ UNCHANGED <<file, stable, pc, self, size, member, mem, acked, seen, owners, rotted, lossy>>
  BY DEF SyncFails, past
<1>2. FileType'
  <2>1. saving' \in BOOLEAN /\ poisoned' \in BOOLEAN /\ rotted' \in BOOLEAN /\ lossy' \in BOOLEAN
    BY <1>1, Zenon DEF WalInv, FileType
  <2> QED
    BY <1>1, <2>1 DEF WalInv, FileType
<1>3. ~ saving' /\ poisoned'
  BY <1>1
<1>4. ProcessInv' /\ MemberInv' /\ VersionInv'
  BY <1>1, <1>3 DEF WalInv, ProcessInv, MemberInv, VersionInv, Whole
<1>5. OwnerInv' /\ AckInv' /\ TailInv'
  BY <1>1 DEF WalInv, OwnerInv, AckInv, TailInv, Whole
<1> QED
  BY <1>2, <1>4, <1>5 DEF WalInv

\* The sync puts all of a file of whole records on the disk, the new one too.
LEMMA SyncInv ==
  ASSUME WalInv, Sync
  PROVE  WalInv'
<1>1. PICK n, rec : n = Len(file) /\ rec = file[n]
  OBVIOUS
<1>2. /\ saving /\ stable' = n /\ Answer(rec) /\ UNCHANGED <<file, self, poisoned>>
      /\ size' = size + 1 /\ saving' = FALSE
  BY <1>1 DEF Sync, Answer
<1>3. ~ poisoned /\ n = size + 1 /\ pc \in {Opened, Serving} /\ pc # Down
  BY <1>1, <1>2 DEF WalInv, ProcessInv, Down, Opened, Serving
<1>4. file \in Seq(Records) /\ size \in Nat /\ n \in Nat /\ mem \in [Key -> Nat] /\ acked \in [Key -> Nat]
      /\ stable \in 0..n /\ self \in Replica
  BY <1>1, <1>3 DEF WalInv, FileType, ProcessInv
<1>5. \A i \in 1..n : file[i].form = "whole"
  BY <1>1, <1>3 DEF WalInv, ProcessInv, Whole
<1>6. file' \in Seq(Records) /\ Len(file') = n /\ n >= 1 /\ stable' \in 0..Len(file') /\ size' = n
  BY <1>1, <1>2, <1>3, <1>4
<1>7. ~ saving' /\ ~ poisoned' /\ saving' \in BOOLEAN /\ poisoned' \in BOOLEAN
  BY <1>2, <1>3, Zenon DEF WalInv, FileType
<1>8. 1 \in 1..n /\ \A i \in 1..size : i \in 1..n
  BY <1>3, <1>4, <1>6
<1>9. Membership \notin Key
  BY WalAssumption DEF Membership
<1>10. ASSUME pc = Opened PROVE WalInv'
  <2>1. rec = Rec(Membership, self) /\ n = 1
    BY <1>1, <1>2, <1>3, <1>10 DEF WalInv, MemberInv
  <2>2. rec.key = Membership /\ rec.version = self
    BY <2>1 DEF Rec
  <2>3. member' = self /\ pc' = Bound /\ UNCHANGED <<mem, acked, owners, rotted, lossy>>
    BY <1>2, <2>2 DEF Answer, past
  <2>4. Bound # Down /\ Bound # Opened /\ Bound # Serving
    BY DEF Down, Opened, Bound, Serving
  <2>5. FileType'
    <3>1. rotted' \in BOOLEAN /\ lossy' \in BOOLEAN
      BY <2>3, Zenon DEF WalInv, FileType
    <3>2. member' \in Nat
      BY <1>4, <2>3, WalAssumption
    <3> QED
      BY <1>2, <1>4, <1>6, <1>7, <2>3, <3>1, <3>2 DEF FileType
  <2>6. ProcessInv' /\ TailInv'
    <3>1. \A i \in 1..(n - 1) : i \in 1..n
      BY <1>4
    <3> QED
      BY <1>1, <1>2, <1>4, <1>5, <1>6, <1>7, <3>1 DEF ProcessInv, TailInv, Whole
  <2>7. MemberInv'
    BY <1>1, <1>2, <1>6, <2>1, <2>2, <2>3, <2>4 DEF WalInv, MemberInv
  <2>8. OwnerInv'
    BY <1>2, <1>5, <1>6, <1>8, <2>3 DEF WalInv, OwnerInv, Whole
  <2>9. VersionInv'
    BY <1>2, <2>3, <2>4 DEF WalInv, VersionInv
  <2>10. AckInv'
    <3>1. \A i \in 1..stable : i \in 1..stable'
      BY <1>2, <1>4
    <3> QED
      BY <1>2, <2>3, <2>4, <3>1 DEF WalInv, AckInv, Whole
  <2> QED
    BY <2>5, <2>6, <2>7, <2>8, <2>9, <2>10 DEF WalInv
<1>11. ASSUME pc = Serving PROVE WalInv'
  <2>1. PICK k : k = rec.key
    OBVIOUS
  <2>2. k \in Key /\ rec.version = mem[k] + 1 /\ k # Membership
    BY <1>1, <1>2, <1>9, <1>11, <2>1 DEF WalInv, VersionInv
  <2>3. /\ mem' = [mem EXCEPT ![k] = mem[k] + 1] /\ acked' = [acked EXCEPT ![k] = mem[k] + 1]
        /\ owners' = owners \cup {self} /\ UNCHANGED <<pc, member, rotted, lossy>>
    BY <1>2, <2>1, <2>2 DEF Answer
  <2>4. mem' \in [Key -> Nat] /\ acked' \in [Key -> Nat]
    BY <1>4, <2>2, <2>3
  <2>5. Serving # Down /\ Serving # Opened /\ Serving # Bound
    BY DEF Down, Opened, Bound, Serving
  <2>6. FileType'
    <3>1. rotted' \in BOOLEAN /\ lossy' \in BOOLEAN
      BY <2>3, Zenon DEF WalInv, FileType
    <3> QED
      BY <1>2, <1>6, <1>7, <2>3, <2>4, <3>1 DEF WalInv, FileType
  <2>7. ProcessInv' /\ TailInv'
    <3>1. \A i \in 1..(n - 1) : i \in 1..n
      BY <1>4
    <3> QED
      BY <1>1, <1>2, <1>4, <1>5, <1>6, <1>7, <3>1 DEF ProcessInv, TailInv, Whole
  <2>8. file[1].key = Membership /\ file[1].version = self
    BY <1>11 DEF WalInv, MemberInv
  <2>9. MemberInv'
    BY <1>2, <1>6, <1>11, <2>3, <2>5, <2>8 DEF WalInv, MemberInv
  <2>10. OwnerInv'
    <3>1. ASSUME ~ rotted, NEW r \in owners PROVE r = file[1].version
      BY <3>1 DEF WalInv, OwnerInv
    <3> QED
      BY <1>2, <1>5, <1>6, <1>8, <2>3, <2>8, <3>1 DEF OwnerInv, Whole
  <2>11. VersionInv'
    <3>1. ASSUME NEW i \in 1..n, file[i].key \in Key
          PROVE  file[i].version <= mem'[file[i].key]
      <4>1. CASE i = n
        BY <1>1, <1>4, <2>1, <2>2, <2>3, <4>1
      <4>2. CASE i # n
        <5>1. i \in 1..size
          BY <1>3, <1>4, <4>2
        <5>2. file[i].version <= mem[file[i].key]
          BY <1>11, <3>1, <5>1 DEF WalInv, VersionInv
        <5>3. file[i] \in Records
          BY <1>1, <1>4
        <5>4. file[i].version \in Nat
          BY <5>3 DEF Records
        <5>5. PICK q \in Key : q = file[i].key
          BY <3>1
        <5>6. mem[q] \in Nat /\ mem[q] <= mem'[q] /\ mem'[q] \in Nat
          BY <1>4, <2>2, <2>3
        <5> QED
          BY <5>2, <5>4, <5>5, <5>6
      <4> QED
        BY <4>1, <4>2
    <3> QED
      BY <1>2, <1>6, <1>7, <3>1 DEF WalInv, VersionInv
  <2>12. AckInv'
    <3>1. SUFFICES ASSUME ~ rotted, NEW q \in Key
                   PROVE  /\ acked'[q] # 0 =>
                             \E i \in 1..n : /\ file[i].key = q /\ file[i].version = acked'[q]
                                             /\ \A j \in 1..i : file[j].form = "whole"
                          /\ acked'[q] <= mem'[q]
      BY <1>2, <2>3 DEF AckInv, Whole
    <3>2. CASE q = k
      <4>1. acked'[q] = mem[k] + 1 /\ mem'[q] = mem[k] + 1 /\ mem[k] + 1 \in Nat
        BY <1>4, <2>2, <2>3, <3>2
      <4>2. n \in 1..n
        BY <1>4, <1>6
      <4> QED
        BY <1>1, <1>5, <2>1, <2>2, <3>2, <4>1, <4>2
    <3>3. CASE q # k
      <4>1. acked'[q] = acked[q] /\ mem'[q] = mem[q]
        BY <1>4, <2>2, <2>3, <3>3
      <4>2. acked[q] <= mem[q]
        BY <1>11, <3>1 DEF WalInv, AckInv
      <4>3. ASSUME acked[q] # 0
            PROVE  \E i \in 1..stable : /\ file[i].key = q /\ file[i].version = acked[q]
                                        /\ \A j \in 1..i : file[j].form = "whole"
        BY <3>1, <4>3 DEF WalInv, AckInv, Whole
      <4>4. 1..stable \subseteq 1..n
        BY <1>4
      <4> QED
        BY <4>1, <4>2, <4>3, <4>4
    <3> QED
      BY <3>2, <3>3
  <2> QED
    BY <2>6, <2>7, <2>9, <2>10, <2>11, <2>12 DEF WalInv
<1> QED
  BY <1>3, <1>10, <1>11

-----------------------------------------------------------------------------
LEMMA StutterInv ==
  ASSUME WalInv, UNCHANGED vars
  PROVE  WalInv'
BY DEF WalInv, FileType, ProcessInv, MemberInv, OwnerInv, VersionInv, AckInv, TailInv, Whole,
       vars, process, past

LEMMA StepInv ==
  ASSUME WalInv, [Next]_vars
  PROVE  WalInv'
<1>1. CASE \E r \in Replica : Open(r)
  BY <1>1, OpenInv
<1>2. CASE OpenFails
  BY <1>2, OpenFailsInv
<1>3. CASE Bind
  BY <1>3, BindInv
<1>4. CASE BindFresh
  <2>1. Fresh(Rec(Membership, self)) /\ AppendLocked(Rec(Membership, self))
    BY <1>4 DEF BindFresh, Fresh
  <2> QED
    BY <2>1, AppendLockedInv
<1>5. CASE Load
  BY <1>5, LoadInv
<1>6. ASSUME NEW k \in Key, Save(k) PROVE WalInv'
  <2>1. Fresh(Rec(k, mem[k] + 1)) /\ AppendLocked(Rec(k, mem[k] + 1))
    BY <1>6 DEF Save, Fresh
  <2> QED
    BY <2>1, AppendLockedInv
<1>7. CASE Sync
  BY <1>7, SyncInv
<1>8. CASE SyncFails
  BY <1>8, SyncFailsInv
<1>9. CASE Exit \/ Kill
  BY <1>9, StopInv DEF Exit, Kill
<1>10. CASE PowerLoss
  BY <1>10, PowerLossInv
<1>11. CASE Rot
  BY <1>11, RotInv
<1>12. CASE UNCHANGED vars
  BY <1>12, StutterInv
<1> QED
  BY <1>1, <1>2, <1>3, <1>4, <1>5, <1>6, <1>7, <1>8, <1>9, <1>10, <1>11, <1>12 DEF Next

LEMMA Invariant == Spec => []WalInv
<1>1. Init => WalInv
  BY InitInv
<1>2. WalInv /\ [Next]_vars => WalInv'
  BY StepInv
<1> QED
  BY <1>1, <1>2, PTL DEF Spec

-----------------------------------------------------------------------------
(* The theorems. *)

\* A save that returned nil is in what every later Load returns, itself or a
\* later version, for any number of failed writes and syncs, kills and power
\* losses (wal.go: appendLocked, Open, Load).
THEOREM AckedSurvivesCrashes == Spec => []AckedSurvives
<1>1. WalInv => AckedSurvives
  BY DEF WalInv, AckInv, AckedSurvives
<1> QED
  BY <1>1, Invariant, PTL

\* Bind keeps the file to one replica: of all the processes ever started on it,
\* those whose saves returned were started as the same replica.
THEOREM OneOwnerEver == Spec => []OneOwner
<1>1. WalInv => OneOwner
  BY DEF WalInv, OwnerInv, OneOwner
<1> QED
  BY <1>1, Invariant, PTL

LEMMA TornIsNoCorruption ==
  ASSUME WalInv, ~ rotted, ~ lossy
  PROVE  ~ Corrupt(file)
<1>1. file \in Seq(Records) /\ Len(file) \in Nat /\ \A i \in 1..(Len(file) - 1) : file[i].form = "whole"
  BY DEF WalInv, FileType, TailInv, Whole
<1>2. PICK v, n : v = Valid(file) /\ n = Len(file)
  OBVIOUS
<1>3. v \in 0..n /\ (v < n => Bad(file) # {} /\ FirstBad(file) = v + 1)
  BY <1>1, <1>2, ValidPrefix
<1>4. v >= n - 1
  <2>1. CASE n = 0
    BY <1>3, <2>1
  <2>2. CASE n # 0
    <3>1. n - 1 \in 0..n
      BY <1>1, <1>2, <2>2
    <3> QED
      BY <1>1, <1>2, <1>3, <3>1, ValidCovers
  <2> QED
    BY <2>1, <2>2
<1>5. ASSUME NEW i \in 2..v PROVE file[i].key # Membership
  <2>1. i \in 2..n
    BY <1>1, <1>2, <1>3, <1>5
  <2> QED
    BY <1>2, <2>1, WalAssumption DEF WalInv, MemberInv, Membership
<1>6. CASE v = n
  <2>1. Bad(file) = {}
    <3>1. \A i \in 1..v : file[i].form = "whole"
      BY <1>1, <1>2, ValidPrefix
    <3> QED
      BY <1>2, <1>6, <3>1 DEF Bad
  <2> QED
    BY <1>2, <1>5, <2>1 DEF Corrupt
<1>7. CASE v < n
  <2>1. v + 1 = n /\ FirstBad(file) = n
    BY <1>1, <1>2, <1>3, <1>4, <1>7
  <2>2. ~ (n < n) /\ \A j \in n..n : j = n
    BY <1>1, <1>2
  <2> QED
    BY <1>2, <1>5, <2>1, <2>2 DEF Corrupt
<1> QED
  BY <1>1, <1>2, <1>3, <1>6, <1>7

\* Open never refuses a file whose only damage a crash in the middle of the
\* last write left: scan finds a torn tail there, not corruption.
THEOREM CrashesAreNoCorruption == Spec => []NeverRefused
<1>1. WalInv => NeverRefused
  BY TornIsNoCorruption DEF NeverRefused
<1> QED
  BY <1>1, Invariant, PTL

\* While no power loss met two records at once, a bad record before the last
\* one has a wrong checksum, which scan tells from a torn tail, or a damaged
\* length field, which it does not.
CutInv ==
  ~ lossy => \A i \in 1..(Len(file) - 1) : file[i].form \in {"whole", "garbled", "length"}

LEMMA CutStep ==
  ASSUME WalInv, CutInv, [Next]_vars
  PROVE  CutInv'
<1>1. file \in Seq(Records) /\ Len(file) \in Nat /\ stable \in 0..Len(file)
  BY DEF WalInv, FileType
<1>2. ASSUME file' = file, lossy' = lossy PROVE CutInv'
  BY <1>2 DEF CutInv
<1>3. ASSUME file' = SubSeq(file, 1, Valid(file)) PROVE CutInv'
  <2>1. PICK v : v = Valid(file)
    OBVIOUS
  <2>2. v \in 0..Len(file) /\ \A i \in 1..v : file[i].form = "whole"
    BY <1>1, <2>1, ValidPrefix
  <2>3. Len(file') = v /\ \A i \in 1..v : file'[i] = file[i]
    BY <1>1, <1>3, <2>1, <2>2, Cut
  <2>4. \A i \in 1..(v - 1) : i \in 1..v
    BY <2>2
  <2> QED
    BY <2>2, <2>3, <2>4 DEF CutInv
<1>4. ASSUME NEW rec, Fresh(rec), AppendLocked(rec) PROVE CutInv'
  <2>1. rec \in Records /\ pc # Down
    BY <1>4, FreshRecord
  <2>2. ~ poisoned /\ ~ saving
    BY <1>4 DEF AppendLocked, Write, WriteFails
  <2>3. Len(file) = size /\ size \in Nat /\ \A i \in 1..size : file[i].form = "whole"
    BY <2>1, <2>2, Ready
  <2>4. size \in 0..Len(file)
    BY <2>3
  <2>5. CASE file' = SubSeq(file, 1, size)
    <3>1. Len(file') = size /\ \A i \in 1..size : file'[i] = file[i]
      BY <1>1, <2>4, <2>5, Cut
    <3>2. \A i \in 1..(size - 1) : i \in 1..size
      BY <2>3
    <3> QED
      BY <2>3, <3>1, <3>2 DEF CutInv
  <2>6. ASSUME NEW r \in Records, file' = Append(SubSeq(file, 1, size), r) PROVE CutInv'
    <3>1. Len(file') = size + 1 /\ \A i \in 1..size : file'[i] = file[i]
      BY <1>1, <2>4, <2>6, Extended
    <3>2. \A i \in 1..(size + 1 - 1) : i \in 1..size
      BY <2>3
    <3> QED
      BY <2>3, <3>1, <3>2 DEF CutInv
  <2>7. [rec EXCEPT !.form = "torn"] \in Records
    BY <2>1 DEF Records, Damage
  <2> QED
    BY <1>4, <2>1, <2>5, <2>6, <2>7 DEF AppendLocked, Write, WriteFails
<1>5. ASSUME PowerLoss PROVE CutInv'
  <2>1. PICK n \in stable..Len(file), damage \in [stable + 1..Len(file) -> Damage \cup {"kept"}] :
          file' = [i \in 1..n |->
            IF i > stable /\ damage[i] # "kept"
            THEN [file[i] EXCEPT !.form = damage[i]] ELSE file[i]]
    BY <1>5 DEF PowerLoss
  <2>2. lossy' = (lossy \/ Len(file) > stable + 1)
    BY <1>5 DEF PowerLoss
  <2>3. n \in Nat /\ n <= Len(file) /\ stable \in Nat
    BY <1>1
  <2>4. Len(file') = n
    BY <2>1, <2>3
  <2>5. ASSUME ~ lossy', NEW i \in 1..(n - 1) PROVE file'[i].form \in {"whole", "garbled", "length"}
    <3>1. ~ lossy /\ ~ (Len(file) > stable + 1)
      BY <2>2, <2>5
    <3>2. i \in 1..n /\ ~ (i > stable) /\ i \in 1..(Len(file) - 1)
      BY <1>1, <2>3, <2>5, <3>1
    <3>3. file'[i] = file[i]
      BY <2>1, <3>2
    <3> QED
      BY <3>1, <3>2, <3>3 DEF CutInv
  <2> QED
    BY <2>4, <2>5 DEF CutInv
<1>6. ASSUME Rot PROVE CutInv'
  <2>1. PICK i \in 1..Len(file), d \in {"garbled", "length"} \cap Event :
          file' = [file EXCEPT ![i] = [@ EXCEPT !.form = d]]
    BY <1>6 DEF Rot
  <2>2. lossy' = lossy /\ d \in {"garbled", "length"}
    BY <1>6, <2>1 DEF Rot
  <2>3. Len(file') = Len(file)
    BY <1>1, <2>1
  <2>4. ASSUME ~ lossy, NEW j \in 1..(Len(file) - 1) PROVE file'[j].form \in {"whole", "garbled", "length"}
    <3>1. CASE i = j
      <4>1. file[i] \in Records
        BY <1>1
      <4>2. file'[j] = [file[i] EXCEPT !.form = d]
        BY <1>1, <2>1, <3>1
      <4> QED
        BY <2>2, <4>1, <4>2 DEF Records
    <3>2. CASE i # j
      <4>1. file'[j] = file[j]
        BY <1>1, <2>1, <2>4, <3>2
      <4> QED
        BY <2>4, <4>1 DEF CutInv
    <3> QED
      BY <3>1, <3>2
  <2> QED
    BY <2>2, <2>3, <2>4 DEF CutInv
<1>7. CASE (\E r \in Replica : Open(r)) \/ OpenFails
  BY <1>3, <1>7 DEF Open, OpenFails
<1>8. CASE Bind \/ Load \/ SyncFails \/ Exit \/ Kill
  BY <1>2, <1>8 DEF Bind, Load, SyncFails, Exit, Kill, past
<1>9. CASE Sync
  <2>1. file' = file /\ lossy' = lossy
    BY <1>9 DEF Sync, Answer, past
  <2> QED
    BY <1>2, <2>1
<1>10. CASE BindFresh
  BY <1>4, <1>10 DEF BindFresh, Fresh
<1>11. ASSUME NEW k \in Key, Save(k) PROVE CutInv'
  <2>1. Fresh(Rec(k, mem[k] + 1)) /\ AppendLocked(Rec(k, mem[k] + 1))
    BY <1>11 DEF Save, Fresh
  <2> QED
    BY <1>4, <2>1
<1>12. CASE UNCHANGED vars
  BY <1>2, <1>12 DEF vars, past
<1> QED
  BY <1>5, <1>6, <1>7, <1>8, <1>9, <1>10, <1>11, <1>12 DEF Next

\* A file Open accepts loses its last record at most, unless the disk damaged a
\* length field.
LEMMA CutOne ==
  ASSUME WalInv, CutInv, ~ lossy, ~ Corrupt(file), ~ (rotted /\ LengthLost(file))
  PROVE  Valid(file) >= Len(file) - 1
<1>1. file \in Seq(Records) /\ Len(file) \in Nat
  BY DEF WalInv, FileType
<1>2. PICK v, n : v = Valid(file) /\ n = Len(file)
  OBVIOUS
<1>3. /\ v \in 0..n
      /\ v < n => Bad(file) # {} /\ FirstBad(file) = v + 1 /\ file[v + 1].form # "whole"
  BY <1>1, <1>2, ValidPrefix
<1>4. ASSUME v < n - 1 PROVE FALSE
  <2>1. v < n /\ v + 1 \in 1..(n - 1) /\ v + 1 < n
    BY <1>1, <1>2, <1>3, <1>4
  <2>2. CASE ~ rotted
    <3>1. file[v + 1].form = "whole"
      BY <1>2, <2>1, <2>2 DEF WalInv, TailInv, Whole
    <3> QED
      BY <1>3, <2>1, <3>1
  <2>3. CASE rotted
    <3>1. file[v + 1].form # "length"
      BY <1>3, <2>1, <2>3 DEF LengthLost
    <3>2. file[v + 1].form = "garbled"
      BY <1>2, <1>3, <2>1, <3>1 DEF CutInv
    <3> QED
      BY <1>2, <1>3, <2>1, <3>2 DEF Corrupt
  <2> QED
    BY <2>2, <2>3
<1> QED
  BY <1>1, <1>2, <1>3, <1>4

\* What scan keeps of a file covers each record that is whole up to there.
LEMMA RecordKept ==
  ASSUME NEW f \in Seq(Records), Ordered(f), NEW k \in Key, NEW n \in Nat,
         n # 0 => \E m \in 1..Len(f) : /\ f[m].key = k /\ f[m].version = n
                                       /\ \A j \in 1..m : f[j].form = "whole"
  PROVE  n <= Replay(Kept(f))[k]
<1>0. Len(f) \in Nat
  OBVIOUS
<1>1. PICK v, g : v = Valid(f) /\ g = Kept(f)
  OBVIOUS
<1>2. v \in 0..Len(f)
  BY <1>1, ValidPrefix
<1>3. g \in Seq(Records) /\ Len(g) = v /\ \A i \in 1..v : g[i] = f[i]
  BY <1>1, <1>2, Cut DEF Kept
<1>4. Ordered(g)
  <2>1. Len(g) <= Len(f)
    BY <1>0, <1>2, <1>3
  <2> QED
    BY <1>3, <2>1, OrderedPrefix
<1>5. \A i \in 1..v : g[i].version \in Nat
  <2> SUFFICES ASSUME NEW i \in 1..v PROVE g[i].version \in Nat
    OBVIOUS
  <2>1. g[i] \in Records
    BY <1>3
  <2> QED
    BY <2>1 DEF Records
<1>6. \/ Replay(g)[k] = 0 /\ \A i \in 1..Len(g) : g[i].key # k
      \/ \E i \in 1..Len(g) : /\ g[i].key = k /\ Replay(g)[k] = g[i].version
                              /\ \A j \in 1..Len(g) : g[j].key = k => j <= i
  BY <1>3, ReplayLast
<1>7. CASE n = 0
  <2>1. Replay(g)[k] \in Nat
    BY <1>3, <1>5, <1>6
  <2> QED
    BY <1>1, <1>7, <2>1
<1>8. CASE n # 0
  <2>1. PICK m \in 1..Len(f) : /\ f[m].key = k /\ f[m].version = n
                               /\ \A j \in 1..m : f[j].form = "whole"
    BY <1>8
  <2>2. m <= v
    BY <1>0, <1>1, <2>1, ValidCovers
  <2>3. m \in 1..v /\ g[m].key = k /\ g[m].version = n
    BY <1>2, <1>3, <2>1, <2>2
  <2>4. PICK i \in 1..v : /\ g[i].key = k /\ Replay(g)[k] = g[i].version
                          /\ \A j \in 1..v : g[j].key = k => j <= i
    BY <1>3, <1>6, <2>3
  <2>5. m <= i
    BY <2>3, <2>4
  <2>6. g[m].version <= g[i].version
    BY <1>3, <1>4, <2>3, <2>4, <2>5 DEF Ordered
  <2> QED
    BY <1>1, <2>3, <2>4, <2>6
<1> QED
  BY <1>7, <1>8

\* Without a process no save is answered.
LEMMA DownAcks ==
  ASSUME WalInv, Next, pc = Down
  PROVE  acked' = acked
<1>1. ~ saving
  BY DEF WalInv, ProcessInv, Down, Opened, Serving
<1>2. CASE BindFresh \/ Bind \/ Load \/ \E k \in Key : Save(k)
  BY <1>2 DEF BindFresh, Bind, Load, Save, Down, Opened, Bound, Serving
<1>3. CASE Sync \/ SyncFails \/ Kill
  BY <1>1, <1>3 DEF Sync, SyncFails, Kill
<1>4. CASE (\E r \in Replica : Open(r)) \/ OpenFails \/ Exit \/ PowerLoss \/ Rot
  BY <1>4 DEF Open, OpenFails, Exit, PowerLoss, Rot, Stop, past
<1> QED
  BY <1>2, <1>3, <1>4 DEF Next

LEMMA StepCutsTail ==
  ASSUME WalInv, CutInv, Next, pc = Down, ~ lossy', ~ (rotted /\ LengthLost(file))
  PROVE  Len(file') >= Len(file) - 1
<1>1. file \in Seq(Records) /\ Len(file) \in Nat /\ stable \in 0..Len(file)
  BY DEF WalInv, FileType
<1>2. ASSUME file' = file PROVE Len(file') >= Len(file) - 1
  BY <1>1, <1>2
<1>3. ASSUME file' = SubSeq(file, 1, Valid(file)), ~ Corrupt(file), ~ lossy
      PROVE  Len(file') >= Len(file) - 1
  <2>1. Valid(file) \in 0..Len(file)
    BY <1>1, ValidPrefix
  <2>2. Len(file') = Valid(file)
    BY <1>1, <1>3, <2>1, Cut
  <2> QED
    BY <1>3, <2>2, CutOne
<1>4. CASE (\E r \in Replica : Open(r)) \/ OpenFails
  BY <1>3, <1>4 DEF Open, OpenFails, past
<1>5. CASE PowerLoss
  <2>1. PICK n \in stable..Len(file), damage \in [stable + 1..Len(file) -> Damage \cup {"kept"}] :
          file' = [i \in 1..n |->
            IF i > stable /\ damage[i] # "kept"
            THEN [file[i] EXCEPT !.form = damage[i]] ELSE file[i]]
    BY <1>5 DEF PowerLoss
  <2>2. ~ (Len(file) > stable + 1)
    BY <1>5 DEF PowerLoss
  <2>3. n \in Nat /\ Len(file') = n
    BY <1>1, <2>1
  <2> QED
    BY <1>1, <2>2, <2>3
<1>6. CASE Rot
  <2>1. Len(file') = Len(file)
    BY <1>1, <1>6 DEF Rot
  <2> QED
    BY <1>1, <2>1
<1>7. CASE Exit \/ Kill \/ Sync \/ SyncFails \/ Bind \/ Load
  BY <1>2, <1>7 DEF Exit, Kill, Sync, SyncFails, Bind, Load
<1>8. CASE BindFresh \/ \E k \in Key : Save(k)
  BY <1>8 DEF BindFresh, Save, Down, Opened, Serving
<1> QED
  BY <1>4, <1>5, <1>6, <1>7, <1>8 DEF Next

\* Open cuts the last record at most, whatever crashes and damage came before,
\* except where the disk damaged a length field of a record it had stored or a
\* power loss met two records that were not synced: scan refuses a file with any
\* other bad record in the middle. And what is kept holds
\* every save that was answered, unless the disk damaged what it had stored
\* (wal.go: scan, Open).
THEOREM TailIsCutOnly == Spec => CutsOnlyTheTail
<1>1. Init => CutInv
  BY DEF Init, CutInv
<1>2. WalInv /\ CutInv /\ [Next]_vars => CutInv'
  BY CutStep
<1> DEFINE A == pc = Down /\ Len(file') < Len(file) =>
                  /\ ~ lossy' /\ ~ (rotted /\ LengthLost(file)) => Len(file') = Len(file) - 1
                  /\ ~ rotted' => \A k \in Key : acked[k] <= Replay(Kept(file'))[k]
<1>3. WalInv /\ CutInv /\ [Next]_vars => [A]_vars
  <2> SUFFICES ASSUME WalInv, CutInv, Next, pc = Down, Len(file') < Len(file) PROVE A
    OBVIOUS
  <2>1. WalInv'
    BY StepInv
  <2>2. Len(file) \in Nat /\ Len(file') \in Nat
    BY <2>1 DEF WalInv, FileType
  <2>3. ASSUME ~ lossy', ~ (rotted /\ LengthLost(file)) PROVE Len(file') = Len(file) - 1
    <3>1. Len(file') >= Len(file) - 1
      BY <2>3, StepCutsTail
    <3> QED
      BY <2>2, <3>1
  <2>4. ASSUME ~ rotted', NEW k \in Key PROVE acked[k] <= Replay(Kept(file'))[k]
    <3>1. acked'[k] <= Replay(Kept(file'))[k]
      <4>1. /\ file' \in Seq(Records) /\ Len(file') \in Nat /\ stable' \in 0..Len(file')
            /\ acked'[k] \in Nat
        BY <2>1 DEF WalInv, FileType
      <4>2. Ordered(file')
        BY <2>1 DEF WalInv, MemberInv, VersionInv, Ordered
      <4>3. acked'[k] # 0 =>
              \E m \in 1..Len(file') : /\ file'[m].key = k /\ file'[m].version = acked'[k]
                                       /\ \A j \in 1..m : file'[j].form = "whole"
        <5>1. acked'[k] # 0 =>
                \E m \in 1..stable' : /\ file'[m].key = k /\ file'[m].version = acked'[k]
                                      /\ \A j \in 1..m : file'[j].form = "whole"
          BY <2>1, <2>4 DEF WalInv, AckInv, Whole
        <5>2. 1..stable' \subseteq 1..Len(file')
          BY <4>1
        <5> QED
          BY <5>1, <5>2
      <4> QED
        BY <4>1, <4>2, <4>3, RecordKept
    <3>2. acked' = acked
      BY DownAcks
    <3> QED
      BY <3>1, <3>2
  <2> QED
    BY <2>3, <2>4
<1> QED
  BY <1>1, <1>2, <1>3, Invariant, PTL DEF Spec, CutsOnlyTheTail
=============================================================================

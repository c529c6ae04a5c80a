--------------------------------- MODULE Wal ---------------------------------
(***************************************************************************)
(* internal/replog/wal: the store of a replica on an append-only file,     *)
(* together with the disk below it and the process above it.               *)
(*                                                                         *)
(* The file is a sequence of records as the operating system shows it; the *)
(* first stable of them are on the disk, the others only in its cache. A   *)
(* record carries a key (what it saves: the promise, the round, a slot)    *)
(* and a version. The node only ever saves a higher version of a key: its  *)
(* promise and round grow, and so does the ballot accepted for a slot.     *)
(*                                                                         *)
(* A process opens the file, binds it, loads it, and serves. A save is two *)
(* steps, the write and the sync, because the process may die in between.  *)
(* When it dies the cache survives; when the machine loses power it does   *)
(* not, and what was not synced is lost, damaged or kept record by record. *)
(***************************************************************************)
EXTENDS Integers, Sequences

CONSTANTS
  Key,          \* what the node saves
  Replica,      \* the replicas that may be started on this file
  MaxVersion,   \* bound: versions saved of each key
  Event         \* bound: the faults explored, among "kill", "power",
                \* "write", "sync", "garbled" and "length"

\* The records have types of their own; a membership record is none a node saves.
ASSUME WalAssumption ==
  /\ Replica \subseteq Nat \ {0}
  /\ "membership" \notin Key
  /\ MaxVersion \in Nat
  /\ Event \subseteq {"kill", "power", "write", "sync", "garbled", "length"}

VARIABLES
  file,      \* the records, as a reader of the file sees them
  stable,    \* how many of them are on the disk
  pc,        \* where the process is
  self,      \* the replica it was started as
  size,      \* File.size, in records
  member,    \* File.member, 0 when there is none
  poisoned,  \* File.err is set
  saving,    \* a record is written and not yet synced
  mem,       \* what the node holds: key -> version
  acked,     \* history: key -> highest version whose save returned nil
  seen,      \* history: key -> highest version the node ever held
  owners,    \* history: the replicas with a save that returned nil
  rotted,    \* history: a record already on the disk was damaged
  lossy      \* history: a power loss met more than one record not synced

process == <<pc, self, size, member, poisoned, saving, mem>>
past == <<acked, seen, owners, rotted, lossy>>
vars == <<file, stable, process, past>>

Membership == "membership"
None == 0
Down == "down"
Opened == "opened"
Bound == "bound"
Serving == "serving"

\* How the bytes of a record read: whole; torn (shorter than its header says);
\* zeros; garbled (the right length, a wrong checksum); length (a length field
\* that points past the end of the file, or above maxRecordBytes).
Damage == {"torn", "zeros", "garbled", "length"}
Records == [key : Key \cup {Membership}, version : Nat, form : Damage \cup {"whole"}]
Rec(k, v) == [key |-> k, version |-> v, form |-> "whole"]

TypeOK ==
  /\ file \in Seq(Records)
  /\ stable \in 0..Len(file)
  /\ pc \in {Down, Opened, Bound, Serving}
  /\ self \in Replica \cup {None}
  /\ size \in Nat
  /\ member \in Replica \cup {None}
  /\ poisoned \in BOOLEAN
  /\ saving \in BOOLEAN
  /\ mem \in [Key -> 0..MaxVersion]
  /\ acked \in [Key -> 0..MaxVersion]
  /\ seen \in [Key -> 0..MaxVersion]
  /\ owners \subseteq Replica
  /\ rotted \in BOOLEAN
  /\ lossy \in BOOLEAN

Init ==
  /\ file = <<>>
  /\ stable = 0
  /\ pc = Down
  /\ self = None
  /\ size = 0
  /\ member = None
  /\ poisoned = FALSE
  /\ saving = FALSE
  /\ mem = [k \in Key |-> 0]
  /\ acked = [k \in Key |-> 0]
  /\ seen = [k \in Key |-> 0]
  /\ owners = {}
  /\ rotted = FALSE
  /\ lossy = FALSE

-----------------------------------------------------------------------------
(* Reading the file *)

Bad(f) == {i \in 1..Len(f) : f[i].form # "whole"}
FirstBad(f) == CHOOSE i \in Bad(f) : \A j \in Bad(f) : i <= j

\* scan: the length of the valid prefix.
Valid(f) == IF Bad(f) = {} THEN Len(f) ELSE FirstBad(f) - 1

\* Plausible slip in scan: a checksum mismatch is corruption wherever it is.
Corrupt_AnyChecksum(f) ==
  Bad(f) # {} /\
    LET i == FirstBad(f)
    IN  \/ f[i].form = "garbled"
        \/ f[i].form = "zeros" /\ \E j \in i..Len(f) : f[j].form # "zeros"

\* Plausible slip in scan: a checksum mismatch is a torn tail wherever it is.
Corrupt_NoChecksum(f) ==
  Bad(f) # {} /\
    LET i == FirstBad(f)
    IN  f[i].form = "zeros" /\ \E j \in i..Len(f) : f[j].form # "zeros"

\* scan: ErrCorrupt, and Open: a membership record that is not the first.
Corrupt(f) ==
  \/ /\ Bad(f) # {}
     /\ LET i == FirstBad(f)
        IN  \/ f[i].form = "garbled" /\ i < Len(f)
            \/ f[i].form = "zeros" /\ \E j \in i..Len(f) : f[j].form # "zeros"
  \/ \E i \in 2..Valid(f) : f[i].key = Membership

\* Load: the last record of a key wins.
Replay(f) ==
  [k \in Key |->
     LET at == {i \in 1..Len(f) : f[i].key = k}
     IN  IF at = {} THEN 0
         ELSE f[CHOOSE i \in at : \A j \in at : j <= i].version]

Newer(a, b) == [k \in Key |-> IF a[k] < b[k] THEN b[k] ELSE a[k]]

-----------------------------------------------------------------------------
(* The process *)

\* Open cuts a torn tail and syncs; a file it finds corrupt it refuses, which
\* changes nothing. Without a torn tail it does not sync.
Open(r) ==
  LET cut == Valid(file)
  IN  /\ pc = Down
      /\ ~ Corrupt(file)
      /\ pc' = Opened
      /\ self' = r
      /\ file' = SubSeq(file, 1, cut)
      /\ stable' = IF cut < Len(file) THEN cut ELSE stable
      /\ size' = cut
      /\ member' = IF cut > 0 /\ file[1].key = Membership
                   THEN file[1].version ELSE None
      /\ poisoned' = FALSE
      /\ saving' = FALSE
      /\ UNCHANGED <<mem, past>>

\* The sync after the truncation fails: Open returns an error.
OpenFails ==
  LET cut == Valid(file)
  IN  /\ "sync" \in Event
      /\ pc = Down
      /\ ~ Corrupt(file)
      /\ cut < Len(file)
      /\ file' = SubSeq(file, 1, cut)
      /\ stable' = IF cut < stable THEN cut ELSE stable
      /\ UNCHANGED <<process, past>>

\* appendLocked, the write: the record goes to the end of the valid prefix.
Write(rec) ==
  /\ ~ poisoned
  /\ ~ saving
  /\ file' = Append(SubSeq(file, 1, size), rec)
  /\ saving' = TRUE
  /\ UNCHANGED <<stable, pc, self, size, member, poisoned, mem, past>>

\* The write fails: the file is poisoned and what was written is cut off,
\* unless that fails too.
WriteFails(rec) ==
  /\ "write" \in Event
  /\ ~ poisoned
  /\ ~ saving
  /\ \/ file' = SubSeq(file, 1, size)
     \/ file' = Append(SubSeq(file, 1, size), [rec EXCEPT !.form = "torn"])
  /\ poisoned' = TRUE
  /\ UNCHANGED <<stable, pc, self, size, member, saving, mem, past>>

AppendLocked(rec) == Write(rec) \/ WriteFails(rec)

\* Plausible slip in Bind: the recorded membership is not compared.
Bind_Any ==
  /\ pc = Opened
  /\ member # None
  /\ pc' = Bound
  /\ UNCHANGED <<file, stable, self, size, member, poisoned, saving, mem, past>>

\* Bind of a file that has this membership. Any other file that holds
\* records is refused, and the process exits.
Bind ==
  /\ pc = Opened
  /\ member = self
  /\ pc' = Bound
  /\ UNCHANGED <<file, stable, self, size, member, poisoned, saving, mem, past>>

\* Bind of an empty file records the membership.
BindFresh ==
  /\ pc = Opened
  /\ member = None
  /\ size = 0
  /\ AppendLocked(Rec(Membership, self))

Load ==
  /\ pc = Bound
  /\ ~ poisoned
  /\ ~ Corrupt(file)
  /\ Valid(file) = size
  /\ mem' = Replay(file)
  /\ seen' = Newer(seen, Replay(file))
  /\ pc' = Serving
  /\ UNCHANGED <<file, stable, self, size, member, poisoned, saving, acked, owners, rotted, lossy>>

\* SavePromised, SaveMaxRound, SaveAccepted, SaveChosen.
Save(k) ==
  /\ pc = Serving
  /\ mem[k] < MaxVersion
  /\ AppendLocked(Rec(k, mem[k] + 1))

\* The append succeeded: Bind, or the Save of the node, returns nil.
Answer(rec) ==
  /\ size' = size + 1
  /\ saving' = FALSE
  /\ IF rec.key = Membership
     THEN /\ member' = self
          /\ pc' = Bound
          /\ UNCHANGED <<mem, past>>
     ELSE /\ mem' = [mem EXCEPT ![rec.key] = rec.version]
          /\ acked' = [acked EXCEPT ![rec.key] = rec.version]
          /\ seen' = Newer(seen, mem')
          /\ owners' = owners \cup {self}
          /\ UNCHANGED <<pc, member, rotted, lossy>>

\* Plausible slip in appendLocked: the sync is left out.
Sync_Skipped ==
  LET rec == file[Len(file)]
  IN  /\ saving
      /\ Answer(rec)
      /\ UNCHANGED <<stable, file, self, poisoned>>

\* appendLocked, the sync: all of the file is on the disk, the caller is
\* answered.
Sync ==
  LET rec == file[Len(file)]
  IN  /\ saving
      /\ stable' = Len(file)
      /\ Answer(rec)
      /\ UNCHANGED <<file, self, poisoned>>

\* The sync fails: the file is poisoned, the record is not cut off.
SyncFails ==
  /\ "sync" \in Event
  /\ saving
  /\ saving' = FALSE
  /\ poisoned' = TRUE
  /\ UNCHANGED <<file, stable, pc, self, size, member, mem, past>>

Stop ==
  /\ pc' = Down
  /\ saving' = FALSE
  /\ poisoned' = FALSE
  /\ mem' = [k \in Key |-> 0]
  /\ size' = 0
  /\ member' = None
  /\ self' = None
  /\ UNCHANGED <<acked, seen, owners, rotted>>

\* The process ends between two saves: Close, an error of Bind or Load, or a
\* failed save, which stops the node and with it the process.
Exit ==
  /\ pc # Down
  /\ ~ saving
  /\ Stop
  /\ UNCHANGED <<file, stable, lossy>>

-----------------------------------------------------------------------------
(* The machine below the process *)

Kill ==
  /\ "kill" \in Event
  /\ saving
  /\ Stop
  /\ UNCHANGED <<file, stable, lossy>>

\* A record that was not synced may be lost with everything after it, kept,
\* or damaged; only the last can be torn. What is there afterwards is on the
\* disk.
PowerLoss ==
  /\ "power" \in Event
  /\ Stop
  /\ \E n \in stable..Len(file), damage \in [stable + 1..Len(file) -> Damage \cup {"kept"}] :
       /\ \A i \in DOMAIN damage : damage[i] = "torn" => i = n
       /\ file' = [i \in 1..n |->
            IF i > stable /\ damage[i] # "kept"
            THEN [file[i] EXCEPT !.form = damage[i]] ELSE file[i]]
       /\ stable' = n
  /\ lossy' = (lossy \/ Len(file) > stable + 1)

\* A record already on the disk is damaged: its payload, or its length field.
Rot ==
  /\ pc = Down
  /\ Bad(file) = {}
  /\ \E i \in 1..Len(file), d \in {"garbled", "length"} \cap Event :
       file' = [file EXCEPT ![i] = [@ EXCEPT !.form = d]]
  /\ rotted' = TRUE
  /\ UNCHANGED <<stable, process, acked, seen, owners, lossy>>

-----------------------------------------------------------------------------
Next ==
  \/ \E r \in Replica : Open(r)
  \/ OpenFails
  \/ Bind
  \/ BindFresh
  \/ Load
  \/ \E k \in Key : Save(k)
  \/ Sync
  \/ SyncFails
  \/ Exit
  \/ Kill
  \/ PowerLoss
  \/ Rot

Spec == Init /\ [][Next]_vars

-----------------------------------------------------------------------------
\* S5 for the file store: a save that returned nil is in what the next Load
\* returns, itself or a later version, whatever writes, syncs and truncations
\* failed and whatever a kill or a power loss left of the last record, unless
\* the disk itself damaged what it had stored.
AckedSurvives ==
  pc = Serving /\ ~ rotted => \A k \in Key : acked[k] <= mem[k]

\* A file never holds the saves of two replicas: a Bind that was torn or lost
\* may be repeated by another replica, a Bind that was followed by a save that
\* returned may not.
OneOwner == ~ rotted => \A r, q \in owners : r = q

\* Open refuses no file that only a torn write has damaged: a crash in the
\* middle of the last write never keeps a replica from starting again. (When a
\* process is killed before its sync and the next one writes behind the same
\* record, a power loss may damage the first of the two.)
NeverRefused == pc = Down /\ ~ rotted /\ ~ lossy => ~ Corrupt(file)

\* The first bad record is one whose length field is damaged: scan takes it and
\* all that follows for a torn payload (wal.go:183).
LengthLost(f) == Bad(f) # {} /\ f[FirstBad(f)].form = "length"

\* What scan keeps of a file.
Kept(f) == SubSeq(f, 1, Valid(f))

\* Open cuts at most the last record: a bad record that is followed by more data
\* is corruption, and Open refuses the file rather than dropping what follows
\* it. There are two exceptions: a disk that damaged the length field of a record
\* it had stored, where Open does drop what follows, and a power loss that met
\* more than one record that was not synced. In any case what Open keeps holds
\* every save that returned nil, unless the disk damaged what it had stored: a
\* last record that is damaged is cut even when its save was answered.
CutsOnlyTheTail ==
  [][pc = Down /\ Len(file') < Len(file) =>
       /\ ~ lossy' /\ ~ (rotted /\ LengthLost(file)) => Len(file') = Len(file) - 1
       /\ ~ rotted' => \A k \in Key : acked[k] <= Replay(Kept(file'))[k]
    ]_vars

\* What the node once loaded, and may have told others, is loaded again after
\* the next crash: a promise never goes back.
LoadedSurvives ==
  pc = Serving => \A k \in Key : seen[k] <= mem[k]
=============================================================================

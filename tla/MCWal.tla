-------------------------------- MODULE MCWal --------------------------------
(***************************************************************************)
(* Instances of Wal for TLC.                                               *)
(***************************************************************************)
EXTENDS Wal

TwoReplicas == {1, 2}
OneReplica == {1}
Faults == {"kill", "power", "write", "sync", "garbled", "length"}
KillThenPower == {"kill", "power"}

\* Bounds: at most MaxUnsynced records wait for a sync, and nothing is followed
\* behind both a damaged disk and a power loss that met two of them.
MaxUnsynced == 2
FewUnsynced == Len(file) - stable <= MaxUnsynced /\ ~ (rotted /\ lossy)
=============================================================================

---------------------------- MODULE SnapshotList ----------------------------
(***************************************************************************)
(* What snapshot.c promises: the snapshots form a list in the order of     *)
(* their creation.  A new one becomes the latest; "only the earliest       *)
(* snapshot can be deleted" (README.md:152).                               *)
(***************************************************************************)
EXTENDS Integers, Sequences

CONSTANT Id

VARIABLE snaps  \* the snapshots, the latest first

ListInit == snaps = << >>

CreateSn(id) ==
    /\ \A i \in 1 .. Len(snaps) : snaps[i] # id
    /\ snaps' = <<id>> \o snaps

DestroySn ==
    /\ snaps # << >>
    /\ snaps' = SubSeq(snaps, 1, Len(snaps) - 1)

ListNext == DestroySn \/ \E id \in Id : CreateSn(id)

ListSpec == ListInit /\ [][ListNext]_snaps

=============================================================================

---------------------------- MODULE MCSnapshots -----------------------------
(***************************************************************************)
(* Snapshots for TLC: the names of the snapshots are interchangeable.      *)
(***************************************************************************)
EXTENDS Snapshots, TLC

MCSymmetry == Permutations(Id)

=============================================================================

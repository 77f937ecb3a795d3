--------------------------- MODULE MCCopyOnWrite ---------------------------
(***************************************************************************)
(* Instances of CopyOnWrite for TLC.                                       *)
(***************************************************************************)
EXTENDS CopyOnWrite, TLC

MCSymmetry == Permutations(Thread) \cup Permutations(Reader)
=============================================================================

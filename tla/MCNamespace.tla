---------------------------- MODULE MCNamespace ----------------------------
(* Namespace for TLC: a directory with two files in it.  Nothing tells the *)
(* threads apart, nor the two files.                                       *)
EXTENDS Namespace, TLC

CONSTANTS t1, t2, d, f, g

Dirs == {<<d>>}
Files == {<<d, f>>, <<d, g>>}
Paths == Dirs \cup Files
Threads == {t1, t2}
Symmetry == Permutations(Threads) \cup Permutations({f, g})
=============================================================================

------------------------------ MODULE MCMFLock ------------------------------
(* Small instances of the lock table.  Threads are interchangeable; labels  *)
(* are not, as they determine the MOD mutex.                                *)
EXTENDS MFLock, TLC

MCSymmetry == Permutations(Thread)
=============================================================================

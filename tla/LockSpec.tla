------------------------------ MODULE LockSpec ------------------------------
(***************************************************************************)
(* What mflock.c promises its callers: a table of locks, one for each      *)
(* label, such that "only one thread may write a file at any time"         *)
(* (mflock.c:39).  A label stands for a file; the table's slots, its MOD   *)
(* mutexes and the handover between threads are invisible here.            *)
(*                                                                         *)
(* Module MFLock implements this specification; module CopyOnWrite uses    *)
(* its two actions as the locking calls of block.c and mfd.c.              *)
(***************************************************************************)
CONSTANTS
    Thread,    \* the threads that call the lock functions
    Label,     \* the lock labels (hashes of file paths)
    NoThread   \* the holder of a free lock

VARIABLE holder  \* holder[l] is the thread that has the lock for label l

LockTypeOK == holder \in [Label -> Thread \cup {NoThread}]

LockInit == holder = [l \in Label |-> NoThread]

(* mflock_lock returns: the caller has the label, nobody else did. *)
Acquire(t, l) ==
    /\ holder[l] = NoThread
    /\ holder' = [holder EXCEPT ![l] = t]

(* mflock_unlock gives the label up. *)
Release(t, l) ==
    /\ holder[l] = t
    /\ holder' = [holder EXCEPT ![l] = NoThread]

LockNext == \E t \in Thread, l \in Label : Acquire(t, l) \/ Release(t, l)

LockingSpec == LockInit /\ [][LockNext]_holder

=============================================================================

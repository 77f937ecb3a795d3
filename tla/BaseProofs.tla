----------------------------- MODULE BaseProofs -----------------------------
(***************************************************************************)
(* Proofs about the parts that all the others stand on, which share no     *)
(* state: the lock table of mflock.c (module MFLock), the loops of block.c *)
(* over the blocks of a request (module Blocks), and what is done with the *)
(* path of a request (module Paths).                                       *)
(*                                                                         *)
(* The lock table, for any number of threads, labels and slots and any     *)
(* width of the want counter, is type correct; no two threads have the     *)
(* lock of the same label, a label is in the table once and changes only   *)
(* under both of its mutexes, and the table implements LockSpec.  None of  *)
(* this depends on want: its unprotected updates, which can get lost, only *)
(* decide between removing a label and leaving it in the table.  Nor does  *)
(* it depend on a failed recheck giving back the mutex.                    *)
(*                                                                         *)
(* b_read fills its buffer with the right bytes, and b_write goes through  *)
(* the right blocks, for every block size, file size, offset and length.   *)
(*                                                                         *)
(* The paths of requests are told apart and taken to pieces rightly, and   *)
(* those put together fit their buffers, for paths and buffers of any      *)
(* length.                                                                 *)
(***************************************************************************)
EXTENDS MFLock, Blocks, Paths, TLAPS

-----------------------------------------------------------------------------
(* The lock table.                                                         *)

(* Where a thread owns the mutex of its slot, and where it has, or has     *)
(* not, the MOD mutex of its label.                                        *)
OwnerPc == {"dec", "decst", "recheck", "claim", "unclaim", "claimed", "held",
            "ungetmod", "unlabel", "unmutex", "oops", "handover"}
ModPc == {"dropmod", "find", "try", "claim", "unclaim", "claimed", "unlabel",
          "unmutex", "unmod", "oops"}
AddingPc == {"find", "try", "claim", "unclaim"}

(* A thread that has locked a slot's mutex owns it until it unlocks it.    *)
OwnsMutex ==
    \A t \in Thread :
        /\ pc[t] \in OwnerPc => mutex[ml[t]] = t
        /\ pc[t] \in {"claim", "unclaim"} => idx[t] = ml[t]
        /\ pc[t] = "scan" \/ idx[t] = 0 \/ pc[t] \in AddingPc
        /\ pc[t] = "try" => idx[t] \in Slot

(* A thread with a MOD mutex has the one of its label.                     *)
OwnsMod ==
    \A t \in Thread :
        /\ mod[t] # NULL => modmutex[mod[t]] = t /\ mod[t] = ModOf(lab[t])
        /\ pc[t] \in ModPc => mod[t] # NULL
        /\ pc[t] \notin ModPc \cup {"scan"} => mod[t] = NULL
        /\ pc[t] # "idle" => lab[t] \in Label

(* The slot of a thread that has a lock carries its label.                 *)
HolderLabelled == \A t \in Thread : pc[t] \in HolderPc => label[ml[t]] = lab[t]

(* A thread that adds its label has looked at the whole table with the MOD *)
(* mutex, and nobody can have added the label to the part it has seen.     *)
SeenAbsent ==
    \A t \in Thread :
        /\ pc[t] = "scan" /\ mod[t] # NULL
           => \A j \in Slot : j < idx[t] => label[j] # lab[t]
        /\ pc[t] \in AddingPc => \A j \in Slot : label[j] # lab[t]

LockInv == TypeOK /\ OwnsMutex /\ OwnsMod /\ HolderLabelled /\ SeenAbsent /\ LabelsUnique

-----------------------------------------------------------------------------
(* A label's MOD mutex is one of the table's (mflock.c:238).               *)
LEMMA ModOfSlot == \A l \in Nat : ModOf(l) \in Slot
  BY TableAssumption DEF ModOf, Slot

(* Loop variables that run over the slots (mflock.c:207, 247).             *)
LEMMA SlotFacts ==
    /\ 0 \in Slot /\ 0 \in 0 .. LockNum /\ NULL \notin Slot
    /\ \A i \in 0 .. LockNum : i # LockNum => i \in Slot
    /\ \A i \in Slot : i \in 0 .. LockNum /\ i + 1 \in 0 .. LockNum
  BY TableAssumption DEF Slot, NULL

(* want stays an unsigned number of its width (mflock.c:221, 223).         *)
LEMMA WantFacts == /\ 0 \in 0 .. WantMod - 1
                   /\ \A r \in 0 .. WantMod - 1 : /\ (r + 1) % WantMod \in 0 .. WantMod - 1
                                                  /\ (r + WantMod - 1) % WantMod \in 0 .. WantMod - 1
  BY TableAssumption

(* Every step of mflock_lock and mflock_unlock keeps the types.            *)
LEMMA TypeStep == LockInv /\ [Next]_vars => TypeOK'
<1> SUFFICES ASSUME LockInv, [Next]_vars PROVE TypeOK'
  OBVIOUS
<1> USE DEF LockInv, TypeOK, PcLabel
<1>1. ASSUME NEW t \in Thread, NEW l \in Label, Call(t, l) PROVE TypeOK'
  BY <1>1, SlotFacts DEF Call, Index, Goto, table
<1>2. ASSUME NEW t \in Thread, Scan(t) PROVE TypeOK'
  <2> /\ idx[t] \in Slot /\ idx[t] + 1 \in 0 .. LockNum /\ 0 \in 0 .. LockNum
    BY <1>2, SlotFacts, TableAssumption DEF Scan
  <2>1. CASE label[idx[t]] = lab[t]
    BY <1>2, <2>1 DEF Scan, Found, Index, Goto, table
  <2>2. CASE ~(label[idx[t]] = lab[t])
    BY <1>2, <2>2 DEF Scan, Found, Index, Goto, table
  <2> QED  BY <2>1, <2>2
<1>3. ASSUME NEW t \in Thread, NotFound(t) PROVE TypeOK'
  BY <1>3, SlotFacts DEF NotFound, Index, Goto, table
<1>4. ASSUME NEW t \in Thread, GetMod(t) PROVE TypeOK'
  <2> ModOf(lab[t]) \in Slot
    <3> lab[t] \in Label \cup {0}
      OBVIOUS
    <3> QED  BY ModOfSlot, TableAssumption, Zenon
  <2> QED  BY <1>4 DEF GetMod, LockMod, Goto
<1>5. ASSUME NEW t \in Thread, DropMod(t) PROVE TypeOK'
  BY <1>5, SlotFacts, Zenon DEF DropMod, UnlockMod, Goto
<1>6. ASSUME NEW t \in Thread, IncLoad(t) PROVE TypeOK'
  BY <1>6 DEF IncLoad, LoadWant, Goto, table
<1>7. ASSUME NEW t \in Thread, IncStore(t) PROVE TypeOK'
  BY <1>7, WantFacts DEF IncStore, StoreWant, Goto
<1>8. ASSUME NEW t \in Thread, Block(t) PROVE TypeOK'
  BY <1>8 DEF Block, LockMutex, Goto, locals
<1>9. ASSUME NEW t \in Thread, DecLoad(t) PROVE TypeOK'
  BY <1>9 DEF DecLoad, LoadWant, Goto, table
<1>10. ASSUME NEW t \in Thread, DecStore(t) PROVE TypeOK'
  BY <1>10, WantFacts DEF DecStore, StoreWant, Goto
<1>11. ASSUME NEW t \in Thread, Recheck(t) PROVE TypeOK'
  BY <1>11, SlotFacts DEF Recheck, Found, Goto, table
<1>12. ASSUME NEW t \in Thread, Find(t) PROVE TypeOK'
  <2> 0 \in 0 .. LockNum /\ (idx[t] # LockNum => idx[t] + 1 \in 0 .. LockNum)
    BY <1>12, SlotFacts
  <2>1. CASE idx[t] = LockNum
    BY <1>12, <2>1 DEF Find, Index, Goto, table
  <2>2. CASE idx[t] # LockNum /\ label[idx[t]] = 0
    BY <1>12, <2>2 DEF Find, Index, Goto, table
  <2>3. CASE idx[t] # LockNum /\ label[idx[t]] # 0
    <3> /\ idx' = [idx EXCEPT ![t] = idx[t] + 1]
        /\ UNCHANGED <<label, mutex, modmutex, want, pc, lab, ml, mod, reg>>
      BY <1>12, <2>3 DEF Find, Index, table
    <3> QED  BY <2>3
  <2> QED  BY <2>1, <2>2, <2>3
<1>13. ASSUME NEW t \in Thread, TryLock(t) PROVE TypeOK'
  <2> /\ idx[t] \in Slot /\ idx[t] + 1 \in 0 .. LockNum /\ 0 \in 0 .. LockNum
    BY <1>13, SlotFacts, TableAssumption DEF TryLock, OwnsMutex
  <2>1. CASE mutex[idx[t]] = NoThread
    BY <1>13, <2>1 DEF TryLock, LockMutex, Found, Index, Goto
  <2>2. CASE ~(mutex[idx[t]] = NoThread)
    BY <1>13, <2>2 DEF TryLock, LockMutex, Found, Index, Goto
  <2> QED  BY <2>1, <2>2
<1>14. ASSUME NEW t \in Thread, Claim(t) PROVE TypeOK'
  <2> 0 \in 0 .. LockNum
    BY SlotFacts
  <2>1. CASE label[ml[t]] = 0
    BY <1>14, <2>1 DEF Claim, Index, Goto
  <2>2. CASE ~(label[ml[t]] = 0)
    BY <1>14, <2>2 DEF Claim, Index, Goto
  <2> QED  BY <2>1, <2>2
<1>15. ASSUME NEW t \in Thread, Unclaim(t) PROVE TypeOK'
  BY <1>15, SlotFacts, Zenon DEF Unclaim, UnlockMutex, Found, Index, Goto
<1>16. ASSUME NEW t \in Thread, Claimed(t) PROVE TypeOK'
  BY <1>16, SlotFacts, Zenon DEF Claimed, UnlockMod, Goto
<1>17. ASSUME NEW t \in Thread, Unlock(t) PROVE TypeOK'
  BY <1>17 DEF Unlock, Goto, table, locals
<1>18. ASSUME NEW t \in Thread, UnGetMod(t) PROVE TypeOK'
  <2> ModOf(label[ml[t]]) \in Slot
    <3> label[ml[t]] \in Label \cup {0}
      OBVIOUS
    <3> QED  BY ModOfSlot, TableAssumption, Zenon
  <2> QED  BY <1>18 DEF UnGetMod, LockMod, Goto
<1>19. ASSUME NEW t \in Thread, Unlabel(t) PROVE TypeOK'
  BY <1>19, SlotFacts DEF Unlabel, Goto, locals
<1>20. ASSUME NEW t \in Thread, UnMutex(t) PROVE TypeOK'
  BY <1>20 DEF UnMutex, UnlockMutex, Goto, locals
<1>21. ASSUME NEW t \in Thread, UnMod(t) PROVE TypeOK'
  BY <1>21, SlotFacts, Zenon DEF UnMod, UnlockMod, Return, Found, Index, Goto
<1>22. ASSUME NEW t \in Thread, Oops(t) PROVE TypeOK'
  BY <1>22, SlotFacts, Zenon DEF Oops, UnlockMod, Goto
<1>23. ASSUME NEW t \in Thread, Handover(t) PROVE TypeOK'
  BY <1>23, SlotFacts DEF Handover, UnlockMutex, Return, Found, Index, Goto
<1>24. CASE UNCHANGED vars
  BY <1>24 DEF vars
<1> QED
  BY <1>1, <1>2, <1>3, <1>4, <1>5, <1>6, <1>7, <1>8, <1>9, <1>10, <1>11, <1>12,
     <1>13, <1>14, <1>15, <1>16, <1>17, <1>18, <1>19, <1>20, <1>21, <1>22, <1>23, <1>24, Zenon
  DEF Next, LockStep, UnlockStep

(* No step takes a mutex from the thread that owns it: the mutexes of the  *)
(* slots are unlocked only in UnMutex, Unclaim and Handover, by the owner. *)
LEMMA MutexStep == LockInv /\ [Next]_vars => OwnsMutex'
<1> SUFFICES ASSUME LockInv, [Next]_vars PROVE OwnsMutex'
  OBVIOUS
<1> USE SlotFacts DEF LockInv, TypeOK, OwnsMutex, OwnerPc, AddingPc
<1>1. ASSUME NEW t \in Thread, NEW l \in Label, Call(t, l) PROVE OwnsMutex'
  BY <1>1 DEF Call, Index, Goto, table
<1>2. ASSUME NEW t \in Thread, Scan(t) PROVE OwnsMutex'
  BY <1>2 DEF Scan, Found, Index, Goto, table
<1>3. ASSUME NEW t \in Thread, NotFound(t) PROVE OwnsMutex'
  BY <1>3 DEF NotFound, Index, Goto, table
<1>4. ASSUME NEW t \in Thread, GetMod(t) PROVE OwnsMutex'
  BY <1>4 DEF GetMod, LockMod, Goto
<1>5. ASSUME NEW t \in Thread, DropMod(t) PROVE OwnsMutex'
  BY <1>5 DEF DropMod, UnlockMod, Goto
<1>6. ASSUME NEW t \in Thread, IncLoad(t) PROVE OwnsMutex'
  BY <1>6 DEF IncLoad, LoadWant, Goto, table
<1>7. ASSUME NEW t \in Thread, IncStore(t) PROVE OwnsMutex'
  BY <1>7 DEF IncStore, StoreWant, Goto
<1>8. ASSUME NEW t \in Thread, Block(t) PROVE OwnsMutex'
  BY <1>8, TableAssumption DEF Block, LockMutex, Goto, locals
<1>9. ASSUME NEW t \in Thread, DecLoad(t) PROVE OwnsMutex'
  BY <1>9 DEF DecLoad, LoadWant, Goto, table
<1>10. ASSUME NEW t \in Thread, DecStore(t) PROVE OwnsMutex'
  BY <1>10 DEF DecStore, StoreWant, Goto
<1>11. ASSUME NEW t \in Thread, Recheck(t) PROVE OwnsMutex'
  BY <1>11 DEF Recheck, Found, Goto, table
<1>12. ASSUME NEW t \in Thread, Find(t) PROVE OwnsMutex'
  BY <1>12 DEF Find, Index, Goto, table
<1>13. ASSUME NEW t \in Thread, TryLock(t) PROVE OwnsMutex'
  <2>1. CASE mutex[idx[t]] = NoThread
    BY <1>13, <2>1, TableAssumption DEF TryLock, LockMutex, Found, Index, Goto
  <2>2. CASE mutex[idx[t]] # NoThread
    BY <1>13, <2>2 DEF TryLock, LockMutex, Found, Index, Goto
  <2> QED  BY <2>1, <2>2
<1>14. ASSUME NEW t \in Thread, Claim(t) PROVE OwnsMutex'
  BY <1>14 DEF Claim, Index, Goto
<1>15. ASSUME NEW t \in Thread, Unclaim(t) PROVE OwnsMutex'
  BY <1>15 DEF Unclaim, UnlockMutex, Found, Index, Goto
<1>16. ASSUME NEW t \in Thread, Claimed(t) PROVE OwnsMutex'
  BY <1>16 DEF Claimed, UnlockMod, Goto
<1>17. ASSUME NEW t \in Thread, Unlock(t) PROVE OwnsMutex'
  BY <1>17 DEF Unlock, Goto, table, locals
<1>18. ASSUME NEW t \in Thread, UnGetMod(t) PROVE OwnsMutex'
  BY <1>18 DEF UnGetMod, LockMod, Goto
<1>19. ASSUME NEW t \in Thread, Unlabel(t) PROVE OwnsMutex'
  BY <1>19 DEF Unlabel, Goto, locals
<1>20. ASSUME NEW t \in Thread, UnMutex(t) PROVE OwnsMutex'
  BY <1>20 DEF UnMutex, UnlockMutex, Goto, locals
<1>21. ASSUME NEW t \in Thread, UnMod(t) PROVE OwnsMutex'
  BY <1>21 DEF UnMod, UnlockMod, Return, Found, Index, Goto
<1>22. ASSUME NEW t \in Thread, Oops(t) PROVE OwnsMutex'
  BY <1>22 DEF Oops, UnlockMod, Goto
<1>23. ASSUME NEW t \in Thread, Handover(t) PROVE OwnsMutex'
  BY <1>23 DEF Handover, UnlockMutex, Return, Found, Index, Goto
<1>24. CASE UNCHANGED vars
  BY <1>24 DEF vars
<1> QED
  BY <1>1, <1>2, <1>3, <1>4, <1>5, <1>6, <1>7, <1>8, <1>9, <1>10, <1>11, <1>12,
     <1>13, <1>14, <1>15, <1>16, <1>17, <1>18, <1>19, <1>20, <1>21, <1>22, <1>23, <1>24, Zenon
  DEF Next, LockStep, UnlockStep

(* The same of the MOD mutexes, and the pointer modmutex of mflock_lock is *)
(* not NULL exactly while the thread has one.                              *)
LEMMA ModStep == LockInv /\ [Next]_vars => OwnsMod'
<1> SUFFICES ASSUME LockInv, [Next]_vars PROVE OwnsMod'
  OBVIOUS
<1> USE SlotFacts, TableAssumption DEF LockInv, TypeOK, OwnsMod, ModPc
<1>1. ASSUME NEW t \in Thread, NEW l \in Label, Call(t, l) PROVE OwnsMod'
  BY <1>1 DEF Call, Index, Goto, table
<1>2. ASSUME NEW t \in Thread, Scan(t) PROVE OwnsMod'
  BY <1>2 DEF Scan, Found, Index, Goto, table
<1>3. ASSUME NEW t \in Thread, NotFound(t) PROVE OwnsMod'
  BY <1>3 DEF NotFound, Index, Goto, table
<1>4. ASSUME NEW t \in Thread, GetMod(t) PROVE OwnsMod'
  <2> lab[t] \in Label /\ ModOf(lab[t]) \in Slot
    BY <1>4, ModOfSlot, Zenon DEF GetMod
  <2> ModOf(lab[t]) # NULL
    OBVIOUS
  <2> QED  BY <1>4 DEF GetMod, LockMod, Goto
<1>5. ASSUME NEW t \in Thread, DropMod(t) PROVE OwnsMod'
  BY <1>5 DEF DropMod, UnlockMod, Goto
<1>6. ASSUME NEW t \in Thread, IncLoad(t) PROVE OwnsMod'
  BY <1>6 DEF IncLoad, LoadWant, Goto, table
<1>7. ASSUME NEW t \in Thread, IncStore(t) PROVE OwnsMod'
  BY <1>7 DEF IncStore, StoreWant, Goto
<1>8. ASSUME NEW t \in Thread, Block(t) PROVE OwnsMod'
  BY <1>8 DEF Block, LockMutex, Goto, locals
<1>9. ASSUME NEW t \in Thread, DecLoad(t) PROVE OwnsMod'
  BY <1>9 DEF DecLoad, LoadWant, Goto, table
<1>10. ASSUME NEW t \in Thread, DecStore(t) PROVE OwnsMod'
  BY <1>10 DEF DecStore, StoreWant, Goto
<1>11. ASSUME NEW t \in Thread, Recheck(t) PROVE OwnsMod'
  BY <1>11 DEF Recheck, Found, Goto, table
<1>12. ASSUME NEW t \in Thread, Find(t) PROVE OwnsMod'
  BY <1>12 DEF Find, Index, Goto, table
<1>13. ASSUME NEW t \in Thread, TryLock(t) PROVE OwnsMod'
  BY <1>13 DEF TryLock, LockMutex, Found, Index, Goto
<1>14. ASSUME NEW t \in Thread, Claim(t) PROVE OwnsMod'
  BY <1>14 DEF Claim, Index, Goto
<1>15. ASSUME NEW t \in Thread, Unclaim(t) PROVE OwnsMod'
  BY <1>15 DEF Unclaim, UnlockMutex, Found, Index, Goto
<1>16. ASSUME NEW t \in Thread, Claimed(t) PROVE OwnsMod'
  BY <1>16 DEF Claimed, UnlockMod, Goto
<1>17. ASSUME NEW t \in Thread, Unlock(t) PROVE OwnsMod'
  BY <1>17 DEF Unlock, Goto, table, locals
<1>18. ASSUME NEW t \in Thread, UnGetMod(t) PROVE OwnsMod'
  <2> label[ml[t]] = lab[t] /\ lab[t] \in Label
    BY <1>18 DEF UnGetMod, HolderLabelled, HolderPc
  <2> ModOf(lab[t]) \in Slot
    BY ModOfSlot, Zenon
  <2> ModOf(lab[t]) # NULL
    OBVIOUS
  <2> QED  BY <1>18 DEF UnGetMod, LockMod, Goto
<1>19. ASSUME NEW t \in Thread, Unlabel(t) PROVE OwnsMod'
  BY <1>19 DEF Unlabel, Goto, locals
<1>20. ASSUME NEW t \in Thread, UnMutex(t) PROVE OwnsMod'
  BY <1>20 DEF UnMutex, UnlockMutex, Goto, locals
<1>21. ASSUME NEW t \in Thread, UnMod(t) PROVE OwnsMod'
  BY <1>21 DEF UnMod, UnlockMod, Return, Found, Index, Goto
<1>22. ASSUME NEW t \in Thread, Oops(t) PROVE OwnsMod'
  BY <1>22 DEF Oops, UnlockMod, Goto
<1>23. ASSUME NEW t \in Thread, Handover(t) PROVE OwnsMod'
  BY <1>23 DEF Handover, UnlockMutex, Return, Found, Index, Goto
<1>24. CASE UNCHANGED vars
  BY <1>24 DEF vars
<1> QED
  BY <1>1, <1>2, <1>3, <1>4, <1>5, <1>6, <1>7, <1>8, <1>9, <1>10, <1>11, <1>12,
     <1>13, <1>14, <1>15, <1>16, <1>17, <1>18, <1>19, <1>20, <1>21, <1>22, <1>23, <1>24, Zenon
  DEF Next, LockStep, UnlockStep

(* No step removes the label of a slot that another thread has locked.     *)
LEMMA HolderStep == LockInv /\ [Next]_vars => HolderLabelled'
<1> SUFFICES ASSUME LockInv, [Next]_vars PROVE HolderLabelled'
  OBVIOUS
<1> USE DEF LockInv, TypeOK, HolderLabelled, HolderPc, OwnsMutex, OwnerPc
<1>1. ASSUME NEW t \in Thread, NEW l \in Label, Call(t, l) PROVE HolderLabelled'
  BY <1>1 DEF Call, Index, Goto, table
<1>2. ASSUME NEW t \in Thread, Scan(t) PROVE HolderLabelled'
  BY <1>2 DEF Scan, Found, Index, Goto, table
<1>3. ASSUME NEW t \in Thread, NotFound(t) PROVE HolderLabelled'
  BY <1>3 DEF NotFound, Index, Goto, table
<1>4. ASSUME NEW t \in Thread, GetMod(t) PROVE HolderLabelled'
  BY <1>4 DEF GetMod, LockMod, Goto
<1>5. ASSUME NEW t \in Thread, DropMod(t) PROVE HolderLabelled'
  BY <1>5 DEF DropMod, UnlockMod, Goto
<1>6. ASSUME NEW t \in Thread, IncLoad(t) PROVE HolderLabelled'
  BY <1>6 DEF IncLoad, LoadWant, Goto, table
<1>7. ASSUME NEW t \in Thread, IncStore(t) PROVE HolderLabelled'
  BY <1>7 DEF IncStore, StoreWant, Goto
<1>8. ASSUME NEW t \in Thread, Block(t) PROVE HolderLabelled'
  BY <1>8 DEF Block, LockMutex, Goto, locals
<1>9. ASSUME NEW t \in Thread, DecLoad(t) PROVE HolderLabelled'
  BY <1>9 DEF DecLoad, LoadWant, Goto, table
<1>10. ASSUME NEW t \in Thread, DecStore(t) PROVE HolderLabelled'
  BY <1>10 DEF DecStore, StoreWant, Goto
<1>11. ASSUME NEW t \in Thread, Recheck(t) PROVE HolderLabelled'
  BY <1>11 DEF Recheck, Found, Goto, table
<1>12. ASSUME NEW t \in Thread, Find(t) PROVE HolderLabelled'
  BY <1>12 DEF Find, Index, Goto, table
<1>13. ASSUME NEW t \in Thread, TryLock(t) PROVE HolderLabelled'
  BY <1>13 DEF TryLock, LockMutex, Found, Index, Goto
<1>14. ASSUME NEW t \in Thread, Claim(t) PROVE HolderLabelled'
  BY <1>14 DEF Claim, Index, Goto
<1>15. ASSUME NEW t \in Thread, Unclaim(t) PROVE HolderLabelled'
  BY <1>15 DEF Unclaim, UnlockMutex, Found, Index, Goto
<1>16. ASSUME NEW t \in Thread, Claimed(t) PROVE HolderLabelled'
  BY <1>16 DEF Claimed, UnlockMod, Goto
<1>17. ASSUME NEW t \in Thread, Unlock(t) PROVE HolderLabelled'
  BY <1>17 DEF Unlock, Goto, table, locals
<1>18. ASSUME NEW t \in Thread, UnGetMod(t) PROVE HolderLabelled'
  BY <1>18 DEF UnGetMod, LockMod, Goto
<1>19. ASSUME NEW t \in Thread, Unlabel(t) PROVE HolderLabelled'
  BY <1>19 DEF Unlabel, Goto, locals
<1>20. ASSUME NEW t \in Thread, UnMutex(t) PROVE HolderLabelled'
  BY <1>20 DEF UnMutex, UnlockMutex, Goto, locals
<1>21. ASSUME NEW t \in Thread, UnMod(t) PROVE HolderLabelled'
  BY <1>21 DEF UnMod, UnlockMod, Return, Found, Index, Goto
<1>22. ASSUME NEW t \in Thread, Oops(t) PROVE HolderLabelled'
  BY <1>22 DEF Oops, UnlockMod, Goto
<1>23. ASSUME NEW t \in Thread, Handover(t) PROVE HolderLabelled'
  BY <1>23 DEF Handover, UnlockMutex, Return, Found, Index, Goto
<1>24. CASE UNCHANGED vars
  BY <1>24 DEF vars
<1> QED
  BY <1>1, <1>2, <1>3, <1>4, <1>5, <1>6, <1>7, <1>8, <1>9, <1>10, <1>11, <1>12,
     <1>13, <1>14, <1>15, <1>16, <1>17, <1>18, <1>19, <1>20, <1>21, <1>22, <1>23, <1>24, Zenon
  DEF Next, LockStep, UnlockStep

(* Only Claim and Unlabel change the labels of the table.                  *)
LEMMA LabelFrame == [Next]_vars => label' = label \/ \E t \in Thread : Claim(t) \/ Unlabel(t)
  BY Zenon DEF Next, LockStep, UnlockStep, vars, table, Call, Scan, NotFound, GetMod, DropMod, IncLoad, IncStore,
     DecLoad, DecStore, LoadWant, StoreWant, Block, Recheck, Find, TryLock, Unclaim, Claimed, Unlock,
     UnGetMod, UnMutex, UnMod, Oops, Handover

(* Claim adds a label that is in no slot, so no label gets in twice.       *)
LEMMA UniqueStep == LockInv /\ [Next]_vars => LabelsUnique'
<1> SUFFICES ASSUME LockInv, [Next]_vars PROVE LabelsUnique'
  OBVIOUS
<1> USE DEF LockInv, TypeOK, LabelsUnique
<1>1. ASSUME NEW t \in Thread, Claim(t) PROVE LabelsUnique'
  BY <1>1 DEF Claim, SeenAbsent, AddingPc
<1>2. ASSUME NEW t \in Thread, Unlabel(t) PROVE LabelsUnique'
  BY <1>2 DEF Unlabel
<1>3. CASE label' = label
  BY <1>3
<1> QED  BY <1>1, <1>2, <1>3, LabelFrame

(* While a thread has the MOD mutex of its label nobody else adds it.      *)
LEMMA AbsentStep == LockInv /\ [Next]_vars => SeenAbsent'
<1> SUFFICES ASSUME LockInv, [Next]_vars PROVE SeenAbsent'
  OBVIOUS
<1> USE DEF LockInv, TypeOK, SeenAbsent, AddingPc
<1>1. ASSUME NEW t \in Thread, NEW l \in Label, Call(t, l) PROVE SeenAbsent'
  BY <1>1 DEF Call, Goto, Index, table, OwnsMod, ModPc
<1>2. ASSUME NEW t \in Thread, Scan(t) PROVE SeenAbsent'
  <2> idx[t] \in Slot
    BY <1>2, SlotFacts, TableAssumption DEF Scan
  <2>1. CASE label[idx[t]] = lab[t]
    BY <1>2, <2>1 DEF Scan, Goto, Index, table
  <2>2. CASE label[idx[t]] # lab[t]
    <3> SUFFICES ASSUME mod[t] # NULL, NEW j \in Slot, j < idx[t] + 1 PROVE label[j] # lab[t]
      BY <1>2, <2>2 DEF Scan, Index, table
    <3> j < idx[t] \/ j = idx[t]
      BY TableAssumption DEF Slot
    <3> QED  BY <1>2, <2>2 DEF Scan
  <2> QED  BY <2>1, <2>2
<1>3. ASSUME NEW t \in Thread, NotFound(t) PROVE SeenAbsent'
  <2> \A j \in Slot : j < idx[t]
    BY <1>3, TableAssumption DEF NotFound, Slot
  <2> QED  BY <1>3 DEF NotFound, Goto, Index, table
<1>4. ASSUME NEW t \in Thread, GetMod(t) PROVE SeenAbsent'
  <2> \A j \in Slot : ~ (j < idx[t])
    <3> idx[t] = 0
      BY <1>4 DEF GetMod, OwnsMutex
    <3> QED  BY TableAssumption DEF Slot
  <2> QED  BY <1>4 DEF GetMod, LockMod, Goto
<1>5. ASSUME NEW t \in Thread, DropMod(t) PROVE SeenAbsent'
  BY <1>5 DEF DropMod, UnlockMod, Goto
<1>6. ASSUME NEW t \in Thread, IncLoad(t) PROVE SeenAbsent'
  BY <1>6 DEF IncLoad, LoadWant, Goto, table
<1>7. ASSUME NEW t \in Thread, IncStore(t) PROVE SeenAbsent'
  BY <1>7 DEF IncStore, StoreWant, Goto
<1>8. ASSUME NEW t \in Thread, Block(t) PROVE SeenAbsent'
  BY <1>8 DEF Block, LockMutex, Goto, locals
<1>9. ASSUME NEW t \in Thread, DecLoad(t) PROVE SeenAbsent'
  BY <1>9 DEF DecLoad, LoadWant, Goto, table
<1>10. ASSUME NEW t \in Thread, DecStore(t) PROVE SeenAbsent'
  BY <1>10 DEF DecStore, StoreWant, Goto
<1>11. ASSUME NEW t \in Thread, Recheck(t) PROVE SeenAbsent'
  BY <1>11 DEF Recheck, Goto, table, OwnsMod, ModPc
<1>12. ASSUME NEW t \in Thread, Find(t) PROVE SeenAbsent'
  BY <1>12 DEF Find, Index, Goto, table
<1>13. ASSUME NEW t \in Thread, TryLock(t) PROVE SeenAbsent'
  BY <1>13 DEF TryLock, LockMutex, Found, Index, Goto
<1>14. ASSUME NEW t \in Thread, Claim(t) PROVE SeenAbsent'
  <2> \A u \in Thread : mod[u] # NULL /\ lab[u] = lab[t] => u = t
    BY <1>14 DEF Claim, OwnsMod, ModPc
  <2>1. CASE label[ml[t]] = 0
    <3> SUFFICES ASSUME NEW u \in Thread, u # t, mod[u] # NULL PROVE lab[u] # lab[t]
      BY <1>14, <2>1 DEF Claim, Goto, Index, OwnsMod, ModPc
    <3> QED  OBVIOUS
  <2>2. CASE label[ml[t]] # 0
    BY <1>14, <2>2 DEF Claim, Goto
  <2> QED  BY <2>1, <2>2
<1>15. ASSUME NEW t \in Thread, Unclaim(t) PROVE SeenAbsent'
  BY <1>15 DEF Unclaim, UnlockMutex, Found, Index, Goto
<1>16. ASSUME NEW t \in Thread, Claimed(t) PROVE SeenAbsent'
  BY <1>16 DEF Claimed, UnlockMod, Goto
<1>17. ASSUME NEW t \in Thread, Unlock(t) PROVE SeenAbsent'
  BY <1>17 DEF Unlock, Goto, table, locals
<1>18. ASSUME NEW t \in Thread, UnGetMod(t) PROVE SeenAbsent'
  BY <1>18 DEF UnGetMod, LockMod, Goto
<1>19. ASSUME NEW t \in Thread, Unlabel(t) PROVE SeenAbsent'
  <2> \A u \in Thread : pc[u] # "idle" => lab[u] # 0
    BY TableAssumption DEF OwnsMod
  <2> QED  BY <1>19 DEF Unlabel, Goto, locals
<1>20. ASSUME NEW t \in Thread, UnMutex(t) PROVE SeenAbsent'
  BY <1>20 DEF UnMutex, UnlockMutex, Goto, locals
<1>21. ASSUME NEW t \in Thread, UnMod(t) PROVE SeenAbsent'
  BY <1>21 DEF UnMod, UnlockMod, Return, Found, Index, Goto
<1>22. ASSUME NEW t \in Thread, Oops(t) PROVE SeenAbsent'
  BY <1>22 DEF Oops, UnlockMod, Goto
<1>23. ASSUME NEW t \in Thread, Handover(t) PROVE SeenAbsent'
  BY <1>23 DEF Handover, UnlockMutex, Return, Found, Index, Goto
<1>24. CASE UNCHANGED vars
  BY <1>24 DEF vars
<1> QED
  BY <1>1, <1>2, <1>3, <1>4, <1>5, <1>6, <1>7, <1>8, <1>9, <1>10, <1>11, <1>12,
     <1>13, <1>14, <1>15, <1>16, <1>17, <1>18, <1>19, <1>20, <1>21, <1>22, <1>23, <1>24, Zenon
  DEF Next, LockStep, UnlockStep

-----------------------------------------------------------------------------
(* The inductive invariant holds initially and every step of mflock_lock   *)
(* and mflock_unlock preserves it.                                         *)
THEOREM Inductive == Spec => []LockInv
<1>1. Init => LockInv
  <2> SUFFICES ASSUME Init PROVE LockInv
    OBVIOUS
  <2>1. TypeOK
    BY SlotFacts, WantFacts DEF Init, TypeOK, PcLabel
  <2>2. OwnsMutex /\ OwnsMod /\ HolderLabelled /\ SeenAbsent
    BY SlotFacts DEF Init, OwnsMutex, OwnerPc, AddingPc, OwnsMod, ModPc, HolderLabelled, HolderPc, SeenAbsent
  <2>3. LabelsUnique
    BY DEF Init, LabelsUnique
  <2> QED  BY <2>1, <2>2, <2>3 DEF LockInv
<1>2. LockInv /\ [Next]_vars => LockInv'
  BY TypeStep, MutexStep, ModStep, HolderStep, UniqueStep, AbsentStep DEF LockInv
<1> QED  BY <1>1, <1>2, PTL DEF Spec

(* The table of mflock_t and the locals of mflock_lock and mflock_unlock   *)
(* stay within their types: no loop leaves the table, no slot is used that *)
(* is not there, and want stays unsigned.                                  *)
THEOREM TypeCorrect == Spec => []TypeOK
  BY Inductive, PTL DEF LockInv

(* Two threads with the lock of one label would have the same slot, since  *)
(* a label is in one slot, and so both own its mutex.                      *)
LEMMA OneHolder == LockInv => MutualExclusion
<1> SUFFICES ASSUME LockInv, NEW t \in Thread, NEW u \in Thread, NEW l \in Label, Holds(t, l), Holds(u, l)
             PROVE  t = u
  BY DEF MutualExclusion
<1>1. label[ml[t]] = l /\ label[ml[u]] = l /\ ml[t] \in Slot /\ ml[u] \in Slot /\ l # 0
  BY TableAssumption DEF LockInv, TypeOK, HolderLabelled, Holds
<1>2. ml[t] = ml[u]
  BY <1>1 DEF LockInv, LabelsUnique
<1>3. mutex[ml[t]] = t /\ mutex[ml[u]] = u
  BY DEF LockInv, OwnsMutex, OwnerPc, Holds, HolderPc
<1> QED  BY <1>2, <1>3

(* mflock_lock never lets two threads have the lock of the same label      *)
(* (mflock.c:39), with any number of threads and slots, whatever updates   *)
(* of want are lost.                                                       *)
THEOREM Exclusion == Spec => []MutualExclusion
  BY Inductive, OneHolder, PTL

(* A label is in the table at most once (mflock.c:48-49).                  *)
THEOREM Uniqueness == Spec => []LabelsUnique
  BY Inductive, PTL DEF LockInv

(* A label changes only in Claim and Unlabel, where the thread owns both   *)
(* the slot's mutex and the MOD mutex of the label it adds or removes.     *)
THEOREM UnderMutexes == Spec => LabelledUnderMutexes
<1> DEFINE L(i) == IF label[i] = 0 THEN label'[i] ELSE label[i]
           P == \A i \in Slot : label'[i] # label[i] =>
                   /\ label[i] = 0 \/ label'[i] = 0
                   /\ mutex[i] # NoThread /\ modmutex[ModOf(L(i))] = mutex[i]
<1>1. LockInv /\ [Next]_vars => P
  <2> SUFFICES ASSUME LockInv, [Next]_vars PROVE P
    OBVIOUS
  <2>1. ASSUME NEW t \in Thread, Claim(t) PROVE P
    <3>1. mutex[ml[t]] = t /\ modmutex[ModOf(lab[t])] = t
      BY <2>1 DEF Claim, LockInv, OwnsMutex, OwnerPc, OwnsMod, ModPc
    <3>2. \A i \in Slot : label'[i] # label[i] => i = ml[t] /\ label[i] = 0 /\ label'[i] = lab[t]
      BY <2>1 DEF Claim, LockInv, TypeOK
    <3> QED  BY <3>1, <3>2, TableAssumption
  <2>2. ASSUME NEW t \in Thread, Unlabel(t) PROVE P
    <3>1. mutex[ml[t]] = t /\ modmutex[ModOf(lab[t])] = t /\ label[ml[t]] = lab[t]
      BY <2>2 DEF Unlabel, LockInv, OwnsMutex, OwnerPc, OwnsMod, ModPc, HolderLabelled, HolderPc
    <3>2. \A i \in Slot : label'[i] # label[i] => i = ml[t] /\ label'[i] = 0
      BY <2>2 DEF Unlabel, LockInv, TypeOK
    <3> QED  BY <3>1, <3>2, TableAssumption
  <2>3. ASSUME label' = label PROVE P
    BY <2>3
  <2> QED  BY <2>1, <2>2, <2>3, LabelFrame
<1> QED  BY <1>1, Inductive, PTL DEF Spec, LabelledUnderMutexes

-----------------------------------------------------------------------------
(* Seen as LockSpec, the holder of a label is the thread that has it.      *)
HolderSeen == \A l \in Label :
                 /\ \A t \in Thread : Holds(t, l) => HolderOf(l) = t
                 /\ (\A t \in Thread : ~ Holds(t, l)) => HolderOf(l) = NoThread

(* It follows from mutual exclusion, which makes the CHOOSE unambiguous.   *)
LEMMA HolderIs == LockInv => HolderSeen
  BY OneHolder, Zenon DEF MutualExclusion, HolderSeen, HolderOf

(* A step that changes nobody's locks is invisible in LockSpec.            *)
LEMMA Invisible ==
    ASSUME \A u \in Thread, k \in Label : Holds(u, k)' <=> Holds(u, k)
    PROVE  [l \in Label |-> HolderOf(l)]' = [l \in Label |-> HolderOf(l)]
<1>1. ASSUME NEW l \in Label PROVE HolderOf(l)' = HolderOf(l)
  BY <1>1, Zenon DEF HolderOf
<1> QED  BY <1>1

(* A step after which mflock_lock has got the label l for t is Acquire.    *)
LEMMA Acquires ==
    ASSUME LockInv, LockInv', NEW t \in Thread, NEW l \in Label, ~ Holds(t, l), Holds(t, l)',
           \A u \in Thread, k \in Label : <<u, k>> # <<t, l>> => (Holds(u, k)' <=> Holds(u, k))
    PROVE  Abstract!Acquire(t, l)
<1> DEFINE h == [k \in Label |-> HolderOf(k)]
<1>1. HolderSeen /\ HolderSeen'
  BY HolderIs, PTL
<1>2. MutualExclusion'
  BY OneHolder, PTL
<1>3. \A u \in Thread : ~ Holds(u, l)
  BY <1>2 DEF MutualExclusion
<1>4. HolderOf(l) = NoThread /\ HolderOf(l)' = t
  BY <1>1, <1>3 DEF HolderSeen
<1>5. ASSUME NEW k \in Label, k # l PROVE HolderOf(k)' = HolderOf(k)
  BY <1>5, Zenon DEF HolderOf
<1>6. h' = [h EXCEPT ![l] = t]
  BY <1>4, <1>5, Zenon
<1> QED  BY <1>4, <1>6 DEF Abstract!Acquire

(* A step with which mflock_unlock gives it up is Release.                 *)
LEMMA Releases ==
    ASSUME LockInv, LockInv', NEW t \in Thread, NEW l \in Label, Holds(t, l), ~ Holds(t, l)',
           \A u \in Thread, k \in Label : <<u, k>> # <<t, l>> => (Holds(u, k)' <=> Holds(u, k))
    PROVE  Abstract!Release(t, l)
<1> DEFINE h == [k \in Label |-> HolderOf(k)]
<1>1. HolderSeen /\ HolderSeen'
  BY HolderIs, PTL
<1>2. MutualExclusion
  BY OneHolder
<1>3. \A u \in Thread : ~ Holds(u, l)'
  BY <1>2 DEF MutualExclusion
<1>4. HolderOf(l) = t /\ HolderOf(l)' = NoThread
  BY <1>1, <1>3 DEF HolderSeen
<1>5. ASSUME NEW k \in Label, k # l PROVE HolderOf(k)' = HolderOf(k)
  BY <1>5, Zenon DEF HolderOf
<1>6. h' = [h EXCEPT ![l] = NoThread]
  BY <1>4, <1>5, Zenon
<1> QED  BY <1>4, <1>6 DEF Abstract!Release

(* Every step of the lock table is a step of LockSpec or invisible in it:  *)
(* a label is acquired where Claim has labelled a slot or Recheck has      *)
(* found its label still there, and released where Unlabel has removed it  *)
(* or Handover has unlocked the mutex.                                     *)
LEMMA LockStepRefines == LockInv /\ LockInv' /\ [Next]_vars
                         => [Abstract!LockNext]_([l \in Label |-> HolderOf(l)])
<1> DEFINE h == [l \in Label |-> HolderOf(l)]
           Same == \A u \in Thread, k \in Label : Holds(u, k)' <=> Holds(u, k)
<1> SUFFICES ASSUME LockInv, LockInv', [Next]_vars PROVE Abstract!LockNext \/ h' = h
  OBVIOUS
<1>0. Same => h' = h
  BY Invisible
<1> HIDE DEF h
<1> USE DEF LockInv, TypeOK
<1>1. ASSUME NEW t \in Thread, Claim(t) PROVE Abstract!LockNext \/ Same
  <2>1. CASE label[ml[t]] = 0
    <3>1. lab[t] \in Label
      BY <1>1, Zenon DEF Claim, OwnsMod
    <3>2. /\ ~ Holds(t, lab[t]) /\ Holds(t, lab[t])'
          /\ \A u \in Thread, k \in Label : <<u, k>> # <<t, lab[t]>> => (Holds(u, k)' <=> Holds(u, k))
      BY <1>1, <2>1 DEF Claim, Goto, Holds, HolderPc
    <3> QED  BY <3>1, <3>2, Acquires, Zenon DEF Abstract!LockNext
  <2>2. CASE label[ml[t]] # 0
    BY <1>1, <2>2 DEF Claim, Goto, Holds, HolderPc
  <2> QED  BY <2>1, <2>2, Zenon
<1>2. ASSUME NEW t \in Thread, Recheck(t) PROVE Abstract!LockNext \/ Same
  <2>1. CASE label[ml[t]] = lab[t]
    <3>1. lab[t] \in Label
      BY <1>2 DEF Recheck, OwnsMod
    <3>2. /\ ~ Holds(t, lab[t]) /\ Holds(t, lab[t])'
          /\ \A u \in Thread, k \in Label : <<u, k>> # <<t, lab[t]>> => (Holds(u, k)' <=> Holds(u, k))
      BY <1>2, <2>1 DEF Recheck, Goto, Holds, HolderPc
    <3> QED  BY <3>1, <3>2, Acquires DEF Abstract!LockNext
  <2>2. CASE label[ml[t]] # lab[t]
    BY <1>2, <2>2 DEF Recheck, Goto, Holds, HolderPc
  <2> QED  BY <2>1, <2>2
<1>3. ASSUME NEW t \in Thread, Unlabel(t) PROVE Abstract!LockNext \/ Same
  <2>1. CASE want[ml[t]] = 0
    <3>1. lab[t] \in Label
      BY <1>3, Zenon DEF Unlabel, OwnsMod
    <3>2. /\ Holds(t, lab[t]) /\ ~ Holds(t, lab[t])'
          /\ \A u \in Thread, k \in Label : <<u, k>> # <<t, lab[t]>> => (Holds(u, k)' <=> Holds(u, k))
      BY <1>3, <2>1 DEF Unlabel, Goto, Holds, HolderPc, locals
    <3> QED  BY <3>1, <3>2, Releases DEF Abstract!LockNext
  <2>2. CASE want[ml[t]] # 0
    BY <1>3, <2>2 DEF Unlabel, Goto, Holds, HolderPc, locals
  <2> QED  BY <2>1, <2>2, Zenon
<1>4. ASSUME NEW t \in Thread, Handover(t) PROVE Abstract!LockNext \/ Same
  <2>1. lab[t] \in Label
    BY <1>4 DEF Handover, OwnsMod
  <2>2. /\ Holds(t, lab[t]) /\ ~ Holds(t, lab[t])'
        /\ \A u \in Thread, k \in Label : <<u, k>> # <<t, lab[t]>> => (Holds(u, k)' <=> Holds(u, k))
    BY <1>4, Zenon DEF Handover, Return, Goto, Holds, HolderPc
  <2> QED  BY <2>1, <2>2, Releases DEF Abstract!LockNext
<1> USE DEF Goto, Holds, HolderPc, table, locals
<1>5. ASSUME NEW t \in Thread, NEW l \in Label, Call(t, l) PROVE Same
  BY <1>5, Zenon DEF Call
<1>6. ASSUME NEW t \in Thread, Scan(t) \/ NotFound(t) \/ GetMod(t) \/ DropMod(t) PROVE Same
  BY <1>6, Zenon DEF Scan, NotFound, GetMod, DropMod
<1>7. ASSUME NEW t \in Thread, IncLoad(t) \/ IncStore(t) \/ Block(t) \/ DecLoad(t) \/ DecStore(t) PROVE Same
  BY <1>7 DEF IncLoad, IncStore, Block, DecLoad, DecStore, LoadWant, StoreWant
<1>8. ASSUME NEW t \in Thread, Find(t) \/ TryLock(t) \/ Unclaim(t) \/ Claimed(t) PROVE Same
  BY <1>8, Zenon DEF Find, TryLock, Unclaim, Claimed
<1>9. ASSUME NEW t \in Thread, Unlock(t) \/ UnGetMod(t) \/ UnMutex(t) \/ Oops(t) PROVE Same
  BY <1>9 DEF Unlock, UnGetMod, UnMutex, Oops
<1>10. ASSUME NEW t \in Thread, UnMod(t) PROVE Same
  BY <1>10, Zenon DEF UnMod, Return
<1>11. ASSUME UNCHANGED vars PROVE Same
  BY <1>11 DEF vars
<1> QED
  BY <1>0, <1>1, <1>2, <1>3, <1>4, <1>5, <1>6, <1>7, <1>8, <1>9, <1>10, <1>11
  DEF Next, LockStep, UnlockStep

(* The lock table of mflock.c implements LockSpec, the locks that mfd.c    *)
(* and block.c rely on, for any number of threads, labels and slots.       *)
THEOREM Refinement == Spec => ImplementsLockSpec
<1>1. Init => Abstract!LockInit
  <2> SUFFICES ASSUME Init PROVE Abstract!LockInit
    OBVIOUS
  <2>1. \A l \in Label : HolderOf(l) = NoThread
    BY DEF Init, HolderOf, Holds, HolderPc
  <2> QED  BY <2>1 DEF Abstract!LockInit
<1> QED  BY <1>1, LockStepRefines, Inductive, PTL DEF Spec, ImplementsLockSpec, Abstract!LockingSpec

-----------------------------------------------------------------------------
(* The loops of block.c.                                                   *)

(* What the shifts and masks of block.c compute: x is byte x % S of block  *)
(* x \div S.                                                               *)
LEMMA DivMod ==
  ASSUME NEW S \in Nat \ {0}, NEW x \in Nat
  PROVE  /\ x \div S \in Nat /\ x % S \in 0 .. S - 1
         /\ x = (x \div S) * S + (x % S)
  BY Z3

(* Facts about multiples of the block size.                                *)
LEMMA Multiples ==
  ASSUME NEW S \in Nat \ {0}, NEW b \in Nat
  PROVE  b * S \in Nat /\ (b + 1) * S = b * S + S
  BY Z3

LEMMA Order ==
  ASSUME NEW S \in Nat \ {0}, NEW b \in Nat, NEW c \in Nat
  PROVE  /\ b * S < c * S + S => b <= c
         /\ b < c => b * S + S <= c * S
  BY Z3

(* A byte between the ends of block b is in block b, as far from its start. *)
LEMMA DivUnique ==
  ASSUME NEW S \in Nat \ {0}, NEW x \in Nat, NEW b \in Nat, b * S <= x, x < b * S + S
  PROVE  x \div S = b /\ x % S = x - b * S
<1> DEFINE q == x \div S
<1>1. q \in Nat /\ q * S <= x /\ x < q * S + S /\ x = q * S + (x % S)
  <2>1. q \in Nat /\ q * S \in Nat /\ x % S \in 0 .. S - 1 /\ x = q * S + (x % S)
    BY DivMod, Multiples, Zenon
  <2> QED  BY <2>1
<1>2. b * S \in Nat /\ q * S \in Nat
  BY <1>1, Multiples
<1> HIDE DEF q
<1>3. b <= q /\ q <= b
  <2>1. b * S < q * S + S /\ q * S < b * S + S
    BY <1>1, <1>2
  <2> QED  BY <1>1, <2>1, Order
<1>4. q = b
  BY <1>1, <1>3
<1>5. x % S = x - b * S
  <2>1. x % S \in Int
    BY DivMod
  <2> QED  BY <1>1, <1>2, <1>4, <2>1
<1> QED  BY <1>4, <1>5 DEF q

-----------------------------------------------------------------------------
(* The end of what the call is about, its first and its last block.        *)
End == IF call.op # "truncate" /\ call.offset + call.size <= call.fsize
       THEN call.offset + call.size ELSE call.fsize
First == call.offset \div BL_S
Last == (End - 1) \div BL_S

Types ==
    /\ call \in Calls /\ at \in {"call", "loop", "done"}
    /\ size \in Nat /\ blockoffset \in Nat /\ blocknumber \in Nat /\ copyto \in Nat
    /\ buf \in [Byte -> Int \X Int] /\ saved \in SUBSET Nat

Called == copyto = 0 /\ saved = {}

InLoop ==
    /\ size # 0 /\ call.offset + size = End
    /\ blocknumber # 0 /\ blockoffset >= First
    /\ blockoffset + blocknumber - 1 = Last
    /\ copyto = IF call.op # "read" \/ blockoffset = First THEN 0
                ELSE blockoffset * BL_S - call.offset
    /\ saved = IF call.op = "read" THEN {} ELSE First .. blockoffset - 1

Done ==
    /\ call.op = "read" => IF End <= call.offset THEN copyto = 0 ELSE call.offset + copyto = End
    /\ call.op # "read" => saved = IF End <= call.offset THEN {} ELSE First .. Last

Buffer == \A i \in Byte : buf[i] = IF i < copyto THEN ByteOf(call.offset + i) ELSE NoByte

(* The inductive invariant: the loop has done the blocks from First to     *)
(* blockoffset - 1, and copyto is where the bytes of the next one go.      *)
Inv == /\ Types
       /\ Buffer
       /\ at = "call" => Called
       /\ at = "loop" => InLoop
       /\ at = "done" => Done

LEMMA BlockInitInv == BlockInit => Inv
  BY DEF BlockInit, Inv, Types, Called, Buffer, Calls, Byte, NoByte

LEMMA CallTypes ==
  ASSUME call \in Calls
  PROVE  /\ call.offset \in Nat /\ call.size \in Nat /\ call.fsize \in Nat
         /\ call.op \in {"read", "write", "truncate"} /\ End \in Nat
  BY BlockAssumption DEF Calls, Byte, End

LEMMA NowhereInv == Inv /\ Nowhere => Inv'
<1> SUFFICES ASSUME Inv, Nowhere PROVE Inv'
  OBVIOUS
<1> USE BlockAssumption
<1>1. End <= call.offset
  BY CallTypes DEF Inv, Types, Nowhere, Asked, End
<1>2. End' = End /\ First' = First /\ Last' = Last
  BY DEF Nowhere, End, First, Last
<1>3. Types' /\ at' = "done"
  BY DEF Inv, Types, Nowhere
<1>4. Buffer'
  BY DEF Inv, Buffer, Nowhere
<1>5. Done'
  BY <1>1, <1>2 DEF Inv, Called, Done, Nowhere
<1> QED  BY <1>3, <1>4, <1>5 DEF Inv

LEMMA CalcInv == Inv /\ CalcBlocks => Inv'
<1> SUFFICES ASSUME Inv, CalcBlocks PROVE Inv'
  OBVIOUS
<1> USE BlockAssumption
<1> DEFINE o == call.offset
           n == IF o + Asked > call.fsize THEN call.fsize - o ELSE Asked
<1>1. /\ o \in Nat /\ End \in Nat /\ Asked \in Nat /\ Asked # 0
      /\ n \in Nat /\ n # 0 /\ o + n = End
  <2>1. call \in Calls /\ Asked # 0 /\ (o + Asked > call.fsize => o < call.fsize)
    BY Zenon DEF Inv, Types, CalcBlocks
  <2>2. call.fsize \in Nat /\ o \in Nat /\ call.size \in Nat /\ End \in Nat
    BY <2>1, CallTypes, Zenon
  <2>3. Asked \in Nat
    BY <2>2 DEF Asked
  <2>4. o + n = End
    BY <2>2 DEF Asked, End
  <2>5. n \in Nat /\ n # 0
    BY <2>1, <2>2, <2>3
  <2> QED  BY <2>1, <2>2, <2>3, <2>4, <2>5, Zenon
<1>2. /\ size' = n /\ blockoffset' = First /\ blocknumber' = BlockCount(o, n)
      /\ at' = "loop" /\ call' = call /\ copyto' = copyto /\ buf' = buf /\ saved' = saved
  BY DEF CalcBlocks, First
<1> HIDE DEF o, n
<1>3. First \in Nat /\ o % BL_S \in 0 .. BL_S - 1 /\ o = First * BL_S + (o % BL_S)
  BY <1>1, DivMod, Zenon DEF First, o
<1>4. First * BL_S \in Nat
  BY <1>3, Multiples
<1>5. Last \in Nat /\ Last * BL_S \in Nat /\ Last * BL_S <= End - 1 /\ End - 1 < Last * BL_S + BL_S
  <2>1. End - 1 \in Nat
    BY <1>1
  <2>2. Last \in Nat /\ (End - 1) % BL_S \in 0 .. BL_S - 1
        /\ End - 1 = Last * BL_S + ((End - 1) % BL_S)
    BY <2>1, DivMod, Zenon DEF Last
  <2> QED  BY <2>2, Multiples
<1>6. First <= Last
  <2>1. First * BL_S < Last * BL_S + BL_S
    BY <1>1, <1>3, <1>4, <1>5
  <2> QED  BY <1>3, <1>5, <2>1, Order
<1>7. BlockCount(o, n) = Last - First + 1
  <2> DEFINE x == n + (o % BL_S) - 1
             d == Last - First
  <2>1. x \in Nat /\ x = End - 1 - First * BL_S
    BY <1>1, <1>3, <1>4
  <2>2. d \in Nat /\ d * BL_S = Last * BL_S - First * BL_S
    BY <1>3, <1>5, <1>6, Z3
  <2>3. d * BL_S <= x /\ x < d * BL_S + BL_S
    BY <1>1, <1>4, <1>5, <2>1, <2>2
  <2> HIDE DEF x, d
  <2>4. x \div BL_S = d
    BY <2>1, <2>2, <2>3, DivUnique
  <2> QED  BY <2>4 DEF BlockCount, x, d
<1>8. End' = End /\ First' = First /\ Last' = Last
  BY <1>2 DEF End, First, Last
<1>9. Types'
  BY <1>1, <1>2, <1>3, <1>5, <1>6, <1>7 DEF Inv, Types
<1>10. Buffer'
  BY <1>2 DEF Inv, Buffer, ByteOf
<1>11. InLoop'
  <2>1. copyto = 0 /\ saved = {}
    BY DEF Inv, Called, CalcBlocks
  <2>2. First .. First - 1 = {}
    BY <1>3
  <2>3. blocknumber' # 0 /\ blockoffset' + blocknumber' - 1 = Last
    BY <1>2, <1>3, <1>5, <1>6, <1>7
  <2>4. size' # 0 /\ call'.offset + size' = End'
    BY <1>1, <1>2, <1>8 DEF o
  <2> QED  BY <1>2, <1>3, <1>8, <2>1, <2>2, <2>3, <2>4 DEF InLoop
<1> QED  BY <1>2, <1>9, <1>10, <1>11 DEF Inv
(* Where block blockoffset lies with respect to the request.               *)
LEMMA LoopFacts ==
  ASSUME Inv, at = "loop"
  PROVE  /\ call.offset \in Nat /\ End \in Nat /\ call.offset < End
         /\ First \in Nat /\ First * BL_S \in Nat /\ Last \in Nat /\ Last * BL_S \in Nat
         /\ First * BL_S <= call.offset /\ call.offset < First * BL_S + BL_S
         /\ Last * BL_S <= End - 1 /\ End - 1 < Last * BL_S + BL_S
         /\ blockoffset \in Nat /\ blockoffset * BL_S \in Nat
         /\ (blockoffset + 1) * BL_S = blockoffset * BL_S + BL_S
<1> USE BlockAssumption
<1>1. call.offset \in Nat /\ End \in Nat /\ call.offset < End /\ blockoffset \in Nat
  BY CallTypes DEF Inv, Types, InLoop
<1>2. /\ First \in Nat /\ call.offset % BL_S \in 0 .. BL_S - 1
      /\ call.offset = First * BL_S + (call.offset % BL_S)
  BY <1>1, DivMod, Zenon DEF First
<1>3. End - 1 \in Nat
  BY <1>1
<1>4. /\ Last \in Nat /\ (End - 1) % BL_S \in 0 .. BL_S - 1
      /\ End - 1 = Last * BL_S + ((End - 1) % BL_S)
  BY <1>3, DivMod, Zenon DEF Last
<1>5. First * BL_S \in Nat /\ Last * BL_S \in Nat /\ blockoffset * BL_S \in Nat
      /\ (blockoffset + 1) * BL_S = blockoffset * BL_S + BL_S
  BY <1>1, <1>2, <1>4, Multiples
<1> QED  BY <1>1, <1>2, <1>4, <1>5

LEMMA ReadInv == Inv /\ ReadBlock => Inv'
<1> SUFFICES ASSUME Inv, ReadBlock PROVE Inv'
  OBVIOUS
<1> USE BlockAssumption
<1> DEFINE o == call.offset
           B == blockoffset * BL_S
           new == copyto + CopyLength
<1>1. /\ o \in Nat /\ End \in Nat /\ o < End /\ First \in Nat /\ Last \in Nat
      /\ First * BL_S \in Nat /\ Last * BL_S \in Nat
      /\ First * BL_S <= o /\ o < First * BL_S + BL_S
      /\ Last * BL_S <= End - 1 /\ End - 1 < Last * BL_S + BL_S
      /\ blockoffset \in Nat /\ B \in Nat /\ (blockoffset + 1) * BL_S = B + BL_S
  BY LoopFacts DEF ReadBlock
<1>2. /\ call' = call /\ size' = size /\ saved' = saved /\ copyto' = new
      /\ blockoffset' = blockoffset + 1 /\ blocknumber' = blocknumber - 1
      /\ at' = (IF blocknumber = 1 THEN "done" ELSE "loop") /\ call.op = "read"
  BY DEF ReadBlock, NextBlock
<1>3. /\ o + size = End /\ size \in Nat /\ blocknumber \in Nat /\ blocknumber # 0
      /\ blockoffset >= First /\ blockoffset + blocknumber - 1 = Last
      /\ copyto = IF blockoffset = First THEN 0 ELSE B - o
      /\ saved = {}
  BY <1>2 DEF Inv, InLoop, Types, ReadBlock
<1>4. CopyFrom \in Nat /\ copyto \in Nat /\ o + copyto = B + CopyFrom /\ CopyFrom < BL_S
  <2>1. CASE blockoffset = First
    BY <1>1, <1>3, <2>1 DEF CopyFrom
  <2>2. CASE blockoffset # First
    <3>1. First * BL_S + BL_S <= B
      BY <1>1, <1>3, <2>2, Order
    <3> QED  BY <1>1, <1>3, <2>2, <3>1 DEF CopyFrom
  <2> QED  BY <2>1, <2>2
<1>5. /\ CopyLength \in Nat /\ new \in Nat
      /\ IF blocknumber = 1 THEN o + new = End ELSE o + new = B + BL_S
      /\ o + new <= B + BL_S /\ o + new <= End
  <2>1. CASE blocknumber = 1
    <3>1. blockoffset = Last
      BY <1>1, <1>3, <2>1
    <3>2. CopyLength = BL_S - CopyFrom - (B + BL_S - o - size)
      BY <1>1, <1>3, <1>4, <2>1 DEF CopyLength
    <3>3. B <= End - 1 /\ End - 1 < B + BL_S
      BY <1>1, <3>1
    <3>4. copyto <= End - o
      <4>1. CASE blockoffset = First
        BY <1>1, <1>3, <4>1
      <4>2. CASE blockoffset # First
        BY <1>1, <1>3, <3>3, <4>2
      <4> QED  BY <4>1, <4>2
    <3> HIDE DEF B
    <3> QED  BY <1>1, <1>3, <1>4, <2>1, <3>2, <3>3, <3>4
  <2>2. CASE blocknumber # 1
    <3>1. blockoffset < Last
      BY <1>1, <1>3, <2>2
    <3>2. B + BL_S <= Last * BL_S
      BY <1>1, <3>1, Order
    <3>3. CopyLength = BL_S - CopyFrom
      BY <1>4, <2>2 DEF CopyLength
    <3>4. CopyLength \in Nat /\ o + new = B + BL_S
      <4>1. B \in Nat /\ o \in Nat
        BY <1>1
      <4> HIDE DEF B, o
      <4> QED  BY <1>4, <3>3, <4>1
    <3>5. o + new <= End
      BY <1>1, <3>2, <3>4
    <3> QED  BY <1>1, <1>4, <2>2, <3>4, <3>5
  <2> QED  BY <2>1, <2>2
<1>6. End' = End /\ First' = First /\ Last' = Last
  BY <1>2 DEF End, First, Last
<1> HIDE DEF new, B
<1>7. buf' = [i \in Byte |-> IF copyto <= i /\ i < new
                             THEN <<blockoffset, CopyFrom + (i - copyto)>> ELSE buf[i]]
  BY DEF ReadBlock, new
<1>8. Types'
  <2>1. blockoffset \in Int /\ CopyFrom \in Int /\ copyto \in Int /\ buf \in [Byte -> Int \X Int]
    BY <1>1, <1>4 DEF Inv, Types
  <2>2. ASSUME NEW i \in Byte
        PROVE  (IF copyto <= i /\ i < new THEN <<blockoffset, CopyFrom + (i - copyto)>>
                                           ELSE buf[i]) \in Int \X Int
    <3>1. i \in Int
      BY <2>2 DEF Byte
    <3>2. CopyFrom + (i - copyto) \in Int
      BY <2>1, <3>1
    <3>3. <<blockoffset, CopyFrom + (i - copyto)>> \in Int \X Int /\ buf[i] \in Int \X Int
      BY <2>1, <2>2, <3>2
    <3> QED  BY <3>3
  <2>3. buf' \in [Byte -> Int \X Int]
    BY <1>7, <2>2
  <2> QED  BY <1>1, <1>2, <1>3, <1>5, <2>3 DEF Inv, Types
<1>9. Buffer'
  <2> SUFFICES ASSUME NEW i \in Byte
               PROVE  buf'[i] = IF i < new THEN ByteOf(o + i) ELSE NoByte
    BY <1>2 DEF Buffer, ByteOf
  <2>1. buf[i] = IF i < copyto THEN ByteOf(o + i) ELSE NoByte
    BY DEF Inv, Buffer
  <2>2. i \in Nat
    BY DEF Byte
  <2>3. CASE copyto <= i /\ i < new
    <3>1. o + i \in Nat /\ B <= o + i /\ o + i < B + BL_S
      BY <1>1, <1>4, <1>5, <2>2, <2>3
    <3>2. (o + i) \div BL_S = blockoffset /\ (o + i) % BL_S = o + i - B
      <4> DEFINE x == o + i
      <4>1. x \in Nat /\ blockoffset * BL_S <= x /\ x < blockoffset * BL_S + BL_S
        BY <3>1 DEF B
      <4> HIDE DEF x
      <4>2. x \div BL_S = blockoffset /\ x % BL_S = x - blockoffset * BL_S
        BY <1>1, <4>1, DivUnique, Zenon
      <4> QED  BY <1>1, <2>2, <4>2 DEF x, B
    <3>3. CopyFrom + (i - copyto) = o + i - B
      BY <1>1, <1>4, <2>2
    <3> QED  BY <1>7, <2>3, <3>2, <3>3 DEF ByteOf
  <2>4. CASE ~(copyto <= i /\ i < new)
    <3>1. buf'[i] = buf[i] /\ (i < copyto <=> i < new)
      BY <1>4, <1>5, <1>7, <2>2, <2>4 DEF new
    <3> QED  BY <2>1, <3>1
  <2> QED  BY <2>3, <2>4
<1>10. CASE blocknumber = 1
  <2>1. Done'
    BY <1>1, <1>2, <1>5, <1>6, <1>10 DEF Done
  <2> QED  BY <1>2, <1>8, <1>9, <1>10, <2>1 DEF Inv
<1>11. CASE blocknumber # 1
  <2>1. copyto' = blockoffset' * BL_S - call'.offset
    BY <1>1, <1>2, <1>5, <1>11 DEF B
  <2>2. blockoffset' # First'
    BY <1>1, <1>2, <1>3, <1>6
  <2>3. InLoop'
    BY <1>1, <1>2, <1>3, <1>6, <1>11, <2>1, <2>2 DEF InLoop
  <2> QED  BY <1>2, <1>8, <1>9, <1>11, <2>3 DEF Inv
<1> QED  BY <1>10, <1>11

LEMMA WriteInv == Inv /\ WriteBlock => Inv'
<1> SUFFICES ASSUME Inv, WriteBlock PROVE Inv'
  OBVIOUS
<1>1. /\ call.offset < End /\ First \in Nat /\ Last \in Nat /\ blockoffset \in Nat
      /\ call.offset \in Nat /\ End \in Nat
  BY LoopFacts DEF WriteBlock
<1>2. /\ call' = call /\ size' = size /\ saved' = saved \cup {blockoffset}
      /\ copyto' = copyto /\ buf' = buf
      /\ blockoffset' = blockoffset + 1 /\ blocknumber' = blocknumber - 1
      /\ at' = (IF blocknumber = 1 THEN "done" ELSE "loop") /\ call.op # "read"
  BY DEF WriteBlock, NextBlock
<1>3. /\ call.offset + size = End /\ size # 0 /\ blocknumber \in Nat /\ blocknumber # 0
      /\ blockoffset >= First /\ blockoffset + blocknumber - 1 = Last
      /\ copyto = 0 /\ saved = First .. blockoffset - 1
  BY <1>2 DEF Inv, InLoop, Types, WriteBlock
<1>4. End' = End /\ First' = First /\ Last' = Last
  BY <1>2 DEF End, First, Last
<1>5. saved' = First .. blockoffset
  BY <1>1, <1>2, <1>3
<1>6. Types'
  BY <1>1, <1>2, <1>3 DEF Inv, Types
<1>7. Buffer'
  BY <1>2 DEF Inv, Buffer, ByteOf
<1>8. CASE blocknumber = 1
  <2>1. blockoffset = Last
    BY <1>1, <1>3, <1>8
  <2>2. Done'
    BY <1>1, <1>2, <1>4, <1>5, <2>1 DEF Done
  <2> QED  BY <1>2, <1>6, <1>7, <1>8, <2>2 DEF Inv
<1>9. CASE blocknumber # 1
  <2>1. saved' = First .. blockoffset' - 1
    BY <1>1, <1>2, <1>5
  <2>2. InLoop'
    BY <1>1, <1>2, <1>3, <1>4, <1>9, <2>1 DEF InLoop
  <2> QED  BY <1>2, <1>6, <1>7, <1>9, <2>2 DEF Inv
<1> QED  BY <1>8, <1>9

(* The invariant holds in every state of every call.                       *)
THEOREM BlocksInductive == BlockSpec => []Inv
<1>1. BlockInit => Inv
  BY BlockInitInv
<1>2. Inv /\ [BlockNext]_blockVars => Inv'
  <2>1. Inv /\ UNCHANGED blockVars => Inv'
    BY Zenon DEF blockVars, Inv, Types, Buffer, Called, InLoop, Done, End, First, Last, ByteOf
  <2> QED  BY <2>1, NowhereInv, CalcInv, ReadInv, WriteInv DEF BlockNext
<1> QED  BY <1>1, <1>2, PTL DEF BlockSpec

-----------------------------------------------------------------------------
LEMMA WantedIs ==
  ASSUME call \in Calls
  PROVE  Wanted = call.offset .. End - 1
  BY CallTypes DEF Wanted, End

LEMMA InvBuffer == Inv => BufferRight
<1> SUFFICES ASSUME Inv, call.op = "read" PROVE BufferRight
  BY DEF BufferRight
<1> DEFINE o == call.offset
<1>1. o \in Nat /\ End \in Nat /\ copyto \in Nat /\ Wanted = o .. End - 1
  BY CallTypes, WantedIs DEF Inv, Types
<1>2. copyto = 0 \/ o + copyto <= End
  <2>1. CASE at = "loop"
    <3>1. CASE blockoffset = First
      BY <2>1, <3>1 DEF Inv, InLoop
    <3>2. CASE blockoffset # First
      <4>1. /\ blockoffset \in Nat /\ Last \in Nat /\ Last * BL_S \in Nat
            /\ blockoffset * BL_S \in Nat /\ Last * BL_S <= End - 1
        BY <2>1, LoopFacts
      <4>2. copyto = blockoffset * BL_S - o /\ blockoffset <= Last
        <5>1. blocknumber \in Nat /\ blocknumber # 0 /\ blockoffset + blocknumber - 1 = Last
          BY <2>1 DEF Inv, InLoop, Types
        <5>2. blockoffset <= Last
          BY <4>1, <5>1
        <5> QED  BY <2>1, <3>2, <5>2 DEF Inv, InLoop
      <4>3. blockoffset * BL_S <= Last * BL_S
        <5>1. CASE blockoffset = Last
          BY <4>1, <5>1
        <5>2. CASE blockoffset < Last
          <6>1. blockoffset * BL_S + BL_S <= Last * BL_S
            BY <4>1, <5>2, Order, BlockAssumption
          <6> QED  BY <4>1, <6>1, BlockAssumption
        <5> QED  BY <4>1, <4>2, <5>1, <5>2
      <4> QED  BY <1>1, <4>1, <4>2, <4>3
    <3> QED  BY <3>1, <3>2
  <2>2. CASE at = "call"
    BY <2>2 DEF Inv, Called
  <2>3. CASE at = "done"
    BY <1>1, <2>3 DEF Inv, Done
  <2> QED  BY <2>1, <2>2, <2>3 DEF Inv, Types
<1>3. \A i \in Byte : i < copyto => o + i \in Wanted /\ buf[i] = ByteOf(o + i)
  BY <1>1, <1>2 DEF Inv, Buffer, Byte
<1>4. \A i \in Byte : i >= copyto => buf[i] = NoByte
  BY <1>1 DEF Inv, Buffer, Byte
<1>5. at = "done" => \A x \in Wanted : x < o + copyto
  BY <1>1 DEF Inv, Done
<1> QED  BY <1>3, <1>4, <1>5 DEF BufferRight

(* Whatever is asked of b_read, each byte it puts into the buffer is the   *)
(* one that belongs there, and it returns all that the file had.           *)
THEOREM ReadsRight == BlockSpec => []BufferRight
  BY BlocksInductive, InvBuffer, PTL

LEMMA InvSaves == Inv => SavesExactly
<1> SUFFICES ASSUME Inv, call.op # "read" PROVE SavesExactly
  BY DEF SavesExactly
<1> USE BlockAssumption
<1> DEFINE o == call.offset
<1>1. o \in Nat /\ End \in Nat /\ Wanted = o .. End - 1
  BY CallTypes, WantedIs DEF Inv, Types
<1>2. CASE End <= o
  <2>1. Wanted = {} /\ saved = {}
    <3>1. at # "loop"
      BY <1>1, <1>2 DEF Inv, InLoop, Types
    <3> QED  BY <1>1, <1>2, <3>1 DEF Inv, Called, Done, Types
  <2> QED  BY <2>1 DEF SavesExactly
<1>3. CASE o < End
  <2>1. /\ First \in Nat /\ First * BL_S \in Nat /\ First * BL_S <= o /\ o < First * BL_S + BL_S
    <3>1. /\ First \in Nat /\ o % BL_S \in 0 .. BL_S - 1 /\ o = First * BL_S + (o % BL_S)
      BY <1>1, DivMod, Zenon DEF First
    <3> QED  BY <3>1, Multiples
  <2>2. /\ Last \in Nat /\ Last * BL_S \in Nat
        /\ Last * BL_S <= End - 1 /\ End - 1 < Last * BL_S + BL_S
    <3>1. End - 1 \in Nat
      BY <1>1, <1>3
    <3>2. /\ Last \in Nat /\ (End - 1) % BL_S \in 0 .. BL_S - 1
          /\ End - 1 = Last * BL_S + ((End - 1) % BL_S)
      BY <3>1, DivMod, Zenon DEF Last
    <3> QED  BY <3>2, Multiples
  <2>3. saved \subseteq First .. Last /\ (at = "done" => saved = First .. Last)
    <3>1. CASE at = "loop"
      <4>1. /\ blockoffset \in Nat /\ blocknumber \in Nat /\ blocknumber # 0
            /\ blockoffset + blocknumber - 1 = Last /\ saved = First .. blockoffset - 1
        BY <3>1 DEF Inv, InLoop, Types
      <4> QED  BY <2>1, <2>2, <3>1, <4>1
    <3>2. CASE at = "call"
      BY <3>2 DEF Inv, Called
    <3>3. CASE at = "done"
      <4>1. saved = IF End <= o THEN {} ELSE First .. Last
        BY <3>3 DEF Inv, Done
      <4>2. ~(End <= o)
        BY <1>1, <1>3
      <4> QED  BY <4>1, <4>2
    <3> QED  BY <3>1, <3>2, <3>3 DEF Inv, Types
  <2>4. ASSUME NEW b \in First .. Last PROVE \E x \in Wanted : x \div BL_S = b
    <3>1. b \in Nat /\ b * BL_S \in Nat /\ First <= b /\ b <= Last
      BY <2>1, <2>2, Multiples
    <3>2. CASE b = First
      BY <1>1, <1>3, <3>2 DEF First
    <3>3. CASE b # First
      <4>1. First * BL_S + BL_S <= b * BL_S
        BY <2>1, <3>1, <3>3, Order
      <4>2. b * BL_S <= Last * BL_S
        <5>1. CASE b = Last
          BY <2>2, <5>1
        <5>2. CASE b < Last
          <6>1. b * BL_S + BL_S <= Last * BL_S
            BY <2>2, <3>1, <5>2, Order
          <6> QED  BY <2>2, <3>1, <6>1
        <5> QED  BY <2>2, <3>1, <5>1, <5>2
      <4>3. b * BL_S \in Wanted
        BY <1>1, <2>1, <2>2, <3>1, <4>1, <4>2
      <4>4. (b * BL_S) \div BL_S = b
        BY <3>1, DivUnique
      <4> QED  BY <4>3, <4>4
    <3> QED  BY <3>2, <3>3
  <2>5. ASSUME NEW x \in Wanted PROVE x \div BL_S \in First .. Last
    <3> DEFINE q == x \div BL_S
    <3>1. x \in Nat /\ o <= x /\ x <= End - 1
      BY <1>1
    <3>2. q \in Nat /\ q * BL_S \in Nat /\ q * BL_S <= x /\ x < q * BL_S + BL_S
      <4>1. q \in Nat /\ x % BL_S \in 0 .. BL_S - 1 /\ x = q * BL_S + (x % BL_S)
        BY <3>1, DivMod, Zenon
      <4> QED  BY <4>1, Multiples
    <3> HIDE DEF q
    <3>3. First * BL_S < q * BL_S + BL_S /\ q * BL_S < Last * BL_S + BL_S
      BY <1>1, <2>1, <2>2, <3>1, <3>2
    <3>4. First <= q /\ q <= Last
      BY <2>1, <2>2, <3>2, <3>3, Order
    <3>5. q \in First .. Last
      BY <2>1, <2>2, <3>2, <3>4
    <3> QED  BY <3>5 DEF q
  <2> QED  BY <2>3, <2>4, <2>5, Zenon DEF SavesExactly
<1> QED  BY <1>1, <1>2, <1>3

(* b_write goes through exactly the blocks that the request changes and    *)
(* the snapshot had, so no old byte is lost and none is saved in vain.     *)
THEOREM SavesRight == BlockSpec => []SavesExactly
  BY BlocksInductive, InvSaves, PTL

-----------------------------------------------------------------------------
(* The paths of requests.                                                  *)

LOCAL INSTANCE WellFoundedInduction

(* Each nonempty set of positions has a first one.                         *)
LEMMA HasLeast ==
    ASSUME NEW K, K \subseteq Nat, K # {} PROVE \E k \in K : \A j \in K : k <= j
<1>1. PICK R : R = OpToRel(<, Nat)
  BY Zenon
<1>2. IsWellFoundedOn(R, Nat)
  BY <1>1, NatLessThanWellFounded, Zenon
<1>3. PICK k \in K : \A j \in K : ~ (<<j, k>> \in R)
  BY <1>2, WFMin, Zenon
<1>4. R = {p \in Nat \X Nat : p[1] < p[2]}
  BY <1>1, Zenon DEF OpToRel
<1>5. \A j \in K : ~(j < k)
  BY <1>3, <1>4, Zenon
<1> QED  BY <1>5

(* Sequences of the same length with the same elements are the same.       *)
LEMMA SameSeq ==
    ASSUME NEW S, NEW s \in Seq(S), NEW t \in Seq(S), Len(s) = Len(t),
           \A i \in 1 .. Len(s) : s[i] = t[i]
    PROVE  s = t
  OBVIOUS

(* Two sequences put together: how long that is, and what is where.        *)
LEMMA Concatenated ==
    ASSUME NEW S, NEW s \in Seq(S), NEW t \in Seq(S)
    PROVE  /\ s \o t \in Seq(S) /\ Len(s \o t) = Len(s) + Len(t)
           /\ \A i \in 1 .. Len(s) + Len(t) :
                (s \o t)[i] = IF i <= Len(s) THEN s[i] ELSE t[i - Len(s)]
  OBVIOUS

(* The paths of requests as sequences of characters.                       *)
LEMMA PathFacts ==
    ASSUME NEW p \in Path
    PROVE  /\ p \in Seq({"/", "S", "a"}) /\ Len(p) \in Nat /\ Len(p) >= 1 /\ p[1] = "/"
           /\ \A i \in 1 .. Len(p) : p[i] \in {"/", "S", "a"}
           /\ \A i \in 2 .. Len(p) : p[i - 1] # "/" \/ p[i] # "/"
<1>1. PICK n \in 1 .. MaxLen : p \in [1 .. n -> {"/", "S", "a"}]
  BY Zenon DEF Path
<1>2. n \in Nat /\ n >= 1
  BY PathAssumption
<1>3. p \in Seq({"/", "S", "a"}) /\ Len(p) = n
  BY <1>1, <1>2
<1>4. p[1] = "/" /\ \A i \in 2 .. Len(p) : p[i - 1] # "/" \/ p[i] # "/"
  BY Zenon DEF Path
<1> QED  BY <1>1, <1>2, <1>3, <1>4

(* strchr finds the first slash from place i on.                           *)
LEMMA NextSlashIs ==
    ASSUME NEW p \in Path, NEW i \in Nat, i > 0, NEW e, e = NextSlash(p, i)
    PROVE  \/ e = 0 /\ \A k \in i .. Len(p) : p[k] # "/"
           \/ /\ e \in i .. Len(p) /\ e \in Nat /\ e > 0 /\ p[e] = "/"
              /\ \A k \in i .. Len(p) : k < e => p[k] # "/"
<1>1. PICK K : K = {j \in i .. Len(p) : p[j] = "/"}
  BY Zenon
<1>2. e = IF K = {} THEN 0 ELSE CHOOSE j \in K : \A k \in K : j <= k
  BY <1>1 DEF NextSlash
<1>3. CASE K = {}
  BY <1>1, <1>2, <1>3, Zenon
<1>4. CASE K # {}
  <2>1. Len(p) \in Nat /\ K \subseteq Nat
    BY <1>1, PathFacts
  <2>2. e \in K /\ \A k \in K : e <= k
    <3>1. \E j \in K : \A k \in K : j <= k
      BY <1>4, <2>1, HasLeast, Zenon
    <3> QED  BY <1>2, <1>4, <3>1, Zenon
  <2>3. e \in i .. Len(p) /\ p[e] = "/"
    BY <1>1, <2>2, Zenon
  <2>4. e \in Nat /\ e > 0
    BY <2>1, <2>3
  <2>5. ASSUME NEW k \in i .. Len(p), k < e PROVE p[k] # "/"
    <3>1. ~(e <= k)
      BY <2>1, <2>4, <2>5
    <3> QED  BY <1>1, <2>2, <3>1, Zenon
  <2> QED  BY <2>3, <2>4, <2>5, Zenon
<1> QED  BY <1>3, <1>4, Zenon

(* The directory of snapshots, as the code compares paths with it          *)
(* (util.c:141).                                                           *)
LEMMA Dir == SNDIR = <<"/", "S">> /\ SNDIR_LEN = 2 /\ SNDIR[1] = "/" /\ SNDIR[2] = "S"
BY DEF SNDIR, SNDIR_LEN

(* $$_IS_PATH_IN_SN, as a condition on the first characters.               *)
LEMMA InSnIs ==
    ASSUME NEW p \in Path
    PROVE  InSn(p) <=> Len(p) >= 2 /\ p[2] = "S" /\ (Len(p) = 2 \/ p[3] = "/")
<1>1. Len(p) \in Nat /\ p[1] = "/"
  BY PathFacts, Zenon
<1>2. (\A i \in 1 .. SNDIR_LEN : p[i] = SNDIR[i]) <=> p[1] = "/" /\ p[2] = "S"
  BY Dir
<1>3. SNDIR_LEN + 1 = 3 /\ SNDIR_LEN = 2
  BY Dir
<1> QED  BY <1>1, <1>2, <1>3, Zenon DEF InSn, Starts

(* It holds exactly for the paths whose first name is "snapshots".         *)
LEMMA InSnRight == ASSUME NEW p \in Path PROVE InSn(p) <=> UnderSnapshots(p)
<1>1. /\ Len(p) \in Nat /\ Len(p) >= 1 /\ p[1] = "/" /\ p \in Seq({"/", "S", "a"})
      /\ \A i \in 2 .. Len(p) : p[i - 1] # "/" \/ p[i] # "/"
  BY PathFacts, Zenon
<1>2. PICK e : e = NextSlash(p, 2)
  BY Zenon
<1>3. \/ e = 0 /\ \A k \in 2 .. Len(p) : p[k] # "/"
      \/ /\ e \in 2 .. Len(p) /\ e \in Nat /\ e > 0 /\ p[e] = "/"
         /\ \A k \in 2 .. Len(p) : k < e => p[k] # "/"
  <2>1. 2 \in Nat /\ 2 > 0
    OBVIOUS
  <2> QED  BY <1>2, <2>1, NextSlashIs
<1>4. PICK l : l = IF e = 0 THEN Len(p) ELSE e - 1
  BY Zenon
<1>5. UnderSnapshots(p) <=> 2 \in Names(p) /\ SubSeq(p, 2, l) = <<"S">>
  BY <1>2, <1>4, Zenon DEF UnderSnapshots, NameFrom
<1>6. 2 \in Names(p) <=> Len(p) >= 2
  <2>1. 2 - 1 = 1 /\ (2 \in 2 .. Len(p) <=> Len(p) >= 2)
    BY <1>1
  <2>2. Len(p) >= 2 => p[2] # "/"
    BY <1>1, <2>1
  <2> QED  BY <1>1, <2>1, <2>2, Zenon DEF Names, NameAt
<1>7. Len(p) >= 2 => (SubSeq(p, 2, l) = <<"S">> <=> l = 2 /\ p[2] = "S")
  <2>1. SUFFICES ASSUME Len(p) >= 2
                 PROVE  SubSeq(p, 2, l) = <<"S">> <=> l = 2 /\ p[2] = "S"
    BY Zenon
  <2>2. l \in 1 .. Len(p) /\ l \in Nat
    BY <1>1, <1>3, <1>4, <2>1
  <2>3. PICK s : s = SubSeq(p, 2, l)
    BY Zenon
  <2>4. s \in Seq({"/", "S", "a"}) /\ Len(s) = l - 1 /\ (l >= 2 => s[1] = p[2])
    BY <1>1, <2>1, <2>2, <2>3
  <2>5. s = <<"S">> <=> Len(s) = 1 /\ s[1] = "S"
    <3>1. /\ <<"S">> \in Seq({"/", "S", "a"}) /\ Len(<<"S">>) = 1 /\ <<"S">>[1] = "S"
          /\ \A i \in 1 .. 1 : i = 1
      OBVIOUS
    <3> QED  BY <2>4, <3>1, SameSeq, Zenon
  <2> QED  BY <2>2, <2>3, <2>4, <2>5
<1>8. Len(p) >= 2 => (l = 2 <=> Len(p) = 2 \/ p[3] = "/")
  <2>1. SUFFICES ASSUME Len(p) >= 2 PROVE l = 2 <=> Len(p) = 2 \/ p[3] = "/"
    BY Zenon
  <2>2. p[2] # "/"
    BY <1>1, <2>1
  <2>3. CASE e = 0
    <3>1. l = Len(p) /\ \A k \in 2 .. Len(p) : p[k] # "/"
      BY <1>3, <1>4, <2>3
    <3> QED  BY <1>1, <2>1, <3>1
  <2>4. CASE e # 0
    <3>1. l = e - 1 /\ e \in 2 .. Len(p) /\ p[e] = "/" /\ \A k \in 2 .. Len(p) : k < e => p[k] # "/"
      BY <1>3, <1>4, <2>4
    <3>2. e # 2
      BY <2>2, <3>1, Zenon
    <3>3. e >= 3 /\ e <= Len(p) /\ e \in Nat
      BY <1>1, <3>1, <3>2
    <3>4. p[3] = "/" => e = 3
      BY <1>1, <3>1, <3>3
    <3>5. e = 3 => p[3] = "/"
      BY <3>1, Zenon
    <3> QED  BY <1>1, <3>1, <3>3, <3>4, <3>5
  <2> QED  BY <2>3, <2>4, Zenon
<1> QED  BY <1>5, <1>6, <1>7, <1>8, InSnIs, Zenon

(* How many names a path has, by where they begin: one in /snapshots, two  *)
(* for a snapshot, more inside one, where a third name begins at n.        *)
LEMMA NameCount ==
    ASSUME NEW p
    PROVE  /\ Names(p) = {2} => OneName(p) /\ ~TwoNames(p)
           /\ Names(p) = {2, 4} => TwoNames(p) /\ ~OneName(p)
           /\ \A n \in Nat : n > 4 /\ {2, 4, n} \subseteq Names(p) => ~OneName(p) /\ ~TwoNames(p)
<1>1. PICK N : N = Names(p)
  BY Zenon
<1>2. 2 # 4
  OBVIOUS
<1>3. N = {2} => OneName(p) /\ ~TwoNames(p)
  BY <1>1, Zenon DEF OneName, TwoNames
<1>4. N = {2, 4} => TwoNames(p) /\ ~OneName(p)
  BY <1>1, <1>2, Zenon DEF OneName, TwoNames
<1>5. ASSUME NEW n \in Nat, n > 4, {2, 4, n} \subseteq N PROVE ~OneName(p) /\ ~TwoNames(p)
  <2>1. n # 2 /\ n # 4
    BY <1>5
  <2> QED  BY <1>1, <1>2, <1>5, <2>1, Zenon DEF OneName, TwoNames
<1> QED  BY <1>1, <1>3, <1>4, <1>5, Zenon

(* What decompose_sn_path has to find in a path p.                         *)
Parts(p, d) ==
    /\ d.to \in {"root", "id", "full"}
    /\ d.to = "root" <=> OneName(p)
    /\ d.to = "id" <=> TwoNames(p)
    /\ d.to # "root" => d.id = <<"/">> \o NameFrom(p, 4)
    /\ \/ p = SNDIR \o d.id \o d.inpath
       \/ p = SNDIR \o d.id \o d.inpath \o <<"/">>

(* The id that decompose_sn_path finds is a slash and a name.              *)
LEMMA CutInTwo ==
    ASSUME NEW S, NEW p \in Seq(S), NEW i \in Nat, 1 <= i, NEW j \in Nat, i <= j, j <= Len(p)
    PROVE  SubSeq(p, i, j) = <<p[i]>> \o SubSeq(p, i + 1, j)
<1>1. PICK s, t : s = SubSeq(p, i, j) /\ t = SubSeq(p, i + 1, j)
  BY Zenon
<1>2. s \in Seq(S) /\ Len(s) = j - i + 1 /\ \A k \in 1 .. Len(s) : s[k] = p[i + k - 1]
  BY <1>1
<1>3. t \in Seq(S) /\ Len(t) = j - i /\ \A k \in 1 .. Len(t) : t[k] = p[i + k]
  BY <1>1
<1>4. PICK u : u = <<p[i]>> \o t
  BY Zenon
<1>5. /\ u \in Seq(S) /\ Len(u) = 1 + Len(t) /\ u[1] = p[i]
      /\ \A k \in 2 .. Len(u) : u[k] = t[k - 1]
  <2>1. p[i] \in S /\ <<p[i]>> \in Seq(S) /\ Len(<<p[i]>>) = 1 /\ <<p[i]>>[1] = p[i]
    OBVIOUS
  <2>2. PICK v : v = <<p[i]>>
    BY Zenon
  <2>3. v \in Seq(S) /\ Len(v) = 1 /\ v[1] = p[i] /\ u = v \o t /\ t \in Seq(S)
    BY <1>3, <1>4, <2>1, <2>2, Zenon
  <2>4. /\ u \in Seq(S) /\ Len(u) = Len(v) + Len(t)
        /\ \A k \in 1 .. Len(u) : u[k] = IF k <= Len(v) THEN v[k] ELSE t[k - Len(v)]
    <3>1. v \in Seq(S) /\ t \in Seq(S) /\ u = v \o t
      BY <2>3, Zenon
    <3> QED  BY <3>1
  <2>5. Len(t) \in Nat
    BY <1>3
  <2> QED  BY <2>3, <2>4, <2>5
<1>6. \A k \in 1 .. Len(s) : s[k] = u[k]
  <2>1. TAKE k \in 1 .. Len(s)
  <2>2. CASE k = 1
    BY <1>2, <1>5, <2>2
  <2>3. CASE k # 1
    BY <1>2, <1>3, <1>5, <2>3
  <2> QED  BY <2>2, <2>3
<1>7. Len(s) = Len(u)
  BY <1>2, <1>3, <1>5
<1> QED  BY <1>1, <1>2, <1>4, <1>5, <1>6, <1>7, SameSeq, Zenon

(* A path cut in two (as decompose_sn_path does) and put together again.   *)
LEMMA Joined ==
    ASSUME NEW S, NEW p \in Seq(S), NEW i \in Nat, i < Len(p)
    PROVE  p = SubSeq(p, 1, i) \o SubSeq(p, i + 1, Len(p))
<1>1. PICK s, t : s = SubSeq(p, 1, i) /\ t = SubSeq(p, i + 1, Len(p))
  BY Zenon
<1>2. s \in Seq(S) /\ Len(s) = i /\ \A k \in 1 .. i : s[k] = p[k]
  BY <1>1
<1>3. t \in Seq(S) /\ Len(t) = Len(p) - i /\ \A k \in 1 .. Len(t) : t[k] = p[i + k]
  BY <1>1
<1>4. PICK u, l : u = s \o t /\ l = Len(p)
  BY Zenon
<1>5. s \in Seq(S) /\ t \in Seq(S) /\ Len(s) = i /\ Len(t) = l - i /\ l \in Nat /\ i < l
  BY <1>2, <1>3, <1>4
<1>6. Len(s) + Len(t) = l
  BY <1>5
<1>7. /\ u \in Seq(S) /\ Len(u) = l
      /\ \A k \in 1 .. l : u[k] = IF k <= i THEN s[k] ELSE t[k - i]
  <2>1. /\ s \o t \in Seq(S) /\ Len(s \o t) = Len(s) + Len(t)
        /\ \A k \in 1 .. Len(s) + Len(t) : (s \o t)[k] = IF k <= Len(s) THEN s[k] ELSE t[k - Len(s)]
    BY <1>5, Concatenated, Zenon
  <2>2. Len(s) = i
    BY <1>5, Zenon
  <2> QED  BY <1>4, <1>6, <2>1, <2>2, Zenon
<1>8. ASSUME NEW k \in 1 .. l PROVE p[k] = u[k]
  <2>1. CASE k <= i
    <3>1. k \in 1 .. i
      BY <2>1
    <3> QED  BY <1>2, <1>7, <2>1, <3>1, Zenon
  <2>2. CASE ~(k <= i)
    <3>1. PICK j : j = k - i
      BY Zenon
    <3>2. j \in 1 .. Len(t) /\ i + j = k
      BY <1>5, <2>2, <3>1
    <3> QED  BY <1>3, <1>7, <2>2, <3>1, <3>2, Zenon
  <2> QED  BY <2>1, <2>2, Zenon
<1> QED  BY <1>1, <1>4, <1>7, <1>8, SameSeq, Zenon

(* decompose_sn_path does find them in a path inside /snapshots.           *)
LEMMA DecomposeParts ==
    ASSUME NEW p \in Path, InSn(p) PROVE Parts(p, Decompose(p))
<1>1. PICK C : C = {"/", "S", "a"}
  BY Zenon
<1>2. /\ Len(p) \in Nat /\ Len(p) >= 2 /\ p[1] = "/" /\ p \in Seq(C)
      /\ p[2] = "S" /\ (Len(p) = 2 \/ p[3] = "/")
      /\ \A i \in 2 .. Len(p) : p[i - 1] # "/" \/ p[i] # "/"
  BY <1>1, PathFacts, InSnIs, Zenon
<1>3. 2 \in Names(p) /\ 3 \notin Names(p)
  <2>1. 2 \in 2 .. Len(p) /\ 2 - 1 = 1 /\ "S" # "/" /\ (3 \in 2 .. Len(p) => p[3] = "/")
    BY <1>2
  <2> QED  BY <1>2, <2>1, Zenon DEF Names, NameAt
<1>4. PICK next : next = NextSlash(p, 4)
  BY Zenon
<1>5. \/ next = 0 /\ \A k \in 4 .. Len(p) : p[k] # "/"
      \/ /\ next \in 4 .. Len(p) /\ next \in Nat /\ next > 0 /\ p[next] = "/"
         /\ \A k \in 4 .. Len(p) : k < next => p[k] # "/"
  <2>1. 4 \in Nat /\ 4 > 0
    OBVIOUS
  <2> QED  BY <1>4, <2>1, NextSlashIs
<1>6. PICK d : d = Decompose(p)
  BY Zenon
<1>7. d = IF Len(p) <= 3 THEN There("root", << >>, << >>)
          ELSE IF next = 0 THEN There("id", SubSeq(p, 3, Len(p)), << >>)
          ELSE IF next = 4 THEN There("root", << >>, << >>)
          ELSE IF next = Len(p) THEN There("id", SubSeq(p, 3, Len(p) - 1), << >>)
          ELSE There("full", SubSeq(p, 3, next - 1), SubSeq(p, next, Len(p)))
  <2>1. SNDIR_LEN + 1 = 3 /\ 3 + 1 = 4
    BY Dir
  <2> QED  BY <1>4, <1>6, <2>1, Zenon DEF Decompose
<1>8. SNDIR = SubSeq(p, 1, 2)
  <2>1. PICK s : s = SubSeq(p, 1, 2)
    BY Zenon
  <2>2. s \in Seq(C) /\ Len(s) = 2 /\ s[1] = "/" /\ s[2] = "S"
    BY <1>2, <2>1
  <2>3. <<"/", "S">> \in Seq(C) /\ Len(<<"/", "S">>) = 2 /\ <<"/", "S">>[1] = "/" /\ <<"/", "S">>[2] = "S"
    BY <1>1
  <2>4. \A i \in 1 .. 2 : i = 1 \/ i = 2
    OBVIOUS
  <2> QED  BY <2>1, <2>2, <2>3, <2>4, Dir, SameSeq, Zenon
<1>9. SNDIR \in Seq(C) /\ SNDIR \o << >> = SNDIR
  <2>1. SubSeq(p, 1, 2) \in Seq(C)
    BY <1>2
  <2> QED  BY <1>8, <2>1
<1>10. CASE Len(p) <= 3
  <2>1. d.to = "root" /\ d.id = << >> /\ d.inpath = << >>
    BY <1>7, <1>10 DEF There
  <2>2. Names(p) = {2}
    <3>1. \A i \in 2 .. Len(p) : i = 2 \/ i = 3
      BY <1>2, <1>10
    <3> QED  BY <1>3, <3>1, Zenon DEF Names
  <2>3. OneName(p) /\ ~TwoNames(p)
    BY <2>2, NameCount, Zenon
  <2>4. p = SNDIR \/ p = SNDIR \o <<"/">>
    <3>1. CASE Len(p) = 2
      <4>1. p = SubSeq(p, 1, 2)
        BY <1>2, <3>1
      <4> QED  BY <1>8, <4>1, Zenon
    <3>2. CASE Len(p) = 3
      <4>1. p = SubSeq(p, 1, 2) \o SubSeq(p, 2 + 1, Len(p))
        BY <1>2, <3>2, Joined
      <4>2. SubSeq(p, 3, 3) = <<p[3]>> \o SubSeq(p, 3 + 1, 3)
        BY <1>2, <3>2, CutInTwo
      <4>3. SubSeq(p, 3 + 1, 3) = << >> /\ <<p[3]>> \o << >> = <<p[3]>> /\ 2 + 1 = 3
        BY <1>2, <3>2
      <4>4. p[3] = "/"
        BY <1>2, <3>2
      <4> QED  BY <1>8, <3>2, <4>1, <4>2, <4>3, <4>4, Zenon
    <3>3. Len(p) = 2 \/ Len(p) = 3
      <4>1. PICK n : n = Len(p)
        BY Zenon
      <4>2. n \in Nat /\ n >= 2 /\ n <= 3
        BY <1>2, <1>10, <4>1, Zenon
      <4>3. n = 2 \/ n = 3
        BY <4>2
      <4> QED  BY <4>1, <4>3, Zenon
    <3> QED  BY <3>1, <3>2, <3>3, Zenon
  <2>5. SNDIR \o d.id \o d.inpath = SNDIR
    BY <1>9, <2>1, Zenon
  <2> QED  BY <1>6, <2>1, <2>3, <2>4, <2>5, Zenon DEF Parts
<1>11. CASE Len(p) > 3
  <2>1. /\ p[3] = "/" /\ p[4] # "/" /\ next # 4 /\ ~(Len(p) <= 3) /\ 4 \in 2 .. Len(p)
    <3>1. p[3] = "/"
      BY <1>2, <1>11
    <3>2. 4 \in 2 .. Len(p) /\ 4 - 1 = 3 /\ ~(Len(p) <= 3)
      BY <1>2, <1>11
    <3>3. p[4] # "/"
      BY <1>2, <3>1, <3>2, Zenon
    <3>4. next # 4
      BY <1>5, <3>3
    <3> QED  BY <3>1, <3>2, <3>3, <3>4, Zenon
  <2>2. 4 \in Names(p)
    <3>1. 4 - 1 = 3
      OBVIOUS
    <3> QED  BY <2>1, <3>1, Zenon DEF Names, NameAt
  <2>3. PICK l : l = IF next = 0 THEN Len(p) ELSE next - 1
    BY Zenon
  <2>4. /\ l \in Nat /\ 4 <= l /\ l <= Len(p) /\ \A k \in 4 .. l : p[k] # "/"
        /\ next # 0 => next = l + 1 /\ next <= Len(p) /\ p[next] = "/"
        /\ next = 0 => l = Len(p)
    BY <1>2, <1>5, <1>11, <2>1, <2>3
  <2>5. NameFrom(p, 4) = SubSeq(p, 4, l)
    BY <1>4, <2>3, Zenon DEF NameFrom
  <2>6. SubSeq(p, 3, l) = <<"/">> \o NameFrom(p, 4)
    <3>1. 3 \in Nat /\ 1 <= 3 /\ 3 <= l /\ l \in Nat /\ l <= Len(p) /\ 3 + 1 = 4
      BY <2>4
    <3>2. SubSeq(p, 3, l) = <<p[3]>> \o SubSeq(p, 3 + 1, l)
      BY <1>2, <3>1, CutInTwo
    <3> QED  BY <2>1, <2>5, <3>1, <3>2, Zenon
  <2>7. \A i \in Names(p) : i = 2 \/ i = 4 \/ (i > l + 1 /\ next # 0)
    <3>1. SUFFICES ASSUME NEW i \in 2 .. Len(p), p[i] # "/", p[i - 1] = "/"
                   PROVE  i = 2 \/ i = 4 \/ (i > l + 1 /\ next # 0)
      BY Zenon DEF Names, NameAt
    <3>2. CASE i <= 4
      BY <1>2, <2>1, <3>1, <3>2
    <3>3. CASE i > 4 /\ i <= l + 1
      <4>1. i - 1 \in 4 .. l
        BY <1>2, <2>4, <3>3
      <4> QED  BY <2>4, <3>1, <4>1, Zenon
    <3>4. CASE i > l + 1
      <4>1. next # 0
        BY <1>2, <2>4, <3>4
      <4> QED  BY <3>4, <4>1, Zenon
    <3> QED  BY <1>2, <2>4, <3>2, <3>3, <3>4
  <2>8. p = SNDIR \o SubSeq(p, 3, Len(p))
    <3>1. 2 \in Nat /\ 2 < Len(p) /\ 2 + 1 = 3
      BY <1>2, <1>11
    <3>2. p = SubSeq(p, 1, 2) \o SubSeq(p, 2 + 1, Len(p))
      BY <1>2, <3>1, Joined, Zenon
    <3> QED  BY <1>8, <3>1, <3>2, Zenon
  <2>9. CASE next = 0 \/ next = Len(p)
    <3>1. Names(p) = {2, 4}
      <4>1. \A i \in Names(p) : ~(i > l + 1 /\ next # 0)
        <5>1. \A i \in 2 .. Len(p) : next # 0 => ~(i > l + 1)
          BY <1>2, <2>4, <2>9
        <5> QED  BY <5>1, Zenon DEF Names
      <4> QED  BY <1>3, <2>2, <2>7, <4>1, Zenon
    <3>2. TwoNames(p) /\ ~OneName(p)
      BY <3>1, NameCount, Zenon
    <3>3. d = There("id", SubSeq(p, 3, l), << >>)
      <4>1. next # 0 => l = Len(p) - 1
        BY <1>2, <2>4, <2>9
      <4> QED  BY <1>7, <2>1, <2>4, <2>9, <4>1, Zenon
    <3>4. d.to = "id" /\ d.id = SubSeq(p, 3, l) /\ d.inpath = << >>
      BY <3>3, Zenon DEF There
    <3>5. SubSeq(p, 3, l) \in Seq(C) /\ SNDIR \o SubSeq(p, 3, l) \in Seq(C)
      BY <1>2, <1>9, <2>4
    <3>6. SNDIR \o d.id \o d.inpath = SNDIR \o SubSeq(p, 3, l)
      BY <3>4, <3>5
    <3>7. next # 0 => p = SNDIR \o SubSeq(p, 3, l) \o <<"/">>
      <4>1. SUFFICES ASSUME next # 0 PROVE p = SNDIR \o SubSeq(p, 3, l) \o <<"/">>
        BY Zenon
      <4>2. l + 1 = Len(p) /\ p[Len(p)] = "/" /\ l < Len(p) /\ l \in Nat /\ 2 < l
        BY <1>2, <2>4, <2>9, <4>1
      <4>3. PICK q : q = SubSeq(p, 1, l)
        BY Zenon
      <4>4. q \in Seq(C) /\ Len(q) = l
        BY <1>2, <4>2, <4>3
      <4>5. p = q \o <<"/">>
        <5>1. p = SubSeq(p, 1, l) \o SubSeq(p, l + 1, Len(p))
          BY <1>2, <4>2, Joined, Zenon
        <5>2. SubSeq(p, Len(p), Len(p)) = <<p[Len(p)]>> \o SubSeq(p, Len(p) + 1, Len(p))
          BY <1>2, CutInTwo
        <5>3. SubSeq(p, Len(p) + 1, Len(p)) = << >> /\ <<"/">> \o << >> = <<"/">>
          BY <1>2
        <5> QED  BY <4>2, <4>3, <5>1, <5>2, <5>3, Zenon
      <4>6. q = SNDIR \o SubSeq(p, 3, l)
        <5>1. q = SubSeq(q, 1, 2) \o SubSeq(q, 2 + 1, Len(q))
          BY <4>2, <4>4, Joined
        <5>2. SubSeq(q, 1, 2) = SubSeq(p, 1, 2) /\ SubSeq(q, 3, l) = SubSeq(p, 3, l) /\ 2 + 1 = 3
          BY <1>2, <4>2, <4>3
        <5> QED  BY <1>8, <4>4, <5>1, <5>2, Zenon
      <4> QED  BY <4>5, <4>6, Zenon
    <3>8. next = 0 => p = SNDIR \o SubSeq(p, 3, l)
      BY <2>4, <2>8, Zenon
    <3> QED  BY <1>6, <2>6, <3>2, <3>4, <3>6, <3>7, <3>8, Zenon DEF Parts
  <2>10. CASE next # 0 /\ next # Len(p)
    <3>1. d = There("full", SubSeq(p, 3, l), SubSeq(p, l + 1, Len(p)))
      <4>1. next - 1 = l /\ next = l + 1
        BY <1>2, <2>4, <2>10
      <4> QED  BY <1>7, <2>1, <2>10, <4>1, Zenon
    <3>2. d.to = "full" /\ d.id = SubSeq(p, 3, l) /\ d.inpath = SubSeq(p, l + 1, Len(p))
      BY <3>1, Zenon DEF There
    <3>3. PICK n : n = l + 2
      BY Zenon
    <3>4. n \in Nat /\ n > 4 /\ n \in 2 .. Len(p) /\ n - 1 = next
      BY <1>2, <2>4, <2>10, <3>3
    <3>5. n \in Names(p)
      <4>1. p[n - 1] = "/" /\ p[n] # "/"
        BY <1>2, <2>4, <2>10, <3>4, Zenon
      <4> QED  BY <3>4, <4>1, Zenon DEF Names, NameAt
    <3>6. ~OneName(p) /\ ~TwoNames(p)
      <4>1. {2, 4, n} \subseteq Names(p)
        BY <1>3, <2>2, <3>5, Zenon
      <4> QED  BY <3>4, <4>1, NameCount, Zenon
    <3>7. SNDIR \o SubSeq(p, 3, l) \o SubSeq(p, l + 1, Len(p)) = p
      <4>1. l < Len(p) /\ l \in Nat /\ 2 < l
        BY <1>2, <2>4, <2>10
      <4>2. PICK q : q = SubSeq(p, 1, l)
        BY Zenon
      <4>3. q \in Seq(C) /\ Len(q) = l
        BY <1>2, <4>1, <4>2
      <4>4. p = q \o SubSeq(p, l + 1, Len(p))
        BY <1>2, <4>1, <4>2, Joined, Zenon
      <4>5. q = SNDIR \o SubSeq(p, 3, l)
        <5>1. q = SubSeq(q, 1, 2) \o SubSeq(q, 2 + 1, Len(q))
          BY <4>1, <4>3, Joined
        <5>2. SubSeq(q, 1, 2) = SubSeq(p, 1, 2) /\ SubSeq(q, 3, l) = SubSeq(p, 3, l) /\ 2 + 1 = 3
          BY <1>2, <4>1, <4>2
        <5> QED  BY <1>8, <4>3, <5>1, <5>2, Zenon
      <4> QED  BY <4>4, <4>5, Zenon
    <3> QED  BY <1>6, <2>6, <3>2, <3>6, <3>7, Zenon DEF Parts
  <2> QED  BY <2>9, <2>10, Zenon
<1> QED  BY <1>2, <1>10, <1>11

-----------------------------------------------------------------------------
(* What becomes of a request for a path.                                   *)
LEMMA AnswerIs ==
    ASSUME NEW r, NEW p \in Path, r.op \in Op, r.path = p, NEW d, d = Decompose(p),
           NEW a, a = Answer(r)
    PROVE  /\ a.to = "main" => ~InSn(p)
           /\ a.to = "EACCES" => InSn(p)
           /\ a.to = "sn_create" => InSn(p) /\ d.to = "id"
           /\ a.to = "sn_destroy" => InSn(p) /\ d.to = "root"
           /\ a.to \in {"root", "id", "full"} => InSn(p) /\ a = d
<1>1. \A w : To(w).to = w
  BY DEF To, NoAnswer
<1>2. CASE r.op \in UnsupportedOp
  <2>1. r.op \notin MainOnlyOp /\ r.op \notin BothOp
    BY <1>2 DEF MainOnlyOp, UnsupportedOp, BothOp
  <2>2. a = To("ENOTSUP")
    BY <1>2, <2>1 DEF Answer
  <2>3. a.to = "ENOTSUP"
    BY <1>1, <2>2, Zenon
  <2> QED  BY <2>3
<1>3. CASE r.op \in MainOnlyOp
  <2>1. r.op \notin UnsupportedOp /\ r.op \notin BothOp
    BY <1>3 DEF MainOnlyOp, UnsupportedOp, BothOp
  <2>2. a = To(IF InSn(p) THEN "EACCES" ELSE IF Fits(r) THEN "main" ELSE "ENAMETOOLONG")
    <3>1. a = MainOnly(r)
      BY <1>3, <2>1 DEF Answer
    <3> QED  BY <3>1, Zenon DEF MainOnly
  <2>3. a.to = IF InSn(p) THEN "EACCES" ELSE IF Fits(r) THEN "main" ELSE "ENAMETOOLONG"
    BY <1>1, <2>2, Zenon
  <2> QED  BY <2>3
<1>4. CASE r.op \in BothOp
  <2>1. r.op \notin UnsupportedOp /\ r.op \notin MainOnlyOp
    BY <1>4 DEF MainOnlyOp, UnsupportedOp, BothOp
  <2>2. a = IF ~Fits(r) THEN To("ENAMETOOLONG")
            ELSE IF InSn(p) THEN InSnapshots(r, d) ELSE To("main")
    BY <1>4, <2>1 DEF Answer, BothSpaces
  <2>3. CASE ~Fits(r) \/ ~InSn(p)
    <3>1. a.to = "ENAMETOOLONG" \/ (a.to = "main" /\ ~InSn(p))
      BY <1>1, <2>2, <2>3, Zenon
    <3> QED  BY <3>1
  <2>4. CASE Fits(r) /\ InSn(p)
    <3>1. a = InSnapshots(r, d)
      BY <2>2, <2>4, Zenon
    <3>2. d.to \in {"root", "id", "full"}
      BY <2>4, DecomposeParts, Zenon DEF Parts
    <3>3. CASE r.op \in {"getattr", "access", "opendir"}
      <4>1. a = d
        BY <3>1, <3>3 DEF InSnapshots
      <4> QED  BY <2>4, <3>2, <4>1
    <3>4. CASE r.op = "open"
      <4>1. a = IF d.to = "full" THEN d ELSE To("EACCES")
        BY <3>1, <3>4 DEF InSnapshots
      <4> QED  BY <1>1, <2>4, <4>1
    <3>5. CASE r.op = "openw"
      <4>1. a = To("EACCES")
        BY <3>1, <3>5 DEF InSnapshots
      <4> QED  BY <1>1, <2>4, <4>1
    <3>6. CASE r.op = "mkdir"
      <4>1. a = To(IF d.to # "id" THEN "EFAULT"
                   ELSE IF NoRoomForHid(r) THEN "ENAMETOOLONG" ELSE "sn_create")
        BY <3>1, <3>6 DEF InSnapshots
      <4> QED  BY <1>1, <2>4, <4>1
    <3>7. CASE r.op = "rmdir"
      <4>1. a = To(IF d.to = "root" THEN "sn_destroy" ELSE "EFAULT")
        BY <3>1, <3>7 DEF InSnapshots
      <4> QED  BY <1>1, <2>4, <4>1
    <3> QED  BY <1>4, <3>3, <3>4, <3>5, <3>6, <3>7 DEF BothOp
  <2> QED  BY <2>3, <2>4, Zenon
<1> QED  BY <1>2, <1>3, <1>4, Zenon DEF Op

(* The inductive invariant: there is no request, or one that can come, and *)
(* it has its answer.                                                      *)
Answered ==
    \/ req = NoRequest /\ ans = NoAnswer
    \/ /\ req \in [op : Op, path : Path, root : 0 .. PathMax - 1, any : BOOLEAN]
       /\ ans = Answer(req)

(* Every request that is received has the answer its path decides.         *)
LEMMA AlwaysAnswered == PathSpec => []Answered
<1>1. PathInit => Answered
  BY Zenon DEF PathInit, Answered
<1>2. Answered /\ [PathNext]_pathVars => Answered'
  <2>1. ASSUME Receive PROVE Answered'
    <3>1. PICK op \in Op, p \in Path, root \in 0 .. PathMax - 1 :
             \E any \in IF op = "mkdir" THEN BOOLEAN ELSE {FALSE} :
                req' = [op |-> op, path |-> p, root |-> root, any |-> any]
      BY <2>1, Zenon DEF Receive
    <3>2. PICK any \in BOOLEAN : req' = [op |-> op, path |-> p, root |-> root, any |-> any]
      BY <3>1, Zenon
    <3>3. req' \in [op : Op, path : Path, root : 0 .. PathMax - 1, any : BOOLEAN]
      BY <3>2, Zenon
    <3> QED  BY <2>1, <3>3, Zenon DEF Receive, Answered
  <2>2. ASSUME Reply PROVE Answered'
    BY <2>2, Zenon DEF Reply, Answered
  <2>3. ASSUME Answered, UNCHANGED pathVars PROVE Answered'
    BY <2>3 DEF pathVars, Answered
  <2> QED  BY <2>1, <2>2, <2>3, Zenon DEF PathNext
<1> QED  BY <1>1, <1>2, PTL DEF PathSpec

(* Without a request there is no answer.                                   *)
LEMMA Unasked ==
    ASSUME Answered, req = NoRequest
    PROVE  ans.to \notin {"main", "EACCES", "sn_create", "sn_destroy", "root", "id", "full"}
           /\ req.op = "none"
<1>1. req.op = "none" /\ "none" \notin Op
  BY DEF NoRequest, Op, MainOnlyOp, UnsupportedOp, BothOp
<1>2. ans = NoAnswer
  BY <1>1 DEF Answered
<1> QED  BY <1>1, <1>2 DEF NoAnswer

(* The answer to a request keeps to $$IF_PATH_MAIN_ONLY and $$IF_PATH_SN.  *)
LEMMA ReadOnlyOK == Answered => SnapshotsReadOnly
<1>1. SUFFICES ASSUME Answered, req # NoRequest
               PROVE  /\ ans.to = "main" => ~UnderSnapshots(req.path)
                      /\ ans.to = "EACCES" => UnderSnapshots(req.path)
                      /\ ans.to = "sn_create" => UnderSnapshots(req.path)
                                                 /\ TwoNames(req.path)
                      /\ ans.to = "sn_destroy" => UnderSnapshots(req.path)
                                                  /\ OneName(req.path)
  BY Zenon DEF SnapshotsReadOnly
<1>2. req.op \in Op /\ req.path \in Path /\ ans = Answer(req)
  BY <1>1 DEF Answered
<1>3. PICK p, d : p = req.path /\ d = Decompose(p)
  BY Zenon
<1>4. /\ ans.to = "main" => ~InSn(p)
      /\ ans.to = "EACCES" => InSn(p)
      /\ ans.to = "sn_create" => InSn(p) /\ d.to = "id"
      /\ ans.to = "sn_destroy" => InSn(p) /\ d.to = "root"
  BY <1>2, <1>3, AnswerIs
<1>5. InSn(p) => Parts(p, d)
  BY <1>2, <1>3, DecomposeParts, Zenon
<1>6. InSn(p) <=> UnderSnapshots(p)
  BY <1>2, <1>3, InSnRight, Zenon
<1> QED  BY <1>3, <1>4, <1>5, <1>6, Zenon DEF Parts

(* The answer to a request has the parts of its path.                      *)
LEMMA DecomposeOK == Answered => DecomposeRight
<1>1. SUFFICES ASSUME Answered, ans.to \in {"root", "id", "full"} PROVE DecomposeRight
  BY Zenon DEF DecomposeRight
<1>2. req # NoRequest
  BY <1>1, Unasked
<1>3. req.op \in Op /\ req.path \in Path /\ ans = Answer(req)
  BY <1>1, <1>2 DEF Answered
<1>4. PICK p : p = req.path
  BY Zenon
<1>5. InSn(p) /\ ans = Decompose(p)
  BY <1>1, <1>3, <1>4, AnswerIs
<1>6. Parts(p, ans)
  BY <1>3, <1>4, <1>5, DecomposeParts, Zenon
<1>7. SNDIR_LEN + 2 = 4
  BY Dir
<1>8. ans.to = CASE OneName(p) -> "root" [] TwoNames(p) -> "id" [] OTHER -> "full"
  BY <1>6 DEF Parts
<1> QED  BY <1>4, <1>6, <1>7, <1>8, Zenon DEF DecomposeRight, Parts

(* A request reaches sn_create, and goes through it as far as the lengths  *)
(* of paths decide, only as a mkdir whose paths have room.                 *)
LEMMA CreateAnswer ==
    ASSUME NEW r, r.op \in Op, Answer(r).to = "sn_create"
    PROVE  r.op = "mkdir" /\ Fits(r) /\ ~NoRoomForHid(r)
<1>0. /\ r.op \in UnsupportedOp => r.op \notin MainOnlyOp /\ r.op \notin BothOp
      /\ r.op \in MainOnlyOp => r.op \notin BothOp
  BY DEF MainOnlyOp, UnsupportedOp, BothOp
<1>1. \A w : To(w).to = w
  BY DEF To, NoAnswer
<1>2. CASE r.op \in UnsupportedOp
  <2>1. Answer(r) = To("ENOTSUP")
    BY <1>0, <1>2 DEF Answer
  <2> QED  BY <1>1, <2>1
<1>3. CASE r.op \in MainOnlyOp
  <2>1. Answer(r) = MainOnly(r)
    BY <1>0, <1>3 DEF Answer
  <2> QED  BY <1>1, <2>1 DEF MainOnly
<1>4. CASE r.op \in BothOp
  <2>1. PICK d : d = Decompose(r.path)
    BY Zenon
  <2>2. Answer(r) = BothSpaces(r)
    BY <1>0, <1>4 DEF Answer
  <2>3. Fits(r) /\ InSn(r.path) /\ Answer(r) = InSnapshots(r, d)
    BY <1>1, <2>1, <2>2 DEF BothSpaces
  <2>4. d.to \in {"root", "id", "full"}
    BY <2>1 DEF Decompose, There
  <2> QED  BY <1>1, <1>4, <2>3, <2>4 DEF InSnapshots, BothOp
<1> QED  BY <1>2, <1>3, <1>4, Zenon DEF Op

(* The lengths that map_path and the others compute are right.             *)
LEMMA FitOK == Answered => PathsFit
<1>1. SUFFICES ASSUME Answered, req.op \in {"mkdir", "getattr"} PROVE PathsFit
  BY Zenon DEF PathsFit
<1>2. req # NoRequest
  BY <1>1, Unasked
<1>3. req.root \in Nat /\ req.path \in Path
  BY <1>1, <1>2, PathAssumption DEF Answered
<1>4. PICK n, k : n = Len(req.path) /\ k = req.root
  BY Zenon
<1>5. n \in Nat /\ k \in Nat /\ k < PathMax
  BY <1>1, <1>2, <1>3, <1>4, PathFacts, PathAssumption DEF Answered
<1>6. PICK sn : sn = MapPath(k, n)
  BY Zenon
<1>7. sn = IF k + n < PathMax THEN k + n ELSE -1
  BY <1>5, <1>6, PathAssumption DEF MapPath, Join, TooLong
<1>8. sn # -1 => /\ GetMapPath(sn) = (IF sn + EXT_LEN < PathMax THEN sn + EXT_LEN ELSE -1)
                 /\ GetDirHidPath(sn) = (IF sn + EXT_LEN + 1 < PathMax THEN sn + EXT_LEN + 1 ELSE -1)
                 /\ GetHidPath(sn) = (IF sn + EXT_LEN < PathMax THEN sn + EXT_LEN ELSE -1)
  BY <1>5, <1>7, PathAssumption DEF GetMapPath, GetDirHidPath, GetHidPath, Join, TooLong
<1>9. ASSUME ans.to = "sn_create"
      PROVE  sn # -1 /\ (req.any => GetHidPath(sn) # -1)
  <2>1. req.op \in Op /\ ans = Answer(req)
    BY <1>1, <1>2 DEF Answered
  <2>2. req.op = "mkdir" /\ Fits(req) /\ ~NoRoomForHid(req)
    BY <1>9, <2>1, CreateAnswer, Zenon
  <2> QED  BY <1>4, <1>6, <2>2 DEF Fits, NoRoomForHid, TooLong
<1>10. ASSUME ans.to = "sn_create", NEW len \in 1 .. PathMax
       PROVE  /\ GetPrefixPath(len, sn) = (IF sn + len < PathMax THEN sn + len ELSE -1)
              /\ req.any \/ sn + EXT_LEN <= PathMax =>
                    GetMapPrefixPath(len, sn)
                    = (IF sn + len + EXT_LEN < PathMax THEN sn + len + EXT_LEN ELSE -1)
              /\ sn + 1 + len # PathMax =>
                    EntryPath(sn, len) = (IF sn + 1 + len < PathMax THEN sn + 1 + len ELSE -1)
  <2>1. sn # -1 /\ (req.any => sn + EXT_LEN < PathMax)
    BY <1>5, <1>7, <1>8, <1>9, <1>10, PathAssumption
  <2>2. GetPrefixPath(len, sn) = IF sn + len < PathMax THEN sn + len ELSE -1
    BY <1>5, <1>7, <2>1, PathAssumption DEF GetPrefixPath, Join, TooLong
  <2>3. ASSUME req.any \/ sn + EXT_LEN <= PathMax
        PROVE  GetMapPrefixPath(len, sn)
               = IF sn + len + EXT_LEN < PathMax THEN sn + len + EXT_LEN ELSE -1
    BY <1>5, <1>7, <2>1, <2>3, PathAssumption DEF GetMapPrefixPath, Join, TooLong
  <2>4. ASSUME sn + 1 + len # PathMax
        PROVE  EntryPath(sn, len) = IF sn + 1 + len < PathMax THEN sn + 1 + len ELSE -1
    BY <1>5, <1>7, <2>1, <2>4, PathAssumption DEF EntryPath, TooLong
  <2> QED  BY <2>2, <2>3, <2>4, Zenon
<1> QED  BY <1>4, <1>5, <1>6, <1>7, <1>8, <1>10, PathAssumption, Zenon DEF PathsFit, TooLong

(* A request is carried out in the main space only if its path is not      *)
(* below /snapshots, and below it only the creation and the removal of     *)
(* snapshots are let through (util.c:144), for paths of every length.      *)
THEOREM SnapshotsAlwaysReadOnly == PathSpec => []SnapshotsReadOnly
  BY AlwaysAnswered, ReadOnlyOK, PTL

(* decompose_sn_path always finds the id and the path inside the snapshot. *)
THEOREM DecomposeAlwaysRight == PathSpec => []DecomposeRight
  BY AlwaysAnswered, DecomposeOK, PTL

(* No path that map_path, get_map_prefix_path and the others put together  *)
(* is longer than its buffer and none is refused that fits, for every size *)
(* of the buffers; except below a first snapshot whose own path leaves     *)
(* less than EXT_LEN of the buffer, and for an entry that readdir finds    *)
(* whose path is one byte too long.                                        *)
THEOREM PathsAlwaysFit == PathSpec => []PathsFit
  BY AlwaysAnswered, FitOK, PTL

=============================================================================

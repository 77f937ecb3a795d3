------------------------------- MODULE MFLock -------------------------------
(***************************************************************************)
(* The lock table of mflock.c.  Each slot has a label, a mutex, a counter  *)
(* "want" of threads waiting for a handover, and a MOD mutex that guards   *)
(* the adding and removing of the labels that map to the slot.             *)
(*                                                                         *)
(* One step of a thread is one access of the shared table or one mutex     *)
(* operation.  The table is read without any mutex in both scans, and      *)
(* want++ and want-- are a load and a store, which other threads' updates  *)
(* can fall between.                                                       *)
(***************************************************************************)
EXTENDS Integers

CONSTANTS
    Thread,
    Label,      \* lock labels; 0 means that a slot is not in use
    LockNum,    \* LOCK_NUM, the number of slots
    WantMod,    \* want is an unsigned int: it counts modulo WantMod
    NoThread

ASSUME TableAssumption == /\ LockNum \in Nat \ {0} /\ WantMod \in Nat \ {0}
                          /\ Label \subseteq Nat \ {0}
                          /\ NoThread \notin Thread

VARIABLES
    label,     \* label[i]: the label of slot i, or 0
    mutex,     \* mutex[i]: the owner of its mutex
    modmutex,  \* modmutex[i]: the owner of its MOD mutex
    want,      \* want[i]
    pc,        \* pc[t]: what thread t does next
    lab,       \* lab[t]: the label it locks
    idx,       \* idx[t]: the loop variable i
    ml,        \* ml[t]: the slot it found
    mod,       \* mod[t]: the MOD mutex it has (the pointer modmutex), or NULL
    reg        \* reg[t]: the value of want it has loaded

vars == <<label, mutex, modmutex, want, pc, lab, idx, ml, mod, reg>>

Slot == 0 .. LockNum - 1
NULL == LockNum
ModOf(l) == l % LockNum    \* label & (LOCK_NUM - 1); LOCK_NUM is a power of two

Init ==
    /\ label = [i \in Slot |-> 0]
    /\ mutex = [i \in Slot |-> NoThread]
    /\ modmutex = [i \in Slot |-> NoThread]
    /\ want = [i \in Slot |-> 0]
    /\ pc = [t \in Thread |-> "idle"]
    /\ lab = [t \in Thread |-> 0]
    /\ idx = [t \in Thread |-> 0]
    /\ ml = [t \in Thread |-> 0]
    /\ mod = [t \in Thread |-> NULL]
    /\ reg = [t \in Thread |-> 0]

-----------------------------------------------------------------------------
Goto(t, l) == pc' = [pc EXCEPT ![t] = l]
Index(t, i) == idx' = [idx EXCEPT ![t] = i]
Found(t, i) == ml' = [ml EXCEPT ![t] = i]
table == <<label, mutex, modmutex, want>>
locals == <<lab, idx, ml, mod, reg>>

LockMutex(t, i) == mutex[i] = NoThread /\ mutex' = [mutex EXCEPT ![i] = t]
UnlockMutex(i) == mutex' = [mutex EXCEPT ![i] = NoThread]
LockMod(t, i) == /\ modmutex[i] = NoThread
                 /\ modmutex' = [modmutex EXCEPT ![i] = t]
                 /\ mod' = [mod EXCEPT ![t] = i]
UnlockMod(t) == /\ modmutex' = [modmutex EXCEPT ![mod[t]] = NoThread]
                /\ mod' = [mod EXCEPT ![t] = NULL]

(* mflock_lock(l) is called.                                               *)
Call(t, l) ==
    /\ pc[t] = "idle"
    /\ lab' = [lab EXCEPT ![t] = l]
    /\ Index(t, 0)
    /\ Goto(t, "scan")
    /\ UNCHANGED <<table, ml, mod, reg>>

(* START: look for the label, one slot at a time.                          *)
Scan(t) ==
    /\ pc[t] = "scan" /\ idx[t] < LockNum
    /\ IF label[idx[t]] = lab[t]
       THEN /\ Found(t, idx[t])
            /\ Goto(t, IF mod[t] # NULL THEN "dropmod" ELSE "inc")
            /\ Index(t, 0)
       ELSE Index(t, idx[t] + 1) /\ UNCHANGED <<ml, pc>>
    /\ UNCHANGED <<table, lab, mod, reg>>

\* Mutant: the table is not searched again with the MOD mutex.
GetModNoRecheck(t) ==
    /\ pc[t] = "getmod"
    /\ LockMod(t, ModOf(lab[t]))
    /\ Goto(t, "find")
    /\ UNCHANGED <<label, mutex, want, lab, idx, ml, reg>>

(* The label is not in the table: with the MOD mutex look for a free slot, *)
(* without it get it and look again.                                       *)
NotFound(t) ==
    /\ pc[t] = "scan" /\ idx[t] = LockNum
    /\ Goto(t, IF mod[t] # NULL THEN "find" ELSE "getmod")
    /\ Index(t, 0)
    /\ UNCHANGED <<table, lab, ml, mod, reg>>

GetMod(t) ==
    /\ pc[t] = "getmod"
    /\ LockMod(t, ModOf(lab[t]))
    /\ Goto(t, "scan")
    /\ UNCHANGED <<label, mutex, want, lab, idx, ml, reg>>

(* The label turned up while we waited for the MOD mutex.                  *)
DropMod(t) ==
    /\ pc[t] = "dropmod"
    /\ UnlockMod(t)
    /\ Goto(t, "inc")
    /\ UNCHANGED <<label, mutex, want, lab, idx, ml, reg>>

(* want++, lock the mutex, want--.                                         *)
LoadWant(t, from, to) ==
    /\ pc[t] = from
    /\ reg' = [reg EXCEPT ![t] = want[ml[t]]]
    /\ Goto(t, to)
    /\ UNCHANGED <<table, lab, idx, ml, mod>>
StoreWant(t, from, v, to) ==
    /\ pc[t] = from
    /\ want' = [want EXCEPT ![ml[t]] = v % WantMod]
    /\ reg' = [reg EXCEPT ![t] = 0]
    /\ Goto(t, to)
    /\ UNCHANGED <<label, mutex, modmutex, lab, idx, ml, mod>>
IncLoad(t) == LoadWant(t, "inc", "incst")
IncStore(t) == StoreWant(t, "incst", reg[t] + 1, "block")
DecLoad(t) == LoadWant(t, "dec", "decst")

\* Mutant: want is a signed number and can drop below zero.
DecStoreSigned(t) ==
    /\ pc[t] = "decst"
    /\ want' = [want EXCEPT ![ml[t]] = reg[t] - 1]
    /\ reg' = [reg EXCEPT ![t] = 0]
    /\ Goto(t, "recheck")
    /\ UNCHANGED <<label, mutex, modmutex, lab, idx, ml, mod>>

DecStore(t) == StoreWant(t, "decst", reg[t] + WantMod - 1, "recheck")

Block(t) ==
    /\ pc[t] = "block"
    /\ LockMutex(t, ml[t])
    /\ Goto(t, "dec")
    /\ UNCHANGED <<label, modmutex, want, locals>>

\* Mutant: the label is not checked again when the mutex was handed over.
RecheckNot(t) ==
    /\ pc[t] = "recheck"
    /\ Goto(t, "held")
    /\ UNCHANGED <<table, locals>>

(* Is the slot still ours?  If not start over; the code does not unlock    *)
(* the mutex here (mflock.c:229-231).                                      *)
Recheck(t) ==
    /\ pc[t] = "recheck"
    /\ IF label[ml[t]] = lab[t]
       THEN Goto(t, "held") /\ UNCHANGED ml
       ELSE Goto(t, "scan") /\ Found(t, 0)
    /\ UNCHANGED <<table, lab, idx, mod, reg>>

(* FIND: look for a slot without label whose mutex is free.                *)
Find(t) ==
    /\ pc[t] = "find"
    /\ IF idx[t] = LockNum THEN Index(t, 0) /\ UNCHANGED pc
       ELSE IF label[idx[t]] = 0 THEN Goto(t, "try") /\ UNCHANGED idx
       ELSE Index(t, idx[t] + 1) /\ UNCHANGED pc
    /\ UNCHANGED <<table, lab, ml, mod, reg>>

TryLock(t) ==
    /\ pc[t] = "try"
    /\ IF mutex[idx[t]] = NoThread
       THEN /\ LockMutex(t, idx[t])
            /\ Found(t, idx[t])
            /\ Goto(t, "claim") /\ UNCHANGED idx
       ELSE Index(t, idx[t] + 1) /\ Goto(t, "find") /\ UNCHANGED <<mutex, ml>>
    /\ UNCHANGED <<label, modmutex, want, lab, mod, reg>>

\* Mutant: the slot is labelled without another look at its label.
ClaimBlindly(t) ==
    /\ pc[t] = "claim"
    /\ label' = [label EXCEPT ![ml[t]] = lab[t]]
    /\ Goto(t, "claimed") /\ Index(t, 0)
    /\ UNCHANGED <<mutex, modmutex, want, lab, ml, mod, reg>>

Claim(t) ==
    /\ pc[t] = "claim"
    /\ IF label[ml[t]] = 0
       THEN label' = [label EXCEPT ![ml[t]] = lab[t]] /\ Goto(t, "claimed") /\ Index(t, 0)
       ELSE Goto(t, "unclaim") /\ UNCHANGED <<label, idx>>
    /\ UNCHANGED <<mutex, modmutex, want, lab, ml, mod, reg>>

Unclaim(t) ==
    /\ pc[t] = "unclaim"
    /\ UnlockMutex(idx[t])
    /\ Goto(t, "find") /\ Index(t, 0) /\ Found(t, 0)
    /\ UNCHANGED <<label, modmutex, want, lab, mod, reg>>

Claimed(t) ==
    /\ pc[t] = "claimed"
    /\ UnlockMod(t)
    /\ Goto(t, "held")
    /\ UNCHANGED <<label, mutex, want, lab, idx, ml, reg>>

-----------------------------------------------------------------------------
(* mflock_unlock is called: does anyone want a handover?                   *)
Unlock(t) ==
    /\ pc[t] = "held"
    /\ Goto(t, IF want[ml[t]] = 0 THEN "ungetmod" ELSE "handover")
    /\ UNCHANGED <<table, locals>>

UnGetMod(t) ==
    /\ pc[t] = "ungetmod"
    /\ LockMod(t, ModOf(label[ml[t]]))
    /\ Goto(t, "unlabel")
    /\ UNCHANGED <<label, mutex, want, lab, idx, ml, reg>>

Unlabel(t) ==
    /\ pc[t] = "unlabel"
    /\ IF want[ml[t]] = 0
       THEN label' = [label EXCEPT ![ml[t]] = 0] /\ Goto(t, "unmutex")
       ELSE Goto(t, "oops") /\ UNCHANGED label
    /\ UNCHANGED <<mutex, modmutex, want, locals>>

UnMutex(t) ==
    /\ pc[t] = "unmutex"
    /\ UnlockMutex(ml[t])
    /\ Goto(t, "unmod")
    /\ UNCHANGED <<label, modmutex, want, locals>>

Return(t) ==
    /\ Goto(t, "idle")
    /\ lab' = [lab EXCEPT ![t] = 0] /\ Index(t, 0) /\ Found(t, 0)

UnMod(t) ==
    /\ pc[t] = "unmod"
    /\ UnlockMod(t)
    /\ Return(t)
    /\ UNCHANGED <<label, mutex, want, reg>>

(* They want a handover after all: give the MOD mutex back.                *)
Oops(t) ==
    /\ pc[t] = "oops"
    /\ UnlockMod(t)
    /\ Goto(t, "handover")
    /\ UNCHANGED <<label, mutex, want, lab, idx, ml, reg>>

(* Release the mutex without removing the label.                           *)
Handover(t) ==
    /\ pc[t] = "handover"
    /\ UnlockMutex(ml[t])
    /\ Return(t)
    /\ UNCHANGED <<label, modmutex, want, mod, reg>>

-----------------------------------------------------------------------------
LockStep(t) ==
    \/ Scan(t)  \/ NotFound(t) \/ GetMod(t)   \/ DropMod(t) \/ IncLoad(t)
    \/ IncStore(t) \/ Block(t) \/ DecLoad(t)  \/ DecStore(t) \/ Recheck(t)
    \/ Find(t)  \/ TryLock(t)  \/ Claim(t)    \/ Unclaim(t) \/ Claimed(t)

UnlockStep(t) ==
    \/ UnGetMod(t) \/ Unlabel(t) \/ UnMutex(t) \/ UnMod(t) \/ Oops(t) \/ Handover(t)

Next == \E t \in Thread :
           \/ \E l \in Label : Call(t, l)
           \/ LockStep(t) \/ Unlock(t) \/ UnlockStep(t)

Spec == Init /\ [][Next]_vars

(* Every thread goes on and gives its lock back in the end, and a mutex    *)
(* that comes free again and again is granted to each thread that waits.   *)
FairSpec == Spec /\ \A t \in Thread :
    /\ WF_vars(LockStep(t)) /\ WF_vars(Unlock(t)) /\ WF_vars(UnlockStep(t))
    /\ SF_vars(GetMod(t)) /\ SF_vars(Block(t)) /\ SF_vars(UnGetMod(t))
-----------------------------------------------------------------------------
(* Type invariant of the lock table (struct mflock_t, types.h:104) and of  *)
(* the local variables of mflock_lock and mflock_unlock.                   *)
PcLabel == {"idle", "scan", "dropmod", "inc", "incst", "block", "dec", "decst",
            "recheck", "getmod", "find", "try", "claim", "unclaim", "claimed",
            "held", "ungetmod", "unlabel", "unmutex", "unmod", "oops", "handover"}
TypeOK ==
    /\ label \in [Slot -> Label \cup {0}]
    /\ mutex \in [Slot -> Thread \cup {NoThread}]
    /\ modmutex \in [Slot -> Thread \cup {NoThread}]
    /\ want \in [Slot -> 0 .. WantMod - 1]
    /\ pc \in [Thread -> PcLabel]
    /\ lab \in [Thread -> Label \cup {0}]
    /\ idx \in [Thread -> 0 .. LockNum]
    /\ ml \in [Thread -> Slot]
    /\ mod \in [Thread -> Slot \cup {NULL}]
    /\ reg \in [Thread -> 0 .. WantMod - 1]

(* Thread t has the lock of label l: from the moment mflock_lock is sure   *)
(* of it until mflock_unlock has removed the label or unlocked the mutex.  *)
HolderPc == {"claimed", "held", "ungetmod", "unlabel", "oops", "handover"}
Holds(t, l) == pc[t] \in HolderPc /\ lab[t] = l

(* "Only one thread may write a file at any time" (mflock.c:39): no two    *)
(* threads have the lock of the same label, whatever scans, handovers and  *)
(* failed rechecks are going on.                                           *)
MutualExclusion ==
    \A t, u \in Thread : \A l \in Label : Holds(t, l) /\ Holds(u, l) => t = u

(* "A label and a mutex function as a unit" (mflock.c:48-49): a label is   *)
(* in the table at most once, so that the unprotected scan of mflock_lock  *)
(* cannot find two mutexes for one file.                                   *)
LabelsUnique ==
    \A i, j \in Slot : label[i] # 0 /\ label[i] = label[j] => i = j

(* "A label can only be added to / removed from the table if its MOD mutex *)
(* is held, AND the mutex being labelled is held" (mflock.c:117-118), both *)
(* by the same thread.                                                     *)
LabelledUnderMutexes ==
    [][\A i \in Slot : label'[i] # label[i] =>
          /\ label[i] = 0 \/ label'[i] = 0
          /\ LET l == IF label[i] = 0 THEN label'[i] ELSE label[i]
             IN  mutex[i] # NoThread /\ modmutex[ModOf(l)] = mutex[i]]_vars

(* The table implements the locks its callers rely on: seen through who    *)
(* has which label, every step is that of LockSpec or invisible.           *)
HolderOf(l) == IF \E t \in Thread : Holds(t, l)
               THEN CHOOSE t \in Thread : Holds(t, l) ELSE NoThread
Abstract == INSTANCE LockSpec WITH holder <- [l \in Label |-> HolderOf(l)]
ImplementsLockSpec == Abstract!LockingSpec

(* The table "allows LOCK_NUM files to be written in parallel" (mflock.c:37 *)
(* and 38) and a thread whose handover fails "starts over" (mflock.c:127): *)
(* whoever asks for a lock gets it in the end, if those who have one give  *)
(* it back.  (It may not: the mutex of a failed recheck is never unlocked, *)
(* want can lose a decrement, and FIND searches with the MOD mutex.)       *)
LockGranted == \A t \in Thread : pc[t] = "scan" ~> pc[t] = "held"
=============================================================================

---------------------------- MODULE BWriteProofs ----------------------------
(***************************************************************************)
(* The steps of b_write (block.c), in which a thread saves the blocks it   *)
(* is about to change, and the change itself preserve the invariant and    *)
(* keep the snapshots intact.  At the end, the same for the steps outside  *)
(* the threads.                                                            *)
(***************************************************************************)
EXTENDS CopyOnWriteInv

(* The invariant of a thread that goes on with a block, or with the next.  *)
LEMMA SameBlock ==
    ASSUME Inv, NEW t \in Thread, pc[t] \in SavePc, Cur(t).map # Closed \/ pc[t] # "peek",
           NEW l \in SavePc, NEW x, Steady(t, l, x), x.blk = loc[t].blk, x.lat = loc[t].lat,
           l \in LockPc => holder'[FileLabel] = t, l \in CopyPc => Pointer(t) = 0
    PROVE  StepOK(t)
<1>1. Known(t) /\ pc[t] \notin SetupPc /\ l \notin SetupPc \cup {"validate", "renum", "idle"}
  BY Basics DEF SavePc, SetupPc, FreshPc, MapPc
<1>2. Moved(t, l, x, Cur(t)) /\ SaveEnd(t, Cur(t))' = SaveEnd(t, Cur(t)) /\ map' = map
  <2>1. Moved(t, l, x, Cur(t))
    BY SteadyMoved
  <2> QED  BY <2>1 DEF Moved, SaveEnd, Steady
<1>3. Pointer(t)' = Pointer(t)
  BY <1>2 DEF Moved, Pointer
<1>4. Locked(t)' /\ Saving(t)'
  BY <1>2, <1>3, SavingFacts DEF Moved, Locked, Saving
<1>5. Setup(t)'
  BY <1>1, <1>2, Zenon DEF Moved, Steady, Setup, SetupPc, FreshPc, MapPc, Known
<1> QED  BY <1>1, <1>4, <1>5, SteadyOK DEF SetupPc, MapPc

(* A thread that leaves b_write, with its blocks saved or without a map    *)
(* file to save them in, goes on to change the file.                       *)
LEMMA Leaving ==
    ASSUME Inv, NEW t \in Thread, pc[t] \notin SetupPc,
           NEW l \in {"saved", "failed", "apply"}, Steady(t, l, loc[t]),
           l = "saved" => holder'[FileLabel] = t
    PROVE  StepOK(t)
<1>1. Known(t)
  BY Basics
<1>2. Moved(t, l, loc[t], Cur(t))
  BY SteadyMoved
<1>3. Locked(t)' /\ Saving(t)'
  BY <1>2 DEF Moved, Locked, LockPc, Saving, SavePc, CopyPc
<1>4. Setup(t)'
  BY <1>1, <1>2, Zenon
  DEF Moved, Steady, Setup, SetupPc, FreshPc, MapPc, Known, ThreadTypes, CurTypes
<1> QED  BY <1>3, <1>4, SteadyOK DEF SetupPc, MapPc

(* b_write keeps the invariant when the map file was closed and not opened *)
(* again, so that reading a pointer fails.                                 *)
LEMMA BWriteNoMapOK == ASSUME Inv, NEW t \in Thread, BWriteNoMap(t) PROVE StepOK(t)
<1>1. Known(t) /\ pc[t] = "peek" /\ PcSet(t, "failed")
  BY Basics, GotoFacts DEF BWriteNoMap, Known, PcLabel
<1>2. Steady(t, "failed", loc[t])
  BY <1>1 DEF BWriteNoMap, fileVars, snVars, Steady, Known, Types, PcLabel
<1> QED  BY <1>1, <1>2, Leaving DEF SetupPc, FreshPc, MapPc

(* And when all blocks of the request are saved.                           *)
LEMMA BWriteDoneOK == ASSUME Inv, NEW t \in Thread, BWriteDone(t) PROVE StepOK(t)
<1>1. Known(t) /\ pc[t] = "saved" /\ PcSet(t, "apply")
  BY Basics, GotoFacts DEF BWriteDone, Known, PcLabel
<1>2. Steady(t, "apply", loc[t])
  BY <1>1, LockFacts DEF BWriteDone, fileVars, snVars, Steady, Known, Types, PcLabel
<1> QED  BY <1>1, <1>2, Leaving DEF SetupPc, FreshPc, MapPc

(* And when a call fails: the request ends with an error and releases the  *)
(* lock.                                                                   *)
LEMMA BWriteErrorOK == ASSUME Inv, NEW t \in Thread, BWriteError(t) PROVE StepOK(t)
<1>1. Known(t) /\ pc[t] \in SavePc /\ PcSet(t, "failed")
  BY Basics, GotoFacts DEF BWriteError, Known, PcLabel, SavePc
<1>2. dat' \in [Snap -> DatFile]
  <2>1. pc[t] = "append" => Cur(t).dat \in Snap
    BY <1>1, SavingFacts
  <2>2. dat \in [Snap -> [made : BOOLEAN, blk : Seq(Value), torn : BOOLEAN]]
    BY <1>1 DEF Known, Types, DatFile
  <2>3. \/ dat' = dat
        \/ pc[t] = "append" /\ dat' = [dat EXCEPT ![Cur(t).dat].torn = TRUE]
    BY DEF BWriteError
  <2> QED  BY <2>1, <2>2, <2>3, Zenon DEF DatFile
<1>3. Steady(t, "failed", loc[t])
  BY <1>1, <1>2 DEF BWriteError, snVars, Steady, Known, SnTypes, Types, PcLabel
<1> QED  BY <1>1, <1>3, Leaving DEF SetupPc, FreshPc, MapPc, SavePc

(* And when it takes the file's lock after it saw a zero pointer.          *)
LEMMA BWriteLockOK == ASSUME Inv, NEW t \in Thread, BWriteLock(t) PROVE StepOK(t)
<1>1. /\ Known(t) /\ pc[t] = "wlock" /\ PcSet(t, "recheck") /\ holder'[FileLabel] = t
  BY Basics, GotoFacts, LockFacts DEF BWriteLock, Known, PcLabel
<1>2. Steady(t, "recheck", loc[t])
  BY <1>1, LockFacts, ThreadAssumption
  DEF BWriteLock, fileVars, snVars, Steady, Known, Types, PcLabel
<1> QED  BY <1>1, <1>2, SameBlock DEF SavePc, CopyPc

(* The next block, without a change of the map file.                       *)
LEMMA NextBlockFacts ==
    ASSUME Inv, NEW t \in Thread, pc[t] \in SavePc
    PROVE  /\ NextBlock(t) \in {"peek", "saved", "apply"}
           /\ NextBlock(t) = "peek" => loc[t].blk + 1 < SaveEnd(t, Cur(t))
           /\ NextBlock(t) = "saved" => holder[FileLabel] = t
  BY DEF NextBlock

(* Moving on to the next block, or out of the loop, keeps the thread's     *)
(* invariant.                                                              *)
LEMMA NextBlockInv ==
    ASSUME Inv, NEW t \in Thread, pc[t] \in SavePc, Cur(t).map # Closed \/ pc[t] # "peek",
           NEW x, NEW m, Works(t, NextBlock(t), x, m), holder' = holder,
           m.map = Cur(t).map, m.dat = Cur(t).dat, m.hdr = Cur(t).hdr,
           x.blk = loc[t].blk + 1, x.lat = loc[t].lat
    PROVE  Locked(t)' /\ Saving(t)' /\ Setup(t)'
<1> DEFINE l == NextBlock(t)
<1>1. Known(t) /\ l \in {"peek", "saved", "apply"} /\ Moved(t, l, x, m)
  BY Basics, NextBlockFacts, Worked
<1>2. SaveEnd(t, Cur(t))' = SaveEnd(t, Cur(t))
  BY <1>1 DEF Moved, SaveEnd
<1>3. Locked(t)'
  BY <1>1, NextBlockFacts DEF Locked, LockPc, Moved
<1>4. Saving(t)'
  BY <1>1, <1>2, SavingFacts, NextBlockFacts DEF Saving, SavePc, CopyPc, Moved
<1>5. Setup(t)'
  BY <1>1, Zenon DEF Moved, Works, Setup, SetupPc, FreshPc, MapPc, Known
<1> QED  BY <1>3, <1>4, <1>5

(* The locals of a thread that moves on to the next block have their       *)
(* types.                                                                  *)
LEMMA NextLocal ==
    ASSUME Inv, NEW t \in Thread, pc[t] \in SavePc
    PROVE  \E x : /\ x = [loc[t] EXCEPT !.blk = loc[t].blk + 1]
                  /\ [loc EXCEPT ![t].blk = @ + 1] = [loc EXCEPT ![t] = x]
                  /\ x \in Local /\ x.cur = loc[t].cur /\ x.lat = loc[t].lat
                  /\ x.blk = loc[t].blk + 1
<1>1. PICK x : x = [loc[t] EXCEPT !.blk = loc[t].blk + 1]
  BY Zenon
<1>2. loc[t] \in Local /\ loc[t].blk + 1 \in 0 .. MaxSize /\ loc \in [Thread -> Local]
  BY Basics, SavingFacts DEF Known, Types
<1>3. /\ x \in Local /\ x.cur = loc[t].cur /\ x.lat = loc[t].lat /\ x.blk = loc[t].blk + 1
  BY <1>1, <1>2, Zenon DEF Local
<1> QED  BY <1>1, <1>3, Zenon

(* b_write keeps the invariant when it looks at a block's pointer without  *)
(* the lock, and when the cached block number spares it even that.         *)
LEMMA BWritePeekOK == ASSUME Inv, NEW t \in Thread, BWritePeek(t) PROVE StepOK(t)
<1> DEFINE cached == Cur(t).cache = loc[t].blk + 1
<1>1. /\ Known(t) /\ pc[t] = "peek" /\ pc[t] \in SavePc /\ Cur(t).map # Closed
      /\ UNCHANGED <<file, map, dat, sn, snPc, earliest, holder, req>>
  BY Basics DEF BWritePeek, fileVars, snVars, SavePc
<1>2. /\ loc[t].blk \in Block /\ loc[t].blk + 1 \in 0 .. MaxSize
      /\ Cur(t).map \in Snap /\ Cur(t).dat \in Snap
      /\ map[Cur(t).map].st = "saved" /\ Cur(t).hdr = map[Cur(t).map].hdr
      /\ Cur(t).cache # 0 => map[Cur(t).map].ptr[Cur(t).cache - 1] # 0
  BY <1>1, SavingFacts
<1>3. CASE cached \/ Pointer(t) # 0
  <2>1. PICK m : SetMfd(t, m) /\ m = [Cur(t) EXCEPT !.cache = loc[t].blk + 1]
    BY <1>3, Zenon DEF BWritePeek
  <2>2. Updated(m, Cur(t), Cur(t).num, Cur(t).map, Cur(t).dat, Cur(t).hdr, loc[t].blk + 1)
    BY <1>1, <1>2, <2>1, Updates, Zenon DEF Known, CurTypes
  <2>3. PICK x : /\ loc' = [loc EXCEPT ![t] = x] /\ x.blk = loc[t].blk + 1
                 /\ x \in Local /\ x.cur = loc[t].cur /\ x.lat = loc[t].lat
    <3>1. loc' = [loc EXCEPT ![t].blk = @ + 1]
      BY <1>3, Zenon DEF BWritePeek, Advance
    <3> QED  BY <1>1, <3>1, NextLocal, Zenon
  <2>4. NextBlock(t) \in PcLabel \ {"idle"} /\ PcSet(t, NextBlock(t))
    BY <1>1, <1>3, GotoFacts, NextBlockFacts, Zenon
    DEF BWritePeek, Advance, Known, SnTypes, PcLabel
  <2>5. MfdSet(t, m)
    BY <1>1, <2>1, <2>2, SetMfdFacts, Zenon DEF Known, SnTypes, Updated
  <2>6. Works(t, NextBlock(t), x, m)
    BY <1>1, <2>2, <2>3, <2>4, <2>5, Zenon DEF Works, Known, Types, Updated, MapKept
  <2>7. Locked(t)' /\ Saving(t)' /\ Setup(t)'
    BY <1>1, <2>2, <2>3, <2>6, NextBlockInv, Zenon DEF Updated
  <2>8. map[Cur(t).map].ptr[loc[t].blk] # 0
    BY <1>2, <1>3 DEF Pointer, Block
  <2>9. ASSUME NEW w \in Which, w = x.cur PROVE Handle(t, w)'
    <3>1. mfd'[t][w] = m /\ map' = map
      BY <1>1, <2>6, <2>9, Worked DEF Moved
    <3>2. m.cache - 1 = loc[t].blk
      BY <1>2, <2>2 DEF Updated, Block
    <3> QED  BY <1>2, <2>2, <2>8, <3>1, <3>2, FdFacts, Zenon DEF Handle, Updated
  <2>10. Unsaved'
    BY <1>1 DEF Known, Unsaved
  <2> QED  BY <2>6, <2>7, <2>9, <2>10, WorkedOK
<1>4. CASE ~(cached \/ Pointer(t) # 0)
  <2> DEFINE l == IF holder[FileLabel] = t THEN "pread" ELSE "wlock"
  <2>1. l \in PcLabel \ {"idle"} /\ PcSet(t, l) /\ UNCHANGED <<loc, mfd>>
    BY <1>1, <1>4, GotoFacts DEF BWritePeek, Known, PcLabel
  <2>2. Steady(t, l, loc[t])
    BY <1>1, <2>1 DEF Steady, Known, Types
  <2> QED  BY <1>1, <1>4, <2>2, SameBlock DEF SavePc, LockPc
<1> QED  BY <1>3, <1>4

(* And when it looks again under the lock, and finds that another thread   *)
(* has saved the block or that nobody has.                                 *)
LEMMA BWriteRecheckOK == ASSUME Inv, NEW t \in Thread, BWriteRecheck(t) PROVE StepOK(t)
<1>1. /\ Known(t) /\ pc[t] = "recheck" /\ pc[t] \in SavePc /\ holder[FileLabel] = t
      /\ UNCHANGED <<file, map, dat, sn, snPc, earliest, holder, req, mfd>>
  BY Basics DEF BWriteRecheck, fileVars, snVars, SavePc, Known, ThreadTypes, Locked, LockPc
<1>2. CASE Pointer(t) # 0
  <2>1. PICK x : /\ loc' = [loc EXCEPT ![t] = x] /\ x.blk = loc[t].blk + 1
                 /\ x \in Local /\ x.cur = loc[t].cur /\ x.lat = loc[t].lat
    <3>1. loc' = [loc EXCEPT ![t].blk = @ + 1]
      BY <1>2 DEF BWriteRecheck, Advance
    <3> QED  BY <1>1, <3>1, NextLocal, Zenon
  <2>2. NextBlock(t) \in PcLabel \ {"idle"} /\ PcSet(t, NextBlock(t))
    BY <1>1, <1>2, GotoFacts, NextBlockFacts
    DEF BWriteRecheck, Advance, Known, ThreadTypes, PcLabel
  <2>3. Steady(t, NextBlock(t), x)
    BY <1>1, <2>1, <2>2 DEF Steady, Known, Types
  <2>4. Works(t, NextBlock(t), x, Cur(t))
    BY <1>1, <2>3, SameMfd, Zenon
    DEF Steady, Works, Known, ThreadTypes, CurTypes, Types, MapKept
  <2>5. Locked(t)' /\ Saving(t)' /\ Setup(t)'
    BY <1>1, <2>1, <2>4, NextBlockInv, Zenon
  <2> QED  BY <1>1, <2>3, <2>5, SteadyOK, Zenon DEF SetupPc, FreshPc, MapPc
<1>3. CASE Pointer(t) = 0
  <2>1. PcSet(t, "pread") /\ loc' = loc
    BY <1>1, <1>3, GotoFacts DEF BWriteRecheck, Known, PcLabel
  <2>2. Steady(t, "pread", loc[t])
    BY <1>1, <2>1 DEF Steady, Known, Types, PcLabel
  <2> QED  BY <1>1, <1>3, <2>2, SameBlock DEF SavePc
<1> QED  BY <1>2, <1>3

(* And when it reads the old block from the main file.                     *)
LEMMA BWriteReadOK == ASSUME Inv, NEW t \in Thread, BWriteRead(t) PROVE StepOK(t)
<1>1. /\ Known(t) /\ pc[t] = "pread" /\ pc[t] \in SavePc /\ holder[FileLabel] = t
      /\ Pointer(t) = 0
      /\ UNCHANGED <<file, map, dat, sn, snPc, earliest, holder, req, mfd>>
  BY Basics DEF BWriteRead, fileVars, snVars, SavePc, CopyPc, Known, Locked, LockPc, Saving
<1>2. CASE Readable(t) /\ loc[t].blk < file.size
  <2>1. PICK x : x = [loc[t] EXCEPT !.buf = file.data[loc[t].blk]]
    BY Zenon
  <2>2. loc[t] \in Local /\ file.data[loc[t].blk] \in Value
    BY <1>1, SavingFacts, Zenon DEF Known, Types, File
  <2>3. x \in Local /\ x.cur = loc[t].cur /\ x.lat = loc[t].lat /\ x.blk = loc[t].blk
    BY <2>1, <2>2, Zenon DEF Local
  <2>4. PcSet(t, "seek") /\ loc' = [loc EXCEPT ![t] = x]
    BY <1>1, <1>2, <2>1, GotoFacts, Zenon DEF BWriteRead, Known, PcLabel
  <2>5. Steady(t, "seek", x)
    BY <1>1, <2>3, <2>4 DEF Steady, Known, Types, PcLabel
  <2> QED  BY <1>1, <2>3, <2>5, SameBlock DEF SavePc
<1>3. CASE ~(Readable(t) /\ loc[t].blk < file.size)
  <2>1. PcSet(t, "failed") /\ loc' = loc
    BY <1>1, <1>3, GotoFacts DEF BWriteRead, Known, PcLabel
  <2>2. Steady(t, "failed", loc[t])
    BY <1>1, <2>1 DEF Steady, Known, Types, PcLabel
  <2> QED  BY <1>1, <2>2, Leaving DEF SetupPc, FreshPc, MapPc
<1> QED  BY <1>2, <1>3

(* And when it asks for the end of the dat file.                           *)
LEMMA BWriteSeekOK == ASSUME Inv, NEW t \in Thread, BWriteSeek(t) PROVE StepOK(t)
<1> DEFINE d == Cur(t).dat
<1>1. /\ Known(t) /\ pc[t] = "seek" /\ pc[t] \in SavePc /\ holder[FileLabel] = t
      /\ Pointer(t) = 0
      /\ UNCHANGED <<file, map, dat, sn, snPc, earliest, holder, req, mfd>>
  BY Basics, Zenon DEF BWriteSeek, fileVars, snVars, SavePc, CopyPc, Known, Locked, LockPc, Saving
<1>2. CASE ~dat[d].torn
  <2>1. PICK x : x = [loc[t] EXCEPT !.dsz = Len(dat[d].blk)]
    BY Zenon
  <2>2. loc[t] \in Local /\ Len(dat[d].blk) \in Nat
    <3>1. dat[d] \in DatFile
      BY <1>1, SavingFacts, Zenon DEF Known, Types
    <3>2. dat[d].blk \in Seq(Value)
      BY <3>1 DEF DatFile
    <3>3. Len(dat[d].blk) \in Nat
      OBVIOUS
    <3> QED  BY <1>1, <3>3, Zenon DEF Known, ThreadTypes, CurTypes
  <2>3. x \in Local /\ x.cur = loc[t].cur /\ x.lat = loc[t].lat /\ x.blk = loc[t].blk
    BY <2>1, <2>2, Zenon DEF Local
  <2>4. PcSet(t, "append") /\ loc' = [loc EXCEPT ![t] = x]
    BY <1>1, <1>2, <2>1, GotoFacts, Zenon DEF BWriteSeek, Known, PcLabel
  <2>5. Steady(t, "append", x)
    BY <1>1, <2>3, <2>4 DEF Steady, Known, Types, PcLabel
  <2> QED  BY <1>1, <2>3, <2>5, SameBlock DEF SavePc
<1>3. CASE dat[d].torn
  <2>1. PcSet(t, "failed") /\ loc' = loc
    BY <1>1, <1>3, GotoFacts DEF BWriteSeek, Known, SnTypes, PcLabel
  <2>2. Steady(t, "failed", loc[t])
    BY <1>1, <2>1, Zenon DEF Steady, Known, SnTypes, Types, PcLabel
  <2> QED  BY <1>1, <2>2, Leaving DEF SetupPc, FreshPc, MapPc
<1> QED  BY <1>2, <1>3

(* And when it appends the old block to the dat file: the pointer is still *)
(* zero, so nobody can know of it.                                         *)
LEMMA BWriteAppendOK == ASSUME Inv, NEW t \in Thread, BWriteAppend(t) PROVE StepOK(t)
<1> DEFINE d == Cur(t).dat
<1>1. /\ Known(t) /\ pc[t] = "append" /\ pc[t] \in SavePc /\ holder[FileLabel] = t
      /\ Pointer(t) = 0 /\ PcSet(t, "setptr")
      /\ UNCHANGED <<file, map, sn, snPc, earliest, holder, req, mfd, loc>>
  BY Basics, GotoFacts, Zenon
  DEF BWriteAppend, snVars, SavePc, CopyPc, Known, Locked, LockPc, Saving, PcLabel
<1>2. d \in Snap /\ loc[t].buf \in Value
  BY <1>1, SavingFacts, Zenon DEF Known, SnTypes, ThreadTypes, CurTypes, Local
<1>3. dat' \in [Snap -> DatFile]
  <2>1. dat[d] \in DatFile /\ dat \in [Snap -> DatFile]
    BY <1>1, <1>2, Zenon DEF Known, SnTypes, Types
  <2>2. dat[d].blk \in Seq(Value)
    BY <2>1 DEF DatFile
  <2>3. PICK q : q = Append(dat[d].blk, loc[t].buf)
    BY Zenon
  <2>4. q \in Seq(Value)
    BY <1>2, <2>2, <2>3
  <2>5. dat' = [dat EXCEPT ![d].blk = q]
    BY <2>3, Zenon DEF BWriteAppend
  <2> HIDE DEF d
  <2> QED  BY <1>2, <2>1, <2>4, <2>5, Zenon DEF DatFile
<1>4. Steady(t, "setptr", loc[t])
  BY <1>1, <1>3, Zenon DEF Steady, Known, ThreadTypes, Types, PcLabel
<1> QED  BY <1>1, <1>4, SameBlock DEF SavePc

(* And when it writes the pointer: it was zero, as it has been ever since  *)
(* the second look under the lock.                                         *)
LEMMA BWriteSetPointerOK == ASSUME Inv, NEW t \in Thread, BWriteSetPointer(t) PROVE StepOK(t)
<1> DEFINE b == loc[t].blk
           s == Cur(t).map
           n == loc[t].dsz + 1
<1>1. /\ Known(t) /\ pc[t] = "setptr" /\ pc[t] \in SavePc /\ holder[FileLabel] = t
      /\ Pointer(t) = 0
      /\ UNCHANGED <<file, dat, sn, snPc, earliest, holder, req>>
  BY Basics, Zenon DEF BWriteSetPointer, snVars, SavePc, CopyPc, Known, Locked, LockPc, Saving
<1>2. /\ b \in Block /\ b + 1 \in 0 .. MaxSize /\ s \in Snap /\ map[s].st = "saved"
      /\ Cur(t).hdr = map[s].hdr /\ Cur(t).dat \in Snap
  BY <1>1, SavingFacts, Zenon
<1>3. n \in Nat /\ n # 0 /\ map[s].ptr[b] = 0
  <2>1. loc[t] \in Local /\ Pointer(t) = 0
    BY <1>1, Zenon DEF Known, SnTypes, ThreadTypes
  <2>2. loc[t].dsz \in Nat
    BY <2>1 DEF Local
  <2> QED  BY <2>1, <2>2 DEF Pointer
<1>4. PICK m : SetMfd(t, m) /\ m = [Cur(t) EXCEPT !.cache = b + 1]
  BY Zenon DEF BWriteSetPointer
<1>5. Updated(m, Cur(t), Cur(t).num, Cur(t).map, Cur(t).dat, Cur(t).hdr, b + 1)
  <2>1. Cur(t) \in Mfd
    BY <1>1, Zenon DEF Known, CurTypes
  <2> HIDE DEF b, s, n
  <2> QED  BY <1>2, <1>4, <2>1, Zenon DEF Updated, Mfd
<1>6. MfdSet(t, m)
  BY <1>1, <1>4, <1>5, SetMfdFacts, Zenon DEF Known, Updated
<1>7. PICK x : x = [loc[t] EXCEPT !.blk = b + 1, !.buf = Zero, !.dsz = 0]
  BY Zenon
<1>8. x \in Local /\ x.cur = loc[t].cur /\ x.lat = loc[t].lat /\ x.blk = b + 1
  <2>1. loc[t] \in Local /\ b + 1 \in 0 .. MaxSize /\ Zero \in Value /\ 0 \in Nat
    BY <1>1, <1>2, ValueAssumption, Zenon DEF Known, SnTypes, ThreadTypes
  <2> QED  BY <1>7, <2>1, Zenon DEF Local
<1>9. loc' = [loc EXCEPT ![t] = x]
  BY <1>7, Zenon DEF BWriteSetPointer
<1>10. NextBlock(t) \in PcLabel \ {"idle"} /\ PcSet(t, NextBlock(t))
  BY <1>1, GotoFacts, NextBlockFacts, Zenon DEF BWriteSetPointer, Known, SnTypes, PcLabel
<1>11. /\ map' \in [Snap -> MapFile] /\ MapKept /\ Unsaved'
       /\ map'[s].st = "saved" /\ map'[s].hdr = map[s].hdr /\ map'[s].ptr[b] = n
  <2>1. map' = [map EXCEPT ![s].ptr[b] = n] /\ map \in [Snap -> MapFile]
    BY <1>1, Zenon DEF BWriteSetPointer, Known, SnTypes, Types
  <2> HIDE DEF b, s, n
  <2>2. map' \in [Snap -> MapFile]
    BY <1>3, <2>1, Zenon DEF MapFile
  <2>3. /\ map'[s].st = map[s].st /\ map'[s].hdr = map[s].hdr /\ map'[s].ptr[b] = n
        /\ \A c \in Block : c # b => map'[s].ptr[c] = map[s].ptr[c]
        /\ \A k \in Snap : k # s => map'[k] = map[k]
    BY <1>2, <2>1 DEF MapFile
  <2>4. MapKept
    BY <1>3, <2>3 DEF MapKept
  <2>5. Unsaved'
    <3>1. map[s].st = "saved" /\ Unsaved
      BY <1>1, <1>2, Zenon DEF Inv
    <3> QED  BY <2>3, <3>1, Zenon DEF Unsaved
  <2> QED  BY <1>2, <2>2, <2>3, <2>4, <2>5
<1>12. Works(t, NextBlock(t), x, m)
  BY <1>1, <1>5, <1>6, <1>8, <1>9, <1>10, <1>11, Zenon DEF Works, Known, Types, Updated
<1>13. Locked(t)' /\ Saving(t)' /\ Setup(t)'
  BY <1>1, <1>5, <1>8, <1>12, NextBlockInv DEF Updated
<1>14. ASSUME NEW w \in Which, w = x.cur PROVE Handle(t, w)'
  <2>1. mfd'[t][w] = m
    BY <1>12, <1>14, Worked DEF Moved
  <2>2. m.map = s /\ m.cache - 1 = b /\ m.dat = Cur(t).dat /\ m.hdr = Cur(t).hdr
    BY <1>2, <1>5 DEF Updated, Block
  <2> QED  BY <1>2, <1>3, <1>11, <2>1, <2>2, FdFacts, Zenon DEF Handle
<1> QED  BY <1>11, <1>12, <1>13, <1>14, WorkedOK, Zenon

(* And when a write under the lock fails.                                  *)
LEMMA BWriteFailedOK == ASSUME Inv, NEW t \in Thread, BWriteFailed(t) PROVE StepOK(t)
<1>1. PICK h : h = mfd[t].fd
  BY Zenon
<1>2. pc[t] = "failed" /\ pc[t] \notin SetupPc /\ Known(t)
  BY Basics DEF BWriteFailed, SetupPc, FreshPc, MapPc
<1>3. h \in Mfd /\ Valid(h)
  BY <1>1, <1>2, FdValid, Zenon DEF Known, SnTypes, ThreadTypes
<1> QED  BY <1>1, <1>2, <1>3, QuietEnd DEF BWriteFailed, Fail, fileVars, snVars

(* The main file after the change of a request.                            *)
LEMMA ChangedFile ==
    ASSUME Inv, NEW t \in Thread, pc[t] # "idle"
    PROVE  /\ Changed(t) \in File
           /\ req[t].op # "unlink" => Changed(t).exists
<1> DEFINE r == req[t]
<1>1. /\ Known(t) /\ r \in Request /\ r.op \in Op \ {"none"} /\ file \in File
      /\ r.op # "create" => file.exists
  BY Basics, Zenon DEF Known, Types, Request, Served
<1>2. NoFile \in File
  BY Constants
<1>3. CASE r.op = "open"
  BY <1>1, <1>3 DEF Changed
<1>4. CASE r.op = "create"
  <2>1. PICK f : f = [NoFile EXCEPT !.exists = TRUE]
    BY Zenon
  <2>2. f \in File /\ f.exists
    BY <1>2, <2>1, Zenon DEF File
  <2>3. Changed(t) = f
    BY <1>4, <2>1, Zenon DEF Changed
  <2> QED  BY <2>2, <2>3
<1>5. CASE r.op = "unlink"
  BY <1>2, <1>5 DEF Changed
<1>6. CASE r.op = "write"
  <2>1. PICK f : f = Written(file, r.lo, r.hi, r.val)
    BY Zenon
  <2>2. r.lo \in 0 .. MaxSize /\ r.hi \in 0 .. MaxSize /\ r.val \in Value
    BY <1>1 DEF Request
  <2>3. PICK n : n = IF r.hi > file.size THEN r.hi ELSE file.size
    BY Zenon
  <2>4. PICK c : c = [b \in Block |-> IF r.lo <= b /\ b < r.hi THEN r.val ELSE file.data[b]]
    BY Zenon
  <2>5. n \in 0 .. MaxSize /\ c \in [Block -> Value]
    BY <1>1, <2>2, <2>3, <2>4 DEF File
  <2>6. f = [file EXCEPT !.size = n, !.data = c]
    BY <2>1, <2>3, <2>4, Zenon DEF Written
  <2>7. f \in File /\ f.exists = file.exists
    BY <1>1, <2>5, <2>6, Zenon DEF File
  <2>8. Changed(t) = f
    BY <1>6, <2>1 DEF Changed
  <2> QED  BY <1>1, <1>6, <2>7, <2>8, Zenon
<1>7. CASE r.op \in {"ftruncate", "truncate"}
  <2>1. PICK f : f = Truncated(file, r.lo)
    BY Zenon
  <2>2. r.lo \in 0 .. MaxSize
    BY <1>1 DEF Request
  <2>3. PICK c : c = [b \in Block |-> IF b < r.lo THEN file.data[b] ELSE Zero]
    BY Zenon
  <2>4. c \in [Block -> Value]
    BY <1>1, <2>3, ValueAssumption DEF File
  <2>5. f = [file EXCEPT !.size = r.lo, !.data = c]
    BY <2>1, <2>3, Zenon DEF Truncated
  <2>6. f \in File /\ f.exists = file.exists
    BY <1>1, <2>2, <2>4, <2>5, Zenon DEF File
  <2>7. Changed(t) = f
    BY <1>7, <2>1 DEF Changed
  <2> QED  BY <1>1, <1>7, <2>6, <2>7
<1> QED  BY <1>1, <1>3, <1>4, <1>5, <1>6, <1>7 DEF Op

(* The change of the main file itself (write, ftruncate, truncate, unlink, *)
(* creat) keeps the invariant.                                             *)
LEMMA ApplyOK == ASSUME Inv, NEW t \in Thread, Apply(t) PROVE StepOK(t)
<1> DEFINE r == req[t]
<1>1. /\ Known(t) /\ pc[t] = "apply" /\ file' = Changed(t) /\ Return(t)
      /\ UNCHANGED <<map, dat, holder, sn, snPc, earliest>>
  BY Basics DEF Apply, snVars
<1>2. PICK o : o = (r.op = "open" \/ r.rd)
  BY Zenon
<1>3. PICK h : /\ Handles(t, h)
               /\ h = IF r.op \in {"open", "create"} THEN [mfd[t].fd EXCEPT !.open = TRUE, !.rd = o]
                      ELSE mfd[t].fd
  BY <1>2, Zenon DEF Apply
<1>4. o \in BOOLEAN
  BY <1>2 DEF SnTypes
<1>5. /\ h \in Mfd /\ h.map = mfd[t].fd.map /\ h.dat = mfd[t].fd.dat /\ h.hdr = mfd[t].fd.hdr
      /\ h.cache = mfd[t].fd.cache /\ (h.open => r.op \in {"open", "create"} \/ mfd[t].fd.open)
  <2>1. mfd[t].fd \in Mfd
    BY <1>1 DEF Known, SnTypes, ThreadTypes
  <2>2. CASE r.op \in {"open", "create"}
    <3>1. h = [mfd[t].fd EXCEPT !.open = TRUE, !.rd = o]
      BY <1>3, <2>2
    <3> QED  BY <1>4, <2>1, <2>2, <3>1, Zenon DEF Mfd
  <2> QED  BY <1>3, <2>1, <2>2, Zenon
<1>6. Valid(h)
  BY <1>1, <1>5, FdValid, Zenon DEF Valid, SetupPc, FreshPc, MapPc
<1>7. file' \in File /\ (h.open => file'.exists) /\ FileKept(t)
  BY <1>1, <1>5, ChangedFile, Zenon DEF Known, Served, FileKept
<1>8. Ends(t, h)
  BY <1>1, <1>3, <1>5, <1>6, <1>7, Zenon DEF Ends, Known, SnTypes, Types, MapKept, Unsaved
<1> QED  BY <1>8, EndsOK
-----------------------------------------------------------------------------
(* A step that does not write to a dat file keeps it.                      *)
LEMMA SameDat ==
    ASSUME \A s \in Snap : dat'[s].blk = dat[s].blk PROVE DatKept
  BY DEF DatKept

(* A thread only ever appends whole blocks to a dat file; a torn append    *)
(* leaves the blocks before it alone.                                      *)
LEMMA ThreadDat == ASSUME Inv, NEW t \in Thread, Start(t) \/ Step(t) PROVE DatKept
<1>1. Known(t) /\ dat \in [Snap -> DatFile]
  BY Basics, Zenon DEF Known, Types
<1>2. CASE OpenSnDat(t)
  <2>1. PICK d : dat' = IF d \in Snap THEN [dat EXCEPT ![d].made = TRUE] ELSE dat
    BY <1>2, Zenon DEF OpenSnDat
  <2>2. \A s \in Snap : dat'[s].blk = dat[s].blk
    BY <2>1
  <2> QED  BY <2>2, SameDat
<1>3. CASE BWriteAppend(t)
  <2> DEFINE d == Cur(t).dat
  <2>1. d \in Snap /\ loc[t].buf \in Value
    BY <1>1, <1>3, SavingFacts, Zenon
    DEF BWriteAppend, SavePc, Known, ThreadTypes, CurTypes, Local
  <2>2. PICK q : q = Append(dat[d].blk, loc[t].buf)
    BY Zenon
  <2>3. dat' = [dat EXCEPT ![d].blk = q]
    BY <1>3, <2>2, Zenon DEF BWriteAppend
  <2>4. dat[d].blk \in Seq(Value)
    BY <1>1, <2>1 DEF DatFile
  <2>5. \A i \in 1 .. Len(dat[d].blk) : i \in 1 .. Len(q) /\ q[i] = dat[d].blk[i]
    <3>1. Len(q) = Len(dat[d].blk) + 1 /\ Len(dat[d].blk) \in Nat
      BY <2>2
    <3>2. \A i \in 1 .. Len(dat[d].blk) : q[i] = dat[d].blk[i]
      BY <2>2
    <3> QED  BY <3>1, <3>2
  <2> HIDE DEF d
  <2>6. dat'[d].blk = q /\ \A s \in Snap : s # d => dat'[s].blk = dat[s].blk
    BY <1>1, <2>1, <2>3
  <2> QED  BY <2>5, <2>6 DEF DatKept
<1>4. CASE BWriteError(t)
  <2>1. PICK d : dat' = dat \/ dat' = [dat EXCEPT ![d].torn = TRUE]
    BY <1>4, Zenon DEF BWriteError
  <2>2. \A s \in Snap : dat'[s].blk = dat[s].blk
    BY <1>1, <2>1 DEF DatFile
  <2> QED  BY <2>2, SameDat
<1>5. CASE dat' = dat
  BY <1>5, SameDat
<1>6. OpenSn(t) => OpenSnDat(t) \/ dat' = dat
  BY Zenon
  DEF OpenSn, OpenSnBegin, OpenSnLatest, OpenSnLock, OpenSnMap, OpenSnStat, OpenSnHeader,
      OpenSnUnlock, OpenSnIsDir, OpenSnNoHeader, OpenSnError, Validate, ValidateFails,
      Validated, fileVars
<1>7. Save(t) => BWriteAppend(t) \/ BWriteError(t) \/ dat' = dat
  BY Zenon
  DEF Save, BWritePeek, BWriteLock, BWriteRecheck, BWriteRead, BWriteSeek, BWriteSetPointer,
      BWriteDone, BWriteFailed, BWriteNoMap, Apply, fileVars
<1>8. Start(t) => dat' = dat
  BY Zenon
  DEF Start, StartOpen, StartCreate, StartWrite, StartFtruncate, StartTruncate, StartUnlink,
      Close, Begin, fileVars
<1> QED  BY <1>2, <1>3, <1>4, <1>5, <1>6, <1>7, <1>8 DEF Step

-----------------------------------------------------------------------------
(* b_write runs with a handle that is up to date.                          *)
LEMMA SaveUse ==
    /\ SavePc \subseteq UsePc /\ {"saved", "failed", "apply"} \subseteq UsePc
    /\ UsePc \cap (SetupPc \cup {"idle"}) = {}
  BY DEF SavePc, UsePc, PcLabel, SetupPc, FreshPc, MapPc

(* What is left to be shown of a step of b_write.                          *)
LEMMA SaveIntact ==
    ASSUME Inv, Intact, NEW t \in Thread, StepOK(t), Keeps(t), DatKept, file' = file,
           NEW l, NEW x, NEW m, Went(t, l, x, m), pc[t] \in UsePc, l \in UsePc,
           m.num = Cur(t).num, m.map = Cur(t).map, m.dat = Cur(t).dat, m.hdr = Cur(t).hdr,
           m.open = Cur(t).open, Copied(t)'
    PROVE  Intact'
  BY UseGoes, ThreadIntact, Zenon DEF StepOK

(* What is saved of the range of a request stays saved.                    *)
LEMMA SavedToStep ==
    ASSUME Inv, Intact, Remains, NEW t \in Thread, Frame(t), Keeps(t), req'[t] = req[t],
           NEW n, SavedTo(t, n)
    PROVE  SavedTo(t, n)'
<1>1. sn.lat \in Snap /\ sn' = sn /\ taken' = taken
  BY LatestFacts DEF Frame, Keeps
<1>2. \A b \in Block : map[sn.lat].ptr[b] # 0 => map'[sn.lat].ptr[b] # 0
  BY <1>1 DEF Frame, MapKept
<1> QED  BY <1>1, <1>2 DEF SavedTo

(* b_write goes on with the same block.                                    *)
LEMMA SameBlockCopied ==
    ASSUME Inv, Intact, NEW t \in Thread, Frame(t), Keeps(t),
           NEW l, NEW x, Went(t, l, x, Cur(t)), pc[t] \in SavePc, l \in SavePc,
           x.blk = loc[t].blk,
           l = "append" => x.dsz = Len(dat'[Cur(t).dat].blk),
           l = "setptr" => /\ Len(dat'[Cur(t).dat].blk) = x.dsz + 1
                           /\ dat'[Cur(t).dat].blk[x.dsz + 1] = x.buf,
           Remains /\ l \in {"seek", "append", "setptr"}
             => x.buf = taken[sn.lat].data[loc[t].blk]
    PROVE  Copied(t)'
<1>1. /\ pc'[t] = l /\ loc'[t] = x /\ req'[t] = req[t] /\ Cur(t)' = Cur(t)
      /\ sn' = sn /\ earliest' = earliest /\ taken' = taken /\ Copied(t)
  BY DEF Went, Moved, Frame, Keeps, Intact
<1>2. PICK n : n = loc[t].blk
  BY Zenon
<1>3. Remains => SavedTo(t, n)'
  BY <1>1, <1>2, SavedToStep, Zenon DEF Copied
<1>4. l \notin {"header", "saved", "apply"}
  BY DEF SavePc
<1> QED  BY <1>1, <1>2, <1>3, <1>4, Zenon DEF Copied, Remains

(* b_write is done with a block that is saved, and goes on with the next   *)
(* one or ends.                                                            *)
LEMMA NextBlockCopied ==
    ASSUME Inv, Intact, NEW t \in Thread, Frame(t), Keeps(t),
           NEW x, NEW m, Went(t, NextBlock(t), x, m), pc[t] \in SavePc,
           x.blk = loc[t].blk + 1, Remains => map'[sn.lat].ptr[loc[t].blk] # 0
    PROVE  Copied(t)'
<1>1. /\ pc'[t] = NextBlock(t) /\ loc'[t] = x /\ req'[t] = req[t]
      /\ sn' = sn /\ earliest' = earliest /\ taken' = taken /\ Copied(t) /\ Known(t)
      /\ NextBlock(t) \in {"peek", "saved", "apply"}
      /\ loc[t].blk \in Block /\ SaveEnd(t, Cur(t)) \in 0 .. MaxSize
      /\ req[t].hi \in 0 .. MaxSize /\ Cur(t).hdr.size \in 0 .. MaxSize
  BY Basics, NextBlockFacts, SavingFacts, Zenon
  DEF Went, Moved, Frame, Keeps, Intact, Known, ThreadTypes, Request, CurTypes, Header
<1>2. ASSUME Remains PROVE SavedTo(t, loc[t].blk)'
  <2>1. PICK n : n = loc[t].blk
    BY Zenon
  <2>2. SavedTo(t, n)'
    BY <1>1, <1>2, <2>1, SavedToStep, Zenon DEF Copied
  <2>3. x.blk = n + 1 /\ map'[sn.lat].ptr[n] # 0 /\ n \in Block
    BY <1>1, <1>2, <2>1, Zenon
  <2>4. \A b \in Block : b < n + 1 => b < n \/ b = n
    BY <2>3 DEF Block
  <2> QED  BY <1>1, <2>2, <2>3, <2>4, Zenon DEF SavedTo
<1>3. ASSUME Remains, NextBlock(t) # "peek" PROVE SavedTo(t, req[t].hi)'
  <2>1. ~(loc[t].blk + 1 < SaveEnd(t, Cur(t)))
    BY <1>3, Zenon DEF NextBlock
  <2>2. Cur(t).hdr.size = taken[sn.lat].size
    BY <1>3, SaveUse, UseFacts
  <2>3. \A b \in Block : b < req[t].hi /\ b < taken[sn.lat].size => b < x.blk
    <3>1. PICK n, e, z : n = loc[t].blk /\ e = req[t].hi /\ z = Cur(t).hdr.size
      BY Zenon
    <3>2. /\ n \in Block /\ e \in 0 .. MaxSize /\ z \in 0 .. MaxSize /\ x.blk = n + 1
          /\ ~(n + 1 < SaveEnd(t, Cur(t))) /\ taken[sn.lat].size = z
      BY <1>1, <2>1, <2>2, <3>1, Zenon
    <3>3. ~(n + 1 < e) \/ ~(n + 1 < z)
      BY <3>1, <3>2 DEF SaveEnd
    <3>4. \A b \in Block : b < e /\ b < z => b < n + 1
      BY <3>2, <3>3 DEF Block
    <3> QED  BY <3>1, <3>2, <3>4, Zenon
  <2>4. SavedTo(t, loc[t].blk)'
    BY <1>2, <1>3, Zenon
  <2> QED  BY <1>1, <2>3, <2>4, Zenon DEF SavedTo
<1> QED  BY <1>1, <1>2, <1>3, Zenon DEF Copied, Remains, SavePc

(* b_write keeps the snapshots intact when it waits for the lock.          *)
LEMMA BWriteLockIntact ==
    ASSUME Inv, Intact, NEW t \in Thread, BWriteLock(t) PROVE Intact'
<1>1. /\ Known(t) /\ StepOK(t) /\ pc[t] = "wlock" /\ pc[t] \in SavePc
      /\ req' = req /\ loc' = loc /\ mfd' = mfd /\ file' = file /\ Calm
  BY Basics, BWriteLockOK DEF BWriteLock, SavePc, Calm, fileVars, snVars
<1>2. PcSet(t, "recheck") /\ Keeps(t) /\ DatKept /\ Frame(t)
  BY <1>1, GotoFacts, CalmKeeps, Zenon DEF BWriteLock, PcLabel, Known, StepOK
<1>3. Went(t, "recheck", loc[t], Cur(t))
  BY <1>1, <1>2, WentTo, SameMfd, SameLoc, Zenon DEF Known
<1>4. Copied(t)'
  BY <1>1, <1>2, <1>3, SameBlockCopied DEF SavePc
<1> QED  BY <1>1, <1>2, <1>3, <1>4, SaveUse, SaveIntact, Zenon DEF SavePc

(* And when it looks at the pointer without the lock, or remembers that    *)
(* the block was saved.                                                    *)
LEMMA BWritePeekIntact ==
    ASSUME Inv, Intact, NEW t \in Thread, BWritePeek(t) PROVE Intact'
<1> DEFINE cached == Cur(t).cache = loc[t].blk + 1
<1>1. /\ Known(t) /\ StepOK(t) /\ pc[t] = "peek" /\ pc[t] \in SavePc /\ Cur(t).map # Closed
      /\ req' = req /\ file' = file /\ map' = map /\ Calm
  BY Basics, BWritePeekOK DEF BWritePeek, SavePc, Calm, fileVars, snVars
<1>2. Keeps(t) /\ DatKept /\ Frame(t)
  BY <1>1, CalmKeeps DEF StepOK
<1>3. CASE cached \/ Pointer(t) # 0
  <2>1. PICK m : SetMfd(t, m) /\ m = [Cur(t) EXCEPT !.cache = loc[t].blk + 1]
    BY <1>3, Zenon DEF BWritePeek
  <2>2. Updated(m, Cur(t), Cur(t).num, Cur(t).map, Cur(t).dat, Cur(t).hdr, loc[t].blk + 1)
    BY <1>1, <2>1, SavingFacts, Updates, Zenon DEF Known, CurTypes
  <2>3. PICK x : /\ loc' = [loc EXCEPT ![t] = x] /\ x.blk = loc[t].blk + 1 /\ x.cur = loc[t].cur
    <3>1. loc' = [loc EXCEPT ![t].blk = @ + 1]
      BY <1>3, Zenon DEF BWritePeek, Advance
    <3> QED  BY <1>1, <3>1, NextLocal, Zenon
  <2>4. NextBlock(t) \in PcLabel /\ PcSet(t, NextBlock(t)) /\ MfdSet(t, m)
    <3>1. Goto(t, NextBlock(t)) /\ NextBlock(t) \in PcLabel
      BY <1>1, <1>3, NextBlockFacts, Zenon DEF BWritePeek, Advance, PcLabel
    <3> QED  BY <1>1, <2>1, <2>2, <3>1, GotoFacts, SetMfdFacts, Zenon DEF Known, Updated
  <2>5. Went(t, NextBlock(t), x, m)
    BY <1>1, <2>3, <2>4, WentTo, Zenon
  <2>6. Remains => map'[sn.lat].ptr[loc[t].blk] # 0
    <3>1. /\ Cur(t).map \in Snap /\ loc[t].blk \in Block
          /\ Cur(t).cache # 0 => map[Cur(t).map].ptr[Cur(t).cache - 1] # 0
      BY <1>1, SavingFacts, Zenon
    <3>2. map[Cur(t).map].ptr[loc[t].blk] # 0
      BY <1>3, <3>1, SMTT(30) DEF Pointer, Block
    <3> QED  BY <1>1, <3>2, SavingBlock, Zenon
  <2>7. Copied(t)'
    BY <1>1, <1>2, <2>3, <2>5, <2>6, NextBlockCopied, Zenon
  <2>8. NextBlock(t) \in UsePc /\ pc[t] \in UsePc
    BY <1>1, SaveUse, NextBlockFacts DEF SavePc
  <2> QED  BY <1>1, <1>2, <2>2, <2>5, <2>7, <2>8, SaveIntact, Zenon DEF Updated
<1>4. CASE ~(cached \/ Pointer(t) # 0)
  <2> DEFINE l == IF holder[FileLabel] = t THEN "pread" ELSE "wlock"
  <2>1. l \in SavePc /\ l \in PcLabel /\ PcSet(t, l) /\ UNCHANGED <<loc, mfd>>
        /\ l \notin {"seek", "append", "setptr"}
    BY <1>1, <1>4, GotoFacts DEF BWritePeek, Known, PcLabel, SavePc
  <2> HIDE DEF l
  <2>2. Went(t, l, loc[t], Cur(t))
    BY <1>1, <2>1, WentTo, SameMfd, SameLoc DEF Known
  <2>3. Copied(t)'
    BY <1>1, <1>2, <2>1, <2>2, SameBlockCopied, Zenon
  <2> QED  BY <1>1, <1>2, <2>1, <2>2, <2>3, SaveUse, SaveIntact, Zenon
<1> QED  BY <1>3, <1>4

(* And when it looks again under the lock.                                 *)
LEMMA BWriteRecheckIntact ==
    ASSUME Inv, Intact, NEW t \in Thread, BWriteRecheck(t) PROVE Intact'
<1>1. /\ Known(t) /\ StepOK(t) /\ pc[t] = "recheck" /\ pc[t] \in SavePc
      /\ req' = req /\ mfd' = mfd /\ file' = file /\ map' = map /\ Calm
  BY Basics, BWriteRecheckOK DEF BWriteRecheck, SavePc, Calm, fileVars, snVars
<1>2. Keeps(t) /\ DatKept /\ Frame(t)
  BY <1>1, CalmKeeps DEF StepOK
<1>3. CASE Pointer(t) # 0
  <2>1. PICK x : /\ loc' = [loc EXCEPT ![t] = x] /\ x.blk = loc[t].blk + 1 /\ x.cur = loc[t].cur
    <3>1. loc' = [loc EXCEPT ![t].blk = @ + 1]
      BY <1>3, Zenon DEF BWriteRecheck, Advance
    <3> QED  BY <1>1, <3>1, NextLocal, Zenon
  <2>2. NextBlock(t) \in PcLabel /\ PcSet(t, NextBlock(t))
    <3>1. Goto(t, NextBlock(t)) /\ NextBlock(t) \in PcLabel
      BY <1>1, <1>3, NextBlockFacts, Zenon DEF BWriteRecheck, Advance, PcLabel
    <3> QED  BY <1>1, <3>1, GotoFacts, Zenon DEF Known
  <2>3. Went(t, NextBlock(t), x, Cur(t))
    BY <1>1, <2>1, <2>2, WentTo, SameMfd, Zenon
  <2>4. Remains => map'[sn.lat].ptr[loc[t].blk] # 0
    BY <1>1, <1>3, SavingBlock, Zenon DEF Pointer
  <2>5. Copied(t)'
    BY <1>1, <1>2, <2>1, <2>3, <2>4, NextBlockCopied, Zenon
  <2>6. NextBlock(t) \in UsePc /\ pc[t] \in UsePc
    BY <1>1, SaveUse, NextBlockFacts, Zenon DEF SavePc
  <2> QED  BY <1>1, <1>2, <2>3, <2>5, <2>6, SaveIntact
<1>4. CASE Pointer(t) = 0
  <2>1. PcSet(t, "pread") /\ loc' = loc
    BY <1>1, <1>4, GotoFacts DEF BWriteRecheck, Known, PcLabel
  <2>2. Went(t, "pread", loc[t], Cur(t))
    BY <1>1, <2>1, WentTo, SameMfd, SameLoc DEF Known
  <2>3. Copied(t)'
    BY <1>1, <1>2, <2>1, <2>2, SameBlockCopied, Zenon DEF SavePc
  <2> QED  BY <1>1, <1>2, <2>1, <2>2, <2>3, SaveUse, SaveIntact, Zenon DEF SavePc
<1> QED  BY <1>3, <1>4

(* And when it reads the old block: the block is still there, and is that  *)
(* of the snapshot.                                                        *)
LEMMA BWriteReadIntact ==
    ASSUME Inv, Intact, NEW t \in Thread, BWriteRead(t) PROVE Intact'
<1>1. /\ Known(t) /\ StepOK(t) /\ pc[t] = "pread" /\ pc[t] \in SavePc /\ Pointer(t) = 0
      /\ req' = req /\ mfd' = mfd /\ file' = file /\ Calm
  BY Basics, BWriteReadOK DEF BWriteRead, SavePc, Calm, fileVars, snVars, Known, Saving, CopyPc
<1>2. Keeps(t) /\ DatKept /\ Frame(t)
  BY <1>1, CalmKeeps DEF StepOK
<1>3. CASE Readable(t) /\ loc[t].blk < file.size
  <2>1. PICK x : x = [loc[t] EXCEPT !.buf = file.data[loc[t].blk]]
    BY Zenon
  <2>2. x.cur = loc[t].cur /\ x.blk = loc[t].blk /\ x.buf = file.data[loc[t].blk]
    <3>1. loc[t] \in Local
      BY <1>1 DEF Known, ThreadTypes
    <3> QED  BY <2>1, <3>1, Zenon DEF Local
  <2>3. loc' = [loc EXCEPT ![t] = x] /\ PcSet(t, "seek")
    BY <1>1, <1>3, <2>1, GotoFacts DEF BWriteRead, PcLabel, Known
  <2>4. Went(t, "seek", x, Cur(t))
    BY <1>1, <2>2, <2>3, WentTo, SameMfd, Zenon
  <2>5. Remains => x.buf = taken[sn.lat].data[loc[t].blk]
    BY <1>1, <2>2, SavingBlock, LatestFacts, Zenon DEF LinkedBlock, Pointer
  <2>6. Copied(t)'
    BY <1>1, <1>2, <2>2, <2>4, <2>5, SameBlockCopied, Zenon DEF SavePc
  <2> QED  BY <1>1, <1>2, <2>4, <2>6, SaveUse, SaveIntact DEF SavePc
<1>4. CASE ~(Readable(t) /\ loc[t].blk < file.size)
  <2>1. PcSet(t, "failed") /\ loc' = loc
    BY <1>1, <1>4, GotoFacts DEF BWriteRead, Known, PcLabel
  <2>2. Went(t, "failed", loc[t], Cur(t))
    BY <1>1, <2>1, WentTo, SameMfd, SameLoc, Zenon DEF Known
  <2>3. Copied(t)'
    BY <2>1 DEF Copied, PcSet, SavePc
  <2> QED  BY <1>1, <1>2, <2>2, <2>3, SaveUse, SaveIntact, Zenon
<1> QED  BY <1>3, <1>4

(* And when it finds the end of the dat file.                              *)
LEMMA BWriteSeekIntact ==
    ASSUME Inv, Intact, NEW t \in Thread, BWriteSeek(t) PROVE Intact'
<1>1. /\ Known(t) /\ StepOK(t) /\ pc[t] = "seek" /\ pc[t] \in SavePc /\ Copied(t)
      /\ req' = req /\ mfd' = mfd /\ file' = file /\ dat' = dat /\ Calm
  BY Basics, BWriteSeekOK DEF BWriteSeek, SavePc, Calm, fileVars, snVars, Intact
<1>2. Keeps(t) /\ DatKept /\ Frame(t)
  BY <1>1, CalmKeeps DEF StepOK
<1>3. CASE ~dat[Cur(t).dat].torn
  <2>1. PICK x : x = [loc[t] EXCEPT !.dsz = Len(dat[Cur(t).dat].blk)]
    BY Zenon
  <2>2. x.cur = loc[t].cur /\ x.blk = loc[t].blk /\ x.buf = loc[t].buf
        /\ x.dsz = Len(dat[Cur(t).dat].blk)
    <3>1. loc[t] \in Local
      BY <1>1, Zenon DEF Known, ThreadTypes
    <3> QED  BY <2>1, <3>1, Zenon DEF Local
  <2>3. loc' = [loc EXCEPT ![t] = x] /\ PcSet(t, "append")
    BY <1>1, <1>3, <2>1, GotoFacts DEF BWriteSeek, PcLabel, Known
  <2>4. Went(t, "append", x, Cur(t))
    BY <1>1, <2>2, <2>3, WentTo, SameMfd, Zenon
  <2>5. Remains => x.buf = taken[sn.lat].data[loc[t].blk]
    BY <1>1, <2>2, Zenon DEF Copied
  <2>6. Copied(t)'
    BY <1>1, <1>2, <2>2, <2>4, <2>5, SameBlockCopied, Zenon DEF SavePc
  <2> QED  BY <1>1, <1>2, <2>4, <2>6, SaveUse, SaveIntact DEF SavePc
<1>4. CASE dat[Cur(t).dat].torn
  <2>1. PcSet(t, "failed") /\ loc' = loc
    BY <1>1, <1>4, GotoFacts DEF BWriteSeek, Known, PcLabel
  <2>2. Went(t, "failed", loc[t], Cur(t))
    BY <1>1, <2>1, WentTo, SameMfd, SameLoc DEF Known
  <2>3. Copied(t)'
    BY <2>1 DEF Copied, PcSet, SavePc
  <2> QED  BY <1>1, <1>2, <2>2, <2>3, SaveUse, SaveIntact, Zenon
<1> QED  BY <1>3, <1>4

(* And when it appends the block to the dat file: nobody else does, as it  *)
(* has the file's lock.                                                    *)
LEMMA BWriteAppendIntact ==
    ASSUME Inv, Intact, NEW t \in Thread, BWriteAppend(t) PROVE Intact'
<1> DEFINE d == Cur(t).dat
<1>1. /\ Known(t) /\ StepOK(t) /\ pc[t] = "append" /\ pc[t] \in SavePc /\ Copied(t) /\ Types
      /\ holder[FileLabel] = t /\ loc[t] \in Local
      /\ UNCHANGED <<req, loc, mfd, file, map, taken>>
  BY Basics, BWriteAppendOK, Zenon
  DEF BWriteAppend, SavePc, snVars, Intact, Known, Locked, LockPc, ThreadTypes
<1>2. /\ DatKept /\ Frame(t) /\ Types' /\ sn' = sn /\ earliest' = earliest /\ snPc' = snPc
  BY <1>1, ThreadDat, Zenon DEF StepOK, Frame, Step, Save
<1>3. PcSet(t, "setptr")
  BY <1>1, GotoFacts DEF BWriteAppend, PcLabel, Known
<1>4. Keeps(t)
  <2>1. Remains => Linked(sn.lat)'
    <3> SUFFICES ASSUME Remains PROVE Linked(sn.lat)'
      OBVIOUS
    <3>1. PICK s \in Snap : s = sn.lat /\ Linked(s)
      BY LatestFacts
    <3>2. Linked(s)'
      BY <1>1, <1>2, <3>1, LinkedKept, Zenon DEF After
    <3> QED  BY <1>2, <3>1, <3>2
  <2>2. snPc = "idle"
    BY <1>1, Zenon DEF Intact, Disk, AllIdle, Known, SnOrder
  <2> QED  BY <1>1, <2>1, <2>2, Zenon DEF Keeps, Intact, Disk
<1>5. Went(t, "setptr", loc[t], Cur(t))
  BY <1>1, <1>3, WentTo, SameMfd, SameLoc, Zenon DEF Known
<1>6. Len(dat'[d].blk) = loc[t].dsz + 1 /\ dat'[d].blk[loc[t].dsz + 1] = loc[t].buf
  <2>1. d \in Snap /\ loc[t].buf \in Value /\ loc[t].dsz = Len(dat[d].blk)
    BY <1>1, SavingFacts, Zenon DEF Local, Copied
  <2>2. dat[d].blk \in Seq(Value) /\ dat \in [Snap -> DatFile]
    BY <1>1, <2>1, Zenon DEF Known, Types, DatFile
  <2>3. dat' = [dat EXCEPT ![d].blk = Append(@, loc[t].buf)]
    BY DEF BWriteAppend
  <2> HIDE DEF d
  <2>4. dat'[d].blk = Append(dat[d].blk, loc[t].buf)
    BY <2>1, <2>2, <2>3, Zenon DEF DatFile
  <2> QED  BY <2>1, <2>2, <2>4
<1>7. Remains => loc[t].buf = taken[sn.lat].data[loc[t].blk]
  BY <1>1, Zenon DEF Copied
<1>8. Copied(t)'
  BY <1>1, <1>2, <1>4, <1>5, <1>6, <1>7, SameBlockCopied, Zenon DEF SavePc
<1> QED  BY <1>1, <1>2, <1>4, <1>5, <1>8, SaveUse, SaveIntact, Zenon DEF SavePc

(* And when it sets the pointer to the block it has appended.              *)
LEMMA BWriteSetPointerIntact ==
    ASSUME Inv, Intact, NEW t \in Thread, BWriteSetPointer(t) PROVE Intact'
<1> DEFINE b == loc[t].blk
           s == Cur(t).map
           n == loc[t].dsz + 1
<1>1. /\ Known(t) /\ StepOK(t) /\ pc[t] = "setptr" /\ pc[t] \in SavePc /\ Copied(t) /\ Types
      /\ holder[FileLabel] = t /\ loc[t] \in Local /\ UpToDate(Cur(t))
      /\ UNCHANGED <<req, file, dat, taken>>
  BY Basics, BWriteSetPointerOK, SaveUse, Zenon
  DEF BWriteSetPointer, SavePc, snVars, Intact, Known, Locked, LockPc, ThreadTypes, Handled
<1>2. /\ DatKept /\ Frame(t) /\ Types' /\ sn' = sn /\ earliest' = earliest /\ snPc' = snPc
  BY <1>1 DEF StepOK, Frame, DatKept
<1>3. b \in Block /\ s \in Snap /\ s = sn.lat /\ n \in Nat /\ n # 0 /\ b + 1 \in 0 .. MaxSize
  <2>1. b \in Block /\ s \in Snap /\ b + 1 \in 0 .. MaxSize
    BY <1>1, SavingFacts, Zenon
  <2>2. s = sn.lat
    BY <1>1, <2>1, FdFacts, Zenon DEF UpToDate
  <2>3. loc[t].dsz \in Nat
    BY <1>1, Zenon DEF Local
  <2>4. n \in Nat /\ n # 0
    BY <2>3
  <2> QED  BY <2>1, <2>2, <2>4
<1>4. PICK m : SetMfd(t, m) /\ m = [Cur(t) EXCEPT !.cache = b + 1]
  BY Zenon DEF BWriteSetPointer
<1>5. Updated(m, Cur(t), Cur(t).num, Cur(t).map, Cur(t).dat, Cur(t).hdr, b + 1)
  <2>1. Cur(t) \in Mfd
    BY <1>1, Zenon DEF Known, CurTypes
  <2> HIDE DEF b, s, n
  <2> QED  BY <1>3, <1>4, <2>1, Zenon DEF Updated, Mfd
<1>6. PICK x : x = [loc[t] EXCEPT !.blk = b + 1, !.buf = Zero, !.dsz = 0]
  BY Zenon
<1>7. x.cur = loc[t].cur /\ x.blk = b + 1 /\ loc' = [loc EXCEPT ![t] = x]
  <2>1. loc' = [loc EXCEPT ![t] = x]
    BY <1>6, Zenon DEF BWriteSetPointer
  <2> HIDE DEF b, n
  <2> QED  BY <1>1, <1>6, <2>1, Zenon DEF Local
<1>8. NextBlock(t) \in PcLabel /\ PcSet(t, NextBlock(t)) /\ MfdSet(t, m)
  <2>1. Goto(t, NextBlock(t)) /\ NextBlock(t) \in PcLabel
    BY <1>1, NextBlockFacts, Zenon DEF BWriteSetPointer, PcLabel
  <2> QED  BY <1>1, <1>4, <1>5, <2>1, GotoFacts, SetMfdFacts, Zenon DEF Known, Updated
<1>9. Went(t, NextBlock(t), x, m)
  BY <1>1, <1>7, <1>8, WentTo, Zenon
<1>10. /\ map'[s].st = map[s].st /\ map'[s].hdr = map[s].hdr /\ map'[s].ptr[b] = n
       /\ \A c \in Block : c # b => map'[s].ptr[c] = map[s].ptr[c]
       /\ \A k \in Snap : k # s => map'[k] = map[k]
  <2>1. map' = [map EXCEPT ![s].ptr[b] = n] /\ map \in [Snap -> MapFile]
    BY <1>1, Zenon DEF BWriteSetPointer, Types
  <2> HIDE DEF b, s, n
  <2> QED  BY <1>3, <2>1 DEF MapFile
<1>11. Keeps(t)
  <2>1. ASSUME Remains PROVE Linked(sn.lat)'
    <3>1. LinkedHeader(sn.lat)' /\ After(sn.lat)' = After(sn.lat)
      BY <1>1, <1>2, <1>3, <1>10, <2>1, LatestFacts, Zenon DEF Linked, LinkedHeader, After
    <3>2. Cur(t).dat = sn.lat
      BY <1>1, <2>1, SavingBlock, Zenon
    <3>3. /\ n <= Len(dat'[sn.lat].blk) /\ dat'[sn.lat].blk[n] = taken[sn.lat].data[b]
      <4>1. /\ Len(dat[sn.lat].blk) = n /\ dat[sn.lat].blk[n] = loc[t].buf
            /\ loc[t].buf = taken[sn.lat].data[b] /\ dat' = dat /\ sn' = sn
        BY <1>1, <1>2, <2>1, <3>2, Zenon DEF Copied
      <4>2. n <= n
        <5> HIDE DEF n
        <5> QED  BY <1>3
      <4> HIDE DEF b, n, s
      <4> QED  BY <4>1, <4>2, Zenon
    <3>4. ASSUME NEW c \in Block, c < taken[sn.lat].size PROVE LinkedBlock(sn.lat, c)'
      <4>1. CASE c = b
        <5> HIDE DEF b, n, s
        <5> QED  BY <1>1, <1>2, <1>3, <1>10, <3>3, <4>1, Zenon DEF LinkedBlock
      <4>2. CASE c # b
        <5>1. LinkedBlock(sn.lat, c)
          BY <2>1, <3>4, LatestFacts DEF Linked
        <5> HIDE DEF b, n, s
        <5> QED  BY <1>1, <1>2, <1>3, <1>10, <3>1, <4>2, <5>1, Zenon DEF LinkedBlock
      <4> QED  BY <4>1, <4>2
    <3> QED  BY <1>1, <1>2, <3>1, <3>4, Zenon DEF Linked
  <2>2. snPc = "idle"
    BY <1>1, Zenon DEF Intact, Disk, AllIdle, Known, SnOrder
  <2> QED  BY <1>1, <1>3, <1>10, <2>1, <2>2, Zenon DEF Keeps, Intact, Disk
<1>12. Copied(t)'
  <2>1. map'[sn.lat].ptr[loc[t].blk] # 0
    BY <1>3, <1>10, Zenon
  <2> QED  BY <1>1, <1>2, <1>7, <1>9, <1>11, <2>1, NextBlockCopied, Zenon
<1>13. NextBlock(t) \in UsePc /\ pc[t] \in UsePc
  BY <1>1, SaveUse, NextBlockFacts DEF SavePc
<1> QED  BY <1>1, <1>2, <1>5, <1>9, <1>11, <1>12, <1>13, SaveIntact, Zenon DEF Updated

(* And when a system call fails, or the map file cannot be read.           *)
LEMMA BWriteGivesUpIntact ==
    ASSUME Inv, Intact, NEW t \in Thread, BWriteNoMap(t) \/ BWriteError(t) PROVE Intact'
<1>1. /\ Known(t) /\ StepOK(t) /\ pc[t] \in SavePc /\ Goto(t, "failed") /\ dat \in [Snap -> DatFile]
      /\ req' = req /\ loc' = loc /\ mfd' = mfd /\ file' = file /\ map' = map /\ taken' = taken
  BY Basics, BWriteNoMapOK, BWriteErrorOK, Zenon
  DEF BWriteNoMap, BWriteError, SavePc, fileVars, snVars, Known, Types
<1>2. \A s \in Snap : dat'[s].blk = dat[s].blk
  <2>1. PICK d : dat' = dat \/ dat' = [dat EXCEPT ![d].torn = TRUE]
    BY Zenon DEF BWriteNoMap, BWriteError, fileVars
  <2>2. \A s \in Snap : dat[s] \in DatFile
                         /\ (dat'[s] = dat[s] \/ dat'[s] = [dat[s] EXCEPT !.torn = TRUE])
    BY <1>1, <2>1, Zenon
  <2> QED  BY <2>2, Zenon DEF DatFile
<1>3. pc[t] # "idle" /\ Calm
  BY <1>1, <1>2, Zenon DEF Calm, SavePc
<1>4. PcSet(t, "failed") /\ Keeps(t) /\ DatKept
  BY <1>1, <1>3, GotoFacts, CalmKeeps, Zenon DEF PcLabel, Known, StepOK
<1>5. Went(t, "failed", loc[t], Cur(t))
  BY <1>1, <1>4, WentTo, SameMfd, SameLoc DEF Known
<1>6. Copied(t)'
  BY <1>4, Zenon DEF Copied, PcSet, SavePc
<1> QED  BY <1>1, <1>4, <1>5, <1>6, SaveUse, SaveIntact, Zenon

(* And when it releases the lock, all blocks saved.                        *)
LEMMA BWriteDoneIntact ==
    ASSUME Inv, Intact, NEW t \in Thread, BWriteDone(t) PROVE Intact'
<1>1. /\ Known(t) /\ StepOK(t) /\ pc[t] = "saved" /\ Copied(t)
      /\ req' = req /\ loc' = loc /\ mfd' = mfd /\ file' = file /\ Calm
  BY Basics, BWriteDoneOK DEF BWriteDone, Calm, fileVars, snVars, Intact
<1>2. PcSet(t, "apply") /\ Keeps(t) /\ DatKept /\ Frame(t)
  BY <1>1, GotoFacts, CalmKeeps, Zenon DEF BWriteDone, PcLabel, Known, StepOK
<1>3. Went(t, "apply", loc[t], Cur(t))
  BY <1>1, <1>2, WentTo, SameMfd, SameLoc DEF Known
<1>4. Copied(t)'
  <2>1. pc'[t] = "apply" /\ sn' = sn /\ earliest' = earliest
    BY <1>2 DEF PcSet, Frame
  <2>2. PICK n : n = req[t].hi
    BY Zenon
  <2>3. Remains /\ req[t].op \notin {"open", "create"} => SavedTo(t, n)'
    BY <1>1, <1>2, <2>2, SavedToStep, Zenon DEF Copied
  <2> QED  BY <1>1, <2>1, <2>2, <2>3, Zenon DEF Copied, Remains, SavePc
<1> QED  BY <1>1, <1>2, <1>3, <1>4, SaveUse, SaveIntact, Zenon

(* And when the request is refused because a block could not be saved.     *)
LEMMA BWriteFailedIntact ==
    ASSUME Inv, Intact, NEW t \in Thread, BWriteFailed(t) PROVE Intact'
<1>1. PICK h : h = mfd[t].fd
  BY Zenon
<1>2. /\ Known(t) /\ StepOK(t) /\ pc[t] = "failed" /\ pc[t] \notin SetupPc
      /\ Return(t) /\ Handles(t, h) /\ Calm /\ h \in Mfd
  BY <1>1, Basics, BWriteFailedOK, Zenon
  DEF BWriteFailed, Fail, Calm, fileVars, snVars, SetupPc, FreshPc, MapPc, Known, ThreadTypes
<1>3. Keeps(t) /\ DatKept
  BY <1>2, CalmKeeps, Zenon DEF StepOK
<1>4. h.num <= sn.number /\ (h.open /\ h.num = sn.number => UpToDate(h))
  BY <1>1, <1>2, FdUpToDate, Zenon
<1> QED  BY <1>2, <1>3, <1>4, EndIntact

(* The change of a request leaves alone what the latest snapshot has not   *)
(* saved.                                                                  *)
LEMMA ChangedKeeps ==
    ASSUME Inv, Intact, Remains, NEW t \in Thread, pc[t] = "apply", NEW b \in Block,
           b < taken[sn.lat].size, map[sn.lat].ptr[b] = 0
    PROVE  b < Changed(t).size /\ Changed(t).data[b] = taken[sn.lat].data[b]
<1> DEFINE r == req[t]
<1>1. /\ Known(t) /\ r \in Request /\ r.op \in Op \ {"none"} /\ file \in File /\ Asked(t)
      /\ r.lo \in 0 .. MaxSize /\ r.hi \in 0 .. MaxSize /\ file.size \in 0 .. MaxSize
  BY Basics, Zenon DEF Known, Types, ThreadTypes, Request, Served, Intact, File
<1>2. b < file.size /\ file.data[b] = taken[sn.lat].data[b] /\ b \in Nat /\ b < MaxSize
  <2>1. LinkedBlock(sn.lat, b) /\ After(sn.lat) = file
    BY LatestFacts DEF Linked
  <2>2. b \in Nat /\ b < MaxSize
    BY BoundAssumption DEF Block
  <2> QED  BY <2>1, <2>2 DEF LinkedBlock
<1>3. r.op \notin {"open", "create"} => ~(r.lo <= b /\ b < r.hi)
  BY Zenon DEF Intact, Copied, SavedTo
<1>4. CASE r.op = "open"
  BY <1>2, <1>4 DEF Changed
<1>5. CASE r.op = "create"
  <2>1. file.size = 0
    BY <1>1, <1>5, Zenon DEF Asked, Intact, Disk
  <2> QED  BY <1>2, <2>1
<1>6. CASE r.op = "unlink"
  <2>1. r.lo = 0 /\ r.hi = MaxSize /\ ~(r.lo <= b /\ b < r.hi)
    BY <1>1, <1>3, <1>6, Zenon DEF Asked
  <2>2. b \in Nat /\ b < MaxSize
    BY <1>2, Zenon
  <2> QED  BY <2>1, <2>2
<1>7. CASE r.op = "write"
  <2>1. PICK n : n = IF r.hi > file.size THEN r.hi ELSE file.size
    BY Zenon
  <2>2. PICK c : c = [i \in Block |-> IF r.lo <= i /\ i < r.hi THEN r.val ELSE file.data[i]]
    BY Zenon
  <2>3. n >= file.size /\ n \in 0 .. MaxSize /\ c[b] = file.data[b]
    BY <1>1, <1>3, <1>7, <2>1, <2>2, SMTT(30)
  <2>4. Changed(t) = [file EXCEPT !.size = n, !.data = c]
    <3>1. Changed(t) = Written(file, r.lo, r.hi, r.val)
      BY <1>7 DEF Changed
    <3> QED  BY <2>1, <2>2, <3>1, Zenon DEF Written
  <2>5. Changed(t).size = n /\ Changed(t).data = c
    BY <1>1, <2>4, Zenon DEF File
  <2> QED  BY <1>1, <1>2, <2>3, <2>5
<1>8. CASE r.op \in {"ftruncate", "truncate"}
  <2>1. PICK c : c = [i \in Block |-> IF i < r.lo THEN file.data[i] ELSE Zero]
    BY Zenon
  <2>2. b < r.lo /\ c[b] = file.data[b]
    <3>1. r.hi = MaxSize /\ ~(r.lo <= b /\ b < r.hi)
      BY <1>1, <1>3, <1>8, Zenon DEF Asked
    <3>2. r.lo \in 0 .. MaxSize /\ b \in Nat /\ b < MaxSize
      BY <1>1, <1>2, Zenon
    <3>3. b < r.lo
      BY <3>1, <3>2
    <3> QED  BY <2>1, <3>3, Zenon
  <2>3. Changed(t) = [file EXCEPT !.size = r.lo, !.data = c]
    <3>1. Changed(t) = Truncated(file, r.lo)
      BY <1>8 DEF Changed
    <3> QED  BY <2>1, <3>1, Zenon DEF Truncated
  <2>4. Changed(t).size = r.lo /\ Changed(t).data = c
    BY <1>1, <2>3, Zenon DEF File
  <2> QED  BY <1>2, <2>2, <2>4, Zenon
<1> QED  BY <1>1, <1>4, <1>5, <1>6, <1>7, <1>8, Zenon DEF Op

(* The change of the main file keeps the snapshots intact: what it         *)
(* destroys is saved.                                                      *)
LEMMA ApplyIntact ==
    ASSUME Inv, Intact, NEW t \in Thread, Apply(t) PROVE Intact'
<1> DEFINE r == req[t]
<1>1. /\ Known(t) /\ StepOK(t) /\ pc[t] = "apply" /\ file' = Changed(t) /\ Return(t)
      /\ UNCHANGED <<map, dat, sn, snPc, earliest, taken>> /\ pc[t] \in UsePc
      /\ Handled(t) /\ Asked(t) /\ pc[t] \notin SetupPc
  BY Basics, ApplyOK, SaveUse, Zenon DEF Apply, snVars, Intact
<1>2. Keeps(t) /\ DatKept
  <2>1. ASSUME Remains PROVE Linked(sn.lat)'
    <3>1. map[sn.lat].st = "saved" /\ Linked(sn.lat)
      BY <1>1, <2>1, UseFacts, LatestFacts, Zenon
    <3>2. LinkedHeader(sn.lat)'
      BY <1>1, <3>1, Zenon DEF Linked, LinkedHeader
    <3>3. After(sn.lat)' = Changed(t)
      BY <1>1 DEF After
    <3>4. ASSUME NEW b \in Block, b < taken[sn.lat].size PROVE LinkedBlock(sn.lat, b)'
      <4>1. LinkedBlock(sn.lat, b)
        BY <3>1, <3>4, Zenon DEF Linked
      <4>2. map[sn.lat].ptr[b] = 0
            => b < Changed(t).size /\ Changed(t).data[b] = taken[sn.lat].data[b]
        BY <1>1, <2>1, <3>4, ChangedKeeps, Zenon
      <4> QED  BY <1>1, <3>3, <4>1, <4>2, Zenon DEF LinkedBlock
    <3> QED  BY <1>1, <3>2, <3>4, Zenon DEF Linked
  <2>2. ~file'.exists => file'.size = 0
    BY <1>1, ChangedFile DEF Changed, NoFile
  <2>3. snPc = "idle"
    BY <1>1, Zenon DEF Intact, Disk, AllIdle, Known, SnOrder
  <2> QED  BY <1>1, <2>1, <2>2, <2>3, Zenon DEF Keeps, DatKept
<1>3. PICK o : o = (r.op = "open" \/ r.rd)
  BY Zenon
<1>4. PICK h : /\ Handles(t, h)
               /\ h = IF r.op \in {"open", "create"} THEN [mfd[t].fd EXCEPT !.open = TRUE, !.rd = o]
                      ELSE mfd[t].fd
  BY <1>3, Zenon DEF Apply
<1>5. mfd[t].fd \in Mfd
  BY <1>1, Zenon DEF Known, ThreadTypes
<1>6. CASE r.op \in {"open", "create"}
  <2>1. o \in BOOLEAN
    BY <1>3
  <2>2. h = [mfd[t].fd EXCEPT !.open = TRUE, !.rd = o]
    BY <1>4, <1>6
  <2>3. /\ h \in Mfd /\ h.map = mfd[t].fd.map /\ h.dat = mfd[t].fd.dat /\ h.hdr = mfd[t].fd.hdr
        /\ h.num = mfd[t].fd.num
    BY <1>5, <2>1, <2>2, Zenon DEF Mfd
  <2>4. UpToDate(mfd[t].fd) /\ mfd[t].fd.num <= sn.number
    <3>1. loc[t].cur = "fd" => Cur(t) = mfd[t].fd
      BY <1>1, Zenon DEF Known, CurTypes, ThreadTypes
    <3>2. loc[t].cur \in {"fd", "tmp"}
      BY <1>1, Zenon DEF Known, CurTypes, Which
    <3> QED  BY <1>1, <1>6, <3>1, <3>2, Zenon DEF Handled, Asked
  <2>5. UpToDate(h)
    BY <2>3, <2>4, Zenon DEF UpToDate
  <2> QED  BY <1>1, <1>2, <1>4, <2>3, <2>4, <2>5, EndIntact, Zenon
<1>7. CASE r.op \notin {"open", "create"}
  <2>1. h = mfd[t].fd
    BY <1>4, <1>7
  <2>2. h.num <= sn.number /\ (h.open /\ h.num = sn.number => UpToDate(h))
    BY <1>1, <2>1, FdUpToDate, Zenon
  <2> QED  BY <1>1, <1>2, <1>4, <1>5, <2>1, <2>2, EndIntact, Zenon
<1> QED  BY <1>6, <1>7

-----------------------------------------------------------------------------
(* The steps outside the threads: readers, snapshots, deaths of the        *)
(* process; and the first mount.                                           *)

(* A step outside the threads changes neither them nor the files, and      *)
(* keeps their invariants.                                                 *)
LEMMA OutsideStep ==
    ASSUME Inv, UNCHANGED <<file, map, dat, pc, req, loc, mfd>>,
           holder' \in [{FileLabel} -> Thread \cup Reader \cup {NoThread}],
           \A u \in Thread : holder[FileLabel] = u => holder'[FileLabel] = u,
           sn' \in [number : Nat, any : BOOLEAN, lat : 0 .. MaxSnap], earliest' \in Nat,
           SnOrder', sn.lat <= sn'.lat
    PROVE  Inv'
<1>1. Types /\ Unsaved /\ \A t \in Thread : ThreadInv(t)
  BY Zenon DEF Inv
<1>2. Types' /\ Unsaved'
  <2>1. Types'
    BY <1>1, Zenon DEF Types
  <2>2. Unsaved'
    BY <1>1, Zenon DEF Unsaved
  <2> QED  BY <2>1, <2>2, Zenon
<1>3. ASSUME NEW t \in Thread PROVE ThreadInv(t)'
  <2>1. Known(t)
    BY Basics, Zenon
  <2>2. Cur(t)' = Cur(t) /\ SaveEnd(t, Cur(t))' = SaveEnd(t, Cur(t)) /\ Pointer(t)' = Pointer(t)
    BY Zenon DEF Cur, SaveEnd, Pointer
  <2>3. Locked(t)' /\ Saving(t)'
    BY <2>1, <2>2 DEF Known, SnTypes, Locked, Saving
  <2>4. Served(t)'
    <3>1. Served(t)
      BY <2>1, Zenon DEF Known
    <3> QED  BY <3>1, Zenon DEF Served
  <2>5. loc[t].lat \in Nat /\ sn.lat \in Nat /\ sn'.lat \in Nat /\ loc[t].lat <= sn.lat
    <3>1. loc[t] \in Local /\ sn.lat \in 0 .. MaxSnap /\ loc[t].lat <= sn.lat
      BY <2>1, Zenon DEF Known, SnTypes, ThreadTypes, Setup
    <3>2. loc[t].lat \in Nat
      BY <3>1 DEF Local
    <3> QED  BY <3>1, <3>2
  <2>6. Setup(t)'
    <3>1. loc'[t].lat <= sn'.lat
      BY <2>5
    <3>2. Setup(t)
      BY <2>1, Zenon DEF Known
    <3> QED  BY <2>2, <3>1, <3>2, Zenon DEF Setup
  <2>7. ASSUME NEW w \in Which PROVE Handle(t, w)'
    <3>1. Handle(t, w)
      BY <2>1 DEF Known, SnTypes
    <3> QED  BY <3>1, Zenon DEF Handle
  <2> QED  BY <2>3, <2>4, <2>6, <2>7 DEF ThreadInv
<1> QED  BY <1>2, <1>3, Zenon DEF Inv

(* Reading inside a snapshot keeps the invariant: readers write to no file *)
(* of ESFS.                                                                *)
LEMMA ReadStep ==
    ASSUME Inv, NEW r \in Reader, Read(r) PROVE Inv' /\ UNCHANGED <<map, dat>>
<1>1. Types /\ SnOrder
  BY DEF Inv
<1>2. ReaderStep /\ (holder' = holder \/ Lock!Acquire(r, FileLabel) \/ Lock!Release(r, FileLabel))
  BY Zenon
  DEF Read, ROpenMaps, RStart, ROpenMain, RClose, RNowhere, ROlder, RLock, RLatest, RMain,
      RUnlock, RReturn
<1>3. UNCHANGED <<file, map, dat, pc, req, loc, mfd, sn, snPc, earliest>>
  BY <1>2 DEF ReaderStep, fileVars, snVars, threadVars
<1>4. /\ holder' \in [{FileLabel} -> Thread \cup Reader \cup {NoThread}]
      /\ \A u \in Thread : holder[FileLabel] = u => holder'[FileLabel] = u
  BY <1>1, <1>2, ThreadAssumption DEF Types, Lock!Acquire, Lock!Release
<1>5. SnOrder'
  BY <1>1, <1>3 DEF SnOrder
<1>6. sn.lat \in 0 .. MaxSnap
  BY <1>1 DEF Types
<1> QED  BY <1>1, <1>3, <1>4, <1>5, <1>6, OutsideStep DEF Types

(* Taking a snapshot, in its two steps (the directory, then sn_number),    *)
(* and removing the earliest one keep the invariant.                       *)
LEMMA SnStep ==
    ASSUME Inv, SnSetLatest \/ SnIncNumber \/ SnDestroy PROVE Inv' /\ UNCHANGED <<map, dat>>
<1>1. Types /\ SnOrder
  BY DEF Inv
<1>2. /\ sn \in [number : Nat, any : BOOLEAN, lat : 0 .. MaxSnap] /\ earliest \in Nat
      /\ sn.lat \in Int /\ sn.number \in Nat
  BY <1>1 DEF Types
<1>3. UNCHANGED <<file, map, dat, pc, req, loc, mfd, holder>>
  BY DEF SnSetLatest, SnIncNumber, SnDestroy, fileVars, threadVars
<1>4. CASE SnSetLatest
  <2>1. sn.lat < MaxSnap /\ sn' = [sn EXCEPT !.lat = sn.lat + 1, !.any = TRUE]
    BY <1>4, Zenon DEF SnSetLatest
  <2>2. sn.lat + 1 \in 0 .. MaxSnap /\ TRUE \in BOOLEAN
    BY <1>2, <2>1, BoundAssumption
  <2>3. /\ sn' \in [number : Nat, any : BOOLEAN, lat : 0 .. MaxSnap]
        /\ sn'.lat = sn.lat + 1 /\ sn'.any = TRUE /\ sn'.number = sn.number
    BY <1>2, <2>1, <2>2, Zenon
  <2>4. snPc' = "number" /\ earliest' = earliest
    BY <1>4 DEF SnSetLatest
  <2>5. SnOrder' /\ sn.lat <= sn'.lat
    BY <1>1, <1>2, <2>3, <2>4 DEF SnOrder
  <2> QED  BY <1>1, <1>3, <2>3, <2>4, <2>5, OutsideStep, Zenon DEF Types
<1>5. CASE SnIncNumber
  <2>1. /\ snPc = "number" /\ snPc' = "idle" /\ earliest' = earliest
        /\ sn' \in [number : Nat, any : BOOLEAN, lat : 0 .. MaxSnap]
        /\ sn'.lat = sn.lat /\ sn'.any = sn.any /\ sn'.number = sn.number + 1
    BY <1>2, <1>5 DEF SnIncNumber
  <2>2. SnOrder' /\ sn.lat <= sn'.lat
    BY <1>1, <1>2, <2>1 DEF SnOrder
  <2> QED  BY <1>1, <1>3, <2>1, <2>2, OutsideStep, Zenon DEF Types
<1>6. CASE SnDestroy
  <2>1. /\ sn.any /\ snPc' = snPc /\ earliest' = earliest + 1
        /\ sn' \in [number : Nat, any : BOOLEAN, lat : 0 .. MaxSnap]
        /\ sn'.lat = sn.lat /\ sn'.number = sn.number /\ (sn'.any => earliest < sn.lat)
    <3>1. PICK any \in BOOLEAN : any <=> earliest < sn.lat
      BY Zenon
    <3>2. sn.any /\ snPc' = snPc /\ earliest' = earliest + 1 /\ sn' = [sn EXCEPT !.any = any]
      BY <1>6, <3>1 DEF SnDestroy
    <3> QED  BY <1>2, <3>1, <3>2
  <2>2. SnOrder' /\ sn.lat <= sn'.lat /\ earliest' \in Nat
    BY <1>1, <1>2, <2>1 DEF SnOrder
  <2> QED  BY <1>1, <1>3, <2>1, <2>2, OutsideStep, Zenon DEF Types
<1> QED  BY <1>4, <1>5, <1>6, Zenon

(* A process that has just been started has no handles and no requests.    *)
Started ==
    /\ file \in File /\ map \in [Snap -> MapFile] /\ dat \in [Snap -> DatFile]
    /\ sn \in [number : Nat, any : BOOLEAN, lat : 0 .. MaxSnap] /\ earliest \in Nat
    /\ SnOrder /\ Unsaved
    /\ holder = [l \in {FileLabel} |-> NoThread]
    /\ pc = [t \in Thread |-> "idle"] /\ req = [t \in Thread |-> NoReq]
    /\ loc = [t \in Thread |-> NoLoc]
    /\ mfd = [t \in Thread |-> [fd |-> NoMfd, tmp |-> NoMfd]]

(* The states in which the file system has just been mounted satisfy the   *)
(* invariant.                                                              *)
LEMMA StartedInv == Started => Inv
<1> SUFFICES ASSUME Started PROVE Inv
  OBVIOUS
<1>1. Types
  BY Constants DEF Started, Types, PcLabel
<1>2. ASSUME NEW t \in Thread PROVE ThreadInv(t)
  <2>1. /\ pc[t] = "idle" /\ req[t].op = "none" /\ loc[t].cur = "fd" /\ loc[t].lat = 0
        /\ mfd[t].fd = NoMfd /\ mfd[t].tmp = NoMfd /\ sn.lat >= 0
    BY DEF Started, NoReq, NoLoc
  <2>2. mfd[t]["fd"] = NoMfd /\ mfd[t]["tmp"] = NoMfd /\ ~NoMfd.open
    BY <2>1 DEF NoMfd
  <2>3. NoMfd.map = NOSN /\ NoMfd.dat = NOSN
    BY Zenon DEF NoMfd
  <2>4. Locked(t) /\ Served(t) /\ Setup(t) /\ Saving(t)
    BY <2>1, <2>2, Zenon
    DEF Locked, LockPc, Served, Setup, FreshPc, MapPc, SetupPc, Saving, SavePc, CopyPc
  <2>5. Handle(t, "fd") /\ Handle(t, "tmp")
    BY <2>2, <2>3, FdFacts DEF Handle
  <2> QED  BY <2>4, <2>5, Zenon DEF ThreadInv, Which
<1> QED  BY <1>1, <1>2 DEF Started, Inv

(* Also after a step.                                                      *)
LEMMA StartedInvNext == Started' => Inv'
  BY StartedInv, PTL

(* A crash keeps the invariant and every map and dat file, as the disk is  *)
(* not touched.                                                            *)
LEMMA CrashStep == ASSUME Inv, Crash PROVE Inv' /\ UNCHANGED <<map, dat>>
<1>1. Types /\ SnOrder /\ Unsaved
  BY DEF Inv
<1>2. UNCHANGED <<file, map, dat, earliest>>
  BY DEF Crash, fileVars
<1>3. /\ sn' \in [number : Nat, any : BOOLEAN, lat : 0 .. MaxSnap] /\ snPc' = "idle"
      /\ sn'.number = 0 /\ sn'.any = sn.any /\ sn'.lat = sn.lat /\ sn.lat \in 0 .. MaxSnap
  BY <1>1, Zenon DEF Types, Crash
<1>4. SnOrder'
  BY <1>1, <1>2, <1>3 DEF SnOrder
<1>5. Started'
  BY <1>1, <1>2, <1>3, <1>4, Zenon DEF Started, Types, Unsaved, Crash
<1> QED  BY <1>2, <1>5, StartedInvNext

(* The first mount satisfies the invariant.                                *)
LEMMA InitInv == Init => Inv
<1> SUFFICES ASSUME Init PROVE Inv
  OBVIOUS
<1>1. file \in File
  <2>1. \/ file = NoFile
        \/ \E n \in 0 .. MaxSize, d \in [Block -> Value] :
              file = [exists |-> TRUE, size |-> n, data |-> d]
    BY DEF Init
  <2>2. ASSUME NEW n \in 0 .. MaxSize, NEW d \in [Block -> Value],
               file = [exists |-> TRUE, size |-> n, data |-> d]
        PROVE  file \in File
    BY <2>2 DEF File
  <2>3. NoFile \in File
    BY Constants, Zenon
  <2> QED  BY <2>1, <2>2, <2>3, Zenon
<1>2. map \in [Snap -> MapFile] /\ dat \in [Snap -> DatFile]
  BY Constants, Zenon DEF Init
<1>3. /\ sn \in [number : Nat, any : BOOLEAN, lat : 0 .. MaxSnap] /\ earliest \in Nat
      /\ SnOrder
  <2>1. sn = [number |-> 0, any |-> FALSE, lat |-> 0] /\ snPc = "idle" /\ earliest = 1
    BY Zenon DEF Init
  <2> QED  BY <2>1, BoundAssumption DEF SnOrder
<1>4. Unsaved
  <2>1. \A s \in Snap : map[s] = NoMap
    BY Zenon DEF Init
  <2>2. \A b \in Block : NoMap.ptr[b] = 0
    BY Zenon DEF NoMap
  <2> QED  BY <2>1, <2>2, Zenon DEF Unsaved
<1>5. Started
  BY <1>1, <1>2, <1>3, <1>4 DEF Init, Started
<1> QED  BY <1>5, StartedInv

-----------------------------------------------------------------------------
(* A thread that serves no request, whose handle is right or stale.        *)
Resting(t) ==
    /\ pc[t] = "idle" /\ req[t].op = "none"
    /\ mfd[t].fd.num <= sn.number
    /\ mfd[t].fd.open /\ mfd[t].fd.num = sn.number /\ snPc = "idle" => UpToDate(mfd[t].fd)

(* Between requests nothing else has to be known of a thread.              *)
LEMMA RestingShown ==
    ASSUME NEW t \in Thread PROVE Resting(t) => Handled(t) /\ Asked(t) /\ Copied(t)
<1>1. "idle" \notin UsePc \cup SetupPc \cup MapPc \cup SavePc
  BY DEF UsePc, SetupPc, FreshPc, MapPc, SavePc
<1> QED  BY <1>1, Zenon DEF Resting, Handled, Asked, Copied

(* Also after a step.                                                      *)
LEMMA RestingNext ==
    ASSUME NEW t \in Thread PROVE Resting(t)' => Handled(t)' /\ Asked(t)' /\ Copied(t)'
  BY RestingShown, PTL

(* A read of the file in a snapshot changes nothing of this.               *)
LEMMA SameIntact ==
    ASSUME Intact,
           UNCHANGED <<file, map, dat, taken, sn, snPc, earliest, pc, req, loc, mfd>>
    PROVE  Intact'
<1>1. Disk'
  <2>1. \A s \in Snap : Linked(s) => Linked(s)'
    BY Zenon DEF Linked, LinkedHeader, LinkedBlock, After
  <2> QED  BY <2>1, Zenon DEF Intact, Disk, Remains, AllIdle
<1>2. ASSUME NEW t \in Thread PROVE Handled(t)' /\ Asked(t)' /\ Copied(t)'
  <2>1. Handled(t) /\ Asked(t) /\ Copied(t) /\ Cur(t)' = Cur(t)
    BY DEF Intact, Cur
  <2>2. Handled(t)'
    <3>1. \A m : UpToDate(m) => UpToDate(m)'
      BY Zenon DEF UpToDate, Remains
    <3> QED  BY <2>1, <3>1, Zenon DEF Handled
  <2>3. Copied(t)'
    BY <2>1, Zenon DEF Copied, SavedTo, Remains
  <2> QED  BY <2>1, <2>2, <2>3, Zenon DEF Asked
<1> QED  BY <1>1, <1>2, Zenon DEF Intact

(* A snapshot is taken while no request is served: it has saved nothing,   *)
(* and what it has not saved is in the main file.                          *)
LEMMA SnSetLatestIntact ==
    ASSUME Inv, Intact, FaultTypes, SnSetLatest, ~faults'.raced PROVE Intact'
<1> DEFINE n == sn.lat + 1
<1>1. /\ sn.lat < MaxSnap /\ snPc = "idle" /\ snPc' = "number" /\ AllIdle
      /\ UNCHANGED <<file, map, dat, earliest, pc, req, loc, mfd>>
      /\ taken' = [taken EXCEPT ![n] = file]
  <2>1. NoRequest
    BY NotRaced, Zenon DEF SnSetLatest
  <2> QED  BY <2>1, Zenon DEF SnSetLatest, NoRequest, fileVars, threadVars
<1>2. /\ sn \in [number : Nat, any : BOOLEAN, lat : 0 .. MaxSnap] /\ file \in File
      /\ sn.lat \in Nat /\ earliest \in Nat /\ taken \in [Snap -> File]
  <2>1. /\ sn \in [number : Nat, any : BOOLEAN, lat : 0 .. MaxSnap] /\ file \in File
        /\ earliest \in Nat /\ taken \in [Snap -> File]
    BY Zenon DEF Inv, Types, Intact, Disk
  <2>2. sn.lat \in 0 .. MaxSnap
    BY <2>1, Zenon
  <2>3. sn.lat \in Nat
    BY <2>2, BoundAssumption
  <2> QED  BY <2>1, <2>3, Zenon
<1>3. sn'.number = sn.number /\ sn'.any = TRUE /\ sn'.lat = n /\ n \in Snap /\ n > sn.lat
  <2>1. sn' = [sn EXCEPT !.lat = n, !.any = TRUE]
    BY Zenon DEF SnSetLatest
  <2>2. n \in Snap /\ n > sn.lat
    BY <1>1, <1>2, BoundAssumption DEF Snap
  <2> QED  BY <1>2, <2>1, <2>2, Zenon
<1>4. taken'[n] = file /\ taken' \in [Snap -> File] /\ \A s \in Snap : s # n => taken'[s] = taken[s]
  BY <1>1, <1>2, <1>3, Zenon
<1>5. ASSUME NEW s \in Snap, earliest <= s, s <= n PROVE Linked(s)'
  <2>1. CASE s = n
    <3>1. map'[s].st = "none" /\ \A b \in Block : map'[s].ptr[b] = 0
      BY <1>1, <1>3, <2>1, Zenon DEF Intact, Disk
    <3>2. After(s)' = file /\ taken'[s] = file
      BY <1>1, <1>3, <1>4, <2>1 DEF After
    <3> QED  BY <3>1, <3>2, Zenon DEF Linked, LinkedHeader, LinkedBlock
  <2>2. CASE s # n
    <3>1. s <= sn.lat /\ s \in Nat /\ (s # sn.lat => s + 1 # n /\ s + 1 \in Snap)
      <4>1. s \in 1 .. MaxSnap /\ MaxSnap \in Nat /\ sn.lat < MaxSnap /\ s <= sn.lat + 1 /\ s # sn.lat + 1
        BY <1>1, <1>5, <2>2, BoundAssumption DEF Snap
      <4> QED  BY <1>2, <4>1 DEF Snap
    <3>2. Linked(s)
      BY <1>5, <3>1, Zenon DEF Intact, Disk
    <3>3. After(s)' = After(s) /\ taken'[s] = taken[s] /\ map' = map /\ dat' = dat
      BY <1>1, <1>3, <1>4, <2>2, <3>1, Zenon DEF After
    <3> HIDE DEF n
    <3> QED  BY <3>2, <3>3, Zenon DEF Linked, LinkedHeader, LinkedBlock
  <2> QED  BY <2>1, <2>2, Zenon
<1>6. ASSUME NEW s \in Snap, s > n
      PROVE  map'[s].st = "none" /\ \A b \in Block : map'[s].ptr[b] = 0
  <2>1. s > sn.lat
    BY <1>2, <1>6, FdFacts
  <2> QED  BY <1>1, <2>1, Zenon DEF Intact, Disk
<1>7. \A s \in Snap : ~taken'[s].exists => taken'[s].size = 0
  BY <1>4, Zenon DEF Intact, Disk
<1>8. Disk'
  <2> HIDE DEF n
  <2>1. /\ ~file'.exists => file'.size = 0
        /\ ~sn'.any => ~Remains'
        /\ AllIdle'
    BY <1>1, <1>3 DEF Intact, Disk, AllIdle
  <2> QED  BY <1>1, <1>3, <1>4, <1>5, <1>6, <1>7, <2>1, Zenon DEF Disk
<1>9. ASSUME NEW t \in Thread PROVE Resting(t)'
  <2>1. Known(t) /\ Handled(t) /\ pc[t] = "idle"
    BY <1>1, Basics DEF Intact, AllIdle
  <2> QED  BY <1>1, <1>3, <2>1, Zenon DEF Resting, Known, Served, Handled
<1> QED  BY <1>8, <1>9, RestingNext DEF Intact

(* Then the number is increased, which makes all handles stale.            *)
LEMMA SnIncNumberIntact == ASSUME Inv, Intact, SnIncNumber PROVE Intact'
<1>1. /\ snPc = "number" /\ snPc' = "idle" /\ AllIdle
      /\ UNCHANGED <<file, map, dat, taken, earliest, pc, req, loc, mfd>>
      /\ sn' = [sn EXCEPT !.number = sn.number + 1]
  BY DEF SnIncNumber, fileVars, threadVars, Intact, Disk
<1>2. sn'.number = sn.number + 1 /\ sn'.any = sn.any /\ sn'.lat = sn.lat /\ sn.number \in Nat
  BY <1>1 DEF Inv, Types
<1>3. Disk'
  <2>1. \A s \in Snap : Linked(s) => Linked(s)'
    BY <1>1, <1>2 DEF Linked, LinkedHeader, LinkedBlock, After
  <2> QED  BY <1>1, <1>2, <2>1, Zenon DEF Intact, Disk, Remains
<1>4. ASSUME NEW t \in Thread PROVE Resting(t)'
  <2>1. Known(t) /\ Handled(t) /\ pc[t] = "idle" /\ mfd[t].fd.num \in Nat
    BY <1>1, Basics DEF Intact, AllIdle, Known, ThreadTypes, Mfd
  <2>2. mfd[t].fd.num <= sn.number /\ req[t].op = "none"
    BY <2>1, Zenon DEF Handled, Known, Served
  <2> QED  BY <1>1, <1>2, <2>1, <2>2 DEF Resting
<1> QED  BY <1>3, <1>4, RestingNext DEF Intact

(* Removing the earliest snapshot asks less of the handles and files.      *)
LEMMA SnDestroyIntact == ASSUME Inv, Intact, SnDestroy PROVE Intact'
<1>1. /\ UNCHANGED <<file, map, dat, taken, snPc, pc, req, loc, mfd>>
      /\ earliest' = earliest + 1 /\ earliest \in Nat /\ sn.lat \in Nat
  BY DEF SnDestroy, fileVars, threadVars, Inv, Types
<1>2. /\ sn'.number = sn.number /\ sn'.lat = sn.lat /\ (~sn'.any => ~(earliest < sn.lat))
  <2>1. PICK any \in BOOLEAN : any <=> earliest < sn.lat
    BY Zenon
  <2>2. sn' = [sn EXCEPT !.any = any]
    BY <2>1 DEF SnDestroy
  <2> QED  BY <2>1, <2>2 DEF Inv, Types
<1>3. Remains' => Remains
  BY <1>1, <1>2 DEF Remains
<1>4. Disk'
  <2>1. \A s \in Snap : Linked(s) => Linked(s)'
    BY <1>1, <1>2, Zenon DEF Linked, LinkedHeader, LinkedBlock, After
  <2>2. ASSUME NEW s \in Snap, earliest' <= s, s <= sn'.lat PROVE Linked(s)'
    <3>1. earliest <= s /\ s <= sn.lat
      BY <1>1, <1>2, <2>2, FdFacts
    <3> QED  BY <2>1, <3>1, Zenon DEF Intact, Disk
  <2>3. ~sn'.any => ~Remains'
    BY <1>1, <1>2 DEF Remains
  <2> QED  BY <1>1, <1>2, <2>2, <2>3, Zenon DEF Intact, Disk, AllIdle
<1>5. ASSUME NEW t \in Thread PROVE Handled(t)' /\ Asked(t)' /\ Copied(t)'
  <2>1. Handled(t) /\ Asked(t) /\ Copied(t) /\ Cur(t)' = Cur(t)
    BY <1>1, Zenon DEF Intact, Cur
  <2>2. \A m : UpToDate(m) => UpToDate(m)'
    BY <1>2, <1>3 DEF UpToDate
  <2>3. PICK e, f : e = mfd[t].fd /\ f = Cur(t)
    BY Zenon
  <2>4. Handled(t)'
    BY <1>1, <1>2, <2>1, <2>2, <2>3, Zenon DEF Handled
  <2>5. Asked(t)'
    BY <1>1, <2>1, Zenon DEF Asked
  <2>6. Copied(t)'
    BY <1>1, <1>2, <1>3, <2>1, Zenon DEF Copied, SavedTo
  <2> QED  BY <2>4, <2>5, <2>6, Zenon
<1> QED  BY <1>4, <1>5 DEF Intact

(* A process that has just been started knows no handle, and the disk is   *)
(* as it was left.                                                         *)
LEMMA CrashIntact == ASSUME Inv, Intact, Crash PROVE Intact'
<1>1. /\ snPc' = "idle" /\ UNCHANGED <<file, map, dat, taken, earliest>>
      /\ sn' = [sn EXCEPT !.number = 0]
      /\ \A t \in Thread : /\ pc'[t] = "idle" /\ req'[t] = NoReq /\ mfd'[t].fd = NoMfd
  BY DEF Crash, fileVars
<1>2. sn'.number = 0 /\ sn'.any = sn.any /\ sn'.lat = sn.lat
  BY <1>1 DEF Inv, Types
<1>3. Disk'
  <2>1. \A s \in Snap : Linked(s) => Linked(s)'
    BY <1>1, <1>2 DEF Linked, LinkedHeader, LinkedBlock, After
  <2> QED  BY <1>1, <1>2, <2>1, Zenon DEF Intact, Disk, Remains
<1>4. ASSUME NEW t \in Thread PROVE Resting(t)'
  BY <1>1, <1>2 DEF Resting, NoReq, NoMfd
<1> QED  BY <1>3, <1>4, RestingNext DEF Intact

(* At the first mount there are no snapshots.                              *)
LEMMA InitIntact == Init => Intact
<1> SUFFICES ASSUME Init PROVE Intact
  OBVIOUS
<1>1. /\ sn.lat = 0 /\ sn.number = 0 /\ earliest = 1 /\ snPc = "idle" /\ ~Remains
      /\ map = [s \in Snap |-> NoMap] /\ taken = [s \in Snap |-> NoFile]
  <2>1. /\ sn = [number |-> 0, any |-> FALSE, lat |-> 0] /\ earliest = 1 /\ snPc = "idle"
        /\ map = [s \in Snap |-> NoMap] /\ taken = [s \in Snap |-> NoFile]
    BY Zenon DEF Init
  <2>2. sn.lat = 0 /\ sn.number = 0 /\ ~(1 <= 0)
    BY <2>1
  <2> QED  BY <2>1, <2>2, Zenon DEF Remains
<1>2. ~file.exists => file.size = 0
  <2>1. \/ file = NoFile
        \/ \E n \in 0 .. MaxSize, d \in [Block -> Value] :
              file = [exists |-> TRUE, size |-> n, data |-> d]
    BY DEF Init
  <2>2. ASSUME NEW n, NEW d, file = [exists |-> TRUE, size |-> n, data |-> d] PROVE file.exists
    BY <2>2, Zenon
  <2> QED  BY <2>1, <2>2, SMTT(30) DEF NoFile
<1>3. Disk
  <2>1. taken \in [Snap -> File] /\ \A s \in Snap : ~taken[s].exists => taken[s].size = 0
    BY <1>1, Constants DEF NoFile
  <2>2. \A s \in Snap : map[s].st = "none" /\ \A b \in Block : map[s].ptr[b] = 0
    BY <1>1 DEF NoMap
  <2>3. \A s \in Snap : ~(s <= sn.lat)
    BY <1>1, FdFacts
  <2> QED  BY <1>1, <1>2, <2>1, <2>2, <2>3, Zenon DEF Disk
<1>4. ASSUME NEW t \in Thread PROVE Resting(t)
  <2>1. pc[t] = "idle" /\ req[t] = NoReq /\ mfd[t].fd = NoMfd
    BY Zenon DEF Init
  <2>2. NoReq.op = "none" /\ ~NoMfd.open /\ NoMfd.num = 0 /\ 0 <= 0
    BY DEF NoReq, NoMfd
  <2> QED  BY <1>1, <2>1, <2>2, Zenon DEF Resting
<1> QED  BY <1>3, <1>4, RestingShown, Zenon DEF Intact

(* The record of the faults: a handle once left without its map file stays *)
(* on record, and so does a snapshot created during a request.             *)
LEMMA FaultStep ==
    ASSUME FaultTypes, [Next]_vars PROVE FaultTypes' /\ FaultsGrow
<1>1. ASSUME NEW t \in Thread, OpenSnError(t)
      PROVE  FaultTypes' /\ FaultsGrow
  <2>1. PICK st \in BOOLEAN : st <=> faults.stale \/ (loc[t].cur = "fd" /\ mfd[t].fd.open)
    BY Zenon
  <2>2. faults' = [faults EXCEPT !.error = faults.error + 1, !.stale = st]
    <3>1. faults.stale \in BOOLEAN
      BY DEF FaultTypes
    <3> QED  BY <1>1, <2>1, <3>1, Zenon DEF OpenSnError
  <2>3. faults.error + 1 \in Int
    BY DEF FaultTypes
  <2> QED  BY <2>1, <2>2, <2>3, Zenon DEF FaultTypes, FaultsGrow
<1>2. ASSUME NEW t \in Thread, OpenSnNoHeader(t)
      PROVE  FaultTypes' /\ FaultsGrow
  <2>1. PICK st \in BOOLEAN : st <=> faults.stale \/ (loc[t].cur = "fd" /\ mfd[t].fd.open)
    BY Zenon
  <2>2. faults' = [faults EXCEPT !.stale = st]
    <3>1. faults.stale \in BOOLEAN
      BY DEF FaultTypes
    <3> QED  BY <1>2, <2>1, <3>1 DEF OpenSnNoHeader
  <2> QED  BY <2>1, <2>2, Zenon DEF FaultTypes, FaultsGrow
<1>3. ASSUME NEW t \in Thread, BWriteError(t)
      PROVE  FaultTypes' /\ FaultsGrow
  <2>1. faults' = [faults EXCEPT !.error = faults.error + 1] /\ faults.error + 1 \in Int
    BY <1>3 DEF BWriteError, FaultTypes
  <2> QED  BY <2>1, Zenon DEF FaultTypes, FaultsGrow
<1>4. CASE Crash
  <2>1. faults' = [faults EXCEPT !.crash = faults.crash + 1] /\ faults.crash + 1 \in Int
    BY <1>4 DEF Crash, FaultTypes
  <2> QED  BY <2>1, Zenon DEF FaultTypes, FaultsGrow
<1>5. ASSUME UNCHANGED faults PROVE FaultTypes' /\ FaultsGrow
  BY <1>5 DEF FaultTypes, FaultsGrow
<1>6. ASSUME NEW t \in Thread, Start(t) PROVE UNCHANGED faults \/ Races(snPc # "idle")
  BY <1>6, Zenon
  DEF Start, StartOpen, StartCreate, StartWrite, StartFtruncate, StartTruncate, StartUnlink,
      Close, Begin
<1>7. ASSUME NEW t \in Thread, OpenSn(t)
      PROVE  OpenSnError(t) \/ OpenSnNoHeader(t) \/ UNCHANGED faults
  BY <1>7, Zenon
  DEF OpenSn, OpenSnBegin, OpenSnLatest, OpenSnLock, OpenSnMap, OpenSnStat, OpenSnHeader,
      OpenSnUnlock, OpenSnDat, OpenSnIsDir, Validate, ValidateFails, Validated
<1>8. ASSUME NEW t \in Thread, Save(t) PROVE BWriteError(t) \/ UNCHANGED faults
  BY <1>8, Zenon
  DEF Save, BWritePeek, BWriteLock, BWriteRecheck, BWriteRead, BWriteSeek, BWriteAppend,
      BWriteSetPointer, BWriteDone, BWriteFailed, BWriteNoMap, Apply
<1>9. ASSUME NEW r \in Reader, Read(r) PROVE UNCHANGED faults \/ Races(snPc # "idle")
  BY <1>9, Zenon
  DEF Read, ROpenMaps, RStart, ROpenMain, RClose, RNowhere, ROlder, RLock, RLatest, RMain,
      RUnlock, RReturn
<1>10. SnIncNumber \/ SnDestroy \/ UNCHANGED vars => UNCHANGED faults
  BY DEF SnIncNumber, SnDestroy, vars
<1>11. SnSetLatest => Races(~NoRequest)
  BY Zenon DEF SnSetLatest
<1>12. (Races(snPc # "idle") \/ Races(~NoRequest)) => FaultTypes' /\ FaultsGrow
  BY RacesFacts, Zenon
<1> QED
  BY <1>1, <1>2, <1>3, <1>4, <1>5, <1>6, <1>7, <1>8, <1>9, <1>10, <1>11, <1>12, Zenon
  DEF Next, Step
=============================================================================

------------------------- MODULE CopyOnWriteProofs --------------------------
(***************************************************************************)
(* Proofs about the saving of blocks for any number of threads, blocks and *)
(* snapshots, with snapshots that come and go at any time, deaths of the   *)
(* process and failing system calls: what the handles have cached agrees   *)
(* with the map files, and what a snapshot has saved never changes.  Until *)
(* a snapshot is created while a request is served or an open handle loses *)
(* its map file, no change reaches the main file before what it destroys   *)
(* is saved, the disk determines every snapshot as it was taken, and a     *)
(* read inside a snapshot returns what the file held then.  At the end,    *)
(* the file system in which no system call fails and the process does not  *)
(* die.                                                                    *)
(***************************************************************************)
EXTENDS OpenSnProofs, BWriteProofs, ReaderProofs

(* Every step of a thread is in order.                                     *)
LEMMA ThreadStep == ASSUME Inv, NEW t \in Thread, Start(t) \/ Step(t) PROVE StepOK(t)
<1>1. CASE OpenSn(t)
  BY <1>1, OpenSnBeginOK, OpenSnLatestOK, OpenSnLockOK, OpenSnMapOK, OpenSnStatOK,
     OpenSnHeaderOK, OpenSnUnlockOK, OpenSnDatOK, OpenSnIsDirOK, OpenSnNoHeaderOK,
     OpenSnErrorOK, ValidateOK, ValidateFailsOK, ValidatedOK, Zenon
  DEF OpenSn
<1>2. CASE Save(t)
  BY <1>2, BWritePeekOK, BWriteLockOK, BWriteRecheckOK, BWriteReadOK, BWriteSeekOK,
     BWriteAppendOK, BWriteSetPointerOK, BWriteDoneOK, BWriteFailedOK, BWriteNoMapOK,
     BWriteErrorOK, ApplyOK, Zenon
  DEF Save
<1> QED  BY <1>1, <1>2, StartOK, Zenon DEF Step

(* Every step of the system preserves the invariant.                       *)
LEMMA Inductive == Inv /\ [Next]_vars => Inv'
<1> SUFFICES ASSUME Inv, [Next]_vars PROVE Inv'
  OBVIOUS
<1>1. ASSUME NEW t \in Thread, Start(t) \/ Step(t) PROVE Inv'
  BY <1>1, ThreadStep, Combine, Zenon
<1>2. ASSUME NEW r \in Reader, Read(r) PROVE Inv'
  BY <1>2, ReadStep, Zenon
<1>3. CASE SnSetLatest \/ SnIncNumber \/ SnDestroy
  BY <1>3, SnStep, Zenon
<1>4. CASE Crash
  BY <1>4, CrashStep, Zenon
<1>5. CASE UNCHANGED vars
  <2>1. /\ UNCHANGED <<file, map, dat, pc, req, loc, mfd, holder, sn, snPc, earliest>>
    BY <1>5, Zenon DEF vars
  <2>2. Types /\ SnOrder /\ sn.lat \in 0 .. MaxSnap
    BY DEF Inv, Types
  <2>3. SnOrder'
    BY <2>1, <2>2, Zenon DEF SnOrder
  <2> QED  BY <2>1, <2>2, <2>3, OutsideStep DEF Types
<1> QED  BY <1>1, <1>2, <1>3, <1>4, <1>5, Zenon DEF Next

(* In every reachable state, for any number of threads and readers and any *)
(* bounds, the invariant holds.                                            *)
THEOREM Invariance == Spec => []Inv
  BY InitInv, Inductive, PTL DEF Spec

-----------------------------------------------------------------------------
(* What an open handle remembers of a map file (the header read or written *)
(* by mfd_open_sn, the cached block number of b_write) is what the map     *)
(* file says, whatever other threads, snapshots, errors and crashes did in *)
(* between.                                                                *)
THEOREM Coherence == Spec => []CacheCoherent
  BY Invariance, InvCoherent, PTL

(* No step changes a saved header, a pointer that is not zero or a saved   *)
(* block.                                                                  *)
LEMMA SavedStep == Inv /\ [Next]_vars => MapKept /\ DatKept
<1> SUFFICES ASSUME Inv, [Next]_vars PROVE MapKept /\ DatKept
  OBVIOUS
<1>1. ASSUME UNCHANGED <<map, dat>> PROVE MapKept /\ DatKept
  BY <1>1, SameDat, Zenon DEF MapKept
<1>2. ASSUME NEW t \in Thread, Start(t) \/ Step(t) PROVE MapKept /\ DatKept
  BY <1>2, ThreadStep, ThreadDat, Zenon DEF StepOK, Frame
<1>3. ASSUME NEW r \in Reader, Read(r) PROVE MapKept /\ DatKept
  BY <1>1, <1>3, ReadStep, Zenon
<1>4. CASE SnSetLatest \/ SnIncNumber \/ SnDestroy
  BY <1>1, <1>4, SnStep, Zenon
<1>5. CASE Crash
  BY <1>1, <1>5, CrashStep, Zenon
<1>6. CASE UNCHANGED vars
  BY <1>1, <1>6, Zenon DEF vars
<1> QED  BY <1>2, <1>3, <1>4, <1>5, <1>6, Zenon DEF Next

(* Once b_write or mfd_open_sn has saved something of a snapshot, nothing  *)
(* that happens later changes it.                                          *)
THEOREM Forever == Spec => SavedForever
<1>1. Inv /\ [Next]_vars =>
        [\A s \in Snap :
           /\ map[s].st = "saved" => map'[s].st = "saved" /\ map'[s].hdr = map[s].hdr
           /\ \A b \in Block : map[s].ptr[b] # 0 => map'[s].ptr[b] = map[s].ptr[b]
           /\ \A i \in 1 .. Len(dat[s].blk) :
                 i \in 1 .. Len(dat'[s].blk) /\ dat'[s].blk[i] = dat[s].blk[i]]_vars
  BY SavedStep DEF MapKept, DatKept
<1> QED  BY <1>1, Invariance, PTL DEF Spec, SavedForever
-----------------------------------------------------------------------------
(* Every step of a thread keeps the snapshots intact.                      *)
LEMMA ThreadStepIntact ==
    ASSUME Inv, Intact, FaultTypes, NEW t \in Thread, Start(t) \/ Step(t), ~faults'.stale,
           ~faults'.raced
    PROVE  Intact'
<1>1. CASE OpenSn(t)
  BY <1>1, OpenSnBeginIntact, OpenSnLatestIntact, OpenSnLockIntact, OpenSnMapIntact,
     OpenSnStatIntact, OpenSnHeaderIntact, OpenSnUnlockIntact, OpenSnDatIntact,
     OpenSnIsDirIntact, OpenSnNoHeaderIntact, OpenSnErrorIntact, ValidateIntact,
     ValidateFailsIntact, ValidatedIntact, Zenon
  DEF OpenSn
<1>2. CASE Save(t)
  BY <1>2, BWritePeekIntact, BWriteLockIntact, BWriteRecheckIntact, BWriteReadIntact,
     BWriteSeekIntact, BWriteAppendIntact, BWriteSetPointerIntact, BWriteDoneIntact,
     BWriteFailedIntact, BWriteGivesUpIntact, ApplyIntact, Zenon
  DEF Save
<1> QED  BY <1>1, <1>2, StartIntact, Zenon DEF Step
-----------------------------------------------------------------------------
(* Every step keeps the snapshots intact, unless it leaves an open handle  *)
(* without its map file or a snapshot is created while a request is served. *)
LEMMA IntactStep ==
    ASSUME Inv, Intact, FaultTypes, [Next]_vars, ~faults'.stale, ~faults'.raced PROVE Intact'
<1>1. ASSUME NEW t \in Thread, Start(t) \/ Step(t) PROVE Intact'
  BY <1>1, ThreadStepIntact, Zenon
<1>2. ASSUME NEW r \in Reader, Read(r) PROVE Intact'
  <2>1. ReaderStep
    BY <1>2, Zenon
    DEF Read, ROpenMaps, RStart, ROpenMain, RClose, RNowhere, ROlder, RLock, RLatest, RMain,
        RUnlock, RReturn
  <2>2. UNCHANGED <<file, map, dat, taken, sn, snPc, earliest, pc, req, loc, mfd>>
    BY <2>1, Zenon DEF ReaderStep, fileVars, snVars, threadVars
  <2> QED  BY <2>2, SameIntact, Zenon
<1>3. CASE UNCHANGED vars
  <2>1. UNCHANGED <<file, map, dat, taken, sn, snPc, earliest, pc, req, loc, mfd>>
    BY <1>3 DEF vars
  <2> QED  BY <2>1, SameIntact
<1> QED
  BY <1>1, <1>2, <1>3, SnSetLatestIntact, SnIncNumberIntact, SnDestroyIntact, CrashIntact DEF Next

(* The invariant of this module, and that it is inductive.                 *)
IntactInd == Inv /\ FaultTypes /\ IntactInvariant

(* It is inductive: what must not have happened stays on record.           *)
LEMMA IntactInductive == IntactInd /\ [Next]_vars => IntactInd'
<1> SUFFICES ASSUME IntactInd, [Next]_vars PROVE IntactInd'
  OBVIOUS
<1>1. Inv' /\ FaultTypes' /\ FaultsGrow
  BY Inductive, FaultStep, Zenon DEF IntactInd
<1>2. ASSUME ~faults'.stale, ~faults'.raced PROVE Intact'
  BY <1>1, <1>2, IntactStep, Zenon DEF IntactInd, IntactInvariant, FaultsGrow
<1> QED  BY <1>1, <1>2, Zenon DEF IntactInd, IntactInvariant

(* It holds at the first mount.                                            *)
LEMMA IntactInit == Init => IntactInd
<1>1. Init => FaultTypes
  BY DEF Init, FaultTypes
<1> QED  BY <1>1, InitInv, InitIntact, Zenon DEF IntactInd, IntactInvariant

(* In every reachable state, for any number of threads, readers, blocks    *)
(* and snapshots, the handles and the disk are as b_write and mfd_open_sn  *)
(* need them (Intact), until an open handle is left without its map file   *)
(* (mfd.c:233) or a snapshot is created while a request is served.         *)
THEOREM IntactAlways == Spec => []IntactInd
  BY IntactInductive, IntactInit, PTL DEF Spec

-----------------------------------------------------------------------------
(* What the invariant says of the properties of module CopyOnWrite.        *)
LEMMA IntactSays ==
    IntactInd => /\ IntactDespiteFaults /\ SavedDespiteFaults
                 /\ ~faults.stale /\ ~faults.raced => OldBlockThere /\ ValidMeansLatest
<1>1. ASSUME Inv, Intact
      PROVE  SnapshotIntact /\ SavedBeforeChange /\ OldBlockThere /\ ValidMeansLatest
  BY <1>1, IntactShown, SavedShown, OldBlockShown, LatestShown, Zenon DEF Intact
<1> QED  BY <1>1, Zenon
         DEF IntactInd, IntactInvariant, IntactDespiteFaults, SavedDespiteFaults

(* For any number of threads, readers, blocks and snapshots: wherever the  *)
(* process dies and whichever calls fail, the map and dat files and the    *)
(* main file determine every remaining snapshot, attributes and data, as   *)
(* it was taken (README.md:101-106), until an open handle is left without  *)
(* its map file or a snapshot is created while a request is served.        *)
THEOREM SnapshotsIntact == Spec => []IntactDespiteFaults
  BY IntactAlways, IntactSays, PTL

(* And no write, truncation, removal or creation reaches the main file     *)
(* before the old blocks it destroys are saved (README.md:103-104), until  *)
(* an open handle is left without its map file or a snapshot is created    *)
(* while a request is served (run cow_racing_snapshot shows what happens   *)
(* then).                                                                  *)
THEOREM SavedBefore == Spec => []SavedDespiteFaults
  BY IntactAlways, IntactSays, PTL

(* The block b_write saves is in the main file (block.c:480), as long as   *)
(* no open handle was left without its map file and no snapshot was        *)
(* created while a request was served.                                     *)
THEOREM BlockThere == Spec => [](~faults.stale /\ ~faults.raced => OldBlockThere)
  BY IntactAlways, IntactSays, PTL

(* And mfd_validate only accepts handles of the latest snapshot (mfd.c:478) *)
(* as long as neither has happened.                                        *)
THEOREM ValidLatest == Spec => [](~faults.stale /\ ~faults.raced => ValidMeansLatest)
  BY IntactAlways, IntactSays, PTL

-----------------------------------------------------------------------------
(* The invariant of the readers, as long as no open handle on the main     *)
(* file was left without its map file and no snapshot was created while a  *)
(* request was served.                                                     *)
ReaderInvariant == ~faults.stale /\ ~faults.raced => ReaderInv

(* What b_read returns for a block of the file in a snapshot is the block  *)
(* as it was when the snapshot was taken, if the handle has the dat file   *)
(* of the latest snapshot open or there is no map file (HandleCurrent):    *)
(* for any number of threads that save and overwrite the block meanwhile,  *)
(* any number of readers and snapshots, wherever the process dies and      *)
(* whichever calls fail (block.c:172-180), until an open handle is left    *)
(* without its map file or a snapshot is created while a request is served. *)
THEOREM ReadsRight == Spec => [](~faults.stale /\ ~faults.raced => ReadsSnapshot)
<1>1. Init => ReaderInvariant
  BY ReaderInit, Zenon DEF ReaderInvariant
<1>2. IntactInd /\ ReaderInvariant /\ [Next]_vars => ReaderInvariant'
  <2> SUFFICES ASSUME IntactInd, ReaderInvariant, [Next]_vars, ~faults'.stale, ~faults'.raced
               PROVE  ReaderInv'
    BY Zenon DEF ReaderInvariant
  <2>1. ~faults.stale /\ ~faults.raced /\ FaultTypes
    BY FaultStep, Zenon DEF IntactInd, FaultsGrow
  <2>2. ThreadsOK
    BY ThreadStep, Zenon DEF IntactInd, ThreadsOK
  <2> QED  BY <2>1, <2>2, ReaderStepOK, Zenon DEF IntactInd, IntactInvariant, ReaderInvariant
<1>3. ReaderInvariant => (~faults.stale /\ ~faults.raced => ReadsSnapshot)
  BY ReaderSays, Zenon DEF ReaderInvariant, ReaderInv
<1> QED  BY <1>1, <1>2, <1>3, IntactAlways, PTL DEF Spec

-----------------------------------------------------------------------------
(* A file system in which no system call fails and the process does not    *)
(* die.                                                                    *)

(* Without faults no open handle is ever left without its map file.        *)
LEMMA AlwaysFaultless ==
    ASSUME MaxError = 0, MaxCrash = 0 PROVE Spec => [](BeingMade /\ Faultless)
<1>1. IntactInd /\ (BeingMade /\ Faultless) /\ [Next]_vars => (BeingMade /\ Faultless)'
  <2>1. Inv => ThreadsOK
    BY ThreadStep, Zenon DEF ThreadsOK
  <2> QED  BY <2>1, FaultlessStep, Zenon DEF IntactInd
<1> QED  BY <1>1, FaultlessInit, IntactAlways, PTL DEF Spec

(* In a file system without faults, the disk determines every remaining    *)
(* snapshot as it was taken (README.md:101-106): at every step of every    *)
(* request, for any number of threads, blocks and snapshots, until a       *)
(* snapshot is created while a request is served.                          *)
THEOREM AlwaysIntact ==
    ASSUME MaxError = 0, MaxCrash = 0 PROVE Spec => [](~faults.raced => SnapshotIntact)
<1>1. Faultless /\ IntactDespiteFaults => (~faults.raced => SnapshotIntact)
  BY Zenon DEF Faultless, IntactDespiteFaults
<1> QED  BY <1>1, AlwaysFaultless, SnapshotsIntact, PTL

(* And the block that b_write is about to save is in the main file         *)
(* (block.c:480), whatever other threads do, until a snapshot is created   *)
(* while a request is served.                                              *)
THEOREM AlwaysThere ==
    ASSUME MaxError = 0, MaxCrash = 0 PROVE Spec => [](~faults.raced => OldBlockThere)
<1>1. Faultless => ~faults.stale
  BY Zenon DEF Faultless
<1> QED  BY <1>1, AlwaysFaultless, BlockThere, PTL

(* And a handle that mfd_validate has accepted is set up for the latest    *)
(* snapshot (mfd.c:478), until a snapshot is created while a request is    *)
(* served.                                                                 *)
THEOREM AlwaysLatest ==
    ASSUME MaxError = 0, MaxCrash = 0 PROVE Spec => [](~faults.raced => ValidMeansLatest)
<1>1. Faultless => ~faults.stale
  BY Zenon DEF Faultless
<1> QED  BY <1>1, AlwaysFaultless, ValidLatest, PTL

(* And a read inside a snapshot returns the block as it was when the       *)
(* snapshot was taken (block.c:172-180), if the handle has the dat file of *)
(* the latest snapshot open or there is no map file (HandleCurrent), until *)
(* a snapshot is created while a request is served.                        *)
THEOREM AlwaysReads ==
    ASSUME MaxError = 0, MaxCrash = 0 PROVE Spec => [](~faults.raced => ReadsSnapshot)
<1>1. Faultless => ~faults.stale
  BY Zenon DEF Faultless
<1> QED  BY <1>1, AlwaysFaultless, ReadsRight, PTL
=============================================================================

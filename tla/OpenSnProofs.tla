---------------------------- MODULE OpenSnProofs ----------------------------
(***************************************************************************)
(* The steps of mfd_open_sn and mfd_validate (mfd.c), in which a thread    *)
(* sets its handle up for the latest snapshot, and the start of a request  *)
(* before them preserve the invariant and keep the snapshots intact.       *)
(***************************************************************************)
EXTENDS CopyOnWriteInv

(* mfd_open_sn and mfd_validate, step by step.                             *)
LEMMA OpenSnBeginOK == ASSUME Inv, NEW t \in Thread, OpenSnBegin(t) PROVE StepOK(t)
<1>1. Known(t)
  BY Basics
<1>2. PICK m : SetMfd(t, m) /\ m = [Cur(t) EXCEPT !.num = sn.number, !.cache = 0]
  BY Zenon DEF OpenSnBegin
<1>3. Updated(m, Cur(t), sn.number, Cur(t).map, Cur(t).dat, Cur(t).hdr, 0)
  <2>1. Cur(t) \in Mfd /\ sn.number \in 0 .. MaxSnap /\ 0 \in 0 .. MaxSize
    BY <1>1, FdFacts DEF Known, CurTypes, SnTypes
  <2> QED  BY <1>2, <2>1, Zenon DEF Updated, Mfd
<1>4. MfdSet(t, m)
  BY <1>1, <1>2, <1>3, SetMfdFacts DEF Known, Updated
<1>5. /\ pc[t] = "osn" /\ PcSet(t, "lat")
      /\ UNCHANGED <<file, map, dat, sn, snPc, earliest, holder, req, loc>>
  BY <1>1, GotoFacts DEF OpenSnBegin, fileVars, snVars, PcLabel, Known
<1>6. Works(t, "lat", loc[t], m)
  BY <1>1, <1>3, <1>4, <1>5 DEF Works, Known, Types, Updated, PcLabel, MapKept
<1>7. Moved(t, "lat", loc[t], m)
  BY <1>6, Worked
<1>8. Locked(t)' /\ Saving(t)' /\ Unsaved'
  BY <1>1, <1>5, <1>7 DEF Moved, Locked, LockPc, Saving, SavePc, CopyPc, Unsaved, Known
<1>9. Setup(t)' /\ m.map \notin Snap
  BY <1>1, <1>3, <1>5, <1>7 DEF Moved, Setup, FreshPc, MapPc, SetupPc, Known, SnTypes, Updated
<1>10. ASSUME NEW w \in Which, w = loc[t].cur PROVE Handle(t, w)'
  <2>1. /\ Handle(t, w) /\ mfd[t][w] = Cur(t) /\ mfd'[t][w] = m /\ m.map = Cur(t).map
        /\ m.dat = Cur(t).dat
    BY <1>1, <1>3, <1>7, <1>10 DEF Known, Updated, Moved
  <2> QED  BY <1>9, <2>1 DEF Handle
<1> QED  BY <1>6, <1>8, <1>9, <1>10, WorkedOK

(* And when it takes the file's lock before it looks for the map file.     *)
LEMMA OpenSnLockOK == ASSUME Inv, NEW t \in Thread, OpenSnLock(t) PROVE StepOK(t)
<1>1. Known(t)
  BY Basics
<1>2. /\ pc[t] = "lock" /\ PcSet(t, "map") /\ Steady(t, "map", loc[t])
      /\ holder'[FileLabel] = t
  BY <1>1, GotoFacts, LockFacts, ThreadAssumption
  DEF OpenSnLock, fileVars, snVars, PcLabel, Known, SnTypes, Types, Steady
<1>3. Moved(t, "map", loc[t], Cur(t))
  BY <1>2, SteadyMoved
<1>4. Locked(t)' /\ Setup(t)' /\ Saving(t)'
  BY <1>1, <1>2, <1>3
  DEF Steady, Moved, Locked, Saving, SavePc, CopyPc, Setup, FreshPc, MapPc, SetupPc, Known,
      SnTypes
<1> QED  BY <1>2, <1>4, SteadyOK DEF SetupPc, FreshPc

(* And when it releases the lock: the map file it found or made has its    *)
(* header by then.                                                         *)
LEMMA OpenSnUnlockOK == ASSUME Inv, NEW t \in Thread, OpenSnUnlock(t) PROVE StepOK(t)
<1>1. Known(t)
  BY Basics
<1>2. pc[t] = "unlock" /\ PcSet(t, "dat") /\ Steady(t, "dat", loc[t])
  BY <1>1, GotoFacts, LockFacts
  DEF OpenSnUnlock, fileVars, snVars, PcLabel, Known, SnTypes, Types, Steady
<1>3. Moved(t, "dat", loc[t], Cur(t))
  BY <1>2, SteadyMoved
<1>4. Locked(t)' /\ Setup(t)' /\ Saving(t)'
  BY <1>1, <1>2, <1>3, Zenon
  DEF Steady, Moved, Locked, LockPc, Saving, SavePc, CopyPc, Setup, FreshPc, MapPc, SetupPc,
      Known, SnTypes
<1> QED  BY <1>2, <1>4, SteadyOK DEF SetupPc, MapPc

(* And when it opens the map file, or creates an empty one, under the      *)
(* lock.                                                                   *)
LEMMA OpenSnMapOK == ASSUME Inv, NEW t \in Thread, OpenSnMap(t) PROVE StepOK(t)
<1> DEFINE s == loc[t].lat
<1>1. Known(t) /\ pc[t] = "map" /\ s \in Snap /\ s \in Fd /\ Cur(t).map \notin Snap
  BY Basics, FdFacts DEF OpenSnMap, Known, Setup, FreshPc
<1>2. UNCHANGED <<file, dat, sn, snPc, earliest, holder, req, loc>> /\ holder[FileLabel] = t
  BY <1>1 DEF OpenSnMap, snVars, Known, Locked, LockPc
<1>3. map[s] \in MapFile /\ map[s].hdr \in Header
  BY <1>1 DEF Known, Types, MapFile
<1>4. CASE map[s].st = "none"
  <2>1. PICK m : SetMfd(t, m) /\ m = [Cur(t) EXCEPT !.map = s]
    BY <1>4, Zenon DEF OpenSnMap
  <2>2. Updated(m, Cur(t), Cur(t).num, s, Cur(t).dat, Cur(t).hdr, Cur(t).cache)
    BY <1>1, <2>1, Updates, Zenon DEF Known, CurTypes
  <2>3. MfdSet(t, m)
    BY <1>1, <2>1, <2>2, SetMfdFacts, Zenon DEF Known, SnTypes, Updated
  <2>4. PcSet(t, "stat") /\ map' = [map EXCEPT ![s].st = "empty"]
    BY <1>1, <1>4, GotoFacts DEF OpenSnMap, PcLabel, Known, ThreadTypes
  <2>5. /\ map' \in [Snap -> MapFile] /\ MapKept /\ Unsaved' /\ map'[s].st = "empty"
    <3>1. map \in [Snap -> MapFile] /\ s \in Snap /\ map[s].ptr \in [Block -> Nat]
      BY <1>1, <1>3 DEF Known, Types, MapFile
    <3> HIDE DEF s
    <3>2. map' \in [Snap -> MapFile]
      BY <2>4, <3>1, Zenon DEF MapFile
    <3>3. /\ map'[s].st = "empty" /\ map'[s].ptr = map[s].ptr
          /\ \A k \in Snap : k # s => map'[k] = map[k]
      BY <2>4, <3>1 DEF MapFile
    <3>4. MapKept
      BY <1>4, <3>3 DEF MapKept
    <3>5. Unsaved'
      BY <1>1, <1>4, <3>1, <3>3 DEF Known, Unsaved
    <3> QED  BY <3>2, <3>3, <3>4, <3>5, Zenon
  <2>6. Works(t, "stat", loc[t], m)
    BY <1>1, <1>2, <2>2, <2>3, <2>4, <2>5 DEF Works, Known, Types, Updated, PcLabel
  <2>7. Moved(t, "stat", loc[t], m)
    BY <2>6, Worked
  <2>8. Locked(t)' /\ Saving(t)'
    BY <1>2, <2>7 DEF Moved, Locked, Saving, SavePc, CopyPc
  <2>9. Setup(t)'
    BY <1>1, <1>2, <2>2, <2>5, <2>7, Zenon DEF Moved, Setup, FreshPc, SetupPc, Known, Updated
  <2>10. ASSUME NEW w \in Which, w = loc[t].cur PROVE Handle(t, w)'
    <3>1. mfd'[t][w] = m /\ m.map = s /\ pc'[t] = "stat" /\ loc'[t].cur = w
      BY <2>2, <2>7, <2>10 DEF Updated, Moved
    <3> QED  BY <1>1, <3>1, FdFacts DEF Handle, SetupPc, MapPc
  <2> QED  BY <2>5, <2>6, <2>8, <2>9, <2>10, WorkedOK
<1>5. CASE map[s].st = "saved"
  <2>1. PICK m : SetMfd(t, m) /\ m = [Cur(t) EXCEPT !.map = s, !.hdr = map[s].hdr]
    BY <1>5, Zenon DEF OpenSnMap
  <2>2. Updated(m, Cur(t), Cur(t).num, s, Cur(t).dat, map[s].hdr, Cur(t).cache)
    BY <1>1, <1>3, <2>1, Updates, Zenon DEF Known, CurTypes
  <2>3. MfdSet(t, m)
    BY <1>1, <2>1, <2>2, SetMfdFacts DEF Known, SnTypes, Updated
  <2>4. PcSet(t, "unlock") /\ map' = map
    BY <1>1, <1>5, GotoFacts DEF OpenSnMap, PcLabel, Known, SnTypes
  <2>5. Works(t, "unlock", loc[t], m)
    BY <1>1, <1>2, <2>2, <2>3, <2>4, Zenon
    DEF Works, Known, SnTypes, Types, Updated, PcLabel, MapKept
  <2>6. Moved(t, "unlock", loc[t], m)
    BY <2>5, Worked
  <2>7. Locked(t)' /\ Saving(t)' /\ Unsaved'
    BY <1>1, <1>2, <2>4, <2>6 DEF Moved, Locked, Saving, SavePc, CopyPc, Known, SnTypes, Unsaved
  <2>8. Cur(t).cache = 0 /\ Setup(t)'
    BY <1>1, <1>2, <2>2, <2>6, Zenon DEF Moved, Setup, FreshPc, SetupPc, Known, Updated
  <2>9. ASSUME NEW w \in Which, w = loc[t].cur PROVE Handle(t, w)'
    <3>1. /\ mfd'[t][w] = m /\ m.map = s /\ m.hdr = map[s].hdr /\ m.cache = 0
          /\ pc'[t] = "unlock" /\ loc'[t].cur = w
      BY <2>2, <2>6, <2>8, <2>9 DEF Updated, Moved
    <3> QED  BY <1>1, <1>5, <2>4, <3>1, FdFacts, Zenon DEF Handle, SetupPc, MapPc
  <2> QED  BY <2>5, <2>7, <2>8, <2>9, WorkedOK
<1> QED  BY <1>3, <1>4, <1>5 DEF OpenSnMap, MapFile

(* And when it reads the attributes of the main file that it is going to   *)
(* save.                                                                   *)
LEMMA OpenSnStatOK == ASSUME Inv, NEW t \in Thread, OpenSnStat(t) PROVE StepOK(t)
<1> DEFINE h == [exists |-> file.exists, size |-> file.size]
<1>1. Known(t) /\ pc[t] = "stat" /\ h \in Header
  BY Basics, Zenon DEF OpenSnStat, Known, Types, File, Header
<1>2. PICK m : SetMfd(t, m) /\ m = [Cur(t) EXCEPT !.hdr = h]
  BY Zenon DEF OpenSnStat
<1>3. Updated(m, Cur(t), Cur(t).num, Cur(t).map, Cur(t).dat, h, Cur(t).cache)
  <2>1. Cur(t) \in Mfd
    BY <1>1, Zenon DEF Known, CurTypes
  <2> HIDE DEF h
  <2> QED  BY <1>1, <1>2, <2>1, Zenon DEF Updated, Mfd
<1>4. MfdSet(t, m)
  BY <1>1, <1>2, <1>3, SetMfdFacts DEF Known, Updated
<1>5. PcSet(t, "header") /\ UNCHANGED <<file, map, dat, sn, snPc, earliest, holder, req, loc>>
  BY <1>1, GotoFacts DEF OpenSnStat, fileVars, snVars, PcLabel, Known
<1>6. Works(t, "header", loc[t], m)
  BY <1>1, <1>3, <1>4, <1>5, Zenon DEF Works, Known, Types, Updated, PcLabel, MapKept
<1>7. Moved(t, "header", loc[t], m)
  BY <1>6, Worked, Zenon
<1>8. Locked(t)' /\ Saving(t)' /\ Unsaved'
  BY <1>1, <1>5, <1>7 DEF Moved, Locked, LockPc, Saving, SavePc, CopyPc, Unsaved, Known
<1>9. Setup(t)'
  BY <1>1, <1>3, <1>5, <1>7, Zenon
  DEF Moved, Setup, FreshPc, MapPc, SetupPc, Known, SnTypes, Updated
<1>10. ASSUME NEW w \in Which, w = loc[t].cur PROVE Handle(t, w)'
  <2>1. /\ mfd'[t][w] = m /\ mfd[t][w] = Cur(t) /\ m.map = Cur(t).map /\ m.dat = Cur(t).dat
        /\ pc'[t] = "header"
        /\ loc'[t].cur = w /\ Handle(t, w)
    BY <1>1, <1>3, <1>7, <1>10 DEF Updated, Moved, Known, SnTypes
  <2> QED  BY <2>1, Zenon DEF Handle, SetupPc, MapPc
<1> QED  BY <1>6, <1>8, <1>9, <1>10, WorkedOK

(* And when it writes the header: from here on the map file is saved, and  *)
(* the handle knows what it says.                                          *)
LEMMA OpenSnHeaderOK == ASSUME Inv, NEW t \in Thread, OpenSnHeader(t) PROVE StepOK(t)
<1> DEFINE s == loc[t].lat
<1>1. /\ Known(t) /\ pc[t] = "header" /\ s \in Snap /\ Cur(t).map = s /\ Cur(t).cache = 0
      /\ map[s].st = "empty"
  BY Basics DEF OpenSnHeader, Known, Setup, MapPc, SetupPc
<1>2. /\ PcSet(t, "unlock") /\ UNCHANGED <<file, dat, sn, snPc, earliest, holder, req, loc, mfd>>
      /\ holder[FileLabel] = t /\ MfdSet(t, Cur(t))
  BY <1>1, GotoFacts, SameMfd DEF OpenSnHeader, snVars, Known, Locked, LockPc, PcLabel
<1>3. map[s] \in MapFile /\ Cur(t).hdr \in Header /\ map \in [Snap -> MapFile]
  BY <1>1 DEF Known, CurTypes, Types
<1>4. PICK f : f = [map[s] EXCEPT !.st = "saved", !.hdr = Cur(t).hdr]
  BY Zenon
<1>5. f \in MapFile /\ f.st = "saved" /\ f.hdr = Cur(t).hdr /\ f.ptr = map[s].ptr
  BY <1>3, <1>4, Zenon DEF MapFile
<1>6. map' = [map EXCEPT ![s] = f]
  BY <1>1, <1>4, Zenon DEF OpenSnHeader
<1>7. /\ map' \in [Snap -> MapFile] /\ MapKept /\ map'[s] = f /\ Unsaved'
  BY <1>1, <1>3, <1>5, <1>6 DEF Known, MapKept, Unsaved
<1>8. Works(t, "unlock", loc[t], Cur(t))
  BY <1>1, <1>2, <1>7, Zenon DEF Works, Known, CurTypes, Types, PcLabel
<1>9. Moved(t, "unlock", loc[t], Cur(t))
  BY <1>8, Worked
<1>10. Locked(t)' /\ Saving(t)'
  BY <1>2, <1>9 DEF Moved, Locked, Saving, SavePc, CopyPc, SnTypes
<1>11. Setup(t)'
  BY <1>1, <1>2, <1>9, Zenon DEF Moved, Setup, FreshPc, MapPc, SetupPc, Known, SnTypes
<1>12. ASSUME NEW w \in Which, w = loc[t].cur PROVE Handle(t, w)'
  <2>1. mfd'[t][w] = Cur(t) /\ pc'[t] = "unlock" /\ loc'[t].cur = w
    BY <1>9, <1>12 DEF Moved
  <2> QED  BY <1>1, <1>5, <1>7, <2>1, FdFacts, Zenon DEF Handle, SetupPc, MapPc
<1> QED  BY <1>7, <1>8, <1>10, <1>11, <1>12, WorkedOK, Zenon

(* mfd_open_sn has set up handle m: it has no map file, or one with a      *)
(* header, which it has cached.                                            *)
Ready(m) ==
    /\ m \in Mfd
    /\ \/ m.map = NOSN /\ m.dat = NOSN
       \/ /\ m.map \in Snap /\ (m.dat >= 0 => m.dat \in Snap)
          /\ map[m.map].st = "saved" /\ m.hdr = map[m.map].hdr /\ m.cache = 0

(* A handle whose set-up is complete may be used by what follows, be it    *)
(* b_write, the change itself or the end of an open.                       *)
LEMMA OpenedSnOK ==
    ASSUME Inv, NEW t \in Thread, NEW m, Ready(m), m.open = Cur(t).open,
           pc[t] \in {"lat", "dat"}, OpenedSn(t, m),
           UNCHANGED <<file, map, sn, snPc, earliest, holder, req>>,
           dat' \in [Snap -> DatFile]
    PROVE  StepOK(t)
<1> DEFINE saveFirst == /\ req[t].op = "create" /\ loc[t].cur = "fd"
                        /\ m.map >= 0 /\ m.hdr.exists
           truncating == /\ loc[t].cur = "tmp" /\ m.map # NOSN
                         /\ m.hdr.exists /\ file.exists
           c == IF saveFirst THEN "tmp" ELSE loc[t].cur
           l == IF saveFirst THEN "osn"
                ELSE IF req[t].op \in {"write", "ftruncate"} THEN "renum"
                ELSE IF truncating /\ MustSave(t, m) THEN "peek" ELSE "apply"
<1>1. Known(t) /\ m \in Mfd /\ loc[t].blk = req[t].lo
  BY Basics, Zenon DEF Known, Ready, Setup, SetupPc, FreshPc, MapPc
<1>2. PICK x : x = [loc[t] EXCEPT !.cur = c, !.lat = 0]
  BY Zenon
<1>3. x \in Local /\ x.cur = c /\ x.lat = 0 /\ x.blk = loc[t].blk
  <2>1. /\ c \in Which /\ 0 \in Nat /\ loc[t] \in Local
        /\ 0 \in 0 .. MaxSize /\ 0 \in 0 .. MaxSnap /\ Zero \in Value
    BY <1>1, FdFacts, ValueAssumption, Zenon DEF Known, ThreadTypes, CurTypes, Which
  <2> HIDE DEF c
  <2> QED  BY <1>2, <2>1, Zenon DEF Local
<1>4. loc' = [loc EXCEPT ![t] = x]
  BY <1>2, Zenon DEF OpenedSn
<1>5. MfdSet(t, m)
  BY <1>1, SetMfdFacts DEF OpenedSn, Known
<1>6. l \in PcLabel /\ PcSet(t, l)
  BY <1>1, GotoFacts DEF OpenedSn, PcLabel, Known
<1>7. sn.lat >= 0 /\ Unsaved'
  BY <1>1 DEF Known, Unsaved, Types
<1>8. CASE saveFirst
  <2>1. /\ pc'[t] = "osn" /\ loc'[t] = x /\ x.cur = "tmp" /\ Cur(t)' = NoMfd
        /\ mfd'[t].fd = m /\ mfd'[t].tmp = NoMfd /\ req'[t] = req[t]
        /\ mfd'[t]["fd"] = m /\ mfd'[t]["tmp"] = NoMfd /\ ~m.open
    BY <1>1, <1>3, <1>4, <1>5, <1>6, <1>8, Zenon
    DEF Known, Types, PcSet, MfdSet, Setup, Served, Cur
  <2>2. Types'
    BY <1>1, <1>3, <1>4, <1>5, <1>6, Zenon DEF Known, Types, PcSet, MfdSet
  <2>3. Frame(t)
    BY <1>4, <1>5, <1>6
    DEF ThreadTypes, Types, PcSet, MfdSet, Frame, OthersKept, FileKept, StartKept, MapKept
  <2>4. Locked(t)' /\ Saving(t)'
    BY <2>1 DEF Locked, LockPc, Saving, SavePc, CopyPc
  <2>5. Served(t)'
    <3>1. Served(t)
      BY <1>1, Zenon DEF Known
    <3> QED  BY <1>5, <1>6, <1>8, <2>1, <3>1, Zenon DEF Served, PcSet
  <2>6. Setup(t)'
    <3>1. NoMfd.map \notin Snap /\ x.lat <= sn.lat /\ sn' = sn
      BY <1>3, <1>7, FdFacts, Zenon DEF NoMfd
    <3> QED  BY <1>1, <1>3, <1>8, <2>1, <3>1, Zenon DEF Setup, SetupPc, FreshPc, MapPc
  <2>7. Handle(t, "fd")'
    BY <2>1, FdFacts DEF Handle, Ready
  <2>8. Handle(t, "tmp")'
    <3>1. NoMfd.map = NOSN /\ NoMfd.dat = NOSN
      BY Zenon DEF NoMfd
    <3> QED  BY <2>1, <3>1, FdFacts, Zenon DEF Handle
  <2> QED  BY <1>7, <2>2, <2>3, <2>4, <2>5, <2>6, <2>7, <2>8 DEF StepOK, ThreadInv, Which
<1>9. CASE ~saveFirst
  <2>1. Works(t, l, x, m) /\ l \in {"renum", "peek", "apply"}
    BY <1>1, <1>3, <1>4, <1>5, <1>6, <1>9, Zenon DEF Works, Known, Types, MapKept
  <2>2. Moved(t, l, x, m)
    BY <2>1, Worked, Zenon
  <2>3. Locked(t)'
    BY <2>2, Zenon DEF Moved, Locked, LockPc
  <2>4. Setup(t)'
    BY <1>1, <1>3, <1>7, <2>1, <2>2, Zenon DEF Known, Moved, Setup, FreshPc, MapPc, SetupPc
  <2>5. Saving(t)'
    <3>1. CASE l = "peek"
      <4>1. m.map # NOSN /\ MustSave(t, m)
        BY <3>1
      <4>2. m.map \in Snap /\ m.dat \in Snap /\ req[t].lo < SaveEnd(t, m)
        BY <4>1, Zenon DEF Ready, MustSave
      <4>3. SaveEnd(t, Cur(t))' = SaveEnd(t, m)
        BY <2>2 DEF Moved, SaveEnd
      <4> QED  BY <1>1, <1>3, <2>2, <4>2, <4>3, Zenon DEF Moved, Saving, CopyPc
    <3> QED  BY <2>2, <3>1, Zenon DEF Moved, Saving, SavePc, CopyPc
  <2>6. ASSUME NEW w \in Which, w = x.cur PROVE Handle(t, w)'
    <3>1. mfd'[t][w] = m /\ pc'[t] \notin SetupPc
      BY <2>1, <2>2, <2>6, Zenon DEF Moved, SetupPc, FreshPc, MapPc
    <3> QED  BY <3>1, FdFacts, Zenon DEF Handle, Ready
  <2> QED  BY <1>7, <2>1, <2>3, <2>4, <2>5, <2>6, WorkedOK
<1> QED  BY <1>8, <1>9

(* mfd_open_sn keeps the invariant when it asks for the latest snapshot    *)
(* and finds none, or one whose map file is to be opened.                  *)
LEMMA OpenSnLatestOK == ASSUME Inv, NEW t \in Thread, OpenSnLatest(t) PROVE StepOK(t)
<1>1. /\ Known(t) /\ pc[t] = "lat"
      /\ UNCHANGED <<file, map, dat, sn, snPc, earliest, holder, req>>
  BY Basics DEF OpenSnLatest, fileVars, snVars
<1>2. CASE sn.any
  <2>1. PICK x : x = [loc[t] EXCEPT !.lat = sn.lat]
    BY Zenon
  <2>2. x \in Local /\ x.cur = loc[t].cur /\ x.lat = sn.lat /\ x.blk = loc[t].blk
    <3>1. loc[t] \in Local /\ sn.lat \in 0 .. MaxSnap
      BY <1>1 DEF Known, SnTypes, ThreadTypes
    <3> QED  BY <2>1, <3>1, Zenon DEF Local
  <2>3. PcSet(t, "lock") /\ mfd' = mfd /\ loc' = [loc EXCEPT ![t] = x]
    BY <1>1, <1>2, <2>1, GotoFacts DEF OpenSnLatest, PcLabel, Known
  <2>4. Steady(t, "lock", x)
    BY <1>1, <2>2, <2>3 DEF Steady, Known, Types, PcLabel
  <2>5. Moved(t, "lock", x, Cur(t))
    BY <2>4, SteadyMoved
  <2>6. Locked(t)' /\ Saving(t)'
    BY <2>5 DEF Moved, Locked, LockPc, Saving, SavePc, CopyPc
  <2>7. Setup(t)'
    <3>1. /\ pc'[t] = "lock" /\ loc'[t] = x /\ req'[t] = req[t] /\ Cur(t)' = Cur(t) /\ sn' = sn
          /\ mfd'[t].tmp = IF x.cur = "tmp" THEN Cur(t) ELSE mfd[t].tmp
      BY <1>1, <2>5, Zenon DEF Moved
    <3>2. /\ Cur(t).map \notin Snap /\ Cur(t).cache = 0 /\ loc[t].blk = req[t].lo
          /\ req[t].op \in {"write", "ftruncate"} => loc[t].cur = "fd"
          /\ loc[t].cur = "fd" => mfd[t].tmp = NoMfd
      BY <1>1, Zenon DEF Known, Setup, FreshPc, SetupPc
    <3>3. sn.lat \in Snap /\ sn.lat <= sn.lat
      BY <1>1, <1>2 DEF Known, SnTypes
    <3>4. x.cur = "fd" => mfd'[t].tmp = NoMfd
      BY <2>2, <3>1, <3>2, Zenon
    <3> QED  BY <2>2, <3>1, <3>2, <3>3, <3>4, Zenon DEF Setup, FreshPc, MapPc, SetupPc
  <2> QED  BY <1>1, <2>4, <2>6, <2>7, SteadyOK DEF SetupPc, FreshPc
<1>3. CASE ~sn.any
  <2>1. PICK m : OpenedSn(t, m) /\ m = [Cur(t) EXCEPT !.map = NOSN, !.dat = NOSN]
    BY <1>3, Zenon DEF OpenSnLatest
  <2>2. Updated(m, Cur(t), Cur(t).num, NOSN, NOSN, Cur(t).hdr, Cur(t).cache)
    <3>1. NOSN \in Fd
      BY FdFacts
    <3> QED  BY <1>1, <2>1, <3>1, Updates, Zenon DEF Known, CurTypes
  <2>3. Ready(m) /\ m.open = Cur(t).open
    BY <2>2 DEF Updated, Ready
  <2> QED  BY <1>1, <2>1, <2>3, OpenedSnOK, Zenon DEF Known, ThreadTypes, Types
<1> QED  BY <1>2, <1>3

(* And when it opens the dat file, unless the file was empty or did not    *)
(* exist.                                                                  *)
LEMMA OpenSnDatOK == ASSUME Inv, NEW t \in Thread, OpenSnDat(t) PROVE StepOK(t)
<1> DEFINE h == Cur(t).hdr
           d == IF ~h.exists THEN ENOENT ELSE IF h.size = 0 THEN ZLEN ELSE sn.lat
<1>1. /\ Known(t) /\ pc[t] = "dat"
      /\ UNCHANGED <<file, map, sn, snPc, earliest, holder, req>>
  BY Basics DEF OpenSnDat, snVars
<1>2. sn.lat \in Snap /\ Cur(t).map \in Snap /\ Cur(t).cache = 0
  <2>1. /\ loc[t].lat \in Snap /\ loc[t].lat <= sn.lat /\ sn.lat \in 0 .. MaxSnap
        /\ Cur(t).map = loc[t].lat /\ Cur(t).cache = 0
    BY <1>1, Zenon DEF Known, SnTypes, Setup, SetupPc, MapPc
  <2> QED  BY <2>1 DEF Snap
<1>3. d \in Fd /\ (d >= 0 => d \in Snap)
  <2>1. d \in {ENOENT, ZLEN, sn.lat}
    OBVIOUS
  <2> HIDE DEF d
  <2> QED  BY <1>2, <2>1, FdFacts
<1>4. PICK m : OpenedSn(t, m) /\ m = [Cur(t) EXCEPT !.dat = d]
  BY Zenon DEF OpenSnDat
<1>5. Updated(m, Cur(t), Cur(t).num, Cur(t).map, d, Cur(t).hdr, Cur(t).cache)
  <2> HIDE DEF d
  <2> QED  BY <1>1, <1>3, <1>4, Updates, Zenon DEF Known, ThreadTypes, CurTypes
<1>6. dat' \in [Snap -> DatFile]
  <2>1. dat' = IF d \in Snap THEN [dat EXCEPT ![d].made = TRUE] ELSE dat
    BY Zenon DEF OpenSnDat
  <2> HIDE DEF d
  <2> QED  BY <1>1, <2>1, Zenon DEF Known, Types, DatFile
<1>7. /\ map[Cur(t).map].st = "saved" /\ Cur(t).hdr = map[Cur(t).map].hdr
  <2>1. PICK w \in Which : w = loc[t].cur /\ mfd[t][w] = Cur(t) /\ Handle(t, w)
    BY <1>1, Zenon DEF Known, CurTypes
  <2> QED  BY <1>1, <1>2, <2>1, Zenon DEF Handle
<1>8. Ready(m) /\ m.open = Cur(t).open
  BY <1>2, <1>3, <1>5, <1>7, Zenon DEF Updated, Ready
<1> QED  BY <1>1, <1>4, <1>6, <1>8, OpenedSnOK, Zenon

(* A valid handle whose blocks must be saved has a map and a dat file, or  *)
(* has lost them.                                                          *)
LEMMA MustSaveFacts ==
    ASSUME Inv, NEW t \in Thread, pc[t] \notin SetupPc, MustSave(t, Cur(t))
    PROVE  /\ req[t].lo < SaveEnd(t, Cur(t))
           /\ Cur(t).map = Closed \/ (Cur(t).map \in Snap /\ Cur(t).dat \in Snap)
<1>1. Known(t)
  BY Basics, Zenon
<1>2. PICK w \in Which : w = loc[t].cur /\ mfd[t][w] = Cur(t) /\ Handle(t, w)
  BY <1>1, Zenon DEF Known, CurTypes
<1> QED  BY <1>2, FdFacts, Zenon DEF Handle, MustSave, CurTypes

(* mfd_validate keeps the invariant when it finds the handle as new as the *)
(* snapshots, or drops a stale one.                                        *)
LEMMA ValidateOK == ASSUME Inv, NEW t \in Thread, Validate(t) PROVE StepOK(t)
<1> DEFINE l == IF MustSave(t, Cur(t)) THEN "peek" ELSE "apply"
<1>1. /\ Known(t) /\ pc[t] = "validate" /\ mfd[t].fd = Cur(t)
      /\ UNCHANGED <<file, map, dat, sn, snPc, earliest, holder, req, loc>>
  BY Basics DEF Validate, fileVars, snVars, Known, CurTypes, Setup
<1>2. CASE Cur(t).num = sn.number
  <2>1. l \in PcLabel /\ PcSet(t, l) /\ mfd' = mfd
    BY <1>1, <1>2, GotoFacts DEF Validate, PcLabel, Known
  <2>2. Steady(t, l, loc[t])
    BY <1>1, <2>1 DEF Steady, Known, Types
  <2>3. Moved(t, l, loc[t], Cur(t)) /\ SaveEnd(t, Cur(t))' = SaveEnd(t, Cur(t))
    <3>1. Moved(t, l, loc[t], Cur(t))
      BY <2>2, SteadyMoved, Zenon
    <3> HIDE DEF l
    <3>2. Cur(t)' = Cur(t) /\ req'[t] = req[t]
      BY <3>1 DEF Moved
    <3> QED  BY <3>1, <3>2 DEF SaveEnd
  <2>4. Locked(t)' /\ Saving(t)'
    BY <1>1, <2>3, MustSaveFacts, Zenon
    DEF Moved, Locked, LockPc, Saving, SavePc, CopyPc, Known, SnTypes, Setup, SetupPc,
        FreshPc, MapPc
  <2>5. Setup(t)'
    BY <1>1, <2>3, Zenon DEF Moved, Setup, FreshPc, MapPc, SetupPc, Known
  <2> QED  BY <1>1, <2>2, <2>4, <2>5, SteadyOK DEF SetupPc, FreshPc, MapPc
<1>3. CASE Cur(t).num # sn.number
  <2> DEFINE closed(fd) == IF fd >= 0 THEN Closed ELSE fd
             a == closed(Cur(t).map)
             d == closed(Cur(t).dat)
  <2>1. PICK m : SetMfd(t, m) /\ m = [Cur(t) EXCEPT !.map = a, !.dat = d]
    <3>1. SetMfd(t, ClosedSn(mfd[t].fd))
      BY <1>1, <1>3, Zenon DEF Validate
    <3> QED  BY <1>1, <3>1, Zenon DEF ClosedSn
  <2>2. /\ a \in Fd /\ d \in Fd /\ a \notin Snap /\ PcSet(t, "osn") /\ a \in {NOSN, Closed}
        /\ a = NOSN => d = NOSN
    <3>1. Cur(t).map \in Snap \cup {NOSN, Closed} /\ (Cur(t).map = NOSN => Cur(t).dat = NOSN)
      <4>1. Handle(t, "fd") /\ mfd[t]["fd"] = Cur(t)
        BY <1>1 DEF Known, Which
      <4> QED  BY <4>1, Zenon DEF Handle
    <3>2. PcSet(t, "osn")
      BY <1>1, <1>3, GotoFacts, Zenon DEF Validate, Known, SnTypes, PcLabel
    <3>3. Cur(t).map \in Fd /\ Cur(t).dat \in Fd
      BY <1>1, Zenon DEF Known, CurTypes
    <3>4. \A f \in Fd : /\ closed(f) \in Fd \ Snap /\ (f = NOSN => closed(f) = NOSN)
                        /\ f \in Snap \cup {Closed} => closed(f) = Closed
      BY FdFacts
    <3>5. Closed # NOSN
      BY FdFacts
    <3> HIDE DEF closed
    <3> QED  BY <3>1, <3>2, <3>3, <3>4, <3>5
  <2>3. Updated(m, Cur(t), Cur(t).num, a, d, Cur(t).hdr, Cur(t).cache)
    <3> HIDE DEF a, d
    <3> QED  BY <1>1, <2>1, <2>2, Updates, Zenon DEF Known, CurTypes
  <2>4. MfdSet(t, m)
    BY <1>1, <2>1, <2>3, SetMfdFacts, Zenon DEF Known, Updated
  <2>5. Works(t, "osn", loc[t], m)
    BY <1>1, <2>2, <2>3, <2>4, Zenon DEF Works, Known, SnTypes, Types, Updated, PcLabel, MapKept
  <2>6. Moved(t, "osn", loc[t], m)
    BY <2>5, Worked, Zenon
  <2>7. Locked(t)' /\ Saving(t)' /\ Unsaved'
    BY <1>1, <2>6, Zenon DEF Moved, Locked, LockPc, Saving, SavePc, CopyPc, Unsaved, Known, SnTypes
  <2>8. Setup(t)'
    BY <1>1, <2>2, <2>3, <2>6, Zenon DEF Moved, Setup, MapPc, Known, Updated
  <2>9. ASSUME NEW w \in Which, w = loc[t].cur PROVE Handle(t, w)'
    <3>1. mfd'[t][w] = m /\ m.map = a /\ m.dat = d /\ pc'[t] = "osn" /\ loc'[t].cur = w
      BY <2>3, <2>6, <2>9 DEF Updated, Moved
    <3> QED  BY <2>2, <3>1, Zenon DEF Handle
  <2> QED  BY <2>5, <2>7, <2>8, <2>9, WorkedOK
<1> QED  BY <1>2, <1>3

(* And when the files of the handle were closed before: the request fails. *)
LEMMA ValidateFailsOK == ASSUME Inv, NEW t \in Thread, ValidateFails(t) PROVE StepOK(t)
<1>1. /\ Known(t) /\ pc[t] = "validate" /\ Return(t)
      /\ UNCHANGED <<file, map, dat, sn, snPc, earliest, holder>>
      /\ Handles(t, ClosedSn(mfd[t].fd))
  BY Basics DEF ValidateFails, fileVars, snVars
<1>2. PICK h : Handles(t, h) /\ h = ClosedSn(mfd[t].fd)
  BY <1>1, Zenon
<1>3. h \in Mfd /\ h.open = mfd[t].fd.open /\ Valid(h)
  <2>1. mfd[t].fd \in Mfd /\ Handle(t, "fd") /\ mfd[t]["fd"] = mfd[t].fd
    BY <1>1, Zenon DEF Known, ThreadTypes, Which
  <2>2. mfd[t].fd.map \in Snap \cup {NOSN, Closed} /\ (mfd[t].fd.map = NOSN => mfd[t].fd.dat = NOSN)
    BY <2>1, Zenon DEF Handle
  <2> QED  BY <1>2, <2>1, <2>2, ClosedHandle, Zenon
<1>4. pc[t] # "idle"
  BY <1>1
<1>5. Ends(t, h)
  BY <1>1, <1>2, <1>3, <1>4, Zenon DEF Ends, Known, Types, FileKept, MapKept, Unsaved, Served
<1> QED  BY <1>5, EndsOK

(* And when it stamps the handle with the new number.                      *)
LEMMA ValidatedOK == ASSUME Inv, NEW t \in Thread, Validated(t) PROVE StepOK(t)
<1> DEFINE l == IF MustSave(t, Cur(t)) THEN "peek" ELSE "apply"
<1>1. /\ Known(t) /\ pc[t] = "renum"
      /\ UNCHANGED <<file, map, dat, sn, snPc, earliest, holder, req, loc>>
  BY Basics DEF Validated, fileVars, snVars
<1>2. PICK m : SetMfd(t, m) /\ m = [Cur(t) EXCEPT !.num = sn.number]
  BY Zenon DEF Validated
<1>3. Updated(m, Cur(t), sn.number, Cur(t).map, Cur(t).dat, Cur(t).hdr, Cur(t).cache)
  BY <1>1, <1>2, Updates, Zenon DEF Known, SnTypes, CurTypes
<1>4. MfdSet(t, m)
  BY <1>1, <1>2, <1>3, SetMfdFacts DEF Known, SnTypes, Updated
<1>5. l \in PcLabel \ {"idle"} /\ PcSet(t, l)
  BY <1>1, GotoFacts DEF Validated, PcLabel, Known
<1>6. Works(t, l, loc[t], m)
  BY <1>1, <1>3, <1>4, <1>5, Zenon DEF Works, Known, Types, Updated, MapKept
<1>7. Moved(t, l, loc[t], m) /\ SaveEnd(t, Cur(t))' = SaveEnd(t, Cur(t))
  <2>1. Moved(t, l, loc[t], m)
    BY <1>6, Worked, Zenon
  <2> HIDE DEF l
  <2>2. Cur(t)'.hdr = Cur(t).hdr /\ req'[t] = req[t]
    BY <1>3, <2>1, Zenon DEF Moved, Updated
  <2> QED  BY <2>1, <2>2 DEF SaveEnd
<1>8. Locked(t)' /\ Saving(t)' /\ Unsaved'
  BY <1>1, <1>3, <1>7, MustSaveFacts, Zenon
  DEF Moved, Updated, Locked, LockPc, Saving, SavePc, CopyPc, Known, Setup, SetupPc, FreshPc,
      MapPc, Unsaved
<1>9. Setup(t)'
  BY <1>1, <1>7, Zenon DEF Moved, Setup, FreshPc, MapPc, SetupPc, Known
<1>10. ASSUME NEW w \in Which, w = loc[t].cur PROVE Handle(t, w)'
  <2>1. /\ mfd'[t][w] = m /\ mfd[t][w] = Cur(t) /\ pc'[t] = l /\ loc'[t].cur = w /\ Handle(t, w)
    BY <1>1, <1>7, <1>10, Zenon DEF Moved, Known
  <2>2. \A x \in {"renum", "peek", "apply"} : x \notin SetupPc /\ x \notin {"stat", "header"}
    BY DEF SetupPc, FreshPc, MapPc
  <2>3. l \in {"peek", "apply"}
    BY Zenon
  <2> HIDE DEF l
  <2>4. ~(loc[t].cur = w /\ pc[t] \in SetupPc) /\ ~(loc[t].cur = w /\ pc[t] \in {"stat", "header"})
    BY <1>1, <2>2, Zenon
  <2>5. /\ m.map = Cur(t).map /\ m.dat = Cur(t).dat /\ m.hdr = Cur(t).hdr
        /\ m.cache = Cur(t).cache /\ map' = map
    BY <1>1, <1>3, Zenon DEF Updated
  <2> QED  BY <2>1, <2>4, <2>5, Zenon DEF Handle
<1> QED  BY <1>6, <1>8, <1>9, <1>10, WorkedOK
(* The map file that thread t has just created goes again.                 *)
LEMMA MapRemoved ==
    ASSUME Inv, NEW t \in Thread, pc[t] \in {"stat", "header"},
           map' = [map EXCEPT ![loc[t].lat] = NoMap]
    PROVE  /\ map' \in [Snap -> MapFile] /\ MapKept /\ Unsaved' /\ holder[FileLabel] = t
<1> DEFINE s == loc[t].lat
<1>1. Known(t) /\ s \in Snap /\ map[s].st = "empty" /\ holder[FileLabel] = t
  BY Basics, Zenon DEF Known, Setup, MapPc, Locked, LockPc
<1>2. \A b \in Block : map[s].ptr[b] = 0
  BY <1>1 DEF Known, Unsaved
<1>3. NoMap \in MapFile /\ NoMap.st = "none" /\ \A b \in Block : NoMap.ptr[b] = 0
  BY Constants DEF NoMap
<1>4. map' \in [Snap -> MapFile] /\ map'[s] = NoMap /\ \A k \in Snap : k # s => map'[k] = map[k]
  BY <1>1, <1>3, Zenon DEF Known, Types
<1>5. MapKept
  BY <1>1, <1>2 DEF MapKept
<1>6. Unsaved'
  BY <1>1, <1>3 DEF Known, Unsaved
<1> QED  BY <1>1, <1>4, <1>5, <1>6

(* The handle after the set-up failed: an open one is stale, or as before. *)
LEMMA StaleHandle ==
    ASSUME Inv, NEW t \in Thread, NEW h,
           \/ loc[t].cur = "fd" /\ h = [mfd[t].fd EXCEPT !.map = Closed]
           \/ loc[t].cur # "fd" /\ h = mfd[t].fd
           \/ pc[t] \in {"lock", "map"} /\ h = mfd[t].fd
    PROVE  h \in Mfd /\ h.open = mfd[t].fd.open /\ Valid(h)
<1>1. Known(t) /\ Handle(t, "fd") /\ mfd[t]["fd"] = mfd[t].fd /\ mfd[t].fd \in Mfd
  BY Basics DEF Known, ThreadTypes, Which
<1>2. CASE h = [mfd[t].fd EXCEPT !.map = Closed]
  <2>1. Closed \in Fd /\ Closed \notin Snap /\ Closed # NOSN
    BY FdFacts
  <2>2. h \in Mfd /\ h.open = mfd[t].fd.open /\ h.map = Closed
    BY <1>1, <1>2, <2>1, Zenon DEF Mfd
  <2> QED  BY <2>1, <2>2 DEF Valid
<1>3. CASE loc[t].cur # "fd" /\ h = mfd[t].fd
  BY <1>1, <1>3, FdValid
<1>4. CASE loc[t].cur = "fd" /\ pc[t] \in {"lock", "map"} /\ h = mfd[t].fd
  <2>1. Cur(t) = mfd[t].fd /\ Cur(t).map \notin Snap
    BY <1>1, <1>4 DEF Known, CurTypes, Setup, FreshPc
  <2> QED  BY <1>1, <1>4, <2>1, Zenon DEF Handle, Valid
<1> QED  BY <1>2, <1>3, <1>4

(* A failing call in mfd_open_sn keeps the invariant: an open handle is    *)
(* left stale, one being opened is dropped, and the lock is released.      *)
LEMMA OpenSnErrorOK == ASSUME Inv, NEW t \in Thread, OpenSnError(t) PROVE StepOK(t)
<1> DEFINE created == pc[t] \in {"stat", "header"}
<1>1. /\ Known(t) /\ pc[t] \in {"lock", "map", "stat", "header", "dat"}
      /\ Return(t) /\ ReleaseIfHeld(t) /\ UNCHANGED <<file, dat, sn, snPc, earliest>>
      /\ map' = IF created THEN [map EXCEPT ![loc[t].lat] = NoMap] ELSE map
  BY Basics DEF OpenSnError, snVars
<1>2. PICK h : /\ Handles(t, h)
               /\ \/ loc[t].cur = "fd" /\ h = [mfd[t].fd EXCEPT !.map = Closed]
                  \/ loc[t].cur # "fd" /\ h = mfd[t].fd
                  \/ pc[t] \in {"lock", "map"} /\ h = mfd[t].fd
  <2>1. PICK o : /\ Handles(t, IF o /\ loc[t].cur = "fd" THEN [mfd[t].fd EXCEPT !.map = Closed]
                                ELSE mfd[t].fd)
                 /\ created \/ pc[t] = "dat" => o = TRUE
    BY Zenon DEF OpenSnError
  <2>2. CASE o /\ loc[t].cur = "fd"
    BY <2>1, <2>2, Zenon
  <2>3. CASE ~(o /\ loc[t].cur = "fd")
    <3>1. Handles(t, mfd[t].fd)
      BY <2>1, <2>3, Zenon
    <3>2. loc[t].cur # "fd" \/ pc[t] \in {"lock", "map"}
      BY <1>1, <2>1, <2>3, Zenon
    <3> QED  BY <3>1, <3>2, Zenon
  <2> QED  BY <2>2, <2>3
<1>3. h \in Mfd /\ h.open = mfd[t].fd.open /\ Valid(h)
  BY <1>1, <1>2, StaleHandle, Zenon
<1>4. map' \in [Snap -> MapFile] /\ MapKept /\ Unsaved' /\ (holder[FileLabel] # t => map' = map)
  <2>1. CASE created
    BY <1>1, <2>1, MapRemoved, Zenon
  <2>2. CASE ~created
    BY <1>1, <2>2, Zenon DEF Known, SnTypes, Types, MapKept, Unsaved
  <2> QED  BY <2>1, <2>2
<1>5. Ends(t, h)
  BY <1>1, <1>2, <1>3, <1>4, ReleaseFacts DEF Ends, Known, SnTypes, Types, FileKept, Served
<1> QED  BY <1>5, EndsOK

(* And so when the map file has no header, because the process died while  *)
(* creating it.                                                            *)
LEMMA OpenSnNoHeaderOK == ASSUME Inv, NEW t \in Thread, OpenSnNoHeader(t) PROVE StepOK(t)
<1>1. /\ Known(t) /\ pc[t] = "map" /\ Return(t)
      /\ UNCHANGED <<file, map, dat, sn, snPc, earliest>>
  BY Basics DEF OpenSnNoHeader, fileVars, snVars
<1>2. ReleaseIfHeld(t)
  BY DEF OpenSnNoHeader, ReleaseIfHeld, Lock!Release
<1>3. PICK h : /\ Handles(t, h)
               /\ h = IF loc[t].cur = "fd" THEN [mfd[t].fd EXCEPT !.map = Closed]
                      ELSE mfd[t].fd
  BY Zenon DEF OpenSnNoHeader
<1>4. h \in Mfd /\ h.open = mfd[t].fd.open /\ Valid(h)
  BY <1>1, <1>3, StaleHandle, Zenon
<1> QED  BY <1>1, <1>2, <1>3, <1>4, QuietEnd, Zenon

(* And so when the main file turns out to be a directory.                  *)
LEMMA OpenSnIsDirOK == ASSUME Inv, NEW t \in Thread, OpenSnIsDir(t) PROVE StepOK(t)
<1>1. /\ Known(t) /\ pc[t] = "stat" /\ ~file.exists /\ Return(t)
      /\ UNCHANGED <<file, dat, sn, snPc, earliest>>
      /\ map' = [map EXCEPT ![loc[t].lat] = NoMap]
  BY Basics DEF OpenSnIsDir, Fail, snVars
<1>2. ReleaseIfHeld(t)
  BY DEF OpenSnIsDir, ReleaseIfHeld, Lock!Release
<1>3. PICK h : Handles(t, h) /\ h = mfd[t].fd
  BY DEF OpenSnIsDir, Fail
<1>4. h \in Mfd /\ ~h.open
  BY <1>1, <1>3, Zenon DEF Known, ThreadTypes, Served
<1>5. map' \in [Snap -> MapFile] /\ MapKept /\ Unsaved' /\ holder[FileLabel] = t
  BY <1>1, MapRemoved, Zenon
<1>6. Ends(t, h)
  BY <1>1, <1>2, <1>3, <1>4, <1>5, ReleaseFacts, Zenon DEF Ends, Known, Types, FileKept
<1> QED  BY <1>6, EndsOK
-----------------------------------------------------------------------------
(* mfd_open_sn keeps the snapshots intact when it starts, and stamps the   *)
(* handle with the number of the latest snapshot.                          *)
LEMMA OpenSnBeginIntact ==
    ASSUME Inv, Intact, NEW t \in Thread, OpenSnBegin(t) PROVE Intact'
<1>1. Known(t) /\ StepOK(t) /\ pc[t] = "osn"
  BY Basics, OpenSnBeginOK, Zenon DEF OpenSnBegin
<1>2. PICK m : SetMfd(t, m) /\ m = [Cur(t) EXCEPT !.num = sn.number, !.cache = 0]
  BY Zenon DEF OpenSnBegin
<1>3. m \in Mfd /\ m.num = sn.number
  <2>1. Cur(t) \in Mfd /\ sn.number \in 0 .. MaxSnap /\ 0 \in 0 .. MaxSize
    BY <1>1, FdFacts, Zenon DEF Known, CurTypes, SnTypes
  <2> QED  BY <1>2, <2>1, Zenon DEF Mfd
<1>4. PcSet(t, "lat") /\ MfdSet(t, m)
  BY <1>1, <1>2, <1>3, GotoFacts, SetMfdFacts, Zenon DEF OpenSnBegin, PcLabel, Known
<1>5. req' = req /\ loc' = loc /\ file' = file /\ Calm
  BY DEF OpenSnBegin, Calm, fileVars, snVars
<1>6. Went(t, "lat", loc[t], m)
  BY <1>1, <1>4, <1>5, WentTo, SameLoc, Zenon DEF Known
<1>7. Keeps(t) /\ DatKept
  BY <1>1, <1>5, CalmKeeps, Zenon DEF StepOK
<1> QED  BY <1>1, <1>3, <1>5, <1>6, <1>7, SetupIntact, Zenon DEF SetupPc, FreshPc, MapPc

(* And when it takes the file's lock.                                      *)
LEMMA OpenSnLockIntact ==
    ASSUME Inv, Intact, NEW t \in Thread, OpenSnLock(t) PROVE Intact'
<1>1. Known(t) /\ StepOK(t) /\ pc[t] = "lock" /\ pc[t] \in SetupPc
  BY Basics, OpenSnLockOK DEF OpenSnLock, SetupPc, FreshPc
<1>2. req' = req /\ loc' = loc /\ mfd' = mfd /\ file' = file /\ Calm
  BY DEF OpenSnLock, Calm, fileVars, snVars
<1>3. PcSet(t, "map")
  BY <1>1, GotoFacts DEF OpenSnLock, PcLabel, Known
<1>4. Went(t, "map", loc[t], Cur(t))
  BY <1>1, <1>2, <1>3, WentTo, SameLoc, SameMfd, Zenon DEF Known
<1>5. Keeps(t) /\ DatKept
  BY <1>1, <1>2, CalmKeeps DEF StepOK
<1>6. (loc[t].cur = "fd" => Cur(t).num = sn.number) /\ loc[t].lat = sn.lat
  BY <1>1, Zenon DEF Intact, Handled
<1> QED  BY <1>1, <1>2, <1>4, <1>5, <1>6, SetupIntact, Zenon DEF SetupPc, FreshPc

(* And when it releases it.                                                *)
LEMMA OpenSnUnlockIntact ==
    ASSUME Inv, Intact, NEW t \in Thread, OpenSnUnlock(t) PROVE Intact'
<1>1. Known(t) /\ StepOK(t) /\ pc[t] = "unlock" /\ pc[t] \in SetupPc
  BY Basics, OpenSnUnlockOK DEF OpenSnUnlock, SetupPc, MapPc
<1>2. req' = req /\ loc' = loc /\ mfd' = mfd /\ file' = file /\ Calm
  BY DEF OpenSnUnlock, Calm, fileVars, snVars
<1>3. PcSet(t, "dat")
  BY <1>1, GotoFacts DEF OpenSnUnlock, PcLabel, Known
<1>4. Went(t, "dat", loc[t], Cur(t))
  BY <1>1, <1>2, <1>3, WentTo, SameLoc, SameMfd, Zenon DEF Known
<1>5. Keeps(t) /\ DatKept
  BY <1>1, <1>2, CalmKeeps DEF StepOK
<1>6. (loc[t].cur = "fd" => Cur(t).num = sn.number) /\ loc[t].lat = sn.lat
  BY <1>1, Zenon DEF Intact, Handled, MapPc
<1> QED  BY <1>1, <1>2, <1>4, <1>5, <1>6, SetupIntact, Zenon DEF SetupPc, MapPc

(* A step that writes no pointer, and only to the header of the latest     *)
(* snapshot's map file.                                                    *)
LEMMA HeaderKeeps ==
    ASSUME Inv, Intact, NEW t \in Thread, Frame(t), pc[t] # "idle",
           UNCHANGED <<file, dat, taken>>,
           \A k \in Snap : k # sn.lat => map'[k] = map[k],
           Remains => LinkedHeader(sn.lat)',
           \A b \in Block : map'[sn.lat].ptr[b] = map[sn.lat].ptr[b]
    PROVE  Keeps(t) /\ DatKept
<1>1. sn' = sn /\ earliest' = earliest /\ snPc # "number"
  BY DEF Frame, Intact, Disk, AllIdle
<1>2. Remains => Linked(sn.lat)'
  <2> SUFFICES ASSUME Remains PROVE Linked(sn.lat)'
    OBVIOUS
  <2>1. Linked(sn.lat) /\ sn.lat \in Snap
    BY LatestFacts, Zenon
  <2>2. ASSUME NEW b \in Block, b < taken[sn.lat].size PROVE LinkedBlock(sn.lat, b)'
    <3>1. LinkedBlock(sn.lat, b)
      BY <2>1, <2>2, Zenon DEF Linked
    <3> QED  BY <1>1, <3>1, Zenon DEF LinkedBlock, After
  <2> QED  BY <1>1, <2>2 DEF Linked
<1>3. \A s \in Snap : dat'[s].blk = dat[s].blk
  BY Zenon
<1> QED  BY <1>1, <1>2, <1>3, Zenon DEF Keeps, Intact, Disk, DatKept

(* mfd_open_sn keeps the snapshots intact when it opens the map file, or   *)
(* makes an empty one.                                                     *)
LEMMA OpenSnMapIntact ==
    ASSUME Inv, Intact, NEW t \in Thread, OpenSnMap(t) PROVE Intact'
<1>1. /\ Known(t) /\ StepOK(t) /\ pc[t] = "map" /\ pc[t] \in SetupPc
      /\ loc[t].lat \in Snap /\ loc[t].lat \in Fd
  BY Basics, OpenSnMapOK, FdFacts, Zenon DEF OpenSnMap, SetupPc, FreshPc, Known, Setup
<1>2. req' = req /\ loc' = loc /\ UNCHANGED <<file, dat, taken>>
  BY DEF OpenSnMap, snVars
<1>3. (loc[t].cur = "fd" => Cur(t).num = sn.number) /\ loc[t].lat = sn.lat
  BY <1>1, Zenon DEF Intact, Handled
<1>4. CASE map[loc[t].lat].st = "none"
  <2>1. PICK m : SetMfd(t, m) /\ m = [Cur(t) EXCEPT !.map = loc[t].lat]
    BY <1>4, Zenon DEF OpenSnMap
  <2>2. m \in Mfd /\ m.num = Cur(t).num
    <3>1. Cur(t) \in Mfd
      BY <1>1, Zenon DEF Known, CurTypes
    <3> QED  BY <1>1, <2>1, <3>1, Zenon DEF Mfd
  <2>3. /\ PcSet(t, "stat") /\ MfdSet(t, m) /\ map' = [map EXCEPT ![loc[t].lat].st = "empty"]
    BY <1>1, <1>4, <2>1, <2>2, GotoFacts, SetMfdFacts, Zenon DEF OpenSnMap, PcLabel, Known
  <2>4. Went(t, "stat", loc[t], m)
    BY <1>1, <1>2, <2>3, WentTo, SameLoc DEF Known
  <2>5. /\ \A k \in Snap : k # sn.lat => map'[k] = map[k]
        /\ map'[sn.lat].st = "empty" /\ map'[sn.lat].ptr = map[sn.lat].ptr
    BY <1>1, <1>3, <2>3 DEF Known, Types, MapFile
  <2>6. Remains => LinkedHeader(sn.lat)'
    <3> SUFFICES ASSUME Remains PROVE LinkedHeader(sn.lat)'
      OBVIOUS
    <3>1. Attr(After(sn.lat)) = Attr(taken[sn.lat]) /\ After(sn.lat) = file
      BY <1>3, <1>4, LatestFacts, Zenon DEF Linked, LinkedHeader
    <3>2. sn' = sn /\ After(sn.lat)' = file /\ taken' = taken
      BY <1>1, <1>2, Zenon DEF StepOK, Frame, After
    <3> QED  BY <2>5, <3>1, <3>2 DEF LinkedHeader
  <2>7. Keeps(t) /\ DatKept
    BY <1>1, <1>2, <2>5, <2>6, HeaderKeeps, Zenon DEF StepOK
  <2> QED  BY <1>1, <1>2, <1>3, <2>2, <2>4, <2>7, SetupIntact, Zenon DEF SetupPc, MapPc
<1>5. CASE map[loc[t].lat].st = "saved"
  <2>1. PICK m : /\ SetMfd(t, m)
                 /\ m = [Cur(t) EXCEPT !.map = loc[t].lat, !.hdr = map[loc[t].lat].hdr]
    BY <1>5, Zenon DEF OpenSnMap
  <2>2. m \in Mfd /\ m.num = Cur(t).num
    <3>1. Cur(t) \in Mfd /\ map[loc[t].lat].hdr \in Header
      BY <1>1 DEF Known, CurTypes, Types, MapFile
    <3> QED  BY <1>1, <2>1, <3>1, Zenon DEF Mfd
  <2>3. PcSet(t, "unlock") /\ MfdSet(t, m) /\ map' = map
    BY <1>1, <1>5, <2>1, <2>2, GotoFacts, SetMfdFacts, Zenon DEF OpenSnMap, PcLabel, Known
  <2>4. Went(t, "unlock", loc[t], m)
    BY <1>1, <1>2, <2>3, WentTo, SameLoc DEF Known
  <2>5. Calm
    BY <1>2, <2>3 DEF Calm
  <2>6. Keeps(t) /\ DatKept
    BY <1>1, <2>5, CalmKeeps DEF StepOK
  <2> QED  BY <1>1, <1>2, <1>3, <2>2, <2>4, <2>6, SetupIntact, Zenon DEF SetupPc, MapPc
<1>6. map[loc[t].lat].st \in {"none", "saved"}
  BY <1>1 DEF OpenSnMap, Known, Types, MapFile
<1> QED  BY <1>4, <1>5, <1>6

(* And when it reads the attributes: as the header has not been saved,     *)
(* they are still those of the snapshot.                                   *)
LEMMA OpenSnStatIntact ==
    ASSUME Inv, Intact, NEW t \in Thread, OpenSnStat(t) PROVE Intact'
<1>1. /\ Known(t) /\ StepOK(t) /\ pc[t] = "stat" /\ pc[t] \in SetupPc
      /\ map[loc[t].lat].st = "empty"
  BY Basics, OpenSnStatOK DEF OpenSnStat, SetupPc, MapPc, Known, Setup
<1>2. req' = req /\ loc' = loc /\ file' = file /\ Calm
  BY DEF OpenSnStat, Calm, fileVars, snVars
<1>3. (loc[t].cur = "fd" => Cur(t).num = sn.number) /\ loc[t].lat = sn.lat
  BY <1>1, Zenon DEF Intact, Handled, MapPc
<1>4. PICK h : h = Attr(file)
  BY Zenon
<1>5. h \in Header
  BY <1>1, <1>4 DEF Attr, Header, File, Known, Types
<1>6. PICK m : SetMfd(t, m) /\ m = [Cur(t) EXCEPT !.hdr = h]
  BY <1>4, Zenon DEF OpenSnStat, Attr
<1>7. m \in Mfd /\ m.num = Cur(t).num /\ m.hdr = h
  <2>1. Cur(t) \in Mfd
    BY <1>1, Zenon DEF Known, CurTypes
  <2> QED  BY <1>5, <1>6, <2>1, Zenon DEF Mfd
<1>8. PcSet(t, "header") /\ MfdSet(t, m)
  BY <1>1, <1>6, <1>7, GotoFacts, SetMfdFacts, Zenon DEF OpenSnStat, PcLabel, Known
<1>9. Went(t, "header", loc[t], m)
  BY <1>1, <1>2, <1>8, WentTo, SameLoc DEF Known
<1>10. Keeps(t) /\ DatKept
  BY <1>1, <1>2, CalmKeeps, Zenon DEF StepOK
<1>11. Remains => m.hdr = Attr(taken[sn.lat])
  BY <1>1, <1>3, <1>4, <1>7, LatestFacts, Zenon DEF Linked, LinkedHeader
<1> QED  BY <1>1, <1>2, <1>3, <1>7, <1>9, <1>10, <1>11, SetupIntact, Zenon DEF SetupPc, MapPc

(* And when it writes the header.                                          *)
LEMMA OpenSnHeaderIntact ==
    ASSUME Inv, Intact, NEW t \in Thread, OpenSnHeader(t) PROVE Intact'
<1>1. /\ Known(t) /\ StepOK(t) /\ pc[t] = "header" /\ pc[t] \in SetupPc
      /\ loc[t].lat \in Snap
  BY Basics, OpenSnHeaderOK, Zenon DEF OpenSnHeader, SetupPc, MapPc, Known, Setup
<1>2. req' = req /\ loc' = loc /\ mfd' = mfd /\ UNCHANGED <<file, dat, taken>>
  BY DEF OpenSnHeader, snVars
<1>3. (loc[t].cur = "fd" => Cur(t).num = sn.number) /\ loc[t].lat = sn.lat
  BY <1>1, Zenon DEF Intact, Handled, MapPc
<1>4. PcSet(t, "unlock")
  BY <1>1, GotoFacts DEF OpenSnHeader, PcLabel, Known
<1>5. Went(t, "unlock", loc[t], Cur(t))
  BY <1>1, <1>2, <1>4, WentTo, SameLoc, SameMfd, Zenon DEF Known
<1>6. /\ \A k \in Snap : k # sn.lat => map'[k] = map[k]
      /\ map'[sn.lat].st = "saved" /\ map'[sn.lat].ptr = map[sn.lat].ptr
      /\ map'[sn.lat].hdr = Cur(t).hdr
  <2>1. PICK h : h = Cur(t).hdr
    BY Zenon
  <2>2. map' = [map EXCEPT ![sn.lat].st = "saved", ![sn.lat].hdr = h]
    BY <1>3, <2>1, Zenon DEF OpenSnHeader
  <2>3. map \in [Snap -> MapFile] /\ sn.lat \in Snap
    BY <1>1, <1>3 DEF Known, Types
  <2> QED  BY <2>1, <2>2, <2>3 DEF MapFile
<1>7. Remains => LinkedHeader(sn.lat)'
  <2> SUFFICES ASSUME Remains PROVE LinkedHeader(sn.lat)'
    OBVIOUS
  <2>1. Cur(t).hdr = Attr(taken[sn.lat])
    BY <1>1, Zenon DEF Intact, Copied
  <2>2. sn' = sn /\ taken' = taken
    BY <1>1, <1>2, Zenon DEF StepOK, Frame
  <2> QED  BY <1>6, <2>1, <2>2 DEF LinkedHeader
<1>8. Keeps(t) /\ DatKept
  BY <1>1, <1>2, <1>6, <1>7, HeaderKeeps DEF StepOK
<1> QED  BY <1>1, <1>2, <1>3, <1>5, <1>8, SetupIntact, Zenon DEF SetupPc, MapPc

(* Removing the map file that has no header yet.                           *)
LEMMA MapGone ==
    ASSUME Inv, Intact, NEW t \in Thread, Frame(t), pc[t] \in {"stat", "header"},
           map' = [map EXCEPT ![loc[t].lat] = NoMap], UNCHANGED <<file, dat, taken>>
    PROVE  Keeps(t) /\ DatKept
<1>1. /\ Known(t) /\ loc[t].lat = sn.lat /\ sn.lat \in Snap /\ map[sn.lat].st = "empty"
  BY Basics, Zenon DEF Known, Setup, MapPc, Intact, Handled
<1>2. NoMap.st = "none" /\ \A b \in Block : NoMap.ptr[b] = 0 /\ map[sn.lat].ptr[b] = 0
  BY <1>1, Zenon DEF NoMap, Known, Unsaved
<1>3. map'[sn.lat] = NoMap /\ \A k \in Snap : k # sn.lat => map'[k] = map[k]
  BY <1>1 DEF Known, Types
<1>4. Remains => LinkedHeader(sn.lat)'
  <2> SUFFICES ASSUME Remains PROVE LinkedHeader(sn.lat)'
    OBVIOUS
  <2>1. Attr(file) = Attr(taken[sn.lat])
    BY <1>1, LatestFacts, Zenon DEF Linked, LinkedHeader
  <2>2. sn' = sn /\ After(sn.lat)' = file /\ taken' = taken
    BY DEF Frame, After
  <2> QED  BY <1>2, <1>3, <2>1, <2>2, Zenon DEF LinkedHeader
<1> QED  BY <1>2, <1>3, <1>4, HeaderKeeps, Zenon

(* A failing call in mfd_open_sn keeps the snapshots intact, unless it     *)
(* leaves an open handle stale.                                            *)
LEMMA OpenSnErrorIntact ==
    ASSUME Inv, Intact, NEW t \in Thread, FaultTypes, OpenSnError(t), ~faults'.stale PROVE Intact'
<1> DEFINE created == pc[t] \in {"stat", "header"}
<1>1. /\ Known(t) /\ StepOK(t) /\ pc[t] # "idle" /\ Return(t) /\ UNCHANGED <<file, dat, taken>>
      /\ map' = IF created THEN [map EXCEPT ![loc[t].lat] = NoMap] ELSE map
  BY Basics, OpenSnErrorOK, Zenon DEF OpenSnError, snVars
<1>2. ~(loc[t].cur = "fd" /\ mfd[t].fd.open)
  <2>1. PICK n : faults' = [faults EXCEPT !.error = n,
                              !.stale = faults.stale \/ (loc[t].cur = "fd" /\ mfd[t].fd.open)]
    BY Zenon DEF OpenSnError
  <2> QED  BY <2>1, Zenon DEF FaultTypes
<1>3. Keeps(t) /\ DatKept
  <2>1. CASE created
    BY <1>1, <2>1, MapGone, Zenon DEF StepOK
  <2>2. CASE ~created
    BY <1>1, <2>2, CalmKeeps, Zenon DEF StepOK, Calm
  <2> QED  BY <2>1, <2>2
<1>4. PICK h : /\ Handles(t, h)
               /\ (h = [mfd[t].fd EXCEPT !.map = Closed] /\ loc[t].cur = "fd") \/ h = mfd[t].fd
  BY Zenon DEF OpenSnError
<1>5. h \in Mfd /\ h.num = mfd[t].fd.num /\ h.open = mfd[t].fd.open
  <2>1. mfd[t].fd \in Mfd /\ Closed \in Fd
    BY <1>1, FdFacts, Zenon DEF Known, ThreadTypes
  <2> QED  BY <1>4, <2>1, Zenon DEF Mfd
<1>6. h.num <= sn.number
  BY <1>5, Zenon DEF Intact, Handled
<1>7. h.open /\ h.num = sn.number => UpToDate(h)
  <2> SUFFICES ASSUME h.open, h.num = sn.number PROVE UpToDate(h)
    BY Zenon
  <2>1. loc[t].cur # "fd" /\ h = mfd[t].fd
    BY <1>2, <1>4, <1>5
  <2> QED  BY <1>1, <2>1, FdUpToDate, Zenon
<1> QED  BY <1>1, <1>3, <1>4, <1>5, <1>6, <1>7, EndIntact, Zenon

(* And so does finding a map file without a header.                        *)
LEMMA OpenSnNoHeaderIntact ==
    ASSUME Inv, Intact, NEW t \in Thread, FaultTypes, OpenSnNoHeader(t), ~faults'.stale PROVE Intact'
<1>1. /\ Known(t) /\ StepOK(t) /\ pc[t] # "idle" /\ Return(t) /\ Calm
  BY Basics, OpenSnNoHeaderOK DEF OpenSnNoHeader, fileVars, snVars, Calm
<1>2. ~(loc[t].cur = "fd" /\ mfd[t].fd.open)
  <2>1. faults' = [faults EXCEPT !.stale = faults.stale \/ (loc[t].cur = "fd" /\ mfd[t].fd.open)]
    BY Zenon DEF OpenSnNoHeader
  <2> QED  BY <2>1, Zenon DEF FaultTypes
<1>3. Keeps(t) /\ DatKept
  BY <1>1, CalmKeeps DEF StepOK
<1>4. PICK h : /\ Handles(t, h)
               /\ (h = [mfd[t].fd EXCEPT !.map = Closed] /\ loc[t].cur = "fd") \/ h = mfd[t].fd
  BY Zenon DEF OpenSnNoHeader
<1>5. h \in Mfd /\ h.num = mfd[t].fd.num /\ h.open = mfd[t].fd.open
  <2>1. mfd[t].fd \in Mfd /\ Closed \in Fd
    BY <1>1, FdFacts, Zenon DEF Known, ThreadTypes
  <2> QED  BY <1>4, <2>1, Zenon DEF Mfd
<1>6. h.num <= sn.number
  BY <1>5, Zenon DEF Intact, Handled
<1>7. h.open /\ h.num = sn.number => UpToDate(h)
  <2> SUFFICES ASSUME h.open, h.num = sn.number PROVE UpToDate(h)
    OBVIOUS
  <2>1. loc[t].cur # "fd" /\ h = mfd[t].fd
    BY <1>2, <1>4, <1>5
  <2> QED  BY <1>1, <2>1, FdUpToDate, Zenon
<1> QED  BY <1>1, <1>3, <1>4, <1>5, <1>6, <1>7, EndIntact, Zenon

(* And so does taking a file that does not exist for a directory.          *)
LEMMA OpenSnIsDirIntact ==
    ASSUME Inv, Intact, NEW t \in Thread, OpenSnIsDir(t) PROVE Intact'
<1>1. /\ Known(t) /\ StepOK(t) /\ pc[t] = "stat" /\ ~file.exists /\ Return(t)
      /\ UNCHANGED <<file, dat, taken>> /\ map' = [map EXCEPT ![loc[t].lat] = NoMap]
  BY Basics, OpenSnIsDirOK, Zenon DEF OpenSnIsDir, Fail, snVars
<1>2. Keeps(t) /\ DatKept
  BY <1>1, MapGone, Zenon DEF StepOK
<1>3. PICK h : Handles(t, h) /\ h = mfd[t].fd
  BY DEF OpenSnIsDir, Fail
<1>4. h \in Mfd /\ ~h.open /\ h.num <= sn.number
  BY <1>1, <1>3, Zenon DEF Known, ThreadTypes, Served, Intact, Handled
<1> QED  BY <1>1, <1>2, <1>3, <1>4, EndIntact

(* If the handle says that there is nothing to save, nothing of the range  *)
(* has to be saved.                                                        *)
LEMMA NotMust ==
    ASSUME Inv, Intact, Remains, NEW t \in Thread, NEW m \in Mfd, UpToDate(m),
           m.hdr = Attr(taken[sn.lat]), ~(m.hdr.exists /\ MustSave(t, m))
    PROVE  SavedTo(t, req[t].hi)
<1>1. /\ m.dat \in Fd /\ taken[sn.lat] \in File /\ sn.lat \in Snap
      /\ req[t].lo \in 0 .. MaxSize /\ req[t].hi \in 0 .. MaxSize
  BY Basics, LatestFacts, Zenon DEF Mfd, Known, ThreadTypes, Request
<1>2. /\ m.hdr.exists = taken[sn.lat].exists /\ m.hdr.size = taken[sn.lat].size
      /\ taken[sn.lat].size \in 0 .. MaxSize
  BY <1>1, SMTT(30) DEF Attr, File
<1>3. CASE taken[sn.lat].size = 0
  <2>1. \A b \in Block : ~(b < taken[sn.lat].size)
    BY <1>3 DEF Block
  <2> QED  BY <2>1 DEF SavedTo
<1>4. CASE taken[sn.lat].size # 0
  <2>1. m.hdr.exists /\ m.hdr.size > 0
    <3>1. m.hdr.exists
      BY <1>1, <1>2, <1>4, Zenon DEF Intact, Disk
    <3>2. m.hdr.size > 0
      BY <1>2, <1>4
    <3> QED  BY <3>1, <3>2, Zenon
  <2>2. m.dat >= 0
    BY <2>1 DEF UpToDate
  <2>3. ~(req[t].lo < SaveEnd(t, m))
    BY <2>1, <2>2, Zenon DEF MustSave
  <2>4. \A b \in Block : ~(req[t].lo <= b /\ b < req[t].hi /\ b < taken[sn.lat].size)
    BY <1>1, <1>2, <2>3, SMTT(30) DEF SaveEnd, Block
  <2> QED  BY <2>4, Zenon DEF SavedTo
<1> QED  BY <1>3, <1>4

(* What is saved stays saved when no map file changes.                     *)
LEMMA SavedToKept ==
    ASSUME NEW t \in Thread, Calm, sn' = sn, req'[t] = req[t], NEW n, SavedTo(t, n)
    PROVE  SavedTo(t, n)'
  BY DEF SavedTo, Calm

(* The header of a handle that has been set up is that of the snapshot.    *)
LEMMA HeaderOfLatest ==
    ASSUME Inv, Intact, Remains, NEW m, UpToDate(m),
           m.map \in Snap => map[m.map].st = "saved" /\ m.hdr = map[m.map].hdr
    PROVE  m.hdr = Attr(taken[sn.lat])
<1>1. m.map \in Snap /\ m.map = sn.lat
  BY Zenon DEF UpToDate
<1> QED  BY <1>1, LatestFacts DEF Linked, LinkedHeader

(* mfd_open_sn returns with a handle that is up to date, and the request   *)
(* goes on: $create to save what the snapshot has, the others to b_write   *)
(* or to the change.                                                       *)
LEMMA OpenedIntact ==
    ASSUME Inv, Intact, NEW t \in Thread, NEW m \in Mfd, StepOK(t), Calm, OpenedSn(t, m),
           pc[t] \in {"lat", "dat"}, req' = req,
           m.num = Cur(t).num, UpToDate(m),
           m.map \in Snap => map[m.map].st = "saved" /\ m.hdr = map[m.map].hdr
    PROVE  Intact'
<1> DEFINE saveFirst == /\ req[t].op = "create" /\ loc[t].cur = "fd"
                        /\ m.map >= 0 /\ m.hdr.exists
           truncating == /\ loc[t].cur = "tmp" /\ m.map # NOSN
                         /\ m.hdr.exists /\ file.exists
           c == IF saveFirst THEN "tmp" ELSE loc[t].cur
           l == IF saveFirst THEN "osn"
                ELSE IF req[t].op \in {"write", "ftruncate"} THEN "renum"
                ELSE IF truncating /\ MustSave(t, m) THEN "peek" ELSE "apply"
<1>1. /\ Known(t) /\ pc[t] # "idle" /\ pc[t] \in SetupPc \ {"osn"} /\ loc[t].blk = req[t].lo
      /\ Handled(t) /\ Asked(t) /\ file' = file
  BY Basics, Zenon DEF Known, Setup, SetupPc, FreshPc, MapPc, Intact, Calm
<1>2. Keeps(t) /\ DatKept /\ Frame(t) /\ Types'
  BY <1>1, CalmKeeps, Zenon DEF StepOK
<1>3. sn' = sn /\ snPc' = snPc /\ earliest' = earliest /\ taken' = taken /\ req'[t] = req[t]
  BY <1>2, Zenon DEF Frame, Calm
<1>4. l \in {"osn", "renum", "peek", "apply"} /\ pc'[t] = l
  BY <1>1 DEF OpenedSn, Goto, Known, Types
<1>5. loc'[t].cur = c /\ loc'[t].blk = loc[t].blk
  <2>1. PICK x : x = [loc[t] EXCEPT !.cur = c, !.lat = 0]
    BY Zenon
  <2>2. x.cur = c /\ x.blk = loc[t].blk
    <3>1. loc[t] \in Local
      BY <1>1, Zenon DEF Known, ThreadTypes
    <3> HIDE DEF c
    <3> QED  BY <2>1, <3>1, Zenon DEF Local
  <2>3. loc' = [loc EXCEPT ![t] = x]
    BY <2>1, Zenon DEF OpenedSn
  <2>4. loc'[t] = x
    BY <1>1, <2>3, Zenon DEF Known, Types
  <2> QED  BY <2>2, <2>4, Zenon
<1>6. MfdSet(t, m)
  BY <1>1, SetMfdFacts DEF OpenedSn, Known
<1>7. PICK e : e = mfd[t].fd
  BY Zenon
<1>8. mfd'[t].fd = IF loc[t].cur = "fd" THEN m ELSE e
  BY <1>6, <1>7 DEF MfdSet
<1>9. UpToDate(m)' /\ (UpToDate(e) => UpToDate(e)')
  BY <1>3, Zenon DEF UpToDate, Remains
<1>10. /\ loc[t].cur = "fd" => m.num = sn.number
       /\ e.num <= sn.number /\ sn.number <= sn.number
  BY <1>1, <1>7, NumberFacts, Zenon DEF Handled, Known
<1>11. l # "osn" => Cur(t)' = m
  BY <1>5, <1>6, Zenon DEF Cur, MfdSet
<1>12. Asked(t)'
  BY <1>1, <1>3, <1>5, Zenon DEF Asked
<1>13. Handled(t)'
  <2>1. c \in {"fd", "tmp"} /\ (saveFirst => c = "tmp" /\ loc[t].cur = "fd" /\ l = "osn")
        /\ (~saveFirst => c = loc[t].cur /\ l # "osn")
    BY <1>1, Zenon DEF Known, CurTypes, Which
  <2>2. l \notin MapPc \cup {"lock", "map", "validate"} /\ (l \in SetupPc => l = "osn")
        /\ "osn" \notin UsePc
    BY <1>4, Zenon DEF MapPc, SetupPc, FreshPc, UsePc
  <2> HIDE DEF l, c, saveFirst
  <2>3. mfd'[t].fd.num <= sn.number
    BY <1>8, <1>10, Zenon
  <2>4. pc'[t] \in UsePc => UpToDate(Cur(t))'
    BY <1>4, <1>9, <1>11, <2>2, Zenon
  <2>5. pc'[t] \in UsePc \cup (SetupPc \ {"osn"}) /\ loc'[t].cur = "fd" => Cur(t)'.num = sn.number
    BY <1>4, <1>5, <1>10, <1>11, <2>1, <2>2, Zenon
  <2>6. req[t].op = "create" /\ loc'[t].cur = "tmp"
         => UpToDate(mfd[t].fd)' /\ mfd'[t].fd.num = sn.number
    BY <1>1, <1>5, <1>7, <1>8, <1>9, <1>10, <2>1, Zenon DEF Handled
  <2>7. mfd'[t].fd.open /\ mfd'[t].fd.num = sn.number /\ snPc = "idle" => UpToDate(mfd[t].fd)'
    BY <1>1, <1>7, <1>8, <1>9, <2>1, Zenon DEF Handled
  <2> QED  BY <1>3, <1>4, <2>2, <2>3, <2>4, <2>5, <2>6, <2>7, Zenon DEF Handled
<1>14. Copied(t)'
  <2> SUFFICES ASSUME Remains PROVE /\ l = "peek" => SavedTo(t, loc[t].blk)'
                                    /\ l = "apply" /\ req[t].op \notin {"open", "create"}
                                       => SavedTo(t, req[t].hi)'
    <3> HIDE DEF l
    <3> QED  BY <1>3, <1>4, Zenon DEF Copied, Remains, SavePc
  <2>1. ASSUME l = "peek" PROVE SavedTo(t, loc[t].blk)'
    <3>1. loc'[t].blk = req[t].lo /\ req[t].lo \in 0 .. MaxSize
      BY <1>1, <1>5, Zenon DEF Known, ThreadTypes, Request
    <3>2. \A b \in Block : ~(req[t].lo <= b /\ b < req[t].lo)
      BY <3>1, NoneBefore, Zenon
    <3> QED  BY <1>3, <3>1, <3>2, Zenon DEF SavedTo
  <2>2. ASSUME l = "apply", req[t].op \notin {"open", "create"} PROVE SavedTo(t, req[t].hi)'
    <3>1. req[t].op \in {"truncate", "unlink"}
      <4>1. req[t].op \in Op /\ req[t].op # "none"
        BY <1>1, Zenon DEF Known, ThreadTypes, Request, Served
      <4> QED  BY <2>2, <4>1, Zenon DEF Op
    <3>2. loc[t].cur = "tmp" /\ file.exists /\ m.map # NOSN
      BY <1>1, <2>2, <3>1, FdFacts, Zenon DEF Asked, Known, Served, UpToDate
    <3>3. ~(m.hdr.exists /\ MustSave(t, m))
      BY <2>2, <3>1, <3>2, Zenon
    <3>4. m.hdr = Attr(taken[sn.lat])
      BY HeaderOfLatest, Zenon
    <3>5. SavedTo(t, req[t].hi)
      BY <3>3, <3>4, NotMust, Zenon
    <3> QED  BY <1>3, <3>5, SavedToKept, Zenon
  <2> QED  BY <2>1, <2>2, Zenon
<1> QED  BY <1>2, <1>12, <1>13, <1>14, ThreadIntact

(* mfd_open_sn keeps the snapshots intact when it looks for the latest     *)
(* snapshot, and returns at once if there is none.                         *)
LEMMA OpenSnLatestIntact ==
    ASSUME Inv, Intact, NEW t \in Thread, OpenSnLatest(t) PROVE Intact'
<1>1. /\ Known(t) /\ StepOK(t) /\ pc[t] = "lat" /\ pc[t] \in SetupPc \ {"osn"}
      /\ Cur(t) \in Mfd /\ loc[t] \in Local /\ req' = req /\ file' = file /\ Calm /\ Handled(t)
  BY Basics, OpenSnLatestOK, Zenon
  DEF OpenSnLatest, SetupPc, FreshPc, Known, CurTypes, ThreadTypes, Calm, fileVars, snVars, Intact
<1>2. Keeps(t) /\ DatKept
  BY <1>1, CalmKeeps DEF StepOK
<1>3. CASE sn.any
  <2>1. PICK x : x = [loc[t] EXCEPT !.lat = sn.lat]
    BY Zenon
  <2>2. x.cur = loc[t].cur /\ x.lat = sn.lat
    BY <1>1, <2>1, Zenon DEF Local
  <2>3. /\ loc' = [loc EXCEPT ![t] = x] /\ PcSet(t, "lock") /\ mfd' = mfd
    BY <1>1, <1>3, <2>1, GotoFacts, Zenon DEF OpenSnLatest, PcLabel, Known
  <2>4. Went(t, "lock", x, Cur(t))
    BY <1>1, <2>2, <2>3, WentTo, SameMfd, Zenon
  <2>5. x.cur = "fd" => Cur(t).num = sn.number
    BY <1>1, <2>2, Zenon DEF Handled
  <2> QED  BY <1>1, <1>2, <2>2, <2>4, <2>5, SetupIntact, Zenon DEF SetupPc, FreshPc, MapPc
<1>4. CASE ~sn.any
  <2>1. PICK m : OpenedSn(t, m) /\ m = [Cur(t) EXCEPT !.map = NOSN, !.dat = NOSN]
    BY <1>4, Zenon DEF OpenSnLatest
  <2>2. NOSN \in Fd /\ NOSN \notin Snap
    BY FdFacts
  <2>3. m \in Mfd /\ m.num = Cur(t).num /\ m.map = NOSN /\ m.dat = NOSN
    BY <1>1, <2>1, <2>2, Zenon DEF Mfd
  <2>4. UpToDate(m)
    BY <1>4, <2>3 DEF UpToDate, Intact, Disk
  <2> QED  BY <1>1, <2>1, <2>2, <2>3, <2>4, OpenedIntact, Zenon
<1> QED  BY <1>3, <1>4

(* And when it opens the dat file of the latest snapshot, if the file has  *)
(* any data there.                                                         *)
LEMMA OpenSnDatIntact ==
    ASSUME Inv, Intact, NEW t \in Thread, OpenSnDat(t) PROVE Intact'
<1> DEFINE d == IF ~Cur(t).hdr.exists THEN ENOENT ELSE IF Cur(t).hdr.size = 0 THEN ZLEN
                ELSE sn.lat
<1>1. /\ Known(t) /\ StepOK(t) /\ pc[t] = "dat" /\ Cur(t) \in Mfd /\ Handled(t)
      /\ req' = req /\ file' = file /\ map' = map /\ taken' = taken
  BY Basics, OpenSnDatOK, Zenon DEF OpenSnDat, snVars, Known, CurTypes, Intact
<1>2. Cur(t).map = sn.lat /\ sn.lat \in Snap
  BY <1>1, Zenon DEF Known, Setup, Handled, MapPc
<1>3. d \in Fd /\ (d >= 0 => d = sn.lat) /\ (Cur(t).hdr.exists /\ Cur(t).hdr.size > 0 => d = sn.lat)
  <2>1. d \in {ENOENT, ZLEN, sn.lat} /\ (Cur(t).hdr.exists /\ Cur(t).hdr.size # 0 => d = sn.lat)
    BY Zenon
  <2> HIDE DEF d
  <2>2. Cur(t).hdr.size > 0 => Cur(t).hdr.size # 0
    OBVIOUS
  <2>3. d \in Fd /\ (d >= 0 => d = sn.lat)
    BY <1>2, <2>1, FdFacts
  <2> QED  BY <2>1, <2>2, <2>3
<1>4. PICK m : OpenedSn(t, m) /\ m = [Cur(t) EXCEPT !.dat = d]
  BY Zenon DEF OpenSnDat
<1>5. dat' = IF d \in Snap THEN [dat EXCEPT ![d].made = TRUE] ELSE dat
  BY Zenon DEF OpenSnDat
<1> HIDE DEF d
<1>6. m \in Mfd /\ m.num = Cur(t).num /\ m.map = sn.lat /\ m.dat = d /\ m.hdr = Cur(t).hdr
  BY <1>1, <1>2, <1>3, <1>4, Zenon DEF Mfd
<1>7. sn.lat >= 0
  BY <1>2, FdFacts, Zenon
<1>8. UpToDate(m)
  BY <1>2, <1>3, <1>6, <1>7 DEF UpToDate
<1>9. map[sn.lat].st = "saved" /\ Cur(t).hdr = map[sn.lat].hdr
  <2>1. PICK w \in Which : w = loc[t].cur /\ mfd[t][w] = Cur(t) /\ Handle(t, w)
    BY <1>1, Zenon DEF Known, CurTypes
  <2> QED  BY <1>1, <1>2, <2>1, Zenon DEF Handle
<1>10. Calm
  <2>1. dat \in [Snap -> DatFile]
    BY <1>1 DEF Known, Types
  <2>2. \A s \in Snap : dat'[s].blk = dat[s].blk
    BY <1>5, <2>1, Zenon DEF DatFile
  <2> QED  BY <1>1, <2>2, Zenon DEF Calm
<1> QED  BY <1>1, <1>4, <1>6, <1>8, <1>9, <1>10, OpenedIntact, Zenon

(* A request whose open handle mfd_validate has accepted or renewed goes   *)
(* on to save its blocks, or to the change if there is nothing to save.    *)
LEMMA ValidIntact ==
    ASSUME Inv, Intact, NEW t \in Thread, StepOK(t), Calm, req' = req,
           pc[t] \in {"validate", "renum"}, UpToDate(Cur(t)),
           NEW m \in Mfd, m.num = sn.number, m.map = Cur(t).map, m.dat = Cur(t).dat,
           m.hdr = Cur(t).hdr, NEW l, l = IF MustSave(t, Cur(t)) THEN "peek" ELSE "apply",
           Went(t, l, loc[t], m)
    PROVE  Intact'
<1>1. /\ Known(t) /\ pc[t] # "idle" /\ Handled(t) /\ Asked(t) /\ loc[t].cur = "fd"
      /\ loc[t].blk = req[t].lo
  BY Basics, Zenon DEF Known, Setup, Intact
<1>2. /\ Keeps(t) /\ DatKept /\ Frame(t) /\ Types'
      /\ sn' = sn /\ snPc' = snPc /\ earliest' = earliest /\ taken' = taken /\ file' = file
      /\ map' = map
  BY <1>1, CalmKeeps, Zenon DEF StepOK, Frame, Calm
<1>3. /\ pc'[t] = l /\ loc'[t] = loc[t] /\ req'[t] = req[t] /\ Cur(t)' = m /\ mfd'[t].fd = m
  BY <1>1, Zenon DEF Went, Moved
<1>4. UpToDate(m) /\ UpToDate(m)'
  BY <1>2, Zenon DEF UpToDate, Remains
<1>5. l \in {"peek", "apply"} /\ sn.number <= sn.number
  BY <1>1, NumberFacts, Zenon DEF Known
<1>6. Asked(t)'
  BY <1>1, <1>2, <1>3, Zenon DEF Asked
<1>7. Handled(t)'
  <2>1. l \notin MapPc \cup SetupPc \cup {"lock", "map", "validate"}
    BY <1>5, Zenon DEF MapPc, SetupPc, FreshPc
  <2> QED  BY <1>1, <1>2, <1>3, <1>4, <1>5, <2>1, Zenon DEF Handled
<1>8. Copied(t)'
  <2>1. ASSUME Remains, l = "peek" PROVE SavedTo(t, loc[t].blk)'
    <3>1. loc'[t].blk = req[t].lo /\ req[t].lo \in 0 .. MaxSize
      BY <1>1, <1>3, Zenon DEF Known, ThreadTypes, Request, Setup, SetupPc
    <3>2. \A b \in Block : ~(req[t].lo <= b /\ b < req[t].lo)
      BY <3>1, NoneBefore, Zenon
    <3> QED  BY <1>3, <3>1, <3>2, Zenon DEF SavedTo
  <2>2. ASSUME Remains, l = "apply" PROVE SavedTo(t, req[t].hi)'
    <3>1. Handle(t, "fd") /\ mfd[t]["fd"] = Cur(t)
      BY <1>1, Zenon DEF Known, CurTypes, Which
    <3>2. m.map \in Snap => map[m.map].st = "saved" /\ m.hdr = map[m.map].hdr
      BY <3>1, Zenon DEF Handle
    <3>3. ~MustSave(t, m) /\ m.hdr = Attr(taken[sn.lat])
      BY <1>4, <2>2, <3>2, HeaderOfLatest, Zenon DEF MustSave, SaveEnd
    <3>4. SavedTo(t, req[t].hi)
      BY <1>4, <2>2, <3>3, NotMust, Zenon
    <3> QED  BY <1>2, <1>3, <3>4, SavedToKept, Zenon
  <2> QED  BY <1>2, <1>3, <1>5, <2>1, <2>2, Zenon DEF Copied, Remains, SavePc
<1> QED  BY <1>2, <1>6, <1>7, <1>8, ThreadIntact, Zenon

(* mfd_validate keeps the snapshots intact: a handle with the number of    *)
(* the latest snapshot is set up for it, and any other is set up again.    *)
LEMMA ValidateIntact ==
    ASSUME Inv, Intact, NEW t \in Thread, Validate(t) PROVE Intact'
<1> DEFINE l == IF MustSave(t, Cur(t)) THEN "peek" ELSE "apply"
           closed(fd) == IF fd >= 0 THEN Closed ELSE fd
           a == closed(Cur(t).map)
           d == closed(Cur(t).dat)
<1>1. /\ Known(t) /\ StepOK(t) /\ pc[t] = "validate" /\ mfd[t].fd = Cur(t) /\ loc[t].cur = "fd"
      /\ Cur(t) \in Mfd /\ req' = req /\ loc' = loc /\ file' = file /\ Calm /\ Handled(t)
  BY Basics, ValidateOK, Zenon
  DEF Validate, fileVars, snVars, Known, CurTypes, Setup, ThreadTypes, Calm, Intact
<1>2. CASE Cur(t).num = sn.number
  <2>1. l \in PcLabel /\ PcSet(t, l) /\ mfd' = mfd
    BY <1>1, <1>2, GotoFacts, Zenon DEF Validate, PcLabel, Known
  <2> HIDE DEF l
  <2>2. Went(t, l, loc[t], Cur(t))
    BY <1>1, <2>1, WentTo, SameMfd, SameLoc DEF Known
  <2>3. snPc = "idle"
    BY <1>1, Zenon DEF Intact, Disk, AllIdle, Known, SnOrder
  <2>4. UpToDate(Cur(t))
    BY <1>1, <1>2, <2>3, Zenon DEF Handled, SetupPc, FreshPc, MapPc
  <2> QED  BY <1>1, <1>2, <2>2, <2>4, ValidIntact, Zenon DEF l
<1>3. CASE Cur(t).num # sn.number
  <2>1. PICK m : SetMfd(t, m) /\ m = [Cur(t) EXCEPT !.map = a, !.dat = d]
    <3>1. SetMfd(t, ClosedSn(mfd[t].fd))
      BY <1>1, <1>3, Zenon DEF Validate
    <3> QED  BY <1>1, <3>1, Zenon DEF ClosedSn
  <2>2. a \in Fd /\ d \in Fd /\ PcSet(t, "osn")
    <3>1. PcSet(t, "osn")
      BY <1>1, <1>3, GotoFacts, Zenon DEF Validate, Known, PcLabel
    <3>2. Cur(t).map \in Fd /\ Cur(t).dat \in Fd
      BY <1>1, Zenon DEF Known, CurTypes
    <3> QED  BY <3>1, <3>2, FdFacts
  <2> HIDE DEF a, d, closed, l
  <2>3. m \in Mfd /\ m.num = Cur(t).num
    BY <1>1, <2>1, <2>2, Zenon DEF Mfd
  <2>4. Went(t, "osn", loc[t], m)
    <3>1. MfdSet(t, m)
      BY <1>1, <2>1, <2>3, SetMfdFacts DEF Known
    <3> QED  BY <1>1, <2>2, <3>1, WentTo, SameLoc, Zenon DEF Known
  <2>5. /\ Keeps(t) /\ DatKept /\ Frame(t) /\ Types'
        /\ sn' = sn /\ snPc' = snPc /\ earliest' = earliest /\ taken' = taken
    BY <1>1, CalmKeeps, Zenon DEF StepOK, Frame, Calm
  <2>6. /\ pc'[t] = "osn" /\ loc'[t] = loc[t] /\ req'[t] = req[t] /\ mfd'[t].fd = m
    BY <1>1, <2>4, Zenon DEF Went, Moved
  <2>7. m.num <= sn.number
    BY <1>1, <2>3, Zenon DEF Handled
  <2>8. Handled(t)'
    BY <1>1, <2>5, <2>6, <2>7, Zenon DEF Handled, UsePc, SetupPc, FreshPc, MapPc
  <2>9. Asked(t)' /\ Copied(t)'
    BY <1>1, <2>5, <2>6, Zenon DEF Asked, Copied, SavePc, Intact
  <2> QED  BY <2>5, <2>8, <2>9, ThreadIntact
<1> QED  BY <1>2, <1>3

(* And when it gives up on a handle, which keeps its old number.           *)
LEMMA ValidateFailsIntact ==
    ASSUME Inv, Intact, NEW t \in Thread, ValidateFails(t) PROVE Intact'
<1>1. /\ Known(t) /\ StepOK(t) /\ pc[t] # "idle" /\ Return(t) /\ Calm /\ Handled(t)
      /\ mfd[t].fd.num # sn.number
  BY Basics, ValidateFailsOK DEF ValidateFails, fileVars, snVars, Calm, Intact
<1>2. PICK h : Handles(t, h) /\ h = ClosedSn(mfd[t].fd)
  BY Zenon DEF ValidateFails
<1>3. h \in Mfd /\ h.num = mfd[t].fd.num
  <2>1. mfd[t].fd \in Mfd /\ Handle(t, "fd") /\ mfd[t]["fd"] = mfd[t].fd
    BY <1>1, Zenon DEF Known, ThreadTypes, Which
  <2>2. mfd[t].fd.map \in Snap \cup {NOSN, Closed} /\ (mfd[t].fd.map = NOSN => mfd[t].fd.dat = NOSN)
    BY <2>1, Zenon DEF Handle
  <2> QED  BY <1>2, <2>1, <2>2, ClosedHandle, Zenon
<1>4. h.num <= sn.number /\ h.num # sn.number
  BY <1>1, <1>3, Zenon DEF Handled
<1>5. Keeps(t) /\ DatKept
  BY <1>1, CalmKeeps DEF StepOK
<1> QED  BY <1>1, <1>2, <1>3, <1>4, <1>5, EndIntact, Zenon

(* And when the handle has been set up again.                              *)
LEMMA ValidatedIntact ==
    ASSUME Inv, Intact, NEW t \in Thread, Validated(t) PROVE Intact'
<1> DEFINE l == IF MustSave(t, Cur(t)) THEN "peek" ELSE "apply"
<1>1. /\ Known(t) /\ StepOK(t) /\ pc[t] = "renum" /\ Cur(t) \in Mfd /\ sn.number \in 0 .. MaxSnap
      /\ req' = req /\ loc' = loc /\ Calm /\ Handled(t)
  BY Basics, ValidatedOK
  DEF Validated, fileVars, snVars, Known, CurTypes, SnTypes, Calm, Intact
<1>2. PICK m : SetMfd(t, m) /\ m = [Cur(t) EXCEPT !.num = sn.number]
  BY Zenon DEF Validated
<1>3. /\ m \in Mfd /\ m.num = sn.number /\ m.map = Cur(t).map /\ m.dat = Cur(t).dat
      /\ m.hdr = Cur(t).hdr
  BY <1>1, <1>2, Zenon DEF Mfd
<1>4. l \in PcLabel /\ PcSet(t, l) /\ MfdSet(t, m)
  BY <1>1, <1>2, <1>3, GotoFacts, SetMfdFacts, Zenon DEF Validated, PcLabel, Known
<1> HIDE DEF l
<1>5. Went(t, l, loc[t], m)
  BY <1>1, <1>4, WentTo, SameLoc, Zenon DEF Known
<1>6. UpToDate(Cur(t))
  BY <1>1, Zenon DEF Handled, UsePc, PcLabel, SetupPc, FreshPc, MapPc
<1> QED  BY <1>1, <1>3, <1>5, <1>6, ValidIntact, Zenon DEF l

-----------------------------------------------------------------------------
(* The start of a request, before mfd_open_sn or mfd_validate.             *)

(* The start of a request.                                                 *)
LEMMA BeginOK ==
    ASSUME Inv, NEW t \in Thread, NEW r \in Request, NEW l \in {"osn", "validate"},
           NEW c \in Which, Begin(t, r, l, c), r.op # "none",
           r.op # "create" => file.exists,
           r.op = "unlink" => \A u \in Thread : ~mfd[u].fd.open,
           c = "fd" => (l = "osn" <=> ~mfd[t].fd.open),
           r.op = "create" => ~mfd[t].fd.open,
           r.op \in {"write", "ftruncate"} => c = "fd",
           l = "validate" => c = "fd"
    PROVE  StepOK(t)
<1>1. /\ Known(t) /\ pc[t] = "idle" /\ loc[t].cur = "fd" /\ mfd[t].tmp = NoMfd
      /\ mfd[t].fd.open \/ mfd[t].fd = NoMfd
      /\ UNCHANGED <<file, map, dat, sn, snPc, earliest, holder, mfd>> /\ sn.lat >= 0
  BY Basics DEF Begin, fileVars, snVars, Known, SnTypes, Setup
<1>2. PICK x : x = [NoLoc EXCEPT !.cur = c, !.blk = r.lo]
  BY Zenon
<1>3. x \in Local /\ x.cur = c /\ x.lat = 0 /\ x.blk = r.lo
  <2>1. NoLoc \in Local /\ r.lo \in 0 .. MaxSize /\ NoLoc.lat = 0
    BY Constants DEF NoLoc, Request
  <2> QED  BY <1>2, <2>1, Zenon DEF Local
<1>4. /\ loc' \in [Thread -> Local] /\ loc'[t] = x
      /\ req' \in [Thread -> Request] /\ req'[t] = r
      /\ \A u \in Thread : u # t => req'[u] = req[u] /\ loc'[u] = loc[u]
  BY <1>1, <1>2, <1>3 DEF Begin, Known, Types
<1>5. l # "idle" /\ PcSet(t, l)
  BY <1>1, GotoFacts, Zenon DEF Begin, Known, ThreadTypes, PcLabel
<1>6. Types'
  BY <1>1, <1>4, <1>5 DEF Known, ThreadTypes, CurTypes, Types, PcSet
<1>7. \A u \in Thread : req[u].op \notin Exclusively
  <2>1. \A u \in Thread : pc[u] = "idle" => req[u].op = "none"
    BY Zenon DEF Inv, ThreadInv, Served
  <2> QED  BY <2>1, Zenon DEF Begin, AllIdle, Exclusive, Exclusively
<1>8. Frame(t)
  BY <1>1, <1>4, <1>5, <1>7, Zenon DEF Frame, OthersKept, FileKept, StartKept, MapKept, PcSet
<1>9. Locked(t)' /\ Saving(t)' /\ Unsaved'
  BY <1>1, <1>5 DEF Locked, LockPc, Saving, SavePc, CopyPc, PcSet, Unsaved, Known
<1>10. Served(t)'
  BY <1>1, <1>4, <1>5 DEF Served, PcSet, Begin, AllIdle
<1>11. Cur(t)' = mfd[t][c] /\ (l = "osn" => Cur(t)' = NoMfd)
  BY <1>1, <1>3, <1>4, Zenon DEF Cur, Known, Which
<1>12. NoMfd.map \notin Snap /\ NoMfd.map = NOSN /\ NoMfd.dat = NOSN
  BY FdFacts, Zenon DEF NoMfd
<1>13. Setup(t)'
  BY <1>1, <1>3, <1>4, <1>5, <1>11, <1>12, Zenon DEF Setup, SetupPc, FreshPc, MapPc, PcSet
<1>14. Handle(t, "fd")'
  <2>1. CASE mfd[t].fd = NoMfd
    BY <1>1, <1>12, <2>1, Zenon DEF Handle, SnTypes
  <2>2. CASE mfd[t].fd.open
    <3>1. Handle(t, "fd") /\ ~(loc'[t].cur = "fd" /\ pc'[t] \in SetupPc)
      BY <1>1, <1>3, <1>4, <1>5, <2>2, Zenon DEF Known, Which, PcSet, SetupPc, FreshPc, MapPc
    <3> QED  BY <1>1, <3>1, Zenon DEF Handle, SetupPc, MapPc, FreshPc
  <2> QED  BY <1>1, <2>1, <2>2, Zenon
<1>15. Handle(t, "tmp")'
  BY <1>1, <1>12, Zenon DEF Handle
<1> QED  BY <1>6, <1>8, <1>9, <1>10, <1>13, <1>14, <1>15, Zenon DEF StepOK, ThreadInv, Which

(* release (esfs_release, mfd_close) keeps the invariant.                  *)
LEMMA CloseOK == ASSUME Inv, NEW t \in Thread, Close(t) PROVE StepOK(t)
<1>1. /\ Known(t) /\ pc[t] = "idle" /\ mfd[t].tmp = NoMfd /\ loc[t].cur = "fd"
      /\ UNCHANGED <<file, map, dat, sn, snPc, earliest, holder, pc, req, loc>>
  BY Basics DEF Close, fileVars, snVars, Known, Setup
<1>2. NoMfd \in Mfd /\ ~NoMfd.open /\ NoMfd.map = NOSN /\ NoMfd.dat = NOSN
  BY Constants DEF NoMfd
<1>3. /\ mfd' \in [Thread -> [fd : Mfd, tmp : Mfd]]
      /\ mfd'[t].fd = NoMfd /\ mfd'[t].tmp = mfd[t].tmp
      /\ mfd'[t]["fd"] = NoMfd /\ mfd'[t]["tmp"] = mfd[t].tmp
      /\ \A u \in Thread : u # t => mfd'[u] = mfd[u]
  BY <1>1 DEF Close, Known, Types
<1>4. Types'
  BY <1>1, <1>3, Zenon DEF Known, Types
<1>5. Frame(t)
  BY <1>1, <1>2, <1>3, Zenon DEF Frame, OthersKept, FileKept, StartKept, MapKept
<1>6. Locked(t)' /\ Saving(t)' /\ Unsaved'
  BY <1>1, Zenon DEF Locked, LockPc, Saving, SavePc, CopyPc, Unsaved, Known, ThreadTypes
<1>7. Served(t)'
  BY <1>1, <1>2, <1>3, Zenon DEF Served, Known
<1>8. Setup(t)'
  BY <1>1, <1>3, Zenon DEF Setup, SetupPc, FreshPc, MapPc, Known
<1>9. Handle(t, "fd")' /\ Handle(t, "tmp")'
  BY <1>1, <1>2, <1>3, FdFacts, Zenon DEF Handle
<1> QED  BY <1>4, <1>5, <1>6, <1>7, <1>8, <1>9, Zenon DEF StepOK, ThreadInv, Which

(* The arrival of any request keeps the invariant.                         *)
LEMMA StartOK == ASSUME Inv, NEW t \in Thread, Start(t) PROVE StepOK(t)
<1>1. /\ Known(t) /\ MaxSize \in 0 .. MaxSize /\ 0 \in 0 .. MaxSize /\ Zero \in Value
      /\ NoReq \in Request
  BY Basics, Constants, BoundAssumption, ValueAssumption
<1>2. {"open", "create", "write", "ftruncate", "truncate", "unlink"} \subseteq Op
  BY Zenon DEF Op
<1>3. mfd[t].fd.open => file.exists
  BY <1>1 DEF Known, Served
<1>4. CASE StartOpen(t)
  <2>1. PICK r : Begin(t, r, "osn", "fd") /\ r = [NoReq EXCEPT !.op = "open"]
    BY <1>4, Zenon DEF StartOpen
  <2>2. r \in Request /\ r.op = "open"
    BY <1>1, <1>2, <2>1, Zenon DEF Request
  <2> QED  BY <1>4, <2>1, <2>2, BeginOK, Zenon DEF StartOpen, Which
<1>5. ASSUME NEW rd \in BOOLEAN, StartCreate(t, rd) PROVE StepOK(t)
  <2>1. PICK r : /\ Begin(t, r, "osn", "fd")
                 /\ r = [NoReq EXCEPT !.op = "create", !.hi = MaxSize, !.rd = rd]
    BY <1>5, Zenon DEF StartCreate
  <2>2. r \in Request /\ r.op = "create"
    BY <1>1, <1>2, <2>1, Zenon DEF Request
  <2> QED  BY <1>3, <1>5, <2>1, <2>2, BeginOK, Zenon DEF StartCreate, Which
<1>6. ASSUME NEW lo \in 0 .. MaxSize, NEW hi \in 0 .. MaxSize, NEW v \in Value,
             StartWrite(t, lo, hi, v)
      PROVE  StepOK(t)
  <2>1. PICK r : /\ Begin(t, r, "validate", "fd")
                 /\ r = [NoReq EXCEPT !.op = "write", !.lo = lo, !.hi = hi, !.val = v]
    BY <1>6, Zenon DEF StartWrite
  <2>2. r \in Request /\ r.op = "write"
    BY <1>1, <1>2, <2>1, Zenon DEF Request
  <2> QED  BY <1>3, <1>6, <2>1, <2>2, BeginOK, Zenon DEF StartWrite, Which
<1>7. ASSUME NEW n \in 0 .. MaxSize, StartFtruncate(t, n) PROVE StepOK(t)
  <2>1. PICK r : /\ Begin(t, r, "validate", "fd")
                 /\ r = [NoReq EXCEPT !.op = "ftruncate", !.lo = n, !.hi = MaxSize]
    BY <1>7, Zenon DEF StartFtruncate
  <2>2. r \in Request /\ r.op = "ftruncate"
    BY <1>1, <1>2, <2>1, Zenon DEF Request
  <2> QED  BY <1>3, <1>7, <2>1, <2>2, BeginOK, Zenon DEF StartFtruncate, Which
<1>8. ASSUME NEW n \in 0 .. MaxSize, StartTruncate(t, n) PROVE StepOK(t)
  <2>1. PICK r : /\ Begin(t, r, "osn", "tmp")
                 /\ r = [NoReq EXCEPT !.op = "truncate", !.lo = n, !.hi = MaxSize]
    BY <1>8, Zenon DEF StartTruncate
  <2>2. r \in Request /\ r.op = "truncate"
    BY <1>1, <1>2, <2>1, Zenon DEF Request
  <2> QED  BY <1>8, <2>1, <2>2, BeginOK, Zenon DEF StartTruncate, Which
<1>9. CASE StartUnlink(t)
  <2>1. PICK r : /\ Begin(t, r, "osn", "tmp")
                 /\ r = [NoReq EXCEPT !.op = "unlink", !.hi = MaxSize]
    BY <1>9, Zenon DEF StartUnlink
  <2>2. r \in Request /\ r.op = "unlink"
    BY <1>1, <1>2, <2>1, Zenon DEF Request
  <2> QED  BY <1>9, <2>1, <2>2, BeginOK, Zenon DEF StartUnlink, Which
<1> QED  BY <1>4, <1>5, <1>6, <1>7, <1>8, <1>9, CloseOK, Zenon DEF Start

(* The start of a request, which finds its handle as the last one left it. *)
LEMMA BeginIntact ==
    ASSUME Inv, Intact, FaultTypes, ~faults'.raced, NEW t \in Thread, StepOK(t), NEW r,
           NEW l \in {"osn", "validate"}, NEW c \in Which, Begin(t, r, l, c),
           l = "validate" => mfd[t].fd.open /\ c = "fd",
           r.op \in {"create", "unlink", "truncate", "ftruncate"} => r.hi = MaxSize,
           r.op \in {"create", "unlink"} => r.lo = 0,
           r.op = "create" => ~file.exists,
           r.op \in {"open", "create"} => c = "fd",
           r.op \in {"unlink", "truncate"} => c = "tmp"
    PROVE  Intact'
<1>1. /\ Known(t) /\ pc[t] = "idle" /\ snPc = "idle" /\ Calm /\ mfd' = mfd /\ Handled(t)
  <2>1. snPc = "idle"
    BY NotRaced, Zenon DEF Begin
  <2> QED  BY <2>1, Basics, Zenon DEF Begin, Calm, fileVars, snVars, Intact
<1>2. /\ Keeps(t) /\ DatKept /\ Frame(t) /\ Types' /\ sn' = sn /\ snPc' = snPc
      /\ earliest' = earliest /\ file' = file
  BY <1>1, CalmKeeps DEF StepOK, Frame, Calm
<1>3. /\ pc'[t] = l /\ req'[t] = r /\ loc'[t] = [NoLoc EXCEPT !.cur = c, !.blk = r.lo]
  BY <1>1 DEF Begin, Goto, Known, Types
<1>4. loc'[t].cur = c
  BY <1>3 DEF NoLoc
<1>5. Asked(t)'
  BY <1>2, <1>3, <1>4 DEF Asked
<1>6. Copied(t)'
  BY <1>3 DEF Copied, SavePc
<1>7. PICK e : e = mfd[t].fd
  BY Zenon
<1>8. UpToDate(e)' = UpToDate(e)
  BY <1>2, Zenon DEF UpToDate, Remains
<1>9. Handled(t)'
  BY <1>1, <1>2, <1>3, <1>4, <1>7, <1>8, Zenon DEF Handled, UsePc, SetupPc, FreshPc, MapPc
<1> QED  BY <1>2, <1>5, <1>6, <1>9, ThreadIntact, Zenon

(* release keeps the snapshots intact.                                     *)
LEMMA CloseIntact ==
    ASSUME Inv, Intact, NEW t \in Thread, Close(t) PROVE Intact'
<1>1. /\ Known(t) /\ StepOK(t) /\ pc[t] = "idle" /\ Calm /\ Handled(t) /\ Asked(t)
      /\ UNCHANGED <<pc, req, loc>> /\ sn.number >= 0
  <2>1. Known(t) /\ StepOK(t) /\ Handled(t) /\ Asked(t)
    BY Basics, CloseOK DEF Intact
  <2>2. pc[t] = "idle" /\ Calm /\ UNCHANGED <<pc, req, loc>>
    BY DEF Close, Calm, fileVars, snVars
  <2> QED  BY <2>1, <2>2 DEF Known, SnTypes
<1>2. /\ Keeps(t) /\ DatKept /\ Frame(t) /\ Types' /\ sn' = sn /\ file' = file
  BY <1>1, CalmKeeps, Zenon DEF StepOK, Frame, Calm
<1>3. mfd'[t].fd = NoMfd /\ NoMfd.num = 0 /\ ~NoMfd.open
  BY <1>1 DEF Close, Known, Types, NoMfd
<1>4. req[t].op = "none" /\ Copied(t)' /\ Asked(t)'
  BY <1>1, <1>2, Zenon DEF Known, Served, Copied, SavePc, Asked
<1>5. Handled(t)'
  BY <1>1, <1>2, <1>3, <1>4, Zenon DEF Handled, UsePc, SetupPc, FreshPc, MapPc
<1> QED  BY <1>2, <1>4, <1>5, ThreadIntact, Zenon

(* The arrival of any request keeps the snapshots intact.                  *)
LEMMA StartIntact ==
    ASSUME Inv, Intact, FaultTypes, ~faults'.raced, NEW t \in Thread, Start(t) PROVE Intact'
<1>1. /\ StepOK(t) /\ NoReq \in Request /\ NoReq.lo = 0 /\ "fd" \in Which /\ "tmp" \in Which
  BY StartOK, Constants DEF NoReq, Which
<1>2. CASE StartOpen(t)
  <2>1. PICK r : Begin(t, r, "osn", "fd") /\ r = [NoReq EXCEPT !.op = "open"]
    BY <1>2, Zenon DEF StartOpen
  <2>2. r.op = "open"
    BY <1>1, <2>1, Zenon DEF Request
  <2> QED  BY <1>1, <2>1, <2>2, BeginIntact, Zenon
<1>3. ASSUME NEW rd \in BOOLEAN, StartCreate(t, rd) PROVE Intact'
  <2>1. PICK r : /\ Begin(t, r, "osn", "fd")
                 /\ r = [NoReq EXCEPT !.op = "create", !.hi = MaxSize, !.rd = rd]
    BY <1>3, Zenon DEF StartCreate
  <2>2. r.op = "create" /\ r.hi = MaxSize /\ r.lo = 0 /\ ~file.exists
    BY <1>1, <1>3, <2>1, Zenon DEF Request, StartCreate
  <2> QED  BY <1>1, <2>1, <2>2, BeginIntact, Zenon
<1>4. ASSUME NEW lo, NEW hi, NEW v, StartWrite(t, lo, hi, v) PROVE Intact'
  <2>1. PICK r : /\ Begin(t, r, "validate", "fd")
                 /\ r = [NoReq EXCEPT !.op = "write", !.lo = lo, !.hi = hi, !.val = v]
    BY <1>4, Zenon DEF StartWrite
  <2>2. r.op = "write" /\ mfd[t].fd.open
    BY <1>1, <1>4, <2>1, Zenon DEF Request, StartWrite
  <2> QED  BY <1>1, <2>1, <2>2, BeginIntact, Zenon
<1>5. ASSUME NEW n, StartFtruncate(t, n) PROVE Intact'
  <2>1. PICK r : /\ Begin(t, r, "validate", "fd")
                 /\ r = [NoReq EXCEPT !.op = "ftruncate", !.lo = n, !.hi = MaxSize]
    BY <1>5, Zenon DEF StartFtruncate
  <2>2. r.op = "ftruncate" /\ r.hi = MaxSize /\ mfd[t].fd.open
    BY <1>1, <1>5, <2>1, Zenon DEF Request, StartFtruncate
  <2> QED  BY <1>1, <2>1, <2>2, BeginIntact, Zenon
<1>6. ASSUME NEW n, StartTruncate(t, n) PROVE Intact'
  <2>1. PICK r : /\ Begin(t, r, "osn", "tmp")
                 /\ r = [NoReq EXCEPT !.op = "truncate", !.lo = n, !.hi = MaxSize]
    BY <1>6, Zenon DEF StartTruncate
  <2>2. r.op = "truncate" /\ r.hi = MaxSize
    BY <1>1, <2>1, Zenon DEF Request
  <2> QED  BY <1>1, <2>1, <2>2, BeginIntact, Zenon
<1>7. CASE StartUnlink(t)
  <2>1. PICK r : /\ Begin(t, r, "osn", "tmp")
                 /\ r = [NoReq EXCEPT !.op = "unlink", !.hi = MaxSize]
    BY <1>7, Zenon DEF StartUnlink
  <2>2. r.op = "unlink" /\ r.hi = MaxSize /\ r.lo = 0
    BY <1>1, <2>1, Zenon DEF Request
  <2> QED  BY <1>1, <2>1, <2>2, BeginIntact, Zenon
<1> QED  BY <1>2, <1>3, <1>4, <1>5, <1>6, <1>7, CloseIntact, Zenon DEF Start
=============================================================================

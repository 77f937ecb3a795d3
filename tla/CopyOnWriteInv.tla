--------------------------- MODULE CopyOnWriteInv ---------------------------
(***************************************************************************)
(* The inductive invariants of module CopyOnWrite (Inv, and Intact for the *)
(* snapshots), and what every step of a thread has in common: what it      *)
(* leaves alone, and what is then left to be shown of it.  Modules         *)
(* OpenSnProofs and BWriteProofs show it of the steps of mfd.c and         *)
(* block.c, and CopyOnWriteProofs draws the conclusions.                   *)
(***************************************************************************)
EXTENDS CopyOnWrite, TLAPS

(* Where a thread has the file's lock; where it sets a handle up, without  *)
(* and with a map file; where b_write works on a block, and where it has   *)
(* found that the block is not saved.                                      *)
LockPc == {"map", "stat", "header", "unlock", "recheck", "pread", "seek", "append",
           "setptr", "saved"}
FreshPc == {"osn", "lat", "lock", "map"}
MapPc == {"stat", "header", "unlock", "dat"}
SetupPc == FreshPc \cup MapPc
SavePc == {"peek", "wlock", "recheck", "pread", "seek", "append", "setptr"}
CopyPc == {"pread", "seek", "append", "setptr"}
Which == {"fd", "tmp"}

(* Types of all that the proofs are about (not the readers).               *)
MapFile == [st : {"none", "empty", "saved"}, hdr : Header, ptr : [Block -> Nat]]
DatFile == [made : BOOLEAN, blk : Seq(Value), torn : BOOLEAN]
Request == [op : Op, lo : 0 .. MaxSize, hi : 0 .. MaxSize, val : Value, rd : BOOLEAN]
Local == [cur : Which, lat : 0 .. MaxSnap, blk : 0 .. MaxSize, buf : Value, dsz : Nat]
Types ==
    /\ file \in File
    /\ map \in [Snap -> MapFile]
    /\ dat \in [Snap -> DatFile]
    /\ sn \in [number : Nat, any : BOOLEAN, lat : 0 .. MaxSnap]
    /\ earliest \in Nat
    /\ holder \in [{FileLabel} -> Thread \cup Reader \cup {NoThread}]
    /\ pc \in [Thread -> PcLabel]
    /\ req \in [Thread -> Request]
    /\ loc \in [Thread -> Local]
    /\ mfd \in [Thread -> [fd : Mfd, tmp : Mfd]]

SnOrder ==
    /\ earliest >= 1 /\ (sn.any => earliest <= sn.lat) /\ earliest <= sn.lat + 1
    /\ sn.number <= sn.lat /\ (snPc = "number" => sn.number < sn.lat)
    /\ snPc \in {"idle", "number"}

(* Requests and the existence of the file.                                 *)
Served(t) ==
    /\ pc[t] = "idle" <=> req[t].op = "none"
    /\ pc[t] # "idle" /\ req[t].op # "create" => file.exists
    /\ mfd[t].fd.open => file.exists
    /\ req[t].op = "create" => ~mfd[t].fd.open
    /\ req[t].op \in {"create", "unlink"} => \A u \in Thread : u # t => pc[u] = "idle"
    /\ req[t].op = "unlink" => \A u \in Thread : ~mfd[u].fd.open

(* The set-up of a handle.                                                 *)
Setup(t) ==
    /\ pc[t] \in FreshPc => Cur(t).map \notin Snap
    /\ pc[t] \in MapPc => Cur(t).map = loc[t].lat /\ loc[t].lat \in Snap
    /\ pc[t] \in {"lock", "map"} => loc[t].lat \in Snap
    /\ pc[t] \in SetupPc \ {"osn"} => Cur(t).cache = 0
    /\ pc[t] \in {"stat", "header"} => map[loc[t].lat].st = "empty"
    /\ pc[t] \in {"validate", "renum"} => loc[t].cur = "fd"
    /\ pc[t] \in SetupPc \cup {"validate", "renum"} => loc[t].blk = req[t].lo
    /\ req[t].op \in {"write", "ftruncate"} => loc[t].cur = "fd"
    /\ loc[t].cur = "fd" => mfd[t].tmp = NoMfd
    /\ loc[t].lat <= sn.lat
    /\ pc[t] = "idle" => loc[t].cur = "fd" /\ (mfd[t].fd.open \/ mfd[t].fd = NoMfd)

(* A handle, on the whole.                                                 *)
Handle(t, w) ==
    LET m == mfd[t][w]
    IN  /\ m.map \in Snap \cup {NOSN, Closed}
        /\ m.map = NOSN => m.dat = NOSN
        /\ m.map \in Snap /\ m.dat >= 0 /\ ~(loc[t].cur = w /\ pc[t] \in SetupPc)
              => m.dat \in Snap
        /\ m.map \in Snap /\ ~(loc[t].cur = w /\ pc[t] \in {"stat", "header"}) =>
              /\ map[m.map].st = "saved" /\ m.hdr = map[m.map].hdr
              /\ m.cache # 0 => map[m.map].ptr[m.cache - 1] # 0

(* b_write.                                                                *)
Saving(t) ==
    /\ pc[t] \in SavePc => /\ loc[t].blk < SaveEnd(t, Cur(t))
                           /\ \/ Cur(t).map \in Snap /\ Cur(t).dat \in Snap
                              \/ pc[t] = "peek" /\ Cur(t).map = Closed
    /\ pc[t] \in CopyPc => Pointer(t) = 0

Locked(t) == pc[t] \in LockPc => holder[FileLabel] = t

(* A map file without a header has no pointers.                            *)
Unsaved == \A s \in Snap, b \in Block : map[s].st # "saved" => map[s].ptr[b] = 0

ThreadInv(t) == /\ Locked(t) /\ Served(t) /\ Setup(t) /\ Saving(t)
                /\ \A w \in Which : Handle(t, w)
Inv == Types /\ SnOrder /\ Unsaved /\ \A t \in Thread : ThreadInv(t)
-----------------------------------------------------------------------------
(* Numbers that are no file (types.h) are not snapshots.                   *)
LEMMA FdFacts ==
    /\ Snap \subseteq Nat \ {0} /\ Snap \subseteq Fd /\ Snap \subseteq 0 .. MaxSnap
    /\ NOSN \in Fd \ Snap /\ ENOENT \in Fd \ Snap /\ ZLEN \in Fd \ Snap /\ Closed \in Fd \ Snap
    /\ NOSN < 0 /\ ENOENT < 0 /\ ZLEN < 0 /\ Closed = 0 /\ Fd \subseteq Int
    /\ \A d \in Fd : d >= 0 <=> d \in Snap \cup {Closed}
    /\ 0 \in 0 .. MaxSize /\ 0 \in 0 .. MaxSnap
  BY BoundAssumption DEF Snap, Fd, NOSN, ENOENT, ZLEN, Closed

(* Initial values have their types.                                        *)
LEMMA Constants ==
    /\ NoFile \in File /\ NoHeader \in Header /\ NoMap \in MapFile /\ NoDat \in DatFile
    /\ NoMfd \in Mfd /\ NoReq \in Request /\ NoLoc \in Local
  BY FdFacts, ValueAssumption
  DEF NoFile, File, NoHeader, Header, NoMap, MapFile, NoDat, DatFile, NoMfd, Mfd, NoReq,
      Request, Op, NoLoc, Local, Which

(* The current mfd and what SetMfd does to the two of a thread.            *)
LEMMA CurType ==
    ASSUME Types, NEW t \in Thread
    PROVE  /\ Cur(t) \in Mfd /\ loc[t].cur \in Which /\ mfd[t].fd \in Mfd /\ mfd[t].tmp \in Mfd
           /\ mfd[t]["fd"] = mfd[t].fd /\ mfd[t]["tmp"] = mfd[t].tmp
           /\ loc[t] \in Local /\ req[t] \in Request /\ pc[t] \in PcLabel
  BY DEF Types, Cur, Local, Which

MfdSet(t, m) ==
    /\ mfd' \in [Thread -> [fd : Mfd, tmp : Mfd]]
    /\ mfd'[t][loc[t].cur] = m
    /\ \A w \in Which : w # loc[t].cur => mfd'[t][w] = mfd[t][w]
    /\ \A u \in Thread : u # t => mfd'[u] = mfd[u]
    /\ mfd'[t]["fd"] = mfd'[t].fd /\ mfd'[t]["tmp"] = mfd'[t].tmp
    /\ mfd'[t].fd = IF loc[t].cur = "fd" THEN m ELSE mfd[t].fd
    /\ mfd'[t].tmp = IF loc[t].cur = "tmp" THEN m ELSE mfd[t].tmp

(* Writing the current mfd of a request leaves the other mfd of the thread *)
(* and those of all other threads alone.                                   *)
LEMMA SetMfdFacts ==
    ASSUME Types, NEW t \in Thread, NEW m \in Mfd, SetMfd(t, m) PROVE MfdSet(t, m)
<1>1. loc[t].cur \in Which
  BY CurType
<1>2. mfd' \in [Thread -> [fd : Mfd, tmp : Mfd]]
  BY DEF Types, SetMfd
<1> QED  BY <1>1, <1>2 DEF SetMfd, Which, MfdSet

-----------------------------------------------------------------------------
(* What a step of thread t leaves alone: the other threads, the lock and   *)
(* the map files unless it has the lock, and all that is saved.            *)
Exclusively == {"create", "unlink"}
MapKept ==
    \A s \in Snap :
        /\ map[s].st = "saved" => map'[s].st = "saved" /\ map'[s].hdr = map[s].hdr
        /\ \A b \in Block : map[s].ptr[b] # 0 => map'[s].ptr[b] = map[s].ptr[b]
DatKept ==
    \A s \in Snap : \A i \in 1 .. Len(dat[s].blk) :
        i \in 1 .. Len(dat'[s].blk) /\ dat'[s].blk[i] = dat[s].blk[i]
OthersKept(t) ==
    \A u \in Thread : u # t =>
        /\ pc'[u] = pc[u] /\ req'[u] = req[u] /\ loc'[u] = loc[u] /\ mfd'[u] = mfd[u]
        /\ holder[FileLabel] = u => holder'[FileLabel] = u
FileKept(t) ==
    \/ file.exists => file'.exists
    \/ \A u \in Thread : u # t => pc[u] = "idle" /\ ~mfd[u].fd.open
StartKept(t) ==
    pc[t] = "idle" => /\ mfd'[t].fd.open => mfd[t].fd.open
                      /\ pc'[t] = "idle" \/ \A u \in Thread : req[u].op \notin Exclusively
Frame(t) ==
    /\ OthersKept(t) /\ FileKept(t) /\ StartKept(t)
    /\ holder[FileLabel] # t => map' = map
    /\ MapKept
    /\ UNCHANGED <<sn, snPc, earliest>>

StepOK(t) == Types' /\ Unsaved' /\ Frame(t) /\ ThreadInv(t)'

(* A step of one thread keeps the invariant of every other thread: it may  *)
(* touch the map files only with the file's lock, and what a map file has  *)
(* saved it never changes.                                                 *)
LEMMA OthersInv ==
    ASSUME Inv, NEW t \in Thread, Types', Frame(t), NEW u \in Thread, u # t
    PROVE  ThreadInv(u)'
<1> DEFINE m(w) == mfd[u][w]
<1>1. /\ pc'[u] = pc[u] /\ req'[u] = req[u] /\ loc'[u] = loc[u] /\ mfd'[u] = mfd[u]
      /\ holder[FileLabel] = u => holder'[FileLabel] = u /\ map' = map
  BY DEF Frame, OthersKept
<1>2. ThreadInv(u) /\ Types
  BY DEF Inv
<1>3. Locked(u)'
  BY <1>1, <1>2 DEF ThreadInv, Locked
<1>4. Served(u)'
  BY <1>2 DEF ThreadInv, Served, Frame, OthersKept, FileKept, StartKept, Exclusively
<1>5. Cur(u)' = Cur(u) /\ SaveEnd(u, Cur(u))' = SaveEnd(u, Cur(u))
  BY <1>1 DEF Cur, SaveEnd
<1>6. Setup(u)'
  BY <1>1, <1>2, <1>5 DEF ThreadInv, Setup, Locked, LockPc, Frame
<1>7. Saving(u)'
  BY <1>1, <1>2, <1>5 DEF ThreadInv, Saving, Locked, LockPc, CopyPc, Pointer
<1>8. ASSUME NEW w \in Which PROVE Handle(u, w)'
  <2>1. Handle(u, w) /\ mfd[u][w] \in Mfd
    BY <1>2, CurType DEF ThreadInv, Which
  <2>2. mfd[u][w].cache # 0 => mfd[u][w].cache - 1 \in Block
    BY <2>1, BoundAssumption DEF Mfd, Block
  <2> QED  BY <1>1, <2>1, <2>2, Zenon DEF Handle, Frame, MapKept
<1> QED  BY <1>3, <1>4, <1>6, <1>7, <1>8 DEF ThreadInv

(* So a step that is in order for its own thread keeps the whole           *)
(* invariant.                                                              *)
LEMMA Combine == ASSUME Inv, NEW t \in Thread, StepOK(t) PROVE Inv'
<1>1. \A u \in Thread : ThreadInv(u)'
  BY OthersInv DEF StepOK
<1>2. SnOrder'
  BY DEF StepOK, Frame, Inv, SnOrder
<1> QED  BY <1>1, <1>2 DEF StepOK, Inv
-----------------------------------------------------------------------------
(* Handle e is handle m with other values but for open and rd: the updates *)
(* of the code in this form.                                               *)
Updated(e, m, num, mapfd, datfd, hdr, cache) ==
    /\ e \in Mfd /\ e.open = m.open /\ e.rd = m.rd /\ e.num = num /\ e.map = mapfd
    /\ e.dat = datfd /\ e.hdr = hdr /\ e.cache = cache

(* The assignments to fields of struct mfd_t (mfd.c, block.c), one line    *)
(* each.                                                                   *)
LEMMA Updates ==
    ASSUME NEW m \in Mfd, NEW e, NEW num \in 0 .. MaxSnap, NEW mapfd \in Fd, NEW datfd \in Fd,
           NEW hdr \in Header, NEW cache \in 0 .. MaxSize
    PROVE  /\ e = [m EXCEPT !.num = num] => Updated(e, m, num, m.map, m.dat, m.hdr, m.cache)
           /\ e = [m EXCEPT !.num = num, !.cache = cache]
              => Updated(e, m, num, m.map, m.dat, m.hdr, cache)
           /\ e = [m EXCEPT !.map = mapfd] => Updated(e, m, m.num, mapfd, m.dat, m.hdr, m.cache)
           /\ e = [m EXCEPT !.map = mapfd, !.dat = datfd]
              => Updated(e, m, m.num, mapfd, datfd, m.hdr, m.cache)
           /\ e = [m EXCEPT !.map = mapfd, !.hdr = hdr]
              => Updated(e, m, m.num, mapfd, m.dat, hdr, m.cache)
           /\ e = [m EXCEPT !.hdr = hdr] => Updated(e, m, m.num, m.map, m.dat, hdr, m.cache)
           /\ e = [m EXCEPT !.dat = datfd] => Updated(e, m, m.num, m.map, datfd, m.hdr, m.cache)
           /\ e = [m EXCEPT !.cache = cache] => Updated(e, m, m.num, m.map, m.dat, m.hdr, cache)
  BY Zenon DEF Updated, Mfd

(* The program counters after a step.                                      *)
PcSet(t, l) ==
    pc' \in [Thread -> PcLabel] /\ pc'[t] = l /\ \A u \in Thread : u # t => pc'[u] = pc[u]

(* Going on to another place of the code moves one thread only.            *)
LEMMA GotoFacts ==
    ASSUME Types, NEW t \in Thread, NEW l \in PcLabel, Goto(t, l) PROVE PcSet(t, l)
  BY DEF Types, Goto, PcSet

(* What is known of a thread before a step.                                *)
SnTypes ==
    sn.number \in 0 .. MaxSnap /\ sn.lat \in 0 .. MaxSnap /\ (sn.any => sn.lat \in Snap)
ThreadTypes(t) ==
    /\ loc[t] \in Local /\ req[t] \in Request /\ pc[t] \in PcLabel
    /\ mfd[t].fd \in Mfd /\ mfd[t].tmp \in Mfd
    /\ mfd[t]["fd"] = mfd[t].fd /\ mfd[t]["tmp"] = mfd[t].tmp
CurTypes(t) ==
    /\ Cur(t) \in Mfd /\ loc[t].cur \in Which /\ Cur(t) = mfd[t][loc[t].cur]
    /\ Cur(t).num \in 0 .. MaxSnap /\ Cur(t).map \in Fd /\ Cur(t).dat \in Fd
    /\ Cur(t).hdr \in Header /\ Cur(t).cache \in 0 .. MaxSize
Known(t) ==
    /\ Types /\ SnOrder /\ Unsaved
    /\ Locked(t) /\ Served(t) /\ Setup(t) /\ Saving(t) /\ \A w \in Which : Handle(t, w)
    /\ SnTypes /\ ThreadTypes(t) /\ CurTypes(t)

(* The number of the latest snapshot is a number.                          *)
LEMMA NumberFacts == ASSUME SnTypes PROVE sn.number \in Nat /\ sn.number <= sn.number
<1>1. sn.number \in 0 .. MaxSnap /\ MaxSnap \in Nat
  BY BoundAssumption, Zenon DEF SnTypes
<1>2. PICK n : n = sn.number
  BY Zenon
<1>3. n \in Nat /\ n <= n
  BY <1>1, <1>2
<1> QED  BY <1>2, <1>3, Zenon

(* There is nothing to save before the first block of a request.           *)
LEMMA NoneBefore == \A n \in 0 .. MaxSize : \A b \in Block : ~(n <= b /\ b < n)
  BY BoundAssumption DEF Block

(* What the invariant says to a thread about to take a step.               *)
LEMMA Basics == ASSUME Inv, NEW t \in Thread PROVE Known(t)
<1>1. Types /\ SnOrder
  BY DEF Inv
<1>2. /\ Cur(t) \in Mfd /\ loc[t].cur \in Which /\ mfd[t].fd \in Mfd /\ mfd[t].tmp \in Mfd
      /\ mfd[t]["fd"] = mfd[t].fd /\ mfd[t]["tmp"] = mfd[t].tmp
      /\ loc[t] \in Local /\ req[t] \in Request /\ pc[t] \in PcLabel
  BY <1>1, CurType
<1>3. sn.number \in 0 .. MaxSnap /\ sn.lat \in 0 .. MaxSnap /\ (sn.any => sn.lat \in Snap)
  BY <1>1, BoundAssumption DEF Types, SnOrder, Snap
<1>4. /\ Cur(t).num \in 0 .. MaxSnap /\ Cur(t).map \in Fd /\ Cur(t).dat \in Fd
      /\ Cur(t).hdr \in Header /\ Cur(t).cache \in 0 .. MaxSize
  BY <1>2 DEF Mfd
<1>5. Cur(t) = mfd[t][loc[t].cur]
  BY Zenon DEF Cur
<1> QED
  BY <1>2, <1>3, <1>4, <1>5, Zenon
  DEF Inv, ThreadInv, Known, SnTypes, ThreadTypes, CurTypes

(* A handle that is not being set up stays as it is.                       *)
LEMMA HandleKept ==
    ASSUME NEW t \in Thread, NEW w \in Which, Types, Handle(t, w), MapKept,
           loc[t].cur # w \/ pc[t] \notin SetupPc, mfd'[t][w] = mfd[t][w]
    PROVE  Handle(t, w)'
<1>1. mfd[t][w] \in Mfd
  BY CurType DEF Which
<1>2. mfd[t][w].cache # 0 => mfd[t][w].cache - 1 \in Block
  BY <1>1, BoundAssumption DEF Mfd, Block
<1> QED  BY <1>2, SMTT(30) DEF Handle, MapKept, SetupPc, MapPc
-----------------------------------------------------------------------------
(* A step of a thread that serves a request and goes on to l, with locals  *)
(* x and current handle m.                                                 *)
Works(t, l, x, m) ==
    /\ pc[t] # "idle" /\ l \in PcLabel \ {"idle"} /\ PcSet(t, l)
    /\ x \in Local /\ x.cur = loc[t].cur /\ loc' = [loc EXCEPT ![t] = x]
    /\ m \in Mfd /\ m.open = Cur(t).open /\ MfdSet(t, m)
    /\ UNCHANGED <<file, sn, snPc, earliest, req>>
    /\ map' \in [Snap -> MapFile] /\ dat' \in [Snap -> DatFile]
    /\ holder' \in [{FileLabel} -> Thread \cup Reader \cup {NoThread}]
    /\ \A u \in Thread : u # t /\ holder[FileLabel] = u => holder'[FileLabel] = u
    /\ MapKept /\ (holder[FileLabel] # t => map' = map)

Moved(t, l, x, m) ==
    /\ pc'[t] = l /\ loc'[t] = x /\ req'[t] = req[t] /\ Cur(t)' = m
    /\ \A w \in Which : w = x.cur => mfd'[t][w] = m /\ mfd[t][w] = Cur(t)
    /\ mfd'[t].tmp = IF x.cur = "tmp" THEN m ELSE mfd[t].tmp

(* Such a step has its types, disturbs nobody else and keeps the handle    *)
(* the request does not work on.                                           *)
LEMMA Worked ==
    ASSUME Inv, NEW t \in Thread, NEW l, NEW x, NEW m, Works(t, l, x, m)
    PROVE  /\ Types' /\ Frame(t) /\ Served(t)' /\ Moved(t, l, x, m)
           /\ \A w \in Which : w # x.cur => Handle(t, w)'
<1>1. Known(t)
  BY Basics
<1>2. loc' \in [Thread -> Local] /\ loc'[t] = x /\ \A u \in Thread : u # t => loc'[u] = loc[u]
  BY <1>1 DEF Works, Known, Types
<1>3. Types'
  BY <1>1 DEF Works, Known, Types, MfdSet, PcSet
<1>4. Frame(t)
  BY DEF Works, Frame, OthersKept, FileKept, StartKept, MfdSet, PcSet
<1>5. Moved(t, l, x, m)
  BY <1>2 DEF Works, Moved, Cur, MfdSet, PcSet
<1>6. mfd'[t].fd.open = mfd[t].fd.open
  BY <1>1, Zenon DEF Works, MfdSet, Known, CurTypes
<1>7. Served(t)'
  BY <1>1, <1>6 DEF Works, Served, Known, SnTypes, ThreadTypes, MfdSet, PcSet
<1>8. ASSUME NEW w \in Which, w # x.cur PROVE Handle(t, w)'
  BY <1>1, <1>8, HandleKept DEF Works, MfdSet, Known
<1> QED  BY <1>3, <1>4, <1>5, <1>7, <1>8

(* Leaving the handles alone is writing the current one back.              *)
LEMMA SameMfd ==
    ASSUME Inv, NEW t \in Thread, mfd' = mfd PROVE MfdSet(t, Cur(t))
<1>1. Known(t)
  BY Basics
<1> QED  BY <1>1 DEF MfdSet, Known, CurTypes, Types

(* And so for the locals of a request.                                     *)
LEMMA SameLoc ==
    ASSUME Types, NEW t \in Thread, loc' = loc PROVE loc' = [loc EXCEPT ![t] = loc[t]]
  BY DEF Types

(* What remains to be shown of such a step.                                *)
LEMMA WorkedOK ==
    ASSUME Inv, NEW t \in Thread, NEW l, NEW x, NEW m, Works(t, l, x, m),
           Unsaved', Locked(t)', Setup(t)', Saving(t)',
           \A w \in Which : w = x.cur => Handle(t, w)'
    PROVE  StepOK(t)
  BY Worked DEF StepOK, ThreadInv

(* The lock, as one step takes or releases it.                             *)
LEMMA LockFacts ==
    ASSUME Types, NEW t \in Thread
    PROVE  /\ Lock!Acquire(t, FileLabel) =>
                /\ holder' \in [{FileLabel} -> Thread \cup Reader \cup {NoThread}]
                /\ holder[FileLabel] = NoThread /\ holder'[FileLabel] = t
           /\ Lock!Release(t, FileLabel) =>
                /\ holder' \in [{FileLabel} -> Thread \cup Reader \cup {NoThread}]
                /\ holder[FileLabel] = t
  BY DEF Types, Lock!Acquire, Lock!Release

(* A step that changes neither handles nor map files.                      *)
Steady(t, l, x) ==
    /\ pc[t] # "idle" /\ l \in PcLabel \ {"idle"} /\ PcSet(t, l)
    /\ x \in Local /\ x.cur = loc[t].cur /\ loc' = [loc EXCEPT ![t] = x]
    /\ UNCHANGED <<file, sn, snPc, earliest, req, mfd, map>>
    /\ dat' \in [Snap -> DatFile]
    /\ holder' \in [{FileLabel} -> Thread \cup Reader \cup {NoThread}]
    /\ \A u \in Thread : u # t /\ holder[FileLabel] = u => holder'[FileLabel] = u

(* What remains to be shown of a step that only moves on (peeking at a     *)
(* pointer, reading the old block, taking or releasing the lock).          *)
LEMMA SteadyOK ==
    ASSUME Inv, NEW t \in Thread, NEW l, NEW x, Steady(t, l, x),
           pc[t] \in SetupPc => l \in SetupPc,
           pc[t] \in {"stat", "header"} => l \in {"stat", "header"},
           Locked(t)', Setup(t)', Saving(t)'
    PROVE  StepOK(t)
<1>1. Known(t)
  BY Basics
<1>2. Works(t, l, x, Cur(t))
  BY <1>1, SameMfd DEF Steady, Works, Known, CurTypes, Types, MapKept
<1>3. Moved(t, l, x, Cur(t))
  BY <1>2, Worked
<1>4. Unsaved'
  BY <1>1 DEF Steady, Unsaved, Known
<1>5. ASSUME NEW w \in Which, w = x.cur PROVE Handle(t, w)'
  <2>1. Handle(t, w) /\ mfd' = mfd /\ map' = map /\ loc[t].cur = w /\ loc'[t].cur = w /\ pc'[t] = l
    BY <1>1, <1>3, <1>5, Zenon DEF Known, Moved, Steady
  <2> QED  BY <2>1, Zenon DEF Handle
<1> QED  BY <1>2, <1>4, <1>5, WorkedOK

(* Where the thread is after it.                                           *)
LEMMA SteadyMoved ==
    ASSUME Inv, NEW t \in Thread, NEW l, NEW x, Steady(t, l, x)
    PROVE  Moved(t, l, x, Cur(t))
<1>1. Known(t)
  BY Basics
<1>2. Works(t, l, x, Cur(t))
  BY <1>1, SameMfd DEF Steady, Works, Known, CurTypes, Types, MapKept
<1> QED  BY <1>2, Worked

-----------------------------------------------------------------------------
(* The end of a request.                                                   *)
Valid(m) ==
    /\ m.map \in Snap \cup {NOSN, Closed}
    /\ m.map = NOSN => m.dat = NOSN
    /\ m.map \in Snap /\ m.dat >= 0 => m.dat \in Snap
    /\ m.map \in Snap => /\ map[m.map].st = "saved" /\ m.hdr = map[m.map].hdr
                         /\ m.cache # 0 => map[m.map].ptr[m.cache - 1] # 0

(* A finished handle stays usable, because what is saved is never changed. *)
LEMMA ValidKept == ASSUME NEW m \in Mfd, Valid(m), MapKept PROVE Valid(m)'
<1>1. m.cache # 0 => m.cache - 1 \in Block
  BY BoundAssumption DEF Mfd, Block
<1> QED  BY <1>1 DEF Valid, MapKept

(* The handle of an open file is usable whenever it is not being set up.   *)
LEMMA FdValid ==
    ASSUME Inv, NEW t \in Thread, loc[t].cur # "fd" \/ pc[t] \notin SetupPc
    PROVE  Valid(mfd[t].fd)
<1>1. Handle(t, "fd") /\ mfd[t]["fd"] = mfd[t].fd
  BY Basics DEF Known, Which
<1> QED  BY <1>1, Zenon DEF Handle, Valid, SetupPc, MapPc

(* The handle that mfd_close_sn leaves behind.                             *)
LEMMA ClosedHandle ==
    ASSUME NEW m \in Mfd, m.map \in Snap \cup {NOSN, Closed}, m.map = NOSN => m.dat = NOSN
    PROVE  /\ ClosedSn(m) \in Mfd /\ ClosedSn(m).open = m.open /\ ClosedSn(m).num = m.num
           /\ ClosedSn(m).dat \notin Snap /\ Valid(ClosedSn(m))
<1>1. PICK a, d : /\ a = IF m.map >= 0 THEN Closed ELSE m.map
                  /\ d = IF m.dat >= 0 THEN Closed ELSE m.dat
  BY Zenon
<1>2. ClosedSn(m) = [m EXCEPT !.map = a, !.dat = d]
  BY <1>1, Zenon DEF ClosedSn
<1>3. m.map \in Fd /\ m.dat \in Fd
  BY Zenon DEF Mfd
<1>4. /\ a \in Fd /\ d \in Fd /\ a \notin Snap /\ d \notin Snap /\ a \in {NOSN, Closed}
      /\ a = NOSN => d = NOSN
  BY <1>1, <1>3, FdFacts
<1>5. /\ ClosedSn(m) \in Mfd /\ ClosedSn(m).open = m.open /\ ClosedSn(m).num = m.num
      /\ ClosedSn(m).map = a /\ ClosedSn(m).dat = d
  BY <1>2, <1>4, Zenon DEF Mfd
<1> QED  BY <1>4, <1>5, Zenon DEF Valid

(* The request of t ends, and its handle was h.                            *)
Ends(t, h) ==
    /\ pc[t] # "idle" /\ Return(t) /\ Handles(t, h) /\ h \in Mfd
    /\ h.open => file'.exists /\ Valid(h)
    /\ file' \in File /\ FileKept(t)
    /\ map' \in [Snap -> MapFile] /\ MapKept /\ Unsaved' /\ (holder[FileLabel] # t => map' = map)
    /\ holder' \in [{FileLabel} -> Thread \cup Reader \cup {NoThread}]
    /\ \A u \in Thread : u # t /\ holder[FileLabel] = u => holder'[FileLabel] = u
    /\ UNCHANGED <<dat, sn, snPc, earliest>>

(* The end of a request (the return of the FUSE handler, with mfd_close_sn *)
(* for a temporary handle) keeps the invariant.                            *)
LEMMA EndsOK == ASSUME Inv, NEW t \in Thread, NEW h, Ends(t, h) PROVE StepOK(t)
<1>1. Known(t) /\ sn.lat >= 0
  BY Basics DEF Known, SnTypes
<1>2. PICK g : g = IF h.open THEN h ELSE NoMfd
  BY Zenon
<1>3. NoMfd \in Mfd /\ NoReq \in Request /\ NoLoc \in Local /\ ~NoMfd.open /\ "idle" \in PcLabel
  BY Constants DEF NoMfd, PcLabel
<1>4. /\ g \in Mfd /\ (g.open => file'.exists) /\ (g = NoMfd \/ g.open)
  BY <1>2, <1>3 DEF Ends
<1>5. Valid(g)'
  <2>1. NoMfd.map = NOSN /\ NoMfd.dat = NOSN
    BY DEF NoMfd
  <2>2. Valid(NoMfd)
    BY <2>1, FdFacts DEF Valid
  <2>3. Valid(g)
    BY <1>2, <2>2 DEF Ends
  <2> QED  BY <1>4, <2>3, ValidKept DEF Ends
<1>6. mfd' = [mfd EXCEPT ![t] = [fd |-> g, tmp |-> NoMfd]]
  BY <1>2 DEF Ends, Handles
<1>7. /\ mfd' \in [Thread -> [fd : Mfd, tmp : Mfd]] /\ mfd'[t].fd = g /\ mfd'[t].tmp = NoMfd
      /\ mfd'[t]["fd"] = g /\ mfd'[t]["tmp"] = NoMfd
      /\ \A u \in Thread : u # t => mfd'[u] = mfd[u]
  BY <1>1, <1>3, <1>4, <1>6 DEF Known, Types
<1>8. /\ pc' \in [Thread -> PcLabel] /\ pc'[t] = "idle"
      /\ req' \in [Thread -> Request] /\ req'[t] = NoReq
      /\ loc' \in [Thread -> Local] /\ loc'[t] = NoLoc
      /\ \A u \in Thread : u # t => pc'[u] = pc[u] /\ req'[u] = req[u] /\ loc'[u] = loc[u]
  BY <1>1, <1>3 DEF Ends, Return, Known, Types
<1>9. NoReq.op = "none" /\ NoLoc.cur = "fd" /\ NoLoc.lat = 0 /\ NoMfd.map = NOSN /\ NoMfd.dat = NOSN
  BY DEF NoReq, NoLoc, NoMfd
<1>10. Types'
  BY <1>1, <1>7, <1>8 DEF Ends, Known, Types
<1>11. Frame(t)
  BY <1>7, <1>8 DEF Ends, Frame, OthersKept, StartKept
<1>12. Locked(t)' /\ Saving(t)'
  BY <1>8 DEF Locked, LockPc, Saving, SavePc, CopyPc
<1>13. Served(t)'
  BY <1>4, <1>7, <1>8, <1>9 DEF Served
<1>14. Setup(t)'
  BY <1>1, <1>4, <1>7, <1>8, <1>9 DEF Setup, SetupPc, FreshPc, MapPc, Ends
<1>15. Handle(t, "fd")'
  BY <1>5, <1>7 DEF Handle, Valid
<1>16. Handle(t, "tmp")'
  BY <1>7, <1>9, FdFacts DEF Handle
<1> QED  BY <1>10, <1>11, <1>12, <1>13, <1>14, <1>15, <1>16 DEF StepOK, ThreadInv, Which, Ends

(* mflock_unlock on a way out of the code takes nobody else's lock away.   *)
LEMMA ReleaseFacts ==
    ASSUME Types, NEW t \in Thread, ReleaseIfHeld(t)
    PROVE  /\ holder' \in [{FileLabel} -> Thread \cup Reader \cup {NoThread}]
           /\ \A u \in Thread : u # t /\ holder[FileLabel] = u => holder'[FileLabel] = u
  BY LockFacts DEF ReleaseIfHeld, Types

(* Nothing but the handles and the lock changes.                           *)
LEMMA QuietEnd ==
    ASSUME Inv, NEW t \in Thread, pc[t] # "idle", Return(t), NEW h \in Mfd, Handles(t, h),
           h.open => mfd[t].fd.open, h.open => Valid(h),
           ReleaseIfHeld(t), UNCHANGED <<file, map, dat, sn, snPc, earliest>>
    PROVE  StepOK(t)
<1>1. Known(t)
  BY Basics
<1>2. Ends(t, h)
  BY <1>1, ReleaseFacts, Zenon DEF Ends, Known, Types, FileKept, MapKept, Unsaved, Served
<1> QED  BY <1>2, EndsOK
-----------------------------------------------------------------------------
(* The attributes of a file, as a map header has them, and the file as it  *)
(* was when the snapshot after s was taken, or as it is now.               *)
Attr(f) == [exists |-> f.exists, size |-> f.size]
After(s) == IF s = sn.lat THEN file ELSE taken[s + 1]

(* What snapshot s has saved is the file as it was taken; what it has not  *)
(* saved has not changed until the next snapshot.                          *)
LinkedHeader(s) ==
    /\ map[s].st = "saved" => map[s].hdr = Attr(taken[s])
    /\ map[s].st # "saved" => Attr(After(s)) = Attr(taken[s])
LinkedBlock(s, b) ==
    /\ map[s].ptr[b] # 0 => /\ map[s].ptr[b] <= Len(dat[s].blk)
                            /\ dat[s].blk[map[s].ptr[b]] = taken[s].data[b]
    /\ map[s].ptr[b] = 0 => b < After(s).size /\ After(s).data[b] = taken[s].data[b]
Linked(s) == /\ LinkedHeader(s)
             /\ \A b \in Block : b < taken[s].size => LinkedBlock(s, b)

Remains == earliest <= sn.lat

(* The disk.  Map files are only made for snapshots that were taken, and   *)
(* no request is served while one is.                                      *)
Disk ==
    /\ taken \in [Snap -> File]
    /\ \A s \in Snap : ~taken[s].exists => taken[s].size = 0
    /\ ~file.exists => file.size = 0
    /\ \A s \in Snap : s > sn.lat => map[s].st = "none" /\ \A b \in Block : map[s].ptr[b] = 0
    /\ \A s \in Snap : earliest <= s /\ s <= sn.lat => Linked(s)
    /\ ~sn.any => ~Remains
    /\ snPc = "number" => AllIdle

(* A handle set up for the latest snapshot; the places of a request where  *)
(* its handle is one; and what is known of the handles of a thread.        *)
UpToDate(m) ==
    \/ /\ m.map \in Snap /\ m.map = sn.lat
       /\ m.dat >= 0 => m.dat = sn.lat
       /\ m.hdr.exists /\ m.hdr.size > 0 => m.dat >= 0
    \/ m.map = NOSN /\ m.dat = NOSN /\ ~Remains
UsePc == PcLabel \ (SetupPc \cup {"idle", "validate"})
Handled(t) ==
    /\ mfd[t].fd.num <= sn.number
    /\ pc[t] = "validate" => mfd[t].fd.open
    /\ pc[t] \in UsePc => UpToDate(Cur(t))
    /\ pc[t] \in UsePc \cup (SetupPc \ {"osn"}) /\ loc[t].cur = "fd" => Cur(t).num = sn.number
    /\ req[t].op = "create" /\ loc[t].cur = "tmp"
         => UpToDate(mfd[t].fd) /\ mfd[t].fd.num = sn.number
    /\ mfd[t].fd.open /\ mfd[t].fd.num = sn.number /\ snPc = "idle"
         /\ ~(loc[t].cur = "fd" /\ pc[t] \in SetupPc) => UpToDate(mfd[t].fd)
    /\ pc[t] \in MapPc \cup {"lock", "map"} => loc[t].lat = sn.lat

(* The range of a request is saved up to the block b_write works on, and   *)
(* the block in its buffer is that of the snapshot.                        *)
SavedTo(t, n) ==
    \A b \in Block : req[t].lo <= b /\ b < n /\ b < taken[sn.lat].size
                     => map[sn.lat].ptr[b] # 0
Asked(t) ==
    /\ req[t].op \in {"create", "unlink", "truncate", "ftruncate"} => req[t].hi = MaxSize
    /\ req[t].op \in {"create", "unlink"} => req[t].lo = 0
    /\ req[t].op = "create" => ~file.exists
    /\ req[t].op = "open" => loc[t].cur = "fd"
    /\ req[t].op \in {"unlink", "truncate"} => loc[t].cur = "tmp"
Copied(t) ==
    /\ pc[t] = "append" => loc[t].dsz = Len(dat[Cur(t).dat].blk)
    /\ pc[t] = "setptr" => /\ Len(dat[Cur(t).dat].blk) = loc[t].dsz + 1
                           /\ dat[Cur(t).dat].blk[loc[t].dsz + 1] = loc[t].buf
    /\ Remains =>
         /\ pc[t] = "header" => Cur(t).hdr = Attr(taken[sn.lat])
         /\ pc[t] \in {"seek", "append", "setptr"} => loc[t].buf = taken[sn.lat].data[loc[t].blk]
         /\ pc[t] \in SavePc => SavedTo(t, loc[t].blk)
         /\ pc[t] \in {"saved", "apply"} /\ req[t].op \notin {"open", "create"}
              => SavedTo(t, req[t].hi)

Intact == Disk /\ \A t \in Thread : Handled(t) /\ Asked(t) /\ Copied(t)
IntactInvariant == ~faults.stale /\ ~faults.raced => Intact
-----------------------------------------------------------------------------
(* And what the checks of block.c:480 and of the requests need: the block  *)
(* to be saved is still there, and what a change destroys is saved.        *)
LEMMA LatestFacts ==
    ASSUME Inv, Intact, Remains
    PROVE  /\ sn.lat \in Snap /\ Linked(sn.lat) /\ After(sn.lat) = file
           /\ taken[sn.lat] \in File /\ file \in File
<1>1. sn.lat \in Snap /\ file \in File /\ sn.lat <= sn.lat
  BY DEF Inv, Types, SnOrder, Remains, Snap
<1>2. taken[sn.lat] \in File
  BY <1>1, Zenon DEF Intact, Disk
<1> QED  BY <1>1, <1>2, Zenon DEF Intact, Disk, Remains, After

(* A handle in use whose map file is open: the header it has is that of    *)
(* the latest snapshot.                                                    *)
LEMMA UseFacts ==
    ASSUME Inv, Intact, Remains, NEW t \in Thread, pc[t] \in UsePc
    PROVE  /\ Cur(t).map = sn.lat /\ map[sn.lat].st = "saved" /\ Cur(t).hdr = map[sn.lat].hdr
           /\ Cur(t).hdr = Attr(taken[sn.lat])
           /\ Cur(t).hdr.exists = taken[sn.lat].exists /\ Cur(t).hdr.size = taken[sn.lat].size
<1>1. Known(t) /\ UpToDate(Cur(t)) /\ sn.lat \in Snap
  BY Basics, LatestFacts, Zenon DEF Intact, Handled
<1>2. PICK w \in Which : w = loc[t].cur /\ mfd[t][w] = Cur(t) /\ Handle(t, w)
  BY <1>1, Zenon DEF Known, CurTypes
<1>3. Cur(t).map = sn.lat
  BY <1>1, Zenon DEF UpToDate
<1>4. map[sn.lat].st = "saved" /\ Cur(t).hdr = map[sn.lat].hdr
  BY <1>1, <1>2, <1>3, Zenon DEF Handle, UsePc, SetupPc, MapPc
<1>5. Cur(t).hdr = Attr(taken[sn.lat])
  BY <1>4, LatestFacts, Zenon DEF Linked, LinkedHeader
<1> QED  BY <1>3, <1>4, <1>5 DEF Attr

(* While b_write works on a block that it has to save, it works for the    *)
(* latest snapshot, and the block belongs to it.                           *)
LEMMA SavingBlock ==
    ASSUME Inv, Intact, Remains, NEW t \in Thread, pc[t] \in SavePc
    PROVE  /\ loc[t].blk \in Block /\ loc[t].blk < taken[sn.lat].size
           /\ Cur(t).map = sn.lat /\ Cur(t).dat = sn.lat
           /\ LinkedBlock(sn.lat, loc[t].blk)
<1>1. /\ Known(t) /\ pc[t] \in UsePc /\ UpToDate(Cur(t)) /\ sn.lat \in Snap
      /\ taken[sn.lat] \in File /\ loc[t].blk \in 0 .. MaxSize
  BY Basics, LatestFacts, Zenon DEF Intact, Handled, SavePc, UsePc, PcLabel, SetupPc, FreshPc, MapPc,
     Known, ThreadTypes, Local
<1>2. Cur(t).map = sn.lat /\ Cur(t).hdr.size = taken[sn.lat].size
  BY <1>1, UseFacts, Zenon
<1>3. Cur(t).dat = sn.lat
  <2>1. Cur(t).dat \in Snap
    BY <1>1, <1>2, FdFacts, Zenon DEF Known, Saving
  <2> QED  BY <1>1, <2>1, FdFacts, Zenon DEF UpToDate
<1>4. loc[t].blk < taken[sn.lat].size
  <2>1. /\ loc[t].blk < SaveEnd(t, Cur(t)) /\ Cur(t).hdr.size \in 0 .. MaxSize
        /\ req[t].hi \in 0 .. MaxSize
    BY <1>1, Zenon DEF Known, Saving, CurTypes, Header, ThreadTypes, Request
  <2> QED  BY <1>1, <1>2, <2>1 DEF SaveEnd
<1>5. loc[t].blk \in Block
  <2>1. taken[sn.lat].size \in 0 .. MaxSize
    BY <1>1 DEF File
  <2> QED  BY <1>1, <1>4, <2>1, BoundAssumption, SMTT(30) DEF Block
<1>6. LinkedBlock(sn.lat, loc[t].blk)
  BY <1>4, <1>5, LatestFacts DEF Linked
<1> QED  BY <1>2, <1>3, <1>4, <1>5, <1>6

(* So the old block is in the main file when b_write reads it.             *)
LEMMA OldBlockShown == ASSUME Inv, Intact PROVE OldBlockThere
<1> SUFFICES ASSUME NEW t \in Thread, pc[t] = "pread", earliest <= Cur(t).map
             PROVE  loc[t].blk < file.size
  BY DEF OldBlockThere
<1>1. Known(t) /\ pc[t] \in SavePc /\ Pointer(t) = 0 /\ Cur(t).map \in Snap
  BY Basics DEF SavePc, CopyPc, Known, Saving
<1>2. pc[t] \in UsePc /\ UpToDate(Cur(t))
  BY DEF Intact, Handled, UsePc, PcLabel, SetupPc, FreshPc, MapPc
<1>3. Remains
  BY <1>1, <1>2, FdFacts, Zenon DEF UpToDate, Remains
<1>4. Cur(t).map = sn.lat /\ LinkedBlock(sn.lat, loc[t].blk)
  BY <1>1, <1>3, SavingBlock, Zenon
<1> QED  BY <1>1, <1>3, <1>4, LatestFacts, Zenon DEF LinkedBlock, Pointer

(* And the range of a change is saved when it reaches the main file; a     *)
(* file that is created had no blocks to save.                             *)
LEMMA SavedShown == ASSUME Inv, Intact PROVE SavedBeforeChange
<1> SUFFICES ASSUME NEW t \in Thread, pc[t] = "apply", req[t].op # "open", sn.any,
                    NEW b \in req[t].lo .. req[t].hi - 1, b < taken[sn.lat].size
             PROVE  map[sn.lat].ptr[b] # 0
  BY DEF SavedBeforeChange
<1>1. Known(t) /\ Remains
  BY Basics DEF Known, SnOrder, Remains
<1>2. req[t].lo \in 0 .. MaxSize /\ req[t].hi \in 0 .. MaxSize
  BY <1>1 DEF Known, ThreadTypes, Request
<1>3. b \in Block /\ req[t].lo <= b /\ b < req[t].hi
  BY <1>2, BoundAssumption DEF Block
<1>4. CASE req[t].op # "create"
  BY <1>1, <1>3, <1>4, Zenon DEF Intact, Copied, SavedTo
<1>5. CASE req[t].op = "create"
  <2>1. file.size = 0
    BY <1>5 DEF Intact, Asked, Disk
  <2>2. LinkedBlock(sn.lat, b)
    BY <1>1, <1>3, LatestFacts DEF Linked
  <2>3. ~(b < 0)
    BY <1>3 DEF Block
  <2> QED  BY <1>1, <2>1, <2>2, <2>3, LatestFacts, Zenon DEF LinkedBlock
<1> QED  BY <1>4, <1>5

(* And handles that mfd_validate accepts belong to the latest snapshot.    *)
LEMMA LatestShown == ASSUME Inv, Intact PROVE ValidMeansLatest
<1> SUFFICES ASSUME NEW t \in Thread, mfd[t].fd.open, pc[t] = "idle", snPc = "idle",
                    mfd[t].fd.num = sn.number
             PROVE  mfd[t].fd.map \in {NOSN, sn.lat}
  BY DEF ValidMeansLatest
<1> QED  BY DEF Intact, Handled, SetupPc, FreshPc, MapPc, UpToDate
-----------------------------------------------------------------------------
(* What is left to be shown of a step of thread t besides StepOK: it       *)
(* changes no map file but that of the latest snapshot, it appends blocks  *)
(* only with the file's lock, and it leaves the latest snapshot linked.    *)
Keeps(t) ==
    /\ taken' = taken
    /\ pc[t] = "idle" => file' = file
    /\ holder[FileLabel] # t => \A s \in Snap : dat'[s].blk = dat[s].blk
    /\ \A s \in Snap : s # sn.lat => map'[s] = map[s]
    /\ ~file'.exists => file'.size = 0
    /\ Remains => Linked(sn.lat)'
    /\ snPc = "number" => pc'[t] = "idle"

(* Such a step keeps what is known of the other threads.                   *)
LEMMA OthersIntact ==
    ASSUME Inv, Intact, NEW t \in Thread, Frame(t), Keeps(t), NEW u \in Thread, u # t
    PROVE  Handled(u)' /\ Asked(u)' /\ Copied(u)'
<1>1. /\ pc'[u] = pc[u] /\ req'[u] = req[u] /\ loc'[u] = loc[u] /\ mfd'[u] = mfd[u]
      /\ sn' = sn /\ snPc' = snPc /\ earliest' = earliest /\ taken' = taken
      /\ Handled(u) /\ Asked(u) /\ Copied(u) /\ Known(u)
  BY Basics, Zenon DEF Frame, OthersKept, Keeps, Intact
<1>2. Cur(u)' = Cur(u)
  BY <1>1 DEF Cur
<1>3. Handled(u)'
  <2>1. PICK c, f : c = Cur(u) /\ f = mfd[u].fd /\ Cur(u)' = c /\ mfd'[u].fd = f
    BY <1>1, <1>2, Zenon
  <2>2. (UpToDate(Cur(u))' <=> UpToDate(c)) /\ (UpToDate(Cur(u)) <=> UpToDate(c))
    BY <1>1, <2>1, Zenon DEF UpToDate, Remains
  <2>3. (UpToDate(mfd[u].fd)' <=> UpToDate(f)) /\ (UpToDate(mfd[u].fd) <=> UpToDate(f))
    BY <1>1, <2>1, Zenon DEF UpToDate, Remains
  <2> QED  BY <1>1, <1>2, <2>2, <2>3, Zenon DEF Handled
<1>4. Asked(u)'
  <2>1. req[u].op = "create" => file' = file
    BY <1>1, Zenon DEF Known, Served, Keeps
  <2> QED  BY <1>1, <2>1, Zenon DEF Asked
<1>5. ASSUME NEW n, Remains, SavedTo(u, n) PROVE SavedTo(u, n)'
  <2>1. sn.lat \in Snap
    BY <1>5, LatestFacts, Zenon
  <2>2. \A b \in Block : map[sn.lat].ptr[b] # 0 => map'[sn.lat].ptr[b] # 0
    BY <2>1 DEF Frame, MapKept
  <2> QED  BY <1>1, <1>5, <2>2 DEF SavedTo
<1>6. pc[u] \in {"append", "setptr"} => dat'[Cur(u).dat].blk = dat[Cur(u).dat].blk
  <2>1. pc[u] \in {"append", "setptr"} => holder[FileLabel] # t /\ Cur(u).dat \in Snap
    BY <1>1, Zenon DEF Known, Locked, LockPc, Saving, SavePc
  <2> QED  BY <2>1 DEF Keeps
<1>7. Copied(u)'
  BY <1>1, <1>2, <1>5, <1>6, Zenon DEF Copied, Remains
<1> QED  BY <1>3, <1>4, <1>7, Zenon

(* A snapshot stays linked when its dat file grows.                        *)
LEMMA LinkedKept ==
    ASSUME Types, Types', DatKept, NEW s \in Snap, Linked(s), map'[s] = map[s],
           After(s)' = After(s), taken' = taken
    PROVE  Linked(s)'
<1>1. ASSUME NEW b \in Block, b < taken[s].size PROVE LinkedBlock(s, b)'
  <2>1. LinkedBlock(s, b)
    BY <1>1 DEF Linked
  <2>2. map[s].ptr[b] \in Nat /\ dat[s].blk \in Seq(Value) /\ dat'[s].blk \in Seq(Value)
    BY DEF Types, MapFile, DatFile
  <2>3. map[s].ptr[b] # 0 => /\ map[s].ptr[b] <= Len(dat'[s].blk)
                             /\ dat'[s].blk[map[s].ptr[b]] = dat[s].blk[map[s].ptr[b]]
    <3> SUFFICES ASSUME map[s].ptr[b] # 0
                 PROVE  /\ map[s].ptr[b] <= Len(dat'[s].blk)
                        /\ dat'[s].blk[map[s].ptr[b]] = dat[s].blk[map[s].ptr[b]]
      BY Zenon
    <3>1. map[s].ptr[b] \in 1 .. Len(dat[s].blk)
      BY <2>1, <2>2 DEF LinkedBlock
    <3>2. /\ map[s].ptr[b] \in 1 .. Len(dat'[s].blk)
          /\ dat'[s].blk[map[s].ptr[b]] = dat[s].blk[map[s].ptr[b]]
      BY <3>1, Zenon DEF DatKept
    <3> QED  BY <2>2, <3>2, SMTT(30)
  <2> QED  BY <2>1, <2>3, Zenon DEF LinkedBlock
<1>2. LinkedHeader(s)'
  BY DEF Linked, LinkedHeader
<1> QED  BY <1>1, <1>2 DEF Linked

(* So it keeps the snapshots intact if it keeps what is known of its own   *)
(* thread.                                                                 *)
LEMMA ThreadIntact ==
    ASSUME Inv, Intact, NEW t \in Thread, Frame(t), DatKept, Types', Keeps(t),
           Handled(t)', Asked(t)', Copied(t)'
    PROVE  Intact'
<1>1. \A u \in Thread : Handled(u)' /\ Asked(u)' /\ Copied(u)'
  BY OthersIntact, Zenon
<1>2. /\ sn' = sn /\ snPc' = snPc /\ earliest' = earliest /\ taken' = taken
      /\ Disk /\ sn.lat \in 0 .. MaxSnap
  BY DEF Frame, Keeps, Intact, Inv, Types
<1>3. ASSUME NEW s \in Snap, earliest <= s, s <= sn.lat PROVE Linked(s)'
  <2>1. CASE s = sn.lat
    BY <1>2, <1>3, <2>1 DEF Keeps, Remains
  <2>2. CASE s # sn.lat
    <3>1. Linked(s) /\ map'[s] = map[s] /\ After(s)' = After(s)
      BY <1>2, <1>3, <2>2, Zenon DEF Disk, Keeps, After
    <3> QED  BY <1>2, <3>1, LinkedKept DEF Inv
  <2> QED  BY <2>1, <2>2
<1>4. ASSUME NEW s \in Snap, s > sn.lat
      PROVE  map'[s].st = "none" /\ \A b \in Block : map'[s].ptr[b] = 0
  <2>1. s # sn.lat
    BY <1>2, <1>4
  <2> QED  BY <1>2, <1>4, <2>1 DEF Disk, Keeps
<1>5. snPc = "number" => AllIdle'
  BY <1>2, Zenon DEF Disk, AllIdle, Keeps, Frame, OthersKept
<1> QED  BY <1>1, <1>2, <1>3, <1>4, <1>5, Zenon DEF Intact, Disk, Keeps, Remains

(* A step that changes neither the main file, nor a map file, nor a block  *)
(* that is saved.                                                          *)
Calm == UNCHANGED <<file, map, taken>> /\ \A s \in Snap : dat'[s].blk = dat[s].blk

(* Such a step leaves all snapshots linked.                                *)
LEMMA CalmKeeps ==
    ASSUME Inv, Intact, NEW t \in Thread, Frame(t), Calm,
           pc[t] = "idle" => snPc = "idle" \/ pc'[t] = "idle"
    PROVE  Keeps(t) /\ DatKept
<1>1. /\ sn' = sn /\ earliest' = earliest /\ file' = file /\ map' = map /\ taken' = taken
      /\ \A s \in Snap : dat'[s].blk = dat[s].blk
  BY DEF Frame, Calm
<1>2. snPc = "number" => pc'[t] = "idle"
  BY DEF Intact, Disk, AllIdle
<1>3. Remains => Linked(sn.lat)'
  <2> SUFFICES ASSUME Remains PROVE Linked(sn.lat)'
    OBVIOUS
  <2>1. Linked(sn.lat) /\ sn.lat \in Snap
    BY LatestFacts
  <2> QED  BY <1>1, <2>1, Zenon DEF Linked, LinkedHeader, LinkedBlock, After
<1> QED  BY <1>1, <1>2, <1>3, Zenon DEF Keeps, Intact, Disk, DatKept
-----------------------------------------------------------------------------
(* The state of a thread after a step within a request, the handle of the  *)
(* open file included.                                                     *)
Went(t, l, x, m) ==
    /\ Moved(t, l, x, m) /\ x.cur = loc[t].cur
    /\ mfd'[t].fd = IF x.cur = "fd" THEN m ELSE mfd[t].fd

(* Such a step is one that goes to l with locals x and handle m.           *)
LEMMA WentTo ==
    ASSUME Inv, NEW t \in Thread, NEW l, NEW x, NEW m, PcSet(t, l), x.cur = loc[t].cur,
           loc' = [loc EXCEPT ![t] = x], MfdSet(t, m), req' = req
    PROVE  Went(t, l, x, m)
<1>1. Known(t)
  BY Basics
<1>2. loc'[t] = x
  BY <1>1 DEF Known, Types
<1> QED  BY <1>1, <1>2, Zenon DEF Went, Moved, MfdSet, PcSet, Cur, Known, CurTypes

(* While a handle is set up (mfd_open_sn) nothing but its number and the   *)
(* snapshot it is set up for has to be right.                              *)
LEMMA SetupGoes ==
    ASSUME Inv, Intact, NEW t \in Thread, Frame(t), Keeps(t), file' = file,
           NEW l, NEW x, NEW m, Went(t, l, x, m), pc[t] \in SetupPc, l \in SetupPc,
           x.cur = "fd" => m.num = sn.number,
           l \in MapPc \cup {"lock", "map"} => x.lat = sn.lat,
           l = "header" /\ Remains => m.hdr = Attr(taken[sn.lat])
    PROVE  Handled(t)' /\ Asked(t)' /\ Copied(t)'
<1>1. /\ sn' = sn /\ snPc' = snPc /\ earliest' = earliest /\ taken' = taken
      /\ Handled(t) /\ Asked(t) /\ Known(t) /\ sn.number <= sn.number
  BY Basics, NumberFacts, Zenon DEF Frame, Keeps, Intact, Known
<1>2. /\ pc'[t] = l /\ loc'[t] = x /\ req'[t] = req[t] /\ Cur(t)' = m /\ x.cur = loc[t].cur
      /\ mfd'[t].fd = IF x.cur = "fd" THEN m ELSE mfd[t].fd
  BY Zenon DEF Went, Moved
<1>3. Asked(t)'
  BY <1>1, <1>2, Zenon DEF Asked
<1>4. Handled(t)'
  <2>1. l \notin UsePc /\ l # "validate"
    BY Zenon DEF UsePc, SetupPc, FreshPc, MapPc
  <2>2. PICK e : e = mfd[t].fd
    BY Zenon
  <2>3. UpToDate(e) => UpToDate(e)'
    BY <1>1, Zenon DEF UpToDate, Remains
  <2> QED  BY <1>1, <1>2, <2>1, <2>2, <2>3, Zenon DEF Handled
<1>5. Copied(t)'
  BY <1>1, <1>2, Zenon DEF Copied, Remains, SetupPc, FreshPc, MapPc, SavePc
<1> QED  BY <1>3, <1>4, <1>5, Zenon

(* A request that goes on with an up-to-date handle still has one.         *)
LEMMA UseGoes ==
    ASSUME Inv, Intact, NEW t \in Thread, Frame(t), Keeps(t), file' = file,
           NEW l, NEW x, NEW m, Went(t, l, x, m), pc[t] \in UsePc, l \in UsePc,
           m.num = Cur(t).num, m.map = Cur(t).map, m.dat = Cur(t).dat, m.hdr = Cur(t).hdr,
           m.open = Cur(t).open
    PROVE  Handled(t)' /\ Asked(t)'
<1>1. /\ sn' = sn /\ snPc' = snPc /\ earliest' = earliest /\ taken' = taken
      /\ Handled(t) /\ Asked(t) /\ Known(t)
  BY Basics, Zenon DEF Frame, Keeps, Intact
<1>2. /\ pc'[t] = l /\ loc'[t] = x /\ req'[t] = req[t] /\ Cur(t)' = m /\ x.cur = loc[t].cur
      /\ mfd'[t].fd = IF x.cur = "fd" THEN m ELSE mfd[t].fd
      /\ x.cur = "fd" => Cur(t) = mfd[t].fd
  BY <1>1, Zenon DEF Went, Moved, Known, CurTypes, ThreadTypes
<1>3. Asked(t)'
  BY <1>1, <1>2, Zenon DEF Asked
<1>4. UpToDate(m)'
  <2>1. UpToDate(Cur(t))
    BY <1>1, Zenon DEF Handled
  <2> QED  BY <1>1, <2>1, Zenon DEF UpToDate, Remains
<1>5. l \notin SetupPc \cup {"validate"} /\ pc[t] \notin SetupPc /\ l \notin MapPc \cup {"lock", "map"}
  BY DEF UsePc, SetupPc, FreshPc, MapPc
<1>6. PICK e : e = mfd[t].fd
  BY Zenon
<1>7. UpToDate(e) => UpToDate(e)'
  BY <1>1, Zenon DEF UpToDate, Remains
<1>8. Handled(t)'
  BY <1>1, <1>2, <1>4, <1>5, <1>6, <1>7, Zenon DEF Handled
<1> QED  BY <1>3, <1>8, Zenon

(* The end of a request: the handle that stays open is stale or right.     *)
LEMMA EndGoes ==
    ASSUME Inv, NEW t \in Thread, sn' = sn, earliest' = earliest, Return(t),
           NEW h \in Mfd, Handles(t, h), h.num <= sn.number,
           h.open /\ h.num = sn.number => UpToDate(h)
    PROVE  Handled(t)' /\ Asked(t)' /\ Copied(t)'
<1>1. Known(t) /\ sn.number >= 0
  BY Basics DEF Known, SnTypes
<1>2. pc'[t] = "idle" /\ req'[t] = NoReq /\ loc'[t] = NoLoc
  BY <1>1 DEF Return, Known, Types
<1>3. mfd'[t].fd = IF h.open THEN h ELSE NoMfd
  BY <1>1 DEF Handles, Known, Types
<1>4. NoReq.op = "none" /\ NoLoc.cur = "fd" /\ NoMfd.num = 0 /\ ~NoMfd.open
  BY Zenon DEF NoReq, NoLoc, NoMfd
<1>5. UpToDate(h)' = UpToDate(h)
  BY Zenon DEF UpToDate, Remains
<1>6. Handled(t)'
  BY <1>1, <1>2, <1>3, <1>4, <1>5, Zenon
  DEF Handled, UsePc, SetupPc, FreshPc, MapPc
<1>7. Asked(t)' /\ Copied(t)'
  BY <1>2, <1>4, Zenon DEF Asked, Copied, SavePc
<1> QED  BY <1>6, <1>7

(* What is left to be shown of a step of mfd_open_sn.                      *)
LEMMA SetupIntact ==
    ASSUME Inv, Intact, NEW t \in Thread, StepOK(t), Keeps(t), DatKept, file' = file,
           NEW l, NEW x, NEW m, Went(t, l, x, m), pc[t] \in SetupPc, l \in SetupPc,
           x.cur = "fd" => m.num = sn.number,
           l \in MapPc \cup {"lock", "map"} => x.lat = sn.lat,
           l = "header" /\ Remains => m.hdr = Attr(taken[sn.lat])
    PROVE  Intact'
  BY SetupGoes, ThreadIntact, Zenon DEF StepOK

(* And of the end of a request that leaves the main file alone.            *)
LEMMA EndIntact ==
    ASSUME Inv, Intact, NEW t \in Thread, StepOK(t), Keeps(t), DatKept, Return(t),
           NEW h \in Mfd, Handles(t, h), h.num <= sn.number,
           h.open /\ h.num = sn.number => UpToDate(h)
    PROVE  Intact'
<1>1. sn' = sn /\ earliest' = earliest
  BY DEF StepOK, Frame
<1> QED  BY <1>1, EndGoes, ThreadIntact DEF StepOK

(* The handle of an open file that is not being set up is right if it has  *)
(* the number of the latest snapshot.                                      *)
LEMMA FdUpToDate ==
    ASSUME Inv, Intact, NEW t \in Thread, pc[t] # "idle",
           ~(loc[t].cur = "fd" /\ pc[t] \in SetupPc)
    PROVE  /\ mfd[t].fd.num <= sn.number
           /\ mfd[t].fd.open /\ mfd[t].fd.num = sn.number => UpToDate(mfd[t].fd)
<1>1. snPc = "idle"
  BY Zenon DEF Intact, Disk, AllIdle, Inv, SnOrder
<1> QED  BY <1>1, Zenon DEF Intact, Handled

(* Where b_write is, and what it saves into.                               *)
LEMMA SavingFacts ==
    ASSUME Inv, NEW t \in Thread, pc[t] \in SavePc
    PROVE  /\ loc[t].blk \in Block /\ loc[t].blk + 1 \in 0 .. MaxSize
           /\ loc[t].blk < SaveEnd(t, Cur(t)) /\ SaveEnd(t, Cur(t)) \in 0 .. MaxSize
           /\ Cur(t).map # Closed \/ pc[t] # "peek"
              => /\ Cur(t).map \in Snap /\ Cur(t).dat \in Snap
                 /\ map[Cur(t).map].st = "saved" /\ Cur(t).hdr = map[Cur(t).map].hdr
                 /\ Cur(t).cache # 0 => map[Cur(t).map].ptr[Cur(t).cache - 1] # 0
<1>1. Known(t) /\ pc[t] \notin SetupPc
  BY Basics DEF SavePc, SetupPc, FreshPc, MapPc
<1>2. /\ loc[t].blk \in 0 .. MaxSize /\ req[t].hi \in 0 .. MaxSize
      /\ Cur(t).hdr.size \in 0 .. MaxSize
  BY <1>1, Zenon DEF Known, SnTypes, ThreadTypes, CurTypes, Local, Request, Header
<1>3. loc[t].blk < SaveEnd(t, Cur(t)) /\ SaveEnd(t, Cur(t)) \in 0 .. MaxSize
  BY <1>1, <1>2, Zenon DEF Known, SnTypes, Saving, SaveEnd
<1>4. loc[t].blk \in Block /\ loc[t].blk + 1 \in 0 .. MaxSize
  BY <1>2, <1>3, BoundAssumption DEF Block
<1>5. ASSUME Cur(t).map # Closed \/ pc[t] # "peek"
      PROVE  /\ Cur(t).map \in Snap /\ Cur(t).dat \in Snap
             /\ map[Cur(t).map].st = "saved" /\ Cur(t).hdr = map[Cur(t).map].hdr
             /\ Cur(t).cache # 0 => map[Cur(t).map].ptr[Cur(t).cache - 1] # 0
  <2>1. PICK w \in Which : w = loc[t].cur /\ mfd[t][w] = Cur(t) /\ Handle(t, w)
    BY <1>1, Zenon DEF Known, CurTypes
  <2>2. Cur(t).map \in Snap /\ Cur(t).dat \in Snap
    BY <1>1, <1>5 DEF Known, ThreadTypes, Saving
  <2> QED  BY <1>1, <2>1, <2>2, Zenon DEF Handle, SetupPc, MapPc
<1> QED  BY <1>3, <1>4, <1>5

(* The faults are counted, and what must not have happened for the         *)
(* snapshots to be intact is on record.                                    *)
FaultTypes == faults \in [crash : Int, error : Int, stale : BOOLEAN, raced : BOOLEAN]
FaultsGrow == /\ faults.stale => faults'.stale
              /\ faults.raced => faults'.raced

(* A request that races no snapshot begins while none is being created,    *)
(* and a snapshot that races no request is created while none is served.   *)
LEMMA NotRaced ==
    ASSUME FaultTypes, NEW b, Races(b), ~faults'.raced
    PROVE  ~faults.raced /\ ~b
<1>1. faults' = [faults EXCEPT !.raced = faults.raced \/ b]
  BY Zenon DEF Races
<1>2. faults'.raced = (faults.raced \/ b)
  BY <1>1, Zenon DEF FaultTypes
<1> QED  BY <1>2, Zenon

(* The record of a race is kept with the rest.                             *)
LEMMA RacesFacts ==
    ASSUME FaultTypes, NEW b, Races(b) PROVE FaultTypes' /\ FaultsGrow
<1>1. PICK x \in BOOLEAN : x <=> (faults.raced \/ b)
  BY Zenon
<1>2. faults' = [faults EXCEPT !.raced = x]
  <2>1. faults.raced \in BOOLEAN
    BY Zenon DEF FaultTypes
  <2>2. (faults.raced \/ b) = x
    BY <1>1, Zenon
  <2> QED  BY <2>2, Zenon DEF Races
<1>3. FaultTypes'
  BY <1>2, Zenon DEF FaultTypes
<1>4. faults'.stale = faults.stale /\ faults'.raced = x
  BY <1>2, Zenon DEF FaultTypes
<1> QED  BY <1>1, <1>3, <1>4, Zenon DEF FaultsGrow
=============================================================================

---------------------------- MODULE ReaderProofs ----------------------------
(***************************************************************************)
(* Reading a file inside a snapshot while threads save blocks and other    *)
(* requests are served: a read through the steps found when the file was   *)
(* opened ($mfd_get_sn_steps, $b_read) returns what the file held when the *)
(* snapshot was taken.  At the end, the steps of a file system in which no *)
(* system call fails and the process does not die.                         *)
(***************************************************************************)
EXTENDS CopyOnWriteInv
LOCAL INSTANCE WellFoundedInduction

-----------------------------------------------------------------------------
(* What the invariants of CopyOnWriteInv say of the disk.                  *)

(* The invariant says that handles agree with the map files on disk.       *)
LEMMA InvCoherent == Inv => CacheCoherent
<1> SUFFICES ASSUME Inv, NEW t \in Thread, NEW w \in Which,
                    mfd[t][w].map \in Snap, ~(loc[t].cur = w /\ pc[t] \in {"stat", "header"})
             PROVE  /\ map[mfd[t][w].map].st = "saved"
                    /\ mfd[t][w].hdr = map[mfd[t][w].map].hdr
                    /\ mfd[t][w].cache # 0 => map[mfd[t][w].map].ptr[mfd[t][w].cache - 1] # 0
  BY Zenon DEF CacheCoherent, Which
<1>1. Handle(t, w)
  BY DEF Inv, ThreadInv
<1> QED  BY <1>1, Zenon DEF Handle

(* Each nonempty set of snapshots has a first one.                         *)
LEMMA HasLeast ==
    ASSUME NEW K, K \subseteq Nat, K # {} PROVE \E k \in K : \A j \in K : k <= j
<1>1. PICK R : R = OpToRel(<, Nat)
  BY Zenon
<1>2. IsWellFoundedOn(R, Nat)
  BY <1>1, NatLessThanWellFounded, Zenon
<1>3. PICK k \in K : \A j \in K : ~ (<<j, k>> \in R)
  BY <1>2, WFMin, Zenon
<1>4. R = {p \in Nat \X Nat : p[1] < p[2]}
  BY <1>1, Zenon DEF OpToRel
<1>5. \A j \in K : ~(j < k)
  BY <1>3, <1>4, Zenon
<1> QED  BY <1>5

(* Least chooses it.                                                       *)
LEMMA LeastFacts ==
    ASSUME NEW K, K \subseteq Nat, K # {}
    PROVE  Least(K) \in K /\ \A j \in K : Least(K) <= j
<1>1. \E k \in K : \A j \in K : k <= j
  BY HasLeast, Zenon
<1> QED  BY <1>1, Zenon DEF Least

(* The numbers of the snapshots from s on are snapshots.                   *)
LEMMA SnapFacts ==
    ASSUME Inv, NEW s \in Snap, s <= sn.lat, NEW k \in s .. sn.lat
    PROVE  /\ k \in Snap /\ sn.lat \in Snap /\ s \in Nat /\ k \in Nat /\ sn.lat \in Nat
           /\ \A j \in s .. k : j \in Snap /\ j \in Nat /\ (earliest <= s => earliest <= j)
                                /\ j <= sn.lat
           /\ \A j \in s .. k : j # s => j - 1 \in s .. k - 1 /\ j - 1 \in Snap /\ j - 1 # sn.lat
                                         /\ (j - 1) + 1 = j
<1>1. sn.lat \in 0 .. MaxSnap /\ earliest \in Nat
  BY DEF Inv, Types
<1> QED  BY <1>1, BoundAssumption DEF Snap

(* As long as no snapshot saves the attributes, the snapshots have the     *)
(* same ones: mfd_get_sn_steps may look them up in the first snapshot that *)
(* has saved them.                                                         *)
LEMMA HeaderChain ==
    ASSUME Inv, Disk, NEW s \in Snap, earliest <= s, s <= sn.lat, NEW k \in s .. sn.lat,
           \A j \in s .. k - 1 : map[j].st # "saved"
    PROVE  Attr(taken[k]) = Attr(taken[s])
<1> DEFINE B == {j \in s .. k : Attr(taken[j]) # Attr(taken[s])}
<1>1. SUFFICES ASSUME B # {} PROVE FALSE
  BY SnapFacts
<1>2. B \subseteq Nat
  BY SnapFacts
<1>3. PICK j \in B : \A i \in B : j <= i
  BY <1>1, <1>2, HasLeast, Zenon
<1>4. j \in s .. k /\ Attr(taken[j]) # Attr(taken[s]) /\ j # s
  BY <1>3
<1>5. /\ j - 1 \in s .. k - 1 /\ j - 1 \in Snap /\ j - 1 # sn.lat /\ (j - 1) + 1 = j
      /\ earliest <= j - 1 /\ j - 1 <= sn.lat /\ j - 1 \notin B /\ j - 1 \in s .. k
  BY <1>3, <1>4, SnapFacts
<1>6. Linked(j - 1) /\ map[j - 1].st # "saved"
  BY <1>5, Zenon DEF Disk
<1>7. Attr(taken[j]) = Attr(taken[j - 1])
  BY <1>5, <1>6 DEF Linked, LinkedHeader, After
<1> QED  BY <1>4, <1>5, <1>7

(* And so for a block, as long as no snapshot has a pointer to it.         *)
LEMMA BlockChain ==
    ASSUME Inv, Disk, NEW s \in Snap, earliest <= s, s <= sn.lat, NEW k \in s .. sn.lat,
           NEW b \in Block, b < taken[s].size, \A j \in s .. k - 1 : map[j].ptr[b] = 0
    PROVE  b < taken[k].size /\ taken[k].data[b] = taken[s].data[b]
<1> DEFINE B == {j \in s .. k : ~(b < taken[j].size /\ taken[j].data[b] = taken[s].data[b])}
<1>1. SUFFICES ASSUME B # {} PROVE FALSE
  BY SnapFacts
<1>2. B \subseteq Nat
  BY SnapFacts
<1>3. PICK j \in B : \A i \in B : j <= i
  BY <1>1, <1>2, HasLeast, Zenon
<1>4. /\ j \in s .. k /\ ~(b < taken[j].size /\ taken[j].data[b] = taken[s].data[b]) /\ j # s
  BY <1>3
<1>5. /\ j - 1 \in s .. k - 1 /\ j - 1 \in Snap /\ j - 1 # sn.lat /\ (j - 1) + 1 = j
      /\ earliest <= j - 1 /\ j - 1 <= sn.lat /\ j - 1 \notin B /\ j - 1 \in s .. k
  BY <1>3, <1>4, SnapFacts
<1>6. Linked(j - 1) /\ map[j - 1].ptr[b] = 0
  BY <1>5, Zenon DEF Disk
<1>7. b < taken[j - 1].size /\ taken[j - 1].data[b] = taken[s].data[b]
  BY <1>5
<1>8. b < taken[j].size /\ taken[j].data[b] = taken[j - 1].data[b]
  BY <1>5, <1>6, <1>7, Zenon DEF Linked, LinkedBlock, After
<1> QED  BY <1>4, <1>7, <1>8

(* This is what the snapshots need.                                        *)
LEMMA IntactShown == ASSUME Inv, Disk PROVE SnapshotIntact
<1> SUFFICES ASSUME NEW s \in earliest .. sn.lat
             PROVE  /\ HeaderOf(s) = Attr(taken[s])
                    /\ \A b \in 0 .. taken[s].size - 1 : BlockOf(s, b) = taken[s].data[b]
  BY DEF SnapshotIntact, Attr
<1>1. /\ s \in Snap /\ s \in Nat /\ earliest <= s /\ s <= sn.lat /\ sn.lat \in s .. sn.lat
      /\ sn.lat \in Snap /\ s .. sn.lat \subseteq Nat /\ s .. sn.lat \subseteq Snap
      /\ \A k \in s .. sn.lat : earliest <= k /\ k <= sn.lat
      /\ \A k \in s .. sn.lat : \A j \in s .. k - 1 : j \in s .. sn.lat /\ j < k
      /\ taken \in [Snap -> File]
  BY BoundAssumption, SMTT(30) DEF Inv, Types, SnOrder, Snap, Disk
<1>2. \A k \in s .. sn.lat : Linked(k)
  BY <1>1, Zenon DEF Disk
<1>3. HeaderOf(s) = Attr(taken[s])
  <2> DEFINE K == {k \in s .. sn.lat : map[k].st = "saved"}
  <2>1. CASE K = {}
    <3>1. HeaderOf(s) = Attr(file)
      BY <2>1, Zenon DEF HeaderOf, Attr
    <3>2. Attr(taken[sn.lat]) = Attr(taken[s])
      BY <1>1, <2>1, HeaderChain
    <3>3. Attr(file) = Attr(taken[sn.lat])
      BY <1>1, <1>2, <2>1 DEF Linked, LinkedHeader, After
    <3> QED  BY <3>1, <3>2, <3>3
  <2>2. CASE K # {}
    <3>1. PICK k : k = Least(K)
      BY Zenon
    <3>2. k \in s .. sn.lat /\ map[k].st = "saved" /\ \A j \in K : k <= j
      <4>1. K \subseteq Nat
        BY <1>1
      <4> QED  BY <2>2, <3>1, <4>1, LeastFacts
    <3>3. HeaderOf(s) = map[k].hdr
      BY <2>2, <3>1, Zenon DEF HeaderOf
    <3>4. \A j \in s .. k - 1 : map[j].st # "saved"
      BY <1>1, <3>2
    <3>5. Attr(taken[k]) = Attr(taken[s])
      BY <1>1, <3>2, <3>4, HeaderChain
    <3>6. map[k].hdr = Attr(taken[k])
      BY <1>2, <3>2 DEF Linked, LinkedHeader
    <3> QED  BY <3>3, <3>5, <3>6
  <2> QED  BY <2>1, <2>2, Zenon
<1>4. ASSUME NEW b \in 0 .. taken[s].size - 1 PROVE BlockOf(s, b) = taken[s].data[b]
  <2> DEFINE K == {k \in s .. sn.lat : map[k].ptr[b] # 0}
  <2>1. b \in Block /\ b < taken[s].size
    <3>1. taken[s].size \in 0 .. MaxSize
      BY <1>1 DEF File
    <3> QED  BY <1>4, <3>1, BoundAssumption DEF Block
  <2>2. CASE K = {}
    <3>1. BlockOf(s, b) = file.data[b]
      BY <2>2, Zenon DEF BlockOf
    <3>2. b < taken[sn.lat].size /\ taken[sn.lat].data[b] = taken[s].data[b]
      BY <1>1, <2>1, <2>2, BlockChain
    <3>3. file.data[b] = taken[sn.lat].data[b]
      BY <1>1, <1>2, <2>1, <2>2, <3>2 DEF Linked, LinkedBlock, After
    <3> QED  BY <3>1, <3>2, <3>3
  <2>3. CASE K # {}
    <3>1. PICK k : k = Least(K)
      BY Zenon
    <3>2. k \in s .. sn.lat /\ map[k].ptr[b] # 0 /\ \A j \in K : k <= j
      <4>1. K \subseteq Nat
        BY <1>1
      <4> QED  BY <2>3, <3>1, <4>1, LeastFacts
    <3>3. BlockOf(s, b) = dat[k].blk[map[k].ptr[b]]
      BY <2>3, <3>1, Zenon DEF BlockOf
    <3>4. \A j \in s .. k - 1 : map[j].ptr[b] = 0
      BY <1>1, <3>2
    <3>5. b < taken[k].size /\ taken[k].data[b] = taken[s].data[b]
      BY <1>1, <2>1, <3>2, <3>4, BlockChain
    <3>6. dat[k].blk[map[k].ptr[b]] = taken[k].data[b]
      BY <1>2, <2>1, <3>2, <3>5, Zenon DEF Linked, LinkedBlock
    <3> QED  BY <3>3, <3>5, <3>6
  <2> QED  BY <2>2, <2>3
<1> QED  BY <1>3, <1>4

-----------------------------------------------------------------------------
(* The readers.  Each step of a thread is in order, as CopyOnWriteProofs   *)
(* shows; here that is assumed of the step, or of all steps.               *)
ThreadsOK == \A t \in Thread : Start(t) \/ Step(t) => StepOK(t)

(* Every pointer that is set leads to a dat file, and every handle that    *)
(* refers to a dat file to one that was made.                              *)
PtrMade == \A s \in Snap : \A b \in Block : map[s].ptr[b] # 0 => dat[s].made
FdMade(t) == \A w \in Which : mfd[t][w].dat \in Snap => dat[mfd[t][w].dat].made
FdKept(t) ==
    \A w \in Which : \/ mfd'[t][w].dat \notin Snap
                     \/ \E v \in Which : mfd'[t][w].dat = mfd[t][v].dat
                     \/ dat'[mfd'[t][w].dat].made

(* Writing the current handle of a request.                                *)
LEMMA SetFd ==
    ASSUME Inv, NEW t \in Thread, NEW m \in Mfd, SetMfd(t, m),
           m.dat = Cur(t).dat \/ m.dat \notin Snap \/ dat'[m.dat].made
    PROVE  FdKept(t)
<1>1. MfdSet(t, m) /\ loc[t].cur \in Which /\ Cur(t) = mfd[t][loc[t].cur]
  BY Basics, SetMfdFacts, Zenon DEF Known, CurTypes
<1> QED  BY <1>1, Zenon DEF MfdSet, FdKept

(* The handles at the end of a request.                                    *)
LEMMA HandlesFd ==
    ASSUME Inv, NEW t \in Thread, NEW h, Handles(t, h), h.dat = mfd[t].fd.dat \/ h.dat \notin Snap
    PROVE  FdKept(t)
<1>1. PICK e, n : e = (IF h.open THEN h ELSE NoMfd) /\ n = NoMfd
  BY Zenon
<1>2. mfd' = [mfd EXCEPT ![t] = [fd |-> e, tmp |-> n]]
  BY <1>1, Zenon DEF Handles
<1>3. mfd'[t]["fd"] = e /\ mfd'[t]["tmp"] = n
  BY <1>2 DEF Inv, Types
<1>4. mfd[t]["fd"] = mfd[t].fd /\ NoMfd.dat = NOSN /\ NOSN \notin Snap /\ "fd" \in Which
  BY Basics, FdFacts DEF Known, ThreadTypes, NoMfd, Which
<1> QED  BY <1>1, <1>3, <1>4, Zenon DEF FdKept, Which

(* A thread only gets a dat file into a handle that it has made or opened. *)
LEMMA ThreadFd == ASSUME Inv, NEW t \in Thread, Start(t) \/ Step(t) PROVE FdKept(t)
<1>1. /\ Known(t) /\ Cur(t) \in Mfd /\ Cur(t).map \in Fd /\ Cur(t).dat \in Fd
      /\ Cur(t).hdr \in Header /\ Cur(t).cache \in 0 .. MaxSize /\ Cur(t).num \in 0 .. MaxSnap
      /\ sn.number \in 0 .. MaxSnap
  BY Basics, Zenon DEF Known, CurTypes, SnTypes
<1>2. ASSUME mfd' = mfd PROVE FdKept(t)
  BY <1>2, Zenon DEF FdKept
<1>3. ASSUME Close(t) PROVE FdKept(t)
  <2>1. mfd' = [mfd EXCEPT ![t].fd = NoMfd]
    BY <1>3 DEF Close
  <2>2. mfd'[t]["fd"] = NoMfd /\ mfd'[t]["tmp"] = mfd[t]["tmp"]
    BY <1>1, <2>1 DEF Known, Types
  <2>3. NoMfd.dat \notin Snap
    BY FdFacts DEF NoMfd
  <2> QED  BY <2>2, <2>3, Zenon DEF FdKept, Which
<1>4. ASSUME OpenSnBegin(t) PROVE FdKept(t)
  <2>1. PICK m : SetMfd(t, m) /\ m = [Cur(t) EXCEPT !.num = sn.number, !.cache = 0]
    BY <1>4, Zenon DEF OpenSnBegin
  <2>2. m \in Mfd /\ m.dat = Cur(t).dat
    BY <1>1, <2>1, FdFacts, Zenon DEF Mfd
  <2> QED  BY <2>1, <2>2, SetFd, Zenon
<1>5. ASSUME OpenSnLatest(t) PROVE FdKept(t)
  <2>1. CASE sn.any
    BY <1>2, <1>5, <2>1, Zenon DEF OpenSnLatest
  <2>2. CASE ~sn.any
    <3>1. PICK m : SetMfd(t, m) /\ m = [Cur(t) EXCEPT !.map = NOSN, !.dat = NOSN]
      BY <1>5, <2>2, Zenon DEF OpenSnLatest, OpenedSn
    <3>2. m \in Mfd /\ m.dat = NOSN /\ NOSN \notin Snap
      BY <1>1, <3>1, FdFacts, Zenon DEF Mfd
    <3> QED  BY <3>1, <3>2, SetFd, Zenon
  <2> QED  BY <2>1, <2>2
<1>6. ASSUME OpenSnMap(t) PROVE FdKept(t)
  <2>1. PICK s : s = loc[t].lat
    BY Zenon
  <2>2. s \in Snap /\ s \in Fd
    BY <1>1, <1>6, <2>1, FdFacts, Zenon DEF OpenSnMap, Known, Setup
  <2>3. map[s].hdr \in Header
    BY <1>1, <2>2, Zenon DEF Known, Types, MapFile
  <2>4. PICK m : SetMfd(t, m) /\ (\/ m = [Cur(t) EXCEPT !.map = s]
                                  \/ m = [Cur(t) EXCEPT !.map = s, !.hdr = map[s].hdr])
    BY <1>6, <2>1, Zenon DEF OpenSnMap
  <2>5. m \in Mfd /\ m.dat = Cur(t).dat
    BY <1>1, <2>2, <2>3, <2>4, Zenon DEF Mfd
  <2> QED  BY <2>4, <2>5, SetFd, Zenon
<1>7. ASSUME OpenSnStat(t) PROVE FdKept(t)
  <2>1. PICK n : n = [exists |-> file.exists, size |-> file.size]
    BY Zenon
  <2>2. n \in Header
    BY <1>1, <2>1, Zenon DEF Known, Types, File, Header
  <2>3. PICK m : SetMfd(t, m) /\ m = [Cur(t) EXCEPT !.hdr = n]
    BY <1>7, <2>1, Zenon DEF OpenSnStat
  <2>4. m \in Mfd /\ m.dat = Cur(t).dat
    BY <1>1, <2>2, <2>3, Zenon DEF Mfd
  <2> QED  BY <2>3, <2>4, SetFd, Zenon
<1>8. ASSUME OpenSnDat(t) PROVE FdKept(t)
  <2>1. PICK d : /\ d = (IF ~Cur(t).hdr.exists THEN ENOENT
                         ELSE IF Cur(t).hdr.size = 0 THEN ZLEN ELSE sn.lat)
                 /\ dat' = (IF d \in Snap THEN [dat EXCEPT ![d].made = TRUE] ELSE dat)
                 /\ SetMfd(t, [Cur(t) EXCEPT !.dat = d])
    BY <1>8, Zenon DEF OpenSnDat, OpenedSn
  <2>2. d \in Fd
    <3>1. sn.lat \in Fd
      BY <1>1 DEF Known, SnTypes, Fd, Snap, Closed
    <3> QED  BY <2>1, <3>1, FdFacts, Zenon
  <2>3. PICK m : m = [Cur(t) EXCEPT !.dat = d]
    BY Zenon
  <2>4. m \in Mfd /\ m.dat = d
    BY <1>1, <2>2, <2>3, Zenon DEF Mfd
  <2>5. d \in Snap => dat'[d].made
    BY <1>1, <2>1, Zenon DEF Known, Types, DatFile
  <2> QED  BY <2>1, <2>3, <2>4, <2>5, SetFd, Zenon
<1>16. ClosedSn(mfd[t].fd) \in Mfd /\ ClosedSn(mfd[t].fd).dat \notin Snap
  <2>1. mfd[t].fd \in Mfd /\ Handle(t, "fd") /\ mfd[t]["fd"] = mfd[t].fd
    BY <1>1, Zenon DEF Known, ThreadTypes, Which
  <2>2. mfd[t].fd.map \in Snap \cup {NOSN, Closed} /\ (mfd[t].fd.map = NOSN => mfd[t].fd.dat = NOSN)
    BY <2>1, Zenon DEF Handle
  <2> QED  BY <2>1, <2>2, ClosedHandle, Zenon
<1>17. ASSUME ValidateFails(t) PROVE FdKept(t)
  BY <1>16, <1>17, HandlesFd, Zenon DEF ValidateFails
<1>9. ASSUME Validate(t) PROVE FdKept(t)
  <2>1. CASE mfd' = mfd
    BY <1>2, <2>1
  <2>2. CASE mfd' # mfd
    <3>1. PICK m : m = ClosedSn(mfd[t].fd) /\ SetMfd(t, m)
      BY <1>9, <2>2, Zenon DEF Validate
    <3>2. m \in Mfd /\ m.dat \notin Snap
      BY <1>16, <3>1, Zenon
    <3> QED  BY <3>1, <3>2, SetFd, Zenon
  <2> QED  BY <2>1, <2>2
<1>10. ASSUME Validated(t) PROVE FdKept(t)
  <2>1. PICK m : SetMfd(t, m) /\ m = [Cur(t) EXCEPT !.num = sn.number]
    BY <1>10, Zenon DEF Validated
  <2>2. m \in Mfd /\ m.dat = Cur(t).dat
    BY <1>1, <2>1, Zenon DEF Mfd
  <2> QED  BY <2>1, <2>2, SetFd, Zenon
<1>11. ASSUME BWritePeek(t) \/ BWriteSetPointer(t) PROVE FdKept(t)
  <2>1. PICK c : c = loc[t].blk + 1
    BY Zenon
  <2>2. c \in 0 .. MaxSize
    BY <1>11, <2>1, SavingFacts, Zenon DEF BWritePeek, BWriteSetPointer, SavePc, CopyPc
  <2>3. CASE mfd' = mfd
    BY <1>2, <2>3
  <2>4. CASE mfd' # mfd
    <3>1. PICK m : SetMfd(t, m) /\ m = [Cur(t) EXCEPT !.cache = c]
      BY <1>11, <2>1, <2>4, Zenon DEF BWritePeek, BWriteSetPointer
    <3>2. m \in Mfd /\ m.dat = Cur(t).dat
      BY <1>1, <2>2, <3>1, Zenon DEF Mfd
    <3> QED  BY <3>1, <3>2, SetFd, Zenon
  <2> QED  BY <2>3, <2>4
<1>12. ASSUME OpenSnError(t) \/ OpenSnNoHeader(t) \/ OpenSnIsDir(t) \/ BWriteFailed(t) \/ Apply(t)
       PROVE  FdKept(t)
  <2>1. mfd[t].fd \in Mfd
    BY <1>1, Zenon DEF Known, ThreadTypes
  <2>2. PICK o, d : /\ o = TRUE /\ d = (req[t].op = "open" \/ req[t].rd)
    BY Zenon
  <2>3. PICK h : /\ Handles(t, h)
                 /\ \/ h = mfd[t].fd
                    \/ h = [mfd[t].fd EXCEPT !.map = Closed]
                    \/ h = [mfd[t].fd EXCEPT !.open = o, !.rd = d]
    BY <1>12, <2>2, Zenon DEF OpenSnError, OpenSnNoHeader, OpenSnIsDir, BWriteFailed, Apply, Fail
  <2>4. h.dat = mfd[t].fd.dat
    BY <2>1, <2>3, Zenon DEF Mfd
  <2> QED  BY <2>3, <2>4, HandlesFd, Zenon
<1>13. Start(t) => Close(t) \/ mfd' = mfd
  BY Zenon
  DEF Start, StartOpen, StartCreate, StartWrite, StartFtruncate, StartTruncate, StartUnlink,
      Begin
<1>14. OpenSn(t) => \/ OpenSnBegin(t) \/ OpenSnLatest(t) \/ OpenSnMap(t) \/ OpenSnStat(t)
                    \/ OpenSnDat(t) \/ Validate(t) \/ Validated(t) \/ mfd' = mfd
                    \/ OpenSnError(t) \/ OpenSnNoHeader(t) \/ OpenSnIsDir(t) \/ ValidateFails(t)
  BY Zenon DEF OpenSn, OpenSnLock, OpenSnHeader, OpenSnUnlock
<1>15. Save(t) => \/ BWritePeek(t) \/ BWriteSetPointer(t) \/ BWriteFailed(t) \/ Apply(t)
                  \/ mfd' = mfd
  BY Zenon
  DEF Save, BWriteLock, BWriteRecheck, BWriteRead, BWriteSeek, BWriteAppend, BWriteDone,
      BWriteNoMap, BWriteError
<1> QED
  BY <1>2, <1>3, <1>4, <1>5, <1>6, <1>7, <1>8, <1>9, <1>10, <1>11, <1>12, <1>13, <1>14, <1>15,
     <1>17, Zenon DEF Step

(* No step of a thread takes a dat file away.                              *)
DatMade == \A s \in Snap : dat[s].made => dat'[s].made

(* mfd_open_sn makes dat files and b_write appends to them; both leave     *)
(* them in place.                                                          *)
LEMMA ThreadMade == ASSUME Inv, NEW t \in Thread, Start(t) \/ Step(t) PROVE DatMade
<1>1. dat \in [Snap -> DatFile]
  BY DEF Inv, Types
<1>2. ASSUME OpenSnDat(t) PROVE DatMade
  <2>1. PICK d : dat' = (IF d \in Snap THEN [dat EXCEPT ![d].made = TRUE] ELSE dat)
    BY <1>2, Zenon DEF OpenSnDat
  <2> QED  BY <1>1, <2>1 DEF DatMade, DatFile
<1>3. ASSUME BWriteAppend(t) PROVE DatMade
  <2>1. PICK d, b : dat' = [dat EXCEPT ![d].blk = b]
    BY <1>3, Zenon DEF BWriteAppend
  <2> QED  BY <1>1, <2>1 DEF DatMade, DatFile
<1>4. ASSUME BWriteError(t) PROVE DatMade
  <2>1. PICK d : dat' = dat \/ dat' = [dat EXCEPT ![d].torn = TRUE]
    BY <1>4, Zenon DEF BWriteError
  <2> QED  BY <1>1, <2>1, Zenon DEF DatMade, DatFile
<1>5. Start(t) => dat' = dat
  BY Zenon
  DEF Start, StartOpen, StartCreate, StartWrite, StartFtruncate, StartTruncate, StartUnlink,
      Close, Begin, fileVars
<1>6. OpenSn(t) => OpenSnDat(t) \/ dat' = dat
  BY Zenon
  DEF OpenSn, OpenSnBegin, OpenSnLatest, OpenSnLock, OpenSnMap, OpenSnStat, OpenSnHeader,
      OpenSnUnlock, OpenSnIsDir, OpenSnNoHeader, OpenSnError, Validate, ValidateFails,
      Validated, fileVars
<1>7. Save(t) => BWriteAppend(t) \/ BWriteError(t) \/ dat' = dat
  BY Zenon
  DEF Save, BWritePeek, BWriteLock, BWriteRecheck, BWriteRead, BWriteSeek, BWriteSetPointer,
      BWriteDone, BWriteFailed, BWriteNoMap, Apply, fileVars
<1>8. dat' = dat => DatMade
  BY Zenon DEF DatMade
<1> QED  BY <1>2, <1>3, <1>4, <1>5, <1>6, <1>7, <1>8, Zenon DEF Step

(* The steps that change a map file.                                       *)
LEMMA MapSteps ==
    ASSUME NEW t \in Thread, Start(t) \/ Step(t)
    PROVE  \/ map' = map
           \/ OpenSnMap(t) \/ OpenSnHeader(t) \/ OpenSnError(t) \/ OpenSnIsDir(t)
           \/ BWriteSetPointer(t)
<1>1. Start(t) => map' = map
  BY Zenon
  DEF Start, StartOpen, StartCreate, StartWrite, StartFtruncate, StartTruncate, StartUnlink,
      Close, Begin, fileVars
<1>2. OpenSn(t) => OpenSnMap(t) \/ OpenSnHeader(t) \/ OpenSnError(t) \/ OpenSnIsDir(t) \/ map' = map
  BY Zenon
  DEF OpenSn, OpenSnBegin, OpenSnLatest, OpenSnLock, OpenSnStat, OpenSnUnlock, OpenSnDat,
      OpenSnNoHeader, Validate, ValidateFails, Validated, fileVars
<1>3. Save(t) => BWriteSetPointer(t) \/ map' = map
  BY Zenon
  DEF Save, BWritePeek, BWriteLock, BWriteRecheck, BWriteRead, BWriteSeek, BWriteAppend,
      BWriteDone, BWriteFailed, BWriteNoMap, BWriteError, Apply, fileVars
<1> QED  BY <1>1, <1>2, <1>3, Zenon DEF Step

(* Threads write to the map file of the latest snapshot only, and set      *)
(* pointers only to blocks of a dat file that is there.                    *)
OldMaps == \A s \in Snap : s # sn.lat => map'[s] = map[s]
LEMMA ThreadMaps ==
    ASSUME Inv, Intact, PtrMade, NEW t \in Thread, FdMade(t), Start(t) \/ Step(t)
    PROVE  OldMaps /\ PtrMade'
<1>1. Known(t) /\ Handled(t) /\ map \in [Snap -> MapFile] /\ DatMade
  BY Basics, ThreadMade, Zenon DEF Intact, Known, Types
<1>2. ASSUME NEW x, map' = [map EXCEPT ![sn.lat] = x] PROVE OldMaps
  BY <1>1, <1>2, Zenon DEF OldMaps
<1>3. ASSUME \A s \in Snap, b \in Block : map'[s].ptr[b] # 0 => map[s].ptr[b] # 0
      PROVE  PtrMade'
  BY <1>1, <1>3, Zenon DEF PtrMade, DatMade
<1>4. ASSUME map' = map PROVE OldMaps /\ PtrMade'
  BY <1>3, <1>4, Zenon DEF OldMaps
<1>5. ASSUME NEW x, map' = [map EXCEPT ![sn.lat] = x], \A b \in Block : x.ptr[b] # 0 => map[sn.lat].ptr[b] # 0
      PROVE  OldMaps /\ PtrMade'
  BY <1>1, <1>2, <1>3, <1>5, Zenon
<1>6. \A s : map[s].ptr = map[s].ptr /\ \A b \in Block : NoMap.ptr[b] = 0
  BY DEF NoMap
<1>7. pc[t] \in {"map", "stat", "header"} => loc[t].lat = sn.lat /\ sn.lat \in Snap
  BY <1>1, Zenon DEF Handled, MapPc, Known, Setup
<1>8. ASSUME OpenSnMap(t) PROVE OldMaps /\ PtrMade'
  <2>1. CASE map' # map
    <3>1. map' = [map EXCEPT ![sn.lat].st = "empty"] /\ sn.lat \in Snap
      BY <1>7, <1>8, <2>1, Zenon DEF OpenSnMap
    <3>2. PICK x : x = [map[sn.lat] EXCEPT !.st = "empty"]
      BY Zenon
    <3>3. x.ptr = map[sn.lat].ptr /\ map' = [map EXCEPT ![sn.lat] = x]
      BY <1>1, <3>1, <3>2, Zenon DEF MapFile
    <3> QED  BY <1>5, <3>3, Zenon
  <2> QED  BY <1>4, <2>1, Zenon
<1>9. ASSUME OpenSnHeader(t) PROVE OldMaps /\ PtrMade'
  <2>1. /\ map' = [map EXCEPT ![sn.lat].st = "saved", ![sn.lat].hdr = Cur(t).hdr]
        /\ sn.lat \in Snap
    BY <1>7, <1>9, Zenon DEF OpenSnHeader
  <2>2. PICK x : x = [map[sn.lat] EXCEPT !.st = "saved", !.hdr = Cur(t).hdr]
    BY Zenon
  <2>3. x.ptr = map[sn.lat].ptr /\ map' = [map EXCEPT ![sn.lat] = x]
    BY <1>1, <2>1, <2>2, Zenon DEF MapFile
  <2> QED  BY <1>5, <2>3, Zenon
<1>10. ASSUME OpenSnError(t) \/ OpenSnIsDir(t) PROVE OldMaps /\ PtrMade'
  <2>1. CASE map' # map
    <3>1. map' = [map EXCEPT ![loc[t].lat] = NoMap] /\ pc[t] \in {"stat", "header"}
      BY <1>10, <2>1, Zenon DEF OpenSnError, OpenSnIsDir
    <3> QED  BY <1>5, <1>6, <1>7, <3>1, Zenon
  <2> QED  BY <1>4, <2>1, Zenon
<1>11. ASSUME BWriteSetPointer(t) PROVE OldMaps /\ PtrMade'
  <2>1. /\ pc[t] = "setptr" /\ pc[t] \in SavePc /\ pc[t] \in UsePc
        /\ map' = [map EXCEPT ![Cur(t).map].ptr[loc[t].blk] = loc[t].dsz + 1]
    BY <1>11 DEF BWriteSetPointer, SavePc, UsePc, PcLabel, SetupPc, FreshPc, MapPc
  <2>2. Cur(t).map \in Snap /\ Cur(t).dat \in Snap /\ UpToDate(Cur(t))
    BY <1>1, <2>1, Zenon DEF Known, Saving, Handled
  <2>3. Cur(t).map = sn.lat /\ Cur(t).dat = sn.lat /\ sn.lat \in Snap
    BY <2>2, FdFacts, Zenon DEF UpToDate
  <2>4. dat[sn.lat].made
    BY <1>1, <2>3, Zenon DEF FdMade, Known, CurTypes
  <2>5. PICK x : map' = [map EXCEPT ![sn.lat] = x]
    BY <2>1, <2>3, Zenon
  <2>6. OldMaps
    BY <1>2, <2>5, Zenon
  <2>7. PtrMade'
    BY <1>1, <2>4, <2>6, Zenon DEF PtrMade, OldMaps, DatMade
  <2> QED  BY <2>6, <2>7
<1> QED  BY <1>4, <1>8, <1>9, <1>10, <1>11, MapSteps, Zenon

(* And the handles of all threads still refer to dat files that are there. *)
LEMMA ThreadFds ==
    ASSUME Inv, \A u \in Thread : FdMade(u), NEW t \in Thread, Start(t) \/ Step(t), StepOK(t)
    PROVE  \A u \in Thread : FdMade(u)'
<1>1. FdKept(t) /\ DatMade /\ \A u \in Thread : u # t => mfd'[u] = mfd[u]
  BY ThreadFd, ThreadMade, Zenon DEF StepOK, Frame, OthersKept
<1>2. \A u \in Thread : u # t => FdMade(u)'
  BY <1>1, Zenon DEF FdMade, DatMade
<1>3. FdMade(t)'
  BY <1>1, Zenon DEF FdMade, FdKept, DatMade
<1> QED  BY <1>2, <1>3

(* A thread leaves the lock alone while a reader has it, and then no map   *)
(* file changes (block.c:172-180).                                         *)
LEMMA ThreadWaits ==
    ASSUME Inv, NEW t \in Thread, Start(t) \/ Step(t), StepOK(t),
           NEW r \in Reader, holder[FileLabel] = r
    PROVE  holder' = holder /\ map' = map
<1>1. r # t /\ r # NoThread
  BY ThreadAssumption
<1>2. \/ holder' = holder \/ Lock!Acquire(t, FileLabel) \/ Lock!Release(t, FileLabel)
  <2>1. Start(t) => holder' = holder
    BY Zenon
    DEF Start, StartOpen, StartCreate, StartWrite, StartFtruncate, StartTruncate, StartUnlink,
        Close, Begin
  <2>2. OpenSn(t) => \/ holder' = holder \/ Lock!Acquire(t, FileLabel)
                     \/ Lock!Release(t, FileLabel)
    BY Zenon
    DEF OpenSn, OpenSnBegin, OpenSnLatest, OpenSnLock, OpenSnMap, OpenSnStat, OpenSnHeader,
        OpenSnUnlock, OpenSnDat, OpenSnIsDir, OpenSnNoHeader, OpenSnError, Validate,
        ValidateFails, Validated, ReleaseIfHeld
  <2>3. Save(t) => \/ holder' = holder \/ Lock!Acquire(t, FileLabel)
                   \/ Lock!Release(t, FileLabel)
    BY Zenon
    DEF Save, BWritePeek, BWriteLock, BWriteRecheck, BWriteRead, BWriteSeek, BWriteAppend,
        BWriteSetPointer, BWriteDone, BWriteFailed, BWriteNoMap, BWriteError, Apply, ReleaseIfHeld
  <2> QED  BY <2>1, <2>2, <2>3, Zenon DEF Step
<1>3. holder' = holder
  BY <1>1, <1>2, LockFacts, Zenon DEF Inv
<1> QED  BY <1>1, <1>3, Zenon DEF StepOK, Frame

-----------------------------------------------------------------------------
(* The invariant of a handle on the file in a snapshot, and of a read      *)
(* through it.  A read is being served; the reader has the lock.           *)
Busy == RPcLabel \ {"closed", "ready"}
HoldPc == {"latest", "rmain", "runlock"}
RField == {"pc", "sn", "num", "lat", "maps", "dats", "first", "size", "main", "blk", "res", "ok"}

(* The handle has opened the dat file of the latest snapshot if the map    *)
(* file has a header by now (HandleCurrent is stricter).                   *)
Fine(h) == map[h.lat].st = "saved" => h.lat \in h.dats

(* The snapshot is still there and has the block.                          *)
Wanted(h) == earliest <= h.sn /\ h.blk < taken[h.sn].size
Older(h) == h.sn .. h.lat - 1
NotOlder(h) == \A k \in Older(h) : map[k].ptr[h.blk] = 0

(* Of the snapshots before the latest one, the handle has every dat file   *)
(* that a pointer refers to.  If it does not have the main file, because   *)
(* there was none or because it was removed, the latest snapshot has saved *)
(* all its blocks.                                                         *)
Opened(h) ==
    /\ h.sn \in Snap /\ h.lat \in Snap /\ h.num \in Nat /\ h.sn <= h.lat /\ h.lat <= sn.lat
    /\ h.num <= sn.number /\ (snPc = "idle" /\ h.num = sn.number => h.lat = sn.lat)
    /\ h.pc \in Busy => snPc = "idle" /\ h.num = sn.number
    /\ h.dats \subseteq h.maps /\ h.maps \subseteq h.sn .. h.lat
    /\ \A k \in h.dats : h.first # 0 /\ h.first <= k
    /\ \A k \in Older(h), b \in Block : map[k].ptr[b] # 0 => k \in h.dats
    /\ h.pc # "main" /\ h.main # "live" /\ earliest <= h.lat /\ h.lat = sn.lat =>
         \A b \in Block : b < taken[h.lat].size => map[h.lat].ptr[b] # 0

(* b_read: no older snapshot has the block once these were searched; the   *)
(* latest one does not have it while the main file is read.                *)
Reading(h) ==
    /\ h.pc \in Busy \ {"main"} => h.blk \in Block
    /\ Wanted(h) =>
         /\ h.pc \in {"rlock", "latest", "rmain"} => NotOlder(h)
         /\ h.pc = "rmain" /\ Fine(h) => map[h.lat].ptr[h.blk] = 0
         /\ h.pc \in {"runlock", "done"} /\ Fine(h) => h.ok /\ h.res = taken[h.sn].data[h.blk]

ReaderOK(r) ==
    /\ DOMAIN rdr[r] = RField /\ rdr[r].pc \in RPcLabel
    /\ rdr[r].pc \in HoldPc => holder[FileLabel] = r
    /\ rdr[r].pc # "closed" => Opened(rdr[r]) /\ Reading(rdr[r])
Readers == DOMAIN rdr = Reader /\ \A r \in Reader : ReaderOK(r)
ReaderInv == PtrMade /\ (\A t \in Thread : FdMade(t)) /\ Readers

(* It says what b_read has to do.                                          *)
LEMMA ReaderSays == Readers => ReadsSnapshot
<1> SUFFICES ASSUME Readers, NEW r \in Reader, NEW h, h = rdr[r], h.pc \in {"runlock", "done"},
                    HandleCurrent(h), earliest <= h.sn, h.blk < taken[h.sn].size
             PROVE  h.ok /\ h.res = taken[h.sn].data[h.blk]
  BY Zenon DEF ReadsSnapshot
<1>1. Reading(h) /\ Wanted(h)
  BY Zenon DEF Readers, ReaderOK, Wanted
<1>2. Fine(h)
  BY DEF Fine, HandleCurrent
<1> QED  BY <1>1, <1>2, Zenon DEF Reading

(* What the invariant says depends on the disk and the snapshots alone.    *)
LEMMA SameHandles ==
    ASSUME UNCHANGED <<map, sn, snPc, earliest, taken>>, NEW h
    PROVE  (Opened(h)' <=> Opened(h)) /\ (Reading(h)' <=> Reading(h))
<1>1. Opened(h)' <=> Opened(h)
  BY Zenon DEF Opened, Older
<1>2. Reading(h)' <=> Reading(h)
  BY Zenon DEF Reading, Wanted, NotOlder, Older, Fine
<1> QED  BY <1>1, <1>2

(* An older snapshot is a snapshot, but not the latest one.                *)
LEMMA OlderFacts ==
    ASSUME Inv, NEW h, Opened(h), NEW k \in Older(h)
    PROVE  /\ k \in Snap /\ k \in Nat /\ k # sn.lat /\ h.sn <= k /\ k < h.lat /\ k <= sn.lat
           /\ k \in h.sn .. sn.lat
<1>1. sn.lat \in 0 .. MaxSnap /\ h.sn \in 1 .. MaxSnap /\ h.lat \in 1 .. MaxSnap /\ h.lat <= sn.lat
  BY DEF Inv, Types, Opened, Snap
<1> QED  BY <1>1, BoundAssumption DEF Older, Snap

(* A handle stays as it is during a step of a thread that may only write   *)
(* to the map file of the latest snapshot.                                 *)
LEMMA HandleStays ==
    ASSUME Inv, UNCHANGED <<sn, snPc, earliest, taken>>, OldMaps, MapKept,
           NEW h, Opened(h), Reading(h), h.pc \in HoldPc => map' = map
    PROVE  Opened(h)' /\ Reading(h)'
<1>1. /\ \A k \in Older(h) : map'[k] = map[k]
      /\ \A b \in Block : map[h.lat].ptr[b] # 0 => map'[h.lat].ptr[b] # 0
      /\ Fine(h)' => Fine(h)
      /\ Older(h)' = Older(h)
  <2>1. h.lat \in Snap
    BY DEF Opened
  <2>2. \A k \in Older(h) : map'[k] = map[k]
    BY OlderFacts, Zenon DEF OldMaps
  <2> QED  BY <2>1, <2>2, Zenon DEF MapKept, Fine, Older
<1>2. Opened(h)'
  BY <1>1, Zenon DEF Opened
<1>3. Wanted(h)' <=> Wanted(h)
  BY Zenon DEF Wanted
<1>4. h.pc \in {"rmain", "runlock"} => map' = map
  BY DEF HoldPc
<1>5. h.pc \in Busy \ {"main"} => h.blk \in Block
  BY Zenon DEF Reading
<1>6. NotOlder(h) => NotOlder(h)'
  BY <1>1, Zenon DEF NotOlder
<1>7. Reading(h)'
  BY <1>1, <1>3, <1>4, <1>5, <1>6, Zenon DEF Reading
<1> QED  BY <1>2, <1>7

-----------------------------------------------------------------------------
(* The steps of a reader.  Handle e is handle h but for the read served    *)
(* through it.                                                             *)
SameSteps(e, h) ==
    /\ DOMAIN e = RField /\ e.sn = h.sn /\ e.num = h.num /\ e.lat = h.lat
    /\ e.maps = h.maps /\ e.dats = h.dats /\ e.first = h.first

(* What is left to be shown of a step of reader r.                         *)
LEMMA RdrStep ==
    ASSUME Readers, NEW r \in Reader, NEW e, Rdr(r, e), ReaderStep,
           DOMAIN e = RField, e.pc \in RPcLabel,
           e.pc \in HoldPc => holder'[FileLabel] = r,
           \A q \in Reader : q # r /\ holder[FileLabel] = q => holder'[FileLabel] = q,
           e.pc # "closed" => Opened(e) /\ Reading(e)
    PROVE  Readers'
<1>1. UNCHANGED <<map, sn, snPc, earliest, taken>>
  BY DEF ReaderStep, fileVars, snVars
<1>2. /\ DOMAIN rdr' = Reader /\ rdr'[r] = e
      /\ \A q \in Reader : q # r => rdr'[q] = rdr[q]
  BY Zenon DEF Rdr, Readers
<1>3. ASSUME NEW q \in Reader, q # r PROVE ReaderOK(q)'
  <2>1. PICK h : h = rdr[q] /\ rdr'[q] = h
    BY <1>2, <1>3, Zenon
  <2>2. ReaderOK(q)
    BY Zenon DEF Readers
  <2>3. h.pc # "closed" => Opened(h)' /\ Reading(h)'
    BY <1>1, <2>1, <2>2, SameHandles, Zenon DEF ReaderOK
  <2> QED  BY <1>3, <2>1, <2>2, <2>3, Zenon DEF ReaderOK
<1>4. e.pc # "closed" => Opened(e)' /\ Reading(e)'
  BY <1>1, SameHandles, Zenon
<1>5. ReaderOK(r)'
  BY <1>2, <1>4, Zenon DEF ReaderOK
<1> QED  BY <1>2, <1>3, <1>5, Zenon DEF Readers

(* A step of b_read, which leaves the steps of the handle as they are.     *)
LEMMA ReadingStep ==
    ASSUME Readers, NEW r \in Reader, NEW h, h = rdr[r], NEW e, SameSteps(e, h),
           e.main = h.main, h.pc \notin {"closed", "main"},
           snPc = "idle" /\ h.num = sn.number, Rdr(r, e), ReaderStep,
           e.pc \in RPcLabel \ {"closed", "main"}, e.pc \in HoldPc => holder'[FileLabel] = r,
           \A q \in Reader : q # r /\ holder[FileLabel] = q => holder'[FileLabel] = q,
           Reading(e)
    PROVE  Readers'
<1>1. Opened(h)
  BY Zenon DEF Readers, ReaderOK
<1>2. Opened(e)
  BY <1>1, Zenon DEF Opened, Older, SameSteps
<1> QED  BY <1>2, RdrStep, Zenon DEF SameSteps

(* What a reader knows before a step.                                      *)
LEMMA ReaderKnows ==
    ASSUME Inv, Readers, NEW r \in Reader, NEW h, h = rdr[r]
    PROVE  /\ DOMAIN h = RField /\ (h.pc \in HoldPc => holder[FileLabel] = r)
           /\ h.pc # "closed" => Opened(h) /\ Reading(h) /\ h.lat \in Snap
           /\ h.pc \in Busy => h.lat = sn.lat /\ snPc = "idle" /\ h.num = sn.number
           /\ h.pc \in Busy \ {"main"} => h.blk \in Block
<1>1. /\ DOMAIN h = RField /\ (h.pc \in HoldPc => holder[FileLabel] = r)
      /\ h.pc # "closed" => Opened(h) /\ Reading(h)
  BY Zenon DEF Readers, ReaderOK
<1>2. h.pc \in Busy => h.pc # "closed"
  BY DEF Busy
<1> QED  BY <1>1, <1>2, Zenon DEF Opened, Reading

(* If no older snapshot has saved the block, the latest snapshot has the   *)
(* block of the one that is read.                                          *)
LEMMA LatestBlock ==
    ASSUME Inv, Intact, NEW h, Opened(h), h.lat = sn.lat, h.blk \in Block, Wanted(h), NotOlder(h)
    PROVE  /\ Remains /\ h.blk < taken[sn.lat].size
           /\ taken[sn.lat].data[h.blk] = taken[h.sn].data[h.blk]
           /\ LinkedBlock(sn.lat, h.blk) /\ After(sn.lat) = file
<1>1. h.sn \in Snap /\ earliest <= h.sn /\ h.sn <= sn.lat /\ sn.lat \in Snap /\ Disk
  BY DEF Opened, Wanted, Intact
<1>2. sn.lat \in h.sn .. sn.lat /\ Remains
  <2>1. sn.lat \in 1 .. MaxSnap /\ h.sn \in 1 .. MaxSnap /\ earliest \in Nat /\ MaxSnap \in Nat
    BY <1>1, BoundAssumption DEF Snap, Inv, Types
  <2> QED  BY <1>1, <2>1 DEF Remains
<1>3. \A j \in h.sn .. sn.lat - 1 : map[j].ptr[h.blk] = 0
  BY Zenon DEF NotOlder, Older
<1>4. h.blk < taken[sn.lat].size /\ taken[sn.lat].data[h.blk] = taken[h.sn].data[h.blk]
  BY <1>1, <1>2, <1>3, BlockChain, Zenon DEF Wanted
<1> QED  BY <1>2, <1>4, LatestFacts, Zenon DEF Linked

(* A block with a pointer in the latest map file is in a dat file that a   *)
(* handle, if it is fine, has opened.                                      *)
LEMMA FinePointer ==
    ASSUME Inv, NEW h, Opened(h), Fine(h), h.blk \in Block, map[h.lat].ptr[h.blk] # 0
    PROVE  h.lat \in h.dats /\ h.lat \in h.maps /\ h.first # 0
  BY Zenon DEF Inv, Unsaved, Opened, Fine

(* Opening the map and dat files (mfd_get_sn_steps).                       *)
LEMMA ROpenMapsOK ==
    ASSUME Inv, Intact, FaultTypes, PtrMade, Readers, NEW r \in Reader, NEW s \in 1 .. sn.lat,
           ROpenMaps(r, s), ~faults'.raced
    PROVE  Readers'
<1>0. snPc = "idle"
  BY NotRaced, Zenon DEF ROpenMaps
<1>1. PICK ms, ds, f, z :
        /\ ms = {k \in s .. sn.lat : map[k].st = "saved"} /\ ds = {k \in ms : dat[k].made}
        /\ f = (IF ds = {} THEN 0 ELSE Least(ds))
        /\ Rdr(r, [NoRdr EXCEPT !.pc = "main", !.sn = s, !.num = sn.number, !.lat = sn.lat,
                                !.maps = ms, !.dats = ds, !.first = f, !.size = z])
        /\ ReaderStep /\ UNCHANGED holder /\ snPc = "idle"
  BY <1>0, Zenon DEF ROpenMaps
<1>2. PICK e : e = [NoRdr EXCEPT !.pc = "main", !.sn = s, !.num = sn.number, !.lat = sn.lat,
                                 !.maps = ms, !.dats = ds, !.first = f, !.size = z]
  BY Zenon
<1>3. /\ DOMAIN e = RField /\ e.pc = "main" /\ e.sn = s /\ e.num = sn.number /\ e.lat = sn.lat
      /\ e.maps = ms /\ e.dats = ds /\ e.first = f
  <2>1. DOMAIN NoRdr = RField
    BY DEF NoRdr, RField
  <2> QED  BY <1>2, <2>1, Zenon DEF RField
<1>4. /\ s \in Snap /\ sn.lat \in Snap /\ s <= sn.lat /\ sn.lat <= sn.lat
      /\ sn.number \in Nat /\ sn.number <= sn.number
      /\ s .. sn.lat \subseteq Snap /\ s .. sn.lat \subseteq Nat
      /\ s .. sn.lat - 1 \subseteq s .. sn.lat
  <2>1. sn.lat \in 0 .. MaxSnap /\ sn.number \in Nat
    BY DEF Inv, Types
  <2> QED  BY <2>1, BoundAssumption DEF Snap
<1>5. \A k \in ds : f # 0 /\ f <= k
  <2>1. ds \subseteq Nat /\ ds \subseteq Snap
    BY <1>1, <1>4
  <2> QED  BY <1>1, <2>1, LeastFacts, FdFacts, Zenon
<1>6. \A k \in s .. sn.lat - 1, b \in Block : map[k].ptr[b] # 0 => k \in ds
  <2> SUFFICES ASSUME NEW k \in s .. sn.lat - 1, NEW b \in Block, map[k].ptr[b] # 0
               PROVE  k \in ds
    BY Zenon
  <2>1. k \in Snap /\ k \in s .. sn.lat
    BY <1>4, Zenon
  <2>2. map[k].st = "saved" /\ dat[k].made
    BY <2>1, Zenon DEF Inv, Unsaved, PtrMade
  <2> QED  BY <1>1, <2>1, <2>2, Zenon
<1>7. ds \subseteq ms /\ ms \subseteq s .. sn.lat
  BY <1>1, Zenon
<1>8. Opened(e)
  BY <1>1, <1>3, <1>4, <1>5, <1>6, <1>7, Zenon DEF Opened, Older
<1>9. Reading(e) /\ e.pc \in RPcLabel /\ e.pc \notin HoldPc
  BY <1>3 DEF Reading, RPcLabel, HoldPc
<1> QED  BY <1>1, <1>2, <1>3, <1>8, <1>9, RdrStep, Zenon

(* Opening the main file.  If there is none, the latest snapshot has saved *)
(* whatever it has of the file.                                            *)
LEMMA ROpenMainOK ==
    ASSUME Inv, Intact, Readers, NEW r \in Reader, ROpenMain(r) PROVE Readers'
<1>1. PICK h : h = rdr[r]
  BY Zenon
<1>2. PICK m, z : /\ h.pc = "main" /\ m = (IF file.exists THEN "live" ELSE "none")
                  /\ Rdr(r, [h EXCEPT !.pc = "ready", !.main = m, !.size = z])
                  /\ ReaderStep /\ UNCHANGED holder
  BY <1>1, Zenon DEF ROpenMain
<1>3. PICK e : e = [h EXCEPT !.pc = "ready", !.main = m, !.size = z]
  BY Zenon
<1>4. DOMAIN h = RField /\ Opened(h) /\ h.lat = sn.lat
  BY <1>1, <1>2, ReaderKnows DEF Busy, RPcLabel
<1>5. SameSteps(e, h) /\ e.pc = "ready" /\ e.main = m
  BY <1>3, <1>4, Zenon DEF RField, SameSteps
<1>6. ASSUME m # "live", earliest <= sn.lat, NEW b \in Block, b < taken[sn.lat].size
      PROVE  map[sn.lat].ptr[b] # 0
  <2>1. file.size = 0
    BY <1>2, <1>6, Zenon DEF Intact, Disk
  <2>2. LinkedBlock(sn.lat, b) /\ After(sn.lat) = file
    BY <1>6, LatestFacts, Zenon DEF Remains, Linked
  <2>3. ~(b < 0)
    BY DEF Block
  <2> QED  BY <2>1, <2>2, <2>3, Zenon DEF LinkedBlock
<1>7. e.pc \notin Busy /\ e.pc \in RPcLabel /\ e.pc \notin HoldPc /\ Reading(e)
  BY <1>5 DEF Busy, RPcLabel, HoldPc, Reading
<1>8. Opened(e)
  BY <1>4, <1>5, <1>6, <1>7, Zenon DEF Opened, Older, SameSteps
<1> QED  BY <1>2, <1>3, <1>5, <1>7, <1>8, RdrStep, Zenon DEF SameSteps

(* release: the handle is gone.                                            *)
LEMMA RCloseOK == ASSUME Inv, Readers, NEW r \in Reader, RClose(r) PROVE Readers'
<1>1. DOMAIN NoRdr = RField /\ NoRdr.pc = "closed" /\ "closed" \in RPcLabel /\ "closed" \notin HoldPc
  BY DEF NoRdr, RField, RPcLabel, HoldPc
<1> QED  BY <1>1, RdrStep, Zenon DEF RClose

(* A read arrives, and is only served if the handle is up to date          *)
(* (mfd_in_sn_validate).                                                   *)
LEMMA RStartOK ==
    ASSUME Inv, FaultTypes, Readers, NEW r \in Reader, NEW b \in Block, RStart(r, b),
           ~faults'.raced
    PROVE  Readers'
<1>0. snPc = "idle"
  BY NotRaced, Zenon DEF RStart
<1>1. PICK h, e : h = rdr[r] /\ e = [h EXCEPT !.pc = "older", !.blk = b]
  BY Zenon
<1>2. /\ h.pc = "ready" /\ snPc = "idle" /\ h.num = sn.number /\ Rdr(r, e)
      /\ ReaderStep /\ UNCHANGED holder
  BY <1>0, <1>1, Zenon DEF RStart
<1>3. SameSteps(e, h) /\ e.pc = "older" /\ e.main = h.main /\ e.blk = b
  <2>1. DOMAIN h = RField
    BY <1>1, ReaderKnows, Zenon
  <2> QED  BY <1>1, <2>1, Zenon DEF RField, SameSteps
<1>4. Reading(e) /\ e.pc \in RPcLabel \ {"closed", "main"} /\ e.pc \notin HoldPc
  BY <1>3 DEF Reading, RPcLabel, HoldPc
<1> QED  BY <1>1, <1>2, <1>3, <1>4, ReadingStep, Zenon

(* b_read returns the buffer without looking anywhere: the handle must     *)
(* have missed a dat file, as the latest snapshot has saved the block.     *)
LEMMA RNowhereOK ==
    ASSUME Inv, Intact, Readers, NEW r \in Reader, RNowhere(r) PROVE Readers'
<1>1. PICK h, v : /\ h = rdr[r] /\ h.pc = "older" /\ h.first = 0 /\ h.main = "none"
                  /\ Rdr(r, [h EXCEPT !.pc = "done", !.ok = TRUE, !.res = v])
                  /\ ReaderStep /\ UNCHANGED holder
  BY Zenon DEF RNowhere
<1>2. PICK e : e = [h EXCEPT !.pc = "done", !.ok = TRUE, !.res = v]
  BY Zenon
<1>3. h.pc \in Busy /\ h.pc \in Busy \ {"main"} /\ h.pc # "closed" /\ h.pc # "main"
  BY <1>1 DEF Busy, RPcLabel
<1>4. /\ DOMAIN h = RField /\ Opened(h) /\ h.lat = sn.lat /\ h.blk \in Block
      /\ snPc = "idle" /\ h.num = sn.number
  BY <1>1, <1>3, ReaderKnows, Zenon
<1>5. SameSteps(e, h) /\ e.pc = "done" /\ e.main = h.main /\ e.blk = h.blk
  BY <1>2, <1>4, Zenon DEF RField, SameSteps
<1>6. ASSUME Wanted(h), Fine(h) PROVE FALSE
  <2>1. NotOlder(h)
    BY <1>1, <1>4, Zenon DEF NotOlder, Opened
  <2>2. Remains /\ h.blk < taken[sn.lat].size
    BY <1>4, <1>6, <2>1, LatestBlock, Zenon
  <2>3. map[h.lat].ptr[h.blk] # 0
    <3>1. h.main # "live"
      BY <1>1
    <3> QED  BY <1>3, <1>4, <2>2, <3>1, Zenon DEF Opened, Remains
  <2> QED  BY <1>1, <1>4, <1>6, <2>3, FinePointer, Zenon
<1>7. (Wanted(e) => Wanted(h)) /\ (Fine(e) => Fine(h))
  BY <1>5, Zenon DEF Wanted, Fine, SameSteps
<1>8. Reading(e)
  BY <1>4, <1>5, <1>6, <1>7, Zenon DEF Reading
<1>9. e.pc \in RPcLabel \ {"closed", "main"} /\ e.pc \notin HoldPc
  BY <1>5 DEF RPcLabel, HoldPc
<1> QED  BY <1>1, <1>2, <1>3, <1>4, <1>5, <1>8, <1>9, ReadingStep, Zenon

(* The snapshots before the latest one: what the first of them that has a  *)
(* pointer to the block has saved is the block.                            *)
LEMMA ROlderOK ==
    ASSUME Inv, Intact, Readers, NEW r \in Reader, ROlder(r) PROVE Readers'
<1>1. PICK h : h = rdr[r]
  BY Zenon
<1> DEFINE found == {k \in h.maps : /\ h.first # 0 /\ h.first <= k /\ k < h.lat
                                    /\ map[k].ptr[h.blk] # 0}
<1>2. PICK k, v, e :
        /\ h.pc = "older" /\ k = Least(found) /\ v = dat[k].blk[map[k].ptr[h.blk]]
        /\ e = (IF found = {} THEN [h EXCEPT !.pc = "rlock"]
                ELSE IF InDat(h, k) THEN [h EXCEPT !.pc = "done", !.ok = TRUE, !.res = v]
                ELSE [h EXCEPT !.pc = "done"])
        /\ Rdr(r, e) /\ ReaderStep /\ UNCHANGED holder
  BY <1>1, Zenon DEF ROlder
<1>3. h.pc \in Busy /\ h.pc \in Busy \ {"main"} /\ h.pc # "closed" /\ h.pc # "main"
  BY <1>2, Zenon DEF Busy, RPcLabel
<1>4. /\ DOMAIN h = RField /\ Opened(h) /\ h.lat = sn.lat /\ h.blk \in Block
      /\ snPc = "idle" /\ h.num = sn.number
  BY <1>1, <1>3, ReaderKnows, Zenon
<1>5. /\ SameSteps(e, h) /\ e.main = h.main /\ e.blk = h.blk
      /\ e.pc = (IF found = {} THEN "rlock" ELSE "done")
      /\ found # {} /\ InDat(h, k) => e.ok = TRUE /\ e.res = v
  BY <1>2, <1>4, Zenon DEF RField, SameSteps
<1>6. \A j \in Older(h) : map[j].ptr[h.blk] # 0 => j \in found /\ j \in h.dats
  <2> SUFFICES ASSUME NEW j \in Older(h), map[j].ptr[h.blk] # 0 PROVE j \in found /\ j \in h.dats
    BY Zenon
  <2>1. j \in h.dats /\ j \in h.maps /\ h.first # 0 /\ h.first <= j
    BY <1>4, Zenon DEF Opened
  <2>2. j < h.lat
    BY <1>4, OlderFacts, Zenon
  <2> QED  BY <2>1, <2>2, Zenon
<1>7. (Wanted(e) => Wanted(h)) /\ (NotOlder(h) => NotOlder(e))
  BY <1>5, Zenon DEF Wanted, NotOlder, Older, SameSteps
<1>8. e.pc \in RPcLabel \ {"closed", "main"} /\ e.pc \notin HoldPc
  BY <1>5 DEF RPcLabel, HoldPc
<1>9. CASE found = {}
  <2>1. NotOlder(h)
    BY <1>6, <1>9, Zenon DEF NotOlder
  <2>2. Reading(e)
    BY <1>4, <1>5, <1>7, <1>9, <2>1, Zenon DEF Reading
  <2> QED  BY <1>1, <1>2, <1>3, <1>4, <1>5, <1>8, <2>2, ReadingStep, Zenon
<1>10. CASE found # {}
  <2>1. found \subseteq Older(h) /\ found \subseteq Nat
    <3>1. h.sn \in 1 .. MaxSnap /\ h.lat \in 1 .. MaxSnap /\ h.maps \subseteq h.sn .. h.lat
      BY <1>4 DEF Opened, Snap
    <3>2. \A j \in h.sn .. h.lat : j < h.lat => j \in h.sn .. h.lat - 1 /\ j \in Nat
      BY <3>1, BoundAssumption
    <3> QED  BY <3>1, <3>2, Zenon DEF Older
  <2>2. k \in found /\ \A j \in found : k <= j
    BY <1>2, <1>10, <2>1, LeastFacts, Zenon
  <2>3. k \in Older(h) /\ map[k].ptr[h.blk] # 0 /\ k \in h.dats
    BY <1>6, <2>1, <2>2, Zenon
  <2>4. ASSUME Wanted(h) PROVE InDat(h, k) /\ v = taken[h.sn].data[h.blk]
    <3>1. /\ h.sn \in Snap /\ earliest <= h.sn /\ h.sn <= sn.lat /\ h.blk < taken[h.sn].size
          /\ k \in h.sn .. sn.lat /\ k \in Snap /\ k <= sn.lat /\ h.sn <= k /\ Disk
      BY <1>4, <2>3, <2>4, OlderFacts, Zenon DEF Opened, Wanted, Intact
    <3>2. \A j \in h.sn .. k - 1 : map[j].ptr[h.blk] = 0
      <4>1. \A j \in h.sn .. k - 1 : j \in Older(h) /\ ~(k <= j)
        <5>1. k \in Nat /\ k < h.lat /\ h.sn \in 1 .. MaxSnap /\ h.lat \in 1 .. MaxSnap
          BY <1>4, <2>3, OlderFacts DEF Opened, Snap
        <5> QED  BY <5>1, BoundAssumption DEF Older
      <4> QED  BY <1>6, <2>2, <4>1, Zenon
    <3>3. h.blk < taken[k].size /\ taken[k].data[h.blk] = taken[h.sn].data[h.blk]
      BY <1>4, <3>1, <3>2, BlockChain, Zenon
    <3>4. earliest <= k
      BY <3>1, SnapFacts
    <3>5. LinkedBlock(k, h.blk)
      BY <1>4, <3>1, <3>3, <3>4, Zenon DEF Disk, Linked
    <3> QED  BY <1>2, <2>3, <3>3, <3>5, Zenon DEF LinkedBlock, InDat
  <2>5. Reading(e)
    <3>1. /\ e.pc = "done" /\ e.blk \in Block /\ e.sn = h.sn
          /\ InDat(h, k) => e.ok = TRUE /\ e.res = v
      BY <1>4, <1>5, <1>10, Zenon DEF SameSteps
    <3> QED  BY <1>5, <1>7, <2>4, <3>1, Zenon DEF Reading
  <2> QED  BY <1>1, <1>2, <1>3, <1>4, <1>5, <1>8, <2>5, ReadingStep, Zenon
<1> QED  BY <1>9, <1>10, Zenon

(* Taking the lock.                                                        *)
LEMMA RLockOK == ASSUME Inv, Readers, NEW r \in Reader, RLock(r) PROVE Readers'
<1>1. PICK h, e : h = rdr[r] /\ e = [h EXCEPT !.pc = "latest"]
  BY Zenon
<1>2. h.pc = "rlock" /\ Rdr(r, e) /\ ReaderStep /\ Lock!Acquire(r, FileLabel)
  BY <1>1, Zenon DEF RLock
<1>3. h.pc \in Busy /\ h.pc # "closed" /\ h.pc # "main"
  BY <1>2 DEF Busy, RPcLabel
<1>4. /\ DOMAIN h = RField /\ Opened(h) /\ Reading(h) /\ snPc = "idle" /\ h.num = sn.number
  BY <1>1, <1>3, ReaderKnows, Zenon
<1>5. SameSteps(e, h) /\ e.pc = "latest" /\ e.main = h.main /\ e.blk = h.blk
  BY <1>1, <1>4, Zenon DEF RField, SameSteps
<1>6. holder'[FileLabel] = r /\ \A q \in Reader : holder[FileLabel] # q
  BY <1>2, ThreadAssumption DEF Lock!Acquire, Inv, Types
<1>7. Reading(e)
  <2>1. (Wanted(e) => Wanted(h)) /\ (NotOlder(h) => NotOlder(e))
    BY <1>5, Zenon DEF Wanted, NotOlder, Older, SameSteps
  <2> QED  BY <1>2, <1>3, <1>4, <1>5, <2>1, Zenon DEF Reading, Busy, RPcLabel
<1>8. e.pc \in RPcLabel \ {"closed", "main"}
  BY <1>5 DEF RPcLabel
<1> QED  BY <1>1, <1>2, <1>3, <1>4, <1>5, <1>6, <1>7, <1>8, ReadingStep, Zenon

(* The latest snapshot, under the lock.                                    *)
LEMMA RLatestOK ==
    ASSUME Inv, Intact, Readers, NEW r \in Reader, RLatest(r) PROVE Readers'
<1>1. PICK h : h = rdr[r]
  BY Zenon
<1>2. PICK a, v, e :
        /\ h.pc = "latest" /\ v = dat[h.lat].blk[map[h.lat].ptr[h.blk]]
        /\ a = (h.first = 0 \/ h.lat \notin h.maps \/ map[h.lat].ptr[h.blk] = 0)
        /\ e = (IF a THEN [h EXCEPT !.pc = "rmain"]
                ELSE IF InDat(h, h.lat) THEN [h EXCEPT !.pc = "runlock", !.ok = TRUE, !.res = v]
                ELSE [h EXCEPT !.pc = "runlock"])
        /\ Rdr(r, e) /\ ReaderStep /\ UNCHANGED holder
  BY <1>1, Zenon DEF RLatest
<1>3. /\ h.pc \in Busy /\ h.pc \in Busy \ {"main"} /\ h.pc # "closed" /\ h.pc # "main"
      /\ h.pc \in HoldPc
  BY <1>2, Zenon DEF Busy, RPcLabel, HoldPc
<1>4. /\ DOMAIN h = RField /\ Opened(h) /\ Reading(h) /\ h.lat = sn.lat /\ h.blk \in Block
      /\ snPc = "idle" /\ h.num = sn.number /\ holder[FileLabel] = r
  BY <1>1, <1>3, ReaderKnows, Zenon
<1>5. /\ SameSteps(e, h) /\ e.main = h.main /\ e.blk = h.blk
      /\ e.pc = (IF a THEN "rmain" ELSE "runlock")
      /\ ~a /\ InDat(h, h.lat) => e.ok = TRUE /\ e.res = v
  BY <1>2, <1>4, Zenon DEF RField, SameSteps
<1>6. /\ Wanted(e) => Wanted(h) /\ NotOlder(h) /\ NotOlder(e)
      /\ Fine(e) => Fine(h)
  <2>1. Wanted(h) => NotOlder(h)
    BY <1>2, <1>4, Zenon DEF Reading
  <2>2. (Wanted(e) => Wanted(h)) /\ (NotOlder(h) => NotOlder(e)) /\ (Fine(e) => Fine(h))
    BY <1>5, Zenon DEF Wanted, NotOlder, Older, Fine, SameSteps
  <2> QED  BY <2>1, <2>2, Zenon
<1>7. ASSUME a, Fine(h) PROVE map[h.lat].ptr[h.blk] = 0
  BY <1>2, <1>4, <1>7, FinePointer, Zenon
<1>8. ASSUME ~a, Wanted(h), NotOlder(h), Fine(h)
      PROVE  InDat(h, h.lat) /\ v = taken[h.sn].data[h.blk]
  <2>1. map[h.lat].ptr[h.blk] # 0
    BY <1>2, <1>8, Zenon
  <2>2. h.lat \in h.dats
    BY <1>4, <1>8, <2>1, FinePointer, Zenon
  <2> QED  BY <1>2, <1>4, <1>8, <2>1, <2>2, LatestBlock, Zenon DEF LinkedBlock, InDat
<1>9. Reading(e)
  <2>1. e.sn = h.sn /\ e.lat = h.lat /\ e.blk \in Block
    BY <1>4, <1>5, Zenon DEF SameSteps
  <2>2. CASE a
    BY <1>5, <1>6, <1>7, <2>1, <2>2, Zenon DEF Reading
  <2>3. CASE ~a
    BY <1>5, <1>6, <1>8, <2>1, <2>3, Zenon DEF Reading
  <2> QED  BY <2>2, <2>3
<1>10. e.pc \in RPcLabel \ {"closed", "main"}
  BY <1>5 DEF RPcLabel
<1> QED  BY <1>1, <1>2, <1>3, <1>4, <1>5, <1>9, <1>10, ReadingStep, Zenon

(* The main file, still under the lock: what no snapshot has saved is      *)
(* there as it was.                                                        *)
LEMMA RMainOK ==
    ASSUME Inv, Intact, Readers, NEW r \in Reader, RMain(r) PROVE Readers'
<1>1. PICK h : h = rdr[r]
  BY Zenon
<1>2. PICK v, e :
        /\ h.pc = "rmain" /\ Rdr(r, e) /\ ReaderStep /\ UNCHANGED holder
        /\ \/ e = [h EXCEPT !.pc = "runlock", !.ok = TRUE, !.res = v]
           \/ e = [h EXCEPT !.pc = "runlock"]
        /\ h.main = "live" /\ h.blk < file.size =>
             v = file.data[h.blk] /\ e = [h EXCEPT !.pc = "runlock", !.ok = TRUE, !.res = v]
  BY <1>1, Zenon DEF RMain
<1>3. /\ h.pc \in Busy /\ h.pc \in Busy \ {"main"} /\ h.pc # "closed" /\ h.pc # "main"
      /\ h.pc \in HoldPc
  BY <1>2, Zenon DEF Busy, RPcLabel, HoldPc
<1>4. /\ DOMAIN h = RField /\ Opened(h) /\ Reading(h) /\ h.lat = sn.lat /\ h.blk \in Block
      /\ snPc = "idle" /\ h.num = sn.number /\ holder[FileLabel] = r
  BY <1>1, <1>3, ReaderKnows, Zenon
<1>5. /\ SameSteps(e, h) /\ e.main = h.main /\ e.blk = h.blk /\ e.pc = "runlock"
      /\ h.main = "live" /\ h.blk < file.size => e.ok = TRUE /\ e.res = file.data[h.blk]
  BY <1>2, <1>4, Zenon DEF RField, SameSteps
<1>6. (Wanted(e) => Wanted(h)) /\ (Fine(e) => Fine(h))
  BY <1>5, Zenon DEF Wanted, Fine, SameSteps
<1>7. ASSUME Wanted(h), Fine(h) PROVE e.ok = TRUE /\ e.res = taken[h.sn].data[h.blk]
  <2>1. NotOlder(h) /\ map[sn.lat].ptr[h.blk] = 0
    BY <1>2, <1>4, <1>7, Zenon DEF Reading
  <2>2. /\ Remains /\ h.blk < taken[sn.lat].size /\ LinkedBlock(sn.lat, h.blk)
        /\ taken[sn.lat].data[h.blk] = taken[h.sn].data[h.blk] /\ After(sn.lat) = file
    BY <1>4, <1>7, <2>1, LatestBlock, Zenon
  <2>3. h.blk < file.size /\ file.data[h.blk] = taken[sn.lat].data[h.blk]
    BY <2>1, <2>2, Zenon DEF LinkedBlock
  <2>4. h.main = "live"
    BY <1>3, <1>4, <2>1, <2>2, Zenon DEF Opened, Remains
  <2> QED  BY <1>5, <2>2, <2>3, <2>4, Zenon
<1>8. Reading(e)
  <2>1. e.sn = h.sn /\ e.blk \in Block
    BY <1>4, <1>5, Zenon DEF SameSteps
  <2> QED  BY <1>5, <1>6, <1>7, <2>1, Zenon DEF Reading
<1>9. e.pc \in RPcLabel \ {"closed", "main"}
  BY <1>5 DEF RPcLabel
<1> QED  BY <1>1, <1>2, <1>3, <1>4, <1>5, <1>8, <1>9, ReadingStep, Zenon

(* Releasing the lock, and the reply.                                      *)
LEMMA RUnlockOK == ASSUME Inv, Readers, NEW r \in Reader, RUnlock(r) PROVE Readers'
<1>1. PICK h, e : h = rdr[r] /\ e = [h EXCEPT !.pc = "done"]
  BY Zenon
<1>2. h.pc = "runlock" /\ Rdr(r, e) /\ ReaderStep /\ Lock!Release(r, FileLabel)
  BY <1>1, Zenon DEF RUnlock
<1>3. h.pc \in Busy /\ h.pc \in Busy \ {"main"} /\ h.pc # "closed" /\ h.pc # "main"
  BY <1>2 DEF Busy, RPcLabel
<1>4. /\ DOMAIN h = RField /\ Opened(h) /\ Reading(h) /\ h.blk \in Block
      /\ snPc = "idle" /\ h.num = sn.number
  BY <1>1, <1>3, ReaderKnows, Zenon
<1>5. /\ SameSteps(e, h) /\ e.pc = "done" /\ e.main = h.main /\ e.blk = h.blk
      /\ e.ok = h.ok /\ e.res = h.res
  BY <1>1, <1>4, Zenon DEF RField, SameSteps
<1>6. \A q \in Reader : q # r => holder[FileLabel] # q
  BY <1>2, Zenon DEF Lock!Release
<1>7. Reading(e)
  <2>1. /\ (Wanted(e) => Wanted(h)) /\ (Fine(e) => Fine(h)) /\ e.sn = h.sn
    BY <1>5, Zenon DEF Wanted, Fine, SameSteps
  <2> QED  BY <1>2, <1>4, <1>5, <2>1, Zenon DEF Reading
<1>8. e.pc \in RPcLabel \ {"closed", "main"} /\ e.pc \notin HoldPc
  BY <1>5 DEF RPcLabel, HoldPc
<1> QED  BY <1>1, <1>2, <1>3, <1>4, <1>5, <1>6, <1>7, <1>8, ReadingStep, Zenon

(* The reply to the read.                                                  *)
LEMMA RReturnOK == ASSUME Inv, Readers, NEW r \in Reader, RReturn(r) PROVE Readers'
<1>1. PICK h, e : h = rdr[r] /\ e = [h EXCEPT !.pc = "ready", !.blk = 0, !.res = Zero, !.ok = FALSE]
  BY Zenon
<1>2. h.pc = "done" /\ Rdr(r, e) /\ ReaderStep /\ UNCHANGED holder
  BY <1>1, Zenon DEF RReturn
<1>3. h.pc \in Busy /\ h.pc # "closed" /\ h.pc # "main"
  BY <1>2 DEF Busy, RPcLabel
<1>4. DOMAIN h = RField /\ snPc = "idle" /\ h.num = sn.number
  BY <1>1, <1>3, ReaderKnows, Zenon
<1>5. SameSteps(e, h) /\ e.pc = "ready" /\ e.main = h.main
  BY <1>1, <1>4, Zenon DEF RField, SameSteps
<1>6. Reading(e) /\ e.pc \in RPcLabel \ {"closed", "main"} /\ e.pc \notin HoldPc
  BY <1>5 DEF Reading, Busy, RPcLabel, HoldPc
<1> QED  BY <1>1, <1>2, <1>3, <1>4, <1>5, <1>6, ReadingStep, Zenon

(* Every step of a reader.                                                 *)
LEMMA ReadOK ==
    ASSUME Inv, Intact, FaultTypes, PtrMade, Readers, NEW r \in Reader, Read(r), ~faults'.raced
    PROVE  Readers'
  BY ROpenMapsOK, ROpenMainOK, RCloseOK, RStartOK, RNowhereOK, ROlderOK, RLockOK, RLatestOK,
     RMainOK, RUnlockOK, RReturnOK, Zenon
  DEF Read

-----------------------------------------------------------------------------
(* The steps of the threads.  Only unlink touches the handles of readers:  *)
(* they keep a main file that nobody can open any more, and whose blocks   *)
(* are all saved by then.                                                  *)
LEMMA ThreadReaders ==
    ASSUME NEW t \in Thread, Start(t) \/ Step(t)
    PROVE  \/ rdr' = rdr
           \/ /\ pc[t] = "apply" /\ req[t].op = "unlink" /\ map' = map
              /\ rdr' = [p \in Reader |-> [rdr[p] EXCEPT !.main =
                                             IF @ = "live" THEN "orphan" ELSE @]]
<1>1. Start(t) => rdr' = rdr
  BY Zenon
  DEF Start, StartOpen, StartCreate, StartWrite, StartFtruncate, StartTruncate, StartUnlink,
      Close, Begin
<1>2. OpenSn(t) => rdr' = rdr
  BY Zenon
  DEF OpenSn, OpenSnBegin, OpenSnLatest, OpenSnLock, OpenSnMap, OpenSnStat, OpenSnHeader,
      OpenSnUnlock, OpenSnDat, OpenSnIsDir, OpenSnNoHeader, OpenSnError, Validate,
      ValidateFails, Validated
<1>3. Save(t) => Apply(t) \/ rdr' = rdr
  BY Zenon
  DEF Save, BWritePeek, BWriteLock, BWriteRecheck, BWriteRead, BWriteSeek, BWriteAppend,
      BWriteSetPointer, BWriteDone, BWriteFailed, BWriteNoMap, BWriteError
<1>4. Apply(t) => \/ rdr' = rdr
                  \/ /\ pc[t] = "apply" /\ req[t].op = "unlink" /\ map' = map
                     /\ rdr' = [p \in Reader |-> [rdr[p] EXCEPT !.main =
                                                    IF @ = "live" THEN "orphan" ELSE @]]
  BY Zenon DEF Apply
<1> QED  BY <1>1, <1>2, <1>3, <1>4, Zenon DEF Step

(* When unlink removes the main file, the latest snapshot has all blocks.  *)
LEMMA UnlinkSaved ==
    ASSUME Inv, Intact, NEW t \in Thread, pc[t] = "apply", req[t].op = "unlink", Remains,
           NEW b \in Block, b < taken[sn.lat].size
    PROVE  map[sn.lat].ptr[b] # 0
<1>1. SavedTo(t, req[t].hi) /\ req[t].hi = MaxSize /\ req[t].lo = 0
  BY Zenon DEF Intact, Copied, Asked
<1>2. 0 <= b /\ b < MaxSize
  BY BoundAssumption DEF Block
<1> QED  BY <1>1, <1>2, Zenon DEF SavedTo

(* No step of a thread disturbs a reader.                                  *)
LEMMA ThreadReadersOK ==
    ASSUME Inv, Intact, PtrMade, NEW t \in Thread, FdMade(t), Readers, Start(t) \/ Step(t),
           StepOK(t), taken' = taken
    PROVE  Readers'
<1>1. OldMaps /\ MapKept /\ UNCHANGED <<sn, snPc, earliest, taken>>
  BY ThreadMaps, Zenon DEF StepOK, Frame
<1>2. ASSUME NEW r \in Reader
      PROVE  /\ rdr[r].pc \in HoldPc => holder'[FileLabel] = r /\ map' = map
             /\ rdr[r].pc # "closed" => Opened(rdr[r]) /\ Reading(rdr[r])
             /\ DOMAIN rdr[r] = RField /\ rdr[r].pc \in RPcLabel
  BY ThreadWaits, Zenon DEF Readers, ReaderOK
<1>3. ASSUME NEW r \in Reader, NEW h, h = rdr[r], h.pc # "closed" PROVE Opened(h)' /\ Reading(h)'
  BY <1>1, <1>2, <1>3, HandleStays, Zenon
<1>4. CASE rdr' = rdr
  <2>1. ASSUME NEW r \in Reader PROVE ReaderOK(r)'
    <3>1. PICK h : h = rdr[r] /\ rdr'[r] = h
      BY <1>4, Zenon
    <3>2. h.pc # "closed" => Opened(h)' /\ Reading(h)'
      BY <1>3, <3>1, Zenon
    <3> QED  BY <1>2, <3>1, <3>2, Zenon DEF ReaderOK
  <2> QED  BY <1>4, <2>1, Zenon DEF Readers
<1>5. CASE /\ pc[t] = "apply" /\ req[t].op = "unlink" /\ map' = map
           /\ rdr' = [p \in Reader |-> [rdr[p] EXCEPT !.main = IF @ = "live" THEN "orphan" ELSE @]]
  <2>1. ASSUME NEW r \in Reader PROVE ReaderOK(r)'
    <3>1. PICK h, m, e : /\ h = rdr[r] /\ m = (IF h.main = "live" THEN "orphan" ELSE h.main)
                         /\ e = [h EXCEPT !.main = m] /\ rdr'[r] = e
      BY <1>5, Zenon
    <3>2. /\ SameSteps(e, h) /\ e.pc = h.pc /\ e.blk = h.blk /\ e.res = h.res /\ e.ok = h.ok
      BY <1>2, <3>1, Zenon DEF RField, SameSteps
    <3>3. ASSUME h.pc # "closed" PROVE Opened(e)' /\ Reading(e)'
      <4>1. Opened(h) /\ Reading(h)
        BY <1>2, <3>1, <3>3, Zenon
      <4>2. earliest <= h.lat /\ h.lat = sn.lat =>
              \A b \in Block : b < taken[h.lat].size => map[h.lat].ptr[b] # 0
        BY <1>5, UnlinkSaved, Zenon DEF Remains
      <4>3. Opened(e)
        BY <3>2, <4>1, <4>2, Zenon DEF Opened, Older, SameSteps
      <4>4. /\ (Wanted(e) <=> Wanted(h)) /\ (Fine(e) <=> Fine(h)) /\ (NotOlder(e) <=> NotOlder(h))
            /\ e.lat = h.lat /\ e.sn = h.sn
        BY <3>2, Zenon DEF Wanted, NotOlder, Older, Fine, SameSteps
      <4>5. Reading(e)
        BY <3>2, <4>1, <4>4, Zenon DEF Reading
      <4> QED  BY <1>1, <1>5, <4>3, <4>5, SameHandles, Zenon
    <3> QED  BY <1>2, <3>1, <3>2, <3>3, Zenon DEF ReaderOK, SameSteps
  <2> QED  BY <1>5, <2>1, Zenon DEF Readers
<1> QED  BY <1>4, <1>5, ThreadReaders, Zenon

-----------------------------------------------------------------------------
(* Taking a snapshot, in its two steps: the handles of readers, none of    *)
(* which is in use, are now too old to be read from.                       *)
LEMMA SnReaders ==
    ASSUME Inv, Intact, FaultTypes, Readers, SnSetLatest \/ SnIncNumber \/ SnDestroy,
           ~faults'.raced
    PROVE  Readers'
<1>1. /\ UNCHANGED <<map, holder, rdr>> /\ sn.lat \in 0 .. MaxSnap /\ sn.number \in Nat
      /\ earliest \in Nat /\ sn \in [number : Nat, any : BOOLEAN, lat : 0 .. MaxSnap]
  BY DEF SnSetLatest, SnIncNumber, SnDestroy, fileVars, Inv, Types
<1> SUFFICES ASSUME NEW r \in Reader, NEW h, h = rdr[r], h.pc # "closed"
             PROVE  Opened(h)' /\ Reading(h)'
  BY <1>1, Zenon DEF Readers, ReaderOK
<1>2. Opened(h) /\ Reading(h) /\ h.pc \in RPcLabel
  BY Zenon DEF Readers, ReaderOK
<1>3. /\ h.lat \in Nat /\ h.num \in Nat /\ h.lat <= sn.lat /\ h.num <= sn.number /\ h.sn <= h.lat
      /\ h.sn \in Nat /\ h.lat \in Snap /\ h.sn \in Snap
  BY <1>2, FdFacts, Zenon DEF Opened
<1>4. h.pc = "ready" => Reading(h)'
  BY DEF Reading, Busy
<1>5. CASE SnSetLatest
  <2>0. NoRequest
    BY <1>5, NotRaced, Zenon DEF SnSetLatest
  <2>1. snPc' = "number" /\ earliest' = earliest /\ h.pc = "ready"
    BY <1>5, <2>0, Zenon DEF SnSetLatest, NoRequest
  <2>2. sn'.lat = sn.lat + 1 /\ sn'.number = sn.number
    BY <1>1, <1>5, Zenon DEF SnSetLatest
  <2>3. h.lat <= sn'.lat /\ h.lat # sn'.lat /\ h.num <= sn'.number
    BY <1>1, <1>3, <2>2
  <2>4. Opened(h)'
    <3>1. h.pc \notin Busy
      BY <2>1 DEF Busy
    <3> QED  BY <1>1, <1>2, <2>1, <2>3, <3>1, Zenon DEF Opened, Older
  <2> QED  BY <1>4, <2>1, <2>4, Zenon
<1>6. CASE SnIncNumber
  <2>1. snPc = "number" /\ UNCHANGED <<earliest, taken>>
    BY <1>6 DEF SnIncNumber
  <2>2. sn'.lat = sn.lat /\ sn'.number = sn.number + 1
    BY <1>1, <1>6, Zenon DEF SnIncNumber
  <2>3. h.num <= sn'.number /\ h.num # sn'.number
    BY <1>1, <1>3, <2>2
  <2>4. h.pc \notin Busy /\ h.pc = "ready"
    BY <1>2, <2>1, Zenon DEF Opened, Busy
  <2>5. Opened(h)'
    BY <1>1, <1>2, <2>1, <2>2, <2>3, <2>4, Zenon DEF Opened, Older
  <2> QED  BY <1>4, <2>4, <2>5, Zenon
<1>7. CASE SnDestroy
  <2>1. UNCHANGED <<snPc, taken>> /\ earliest' = earliest + 1
    BY <1>7 DEF SnDestroy
  <2>2. sn'.lat = sn.lat /\ sn'.number = sn.number
    BY <1>1, <1>7, Zenon DEF SnDestroy
  <2>3. \A n \in Nat : earliest' <= n => earliest <= n
    BY <1>1, <2>1
  <2>4. Opened(h)'
    BY <1>1, <1>2, <1>3, <2>1, <2>2, <2>3, Zenon DEF Opened, Older
  <2>5. (Wanted(h)' => Wanted(h)) /\ (NotOlder(h)' <=> NotOlder(h)) /\ (Fine(h)' <=> Fine(h))
    BY <1>1, <1>3, <2>1, <2>3, Zenon DEF Wanted, NotOlder, Older, Fine
  <2>6. Reading(h)'
    BY <1>1, <1>2, <2>1, <2>5, Zenon DEF Reading
  <2> QED  BY <2>4, <2>6, Zenon
<1> QED  BY <1>5, <1>6, <1>7, Zenon

(* A step of a thread leaves the record of what was taken alone.           *)
LEMMA ThreadTaken == ASSUME NEW t \in Thread, Start(t) \/ Step(t) PROVE taken' = taken
<1>1. Start(t) => taken' = taken
  BY Zenon
  DEF Start, StartOpen, StartCreate, StartWrite, StartFtruncate, StartTruncate, StartUnlink,
      Close, Begin, snVars
<1>2. OpenSn(t) => taken' = taken
  BY Zenon
  DEF OpenSn, OpenSnBegin, OpenSnLatest, OpenSnLock, OpenSnMap, OpenSnStat, OpenSnHeader,
      OpenSnUnlock, OpenSnDat, OpenSnIsDir, OpenSnNoHeader, OpenSnError, Validate,
      ValidateFails, Validated, snVars
<1>3. Save(t) => taken' = taken
  BY Zenon
  DEF Save, BWritePeek, BWriteLock, BWriteRecheck, BWriteRead, BWriteSeek, BWriteAppend,
      BWriteSetPointer, BWriteDone, BWriteFailed, BWriteNoMap, BWriteError, Apply, snVars
<1> QED  BY <1>1, <1>2, <1>3, Zenon DEF Step

(* A reader that has just been started has no handle.                      *)
LEMMA NoReaders == rdr = [r \in Reader |-> NoRdr] => Readers
<1>1. DOMAIN NoRdr = RField /\ NoRdr.pc = "closed" /\ "closed" \in RPcLabel /\ "closed" \notin HoldPc
  BY DEF NoRdr, RField, RPcLabel, HoldPc
<1> QED  BY <1>1, Zenon DEF Readers, ReaderOK

(* Also after a step.                                                      *)
LEMMA NoReadersNext == rdr' = [r \in Reader |-> NoRdr] => Readers'
<1>1. DOMAIN NoRdr = RField /\ NoRdr.pc = "closed" /\ "closed" \in RPcLabel /\ "closed" \notin HoldPc
  BY DEF NoRdr, RField, RPcLabel, HoldPc
<1> QED  BY <1>1, Zenon DEF Readers, ReaderOK

(* Every step keeps the invariant of the readers while the snapshots are   *)
(* intact.                                                                 *)
LEMMA ReaderStepOK ==
    ASSUME Inv, Intact, FaultTypes, ReaderInv, ThreadsOK, [Next]_vars, ~faults'.raced
    PROVE  ReaderInv'
<1>1. PtrMade /\ Readers /\ \A t \in Thread : FdMade(t)
  BY DEF ReaderInv
<1>2. ASSUME UNCHANGED <<map, dat, mfd>> PROVE PtrMade' /\ \A t \in Thread : FdMade(t)'
  BY <1>1, <1>2, Zenon DEF PtrMade, FdMade
<1>3. ASSUME NEW t \in Thread, Start(t) \/ Step(t) PROVE ReaderInv'
  <2>1. StepOK(t)
    BY <1>3, Zenon DEF ThreadsOK
  <2> QED  BY <1>1, <1>3, <2>1, ThreadMaps, ThreadFds, ThreadTaken, ThreadReadersOK, Zenon
           DEF ReaderInv
<1>4. ASSUME NEW r \in Reader, Read(r) PROVE ReaderInv'
  <2>1. ReaderStep
    BY <1>4, Zenon
    DEF Read, ROpenMaps, RStart, ROpenMain, RClose, RNowhere, ROlder, RLock, RLatest, RMain,
        RUnlock, RReturn
  <2>2. UNCHANGED <<map, dat, mfd>>
    BY <2>1 DEF ReaderStep, fileVars, threadVars
  <2> QED  BY <1>1, <1>2, <1>4, <2>2, ReadOK, Zenon DEF ReaderInv
<1>5. CASE SnSetLatest \/ SnIncNumber \/ SnDestroy
  <2>1. UNCHANGED <<map, dat, mfd>>
    BY <1>5 DEF SnSetLatest, SnIncNumber, SnDestroy, fileVars, threadVars
  <2> QED  BY <1>1, <1>2, <1>5, <2>1, SnReaders, Zenon DEF ReaderInv
<1>6. CASE Crash
  <2>1. UNCHANGED <<map, dat>> /\ Readers'
    BY <1>6, NoReadersNext DEF Crash, fileVars
  <2>2. PtrMade'
    BY <1>1, <2>1, Zenon DEF PtrMade
  <2>3. \A t \in Thread, w \in Which : mfd'[t][w] = NoMfd /\ NoMfd.dat \notin Snap
    <3>1. \A t \in Thread : mfd'[t]["fd"] = NoMfd /\ mfd'[t]["tmp"] = NoMfd
      BY <1>6 DEF Crash
    <3>2. NoMfd.dat \notin Snap
      BY FdFacts DEF NoMfd
    <3> QED  BY <3>1, <3>2, Zenon DEF Which
  <2>4. \A t \in Thread : FdMade(t)'
    BY <2>3, Zenon DEF FdMade
  <2> QED  BY <2>1, <2>2, <2>4, Zenon DEF ReaderInv
<1>7. CASE UNCHANGED vars
  <2>1. UNCHANGED <<map, dat, mfd, rdr, holder, sn, snPc, earliest, taken>>
    BY <1>7 DEF vars
  <2>2. ASSUME NEW r \in Reader PROVE ReaderOK(r)'
    <3>1. PICK h : h = rdr[r] /\ rdr'[r] = h
      BY <2>1, Zenon
    <3>2. ReaderOK(r)
      BY <1>1, Zenon DEF Readers
    <3>3. h.pc # "closed" => Opened(h)' /\ Reading(h)'
      BY <2>1, <3>1, <3>2, SameHandles, Zenon DEF ReaderOK
    <3> QED  BY <2>1, <3>1, <3>2, <3>3, Zenon DEF ReaderOK
  <2> QED  BY <1>1, <1>2, <2>1, <2>2, Zenon DEF ReaderInv, Readers
<1> QED  BY <1>3, <1>4, <1>5, <1>6, <1>7, Zenon DEF Next

(* It holds at the first mount.                                            *)
LEMMA ReaderInit == Init => ReaderInv
<1> SUFFICES ASSUME Init PROVE ReaderInv
  OBVIOUS
<1>1. Readers
  BY NoReaders, Zenon DEF Init
<1>2. PtrMade
  BY DEF Init, PtrMade, NoMap
<1>3. \A t \in Thread, w \in Which : mfd[t][w] = NoMfd /\ NoMfd.dat \notin Snap
  <2>1. \A t \in Thread : mfd[t]["fd"] = NoMfd /\ mfd[t]["tmp"] = NoMfd
    BY DEF Init
  <2>2. NoMfd.dat \notin Snap
    BY FdFacts DEF NoMfd
  <2> QED  BY <2>1, <2>2, Zenon DEF Which
<1>4. \A t \in Thread : FdMade(t)
  BY <1>3, Zenon DEF FdMade
<1> QED  BY <1>1, <1>2, <1>4, Zenon DEF ReaderInv

-----------------------------------------------------------------------------
(* A file system in which no system call fails and the process does not    *)
(* die.                                                                    *)

(* No faults so far; and a map file without a header is being made by a    *)
(* thread that has the file's lock.                                        *)
Faultless == faults.crash = 0 /\ faults.error = 0 /\ ~faults.stale
Making(t, s) == pc[t] \in {"stat", "header"} /\ loc[t].lat = s
BeingMade == \A s \in Snap : map[s].st = "empty" => \E t \in Thread : Making(t, s)

(* At the first mount there is no map file and there was no fault.         *)
LEMMA FaultlessInit == Init => BeingMade /\ Faultless
<1> SUFFICES ASSUME Init PROVE BeingMade /\ Faultless
  OBVIOUS
<1>1. Faultless /\ map = [s \in Snap |-> NoMap]
  BY DEF Init, Faultless
<1>2. NoMap.st # "empty"
  BY DEF NoMap
<1>3. \A s \in Snap : map[s] = NoMap
  BY <1>1, Zenon
<1> QED  BY <1>1, <1>2, <1>3, Zenon DEF BeingMade

(* A step that makes and removes empty map files only for itself.          *)
LEMMA StillMade ==
    ASSUME BeingMade, NEW t \in Thread, StepOK(t),
           \A s \in Snap : map'[s].st = "empty" => \/ map[s].st = "empty" /\ ~Making(t, s)
                                                   \/ Making(t, s)'
    PROVE  BeingMade'
<1> SUFFICES ASSUME NEW s \in Snap, map'[s].st = "empty" PROVE \E u \in Thread : Making(u, s)'
  BY Zenon DEF BeingMade
<1>1. CASE Making(t, s)'
  BY <1>1
<1>2. CASE map[s].st = "empty" /\ ~Making(t, s)
  <2>1. PICK u \in Thread : Making(u, s)
    BY <1>2 DEF BeingMade
  <2>2. pc'[u] = pc[u] /\ loc'[u] = loc[u]
    BY <1>2, <2>1, Zenon DEF StepOK, Frame, OthersKept
  <2> QED  BY <2>1, <2>2, Zenon DEF Making
<1> QED  BY <1>1, <1>2, Zenon

(* mfd_open_sn never finds a map file without a header: the thread that is *)
(* making one has the lock.                                                *)
LEMMA NeverNoHeader == ASSUME Inv, BeingMade, NEW t \in Thread PROVE ~OpenSnNoHeader(t)
<1> SUFFICES ASSUME OpenSnNoHeader(t) PROVE FALSE
  OBVIOUS
<1>1. pc[t] = "map" /\ loc[t].lat \in Snap /\ map[loc[t].lat].st = "empty"
  BY Basics DEF OpenSnNoHeader, Known, Setup
<1>2. PICK u \in Thread : Making(u, loc[t].lat)
  BY <1>1 DEF BeingMade
<1>3. Known(t) /\ Known(u)
  BY Basics, Zenon
<1>4. holder[FileLabel] = t /\ holder[FileLabel] = u
  BY <1>1, <1>2, <1>3 DEF Known, Locked, LockPc, Making
<1> QED  BY <1>1, <1>2, <1>4 DEF Making

(* The steps that touch no map file, and begin elsewhere than where one is *)
(* being made.                                                             *)
Elsewhere(t) == map' = map /\ pc[t] \notin {"stat", "header"}

(* The record of faults stays as it is, but for a request that meets the   *)
(* creation of a snapshot.                                                 *)
NoFault == faults' = faults \/ \E b \in BOOLEAN : Races(b)

(* Such a step is not a failing call, a crash or a handle losing its map.  *)
LEMMA NoFaultFaultless == ASSUME FaultTypes, Faultless, NoFault PROVE Faultless'
<1>1. CASE faults' = faults
  BY <1>1, Zenon DEF Faultless
<1>2. ASSUME NEW b, Races(b) PROVE Faultless'
  <2>1. PICK x : faults' = [faults EXCEPT !.raced = x]
    BY <1>2, Zenon DEF Races
  <2>2. faults'.crash = faults.crash /\ faults'.error = faults.error /\ faults'.stale = faults.stale
    BY <2>1, Zenon DEF FaultTypes
  <2> QED  BY <2>2, Zenon DEF Faultless
<1> QED  BY <1>1, <1>2, Zenon DEF NoFault

(* Each step of a thread keeps the record of faults and makes map files    *)
(* only for itself.                                                        *)
LEMMA ThreadMakes ==
    ASSUME Inv, BeingMade, Faultless, MaxError = 0, NEW t \in Thread, Start(t) \/ Step(t), StepOK(t)
    PROVE  BeingMade' /\ NoFault
<1>1. StepOK(t)
  BY Zenon
<1>2. ~OpenSnNoHeader(t) /\ ~OpenSnError(t) /\ ~BWriteError(t)
  <2>1. ~(faults.error < MaxError)
    BY DEF Faultless
  <2> QED  BY <2>1, NeverNoHeader, Zenon DEF OpenSnError, BWriteError
<1>3. NoFault
  <2>1. ASSUME Start(t) PROVE NoFault
    <3>1. faults' = faults \/ Races(snPc # "idle")
      BY <2>1, Zenon
      DEF Start, StartOpen, StartCreate, StartWrite, StartFtruncate, StartTruncate, StartUnlink,
          Close, Begin
    <3>2. (snPc # "idle") \in BOOLEAN
      BY Zenon
    <3> QED  BY <3>1, <3>2, Zenon DEF NoFault
  <2>2. ASSUME OpenSn(t) PROVE faults' = faults
    BY <1>2, <2>2, Zenon
    DEF OpenSn, OpenSnBegin, OpenSnLatest, OpenSnLock, OpenSnMap, OpenSnStat, OpenSnHeader,
        OpenSnUnlock, OpenSnDat, OpenSnIsDir, Validate, ValidateFails, Validated
  <2>3. ASSUME Save(t) PROVE faults' = faults
    BY <1>2, <2>3, Zenon
    DEF Save, BWritePeek, BWriteLock, BWriteRecheck, BWriteRead, BWriteSeek, BWriteAppend,
        BWriteSetPointer, BWriteDone, BWriteFailed, BWriteNoMap, Apply
  <2> QED  BY <2>1, <2>2, <2>3, Zenon DEF Step, NoFault
<1>4. Known(t) /\ map \in [Snap -> MapFile] /\ map' \in [Snap -> MapFile]
  BY <1>1, Basics, Zenon DEF StepOK, Types, Inv
<1>5. ASSUME Elsewhere(t) PROVE BeingMade'
  BY <1>1, <1>5, StillMade, Zenon DEF Elsewhere, Making
<1>6. ASSUME Start(t) PROVE Elsewhere(t)
  <2>1. pc[t] = "idle" /\ map' = map
    BY <1>6, Zenon
    DEF Start, StartOpen, StartCreate, StartWrite, StartFtruncate, StartTruncate, StartUnlink,
        Close, Begin, fileVars
  <2> QED  BY <2>1 DEF Elsewhere
<1>7. ASSUME OpenSnMap(t) PROVE BeingMade'
  <2>1. PICK s \in Snap : s = loc[t].lat /\ pc[t] = "map"
    BY <1>4, <1>7, Zenon DEF OpenSnMap, Known, Setup
  <2>2. CASE map[s].st = "none"
    <3>1. map' = [map EXCEPT ![s].st = "empty"] /\ Goto(t, "stat") /\ loc' = loc
      BY <1>7, <2>1, <2>2, Zenon DEF OpenSnMap
    <3>2. \A k \in Snap : k # s => map'[k] = map[k]
      BY <1>4, <3>1
    <3>3. pc'[t] = "stat"
      BY <1>4, <3>1, GotoFacts, Zenon DEF PcSet, Known, ThreadTypes, PcLabel
    <3> QED  BY <1>1, <2>1, <3>1, <3>2, <3>3, StillMade, Zenon DEF Making
  <2>3. CASE map[s].st # "none"
    <3>1. Elsewhere(t)
      BY <1>7, <2>1, <2>3 DEF OpenSnMap, Elsewhere
    <3> QED  BY <1>5, <3>1
  <2> QED  BY <2>2, <2>3
<1>8. ASSUME OpenSnStat(t) PROVE BeingMade'
  <2>1. pc[t] = "stat" /\ map' = map /\ loc' = loc /\ Goto(t, "header")
    BY <1>8, Zenon DEF OpenSnStat, fileVars
  <2>2. pc'[t] = "header"
    BY <1>4, <2>1, GotoFacts, Zenon DEF PcSet, Known, ThreadTypes, PcLabel
  <2> QED  BY <1>1, <2>1, <2>2, StillMade, Zenon DEF Making
<1>9. ASSUME OpenSnHeader(t) \/ OpenSnIsDir(t) PROVE BeingMade'
  <2>1. PICK s \in Snap : s = loc[t].lat /\ pc[t] \in {"stat", "header"}
    BY <1>4, <1>9, Zenon DEF OpenSnHeader, OpenSnIsDir, Known, Setup, MapPc
  <2>2. /\ \A k \in Snap : k # s => map'[k] = map[k]
        /\ map'[s].st \in {"none", "saved"}
    BY <1>4, <1>9, <2>1 DEF OpenSnHeader, OpenSnIsDir, NoMap, MapFile
  <2> QED  BY <1>1, <2>1, <2>2, StillMade, Zenon DEF Making
<1>10. ASSUME BWriteSetPointer(t) PROVE BeingMade'
  <2>1. pc[t] = "setptr" /\ Cur(t).map \in Snap
    BY <1>4, <1>10, SavingFacts, Zenon DEF BWriteSetPointer, SavePc, CopyPc
  <2>2. \A s \in Snap : map'[s].st = map[s].st
    BY <1>4, <1>10 DEF BWriteSetPointer, MapFile
  <2>3. pc[t] \notin {"stat", "header"}
    BY <2>1
  <2> QED  BY <1>1, <2>2, <2>3, StillMade, Zenon DEF Making
<1>11. ASSUME OpenSn(t), ~OpenSnMap(t), ~OpenSnStat(t), ~OpenSnHeader(t), ~OpenSnIsDir(t)
       PROVE  Elsewhere(t)
  <2>1. pc[t] \in {"osn", "lat", "lock", "unlock", "dat", "validate", "renum"} /\ map' = map
    BY <1>2, <1>11, Zenon
    DEF OpenSn, OpenSnBegin, OpenSnLatest, OpenSnLock, OpenSnUnlock, OpenSnDat, Validate,
        ValidateFails, Validated, fileVars
  <2> QED  BY <2>1 DEF Elsewhere
<1>12. ASSUME Save(t), ~BWriteSetPointer(t) PROVE Elsewhere(t)
  <2>1. pc[t] \in {"peek", "wlock", "recheck", "pread", "seek", "append", "saved", "failed",
                   "apply"} /\ map' = map
    BY <1>2, <1>12, Zenon
    DEF Save, BWritePeek, BWriteLock, BWriteRecheck, BWriteRead, BWriteSeek, BWriteAppend,
        BWriteDone, BWriteFailed, BWriteNoMap, Apply, fileVars
  <2> QED  BY <2>1 DEF Elsewhere
<1> QED
  BY <1>3, <1>5, <1>6, <1>7, <1>8, <1>9, <1>10, <1>11, <1>12, Zenon DEF Step

(* The steps of others make no map files.                                  *)
LEMMA FaultlessStep ==
    ASSUME Inv, FaultTypes, BeingMade, Faultless, MaxError = 0, MaxCrash = 0, ThreadsOK,
           [Next]_vars
    PROVE  BeingMade' /\ Faultless'
<1>1. ASSUME UNCHANGED <<map, pc, loc>> PROVE BeingMade'
  BY <1>1, Zenon DEF BeingMade, Making
<1>2. ASSUME NEW t \in Thread, Start(t) \/ Step(t) PROVE BeingMade' /\ NoFault
  BY <1>2, ThreadMakes, Zenon DEF ThreadsOK
<1>3. ASSUME NEW r \in Reader, Read(r) PROVE BeingMade' /\ NoFault
  <2>1. ReaderStep /\ (faults' = faults \/ Races(snPc # "idle"))
    BY <1>3, Zenon
    DEF Read, ROpenMaps, RStart, ROpenMain, RClose, RNowhere, ROlder, RLock, RLatest, RMain,
        RUnlock, RReturn
  <2>2. (snPc # "idle") \in BOOLEAN
    BY Zenon
  <2>3. UNCHANGED <<map, pc, loc>>
    BY <2>1 DEF ReaderStep, fileVars, threadVars
  <2> QED  BY <1>1, <2>1, <2>2, <2>3, Zenon DEF NoFault
<1>4. ASSUME SnSetLatest \/ SnIncNumber \/ SnDestroy \/ UNCHANGED vars
      PROVE  BeingMade' /\ NoFault
  <2>1. UNCHANGED <<map, pc, loc>> /\ (faults' = faults \/ Races(~NoRequest))
    BY <1>4 DEF SnSetLatest, SnIncNumber, SnDestroy, vars, fileVars, threadVars
  <2>2. (~NoRequest) \in BOOLEAN
    BY Zenon
  <2> QED  BY <1>1, <2>1, <2>2, Zenon DEF NoFault
<1>5. ~Crash
  BY DEF Crash, Faultless
<1>6. BeingMade' /\ NoFault
  BY <1>2, <1>3, <1>4, <1>5, Zenon DEF Next
<1> QED  BY <1>6, NoFaultFaultless, Zenon
=============================================================================

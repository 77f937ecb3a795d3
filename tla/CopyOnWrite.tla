---------------------------- MODULE CopyOnWrite ----------------------------
(***************************************************************************)
(* How ESFS keeps the snapshots of ONE file of the main space intact while *)
(* the file is opened, created, written, truncated and removed (block.c,   *)
(* mfd.c, fuse_fd_write.c, fuse_path_open.c, fuse_path_write.c) by several *)
(* threads, each through a file handle (mfd) of its own, while snapshots   *)
(* are taken and removed and while other threads read the file inside a    *)
(* snapshot.                                                               *)
(*                                                                         *)
(* The unit of data is the block.  Each snapshot s has, for this file, a   *)
(* map file (a header with the file's saved attributes and one pointer per *)
(* block) and a dat file (the saved blocks in the order they were saved).  *)
(* A block of snapshot s is in the dat file of the first snapshot at or    *)
(* after s whose pointer for it is not 0, or else in the main file.        *)
(*                                                                         *)
(* Threads step from one access of shared state to the next; pc names the  *)
(* code a thread is about to run.  The lock on the file's label is the one *)
(* of module LockSpec, which MFLock implements.                            *)
(***************************************************************************)
EXTENDS Integers, Sequences, FiniteSets

CONSTANTS
    Thread,      \* threads that serve requests on the file in the main space
    Reader,      \* threads that serve requests on the file in a snapshot
    NoThread,
    Value,       \* contents of a block
    Zero,        \* the content of a block that was never written
    Quiet,       \* bound: are snapshots created only while no request is served?
    MaxSize,     \* bound on the size of the file, in blocks
    MaxSnap,     \* bound on the number of snapshots ever taken
    MaxRemove,   \* bound on the number of snapshots removed
    MaxCrash,    \* bound on the number of times the process dies
    MaxError     \* bound on the number of system calls that fail

ASSUME BoundAssumption == /\ MaxSize \in Nat /\ MaxSnap \in Nat
                          /\ MaxRemove \in Nat /\ MaxCrash \in Nat
                          /\ MaxError \in Nat
ASSUME ValueAssumption == Zero \in Value /\ Quiet \in BOOLEAN
ASSUME ThreadAssumption == NoThread \notin Thread \cup Reader
                           /\ Thread \cap Reader = {}

VARIABLES
    file,     \* the file in the main space
    map,      \* map[s]: the map file of the file in snapshot s
    dat,      \* dat[s]: its dat file
    sn,       \* fsdata: sn_number, sn_is_any, sn_lat_dir
    snPc,     \* where the thread that creates a snapshot is
    earliest, \* the earliest snapshot that has not been removed
    holder,   \* the lock of the file's label
    pc,       \* pc[t]: what thread t does next
    req,      \* req[t]: the request it serves
    loc,      \* loc[t]: its local variables
    mfd,      \* mfd[t]: the open handle and the handle on the stack
    rdr,      \* rdr[r]: the handle and the read request of reader r
    faults,   \* history: how often the process died and a system call failed,
              \* whether setting an open handle up again failed (stale), and
              \* whether a snapshot was created during a request (raced)
    taken     \* history: taken[s] is the file when snapshot s was taken

fileVars == <<file, map, dat>>
snVars == <<sn, snPc, earliest, taken>>
threadVars == <<pc, req, loc, mfd>>
vars == <<file, map, dat, sn, snPc, earliest, holder, pc, req, loc, mfd, rdr,
          faults, taken>>

-----------------------------------------------------------------------------
Block == 0 .. MaxSize - 1
Snap == 1 .. MaxSnap
FileLabel == "f"
Lock == INSTANCE LockSpec WITH Thread <- Thread \cup Reader, Label <- {FileLabel}

(* Values of mapfd and datfd that are no file (types.h).  A handle whose   *)
(* files were closed keeps their numbers: Closed is such a stale number,   *)
(* which like every open file passes the test "< 0".                       *)
NOSN == -1
ENOENT == -3
ZLEN == -4
Closed == 0

NoFile == [exists |-> FALSE, size |-> 0, data |-> [b \in Block |-> Zero]]
NoHeader == [exists |-> FALSE, size |-> 0]
NoMap == [st |-> "none", hdr |-> NoHeader, ptr |-> [b \in Block |-> 0]]
NoDat == [made |-> FALSE, blk |-> << >>, torn |-> FALSE]
NoMfd == [open |-> FALSE, rd |-> FALSE, num |-> 0, map |-> NOSN, dat |-> NOSN,
          hdr |-> NoHeader, cache |-> 0]
NoReq == [op |-> "none", lo |-> 0, hi |-> 0, val |-> Zero, rd |-> FALSE]
NoLoc == [cur |-> "fd", lat |-> 0, blk |-> 0, buf |-> Zero, dsz |-> 0]
NoRdr == [pc |-> "closed", sn |-> 0, num |-> 0, lat |-> 0, maps |-> {},
          dats |-> {}, first |-> 0, size |-> 0, main |-> "none",
          blk |-> 0, res |-> Zero, ok |-> FALSE]

(* The content of the file after a write of v to blocks lo .. hi-1, and    *)
(* after a truncation to n blocks; what lies beyond the end reads as Zero. *)
Written(f, lo, hi, v) ==
    [f EXCEPT !.size = IF hi > @ THEN hi ELSE @,
              !.data = [b \in Block |-> IF lo <= b /\ b < hi THEN v ELSE @[b]]]
Truncated(f, n) ==
    [f EXCEPT !.size = n, !.data = [b \in Block |-> IF b < n THEN @[b] ELSE Zero]]

-----------------------------------------------------------------------------
(* A thread: its current mfd, the end of the range it saves, and the code  *)
(* it goes to.                                                             *)
Cur(t) == mfd[t][loc[t].cur]
Goto(t, label) == pc' = [pc EXCEPT ![t] = label]

(* The request ends: the handle on the stack and the locals disappear, and *)
(* a handle that was not opened is freed.                                  *)
Return(t) ==
    /\ pc' = [pc EXCEPT ![t] = "idle"]
    /\ req' = [req EXCEPT ![t] = NoReq]
    /\ loc' = [loc EXCEPT ![t] = NoLoc]
Handles(t, fd) == mfd' = [mfd EXCEPT ![t] = [fd |-> IF fd.open THEN fd ELSE NoMfd,
                                             tmp |-> NoMfd]]
Fail(t) == Return(t) /\ Handles(t, mfd[t].fd)
ReleaseIfHeld(t) == IF holder[FileLabel] = t THEN Lock!Release(t, FileLabel)
                    ELSE UNCHANGED holder

(* b_write saves blocks lo .. hi-1 of the request as far as the file had   *)
(* them when the snapshot was taken; nothing if there is no dat file       *)
(* (block.c:318) or the range is empty (block.c:329).  For a truncation    *)
(* hi is MaxSize: b_truncate passes the range up to the saved size.        *)
SaveEnd(t, m) == IF req[t].hi < m.hdr.size THEN req[t].hi ELSE m.hdr.size
MustSave(t, m) == m.dat >= 0 /\ req[t].lo < SaveEnd(t, m)

(* Where b_write goes from block b: to the next block, or out of the loop. *)
NextBlock(t) ==
    IF loc[t].blk + 1 < SaveEnd(t, Cur(t)) THEN "peek"
    ELSE IF holder[FileLabel] = t THEN "saved" ELSE "apply"
Advance(t) == /\ Goto(t, NextBlock(t))
              /\ loc' = [loc EXCEPT ![t].blk = @ + 1]

-----------------------------------------------------------------------------
(* Requests.  The kernel creates a file only if it does not exist, libfuse *)
(* removes it only while it is not open, and neither overlaps with another *)
(* request on the same path; all other requests may overlap.               *)
AllIdle == \A t \in Thread : pc[t] = "idle"
MayBegin == Quiet => snPc = "idle"
Races(b) == faults' = [faults EXCEPT !.raced = @ \/ b]
Exclusive == \E t \in Thread : req[t].op \in {"create", "unlink"}

Begin(t, r, label, cur) ==
    /\ pc[t] = "idle" /\ MayBegin
    /\ IF r.op \in {"create", "unlink"} THEN AllIdle ELSE ~Exclusive
    /\ req' = [req EXCEPT ![t] = r]
    /\ loc' = [loc EXCEPT ![t] = [NoLoc EXCEPT !.cur = cur, !.blk = r.lo]]
    /\ Goto(t, label)
    /\ Races(snPc # "idle")
    /\ UNCHANGED <<fileVars, snVars, holder, mfd, rdr>>

(* $open for writing: saves the attributes, then opens the file O_RDWR.    *)
StartOpen(t) ==
    /\ file.exists /\ ~mfd[t].fd.open
    /\ Begin(t, [NoReq EXCEPT !.op = "open"], "osn", "fd")

(* $create opens the main file with the flags of the request: the handle   *)
(* can read it only if these are O_RDWR (rd), not if they are O_WRONLY.    *)
StartCreate(t, rd) ==
    /\ ~file.exists
    /\ Begin(t, [NoReq EXCEPT !.op = "create", !.hi = MaxSize, !.rd = rd], "osn", "fd")

StartWrite(t, lo, hi, v) ==
    /\ mfd[t].fd.open
    /\ Begin(t, [NoReq EXCEPT !.op = "write", !.lo = lo, !.hi = hi, !.val = v],
             "validate", "fd")

StartFtruncate(t, n) ==
    /\ mfd[t].fd.open
    /\ Begin(t, [NoReq EXCEPT !.op = "ftruncate", !.lo = n, !.hi = MaxSize],
             "validate", "fd")

(* $truncate and $unlink save blocks through a handle on the stack, set up *)
(* by _open_truncate_close.                                                *)
StartTruncate(t, n) ==
    /\ file.exists
    /\ Begin(t, [NoReq EXCEPT !.op = "truncate", !.lo = n, !.hi = MaxSize], "osn", "tmp")

StartUnlink(t) ==
    /\ file.exists /\ \A u \in Thread : ~mfd[u].fd.open
    /\ Begin(t, [NoReq EXCEPT !.op = "unlink", !.hi = MaxSize], "osn", "tmp")

(* $release closes the map, dat and main files and frees the handle.       *)
Close(t) ==
    /\ pc[t] = "idle" /\ mfd[t].fd.open
    /\ mfd' = [mfd EXCEPT ![t].fd = NoMfd]
    /\ UNCHANGED <<fileVars, snVars, holder, pc, req, loc, rdr, faults>>

Start(t) ==
    \/ StartOpen(t)
    \/ \E rd \in BOOLEAN : StartCreate(t, rd)
    \/ \E lo, hi \in 0 .. MaxSize, v \in Value : lo < hi /\ StartWrite(t, lo, hi, v)
    \/ \E n \in 0 .. MaxSize : StartFtruncate(t, n) \/ StartTruncate(t, n)
    \/ StartUnlink(t)
    \/ Close(t)

-----------------------------------------------------------------------------
(* mfd_open_sn and mfd_validate.                                           *)
SetMfd(t, m) == mfd' = [mfd EXCEPT ![t][loc[t].cur] = m]

(* mfd_open_sn has set up m and returns to its caller: $create goes on to  *)
(* save the content of a file that the snapshot has; _open_truncate_close  *)
(* saves blocks if the snapshot and the main space have the file.          *)
OpenedSn(t, m) ==
    LET saveFirst == /\ req[t].op = "create" /\ loc[t].cur = "fd"
                     /\ m.map >= 0 /\ m.hdr.exists
        truncating == /\ loc[t].cur = "tmp" /\ m.map # NOSN
                      /\ m.hdr.exists /\ file.exists
    IN  /\ SetMfd(t, m)
        /\ loc' = [loc EXCEPT ![t].cur = IF saveFirst THEN "tmp" ELSE @, ![t].lat = 0]
        /\ Goto(t, IF saveFirst THEN "osn"
                   ELSE IF req[t].op \in {"write", "ftruncate"} THEN "renum"
                   ELSE IF truncating /\ MustSave(t, m) THEN "peek" ELSE "apply")

\* Mutant: the cache of the last saved block survives a new snapshot.
OpenSnBeginKeepsCache(t) ==
    /\ pc[t] = "osn"
    /\ SetMfd(t, [Cur(t) EXCEPT !.num = sn.number])
    /\ Goto(t, "lat")
    /\ UNCHANGED <<fileVars, snVars, holder, req, loc, rdr, faults>>

OpenSnBegin(t) ==
    /\ pc[t] = "osn"
    /\ SetMfd(t, [Cur(t) EXCEPT !.num = sn.number, !.cache = 0])
    /\ Goto(t, "lat")
    /\ UNCHANGED <<fileVars, snVars, holder, req, loc, rdr, faults>>

OpenSnLatest(t) ==
    /\ pc[t] = "lat"
    /\ IF sn.any
       THEN /\ loc' = [loc EXCEPT ![t].lat = sn.lat]
            /\ Goto(t, "lock")
            /\ UNCHANGED mfd
       ELSE OpenedSn(t, [Cur(t) EXCEPT !.map = NOSN, !.dat = NOSN])
    /\ UNCHANGED <<fileVars, snVars, holder, req, rdr, faults>>

OpenSnLock(t) ==
    /\ pc[t] = "lock"
    /\ Lock!Acquire(t, FileLabel)
    /\ Goto(t, "map")
    /\ UNCHANGED <<fileVars, snVars, req, loc, mfd, rdr, faults>>

\* Mutant: the map file is opened without O_EXCL and truncated.
OpenSnMapTruncates(t) ==
    /\ pc[t] = "map" /\ map[loc[t].lat].st # "empty"
    /\ map' = [map EXCEPT ![loc[t].lat] = [NoMap EXCEPT !.st = "empty"]]
    /\ SetMfd(t, [Cur(t) EXCEPT !.map = loc[t].lat])
    /\ Goto(t, "stat")
    /\ UNCHANGED <<file, dat, snVars, holder, req, loc, rdr, faults>>

(* Create the map file, or load the header of the one that is there.       *)
OpenSnMap(t) ==
    LET s == loc[t].lat
    IN  /\ pc[t] = "map" /\ map[s].st # "empty"
        /\ IF map[s].st = "none"
           THEN /\ map' = [map EXCEPT ![s].st = "empty"]
                /\ SetMfd(t, [Cur(t) EXCEPT !.map = s])
                /\ Goto(t, "stat")
           ELSE /\ SetMfd(t, [Cur(t) EXCEPT !.map = s, !.hdr = map[s].hdr])
                /\ Goto(t, "unlock")
                /\ UNCHANGED map
        /\ UNCHANGED <<file, dat, snVars, holder, req, loc, rdr, faults>>

\* Mutant: the length of what was read from the map file is not checked.
OpenSnNoHeaderAccepted(t) ==
    /\ pc[t] = "map" /\ map[loc[t].lat].st = "empty"
    /\ SetMfd(t, [Cur(t) EXCEPT !.map = loc[t].lat, !.hdr = NoHeader])
    /\ Goto(t, "unlock")
    /\ UNCHANGED <<fileVars, snVars, holder, req, loc, rdr, faults>>

\* Mutant: the cleanup removes a map file that was there before.
OpenSnErrorUnlinks(t) ==
    /\ pc[t] = "map" /\ faults.error < MaxError
    /\ faults' = [faults EXCEPT !.error = @ + 1]
    /\ map' = [map EXCEPT ![loc[t].lat] = NoMap]
    /\ Lock!Release(t, FileLabel)
    /\ Fail(t)
    /\ UNCHANGED <<file, dat, snVars, rdr>>

(* A system call of mfd_open_sn fails: mkpath, opening the map file, stat, *)
(* reading or writing the header, opening the dat file.  A map file made   *)
(* under the lock still held is removed again.  The handle keeps the new   *)
(* sn_number, and the numbers of the files that were closed (that of a map *)
(* file that was there, if its header could not be read): an open handle   *)
(* is stale.                                                               *)
OpenSnError(t) ==
    LET created == pc[t] \in {"stat", "header"}
        opened == IF created \/ pc[t] = "dat" THEN {TRUE}
                  ELSE IF pc[t] = "map" /\ map[loc[t].lat].st # "none" THEN BOOLEAN
                  ELSE {FALSE}
        h == Cur(t).hdr
        fd == mfd[t].fd
    IN  /\ \/ pc[t] \in {"lock", "map", "stat", "header"}
           \/ pc[t] = "dat" /\ h.exists /\ h.size > 0
        /\ faults.error < MaxError
        /\ faults' = [faults EXCEPT !.error = @ + 1,
                                    !.stale = @ \/ (loc[t].cur = "fd" /\ fd.open)]
        /\ map' = IF created THEN [map EXCEPT ![loc[t].lat] = NoMap] ELSE map
        /\ ReleaseIfHeld(t)
        /\ Return(t)
        /\ \E o \in opened :
              Handles(t, IF o /\ loc[t].cur = "fd" THEN [fd EXCEPT !.map = Closed] ELSE fd)
        /\ UNCHANGED <<file, dat, snVars, rdr>>

(* The map file has no header, because the process died while creating it. *)
OpenSnNoHeader(t) ==
    /\ pc[t] = "map" /\ map[loc[t].lat].st = "empty"
    /\ Lock!Release(t, FileLabel)
    /\ Return(t)
    /\ LET fd == mfd[t].fd
       IN  /\ Handles(t, IF loc[t].cur = "fd" THEN [fd EXCEPT !.map = Closed] ELSE fd)
           /\ faults' = [faults EXCEPT !.stale = @ \/ (loc[t].cur = "fd" /\ fd.open)]
    /\ UNCHANGED <<fileVars, snVars, rdr>>

\* Mutant: the size is rounded up once more when it is saved.
OpenSnStatRoundsUp(t) ==
    /\ pc[t] = "stat"
    /\ SetMfd(t, [Cur(t) EXCEPT !.hdr = [exists |-> file.exists, size |-> file.size + 1]])
    /\ Goto(t, "header")
    /\ UNCHANGED <<fileVars, snVars, holder, req, loc, rdr, faults>>

OpenSnStat(t) ==
    /\ pc[t] = "stat"
    /\ SetMfd(t, [Cur(t) EXCEPT !.hdr = [exists |-> file.exists, size |-> file.size]])
    /\ Goto(t, "header")
    /\ UNCHANGED <<fileVars, snVars, holder, req, loc, rdr, faults>>

(* If the file does not exist, the test for a directory (mfd.c:357) looks  *)
(* at an uninitialised st_mode and may find one: the map file goes again.  *)
OpenSnIsDir(t) ==
    /\ pc[t] = "stat" /\ ~file.exists
    /\ map' = [map EXCEPT ![loc[t].lat] = NoMap]
    /\ Lock!Release(t, FileLabel)
    /\ Fail(t)
    /\ UNCHANGED <<file, dat, snVars, rdr, faults>>

OpenSnHeader(t) ==
    LET s == loc[t].lat
    IN  /\ pc[t] = "header"
        /\ map' = [map EXCEPT ![s].st = "saved", ![s].hdr = Cur(t).hdr]
        /\ Goto(t, "unlock")
        /\ UNCHANGED <<file, dat, snVars, holder, req, loc, mfd, rdr, faults>>

OpenSnUnlock(t) ==
    /\ pc[t] = "unlock"
    /\ Lock!Release(t, FileLabel)
    /\ Goto(t, "dat")
    /\ UNCHANGED <<fileVars, snVars, req, loc, mfd, rdr, faults>>

(* MFD_OPEN_DAT_FILE: there is a dat file only if the snapshot has data of *)
(* the file.  Its path is that of the latest snapshot now.                 *)
OpenSnDat(t) ==
    LET h == Cur(t).hdr
        d == IF ~h.exists THEN ENOENT ELSE IF h.size = 0 THEN ZLEN ELSE sn.lat
    IN  /\ pc[t] = "dat"
        /\ dat' = IF d \in Snap THEN [dat EXCEPT ![d].made = TRUE] ELSE dat
        /\ OpenedSn(t, [Cur(t) EXCEPT !.dat = d])
        /\ UNCHANGED <<file, map, snVars, holder, req, rdr, faults>>

\* Mutant: handles are not set up again for a new snapshot.
ValidateAccepts(t) ==
    /\ pc[t] = "validate"
    /\ Goto(t, IF MustSave(t, mfd[t].fd) THEN "peek" ELSE "apply")
    /\ UNCHANGED <<fileVars, snVars, holder, req, loc, mfd, rdr, faults>>

\* Mutant: the handle gets the new number, but not the new files.
ValidateRenumbers(t) ==
    /\ pc[t] = "validate"
    /\ SetMfd(t, [mfd[t].fd EXCEPT !.num = sn.number])
    /\ Goto(t, IF MustSave(t, mfd[t].fd) THEN "peek" ELSE "apply")
    /\ UNCHANGED <<fileVars, snVars, holder, req, loc, rdr, faults>>

(* mfd_validate: has a snapshot been created since the handle was set up?  *)
(* If so, mfd_close_sn closes its map and dat files.                       *)
ClosedSn(m) ==
    LET closed(fd) == IF fd >= 0 THEN Closed ELSE fd
    IN  [m EXCEPT !.map = closed(@), !.dat = closed(@)]
Validate(t) ==
    LET m == mfd[t].fd
    IN  /\ pc[t] = "validate"
        /\ IF m.num = sn.number
           THEN Goto(t, IF MustSave(t, m) THEN "peek" ELSE "apply") /\ UNCHANGED mfd
           ELSE /\ Closed \notin {m.map, m.dat}
                /\ SetMfd(t, ClosedSn(m))
                /\ Goto(t, "osn")
        /\ UNCHANGED <<fileVars, snVars, holder, req, loc, rdr, faults>>

(* A file that was closed before cannot be closed again: the handle stays  *)
(* as old as it is, and this request and all later ones on it fail.        *)
ValidateFails(t) ==
    LET m == mfd[t].fd
    IN  /\ pc[t] = "validate" /\ m.num # sn.number
        /\ Closed \in {m.map, m.dat}
        /\ Return(t)
        /\ Handles(t, ClosedSn(m))
        /\ UNCHANGED <<fileVars, snVars, holder, rdr, faults>>

Validated(t) ==
    /\ pc[t] = "renum"
    /\ SetMfd(t, [Cur(t) EXCEPT !.num = sn.number])
    /\ Goto(t, IF MustSave(t, Cur(t)) THEN "peek" ELSE "apply")
    /\ UNCHANGED <<fileVars, snVars, holder, req, loc, rdr, faults>>

OpenSn(t) ==
    \/ OpenSnBegin(t)  \/ OpenSnLatest(t)   \/ OpenSnLock(t)   \/ OpenSnMap(t)
    \/ OpenSnStat(t)   \/ OpenSnHeader(t)   \/ OpenSnUnlock(t) \/ OpenSnDat(t)
    \/ OpenSnIsDir(t)  \/ OpenSnNoHeader(t) \/ OpenSnError(t)
    \/ Validate(t)     \/ ValidateFails(t)  \/ Validated(t)

-----------------------------------------------------------------------------
(* b_write, block by block.                                                *)
Pointer(t) == map[Cur(t).map].ptr[loc[t].blk]

(* The block is known to be saved, from the cache or from a first look at  *)
(* the pointer; or it has to be looked at under the lock.                  *)
BWritePeek(t) ==
    LET cached == Cur(t).cache = loc[t].blk + 1
    IN  /\ pc[t] = "peek" /\ Cur(t).map # Closed
        /\ IF cached \/ Pointer(t) # 0
           THEN /\ Advance(t)
                /\ SetMfd(t, [Cur(t) EXCEPT !.cache = loc[t].blk + 1])
           ELSE /\ Goto(t, IF holder[FileLabel] = t THEN "pread" ELSE "wlock")
                /\ UNCHANGED <<loc, mfd>>
        /\ UNCHANGED <<fileVars, snVars, holder, req, rdr, faults>>

(* The map file was closed and not opened again: it cannot be read.        *)
BWriteNoMap(t) ==
    /\ pc[t] = "peek" /\ Cur(t).map = Closed
    /\ Goto(t, "failed")
    /\ UNCHANGED <<fileVars, snVars, holder, req, loc, mfd, rdr, faults>>

BWriteLock(t) ==
    /\ pc[t] = "wlock"
    /\ Lock!Acquire(t, FileLabel)
    /\ Goto(t, "recheck")
    /\ UNCHANGED <<fileVars, snVars, req, loc, mfd, rdr, faults>>

\* Mutant: the pointer is not read again under the lock.
BWriteNoRecheck(t) ==
    /\ pc[t] = "recheck"
    /\ Goto(t, "pread")
    /\ UNCHANGED <<fileVars, snVars, holder, req, loc, mfd, rdr, faults>>

\* Mutant: the block is cached as saved before it is.
BWriteRecheckCaches(t) ==
    /\ pc[t] = "recheck"
    /\ IF Pointer(t) # 0 THEN Advance(t) ELSE Goto(t, "pread") /\ UNCHANGED loc
    /\ SetMfd(t, [Cur(t) EXCEPT !.cache = loc[t].blk + 1])
    /\ UNCHANGED <<fileVars, snVars, holder, req, rdr, faults>>

BWriteRecheck(t) ==
    /\ pc[t] = "recheck"
    /\ IF Pointer(t) # 0 THEN Advance(t) ELSE Goto(t, "pread") /\ UNCHANGED loc
    /\ UNCHANGED <<fileVars, snVars, holder, req, mfd, rdr, faults>>

(* Read the old block; it must be there, and the handle must be readable.  *)
Readable(t) == loc[t].cur = "tmp" \/ mfd[t].fd.rd
BWriteRead(t) ==
    /\ pc[t] = "pread"
    /\ IF Readable(t) /\ loc[t].blk < file.size
       THEN /\ loc' = [loc EXCEPT ![t].buf = file.data[loc[t].blk]]
            /\ Goto(t, "seek")
       ELSE Goto(t, "failed") /\ UNCHANGED loc
    /\ UNCHANGED <<fileVars, snVars, holder, req, mfd, rdr, faults>>

(* The dat file ends where the block goes, unless an append was cut short: *)
(* then its size is no number of blocks, and nothing is saved there again. *)
BWriteSeek(t) ==
    /\ pc[t] = "seek"
    /\ IF dat[Cur(t).dat].torn THEN Goto(t, "failed") /\ UNCHANGED loc
       ELSE /\ loc' = [loc EXCEPT ![t].dsz = Len(dat[Cur(t).dat].blk)]
            /\ Goto(t, "append")
    /\ UNCHANGED <<fileVars, snVars, holder, req, mfd, rdr, faults>>

BWriteAppend(t) ==
    /\ pc[t] = "append"
    /\ dat' = [dat EXCEPT ![Cur(t).dat].blk = Append(@, loc[t].buf)]
    /\ Goto(t, "setptr")
    /\ UNCHANGED <<file, map, snVars, holder, req, loc, mfd, rdr, faults>>

\* Mutant: the pointer is the index of the block, not the index plus one.
BWriteSetIndex(t) ==
    LET b == loc[t].blk
    IN  /\ pc[t] = "setptr"
        /\ map' = [map EXCEPT ![Cur(t).map].ptr[b] = loc[t].dsz]
        /\ SetMfd(t, [Cur(t) EXCEPT !.cache = b + 1])
        /\ Goto(t, NextBlock(t))
        /\ loc' = [loc EXCEPT ![t].blk = b + 1, ![t].buf = Zero, ![t].dsz = 0]
        /\ UNCHANGED <<file, dat, snVars, holder, req, rdr, faults>>

BWriteSetPointer(t) ==
    LET b == loc[t].blk
    IN  /\ pc[t] = "setptr"
        /\ map' = [map EXCEPT ![Cur(t).map].ptr[b] = loc[t].dsz + 1]
        /\ SetMfd(t, [Cur(t) EXCEPT !.cache = b + 1])
        /\ Goto(t, NextBlock(t))
        /\ loc' = [loc EXCEPT ![t].blk = b + 1, ![t].buf = Zero, ![t].dsz = 0]
        /\ UNCHANGED <<file, dat, snVars, holder, req, rdr, faults>>

(* All blocks are saved: release the lock and let the change happen.       *)
BWriteDone(t) ==
    /\ pc[t] = "saved"
    /\ Lock!Release(t, FileLabel)
    /\ Goto(t, "apply")
    /\ UNCHANGED <<fileVars, snVars, req, loc, mfd, rdr, faults>>

(* One of the system calls fails; an append may have written a part.       *)
BWriteError(t) ==
    /\ pc[t] \in {"peek", "recheck", "pread", "seek", "append", "setptr"}
    /\ pc[t] = "peek" => Cur(t).cache # loc[t].blk + 1
    /\ faults.error < MaxError
    /\ faults' = [faults EXCEPT !.error = @ + 1]
    /\ \/ UNCHANGED dat
       \/ pc[t] = "append" /\ dat' = [dat EXCEPT ![Cur(t).dat].torn = TRUE]
    /\ Goto(t, "failed")
    /\ UNCHANGED <<file, map, snVars, holder, req, loc, mfd, rdr>>

\* Mutant: a block that could not be saved is tried again.
BWriteFailedRetries(t) ==
    /\ pc[t] = "failed"
    /\ Goto(t, "peek")
    /\ UNCHANGED <<fileVars, snVars, holder, req, loc, mfd, rdr, faults>>

\* Mutant: the caller does not look at the error.
BWriteFailedGoesOn(t) ==
    /\ pc[t] = "failed"
    /\ ReleaseIfHeld(t)
    /\ Goto(t, "apply")
    /\ UNCHANGED <<fileVars, snVars, req, loc, mfd, rdr, faults>>

(* A block could not be saved: release the lock if b_write has it by now,  *)
(* and refuse the request.                                                 *)
BWriteFailed(t) ==
    /\ pc[t] = "failed"
    /\ ReleaseIfHeld(t)
    /\ Fail(t)
    /\ UNCHANGED <<fileVars, snVars, rdr, faults>>

(* The system call on the main file, and the end of the request.           *)
Changed(t) ==
    LET r == req[t]
    IN  CASE r.op = "open" -> file
          [] r.op = "create" -> [NoFile EXCEPT !.exists = TRUE]
          [] r.op = "unlink" -> NoFile
          [] r.op = "write" -> Written(file, r.lo, r.hi, r.val)
          [] OTHER -> Truncated(file, r.lo)

Apply(t) ==
    LET r == req[t]
        fd == mfd[t].fd
    IN  /\ pc[t] = "apply"
        /\ file' = Changed(t)
        /\ Handles(t, IF r.op \in {"open", "create"}
                      THEN [fd EXCEPT !.open = TRUE, !.rd = r.op = "open" \/ r.rd]
                      ELSE fd)
        /\ rdr' = IF r.op = "unlink"
                  THEN [p \in Reader |-> [rdr[p] EXCEPT !.main =
                           IF @ = "live" THEN "orphan" ELSE @]]
                  ELSE rdr
        /\ Return(t)
        /\ UNCHANGED <<map, dat, snVars, holder, faults>>

Save(t) ==
    \/ BWritePeek(t)   \/ BWriteLock(t)       \/ BWriteRecheck(t) \/ BWriteRead(t)
    \/ BWriteSeek(t)   \/ BWriteAppend(t)     \/ BWriteSetPointer(t)
    \/ BWriteDone(t)   \/ BWriteFailed(t)     \/ BWriteNoMap(t)
    \/ BWriteError(t)  \/ Apply(t)

-----------------------------------------------------------------------------
(* Snapshots.  sn_create makes the new snapshot the latest one on disk and *)
(* then in memory: sn_set_latest changes the path, then the number that    *)
(* handles are compared with.  sn_destroy removes the earliest snapshot;   *)
(* the map and dat files stay usable for those who have them open.         *)
NoRequest == AllIdle /\ \A r \in Reader : rdr[r].pc \in {"closed", "ready"}
SnSetLatest ==
    /\ snPc = "idle" /\ sn.lat < MaxSnap
    /\ Quiet => NoRequest
    /\ Races(~NoRequest)
    /\ sn' = [sn EXCEPT !.lat = @ + 1, !.any = TRUE]
    /\ taken' = [taken EXCEPT ![sn.lat + 1] = file]
    /\ snPc' = "number"
    /\ UNCHANGED <<fileVars, earliest, holder, threadVars, rdr>>

SnIncNumber ==
    /\ snPc = "number"
    /\ sn' = [sn EXCEPT !.number = @ + 1]
    /\ snPc' = "idle"
    /\ UNCHANGED <<fileVars, earliest, taken, holder, threadVars, rdr, faults>>

SnDestroy ==
    /\ snPc = "idle" /\ sn.any /\ earliest <= MaxRemove
    /\ earliest' = earliest + 1
    /\ sn' = [sn EXCEPT !.any = earliest < sn.lat]
    /\ UNCHANGED <<fileVars, snPc, taken, holder, threadVars, rdr, faults>>

(* The process dies at any point and is started again: memory is lost, the *)
(* files stay.  main() counts snapshots from 0 again.                      *)
Crash ==
    /\ faults.crash < MaxCrash
    /\ faults' = [faults EXCEPT !.crash = @ + 1]
    /\ pc' = [t \in Thread |-> "idle"]
    /\ req' = [t \in Thread |-> NoReq]
    /\ loc' = [t \in Thread |-> NoLoc]
    /\ mfd' = [t \in Thread |-> [fd |-> NoMfd, tmp |-> NoMfd]]
    /\ rdr' = [r \in Reader |-> NoRdr]
    /\ holder' = [l \in {FileLabel} |-> NoThread]
    /\ sn' = [sn EXCEPT !.number = 0]
    /\ snPc' = "idle"
    /\ UNCHANGED <<fileVars, earliest, taken>>

-----------------------------------------------------------------------------
(* Reading the file inside a snapshot: mfd_get_sn_steps at $open, b_read   *)
(* at $read.  Step k of the handle is snapshot k; the main file is last.   *)
Rdr(r, h) == rdr' = [rdr EXCEPT ![r] = h]
ReaderStep == UNCHANGED <<fileVars, snVars, threadVars>>
Least(S) == CHOOSE k \in S : \A j \in S : k <= j

(* Open the map and dat files there are.  The handle's size comes from the *)
(* first step whose dat file (not only the map file) could be opened.      *)
ROpenMaps(r, s) ==
    LET steps == s .. sn.lat
        maps == {k \in steps : map[k].st = "saved"}
        dats == {k \in maps : dat[k].made}
        first == IF dats = {} THEN 0 ELSE Least(dats)
    IN  /\ rdr[r].pc = "closed" /\ MayBegin /\ sn.any /\ earliest <= s
        /\ \A k \in steps : map[k].st # "empty"  \* else EIO, and the open fails
        /\ Rdr(r, [NoRdr EXCEPT !.pc = "main", !.sn = s, !.num = sn.number,
                                !.lat = sn.lat, !.maps = maps, !.dats = dats,
                                !.first = first,
                                !.size = IF first = 0 THEN 0 ELSE map[first].hdr.size])
        /\ Races(snPc # "idle")
        /\ ReaderStep /\ UNCHANGED holder

(* Open the main file, and take its size if no step before had the file.   *)
(* If the main space has none either, the size remains uninitialised.      *)
ROpenMain(r) ==
    /\ rdr[r].pc = "main"
    /\ \E garbage \in 0 .. MaxSize :
          Rdr(r, [rdr[r] EXCEPT
              !.pc = "ready",
              !.main = IF file.exists THEN "live" ELSE "none",
              !.size = IF rdr[r].first # 0 THEN @
                       ELSE IF file.exists THEN file.size ELSE garbage])
    /\ ReaderStep /\ UNCHANGED <<holder, faults>>

RClose(r) ==
    /\ rdr[r].pc = "ready"
    /\ Rdr(r, NoRdr)
    /\ ReaderStep /\ UNCHANGED <<holder, faults>>

(* $read: mfd_in_sn_validate refuses a handle older than the last snapshot; *)
(* past the end of the file there is nothing to read.                      *)
RStart(r, b) ==
    /\ rdr[r].pc = "ready" /\ MayBegin /\ rdr[r].num = sn.number /\ b < rdr[r].size
    /\ Rdr(r, [rdr[r] EXCEPT !.pc = "older", !.blk = b])
    /\ Races(snPc # "idle")
    /\ ReaderStep /\ UNCHANGED holder

(* No step has the file, so b_read searches none, and returns what is in   *)
(* the buffer (as many bytes as an uninitialised size says).               *)
RNowhere(r) ==
    /\ rdr[r].pc = "older" /\ rdr[r].first = 0 /\ rdr[r].main = "none"
    /\ \E v \in Value : Rdr(r, [rdr[r] EXCEPT !.pc = "done", !.ok = TRUE, !.res = v])
    /\ ReaderStep /\ UNCHANGED <<holder, faults>>

(* The dat file of snapshot k is open, and reaches as far as the pointer   *)
(* says; if it does not, the read fails.                                   *)
InDat(h, k) == k \in h.dats /\ map[k].ptr[h.blk] <= Len(dat[k].blk)

(* Snapshots before the latest one are searched without the lock.          *)
ROlder(r) ==
    LET h == rdr[r]
        found == {k \in h.maps : /\ h.first # 0 /\ h.first <= k /\ k < h.lat
                                 /\ map[k].ptr[h.blk] # 0}
        k == Least(found)
    IN  /\ h.pc = "older" /\ (h.first # 0 \/ h.main # "none")
        /\ Rdr(r, IF found = {} THEN [h EXCEPT !.pc = "rlock"]
                  ELSE IF InDat(h, k)
                  THEN [h EXCEPT !.pc = "done", !.ok = TRUE,
                                 !.res = dat[k].blk[map[k].ptr[h.blk]]]
                  ELSE [h EXCEPT !.pc = "done"])
        /\ ReaderStep /\ UNCHANGED <<holder, faults>>

\* Mutant: the latest snapshot is read without the lock.
RNoLock(r) ==
    /\ rdr[r].pc = "rlock"
    /\ Rdr(r, [rdr[r] EXCEPT !.pc = "latest"])
    /\ ReaderStep /\ UNCHANGED <<holder, faults>>

RLock(r) ==
    /\ rdr[r].pc = "rlock"
    /\ Lock!Acquire(r, FileLabel)
    /\ Rdr(r, [rdr[r] EXCEPT !.pc = "latest"])
    /\ ReaderStep /\ UNCHANGED faults

RLatest(r) ==
    LET h == rdr[r]
        k == h.lat
    IN  /\ h.pc = "latest"
        /\ Rdr(r, IF h.first = 0 \/ k \notin h.maps \/ map[k].ptr[h.blk] = 0
                  THEN [h EXCEPT !.pc = "rmain"]
                  ELSE IF InDat(h, k)
                  THEN [h EXCEPT !.pc = "runlock", !.ok = TRUE,
                                 !.res = dat[k].blk[map[k].ptr[h.blk]]]
                  ELSE [h EXCEPT !.pc = "runlock"])
        /\ ReaderStep /\ UNCHANGED <<holder, faults>>

(* The main file: a read past its end fails, and so does one of a file     *)
(* that was not there; the handle may be on a file removed since.          *)
RMain(r) ==
    LET h == rdr[r]
    IN  /\ h.pc = "rmain"
        /\ \/ /\ h.main = "live"
              /\ Rdr(r, IF h.blk < file.size
                        THEN [h EXCEPT !.pc = "runlock", !.ok = TRUE,
                                       !.res = file.data[h.blk]]
                        ELSE [h EXCEPT !.pc = "runlock"])
           \/ /\ h.main = "orphan"
              /\ \E v \in Value : Rdr(r, [h EXCEPT !.pc = "runlock", !.ok = TRUE, !.res = v])
           \/ /\ h.main # "live"
              /\ Rdr(r, [h EXCEPT !.pc = "runlock"])
        /\ ReaderStep /\ UNCHANGED <<holder, faults>>

RUnlock(r) ==
    /\ rdr[r].pc = "runlock"
    /\ Lock!Release(r, FileLabel)
    /\ Rdr(r, [rdr[r] EXCEPT !.pc = "done"])
    /\ ReaderStep /\ UNCHANGED faults

RReturn(r) ==
    /\ rdr[r].pc = "done"
    /\ Rdr(r, [rdr[r] EXCEPT !.pc = "ready", !.blk = 0, !.res = Zero, !.ok = FALSE])
    /\ ReaderStep /\ UNCHANGED <<holder, faults>>

Read(r) ==
    \/ \E s \in 1 .. sn.lat : ROpenMaps(r, s)
    \/ \E b \in Block : RStart(r, b)
    \/ ROpenMain(r) \/ RClose(r)  \/ RNowhere(r) \/ ROlder(r) \/ RLock(r)
    \/ RLatest(r)   \/ RMain(r)   \/ RUnlock(r)  \/ RReturn(r)

-----------------------------------------------------------------------------
(* At mount there are no snapshots yet, and any file may be there.         *)
Init ==
    /\ file \in {NoFile} \cup
         {[exists |-> TRUE, size |-> n, data |-> d] :
             n \in 0 .. MaxSize, d \in [Block -> Value]}
    /\ \A b \in Block : b >= file.size => file.data[b] = Zero
    /\ map = [s \in Snap |-> NoMap]
    /\ dat = [s \in Snap |-> NoDat]
    /\ sn = [number |-> 0, any |-> FALSE, lat |-> 0]
    /\ snPc = "idle"
    /\ earliest = 1
    /\ holder = [l \in {FileLabel} |-> NoThread]
    /\ pc = [t \in Thread |-> "idle"]
    /\ req = [t \in Thread |-> NoReq]
    /\ loc = [t \in Thread |-> NoLoc]
    /\ mfd = [t \in Thread |-> [fd |-> NoMfd, tmp |-> NoMfd]]
    /\ rdr = [r \in Reader |-> NoRdr]
    /\ faults = [crash |-> 0, error |-> 0, stale |-> FALSE, raced |-> FALSE]
    /\ taken = [s \in Snap |-> NoFile]

Step(t) == OpenSn(t) \/ Save(t)

Next ==
    \/ \E t \in Thread : Start(t) \/ Step(t)
    \/ \E r \in Reader : Read(r)
    \/ SnSetLatest \/ SnIncNumber \/ SnDestroy
    \/ Crash

Spec == Init /\ [][Next]_vars

(* A thread that serves a request goes on with it: it is never waiting for *)
(* anything but the file's lock.                                           *)
FairSpec == Spec /\ \A t \in Thread : WF_vars(Step(t))

-----------------------------------------------------------------------------
(* Type invariant of the state of module CopyOnWrite: the fields of        *)
(* fsdata, mfd, the map header and the sn_steps have the values types.h    *)
(* gives them, and the files on disk are block files of at most MaxSize.   *)
Header == [exists : BOOLEAN, size : 0 .. MaxSize]
File == [exists : BOOLEAN, size : 0 .. MaxSize, data : [Block -> Value]]
Fd == Snap \cup {NOSN, ENOENT, ZLEN, Closed}
Mfd == [open : BOOLEAN, rd : BOOLEAN, num : 0 .. MaxSnap, map : Fd, dat : Fd,
        hdr : Header, cache : 0 .. MaxSize]
Op == {"none", "open", "create", "write", "ftruncate", "truncate", "unlink"}
PcLabel == {"idle", "osn", "lat", "lock", "map", "stat", "header", "unlock", "dat",
            "validate", "renum", "peek", "wlock", "recheck", "pread", "seek",
            "append", "setptr", "saved", "failed", "apply"}
RPcLabel == {"closed", "main", "ready", "older", "rlock", "latest", "rmain",
             "runlock", "done"}
TypeOK ==
    /\ file \in File
    /\ map \in [Snap -> [st : {"none", "empty", "saved"}, hdr : Header,
                         ptr : [Block -> Nat]]]
    /\ dat \in [Snap -> [made : BOOLEAN, blk : Seq(Value), torn : BOOLEAN]]
    /\ sn \in [number : 0 .. MaxSnap, any : BOOLEAN, lat : 0 .. MaxSnap]
    /\ snPc \in {"idle", "number"}
    /\ earliest \in 1 .. MaxSnap + 1
    /\ holder \in [{FileLabel} -> Thread \cup Reader \cup {NoThread}]
    /\ pc \in [Thread -> PcLabel]
    /\ req \in [Thread -> [op : Op, lo : 0 .. MaxSize, hi : 0 .. MaxSize,
                           val : Value, rd : BOOLEAN]]
    /\ loc \in [Thread -> [cur : {"fd", "tmp"}, lat : 0 .. MaxSnap,
                           blk : 0 .. MaxSize, buf : Value, dsz : Nat]]
    /\ mfd \in [Thread -> [fd : Mfd, tmp : Mfd]]
    /\ rdr \in [Reader -> [pc : RPcLabel, sn : 0 .. MaxSnap, num : 0 .. MaxSnap,
                           lat : 0 .. MaxSnap, maps : SUBSET Snap, dats : SUBSET Snap,
                           first : 0 .. MaxSnap, size : 0 .. MaxSize,
                           main : {"none", "live", "orphan"}, blk : 0 .. MaxSize,
                           res : Value, ok : BOOLEAN]]
    /\ faults \in [crash : 0 .. MaxCrash, error : 0 .. MaxError, stale : BOOLEAN,
                   raced : BOOLEAN]
    /\ taken \in [Snap -> File]

(* What the files on disk say about snapshot s: the header of the first    *)
(* map file from s on or else the attributes of the main file, and each    *)
(* block from the first snapshot that saved it or else from the main file. *)
HeaderOf(s) ==
    LET K == {k \in s .. sn.lat : map[k].st = "saved"}
    IN  IF K = {} THEN [exists |-> file.exists, size |-> file.size]
        ELSE map[Least(K)].hdr
BlockOf(s, b) ==
    LET K == {k \in s .. sn.lat : map[k].ptr[b] # 0}
        k == Least(K)
    IN  IF K = {} THEN file.data[b] ELSE dat[k].blk[map[k].ptr[b]]

(* The disk always determines the whole file as it was when each remaining *)
(* snapshot was taken, whatever requests are half done and wherever the    *)
(* process died: README.md:101-106 and the order of the five steps in      *)
(* block.c:65-71.                                                          *)
SnapshotIntact ==
    \A s \in earliest .. sn.lat :
        /\ HeaderOf(s) = [exists |-> taken[s].exists, size |-> taken[s].size]
        /\ \A b \in 0 .. taken[s].size - 1 : BlockOf(s, b) = taken[s].data[b]

(* The disk determines the snapshots wherever the process dies, and        *)
(* whatever system call of mfd_open_sn or b_write fails: b_write reports   *)
(* the error before the main file changes (block.c:465), and main()        *)
(* rebuilds what it needs from the files.  The exception is a failure to   *)
(* set an open handle up again, after which mfd_validate accepts it        *)
(* (mfd.c:233; SavedBeforeChange shows what that leads to).  The other is  *)
(* a snapshot created while a request is served, which may have looked at  *)
(* sn_number before.                                                       *)
IntactDespiteFaults == ~faults.stale /\ ~faults.raced => SnapshotIntact

(* A handle on a file in a snapshot knows all there is to know if the      *)
(* latest snapshot has no map file of it, or has one whose dat file the    *)
(* handle has open.  That excludes handles opened before one of the two    *)
(* appeared, and a latest map file that never gets a dat file (of a file   *)
(* that was empty or missing then).                                        *)
HandleCurrent(h) == map[h.lat].st # "none" => h.lat \in h.dats

(* What b_read returns through such a handle is the block as it was when   *)
(* the snapshot was taken (if the file had it, and the snapshot has not    *)
(* been removed), even while the block is being saved and overwritten:     *)
(* b_read holds the file's lock while it looks at the latest map file and  *)
(* the main file (block.c:172-180).                                        *)
ReadsSnapshot ==
    \A r \in Reader : LET h == rdr[r] IN
        /\ h.pc \in {"runlock", "done"}
        /\ HandleCurrent(h) /\ earliest <= h.sn /\ h.blk < taken[h.sn].size
        => h.ok /\ h.res = taken[h.sn].data[h.blk]

(* "It only saves a block once" (README.md:105): no two blocks share a     *)
(* pointer, and unless there were faults the dat file holds no block that  *)
(* no pointer refers to, but for the one being saved.                      *)
SavedOnce ==
    \A s \in Snap :
        LET saved == {b \in Block : map[s].ptr[b] # 0}
            half == \E t \in Thread : pc[t] = "setptr" /\ Cur(t).dat = s
        IN  /\ \A b, c \in saved : map[s].ptr[b] = map[s].ptr[c] => b = c
            /\ faults.crash = 0 /\ faults.error = 0 =>
                 Len(dat[s].blk) = Cardinality(saved) + (IF half THEN 1 ELSE 0)

(* "Any blocks outside the current main file should have already been      *)
(* saved" (block.c:480): the block b_write is about to save is still in    *)
(* the main file, as long as the snapshot it is saved for is there.        *)
OldBlockThere ==
    \A t \in Thread : pc[t] = "pread" /\ earliest <= Cur(t).map
                        => loc[t].blk < file.size

(* The map header "needs to remain immutable as it is cached in memory     *)
(* with each filehandle" (types.h:150): what a handle has cached, the      *)
(* header and the last saved block, agrees with the map file.              *)
CacheCoherent ==
    \A t \in Thread, w \in {"fd", "tmp"} :
        LET m == mfd[t][w]
            settingUp == loc[t].cur = w /\ pc[t] \in {"stat", "header"}
        IN  m.map \in Snap /\ ~settingUp
            => /\ map[m.map].st = "saved" /\ m.hdr = map[m.map].hdr
               /\ m.cache # 0 => map[m.map].ptr[m.cache - 1] # 0

(* A change of the main file is only made when the blocks of old data that *)
(* it destroys are saved in the latest snapshot (README.md:103-104).       *)
SavedBeforeChange ==
    \A t \in Thread :
        pc[t] = "apply" /\ req[t].op # "open" /\ sn.any /\ snPc = "idle"
        => \A b \in req[t].lo .. req[t].hi - 1 :
              b < taken[sn.lat].size => map[sn.lat].ptr[b] # 0

(* The same, whatever dies or fails on the way, unless an open handle      *)
(* could not be set up again: mfd_open_sn stores the new snapshot number   *)
(* first (mfd.c:233), so mfd_validate accepts that handle the next time.   *)
(* And unless a snapshot was created while a request was served.           *)
SavedDespiteFaults == ~faults.stale /\ ~faults.raced => SavedBeforeChange

(* A handle that mfd_validate has accepted is set up for the latest        *)
(* snapshot (mfd.c:478, fuse_fd_write.c:65): between requests, a handle    *)
(* with the current number does not refer to an earlier snapshot.          *)
ValidMeansLatest ==
    \A t \in Thread :
        LET m == mfd[t].fd
        IN  m.open /\ pc[t] = "idle" /\ snPc = "idle" /\ m.num = sn.number
            => m.map \in {NOSN, sn.lat}

(* What a snapshot has saved never changes: a pointer, once set, and the   *)
(* blocks in the dat file stay, and so does a header (types.h:150).        *)
SavedForever ==
    [][\A s \in Snap :
         /\ map[s].st = "saved" => map'[s].st = "saved" /\ map'[s].hdr = map[s].hdr
         /\ \A b \in Block : map[s].ptr[b] # 0 => map'[s].ptr[b] = map[s].ptr[b]
         /\ \A i \in 1 .. Len(dat[s].blk) :
               i \in 1 .. Len(dat'[s].blk) /\ dat'[s].blk[i] = dat[s].blk[i]]_vars

(* Every request ends, with a reply or an error, and the lock of its file  *)
(* is free again: no way out of mfd_open_sn or b_write, past failing calls *)
(* or a dead process, forgets to release it.                               *)
RequestsEnd ==
    \A t \in Thread : pc[t] # "idle" ~> (pc[t] = "idle" /\ holder[FileLabel] # t)
=============================================================================

----------------------------- MODULE Snapshots ------------------------------
(***************************************************************************)
(* The chain of snapshots of snapshot.c.  A snapshot is a directory        *)
(* snapshots/ID; the pointer file snapshots/.hid holds the path of the     *)
(* latest snapshot and snapshots/ID.hid that of the one before ID.  The    *)
(* latest one is also kept in memory (sn_is_any, sn_lat_dir).              *)
(*                                                                         *)
(* One thread creates or removes snapshots, one system call a step (the    *)
(* kernel locks the directory of a mkdir and the victim of an rmdir, so    *)
(* there is one such request at a time); another one walks the chain to    *)
(* find the way to a snapshot, one pointer file a step.  libfuse locks the *)
(* path of an rmdir against requests below it, so walks overlap with       *)
(* creations only.  Any system call that changes something may fail, those *)
(* of a cleanup included, and the process may die between any two.         *)
(***************************************************************************)
EXTENDS Integers, FiniteSets, Sequences

CONSTANTS
    Id,            \* names of snapshots
    MaxSnapshots,  \* MAX_SNAPSHOTS, the bound of the walks along the chain
    MaxCreate,     \* bound: snapshots created between two mounts
    MaxError,      \* bound: system calls that fail
    MaxCrash,      \* bound: times the process ends
    TornCrash,     \* can the process end while .hid is truncated?
    Top,           \* the pointer file snapshots/.hid
    Absent,        \* a pointer file that is not there; sn_lat_dir before any use
    Empty,         \* a pointer file without a path in it
    Garbage        \* a path that is not the path of a snapshot

ASSUME SnapshotAssumption ==
    /\ IsFiniteSet(Id) /\ MaxSnapshots \in Nat \ {0, 1} /\ TornCrash \in BOOLEAN
    /\ MaxCreate \in Nat /\ MaxError \in Nat /\ MaxCrash \in Nat
    /\ {Top, Absent, Empty, Garbage} \cap Id = {}
    /\ Absent # Empty /\ Absent # Garbage

VARIABLES
    dir,      \* dir[x]: the directory snapshots/x: none, whole, or partly removed
    hid,      \* hid[x]: the pointer file snapshots/x.hid; hid[Top]: snapshots/.hid
    up,       \* is the file system mounted?
    any,      \* sn_is_any
    lat,      \* sn_lat_dir
    number,   \* sn_number
    op,       \* the request that creates or removes a snapshot
    walk,     \* the request that looks for a snapshot
    faults    \* errors and crashes so far; history: the names whose pointer file a
              \* cleanup could not remove, and whether mkdir has adopted such a file

vars == <<dir, hid, up, any, lat, number, op, walk, faults>>
disk == <<dir, hid>>
memory == <<up, any, lat, number>>

NoOp == [pc |-> "idle", id |-> Absent, prev |-> Absent]
NoWalk == [pc |-> "idle", id |-> Absent, list |-> << >>, chain |-> << >>]

(* The snapshots from x on along the pointers h, the latest first: the     *)
(* longest sequence that starts with x and in which each one is followed   *)
(* by what its pointer file says.                                          *)
Linked(h, c) == \A i \in 1 .. Len(c) - 1 : h[c[i]] = c[i + 1]
ChainFrom(h, x) ==
    LET Walks == {c \in UNION {[1 .. n -> Id] : n \in 0 .. Cardinality(Id)} :
                     (c # << >> => c[1] = x) /\ Linked(h, c)}
    IN  CHOOSE c \in Walks : \A e \in Walks : Len(e) <= Len(c)

(* Where it starts: from memory, and while nothing is mounted from disk.   *)
Latest == IF ~up THEN hid[Top] ELSE IF any THEN lat ELSE Absent
Chain == ChainFrom(hid, Latest)

Init ==
    /\ dir = [x \in Id |-> "none"]
    /\ hid = [x \in Id \cup {Top} |-> Absent]
    /\ up = FALSE /\ any = FALSE /\ lat = Absent /\ number = 0
    /\ op = NoOp /\ walk = NoWalk
    /\ faults = [error |-> 0, crash |-> 0, left |-> {}, adopted |-> FALSE]

-----------------------------------------------------------------------------
At(l) == op.pc = l
Goto(l) == op' = [op EXCEPT !.pc = l]
Done == op' = NoOp
Works == UNCHANGED faults
Fails == /\ faults.error < MaxError
         /\ faults' = [faults EXCEPT !.error = @ + 1]
Pointer(x, v) == hid' = [hid EXCEPT ![x] = v]

(* sn_create makes the directory, and a pointer to the snapshot before it. *)
(* The first snapshot has none before it, and sn_create does not look for  *)
(* a pointer file that is there all the same.                              *)
Mkdir(x) ==
    /\ up /\ At("idle") /\ number < MaxCreate
    /\ dir[x] = "none"
    /\ dir' = [dir EXCEPT ![x] = "whole"]
    /\ op' = [NoOp EXCEPT !.pc = IF any THEN "hid" ELSE "top", !.id = x]
    /\ faults' = IF ~any /\ hid[x] # Absent THEN [faults EXCEPT !.adopted = TRUE] ELSE faults
    /\ UNCHANGED <<hid, memory, walk>>

CreateHid ==
    /\ At("hid") /\ hid[op.id] = Absent
    /\ Pointer(op.id, Empty)
    /\ Goto("writehid") /\ Works
    /\ UNCHANGED <<dir, memory, walk>>

CreateHidFails ==
    /\ At("hid")
    /\ IF hid[op.id] = Absent THEN Fails ELSE Works    \* O_EXCL
    /\ Goto("rmdir")
    /\ UNCHANGED <<disk, memory, walk>>

\* Mutant: the pointer is written into the wrong file.
WriteHidSwapped ==
    /\ At("writehid")
    /\ Pointer(lat, op.id)
    /\ Goto("top") /\ Works
    /\ UNCHANGED <<dir, memory, walk>>

WriteHid ==
    /\ At("writehid")
    /\ Pointer(op.id, lat)
    /\ Goto("top") /\ Works
    /\ UNCHANGED <<dir, memory, walk>>

WriteHidFails ==
    /\ At("writehid") /\ Fails
    /\ Goto("unhid")
    /\ UNCHANGED <<disk, memory, walk>>

(* sn_set_latest: truncate snapshots/.hid, write it, then set the memory.  *)
OpenTop ==
    /\ At("top")
    /\ Pointer(Top, Empty)
    /\ Goto("writetop") /\ Works
    /\ UNCHANGED <<dir, memory, walk>>

WriteTop ==
    /\ At("writetop")
    /\ Pointer(Top, op.id)
    /\ Goto("memory") /\ Works
    /\ UNCHANGED <<dir, memory, walk>>

SetLatestFails ==
    /\ At("top") \/ At("writetop")
    /\ Fails
    /\ Goto(IF any THEN "unhid" ELSE "rmdir")
    /\ UNCHANGED <<disk, memory, walk>>

SetMemory ==
    /\ At("memory")
    /\ lat' = op.id /\ any' = TRUE /\ number' = number + 1
    /\ Done
    /\ UNCHANGED <<disk, up, walk, faults>>

\* Mutant: the pointer file of a snapshot that could not be set up stays.
UnlinkHidForgets ==
    /\ At("unhid")
    /\ Goto("rmdir")
    /\ UNCHANGED <<disk, memory, walk, faults>>

(* Clean up after an error in sn_create, which goes on if it cannot.       *)
UnlinkHid ==
    /\ At("unhid")
    /\ Pointer(op.id, Absent)
    /\ Goto("rmdir") /\ Works
    /\ UNCHANGED <<dir, memory, walk>>

UnlinkHidFails ==
    /\ At("unhid") /\ faults.error < MaxError
    /\ faults' = [faults EXCEPT !.error = @ + 1, !.left = @ \cup {op.id}]
    /\ Goto("rmdir")
    /\ UNCHANGED <<disk, memory, walk>>

RmdirNew ==
    /\ At("rmdir")
    /\ dir' = [dir EXCEPT ![op.id] = "none"]
    /\ Done /\ Works
    /\ UNCHANGED <<hid, memory, walk>>

RmdirNewFails ==
    /\ At("rmdir") /\ Fails
    /\ Done
    /\ UNCHANGED <<disk, memory, walk>>

-----------------------------------------------------------------------------
Destroying == op.pc \in {"untop", "unprev", "remove", "removeonly"}

(* sn_get_earliest finds the last two snapshots of the chain; it gives up  *)
(* on more than MAX_SNAPSHOTS of them, and on a pointer file without a     *)
(* path.                                                                   *)
Destroy ==
    /\ up /\ At("idle") /\ any
    /\ walk.pc = "idle"    \* libfuse: no request below /snapshots
    /\ LET n == Len(Chain)
       IN  /\ n <= MaxSnapshots /\ hid[Chain[n]] = Absent
           /\ op' = [pc |-> IF n = 1 THEN "untop" ELSE "unprev", id |-> Chain[n],
                     prev |-> IF n = 1 THEN Top ELSE Chain[n - 1]]
    /\ UNCHANGED <<disk, memory, walk, faults>>

\* Mutant: the files are removed while the pointer is still there.
UnlinkPointerNot ==
    /\ At("untop") \/ At("unprev")
    /\ Goto(IF At("untop") THEN "removeonly" ELSE "remove")
    /\ UNCHANGED <<disk, memory, walk, faults>>

(* Remove the pointer to the earliest snapshot: for the only one that is   *)
(* snapshots/.hid.                                                         *)
UnlinkPointer ==
    /\ At("untop") \/ At("unprev")
    /\ hid[op.prev] # Absent
    /\ Pointer(op.prev, Absent)
    /\ Goto(IF At("untop") THEN "removeonly" ELSE "remove")
    /\ Works
    /\ UNCHANGED <<dir, memory, walk>>

UnlinkPointerFails ==
    /\ At("untop") \/ At("unprev")
    /\ IF hid[op.prev] # Absent THEN Fails ELSE Works
    /\ Done
    /\ UNCHANGED <<disk, memory, walk>>

(* recursive_remove: file by file, and then the directory itself.          *)
RemoveSome ==
    /\ At("remove") \/ At("removeonly")
    /\ dir[op.id] = "whole"
    /\ dir' = [dir EXCEPT ![op.id] = "part"]
    /\ Works
    /\ UNCHANGED <<hid, memory, op, walk>>

RemoveFails ==
    /\ At("remove") \/ At("removeonly")
    /\ Fails /\ Done
    /\ UNCHANGED <<disk, memory, walk>>

\* Mutant: sn_is_any stays set when the only snapshot is gone.
RemoveAllKeepsAny ==
    /\ At("remove") \/ At("removeonly")
    /\ dir' = [dir EXCEPT ![op.id] = "none"]
    /\ Done /\ Works
    /\ UNCHANGED <<hid, memory, walk>>

RemoveAll ==
    /\ At("remove") \/ At("removeonly")
    /\ dir' = [dir EXCEPT ![op.id] = "none"]
    /\ any' = IF At("removeonly") THEN FALSE ELSE any
    /\ Done /\ Works
    /\ UNCHANGED <<hid, up, lat, number, walk>>

-----------------------------------------------------------------------------
(* sn_get_paths_to(x) starts from sn_lat_dir, whether or not sn_is_any is  *)
(* set; while sn_set_latest copies a new path there, it may see any mix.   *)
WalkStart(x) ==
    /\ up /\ walk.pc = "idle" /\ ~Destroying
    /\ \E first \in IF At("memory") THEN {lat, op.id, Garbage} ELSE {lat} :
          walk' = [pc |-> "walk", id |-> x, list |-> <<first>>,
                   chain |-> IF first = lat THEN Chain ELSE <<op.id>> \o Chain]
    /\ UNCHANGED <<disk, memory, op, faults>>

\* Mutant: the bound of the walk is tested before the names are compared.
WalkStepShort ==
    /\ walk.pc = "walk"
    /\ LET p == Len(walk.list)
           x == walk.list[p]
           next == IF x \in Id THEN hid[x] ELSE Absent
       IN  walk' = IF p + 1 >= MaxSnapshots \/ (x # walk.id /\ next \notin Id)
                   THEN [walk EXCEPT !.pc = "lost"]
                   ELSE IF x = walk.id THEN [walk EXCEPT !.pc = "found"]
                   ELSE [walk EXCEPT !.list = Append(@, next)]
    /\ UNCHANGED <<disk, memory, op, faults>>

\* Mutant: the walk has no bound.
WalkStepUnbounded ==
    /\ walk.pc = "walk"
    /\ LET x == walk.list[Len(walk.list)]
           next == IF x \in Id THEN hid[x] ELSE Absent
       IN  walk' = IF x = walk.id THEN [walk EXCEPT !.pc = "found"]
                   ELSE IF next \notin Id THEN [walk EXCEPT !.pc = "lost"]
                   ELSE [walk EXCEPT !.list = Append(@, next)]
    /\ UNCHANGED <<disk, memory, op, faults>>

WalkStep ==
    /\ walk.pc = "walk"
    /\ LET p == Len(walk.list)
           x == walk.list[p]
           next == IF x \in Id THEN hid[x] ELSE Absent
       IN  walk' = IF x = walk.id THEN [walk EXCEPT !.pc = "found"]
                   ELSE IF p + 1 >= MaxSnapshots \/ next \notin Id THEN [walk EXCEPT !.pc = "lost"]
                   ELSE [walk EXCEPT !.list = Append(@, next)]
    /\ UNCHANGED <<disk, memory, op, faults>>

WalkEnd ==
    /\ walk.pc \in {"found", "lost"}
    /\ walk' = NoWalk
    /\ UNCHANGED <<disk, memory, op, faults>>

-----------------------------------------------------------------------------
(* The process ends, in an orderly way or not, and forgets its memory.     *)
Crash ==
    /\ up /\ faults.crash < MaxCrash
    /\ TornCrash \/ hid[Top] # Empty
    /\ faults' = [faults EXCEPT !.crash = @ + 1]
    /\ up' = FALSE /\ any' = FALSE /\ lat' = Absent /\ number' = 0
    /\ op' = NoOp /\ walk' = NoWalk
    /\ UNCHANGED disk

(* main: sn_get_latest reads snapshots/.hid; one without a path is an      *)
(* error, and the file system is not mounted.                              *)
Mount ==
    /\ ~up /\ hid[Top] # Empty
    /\ up' = TRUE
    /\ any' = (hid[Top] # Absent)
    /\ lat' = hid[Top]
    /\ UNCHANGED <<disk, number, op, walk, faults>>

Next ==
    \/ \E x \in Id : Mkdir(x) \/ WalkStart(x)
    \/ CreateHid \/ CreateHidFails \/ WriteHid \/ WriteHidFails
    \/ OpenTop \/ WriteTop \/ SetLatestFails \/ SetMemory
    \/ UnlinkHid \/ UnlinkHidFails \/ RmdirNew \/ RmdirNewFails
    \/ Destroy \/ UnlinkPointer \/ UnlinkPointerFails
    \/ RemoveSome \/ RemoveFails \/ RemoveAll
    \/ WalkStep \/ WalkEnd \/ Crash \/ Mount

Spec == Init /\ [][Next]_vars
-----------------------------------------------------------------------------
(* Type invariant of the snapshot directory and of fsdata_t's sn_ fields.  *)
TypeOK ==
    /\ dir \in [Id -> {"none", "whole", "part"}]
    /\ hid \in [Id \cup {Top} -> Id \cup {Absent, Empty}]
    /\ up \in BOOLEAN /\ any \in BOOLEAN
    /\ lat \in Id \cup {Absent} /\ number \in 0 .. MaxCreate
    /\ op.id \in Id \cup {Absent} /\ op.prev \in Id \cup {Top, Absent}
    /\ walk.list \in Seq(Id \cup {Absent, Garbage}) /\ Len(walk.list) < MaxSnapshots

(* The pointer files implement the list of snapshots: mkdir puts one in    *)
(* front, rmdir takes away the earliest one, and a failed or interrupted   *)
(* request does either all of that or nothing.  This ends when mkdir makes *)
(* a first snapshot of a name whose pointer file an earlier cleanup could  *)
(* not remove (snapshot.c:404): sn_create does not look at that file       *)
(* (snapshot.c:358), and what it points to is in the chain again.          *)
List == INSTANCE SnapshotList WITH snaps <- Chain
ImplementsList == List!ListInit /\ [][List!ListNext \/ faults'.adopted]_Chain

(* "The real paths of the snapshot roots" up to the one that was asked for *)
(* (snapshot.c:154): the walk of sn_get_paths_to that succeeds has         *)
(* followed the chain as it was when it started, without a gap, although   *)
(* snapshots are created meanwhile, and names of removed ones used again   *)
(* (but not their pointer files, see ImplementsList).                      *)
WalkFollowsChain ==
    ~faults.adopted /\ walk.pc = "found" /\ walk.chain # << >> =>
        /\ Len(walk.list) <= Len(walk.chain)
        /\ \A i \in 1 .. Len(walk.list) : walk.list[i] = walk.chain[i]

(* sn_get_paths_to finds every snapshot that is there when it starts,      *)
(* except at the bound MAX_SNAPSHOTS (types.h:77) and when it has read     *)
(* sn_lat_dir while that was being changed (and see ImplementsList).       *)
WalkFinds ==
    ~faults.adopted /\ walk.pc = "lost" => \A i \in 1 .. Len(walk.chain) :
        walk.chain[i] = walk.id => Head(walk.list) = Garbage \/ i >= MaxSnapshots

(* Without I/O errors a snapshot in the chain has all its files: only one  *)
(* that has been taken off the chain is removed, except the very last one, *)
(* which sn_destroy leaves in sn_lat_dir until its files are gone.         *)
ChainWhole ==
    faults.error = 0 /\ ~At("removeonly") => \A i \in 1 .. Len(Chain) : dir[Chain[i]] = "whole"

(* A pointer file is there only together with its snapshot's directory, so *)
(* that O_EXCL in sn_create does not fail for a name that mkdir accepted:  *)
(* whatever fails and wherever the process dies, only the unlink of the    *)
(* cleanup itself (snapshot.c:404) can leave one behind.                   *)
PointerNeedsDir == \A x \in Id : hid[x] # Absent => dir[x] # "none" \/ x \in faults.left

(* "There's a pointer to the latest snapshot in /snapshots/.hid if there   *)
(* is at least one snapshot" (snapshot.c:43-44): so when the file system   *)
(* is mounted again it finds the snapshots it had, one of which is the     *)
(* predecessor of another.                                                 *)
LatestPointer ==
    ~up /\ (\E x \in Id : hid[x] \in Id /\ dir[hid[x]] = "whole") => hid[Top] \in Id

=============================================================================

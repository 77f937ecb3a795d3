----------------------------- MODULE Namespace -----------------------------
(***************************************************************************)
(* Names and attributes: mkdir, rmdir, create, unlink, chmod and chown in  *)
(* the main space (fuse_path_write.c, fuse_path_open.c), the directories   *)
(* and map files they leave in the latest snapshot (mfd_open_sn, mkpath),  *)
(* and what getattr, access, opendir and readdir make of them inside a     *)
(* snapshot (mfd_get_sn_steps, _sn_readdir), while recursive_remove takes  *)
(* the earliest snapshot away.                                             *)
(*                                                                         *)
(* A snapshot holds, below its root, directories that mkpath has made, and *)
(* for each path that was changed a map file with the attributes saved, or *)
(* the fact that nothing was there.  One step is one system call.  The     *)
(* contents of the files are those of module CopyOnWrite.                  *)
(*                                                                         *)
(* No two requests here work on one path (the kernel and libfuse see to    *)
(* it), so the lock of a path is never contended and is left out.          *)
(***************************************************************************)
EXTENDS Integers, Sequences, FiniteSets

CONSTANTS
    Thread,      \* threads that serve requests in the main space
    Path,        \* paths of the main space, as sequences of names
    FilePath,    \* where files are made,
    DirPath,     \* and where directories are
    Attr,        \* attributes: mode and owner
    NewAttr,     \* those of a new file or directory
    RWXU,        \* the mode S_IRWXU that mkpath gives to directories
    MaxSnap,     \* bound on the number of snapshots taken
    MaxRemove,   \* bound on the number of snapshots removed
    MaxRequest,  \* bound on the number of requests in the main space,
    MaxEarly     \* and on those before the first snapshot

ASSUME PathAssumption ==
    /\ FilePath \cup DirPath = Path
    /\ \A p \in Path : /\ p \in Seq({p[k] : k \in DOMAIN p}) /\ p # << >>
                       /\ \A k \in 1 .. Len(p) - 1 : SubSeq(p, 1, k) \in DirPath
ASSUME NameAssumption ==
    /\ RWXU \in Attr /\ NewAttr \subseteq Attr
    /\ {MaxSnap, MaxRemove, MaxRequest, MaxEarly} \subseteq Nat

VARIABLES
    main,     \* main[p]: what is at path p of the main space
    dirs,     \* dirs[s]: the directories in snapshot s; its root is << >>
    maps,     \* maps[s]: its map files, and what their headers say
    sn,       \* sn_is_any, the latest and the earliest snapshot
    th,       \* th[t]: the request that thread t serves, and how far it is
    rm,       \* the removal of a snapshot
    look,     \* a request inside a snapshot
    requests, \* how many requests were made in the main space
    taken,    \* history: taken[s] is the main space when s was taken
    moved     \* history: directories made or removed since s was taken

vars == <<main, dirs, maps, sn, th, rm, look, requests, taken, moved>>
history == <<requests, taken, moved>>

-----------------------------------------------------------------------------
Snap == 1 .. MaxSnap
Root == << >>
Prefix(p, k) == SubSeq(p, 1, k)
Parent(p) == Prefix(p, Len(p) - 1)
IsUnder(p, q) == Len(q) <= Len(p) /\ Prefix(p, Len(q)) = q
Children(p) == {x \in Path : Parent(x) = p}

Node == [kind : {"none", "file", "dir"}, attr : Attr]
NoNode == [kind |-> "none", attr |-> RWXU]
Nothing == [p \in Path |-> NoNode]
NoMap == [st |-> "none", node |-> NoNode]
EmptyMap == [st |-> "empty", node |-> NoNode]
Header(n) == [st |-> "saved", node |-> n]
NoReq == [pc |-> "idle", op |-> "none", path |-> Root, attr |-> RWXU, sn |-> 0, k |-> 0]
NoRemoval == [sn |-> 0, raced |-> FALSE]
NoLook == [pc |-> "idle", op |-> "none", sn |-> 0, path |-> Root, k |-> 0, open |-> {},
           todo |-> {}, seen |-> {}, shown |-> {}, res |-> NoNode, ok |-> TRUE, calm |-> {}]

IsDir(p) == IF p = Root THEN TRUE ELSE main[p].kind = "dir"

Init ==
    /\ main \in [Path -> Node]
    /\ \A p \in Path :
          /\ main[p].attr = RWXU       \* to begin with; chmod gives others
          /\ main[p].kind = "file" => p \in FilePath
          /\ main[p].kind = "dir" => p \in DirPath
          /\ main[p].kind # "none" => IsDir(Parent(p))
    /\ dirs = [s \in Snap |-> {}]
    /\ maps = [s \in Snap |-> [p \in Path |-> NoMap]]
    /\ sn = [any |-> FALSE, lat |-> 0, earliest |-> 1]
    /\ th = [t \in Thread |-> NoReq]
    /\ rm = NoRemoval /\ look = NoLook /\ requests = 0
    /\ taken = [s \in Snap |-> Nothing]
    /\ moved = [s \in Snap |-> {}]

-----------------------------------------------------------------------------
(* Requests in the main space.  The kernel holds the lock of a directory   *)
(* while an entry of it is made or removed, and that of a node while it is *)
(* removed or its attributes change; libfuse lets nothing happen below a   *)
(* directory that is being removed.                                        *)
Active(u) == th[u].pc # "idle"
Locks(op, p) == CASE op \in {"mkdir", "create"} -> {Parent(p)}
                  [] op \in {"rmdir", "unlink"} -> {Parent(p), p}
                  [] op = "chmod" -> {p}
Excludes(op, p, u) ==
    /\ Active(u)
    /\ \/ Locks(op, p) \cap Locks(th[u].op, th[u].path) # {}
       \/ op = "rmdir" /\ IsUnder(th[u].path, p)
       \/ th[u].op = "rmdir" /\ IsUnder(p, th[u].path)

\* Mutant: it does not matter whether there is any snapshot.
BeginAlways(t, op, p, a) ==
    /\ ~Active(t)
    /\ requests < IF sn.lat = 0 THEN MaxEarly ELSE MaxRequest
    /\ \A u \in Thread : ~Excludes(op, p, u)
    /\ th' = [th EXCEPT ![t] = [pc |-> IF op # "rmdir" THEN "stat" ELSE "apply", op |-> op,
                                path |-> p, attr |-> a, sn |-> sn.lat, k |-> Len(p) - 1]]
    /\ look' = [look EXCEPT !.calm = @ \ {p}]
    /\ requests' = requests + 1
    /\ UNCHANGED <<main, dirs, maps, sn, rm, taken, moved>>

\* Mutant: nothing is saved when only attributes change.
BeginUnsaved(t, op, p, a) ==
    /\ ~Active(t)
    /\ requests < IF sn.lat = 0 THEN MaxEarly ELSE MaxRequest
    /\ \A u \in Thread : ~Excludes(op, p, u)
    /\ LET saves == sn.any /\ op \notin {"rmdir", "chmod"}
       IN  th' = [th EXCEPT ![t] = [pc |-> IF saves THEN "stat" ELSE "apply",
                                    op |-> op, path |-> p, attr |-> a,
                                    sn |-> IF saves THEN sn.lat ELSE 0, k |-> Len(p) - 1]]
    /\ look' = [look EXCEPT !.calm = @ \ {p}]
    /\ requests' = requests + 1
    /\ UNCHANGED <<main, dirs, maps, sn, rm, taken, moved>>

Begin(t, op, p, a) ==
    /\ ~Active(t)
    /\ requests < IF sn.lat = 0 THEN MaxEarly ELSE MaxRequest
    /\ \A u \in Thread : ~Excludes(op, p, u)
    /\ LET saves == sn.any /\ op # "rmdir"    \* $rmdir saves nothing
       IN  /\ th' = [th EXCEPT ![t] = [pc |-> IF saves THEN "stat" ELSE "apply",
                                       op |-> op, path |-> p, attr |-> a,
                                       sn |-> IF saves THEN sn.lat ELSE 0, k |-> Len(p) - 1]]
           /\ rm' = [rm EXCEPT !.raced = @ \/ (rm.sn # 0 /\ saves /\ rm.sn = sn.lat)]
    /\ look' = [look EXCEPT !.calm = @ \ {p}]
    /\ requests' = requests + 1
    /\ UNCHANGED <<main, dirs, maps, sn, taken, moved>>

StartMkdir(t, p, a) ==
    p \in DirPath /\ main[p].kind = "none" /\ IsDir(Parent(p)) /\ Begin(t, "mkdir", p, a)
StartCreate(t, p, a) ==
    p \in FilePath /\ main[p].kind = "none" /\ IsDir(Parent(p)) /\ Begin(t, "create", p, a)
StartUnlink(t, p) == main[p].kind = "file" /\ Begin(t, "unlink", p, RWXU)
StartRmdir(t, p) == main[p].kind = "dir" /\ Begin(t, "rmdir", p, RWXU)
(* $chmod, and $chown, which is the same for other attributes.             *)
StartChmod(t, p, a) == main[p].kind # "none" /\ Begin(t, "chmod", p, a)

Start(t) == \E p \in Path :
    \/ \E a \in NewAttr : StartMkdir(t, p, a) \/ StartCreate(t, p, a)
    \/ \E a \in Attr \ {main[p].attr} : StartChmod(t, p, a)
    \/ StartUnlink(t, p) \/ StartRmdir(t, p)

-----------------------------------------------------------------------------
Goto(t, pc) == th' = [th EXCEPT ![t].pc = pc]
Go(t, pc, k) == th' = [th EXCEPT ![t].pc = pc, ![t].k = k]
Return(t) == th' = [th EXCEPT ![t] = NoReq]

(* mkpath goes up the path, from the parent of the map file, until it      *)
(* finds a directory (at the latest, the one of all snapshots, k = -1) ... *)
MkpathStat(t) ==
    LET r == th[t]
        last == Len(r.path) - 1
    IN  /\ r.pc = "stat"
        /\ IF r.k = -1 \/ Prefix(r.path, r.k) \in dirs[r.sn]
           THEN IF r.k = last THEN Goto(t, "map") ELSE Go(t, "mkdir", r.k + 1)
           ELSE Go(t, "stat", r.k - 1)
        /\ UNCHANGED <<main, dirs, maps, sn, rm, look, history>>

\* Mutant: a directory that another thread has made meanwhile is an error.
MkpathMkdirExcl(t) ==
    LET r == th[t]
        q == Prefix(r.path, r.k)
    IN  /\ r.pc = "mkdir"
        /\ IF (q = Root \/ Parent(q) \in dirs[r.sn]) /\ q \notin dirs[r.sn]
           THEN /\ dirs' = [dirs EXCEPT ![r.sn] = @ \cup {q}]
                /\ IF r.k = Len(r.path) - 1 THEN Goto(t, "map") ELSE Go(t, "mkdir", r.k + 1)
           ELSE Return(t) /\ UNCHANGED dirs
        /\ UNCHANGED <<main, maps, sn, rm, look, history>>

(* ... and then makes the directories below it.  It is no error if one is  *)
(* there by now, but it is if the directory above is gone.                 *)
MkpathMkdir(t) ==
    LET r == th[t]
        q == Prefix(r.path, r.k)
    IN  /\ r.pc = "mkdir"
        /\ IF q = Root \/ Parent(q) \in dirs[r.sn]
           THEN /\ dirs' = [dirs EXCEPT ![r.sn] = @ \cup {q}]
                /\ IF r.k = Len(r.path) - 1 THEN Goto(t, "map") ELSE Go(t, "mkdir", r.k + 1)
           ELSE Return(t) /\ UNCHANGED dirs
        /\ UNCHANGED <<main, maps, sn, rm, look, history>>

(* Create the map file, unless there is one.                               *)
CreateMap(t) ==
    LET r == th[t]
    IN  /\ r.pc = "map"
        /\ IF maps[r.sn][r.path].st # "none" THEN Goto(t, "apply") /\ UNCHANGED maps
           ELSE IF Parent(r.path) \in dirs[r.sn]
           THEN /\ maps' = [maps EXCEPT ![r.sn][r.path] = EmptyMap]
                /\ Goto(t, "header")
           ELSE Return(t) /\ UNCHANGED maps
        /\ UNCHANGED <<main, dirs, sn, rm, look, history>>

(* Write what is in the main space into the map file, unless that has been *)
(* removed together with the snapshot.                                     *)
SaveHeader(t) ==
    LET r == th[t]
    IN  /\ r.pc = "header" /\ main[r.path].kind # "dir"
        /\ maps' = IF maps[r.sn][r.path].st = "none" THEN maps
                   ELSE [maps EXCEPT ![r.sn][r.path] = Header(main[r.path])]
        /\ Goto(t, "apply")
        /\ UNCHANGED <<main, dirs, sn, rm, look, history>>

(* "mfds are not currently allowed for directories": the map file goes     *)
(* again, and the request fails.  If nothing is at the path, the test      *)
(* looks at an st_mode that is not initialised (mfd.c:357).                *)
HeaderIsDir(t) ==
    LET r == th[t]
    IN  /\ r.pc = "header" /\ main[r.path].kind # "file"
        /\ maps' = [maps EXCEPT ![r.sn][r.path] = NoMap]
        /\ Return(t)
        /\ UNCHANGED <<main, dirs, sn, rm, look, history>>

(* The system call in the main space; rmdir of a directory that is not     *)
(* empty fails.                                                            *)
Apply(t) ==
    LET r == th[t]
        p == r.path
        full == r.op = "rmdir" /\ \E x \in Children(p) : main[x].kind # "none"
        node == CASE r.op = "mkdir" -> [kind |-> "dir", attr |-> r.attr]
                  [] r.op = "create" -> [kind |-> "file", attr |-> r.attr]
                  [] r.op = "chmod" -> [main[p] EXCEPT !.attr = r.attr]
                  [] OTHER -> IF full THEN main[p] ELSE NoNode
    IN  /\ r.pc = "apply"
        /\ main' = [main EXCEPT ![p] = node]
        /\ moved' = IF (main[p].kind = "dir") # (node.kind = "dir")
                    THEN [s \in Snap |-> IF s \in sn.earliest .. sn.lat THEN moved[s] \cup {p}
                                         ELSE moved[s]]
                    ELSE moved
        /\ Return(t)
        /\ UNCHANGED <<dirs, maps, sn, rm, look, requests, taken>>

Save(t) ==
    \/ MkpathStat(t) \/ MkpathMkdir(t) \/ CreateMap(t) \/ SaveHeader(t)
    \/ HeaderIsDir(t) \/ Apply(t)

-----------------------------------------------------------------------------
(* A snapshot is taken: its root directory is made (sn_create).  This      *)
(* module takes snapshots only between requests; see CopyOnWrite for the   *)
(* others.                                                                 *)
TakeSnapshot ==
    /\ sn.lat < MaxSnap /\ \A t \in Thread : ~Active(t)
    /\ rm.sn = 0 /\ look.pc = "idle"
    /\ sn' = [sn EXCEPT !.any = TRUE, !.lat = @ + 1]
    /\ dirs' = [dirs EXCEPT ![sn.lat + 1] = {Root}]
    /\ taken' = [taken EXCEPT ![sn.lat + 1] = main]
    /\ UNCHANGED <<main, maps, th, rm, look, requests, moved>>

(* sn_destroy has taken the earliest snapshot off the chain and calls      *)
(* recursive_remove: files and empty directories go one by one, "*rmdir"   *)
(* being the only lock.  libfuse lets no request below /snapshots overlap. *)
RemoveBegin ==
    /\ rm.sn = 0 /\ look.pc = "idle" /\ sn.any
    /\ sn.earliest <= sn.lat /\ sn.earliest <= MaxRemove
    /\ rm' = [sn |-> sn.earliest, raced |-> \E t \in Thread : th[t].sn = sn.earliest]
    /\ sn' = [sn EXCEPT !.earliest = @ + 1]
    /\ taken' = [taken EXCEPT ![sn.earliest] = Nothing]    \* nobody can ask any more
    /\ moved' = [moved EXCEPT ![sn.earliest] = {}]
    /\ UNCHANGED <<main, dirs, maps, th, look, requests>>

RemoveMap(p) ==
    /\ rm.sn # 0 /\ maps[rm.sn][p].st # "none"
    /\ maps' = [maps EXCEPT ![rm.sn][p] = NoMap]
    /\ UNCHANGED <<main, dirs, sn, th, rm, look, history>>

RemoveDir(q) ==
    /\ rm.sn # 0 /\ q \in dirs[rm.sn]
    /\ \A x \in Children(q) : x \notin dirs[rm.sn] /\ maps[rm.sn][x].st = "none"
    /\ dirs' = [dirs EXCEPT ![rm.sn] = @ \ {q}]
    /\ UNCHANGED <<main, maps, sn, th, rm, look, history>>

(* A thread that saves into the snapshot has put something into a          *)
(* directory that was already read, or removed what was found there: rmdir *)
(* or unlink fails, and what is left of the snapshot stays.                *)
RemoveFails ==
    /\ rm.sn # 0 /\ rm.raced
    /\ rm' = NoRemoval
    /\ UNCHANGED <<main, dirs, maps, sn, th, look, history>>

RemoveEnd ==
    /\ rm.sn # 0 /\ dirs[rm.sn] = {}
    /\ sn' = [sn EXCEPT !.any = sn.earliest <= sn.lat]
    /\ rm' = NoRemoval
    /\ UNCHANGED <<main, dirs, maps, th, look, history>>

RemoveSnapshot ==
    \/ RemoveBegin \/ RemoveFails \/ RemoveEnd
    \/ \E p \in Path : RemoveMap(p)
    \/ \E q \in DirPath \cup {Root} : RemoveDir(q)

-----------------------------------------------------------------------------
(* Requests inside a snapshot go through its steps: the snapshot, the ones *)
(* after it, and the main space (k = 0) at the end.                        *)
Look(l) == look' = l /\ UNCHANGED <<main, dirs, maps, sn, th, rm, history>>
NextStep(k) == IF k < sn.lat THEN k + 1 ELSE 0
Found(n) == Look([look EXCEPT !.pc = "done", !.res = n])
LookFails == Look([look EXCEPT !.pc = "done", !.ok = FALSE])

LookStart(op, s, p) ==
    /\ look.pc = "idle" /\ rm.sn = 0
    /\ sn.any /\ s \in sn.earliest .. sn.lat
    /\ Look([NoLook EXCEPT !.pc = IF op = "getattr" THEN "lstat" ELSE "opendir",
                           !.op = op, !.sn = s, !.path = p, !.k = s,
                           !.calm = Path \ {th[t].path : t \in Thread}])

(* $getattr and $access: is there a directory?  Its attributes are taken,  *)
(* but whether it "exists" is read from a map header that was never loaded *)
(* (fuse_path_read.c:70, 143).                                             *)
GetattrDir ==
    /\ look.pc = "lstat" /\ look.k # 0
    /\ IF look.path \in dirs[look.k]
       THEN \/ Found([kind |-> "dir", attr |-> RWXU])
            \/ Found(NoNode)
       ELSE Look([look EXCEPT !.pc = "loadmap"])

\* Mutant: a map file that says that nothing was there is passed over.
GetattrMapGoesOn ==
    LET m == maps[look.k][look.path]
    IN  /\ look.pc = "loadmap"
        /\ CASE m.st = "empty" -> LookFails
             [] m.st = "saved" /\ m.node.kind # "none" -> Found(m.node)
             [] OTHER -> Look([look EXCEPT !.pc = "lstat", !.k = NextStep(@)])

(* Is there a map file?  The first one found decides.                      *)
GetattrMap ==
    LET m == maps[look.k][look.path]
    IN  /\ look.pc = "loadmap"
        /\ CASE m.st = "none" -> Look([look EXCEPT !.pc = "lstat", !.k = NextStep(@)])
             [] m.st = "empty" -> LookFails
             [] m.st = "saved" -> Found(m.node)

GetattrMain ==
    /\ look.pc = "lstat" /\ look.k = 0
    /\ Found(main[look.path])

-----------------------------------------------------------------------------
(* $opendir opens the directory in each snapshot that has it, and in the   *)
(* main space; it does not look at map files.                              *)
Opendir ==
    /\ look.pc = "opendir" /\ look.k # 0
    /\ Look([look EXCEPT !.k = NextStep(@),
                         !.open = IF look.path \in dirs[look.k] THEN @ \cup {look.k} ELSE @])

OpendirMain ==
    LET open == look.open \cup (IF IsDir(look.path) THEN {0} ELSE {})
    IN  /\ look.pc = "opendir" /\ look.k = 0
        /\ IF open = {} THEN LookFails
           ELSE Look([look EXCEPT !.pc = "readdir", !.k = look.sn, !.open = open])

(* _sn_readdir reads the names in the directory of each step.              *)
ReaddirStep ==
    LET in(k) == IF k = 0 THEN {<<"name", x>> : x \in {c \in Children(look.path) :
                                                        main[c].kind # "none"}}
                 ELSE {<<"name", x>> : x \in dirs[k] \cap Children(look.path)} \cup
                      {<<"map", x>> : x \in {c \in Children(look.path) :
                                              maps[k][c].st # "none"}}
    IN  /\ look.pc = "readdir"
        /\ Look([look EXCEPT !.pc = "entry",
                             !.todo = IF look.k \in look.open THEN in(look.k) ELSE {}])

\* Mutant: a name whose map file says that it did not exist is not remembered.
ReaddirMapForgets(x) ==
    LET m == maps[look.k][x]
        rest == [look EXCEPT !.todo = @ \ {<<"map", x>>}]
    IN  /\ look.pc = "entry" /\ <<"map", x>> \in look.todo
        /\ IF x \in look.seen THEN Look(rest)
           ELSE IF m.st # "saved" THEN LookFails
           ELSE IF m.node.kind = "none" THEN Look(rest)
           ELSE Look([rest EXCEPT !.seen = @ \cup {x},
                                  !.shown = @ \cup {<<x, look.k, m.node>>}])

(* A map file, under the name of its file: unless the name was seen, the   *)
(* header says whether to show it.  Either way the name counts as seen.    *)
ReaddirMap(x) ==
    LET m == maps[look.k][x]
        rest == [look EXCEPT !.todo = @ \ {<<"map", x>>}]
    IN  /\ look.pc = "entry" /\ <<"map", x>> \in look.todo
        /\ IF x \in look.seen THEN Look(rest)
           ELSE IF m.st # "saved" THEN LookFails
           ELSE Look([rest EXCEPT !.seen = @ \cup {x},
                                  !.shown = IF m.node.kind = "none" THEN @
                                            ELSE @ \cup {<<x, look.k, m.node>>}])

(* Another name: a directory in a snapshot, anything in the main space.    *)
(* The whole listing fails if it is gone by now.                           *)
ReaddirName(x) ==
    LET there == IF look.k = 0 THEN main[x].kind # "none" ELSE x \in dirs[look.k]
        node == IF look.k = 0 THEN main[x] ELSE [kind |-> "dir", attr |-> RWXU]
        rest == [look EXCEPT !.todo = @ \ {<<"name", x>>}]
    IN  /\ look.pc = "entry" /\ <<"name", x>> \in look.todo
        /\ IF x \in look.seen THEN Look(rest)
           ELSE IF ~there THEN LookFails
           ELSE Look([rest EXCEPT !.seen = @ \cup {x},
                                  !.shown = @ \cup {<<x, look.k, node>>}])

ReaddirNext ==
    /\ look.pc = "entry" /\ look.todo = {}
    /\ Look(IF look.k = 0 THEN [look EXCEPT !.pc = "done"]
            ELSE [look EXCEPT !.pc = "readdir", !.k = NextStep(@)])

LookEnd == look.pc = "done" /\ Look(NoLook)

LookStep ==
    \/ GetattrDir \/ GetattrMap \/ GetattrMain
    \/ Opendir \/ OpendirMain \/ ReaddirStep \/ ReaddirNext \/ LookEnd
    \/ \E x \in Path : ReaddirMap(x) \/ ReaddirName(x)

LookAt ==
    \/ \E s \in Snap : \/ \E p \in Path : LookStart("getattr", s, p)
                       \/ \E p \in DirPath \cup {Root} : LookStart("readdir", s, p)
    \/ LookStep

-----------------------------------------------------------------------------
Next == \/ \E t \in Thread : Start(t) \/ Save(t)
        \/ TakeSnapshot \/ RemoveSnapshot \/ LookAt

Spec == Init /\ [][Next]_vars
-----------------------------------------------------------------------------
(* Properties.                                                             *)

(* Types of the variables; and a directory of a snapshot has the ones      *)
(* above it, unless the snapshot is being removed.                         *)
TypeOK ==
    /\ main \in [Path -> Node]
    /\ dirs \in [Snap -> SUBSET (DirPath \cup {Root})]
    /\ maps \in [Snap -> [Path -> [st : {"none", "empty", "saved"}, node : Node]]]
    /\ sn \in [any : BOOLEAN, lat : 0 .. MaxSnap, earliest : 1 .. MaxSnap + 1]
    /\ \A t \in Thread :
          /\ th[t].pc \in {"idle", "stat", "mkdir", "map", "header", "apply"}
          /\ th[t].pc \in {"stat", "mkdir", "map", "header"} => th[t].sn \in Snap
    /\ rm \in [sn : 0 .. MaxSnap, raced : BOOLEAN]
    /\ look.pc \in {"idle", "lstat", "loadmap", "opendir", "readdir", "entry", "done"}
    /\ \A s \in Snap : dirs[s] # {} /\ s >= sn.earliest =>
          \A q \in dirs[s] : q = Root \/ Parent(q) \in dirs[s]

(* What the disk says about path p in snapshot s: the header of the first  *)
(* map file from s on, or else the main space.                             *)
Recorded(s, p) ==
    LET ks == {k \in s .. sn.lat : maps[k][p].st = "saved"}
    IN  IF ks = {} THEN main[p]
        ELSE maps[CHOOSE k \in ks : \A j \in ks : k <= j][p].node

(* Whatever files are made, removed, or get other attributes, and whatever *)
(* earlier snapshot is being removed meanwhile, each snapshot still tells  *)
(* which files it had and their attributes: "read-only access to previous  *)
(* states of the whole filesystem" (README.md:10-11).  Names that are used *)
(* for directories are left out: see DirectoriesKept.                      *)
AttributesIntact ==
    \A s \in sn.earliest .. sn.lat, p \in FilePath \ DirPath : Recorded(s, p) = taken[s][p]

(* getattr of a file in a snapshot gives what the file was when that was   *)
(* taken, though it looks at one place after another while other threads   *)
(* save other paths; "calm" are the paths no request has worked on since   *)
(* the look began.                                                         *)
GetattrRight ==
    look.pc = "done" /\ look.op = "getattr" /\ look.path \in (FilePath \ DirPath) \cap look.calm
      => look.ok /\ look.res = taken[look.sn][look.path]

(* A listing of a directory of a snapshot shows each name at most once.    *)
(* Of the names in it that no request worked on meanwhile, it shows        *)
(* exactly the files that were there, with their attributes, and every     *)
(* directory that was there and was never removed or made anew.  It fails  *)
(* only if a request came in between.                                      *)
ListingRight ==
    LET s == look.sn
        shown(x) == {e \in look.shown : e[1] = x}
        kept(q) == q = Root \/ (taken[s][q].kind = "dir" /\ q \notin moved[s])
    IN  look.pc = "done" /\ look.op = "readdir" =>
          /\ \A e, f \in look.shown : e[1] = f[1] => e = f
          /\ look.ok => \A x \in Children(look.path) \cap look.calm :
                /\ x \in FilePath \ DirPath =>
                      {e[3] : e \in shown(x)} = {taken[s][x]} \ {NoNode}
                /\ x \in DirPath /\ kept(x) => \E e \in shown(x) : e[3].kind = "dir"
          /\ look.calm = Path /\ kept(look.path) => look.ok

(* "mkpath is resilient to parallel runs, so we don't lock before calling  *)
(* it" (mfd.c:255): a request never fails on its way to the map file,      *)
(* unless the snapshot it saves into is being removed.                     *)
MkpathResilient ==
    [][\A t \in Thread : th[t].pc \in {"stat", "mkdir", "map"} /\ th'[t].pc = "idle"
         => th[t].sn < sn.earliest]_vars

(* "Read-only access to previous states of the whole filesystem"           *)
(* (README.md:10-11), directories too: one that was there at that time is  *)
(* still there for getattr, in a directory of the snapshot or in the main  *)
(* space.  (It is not: $rmdir saves nothing.)                              *)
DirectoriesKept ==
    \A s \in sn.earliest .. sn.lat, p \in DirPath : taken[s][p].kind = "dir" =>
      main[p].kind = "dir" \/ \E k \in s .. sn.lat : p \in dirs[k]
=============================================================================

--------------------------- MODULE NamespaceProofs ---------------------------
(***************************************************************************)
(* Proofs about names and attributes for any tree of paths, any number of  *)
(* threads and of snapshots: the snapshots tell which files they had and   *)
(* their attributes, getattr finds that out while other threads go on, and *)
(* mkpath never gets in its own way.                                       *)
(***************************************************************************)
EXTENDS Namespace, TLAPS

(* Paths that are only ever used for files.                                *)
Plain == FilePath \ DirPath

(* Types of the variables.                                                 *)
Pc == {"idle", "stat", "mkdir", "map", "header", "apply"}
MkpathPc == {"stat", "mkdir", "map"}
Adding == {"mkdir", "create"}
Changing == {"unlink", "rmdir", "chmod"}
MapFile == [st : {"none", "empty", "saved"}, node : Node]
Req == [pc : Pc, op : Adding \cup Changing \cup {"none"}, path : Path \cup {Root}, attr : Attr,
        sn : 0 .. MaxSnap, k : Int]
LookPc == {"idle", "lstat", "loadmap", "opendir", "readdir", "entry", "done"}
LookField == {"pc", "op", "sn", "path", "k", "open", "todo", "seen", "shown", "res", "ok", "calm"}
Types ==
    /\ main \in [Path -> Node]
    /\ dirs \in [Snap -> SUBSET (DirPath \cup {Root})]
    /\ maps \in [Snap -> [Path -> MapFile]]
    /\ sn \in [any : BOOLEAN, lat : 0 .. MaxSnap, earliest : 1 .. MaxSnap + 1]
    /\ th \in [Thread -> Req]
    /\ rm \in [sn : 0 .. MaxSnap, raced : BOOLEAN]
    /\ taken \in [Snap -> [Path -> Node]]
    /\ DOMAIN look = LookField /\ look.pc \in LookPc

(* The disk: what a snapshot has saved of a file is what it was, and what  *)
(* it has not saved has not changed until the next snapshot; map files     *)
(* without a header are being written.                                     *)
After(s) == IF s = sn.lat THEN main ELSE taken[s + 1]
Linked(s, p) == IF maps[s][p].st = "saved" THEN maps[s][p].node = taken[s][p]
                ELSE After(s)[p] = taken[s][p]
Closed(s) == \A q \in dirs[s] : q = Root \/ Parent(q) \in dirs[s]
Disk ==
    /\ sn.earliest <= sn.lat + 1 /\ (~sn.any => sn.earliest > sn.lat) /\ (sn.any => sn.lat >= 1)
    /\ rm.sn < sn.earliest
    /\ \A p \in Path : main[p].kind = "dir" => p \in DirPath
    /\ \A s \in Snap, p \in Path : s > sn.lat => maps[s][p].st = "none"
    /\ \A s \in Snap : s >= sn.earliest => Closed(s)
    /\ \A s \in Snap : s >= sn.earliest /\ s <= sn.lat => Root \in dirs[s]
    /\ \A s \in Snap, p \in Plain : s >= sn.earliest /\ s <= sn.lat => Linked(s, p)
    /\ \A s \in Snap, p \in Path : s >= sn.earliest /\ maps[s][p].st = "empty"
          => \E t \in Thread : th[t].pc = "header" /\ th[t].path = p /\ th[t].sn = s

(* A request.                                                              *)
Served(t) ==
    LET r == th[t]
        live == r.sn >= sn.earliest
    IN  \/ r = NoReq
        \/ /\ r.pc # "idle" /\ r.path \in Path /\ r.op # "none"
           /\ r.op \in Adding <=> main[r.path].kind = "none"
           /\ r.op \in {"mkdir", "rmdir"} => r.path \in DirPath
           /\ r.sn \in {0, sn.lat}
           /\ r.op # "rmdir" /\ sn.earliest <= sn.lat => r.sn = sn.lat
           /\ r.pc # "apply" => r.sn \in Snap
           /\ r.pc = "stat" => r.k \in -1 .. Len(r.path) - 1
           /\ r.pc = "mkdir" => r.k \in 0 .. Len(r.path) - 1
           /\ r.pc = "mkdir" /\ live => r.k = 0 \/ Prefix(r.path, r.k - 1) \in dirs[r.sn]
           /\ r.pc = "map" /\ live => Parent(r.path) \in dirs[r.sn]
           /\ r.pc = "header" /\ live => maps[r.sn][r.path].st = "empty"
           /\ r.pc = "apply" /\ live => maps[r.sn][r.path].st = "saved"
Apart == \A t, u \in Thread : t # u /\ Active(t) /\ Active(u) => th[t].path # th[u].path

(* A look at a file of a snapshot that no request works on.                *)
Unsaved(p, s, k) == \A j \in s .. k : maps[j][p].st = "none"
Looks ==
    LET p == look.path
        s == look.sn
    IN  look.pc # "idle" =>
          /\ rm.sn = 0 /\ s \in sn.earliest .. sn.lat
          /\ \A t \in Thread : Active(t) => th[t].path \notin look.calm
          /\ look.op = "getattr" /\ p \in Plain \cap look.calm =>
               /\ look.pc \in {"lstat", "loadmap", "done"}
               /\ look.pc # "done" /\ look.k # 0 => look.k \in s .. sn.lat /\ Unsaved(p, s, look.k - 1)
               /\ look.pc # "done" /\ look.k = 0 => Unsaved(p, s, sn.lat)
               /\ look.ok
               /\ look.pc = "done" => look.res = taken[s][p]
          /\ look.pc \in {"lstat", "loadmap"} =>
               look.op = "getattr" /\ p \in Path /\ look.k \in 0 .. sn.lat
          /\ look.pc = "loadmap" => look.k # 0

Inv == Types /\ Disk /\ Apart /\ Looks /\ \A t \in Thread : Served(t)
-----------------------------------------------------------------------------
(* Cutting a path off after k names, as mkpath does.                       *)
LEMMA SeqFacts ==
    ASSUME NEW S, NEW p \in Seq(S), NEW k \in 0 .. Len(p)
    PROVE  /\ Prefix(p, k) \in Seq(S) /\ Len(Prefix(p, k)) = k
           /\ k = 0 <=> Prefix(p, k) = Root
           /\ k # 0 => Parent(Prefix(p, k)) = Prefix(p, k - 1)
<1>1. Len(p) \in Nat
  OBVIOUS
<1>2. Prefix(p, k) \in Seq(S) /\ Len(Prefix(p, k)) = k
  BY <1>1 DEF Prefix
<1>3. \A i \in 1 .. k : Prefix(p, k)[i] = p[i]
  BY <1>1 DEF Prefix
<1>4. ASSUME k # 0 PROVE Parent(Prefix(p, k)) = Prefix(p, k - 1)
  BY <1>1, <1>2, <1>3, <1>4 DEF Prefix, Parent
<1> QED  BY <1>2, <1>4 DEF Root, Prefix

(* The directories above a path are made of directories.                   *)
LEMMA PathFacts ==
    ASSUME NEW p \in Path
    PROVE  /\ Len(p) \in Nat \ {0} /\ p # Root
           /\ Parent(p) = Prefix(p, Len(p) - 1)
           /\ \A k \in 0 .. Len(p) - 1 : Prefix(p, k) \in DirPath \cup {Root}
           /\ \A k \in 1 .. Len(p) - 1 : Parent(Prefix(p, k)) = Prefix(p, k - 1)
           /\ \A k \in 1 .. Len(p) - 1 : Prefix(p, k) # Root
           /\ Prefix(p, 0) = Root
<1>1. PICK S : p \in Seq(S)
  BY PathAssumption, Zenon
<1>2. Len(p) \in Nat \ {0} /\ p # Root
  <2>1. p # << >>
    BY PathAssumption, Zenon
  <2> QED  BY <1>1, <2>1 DEF Root
<1>3. Parent(p) = Prefix(p, Len(p) - 1)
  BY DEF Parent, Prefix
<1>4. /\ \A k \in 1 .. Len(p) - 1 : Parent(Prefix(p, k)) = Prefix(p, k - 1) /\ Prefix(p, k) # Root
      /\ Prefix(p, 0) = Root
  <2>1. \A k \in 1 .. Len(p) - 1 : k \in 0 .. Len(p) /\ k # 0
    BY <1>2
  <2>2. 0 \in 0 .. Len(p)
    BY <1>2
  <2> QED  BY <1>1, <2>1, <2>2, SeqFacts
<1>5. \A k \in 0 .. Len(p) - 1 : Prefix(p, k) \in DirPath \cup {Root}
  <2>1. \A k \in 0 .. Len(p) - 1 : k = 0 \/ k \in 1 .. Len(p) - 1
    BY <1>2
  <2> QED  BY <1>4, <2>1, PathAssumption, Zenon DEF Prefix
<1> QED  BY <1>2, <1>3, <1>4, <1>5

(* Bounds.                                                                 *)
LEMMA SnFacts ==
    ASSUME Inv
    PROVE  /\ MaxSnap \in Nat /\ Snap \subseteq Nat \ {0}
           /\ sn.lat \in Nat /\ sn.earliest \in Nat /\ sn.earliest >= 1
           /\ sn.lat # 0 => sn.lat \in Snap
           /\ \A s \in Nat : 1 <= s /\ s <= sn.lat => s \in Snap
           /\ Plain \subseteq Path /\ FilePath \subseteq Path /\ DirPath \subseteq Path
<1>1. MaxSnap \in Nat
  BY NameAssumption
<1>2. sn.lat \in 0 .. MaxSnap /\ sn.earliest \in 1 .. MaxSnap + 1
  BY DEF Inv, Types
<1>3. Plain \subseteq Path /\ FilePath \subseteq Path /\ DirPath \subseteq Path
  BY PathAssumption DEF Plain
<1> QED  BY <1>1, <1>2, <1>3 DEF Snap

(* Constants have their types.                                             *)
LEMMA Constants ==
    /\ NoNode \in Node /\ NoMap \in MapFile /\ EmptyMap \in MapFile /\ NoReq \in Req
    /\ \A n \in Node : Header(n) \in MapFile /\ Header(n).st = "saved" /\ Header(n).node = n
    /\ EmptyMap.st = "empty" /\ NoMap.st = "none"
    /\ NoReq.pc = "idle" /\ NoReq.path = Root /\ NoReq.sn = 0
<1>1. RWXU \in Attr /\ MaxSnap \in Nat
  BY NameAssumption
<1>2. NoNode \in Node
  BY <1>1 DEF NoNode, Node
<1>3. NoMap \in MapFile /\ EmptyMap \in MapFile /\ NoMap.st = "none" /\ EmptyMap.st = "empty"
  BY <1>2 DEF NoMap, EmptyMap, MapFile
<1>4. NoReq \in Req
  BY <1>1 DEF NoReq, Req, Pc
<1>5. \A n \in Node : Header(n) \in MapFile /\ Header(n).st = "saved" /\ Header(n).node = n
  BY DEF Header, MapFile
<1> QED  BY <1>2, <1>3, <1>4, <1>5 DEF NoReq

-----------------------------------------------------------------------------
(* What a step of a thread within a request leaves alone: all other        *)
(* requests, and all paths but its own.                                    *)
Frame(t) ==
    /\ UNCHANGED <<sn, rm, look, taken>>
    /\ \A u \in Thread : u # t => th'[u] = th[u]
    /\ th'[t] = NoReq \/ (th'[t].path = th[t].path /\ th'[t].pc # "idle")
    /\ \A p \in Path : p # th[t].path => main'[p] = main[p]
    /\ \A s \in Snap, p \in Path : s # th[t].sn \/ p # th[t].path => maps'[s][p] = maps[s][p]
    /\ \A s \in Snap : dirs[s] \subseteq dirs'[s]

(* Such a step keeps what is known of the other requests.                  *)
LEMMA OtherServed ==
    ASSUME Inv, NEW t \in Thread, Active(t), Frame(t), NEW u \in Thread, u # t PROVE Served(u)'
<1>1. th'[u] = th[u] /\ sn' = sn
  BY DEF Frame
<1>2. CASE th[u] = NoReq
  BY <1>1, <1>2 DEF Served
<1>3. CASE th[u] # NoReq
  <2>1. Served(u)
    BY DEF Inv
  <2>2. th[u].pc # "idle" /\ th[u].path \in Path /\ th[u].sn \in {0, sn.lat}
    BY <1>3, <2>1 DEF Served
  <2>3. th[u].path # th[t].path
    BY <2>2 DEF Inv, Apart, Active
  <2>4. main'[th[u].path] = main[th[u].path]
    BY <2>2, <2>3 DEF Frame
  <2>5. \A s \in Snap : maps'[s][th[u].path] = maps[s][th[u].path] /\ dirs[s] \subseteq dirs'[s]
    BY <2>2, <2>3 DEF Frame
  <2>6. th[u].sn >= sn.earliest => th[u].sn \in Snap
    BY <2>2, SnFacts
  <2> QED  BY <1>1, <1>3, <2>1, <2>4, <2>5, <2>6, Zenon DEF Served
<1> QED  BY <1>2, <1>3

(* And it keeps requests on different paths apart.                         *)
LEMMA StillApart == ASSUME Inv, NEW t \in Thread, Active(t), Frame(t) PROVE Apart'
<1>1. \A u \in Thread : Active(u)' => Active(u) /\ th'[u].path = th[u].path
  BY Constants DEF Frame, Active
<1> QED  BY <1>1 DEF Inv, Apart

(* And what is known of a request inside a snapshot: that only depends on  *)
(* paths no request works on.                                              *)
LEMMA StillLooks == ASSUME Inv, NEW t \in Thread, Active(t), Frame(t) PROVE Looks'
<1>1. \A u \in Thread : Active(u)' => Active(u) /\ th'[u].path = th[u].path
  BY Constants DEF Frame, Active
<1>2. look' = look /\ sn' = sn /\ rm' = rm /\ taken' = taken
  BY DEF Frame
<1>3. ASSUME look.pc # "idle", look.path \in Plain \cap look.calm
      PROVE  \A j \in look.sn .. sn.lat : maps'[j][look.path] = maps[j][look.path]
  <2>1. look.path # th[t].path /\ look.path \in Path
    BY <1>3, SnFacts DEF Inv, Looks
  <2>2. \A j \in look.sn .. sn.lat : j \in Snap
    BY <1>3, SnFacts DEF Inv, Looks
  <2> QED  BY <2>1, <2>2 DEF Frame
<1>4. ASSUME look.pc # "idle", look.path \in Plain \cap look.calm,
             NEW k, k = sn.lat \/ k \in look.sn - 1 .. sn.lat - 1, Unsaved(look.path, look.sn, k)
      PROVE  Unsaved(look.path, look.sn, k)'
  <2>1. look.sn \in Nat /\ sn.lat \in Nat
    BY <1>4, SnFacts DEF Inv, Looks
  <2>2. \A j \in look.sn .. k : j \in look.sn .. sn.lat
    BY <1>4, <2>1
  <2> QED  BY <1>2, <1>3, <1>4, <2>2 DEF Unsaved
<1> SUFFICES ASSUME look.pc # "idle" PROVE Looks'
  BY <1>2 DEF Looks
<1>5. Looks /\ look.sn \in Nat /\ sn.lat \in Nat
  BY SnFacts DEF Inv, Looks
<1>6. \A k \in look.sn .. sn.lat : k - 1 \in look.sn - 1 .. sn.lat - 1
  BY <1>5
<1> QED  BY <1>1, <1>2, <1>4, <1>5, <1>6 DEF Looks

(* What remains to be shown of such a step: types, what is known of its    *)
(* own request, and its own path in the latest snapshot.                   *)
LEMMA ThreadStep ==
    ASSUME Inv, NEW t \in Thread, Active(t), Frame(t), Types', Served(t)',
           NEW path, path = th[t].path,
           main'[th[t].path].kind = "dir" => th[t].path \in DirPath,
           path \in Plain /\ sn.earliest <= sn.lat => Linked(sn.lat, path)',
           th[t].sn \in Snap /\ th[t].sn >= sn.earliest /\ maps'[th[t].sn][path].st = "empty"
              => th'[t].pc = "header" /\ th'[t].sn = th[t].sn,
           \A s \in Snap : s >= sn.earliest => Closed(s)'
    PROVE  Inv'
<1>1. /\ sn' = sn /\ rm' = rm /\ taken' = taken /\ Disk /\ Types
      /\ th[t].path \in Path /\ th[t].sn \in {0, sn.lat}
  BY Constants, Zenon DEF Frame, Inv, Served, Active
<1>2. ASSUME NEW p \in Path, main'[p].kind = "dir" PROVE p \in DirPath
  <2>1. CASE p = th[t].path
    BY <1>2, <2>1
  <2>2. CASE p # th[t].path
    BY <1>1, <1>2, <2>2 DEF Frame, Disk
  <2> QED  BY <2>1, <2>2
<1>3. ASSUME NEW s \in Snap, NEW p \in Path, s > sn.lat PROVE maps'[s][p].st = "none"
  <2>1. s # th[t].sn
    BY <1>1, <1>3, SnFacts
  <2> QED  BY <1>1, <1>3, <2>1 DEF Frame, Disk
<1>4. ASSUME NEW s \in Snap, NEW p \in Plain, s >= sn.earliest, s <= sn.lat PROVE Linked(s, p)'
  <2>1. CASE p = th[t].path /\ s = sn.lat
    BY <1>1, <1>4, <2>1
  <2>2. CASE p # th[t].path \/ s # sn.lat
    <3>1. p \in Path /\ s \in Nat /\ s >= 1
      BY SnFacts
    <3>2. Linked(s, p)
      BY <1>1, <1>4 DEF Disk
    <3>3. maps'[s][p] = maps[s][p]
      BY <1>1, <2>2, <3>1, SnFacts DEF Frame
    <3>4. After(s)'[p] = After(s)[p]
      BY <1>1, <2>2, <3>1 DEF After, Frame
    <3> QED  BY <1>1, <3>2, <3>3, <3>4 DEF Linked
  <2> QED  BY <2>1, <2>2
<1>5. ASSUME NEW s \in Snap, NEW p \in Path, s >= sn.earliest, maps'[s][p].st = "empty"
      PROVE  \E u \in Thread : th'[u].pc = "header" /\ th'[u].path = p /\ th'[u].sn = s
  <2>1. CASE p = th[t].path /\ s = th[t].sn
    <3>1. th'[t].pc = "header" /\ th'[t].sn = s
      BY <1>5, <2>1
    <3>2. th'[t].path = p
      BY <2>1, <3>1, Constants DEF Frame
    <3> QED  BY <3>1, <3>2
  <2>2. CASE ~(p = th[t].path /\ s = th[t].sn)
    <3>1. PICK u \in Thread : th[u].pc = "header" /\ th[u].path = p /\ th[u].sn = s
      BY <1>1, <1>5, <2>2 DEF Frame, Disk
    <3> QED  BY <2>2, <3>1 DEF Frame
  <2> QED  BY <2>1, <2>2
<1>6. \A s \in Snap : s >= sn.earliest /\ s <= sn.lat => Root \in dirs'[s]
  BY <1>1 DEF Disk, Frame
<1>7. Disk'
  BY <1>1, <1>2, <1>3, <1>4, <1>5, <1>6 DEF Disk
<1>8. \A u \in Thread : Served(u)'
  BY OtherServed
<1> QED  BY <1>7, <1>8, StillApart, StillLooks DEF Inv

(* Going on within a request, and the end of it.                           *)
Went(t, l, k) ==
    /\ th' \in [Thread -> Req]
    /\ th'[t].pc = l /\ th'[t].k = k
    /\ th'[t].op = th[t].op /\ th'[t].path = th[t].path /\ th'[t].sn = th[t].sn
    /\ \A u \in Thread : u # t => th'[u] = th[u]
Ended(t) == /\ th' \in [Thread -> Req] /\ th'[t] = NoReq
            /\ \A u \in Thread : u # t => th'[u] = th[u]

(* How far up its path mkpath is, is a number.                              *)
LEMMA ReqTypes == \A r \in Req : r.k \in Int
  BY DEF Req

(* What the assignments to a request's program counter mean.                *)
LEMMA GoFacts ==
    ASSUME Types, NEW t \in Thread
    PROVE  /\ \A l \in Pc : Goto(t, l) => Went(t, l, th[t].k)
           /\ \A l \in Pc, k \in Int : Go(t, l, k) => Went(t, l, k)
           /\ Return(t) => Ended(t)
<1>1. th \in [Thread -> Req] /\ th[t] \in Req
  BY DEF Types
<1>2. ASSUME NEW l \in Pc, Goto(t, l) PROVE Went(t, l, th[t].k)
  <2>1. PICK x : x = [th[t] EXCEPT !.pc = l] /\ th' = [th EXCEPT ![t] = x]
    BY <1>2, Zenon DEF Goto
  <2>2. /\ x \in Req /\ x.pc = l /\ x.k = th[t].k /\ x.op = th[t].op /\ x.path = th[t].path
        /\ x.sn = th[t].sn
    BY <1>1, <2>1, Zenon DEF Req
  <2> QED  BY <1>1, <2>1, <2>2 DEF Went
<1>3. ASSUME NEW l \in Pc, NEW k \in Int, Go(t, l, k) PROVE Went(t, l, k)
  <2>1. PICK x : x = [th[t] EXCEPT !.pc = l, !.k = k] /\ th' = [th EXCEPT ![t] = x]
    BY <1>3, Zenon DEF Go
  <2>2. /\ x \in Req /\ x.pc = l /\ x.k = k /\ x.op = th[t].op /\ x.path = th[t].path
        /\ x.sn = th[t].sn
    BY <1>1, <2>1, Zenon DEF Req
  <2> QED  BY <1>1, <2>1, <2>2 DEF Went
<1>4. ASSUME Return(t) PROVE Ended(t)
  BY <1>1, <1>4, Constants DEF Return, Ended
<1> QED  BY <1>2, <1>3, <1>4

(* What is known when a thread takes a step within a request.              *)
Serving(t) ==
    /\ Active(t) /\ th[t] # NoReq /\ th[t] \in Req /\ th[t].path \in Path /\ Served(t) /\ Types /\ Disk
    /\ \A p \in Plain : sn.earliest <= sn.lat => Linked(sn.lat, p)
    /\ \A s \in Snap : s >= sn.earliest => Closed(s)
    /\ th[t].pc # "header" /\ th[t].sn \in Snap /\ th[t].sn >= sn.earliest
         => maps[th[t].sn][th[t].path].st # "empty"

(* The invariant says all that.                                            *)
LEMMA ServingFacts == ASSUME Inv, NEW t \in Thread, th[t].pc # "idle" PROVE Serving(t)
<1>1. Active(t) /\ th[t] # NoReq /\ th[t] \in Req /\ Served(t) /\ Types /\ Disk
  BY Constants DEF Active, Inv, Types
<1>2. th[t].path \in Path
  BY <1>1 DEF Served
<1>3. \A p \in Plain : sn.earliest <= sn.lat => Linked(sn.lat, p)
  BY <1>1, SnFacts DEF Disk
<1>4. ASSUME th[t].pc # "header", th[t].sn \in Snap, th[t].sn >= sn.earliest,
             maps[th[t].sn][th[t].path].st = "empty"
      PROVE  FALSE
  <2>1. PICK u \in Thread : th[u].pc = "header" /\ th[u].path = th[t].path
    BY <1>1, <1>2, <1>4 DEF Disk
  <2>2. u # t /\ Active(u)
    BY <1>4, <2>1 DEF Active
  <2> QED  BY <1>1, <2>1, <2>2 DEF Inv, Apart
<1>5. \A s \in Snap : s >= sn.earliest => Closed(s)
  BY <1>1 DEF Disk
<1> QED  BY <1>1, <1>2, <1>3, <1>4, <1>5 DEF Serving

(* A step that changes nothing but how far the request is.                 *)
LEMMA Moves ==
    ASSUME Inv, NEW t \in Thread, th[t].pc # "idle", th[t].pc # "header",
           NEW l \in Pc \ {"idle"}, NEW k, Went(t, l, k),
           UNCHANGED <<main, dirs, maps, sn, rm, look, taken>>, Served(t)'
    PROVE  Inv'
<1>1. Serving(t)
  BY ServingFacts
<1>2. Frame(t)
  BY DEF Frame, Went
<1>3. Types'
  BY <1>1 DEF Serving, Types, Went
<1>4. PICK p : p = th[t].path
  OBVIOUS
<1>5. p \in Plain /\ sn.earliest <= sn.lat => Linked(sn.lat, p)'
  BY <1>1 DEF Serving, Linked, After
<1>6. \A s \in Snap : s >= sn.earliest => Closed(s)'
  BY <1>1 DEF Serving, Closed
<1>7. main'[p].kind = "dir" => p \in DirPath
  BY <1>1, <1>4, Zenon DEF Serving, Disk
<1>8. th[t].sn \in Snap /\ th[t].sn >= sn.earliest => maps'[th[t].sn][p].st # "empty"
  BY <1>1, <1>4, Zenon DEF Serving
<1> QED  BY <1>1, <1>2, <1>3, <1>4, <1>5, <1>6, <1>7, <1>8, ThreadStep, Zenon DEF Serving

(* mkpath goes up the path.                                                *)
LEMMA MkpathStatInv == ASSUME Inv, NEW t \in Thread, MkpathStat(t) PROVE Inv'
<1>1. /\ Serving(t) /\ th[t].pc = "stat"
      /\ UNCHANGED <<main, dirs, maps, sn, rm, look, taken>>
  BY ServingFacts DEF MkpathStat, history
<1> DEFINE k == th[t].k
           last == Len(th[t].path) - 1
<1>2. k \in -1 .. last /\ last \in Nat /\ k \in Int /\ th[t].sn \in Snap /\ Parent(th[t].path) = Prefix(th[t].path, last)
  BY <1>1, PathFacts DEF Serving, Served
<1>3. CASE (k = -1 \/ Prefix(th[t].path, k) \in dirs[th[t].sn]) /\ k = last
  <2>1. Goto(t, "map")
    BY <1>3, Zenon DEF MkpathStat
  <2>2. Went(t, "map", k)
    BY <1>1, <2>1, GoFacts, Zenon DEF Serving, Pc
  <2>3. Parent(th[t].path) \in dirs[th[t].sn]
    <3>1. k # -1
      BY <1>2, <1>3
    <3> QED  BY <1>2, <1>3, <3>1, Zenon
  <2>4. Served(t)'
    BY <1>1, <1>2, <2>2, <2>3, Zenon DEF Serving, Served, Went
  <2> QED  BY <1>1, <2>2, <2>4, Moves, Zenon DEF Pc
<1>4. CASE (k = -1 \/ Prefix(th[t].path, k) \in dirs[th[t].sn]) /\ k # last
  <2>1. Go(t, "mkdir", k + 1)
    BY <1>4, Zenon DEF MkpathStat
  <2>2. Went(t, "mkdir", k + 1)
    BY <1>1, <1>2, <2>1, GoFacts DEF Serving, Pc
  <2>3. k + 1 \in 0 .. last /\ (k + 1 = 0 \/ Prefix(th[t].path, (k + 1) - 1) \in dirs[th[t].sn])
    <3>1. (k + 1) - 1 = k
      BY <1>2
    <3>2. k + 1 \in 0 .. last /\ (k = -1 => k + 1 = 0)
      BY <1>2, <1>4
    <3> QED  BY <1>4, <3>1, <3>2, Zenon
  <2>4. Served(t)'
    BY <1>1, <1>2, <2>2, <2>3, Zenon DEF Serving, Served, Went
  <2> QED  BY <1>1, <2>2, <2>4, Moves, Zenon DEF Pc
<1>5. CASE ~(k = -1 \/ Prefix(th[t].path, k) \in dirs[th[t].sn])
  <2>1. Go(t, "stat", k - 1)
    BY <1>5, Zenon DEF MkpathStat
  <2>2. Went(t, "stat", k - 1)
    BY <1>1, <1>2, <2>1, GoFacts DEF Serving, Pc
  <2>3. k - 1 \in -1 .. last
    BY <1>2, <1>5
  <2>4. Served(t)'
    BY <1>1, <1>2, <2>2, <2>3, Zenon DEF Serving, Served, Went
  <2> QED  BY <1>1, <2>2, <2>4, Moves, Zenon DEF Pc
<1> QED  BY <1>3, <1>4, <1>5

(* It makes a directory below one that is there.  A request that fails     *)
(* here saves into a snapshot that is being removed.                       *)
LEMMA MkpathMkdirInv == ASSUME Inv, NEW t \in Thread, MkpathMkdir(t) PROVE Inv'
<1>1. /\ Serving(t) /\ th[t].pc = "mkdir"
      /\ UNCHANGED <<main, maps, sn, rm, look, taken>>
  BY ServingFacts, Zenon DEF MkpathMkdir, history
<1>0. PICK s, p, k : s = th[t].sn /\ p = th[t].path /\ k = th[t].k
  OBVIOUS
<1> DEFINE last == Len(p) - 1
           q == Prefix(p, k)
<1>2. /\ k \in 0 .. last /\ last \in Nat /\ k \in Int /\ s \in Snap /\ p \in Path
      /\ q \in DirPath \cup {Root} /\ Parent(p) = Prefix(p, last)
  <2>1. p \in Path /\ k \in 0 .. Len(p) - 1 /\ s \in Snap
    BY <1>0, <1>1, Zenon DEF Serving, Served
  <2> QED  BY <2>1, PathFacts
<1>3. p \in Plain /\ sn.earliest <= sn.lat => Linked(sn.lat, p)'
  BY <1>0, <1>1, Zenon DEF Serving, Linked, After
<1>4. main'[p].kind = "dir" => p \in DirPath
  BY <1>0, <1>1, <1>2, Zenon DEF Serving, Disk
<1>5. s >= sn.earliest => maps'[s][p].st # "empty"
  BY <1>0, <1>1, <1>2, Zenon DEF Serving
<1>6. CASE q = Root \/ Parent(q) \in dirs[s]
  <2>1. dirs' = [dirs EXCEPT ![s] = @ \cup {q}]
    BY <1>0, <1>6, Zenon DEF MkpathMkdir
  <2>2. /\ dirs' \in [Snap -> SUBSET (DirPath \cup {Root})] /\ dirs'[s] = dirs[s] \cup {q}
        /\ \A j \in Snap : j # s => dirs'[j] = dirs[j]
    BY <1>0, <1>1, <1>2, <2>1 DEF Serving, Types
  <2>3. \A j \in Snap : j >= sn.earliest => Closed(j)'
    BY <1>0, <1>1, <1>2, <1>6, <2>2, Zenon DEF Serving, Closed
  <2>4. PICK l \in {"map", "mkdir"}, n \in Int :
           /\ Went(t, l, n)
           /\ l = "map" => k = last
           /\ l = "mkdir" => n = k + 1 /\ k # last
    <3>1. CASE k = last
      <4>1. Goto(t, "map")
        BY <1>0, <1>6, <3>1, Zenon DEF MkpathMkdir
      <4>2. Went(t, "map", th[t].k)
        BY <1>1, <4>1, GoFacts DEF Serving, Pc
      <4> QED  BY <1>0, <1>2, <3>1, <4>2, Zenon
    <3>2. CASE k # last
      <4>1. k + 1 \in Int /\ "mkdir" \in Pc /\ Types
        BY <1>1, <1>2 DEF Pc, Serving
      <4>2. Go(t, "mkdir", k + 1)
        BY <1>0, <1>6, <3>2, Zenon DEF MkpathMkdir
      <4>3. Went(t, "mkdir", k + 1)
        BY <4>1, <4>2, GoFacts, Zenon
      <4> QED  BY <3>2, <4>1, <4>3, Zenon
    <3> QED  BY <3>1, <3>2
  <2>5. Frame(t)
    BY <1>0, <1>1, <2>2, <2>4, Zenon DEF Frame, Went
  <2>6. Types'
    BY <1>0, <1>1, <2>2, <2>4 DEF Serving, Types, Went
  <2>7. Served(t)'
    <3>1. l = "map" => Parent(p) \in dirs'[s]
      BY <1>2, <2>2, <2>4, Zenon
    <3>2. l = "mkdir" => n \in 0 .. last /\ Prefix(p, n - 1) \in dirs'[s]
      <4>1. l = "mkdir" => n - 1 = k /\ n \in 0 .. last
        BY <1>2, <2>4
      <4> QED  BY <2>2, <4>1
    <3> HIDE DEF q
    <3> QED  BY <1>0, <1>1, <1>2, <2>4, <3>1, <3>2, Zenon DEF Serving, Served, Went
  <2> HIDE DEF last, q
  <2> QED  BY <1>0, <1>1, <1>3, <1>4, <1>5, <2>3, <2>5, <2>6, <2>7, ThreadStep, Zenon DEF Serving
<1>7. CASE ~(q = Root \/ Parent(q) \in dirs[s])
  <2>1. Ended(t) /\ dirs' = dirs
    BY <1>0, <1>1, <1>7, GoFacts, Zenon DEF MkpathMkdir, Serving
  <2>2. Frame(t) /\ Types' /\ Served(t)'
    BY <1>0, <1>1, <2>1, Zenon DEF Frame, Ended, Serving, Types, Served
  <2>3. \A j \in Snap : j >= sn.earliest => Closed(j)'
    BY <1>0, <1>1, <2>1, Zenon DEF Serving, Closed
  <2> HIDE DEF last, q
  <2> QED  BY <1>0, <1>1, <1>3, <1>4, <1>5, <2>2, <2>3, ThreadStep, Zenon DEF Serving
<1> QED  BY <1>6, <1>7

(* What map files and nodes are, from the types of the disk.               *)
LEMMA SavedTypes ==
    ASSUME Types, NEW s \in Snap, NEW p \in Path PROVE maps[s][p] \in MapFile /\ main[p] \in Node
<1>1. maps \in [Snap -> [Path -> MapFile]] /\ main \in [Path -> Node]
  BY Zenon DEF Types
<1> QED  BY <1>1

(* What remains to be shown of a step that changes at most the map file of *)
(* its path.                                                               *)
LEMMA MapStep ==
    ASSUME Inv, NEW t \in Thread, th[t].pc # "idle", NEW m \in MapFile,
           NEW p, p = th[t].path, NEW s, s = th[t].sn, s \in Snap,
           (maps' = maps /\ m = maps[s][p]) \/ maps' = [maps EXCEPT ![s][p] = m],
           UNCHANGED <<main, dirs, sn, rm, look, taken>>,
           Ended(t) \/ \E l \in Pc \ {"idle"}, k \in Int : Went(t, l, k),
           m.st = "saved" /\ s >= sn.earliest
              => m = maps[s][p] \/ (maps[s][p].st # "saved" /\ m.node = main[p]),
           m.st # "saved" /\ s >= sn.earliest => maps[s][p].st # "saved",
           m.st = "empty" /\ s >= sn.earliest => th'[t].pc = "header",
           Served(t)'
    PROVE  Inv'
<1>1. Serving(t) /\ p \in Path /\ maps[s][p] \in MapFile
  <2>1. Serving(t)
    BY ServingFacts, Zenon
  <2>2. Types /\ p \in Path
    BY <2>1, Zenon DEF Serving
  <2> QED  BY <2>1, <2>2, SavedTypes, Zenon
<1>2. /\ maps' \in [Snap -> [Path -> MapFile]] /\ maps'[s][p] = m
      /\ \A j \in Snap, x \in Path : j # s \/ x # p => maps'[j][x] = maps[j][x]
  <2>1. Types /\ maps \in [Snap -> [Path -> MapFile]]
    BY <1>1, Zenon DEF Serving, Types
  <2>2. CASE maps' = maps /\ m = maps[s][p]
    BY <2>1, <2>2, Zenon
  <2>3. CASE maps' = [maps EXCEPT ![s][p] = m]
    BY <1>1, <2>1, <2>3, Zenon
  <2> QED  BY <2>2, <2>3, Zenon
<1>3. Frame(t) /\ th' \in [Thread -> Req]
  <2>1. /\ th' \in [Thread -> Req]
        /\ \A u \in Thread : u # t => th'[u] = th[u]
        /\ th'[t] = NoReq \/ (th'[t].path = th[t].path /\ th'[t].pc # "idle")
    BY Zenon DEF Ended, Went
  <2>2. /\ UNCHANGED <<sn, rm, look, taken>>
        /\ \A x \in Path : x # th[t].path => main'[x] = main[x]
        /\ \A j \in Snap : dirs[j] \subseteq dirs'[j]
    BY Zenon
  <2>3. \A j \in Snap, x \in Path : j # th[t].sn \/ x # th[t].path => maps'[j][x] = maps[j][x]
    BY <1>2, Zenon
  <2> QED  BY <2>1, <2>2, <2>3, Zenon DEF Frame
<1>4. Types'
  BY <1>1, <1>2, <1>3, Zenon DEF Serving, Types
<1>5. \A j \in Snap : j >= sn.earliest => Closed(j)'
  BY <1>1, Zenon DEF Serving, Closed
<1>6. ASSUME p \in Plain, sn.earliest <= sn.lat PROVE Linked(sn.lat, p)'
  <2>1. Linked(sn.lat, p)
    BY <1>1, <1>6, Zenon DEF Serving
  <2>2. s = sn.lat
    BY <1>1, SnFacts, Zenon DEF Serving, Served
  <2>3. Linked(s, p) = IF maps[s][p].st = "saved" THEN maps[s][p].node = taken[s][p]
                      ELSE main[p] = taken[s][p]
    BY <2>2, Zenon DEF Linked, After
  <2>4. Linked(s, p)' = IF m.st = "saved" THEN m.node = taken[s][p] ELSE main[p] = taken[s][p]
    BY <1>2, <2>2, Zenon DEF Linked, After
  <2>5. Linked(s, p)'
    BY <1>6, <2>1, <2>2, <2>3, <2>4, Zenon
  <2> QED  BY <2>2, <2>5
<1>7. main'[p].kind = "dir" => p \in DirPath
  BY <1>1, Zenon DEF Serving, Disk
<1>8. s >= sn.earliest /\ m.st = "empty" => th'[t].sn = s
  BY Constants, Zenon DEF Ended, Went
<1> QED  BY <1>1, <1>2, <1>3, <1>4, <1>5, <1>6, <1>7, <1>8, ThreadStep, Zenon DEF Serving

(* The map file is made, or was there.                                     *)
LEMMA CreateMapInv == ASSUME Inv, NEW t \in Thread, CreateMap(t) PROVE Inv'
<1>1. /\ Serving(t) /\ th[t].pc = "map"
      /\ UNCHANGED <<main, dirs, sn, rm, look, taken>>
  BY ServingFacts DEF CreateMap, history
<1>2. PICK s, p : s = th[t].sn /\ p = th[t].path
  BY Zenon
<1>3. /\ s \in Snap /\ p \in Path /\ maps[s][p] \in MapFile /\ th[t].k \in Int
      /\ s >= sn.earliest => maps[s][p].st # "empty"
  <2>1. th[t] \in Req /\ Served(t) /\ Types /\ th[t] # NoReq
    BY <1>1, Zenon DEF Serving
  <2>2. "map" # "apply"
    OBVIOUS
  <2>3. s \in Snap /\ p \in Path
    BY <1>1, <1>2, <2>1, <2>2, Zenon DEF Served
  <2>4. th[t].k \in Int /\ maps[s][p] \in MapFile /\ main[p] \in Node
    BY <2>1, <2>3, SavedTypes, ReqTypes, Zenon
  <2>5. s >= sn.earliest => maps[s][p].st # "empty"
    BY <1>1, <1>2, <2>1, <2>3, Zenon DEF Serving, Served
  <2> QED  BY <2>3, <2>4, <2>5, Zenon
<1>4. CASE maps[s][p].st # "none"
  <2>1. maps' = maps /\ Went(t, "apply", th[t].k)
    BY <1>1, <1>2, <1>4, GoFacts, Zenon DEF CreateMap, Serving, Pc
  <2>2. s >= sn.earliest => maps[s][p].st = "saved"
    BY <1>3, <1>4 DEF MapFile
  <2>3. Served(t)'
    BY <1>1, <1>2, <2>1, <2>2, Zenon DEF Serving, Served, Went
  <2> QED  BY <1>1, <1>2, <1>3, <2>1, <2>3, Moves, Zenon DEF Pc
<1>5. CASE maps[s][p].st = "none" /\ Parent(p) \in dirs[s]
  <2>1. maps' = [maps EXCEPT ![s][p] = EmptyMap] /\ Went(t, "header", th[t].k)
    BY <1>1, <1>2, <1>5, GoFacts DEF CreateMap, Serving, Pc
  <2>2. maps'[s][p] = EmptyMap
    BY <1>1, <1>3, <2>1 DEF Serving, Types
  <2>3. Served(t)'
    BY <1>1, <1>2, <1>3, <2>1, <2>2, Constants, Zenon DEF Serving, Served, Went
  <2>4. th'[t].pc = "header"
    BY <2>1 DEF Went
  <2> QED  BY <1>1, <1>2, <1>3, <1>5, <2>1, <2>3, <2>4, Constants, MapStep, Zenon DEF Pc
<1>6. CASE maps[s][p].st = "none" /\ Parent(p) \notin dirs[s]
  <2>1. maps' = maps /\ Ended(t)
    BY <1>1, <1>2, <1>6, GoFacts DEF CreateMap, Serving
  <2>2. Served(t)'
    BY <2>1, Zenon DEF Ended, Served
  <2> QED  BY <1>1, <1>2, <1>3, <1>6, <2>1, <2>2, MapStep
<1> QED  BY <1>4, <1>5, <1>6

(* What is in the main space goes into the map file, before it changes.    *)
LEMMA SaveHeaderInv == ASSUME Inv, NEW t \in Thread, SaveHeader(t) PROVE Inv'
<1>1. /\ Serving(t) /\ th[t].pc = "header"
      /\ UNCHANGED <<main, dirs, sn, rm, look, taken>>
  BY ServingFacts DEF SaveHeader, history
<1>2. PICK s, p : s = th[t].sn /\ p = th[t].path
  BY Zenon
<1>3. /\ s \in Snap /\ p \in Path /\ maps[s][p] \in MapFile /\ th[t].k \in Int
      /\ main[p] \in Node
      /\ s >= sn.earliest => maps[s][p].st = "empty"
  <2>1. th[t] \in Req /\ Served(t) /\ Types /\ th[t] # NoReq
    BY <1>1, Zenon DEF Serving
  <2>2. "header" # "apply"
    OBVIOUS
  <2>3. s \in Snap /\ p \in Path
    BY <1>1, <1>2, <2>1, <2>2, Zenon DEF Served
  <2>4. th[t].k \in Int /\ maps[s][p] \in MapFile /\ main[p] \in Node
    BY <2>1, <2>3, SavedTypes, ReqTypes, Zenon
  <2>5. s >= sn.earliest => maps[s][p].st = "empty"
    BY <1>1, <1>2, <2>1, <2>3, Zenon DEF Serving, Served
  <2> QED  BY <2>3, <2>4, <2>5, Zenon
<1>4. Went(t, "apply", th[t].k)
  BY <1>1, GoFacts DEF SaveHeader, Serving, Pc
<1>5. CASE maps[s][p].st = "none"
  <2>1. maps' = maps /\ ~(s >= sn.earliest)
    BY <1>2, <1>3, <1>5 DEF SaveHeader
  <2>2. Served(t)'
    BY <1>1, <1>2, <1>4, <2>1, Zenon DEF Serving, Served, Went
  <2> QED  BY <1>1, <1>2, <1>3, <1>4, <1>5, <2>1, <2>2, MapStep DEF Pc
<1>6. CASE maps[s][p].st # "none"
  <2>1. maps' = [maps EXCEPT ![s][p] = Header(main[p])]
    BY <1>2, <1>6 DEF SaveHeader
  <2>2. maps'[s][p] = Header(main[p])
    BY <1>1, <1>3, <2>1 DEF Serving, Types
  <2>3. Served(t)'
    <3>1. maps'[s][p].st = "saved"
      BY <1>3, <2>2, Constants, Zenon
    <3> QED  BY <1>1, <1>2, <1>3, <1>4, <3>1, Zenon DEF Serving, Served, Went
  <2> QED  BY <1>1, <1>2, <1>3, <1>4, <2>1, <2>3, Constants, MapStep, Zenon DEF Pc
<1> QED  BY <1>5, <1>6

(* Or the map file is removed again.                                       *)
LEMMA HeaderIsDirInv == ASSUME Inv, NEW t \in Thread, HeaderIsDir(t) PROVE Inv'
<1>1. /\ Serving(t) /\ th[t].pc = "header"
      /\ UNCHANGED <<main, dirs, sn, rm, look, taken>>
  BY ServingFacts DEF HeaderIsDir, history
<1>2. PICK s, p : s = th[t].sn /\ p = th[t].path
  OBVIOUS
<1>3. /\ s \in Snap
      /\ s >= sn.earliest => maps[s][p].st = "empty"
  BY <1>1, <1>2, Zenon DEF Serving, Served
<1>4. maps' = [maps EXCEPT ![s][p] = NoMap] /\ Ended(t)
  BY <1>1, <1>2, GoFacts DEF HeaderIsDir, Serving
<1>5. Served(t)'
  BY <1>4 DEF Ended, Served
<1> QED  BY <1>1, <1>2, <1>3, <1>4, <1>5, Constants, MapStep, Zenon

(* The main space changes; by then what was there is saved, unless there   *)
(* is no snapshot to save it in.                                           *)
LEMMA ApplyInv == ASSUME Inv, NEW t \in Thread, Apply(t) PROVE Inv'
<1>1. /\ Serving(t) /\ th[t].pc = "apply"
      /\ UNCHANGED <<dirs, maps, sn, rm, look, taken>>
  BY ServingFacts DEF Apply
<1>2. PICK s, p : s = th[t].sn /\ p = th[t].path
  OBVIOUS
<1>3. /\ p \in Path /\ main[p] \in Node /\ th[t].attr \in Attr
      /\ th[t].op \in Adding \cup Changing
  BY <1>1, <1>2 DEF Serving, Served, Types, Req
<1>4. PICK n : /\ main' = [main EXCEPT ![p] = n]
               /\ \/ th[t].op = "mkdir" /\ n = [kind |-> "dir", attr |-> th[t].attr]
                  \/ n = [kind |-> "file", attr |-> th[t].attr]
                  \/ n = [main[p] EXCEPT !.attr = th[t].attr]
                  \/ n = main[p]
                  \/ n = NoNode
  <2>1. PICK full, n :
           /\ main' = [main EXCEPT ![p] = n]
           /\ n = CASE th[t].op = "mkdir" -> [kind |-> "dir", attr |-> th[t].attr]
                    [] th[t].op = "create" -> [kind |-> "file", attr |-> th[t].attr]
                    [] th[t].op = "chmod" -> [main[p] EXCEPT !.attr = th[t].attr]
                    [] OTHER -> IF full THEN main[p] ELSE NoNode
    BY <1>2, Zenon DEF Apply
  <2>3. \/ th[t].op = "mkdir" /\ n = [kind |-> "dir", attr |-> th[t].attr]
        \/ n = [kind |-> "file", attr |-> th[t].attr]
        \/ n = [main[p] EXCEPT !.attr = th[t].attr]
        \/ n = main[p]
        \/ n = NoNode
    BY <2>1
  <2> QED  BY <2>1, <2>3, Zenon
<1>5. n \in Node /\ (n.kind = "dir" => main[p].kind = "dir" \/ th[t].op = "mkdir")
  <2>1. CASE n = [main[p] EXCEPT !.attr = th[t].attr]
    BY <1>3, <2>1, Zenon DEF Node
  <2>2. CASE n = main[p] \/ n = NoNode
    BY <1>3, <2>2, Constants DEF NoNode
  <2>3. CASE n = [kind |-> "file", attr |-> th[t].attr]
    BY <1>3, <2>3 DEF Node
  <2>4. CASE th[t].op = "mkdir" /\ n = [kind |-> "dir", attr |-> th[t].attr]
    BY <1>3, <2>4 DEF Node
  <2> QED  BY <1>4, <2>1, <2>2, <2>3, <2>4
<1>6. /\ main' \in [Path -> Node] /\ main'[p] = n
      /\ \A x \in Path : x # p => main'[x] = main[x]
  BY <1>1, <1>3, <1>4, <1>5 DEF Serving, Types
<1>7. Ended(t)
  BY <1>1, GoFacts DEF Apply, Serving
<1>8. Frame(t)
  BY <1>1, <1>2, <1>6, <1>7, Zenon DEF Frame, Ended
<1>9. Types' /\ Served(t)'
  BY <1>1, <1>6, <1>7, Zenon DEF Serving, Types, Ended, Served
<1>10. main'[p].kind = "dir" => p \in DirPath
  BY <1>1, <1>2, <1>3, <1>5, <1>6, Zenon DEF Serving, Served, Disk
<1>11. ASSUME p \in Plain, sn.earliest <= sn.lat PROVE Linked(sn.lat, p)'
  <2>1. s = sn.lat
    BY <1>1, <1>2, <1>11, Zenon DEF Serving, Served, Plain
  <2>2. maps[sn.lat][p].st = "saved"
    BY <1>1, <1>2, <1>11, <2>1, SnFacts, Zenon DEF Serving, Served
  <2> QED  BY <1>1, <1>11, <2>2, Zenon DEF Serving, Linked
<1>12. \A j \in Snap : j >= sn.earliest => Closed(j)'
  BY <1>1 DEF Serving, Closed
<1>13. s \in Snap /\ s >= sn.earliest => maps'[s][p].st # "empty"
  BY <1>1, <1>2, Zenon DEF Serving
<1> QED  BY <1>1, <1>2, <1>8, <1>9, <1>10, <1>11, <1>12, <1>13, ThreadStep, Zenon DEF Serving

(* A map file without a header is being written.                           *)
LEMMA EmptyHeaders ==
    Disk => \A s \in Snap, p \in Path : s >= sn.earliest /\ maps[s][p].st = "empty"
               => \E t \in Thread : th[t].pc = "header" /\ th[t].path = p /\ th[t].sn = s
  BY Zenon DEF Disk

(* A request begins.  The kernel's locks keep it apart from the others: if *)
(* it worked on the same path, both would add it, or both change it.       *)
LEMMA BeginInv ==
    ASSUME Inv, NEW t \in Thread, NEW op \in Adding \cup Changing, NEW p \in Path, NEW a \in Attr,
           op \in Adding <=> main[p].kind = "none", op \in {"mkdir", "rmdir"} => p \in DirPath,
           Begin(t, op, p, a)
    PROVE  Inv'
<1>1. /\ Types /\ Disk /\ Looks /\ Apart /\ ~Active(t)
      /\ UNCHANGED <<main, dirs, maps, sn, taken>>
  BY DEF Inv, Begin
<1>2. PICK x : /\ \/ x.pc = "stat" /\ sn.any /\ op # "rmdir" /\ x.sn = sn.lat
                  \/ x.pc = "apply" /\ (~sn.any \/ op = "rmdir") /\ x.sn = 0
               /\ x.op = op /\ x.path = p /\ x.attr = a /\ x.k = Len(p) - 1
               /\ x = [pc |-> x.pc, op |-> op, path |-> p, attr |-> a, sn |-> x.sn, k |-> Len(p) - 1]
               /\ th' = [th EXCEPT ![t] = x]
  <2>1. CASE sn.any /\ op # "rmdir"
    <3>1. PICK x : x = [pc |-> "stat", op |-> op, path |-> p, attr |-> a, sn |-> sn.lat, k |-> Len(p) - 1]
      BY Zenon
    <3> QED  BY <2>1, <3>1, Zenon DEF Begin
  <2>2. CASE ~(sn.any /\ op # "rmdir")
    <3>1. PICK x : x = [pc |-> "apply", op |-> op, path |-> p, attr |-> a, sn |-> 0, k |-> Len(p) - 1]
      BY Zenon
    <3> QED  BY <2>2, <3>1, Zenon DEF Begin
  <2> QED  BY <2>1, <2>2
<1>3. Len(p) \in Nat \ {0}
  BY PathFacts
<1>4. x \in Req
  <2>1. x.sn \in 0 .. MaxSnap /\ x.k \in Int /\ x.pc \in Pc
    BY <1>1, <1>2, <1>3, SnFacts DEF Types, Pc, Snap
  <2> QED  BY <1>2, <2>1, Zenon DEF Req
<1>5. /\ th' \in [Thread -> Req] /\ th'[t] = x
      /\ \A u \in Thread : u # t => th'[u] = th[u]
  BY <1>1, <1>2, <1>4, Zenon DEF Types
<1>6. rm' \in [sn : 0 .. MaxSnap, raced : BOOLEAN] /\ rm'.sn = rm.sn
  <2>1. PICK b \in BOOLEAN : rm' = [rm EXCEPT !.raced = b]
    <3>1. rm.raced \in BOOLEAN
      BY <1>1, Zenon DEF Types
    <3> QED  BY <3>1, Zenon DEF Begin
  <2> QED  BY <1>1, <2>1, Zenon DEF Types
<1>7. /\ DOMAIN look' = LookField /\ look'.pc = look.pc /\ look'.op = look.op /\ look'.sn = look.sn
      /\ look'.path = look.path /\ look'.k = look.k /\ look'.res = look.res /\ look'.ok = look.ok
      /\ look'.calm = look.calm \ {p}
  <2>1. look' = [look EXCEPT !.calm = look.calm \ {p}] /\ DOMAIN look = LookField
    BY <1>1, Zenon DEF Begin, Types
  <2> QED  BY <2>1, Zenon DEF LookField
<1>8. Types'
  BY <1>1, <1>5, <1>6, <1>7, Zenon DEF Types
<1>9. ASSUME NEW u \in Thread, Active(u) PROVE u # t /\ th[u].path # p
  <2>1. /\ th[u].op \in Adding \cup Changing
        /\ th[u].op \in Adding <=> main[th[u].path].kind = "none"
    <3>1. Served(u) /\ th[u] # NoReq /\ th[u] \in Req
      BY <1>1, <1>9, Constants, Zenon DEF Inv, Active, Types
    <3>2. th[u].op \in Adding \cup Changing \cup {"none"}
      BY <3>1, Zenon DEF Req
    <3> QED  BY <3>1, <3>2, Zenon DEF Served
  <2>2. Locks(op, p) \cap Locks(th[u].op, th[u].path) = {}
    BY <1>9 DEF Begin, Excludes
  <2>3. ASSUME th[u].path = p PROVE FALSE
    <3>1. CASE op \in Adding
      <4>1. Locks(op, p) = {Parent(p)} /\ Locks(th[u].op, p) = {Parent(p)}
        BY <2>1, <2>3, <3>1 DEF Adding, Locks
      <4> QED  BY <2>2, <2>3, <4>1, Zenon
    <3>2. CASE op \notin Adding
      <4>1. op \in Changing /\ th[u].op \in Changing
        BY <2>1, <2>3, <3>2
      <4>2. \A o \in Changing : p \in Locks(o, p)
        BY DEF Changing, Locks
      <4> QED  BY <2>2, <2>3, <4>1, <4>2
    <3> QED  BY <3>1, <3>2
  <2> QED  BY <1>1, <1>9, <2>3, Zenon
<1>10. \A u \in Thread : u # t => (Active(u)' <=> Active(u))
  BY <1>5 DEF Active
<1>11. Apart'
  BY <1>1, <1>2, <1>5, <1>9, <1>10, Zenon DEF Apart
<1>12. Disk'
  <2>1. ASSUME NEW s \in Snap, NEW q \in Path, s >= sn.earliest, maps[s][q].st = "empty"
        PROVE  \E u \in Thread : th'[u].pc = "header" /\ th'[u].path = q /\ th'[u].sn = s
    <3>1. PICK u \in Thread : th[u].pc = "header" /\ th[u].path = q /\ th[u].sn = s
      BY <1>1, <2>1, EmptyHeaders, Zenon
    <3>2. u # t
      BY <1>1, <3>1, Zenon DEF Active
    <3> QED  BY <1>5, <3>1, <3>2, Zenon
  <2> QED  BY <1>1, <1>6, <2>1 DEF Disk, Closed, Linked, After
<1>13. \A u \in Thread : Served(u)'
  <2>1. ASSUME NEW u \in Thread, u # t PROVE Served(u)'
    BY <1>1, <1>5, <2>1, Zenon DEF Inv, Served
  <2>2. Served(t)'
    <3>0. (~sn.any => sn.earliest > sn.lat) /\ (sn.any => sn.lat >= 1)
      BY <1>1, Zenon DEF Disk
    <3>1. sn.any => sn.lat \in Snap
      BY <3>0, SnFacts
    <3>2. sn.earliest <= sn.lat => sn.any
      BY <3>0, SnFacts
    <3>3. ~(0 >= sn.earliest)
      BY SnFacts
    <3>4. Len(p) - 1 \in -1 .. Len(p) - 1
      BY <1>3
    <3>5. op # "none"
      BY DEF Adding, Changing
    <3> QED  BY <1>1, <1>2, <1>5, <3>1, <3>2, <3>3, <3>4, <3>5, Zenon DEF Served
  <2> QED  BY <2>1, <2>2, Zenon
<1>14. Looks'
  <2>1. \A u \in Thread : Active(u)' => th'[u].path \notin look'.calm \/ look.pc = "idle"
    BY <1>1, <1>2, <1>5, <1>7, <1>10, Zenon DEF Looks
  <2>2. \A q, i, j : Unsaved(q, i, j)' <=> Unsaved(q, i, j)
    BY <1>1, Zenon DEF Unsaved
  <2> QED  BY <1>1, <1>6, <1>7, <2>1, <2>2, Zenon DEF Looks
<1> QED  BY <1>8, <1>11, <1>12, <1>13, <1>14 DEF Inv

(* Each kind of request begins like this.                                  *)
LEMMA StartInv == ASSUME Inv, NEW t \in Thread, Start(t) PROVE Inv'
<1>1. PICK p \in Path : \/ \E a \in NewAttr : StartMkdir(t, p, a) \/ StartCreate(t, p, a)
                        \/ \E a \in Attr : StartChmod(t, p, a)
                        \/ StartUnlink(t, p) \/ StartRmdir(t, p)
  BY DEF Start
<1>2. NewAttr \subseteq Attr /\ RWXU \in Attr
  BY NameAssumption, Zenon
<1>3. main[p].kind = "dir" => p \in DirPath
  BY Zenon DEF Inv, Disk
<1>4. CASE \E a \in NewAttr : StartMkdir(t, p, a)
  BY <1>2, <1>4, BeginInv, Zenon DEF StartMkdir, Adding, Changing
<1>5. CASE \E a \in NewAttr : StartCreate(t, p, a)
  BY <1>2, <1>5, BeginInv, Zenon DEF StartCreate, Adding, Changing
<1>6. CASE \E a \in Attr : StartChmod(t, p, a)
  BY <1>6, BeginInv, Zenon DEF StartChmod, Adding, Changing
<1>7. CASE StartUnlink(t, p)
  BY <1>2, <1>7, BeginInv, Zenon DEF StartUnlink, Adding, Changing
<1>8. CASE StartRmdir(t, p)
  BY <1>2, <1>3, <1>8, BeginInv, Zenon DEF StartRmdir, Adding, Changing
<1> QED  BY <1>1, <1>4, <1>5, <1>6, <1>7, <1>8

(* A snapshot is taken between requests: what the main space was, it is    *)
(* from now on for the snapshot before, too.                               *)
LEMMA TakeSnapshotInv == ASSUME Inv, TakeSnapshot PROVE Inv'
<1>1. /\ Types /\ Disk /\ sn.lat < MaxSnap /\ look.pc = "idle"
      /\ \A t \in Thread : th[t] = NoReq
      /\ UNCHANGED <<main, maps, th, rm, look>>
  BY Zenon DEF Inv, TakeSnapshot, Served, Active
<1>2. PICK n : n = sn.lat + 1
  OBVIOUS
<1>3. n \in Snap /\ n \in Nat /\ sn.lat \in Nat /\ sn.earliest \in Nat /\ MaxSnap \in Nat
  BY <1>1, <1>2, SnFacts DEF Snap
<1>4. /\ sn' \in [any : BOOLEAN, lat : 0 .. MaxSnap, earliest : 1 .. MaxSnap + 1]
      /\ sn'.any /\ sn'.lat = n /\ sn'.earliest = sn.earliest
  <2>1. sn' = [sn EXCEPT !.any = TRUE, !.lat = n]
    BY <1>2, Zenon DEF TakeSnapshot
  <2>2. n \in 0 .. MaxSnap
    BY <1>1, <1>2, <1>3
  <2> QED  BY <1>1, <2>1, <2>2, Zenon DEF Types
<1>5. /\ dirs' \in [Snap -> SUBSET (DirPath \cup {Root})] /\ dirs'[n] = {Root}
      /\ \A s \in Snap : s # n => dirs'[s] = dirs[s]
  BY <1>1, <1>2, <1>3 DEF TakeSnapshot, Types
<1>6. /\ taken' \in [Snap -> [Path -> Node]] /\ taken'[n] = main
      /\ \A s \in Snap : s # n => taken'[s] = taken[s]
  BY <1>1, <1>2, <1>3 DEF TakeSnapshot, Types
<1>7. Types'
  BY <1>1, <1>4, <1>5, <1>6, Zenon DEF Types
<1>8. \A s \in Snap : s >= sn.earliest => Closed(s)'
  BY <1>1, <1>5 DEF Disk, Closed
<1>9. ASSUME NEW s \in Snap, NEW p \in Plain, s >= sn.earliest, s <= n PROVE Linked(s, p)'
  <2>1. s \in Nat /\ p \in Path
    BY SnFacts
  <2>2. CASE s = n
    <3>1. maps'[s][p].st = "none"
      BY <1>1, <1>2, <1>3, <2>1, <2>2 DEF Disk
    <3>2. After(s)' = main
      BY <1>1, <1>4, <2>2 DEF After
    <3> QED  BY <1>6, <2>2, <3>1, <3>2, Zenon DEF Linked
  <2>3. CASE s # n
    <3>1. s <= sn.lat
      BY <1>2, <1>3, <1>9, <2>1, <2>3
    <3>2. Linked(s, p) /\ taken'[s] = taken[s] /\ maps' = maps
      BY <1>1, <1>6, <1>9, <2>3, <3>1, Zenon DEF Disk
    <3>3. After(s)' = After(s)
      <4>1. CASE s = sn.lat
        BY <1>2, <1>4, <1>6, <2>3, <4>1, Zenon DEF After
      <4>2. CASE s # sn.lat
        <5>1. s + 1 \in Snap /\ s + 1 # n
          BY <1>2, <1>3, <2>1, <3>1, <4>2, SnFacts
        <5> QED  BY <1>4, <1>6, <2>3, <4>2, <5>1, Zenon DEF After
      <4> QED  BY <4>1, <4>2
    <3> QED  BY <3>2, <3>3, Zenon DEF Linked
  <2> QED  BY <2>2, <2>3
<1>10. Disk'
  <2>1. sn'.earliest <= sn'.lat + 1 /\ sn'.any /\ sn'.lat >= 1 /\ rm'.sn < sn'.earliest
    BY <1>1, <1>2, <1>3, <1>4 DEF Disk
  <2>2. \A s \in Snap, p \in Path : s > sn'.lat => maps'[s][p].st = "none"
    BY <1>1, <1>2, <1>3, <1>4, SnFacts DEF Disk
  <2>3. \A s \in Snap : s >= sn.earliest /\ s <= n => Root \in dirs'[s]
    BY <1>1, <1>2, <1>3, <1>5, SnFacts DEF Disk
  <2>4. /\ \A p \in Path : main'[p].kind = "dir" => p \in DirPath
        /\ \A s \in Snap, p \in Path : s >= sn.earliest /\ maps'[s][p].st = "empty"
              => \E t \in Thread : th'[t].pc = "header" /\ th'[t].path = p /\ th'[t].sn = s
    BY <1>1 DEF Disk
  <2> QED  BY <1>4, <1>8, <1>9, <2>1, <2>2, <2>3, <2>4 DEF Disk
<1>11. Apart' /\ Looks' /\ \A t \in Thread : Served(t)'
  BY <1>1, Constants, Zenon DEF Apart, Active, Looks, Served
<1> QED  BY <1>7, <1>10, <1>11 DEF Inv

(* What remains to be shown of a step of recursive_remove: that it leaves  *)
(* the other snapshots alone.                                              *)
LEMMA RemoveStep ==
    ASSUME Inv, UNCHANGED <<main, th, look>>, look.pc = "idle", Types',
           sn'.lat = sn.lat, sn'.earliest \in Nat,
           sn.earliest <= sn'.earliest, sn'.earliest <= sn.lat + 1,
           sn'.any => sn.lat >= 1, ~sn'.any => sn'.earliest > sn.lat, rm'.sn < sn'.earliest,
           \A s \in Snap : s >= sn'.earliest
              => maps'[s] = maps[s] /\ dirs'[s] = dirs[s] /\ taken'[s] = taken[s]
    PROVE  Inv'
<1>1. Types /\ Disk /\ sn.lat \in Nat /\ sn.earliest \in Nat /\ sn.earliest >= 1
  BY SnFacts, Zenon DEF Inv
<1>2. \A s \in Snap : s \in Nat /\ (s >= sn'.earliest => s >= sn.earliest) /\ (s > sn.lat => s >= sn'.earliest)
  BY <1>1, SnFacts
<1>3. ASSUME NEW s \in Snap, NEW p \in Plain, s >= sn'.earliest, s <= sn.lat PROVE Linked(s, p)'
  <2>1. Linked(s, p) /\ maps'[s] = maps[s] /\ taken'[s] = taken[s]
    BY <1>1, <1>2, <1>3, Zenon DEF Disk
  <2>2. After(s)' = After(s)
    <3>1. CASE s = sn.lat
      BY <3>1, Zenon DEF After
    <3>2. CASE s # sn.lat
      <4>1. s + 1 \in Snap /\ s + 1 >= sn'.earliest
        BY <1>1, <1>2, <1>3, <3>2, SnFacts
      <4> QED  BY <3>2, <4>1, Zenon DEF After
    <3> QED  BY <3>1, <3>2, Zenon
  <2> QED  BY <2>1, <2>2, Zenon DEF Linked
<1>4. \A s \in Snap : s >= sn'.earliest => Closed(s)'
  BY <1>1, <1>2, Zenon DEF Disk, Closed
<1>5. \A s \in Snap, p \in Path : s > sn.lat => maps'[s][p].st = "none"
  BY <1>1, <1>2 DEF Disk
<1>6. \A s \in Snap, p \in Path : s >= sn'.earliest /\ maps'[s][p].st = "empty"
         => \E t \in Thread : th'[t].pc = "header" /\ th'[t].path = p /\ th'[t].sn = s
  BY <1>1, <1>2 DEF Disk
<1>7. /\ \A p \in Path : main'[p].kind = "dir" => p \in DirPath
      /\ \A s \in Snap : s >= sn'.earliest /\ s <= sn.lat => Root \in dirs'[s]
  BY <1>1, <1>2, Zenon DEF Disk
<1>8. Disk'
  BY <1>3, <1>4, <1>5, <1>6, <1>7 DEF Disk
<1>9. Apart' /\ Looks'
  BY Zenon DEF Inv, Apart, Active, Looks
<1>10. ASSUME NEW t \in Thread PROVE Served(t)'
  <2>1. Served(t) /\ th'[t] = th[t]
    BY Zenon DEF Inv
  <2>2. CASE th[t] = NoReq
    BY <2>1, <2>2, Zenon DEF Served
  <2>3. CASE th[t] # NoReq
    <3>1. th[t].sn \in {0, sn.lat}
      BY <2>1, <2>3, Zenon DEF Served
    <3>2. sn'.earliest <= sn.lat => sn.earliest <= sn.lat
      BY <1>1
    <3>3. ASSUME th[t].sn >= sn'.earliest
          PROVE  /\ th[t].sn >= sn.earliest
                 /\ maps'[th[t].sn] = maps[th[t].sn] /\ dirs'[th[t].sn] = dirs[th[t].sn]
      <4>1. th[t].sn \in Snap
        BY <1>1, <3>1, <3>3, SnFacts
      <4> QED  BY <1>2, <3>3, <4>1, Zenon
    <3> QED  BY <2>1, <2>3, <3>2, <3>3, Zenon DEF Served
  <2> QED  BY <2>2, <2>3, Zenon
<1> QED  BY <1>8, <1>9, <1>10, Zenon DEF Inv

(* recursive_remove takes the earliest snapshot away, piece by piece.      *)
LEMMA RemoveSnapshotInv == ASSUME Inv, RemoveSnapshot PROVE Inv'
<1>1. /\ Types /\ Disk /\ sn.lat \in Nat /\ sn.earliest \in Nat /\ sn.earliest >= 1
      /\ sn.lat <= MaxSnap /\ MaxSnap \in Nat
  BY SnFacts DEF Inv, Types
<1>2. rm.sn # 0 => rm.sn \in Snap /\ look.pc = "idle" /\ rm.sn < sn.earliest
  <2>1. rm.sn \in 0 .. MaxSnap
    BY <1>1, Zenon DEF Types
  <2>2. rm.sn < sn.earliest /\ (look.pc # "idle" => rm.sn = 0)
    BY <1>1, Zenon DEF Inv, Looks, Disk
  <2> QED  BY <1>1, <2>1, <2>2 DEF Snap
<1>3. ASSUME RemoveBegin PROVE Inv'
  <2>1. /\ look.pc = "idle" /\ sn.any /\ sn.earliest <= sn.lat
        /\ rm' = [sn |-> sn.earliest, raced |-> \E t \in Thread : th[t].sn = sn.earliest]
        /\ sn' = [sn EXCEPT !.earliest = sn.earliest + 1]
        /\ taken' = [taken EXCEPT ![sn.earliest] = Nothing]
        /\ UNCHANGED <<main, dirs, maps, th, look>>
    BY <1>3 DEF RemoveBegin
  <2>2. sn.earliest \in Snap /\ sn.earliest + 1 \in 1 .. MaxSnap + 1 /\ sn.earliest \in 0 .. MaxSnap
    BY <1>1, <2>1 DEF Snap
  <2>3. /\ sn' \in [any : BOOLEAN, lat : 0 .. MaxSnap, earliest : 1 .. MaxSnap + 1]
        /\ sn'.any = sn.any /\ sn'.lat = sn.lat /\ sn'.earliest = sn.earliest + 1
    BY <1>1, <2>1, <2>2, Zenon DEF Types
  <2>4. rm' \in [sn : 0 .. MaxSnap, raced : BOOLEAN] /\ rm'.sn = sn.earliest
    BY <2>1, <2>2
  <2>5. Nothing \in [Path -> Node]
    BY Constants DEF Nothing
  <2>6. /\ taken' \in [Snap -> [Path -> Node]]
        /\ \A s \in Snap : s # sn.earliest => taken'[s] = taken[s]
    BY <1>1, <2>1, <2>2, <2>5 DEF Types
  <2>7. Types'
    BY <1>1, <2>1, <2>3, <2>4, <2>6 DEF Types
  <2>8. \A s \in Snap : s >= sn'.earliest => taken'[s] = taken[s]
    BY <1>1, <2>3, <2>6, SnFacts
  <2>9. /\ sn'.earliest \in Nat /\ sn.earliest <= sn'.earliest /\ sn'.earliest <= sn.lat + 1
        /\ sn.lat >= 1 /\ rm'.sn < sn'.earliest
    BY <1>1, <2>1, <2>3, <2>4
  <2> QED  BY <2>1, <2>3, <2>7, <2>8, <2>9, RemoveStep
<1>4. sn.earliest <= sn.lat + 1 /\ (sn.any => sn.lat >= 1) /\ (~sn.any => sn.earliest > sn.lat)
  BY <1>1, Zenon DEF Disk
<1>5. ASSUME NEW p \in Path, RemoveMap(p) PROVE Inv'
  <2>1. /\ rm.sn # 0 /\ maps' = [maps EXCEPT ![rm.sn][p] = NoMap]
        /\ UNCHANGED <<main, dirs, sn, th, rm, look, taken>>
    BY <1>5 DEF RemoveMap, history
  <2>2. PICK r : r = rm.sn
    OBVIOUS
  <2>3. /\ maps' \in [Snap -> [Path -> MapFile]]
        /\ \A s \in Snap : s # r => maps'[s] = maps[s]
    BY <1>1, <1>2, <2>1, <2>2, Constants, Zenon DEF Types
  <2>4. Types'
    BY <1>1, <2>1, <2>3, Zenon DEF Types
  <2>5. \A s \in Snap : s >= sn.earliest => s # r
    BY <1>1, <1>2, <2>1, <2>2, SnFacts
  <2> QED  BY <1>1, <1>2, <1>4, <2>1, <2>3, <2>4, <2>5, RemoveStep
<1>6. ASSUME NEW q \in DirPath \cup {Root}, RemoveDir(q) PROVE Inv'
  <2>1. /\ rm.sn # 0 /\ dirs' = [dirs EXCEPT ![rm.sn] = dirs[rm.sn] \ {q}]
        /\ UNCHANGED <<main, maps, sn, th, rm, look, taken>>
    BY <1>6, Zenon DEF RemoveDir, history
  <2>2. PICK r : r = rm.sn
    OBVIOUS
  <2>3. /\ dirs' \in [Snap -> SUBSET (DirPath \cup {Root})]
        /\ \A s \in Snap : s # r => dirs'[s] = dirs[s]
    BY <1>1, <1>2, <2>1, <2>2, Zenon DEF Types
  <2>4. Types'
    BY <1>1, <2>1, <2>3, Zenon DEF Types
  <2>5. \A s \in Snap : s >= sn.earliest => s # r
    BY <1>1, <1>2, <2>1, <2>2, SnFacts
  <2> QED  BY <1>1, <1>2, <1>4, <2>1, <2>3, <2>4, <2>5, RemoveStep
<1>7. NoRemoval \in [sn : 0 .. MaxSnap, raced : BOOLEAN] /\ NoRemoval.sn = 0
  BY <1>1 DEF NoRemoval
<1>8. ASSUME RemoveFails PROVE Inv'
  <2>1. rm.sn # 0 /\ rm' = NoRemoval /\ UNCHANGED <<main, dirs, maps, sn, th, look, taken>>
    BY <1>8 DEF RemoveFails, history
  <2>2. Types'
    BY <1>1, <1>7, <2>1, Zenon DEF Types
  <2>3. rm'.sn < sn.earliest
    BY <1>1, <1>7, <2>1
  <2> QED  BY <1>1, <1>2, <1>4, <2>1, <2>2, <2>3, RemoveStep
<1>9. ASSUME RemoveEnd PROVE Inv'
  <2>1. /\ rm.sn # 0 /\ rm' = NoRemoval /\ UNCHANGED <<main, dirs, maps, th, look, taken>>
        /\ sn' = [sn EXCEPT !.any = sn.earliest <= sn.lat]
    BY <1>9 DEF RemoveEnd, history
  <2>2. /\ sn' \in [any : BOOLEAN, lat : 0 .. MaxSnap, earliest : 1 .. MaxSnap + 1]
        /\ sn'.any = (sn.earliest <= sn.lat) /\ sn'.lat = sn.lat /\ sn'.earliest = sn.earliest
    <3>0. (sn.earliest <= sn.lat) \in BOOLEAN
      BY <1>1, SMT
    <3>1. PICK b \in BOOLEAN : b = (sn.earliest <= sn.lat)
      BY <3>0, Zenon
    <3>2. sn' = [sn EXCEPT !.any = b]
      BY <2>1, <3>1, Zenon
    <3> QED  BY <1>1, <3>1, <3>2, Zenon DEF Types
  <2>3. Types'
    BY <1>1, <1>7, <2>1, <2>2 DEF Types
  <2>4. /\ rm'.sn < sn'.earliest /\ (sn'.any => sn.lat >= 1) /\ (~sn'.any => sn'.earliest > sn.lat)
        /\ sn.earliest <= sn'.earliest
    BY <1>1, <1>7, <2>1, <2>2
  <2> QED  BY <1>1, <1>2, <1>4, <2>1, <2>2, <2>3, <2>4, RemoveStep
<1> QED  BY <1>3, <1>5, <1>6, <1>8, <1>9 DEF RemoveSnapshot

LOCAL INSTANCE WellFoundedInduction

-----------------------------------------------------------------------------
(* A set of snapshots has a first one.                                     *)
LEMMA Smallest ==
    ASSUME NEW K, K \subseteq Nat, K # {} PROVE \E k \in K : \A j \in K : k <= j
<1>1. PICK R : R = OpToRel(<, Nat)
  BY Zenon
<1>2. IsWellFoundedOn(R, Nat)
  BY <1>1, NatLessThanWellFounded, Zenon
<1>3. PICK k \in K : \A j \in K : ~ (<<j, k>> \in R)
  BY <1>2, WFMin, Zenon
<1>4. R = {p \in Nat \X Nat : p[1] < p[2]}
  BY <1>1, Zenon DEF OpToRel
<1>5. \A j \in K : ~(j < k)
  BY <1>3, <1>4, Zenon
<1> QED  BY <1>5

(* A file that a snapshot has not saved was the same when the next one was *)
(* taken, and so on.                                                       *)
LEMMA Chain ==
    ASSUME Inv, NEW p \in Plain, NEW s \in sn.earliest .. sn.lat, NEW k \in s .. sn.lat,
           \A j \in s .. k - 1 : maps[j][p].st # "saved"
    PROVE  taken[k][p] = taken[s][p]
<1>1. sn.lat \in Nat /\ sn.earliest \in Nat /\ sn.earliest >= 1 /\ s \in Nat /\ k \in Nat
  BY SnFacts
<1> DEFINE K == {j \in s .. k : taken[j][p] # taken[s][p]}
<1>2. SUFFICES ASSUME K # {} PROVE FALSE
  BY <1>1
<1>3. PICK n \in K : \A j \in K : n <= j
  <2>1. K \subseteq Nat
    BY <1>1
  <2> HIDE DEF K
  <2> QED  BY <1>2, <2>1, Smallest, Zenon
<1>4. n \in s .. k /\ taken[n][p] # taken[s][p] /\ n # s
  BY <1>3
<1>5. PICK m : m = n - 1
  OBVIOUS
<1>6. m \in s .. k /\ m \in s .. k - 1 /\ m + 1 = n /\ m < n /\ m # sn.lat /\ m <= sn.lat /\ m >= sn.earliest
  BY <1>1, <1>4, <1>5
<1>7. taken[m][p] = taken[s][p]
  <2>1. m \notin K
    <3>1. m \in K => n <= m
      BY <1>3, Zenon
    <3> HIDE DEF K
    <3> QED  BY <1>1, <1>4, <1>6, <3>1
  <2> QED  BY <1>6, <2>1
<1>8. m \in Snap
  BY <1>1, <1>6, SnFacts
<1>9. Linked(m, p) /\ maps[m][p].st # "saved"
  BY <1>6, <1>8, Zenon DEF Inv, Disk
<1>10. taken[n][p] = taken[m][p]
  BY <1>6, <1>9, Zenon DEF Linked, After
<1> QED  BY <1>4, <1>7, <1>10

(* What remains to be shown of a step of a request inside a snapshot.      *)
LEMMA LookOnly ==
    ASSUME Inv, UNCHANGED <<main, dirs, maps, sn, th, rm, taken>>,
           DOMAIN look' = LookField, look'.pc \in LookPc, Looks'
    PROVE  Inv'
<1>1. Types' /\ Disk' /\ Apart'
  BY DEF Inv, Types, Disk, Closed, Linked, After, Apart, Active
<1>2. \A t \in Thread : Served(t)'
  BY Zenon DEF Inv, Served
<1> QED  BY <1>1, <1>2, Zenon DEF Inv

(* The steps of a listing say nothing about getattr.                       *)
LEMMA Lists ==
    ASSUME Inv, look.pc \in {"opendir", "readdir", "entry"},
           UNCHANGED <<main, dirs, maps, sn, th, rm, taken>>,
           look'.pc \in {"opendir", "readdir", "entry", "done"},
           DOMAIN look' = LookField, look'.op = look.op, look'.sn = look.sn,
           look'.path = look.path, look'.calm = look.calm
    PROVE  Inv'
<1>1. Looks /\ ~(look.op = "getattr" /\ look.path \in Plain \cap look.calm)
  BY Zenon DEF Inv, Looks
<1>2. Looks'
  BY <1>1, Zenon DEF Looks, Active
<1> QED  BY <1>2, LookOnly, Zenon DEF LookPc

(* The fields of a look that a step sets, and those it keeps.              *)
LEMMA LookFields ==
    ASSUME DOMAIN look = LookField
    PROVE  /\ \A a, b : LET l == [look EXCEPT !.pc = a, !.k = b]
                        IN  /\ DOMAIN l = LookField /\ l.pc = a /\ l.k = b /\ l.op = look.op
                            /\ l.sn = look.sn /\ l.path = look.path /\ l.calm = look.calm
                            /\ l.ok = look.ok /\ l.res = look.res
           /\ \A a : LET l == [look EXCEPT !.pc = a]
                     IN  /\ DOMAIN l = LookField /\ l.pc = a /\ l.k = look.k /\ l.op = look.op
                         /\ l.sn = look.sn /\ l.path = look.path /\ l.calm = look.calm
                         /\ l.ok = look.ok /\ l.res = look.res
           /\ \A a, b : LET l == [look EXCEPT !.pc = a, !.res = b]
                        IN  /\ DOMAIN l = LookField /\ l.pc = a /\ l.res = b /\ l.op = look.op
                            /\ l.sn = look.sn /\ l.path = look.path /\ l.calm = look.calm
                            /\ l.ok = look.ok
           /\ \A a, b : LET l == [look EXCEPT !.pc = a, !.ok = b]
                        IN  /\ DOMAIN l = LookField /\ l.pc = a /\ l.op = look.op
                            /\ l.sn = look.sn /\ l.path = look.path /\ l.calm = look.calm
BY Zenon DEF LookField

(* A request inside a snapshot begins.                                     *)
LEMMA LookStartInv ==
    ASSUME Inv, NEW op \in {"getattr", "readdir"}, NEW s \in Snap, NEW p, LookStart(op, s, p),
           op = "getattr" => p \in Path
    PROVE  Inv'
<1>1. /\ rm.sn = 0 /\ s \in sn.earliest .. sn.lat
      /\ UNCHANGED <<main, dirs, maps, sn, th, rm, taken>>
  BY DEF LookStart, Look, history
<1>2. PICK l, c : /\ l = (IF op = "getattr" THEN "lstat" ELSE "opendir")
                  /\ c = Path \ {th[t].path : t \in Thread}
  BY Zenon
<1>3. look' = [NoLook EXCEPT !.pc = l, !.op = op, !.sn = s, !.path = p, !.k = s, !.calm = c]
  BY <1>2, Zenon DEF LookStart, Look
<1>4. /\ DOMAIN look' = LookField /\ look'.pc = l /\ look'.op = op /\ look'.sn = s
      /\ look'.path = p /\ look'.k = s /\ look'.calm = c /\ look'.ok = TRUE
  <2>1. DOMAIN NoLook = LookField /\ NoLook.ok = TRUE
    BY Zenon DEF NoLook, LookField
  <2> QED  BY <1>3, <2>1, Zenon DEF LookField
<1>5. s \in Nat /\ s # 0 /\ sn.lat \in Nat
  BY SnFacts
<1>6. Unsaved(p, s, s - 1)'
  BY <1>5 DEF Unsaved
<1>7. \A t \in Thread : th'[t].path \notin c
  BY <1>1, <1>2
<1>8. s \in s .. sn.lat /\ s \in 0 .. sn.lat
  BY <1>1, <1>5
<1>9. Looks'
  BY <1>1, <1>2, <1>4, <1>5, <1>6, <1>7, <1>8, Zenon DEF Looks
<1> QED  BY <1>1, <1>2, <1>4, <1>9, LookOnly, Zenon DEF LookPc

(* $getattr goes on or finds a directory; a file is never taken for one.   *)
LEMMA GetattrDirInv == ASSUME Inv, GetattrDir PROVE Inv'
<1>1. /\ look.pc = "lstat" /\ look.k # 0 /\ Looks /\ Types /\ DOMAIN look = LookField
      /\ UNCHANGED <<main, dirs, maps, sn, th, rm, taken>>
  BY DEF Inv, Types, GetattrDir, Found, Look, history
<1>2. \A q, i, j : Unsaved(q, i, j)' <=> Unsaved(q, i, j)
  BY <1>1 DEF Unsaved
<1>3. CASE look.path \in dirs[look.k]
  <2>1. PICK n : look' = [look EXCEPT !.pc = "done", !.res = n]
    BY <1>3, Zenon DEF GetattrDir, Found, Look
  <2>2. /\ DOMAIN look' = LookField /\ look'.pc = "done" /\ look'.op = look.op
        /\ look'.sn = look.sn /\ look'.path = look.path /\ look'.calm = look.calm
    BY <1>1, <2>1, LookFields
  <2>3. ~(look.path \in Plain \cap look.calm)
    <3>1. SUFFICES ASSUME look.path \in Plain \cap look.calm PROVE FALSE
      OBVIOUS
    <3>2. look.k \in Snap
      BY <1>1, <3>1, SnFacts DEF Looks
    <3>3. dirs[look.k] \subseteq DirPath \cup {Root} /\ look.path \in Path
      BY <1>1, <3>1, <3>2, SnFacts, Zenon DEF Types
    <3> QED  BY <1>3, <3>1, <3>3, PathFacts DEF Plain
  <2>4. Looks'
    BY <1>1, <2>2, <2>3, Zenon DEF Looks, Active
  <2> QED  BY <1>1, <2>2, <2>4, LookOnly, Zenon DEF LookPc
<1>4. CASE look.path \notin dirs[look.k]
  <2>1. look' = [look EXCEPT !.pc = "loadmap"]
    BY <1>4, Zenon DEF GetattrDir, Look
  <2>2. /\ DOMAIN look' = LookField /\ look'.pc = "loadmap" /\ look'.k = look.k /\ look'.op = look.op
        /\ look'.sn = look.sn /\ look'.path = look.path /\ look'.calm = look.calm
        /\ look'.ok = look.ok /\ look'.res = look.res
    BY <1>1, <2>1, LookFields
  <2>4. Looks'
    BY <1>1, <1>2, <2>2, Zenon DEF Looks, Active
  <2> QED  BY <1>1, <2>2, <2>4, LookOnly, Zenon DEF LookPc
<1> QED  BY <1>3, <1>4

(* $getattr takes the first map file it finds: the file has not changed    *)
(* between the snapshot asked for and that one.                            *)
LEMMA GetattrMapInv == ASSUME Inv, GetattrMap PROVE Inv'
<1>1. look.pc = "loadmap" /\ Looks /\ Types /\ Disk /\ DOMAIN look = LookField
  BY Zenon DEF Inv, Types, GetattrMap
<1>2. PICK p, s, k : p = look.path /\ s = look.sn /\ k = look.k
  OBVIOUS
<1>3. k \in Snap /\ k \in Nat /\ sn.lat \in Nat /\ k <= sn.lat /\ p \in Path /\ look.op = "getattr"
  BY <1>1, <1>2, SnFacts DEF Looks
<1>4. maps[k][p].st \in {"none", "empty", "saved"}
  BY <1>1, <1>3 DEF Types, MapFile
<1>5. ASSUME p \in Plain \cap look.calm
      PROVE  /\ s \in sn.earliest .. sn.lat /\ k \in s .. sn.lat /\ Unsaved(p, s, k - 1) /\ look.ok
             /\ maps[k][p].st # "empty"
  <2>1. s \in sn.earliest .. sn.lat /\ k \in s .. sn.lat /\ Unsaved(p, s, k - 1) /\ look.ok
    BY <1>1, <1>2, <1>3, <1>5, Zenon DEF Looks
  <2>2. k >= sn.earliest
    BY <1>3, <2>1, SnFacts
  <2>3. maps[k][p].st # "empty"
    <3>1. SUFFICES ASSUME maps[k][p].st = "empty" PROVE FALSE
      BY Zenon
    <3>2. PICK t \in Thread : th[t].pc = "header" /\ th[t].path = p /\ th[t].sn = k
      BY <1>1, <1>3, <2>2, <3>1, EmptyHeaders, Zenon
    <3>3. Active(t) /\ look.pc # "idle"
      BY <1>1, <3>2 DEF Active
    <3>4. th[t].path \notin look.calm
      BY <1>1, <3>3, Zenon DEF Looks
    <3> QED  BY <1>5, <3>2, <3>4, Zenon
  <2> QED  BY <2>1, <2>3, Zenon
<1>6. CASE maps[k][p].st = "none"
  <2>1. /\ look' = [look EXCEPT !.pc = "lstat", !.k = NextStep(look.k)]
        /\ UNCHANGED <<main, dirs, maps, sn, th, rm, taken>>
    BY <1>2, <1>6 DEF GetattrMap, Look, history
  <2>2. PICK n : n = NextStep(look.k)
    OBVIOUS
  <2>3. /\ DOMAIN look' = LookField /\ look'.pc = "lstat" /\ look'.k = n /\ look'.op = look.op
        /\ look'.sn = look.sn /\ look'.path = look.path /\ look'.calm = look.calm
        /\ look'.ok = look.ok
    BY <1>1, <2>1, <2>2, LookFields
  <2>4. (k < sn.lat /\ n = k + 1 /\ n # 0 /\ n - 1 = k) \/ (k = sn.lat /\ n = 0)
    BY <1>2, <1>3, <2>2 DEF NextStep
  <2>5. n \in 0 .. sn.lat
    BY <1>3, <2>4
  <2>6. ASSUME p \in Plain \cap look.calm
        PROVE  /\ n # 0 => n \in s .. sn.lat /\ Unsaved(p, s, n - 1)'
               /\ n = 0 => Unsaved(p, s, sn.lat)'
    <3>1. s \in Nat
      BY <1>5, <2>6, SnFacts
    <3>2. Unsaved(p, s, k)'
      BY <1>3, <1>5, <1>6, <2>1, <2>6, <3>1 DEF Unsaved
    <3>3. n # 0 => n \in s .. sn.lat
      BY <1>3, <1>5, <2>4, <2>6, <3>1
    <3>4. n # 0 => Unsaved(p, s, n - 1)'
      BY <2>4, <3>2 DEF Unsaved
    <3>5. n = 0 => Unsaved(p, s, sn.lat)'
      BY <2>1, <2>4, <3>2 DEF Unsaved
    <3> QED  BY <3>3, <3>4, <3>5
  <2>7. Looks'
    BY <1>1, <1>2, <1>3, <1>5, <2>1, <2>3, <2>5, <2>6 DEF Looks, Active
  <2> QED  BY <2>1, <2>3, <2>7, LookOnly DEF LookPc
<1>7. CASE maps[k][p].st = "empty"
  <2>1. /\ look' = [look EXCEPT !.pc = "done", !.ok = FALSE]
        /\ UNCHANGED <<main, dirs, maps, sn, th, rm, taken>>
    BY <1>2, <1>7 DEF GetattrMap, LookFails, Look, history
  <2>2. /\ DOMAIN look' = LookField /\ look'.pc = "done" /\ look'.op = look.op
        /\ look'.sn = look.sn /\ look'.path = look.path /\ look'.calm = look.calm
    BY <1>1, <2>1, LookFields
  <2>3. Looks'
    BY <1>1, <1>2, <1>5, <1>7, <2>1, <2>2 DEF Looks, Active
  <2> QED  BY <2>1, <2>2, <2>3, LookOnly DEF LookPc
<1>8. CASE maps[k][p].st = "saved"
  <2>1. /\ look' = [look EXCEPT !.pc = "done", !.res = maps[k][p].node]
        /\ UNCHANGED <<main, dirs, maps, sn, th, rm, taken>>
    BY <1>2, <1>8 DEF GetattrMap, Found, Look, history
  <2>2. /\ DOMAIN look' = LookField /\ look'.pc = "done" /\ look'.op = look.op
        /\ look'.sn = look.sn /\ look'.path = look.path /\ look'.calm = look.calm
        /\ look'.ok = look.ok /\ look'.res = maps[k][p].node
    BY <1>1, <2>1, LookFields
  <2>3. ASSUME p \in Plain \cap look.calm PROVE maps[k][p].node = taken[s][p]
    <3>1. p \in Plain /\ k >= sn.earliest
      BY <1>3, <1>5, <2>3, SnFacts
    <3>2. maps[k][p].node = taken[k][p]
      <4>1. Linked(k, p)
        BY <1>1, <1>3, <3>1, Zenon DEF Disk
      <4> QED  BY <1>8, <4>1, Zenon DEF Linked
    <3>3. \A j \in s .. k - 1 : maps[j][p].st # "saved"
      BY <1>5, <2>3 DEF Unsaved
    <3> QED  BY <1>5, <2>3, <3>1, <3>2, <3>3, Chain, Zenon
  <2>4. Looks'
    BY <1>1, <1>2, <1>5, <2>1, <2>2, <2>3 DEF Looks, Active
  <2> QED  BY <2>1, <2>2, <2>4, LookOnly DEF LookPc
<1> QED  BY <1>4, <1>6, <1>7, <1>8, Zenon

(* With no map file from the snapshot on, the main space tells what the    *)
(* file was.                                                               *)
LEMMA GetattrMainInv == ASSUME Inv, GetattrMain PROVE Inv'
<1>1. /\ look.pc = "lstat" /\ look.k = 0 /\ Looks /\ Types /\ Disk /\ DOMAIN look = LookField
      /\ look' = [look EXCEPT !.pc = "done", !.res = main[look.path]]
      /\ UNCHANGED <<main, dirs, maps, sn, th, rm, taken>>
  BY DEF Inv, Types, GetattrMain, Found, Look, history
<1>2. /\ DOMAIN look' = LookField /\ look'.pc = "done" /\ look'.op = look.op
      /\ look'.sn = look.sn /\ look'.path = look.path /\ look'.calm = look.calm
      /\ look'.ok = look.ok /\ look'.res = main[look.path]
  BY <1>1, LookFields
<1>3. PICK p, s : p = look.path /\ s = look.sn
  OBVIOUS
<1>4. ASSUME p \in Plain \cap look.calm PROVE look.ok /\ main[p] = taken[s][p]
  <2>1. s \in sn.earliest .. sn.lat /\ Unsaved(p, s, sn.lat) /\ look.ok /\ p \in Plain
    BY <1>1, <1>3, <1>4 DEF Looks
  <2>2. sn.lat \in Nat /\ s \in Nat /\ s >= 1 /\ sn.lat \in Snap /\ sn.lat \in s .. sn.lat /\ sn.lat >= sn.earliest
    BY <2>1, SnFacts
  <2>3. \A j \in s .. sn.lat : maps[j][p].st # "saved"
    BY <2>1, Zenon DEF Unsaved
  <2>4. \A j \in s .. sn.lat - 1 : maps[j][p].st # "saved"
    BY <2>2, <2>3
  <2>5. Linked(sn.lat, p)
    BY <1>1, <2>1, <2>2 DEF Disk
  <2>6. main[p] = taken[sn.lat][p]
    BY <2>2, <2>3, <2>5, Zenon DEF Linked, After
  <2> QED  BY <2>1, <2>2, <2>4, <2>6, Chain, Zenon
<1>5. Looks'
  BY <1>1, <1>2, <1>3, <1>4 DEF Looks, Active
<1> QED  BY <1>1, <1>2, <1>5, LookOnly DEF LookPc

(* Opening and reading a directory.                                        *)
LEMMA ListsInv ==
    ASSUME Inv, \/ Opendir \/ OpendirMain \/ ReaddirStep \/ ReaddirNext
                \/ \E x \in Path : ReaddirMap(x) \/ ReaddirName(x)
    PROVE  Inv'
<1>1. /\ look.pc \in {"opendir", "readdir", "entry"} /\ DOMAIN look = LookField
      /\ UNCHANGED <<main, dirs, maps, sn, th, rm, taken>>
  BY Zenon DEF Inv, Types, Opendir, OpendirMain, ReaddirStep, ReaddirNext, ReaddirMap, ReaddirName,
         LookFails, Look, history
<1>2. \/ \E a, b : look' = [look EXCEPT !.k = a, !.open = b]
      \/ \E a, b : look' = [look EXCEPT !.pc = "readdir", !.k = a, !.open = b]
      \/ \E a : look' = [look EXCEPT !.pc = "entry", !.todo = a]
      \/ \E a : look' = [look EXCEPT !.pc = "readdir", !.k = a]
      \/ look' = [look EXCEPT !.pc = "done"]
      \/ look' = [look EXCEPT !.pc = "done", !.ok = FALSE]
      \/ \E a : look' = [look EXCEPT !.todo = a]
      \/ \E a, b, c : look' = [[look EXCEPT !.todo = a] EXCEPT !.seen = b, !.shown = c]
  <2>1. CASE Opendir
    BY <2>1, Zenon DEF Opendir, Look
  <2>2. CASE OpendirMain
    BY <2>2, Zenon DEF OpendirMain, LookFails, Look
  <2>3. CASE ReaddirStep
    BY <2>3, Zenon DEF ReaddirStep, Look
  <2>4. CASE ReaddirNext
    BY <2>4, Zenon DEF ReaddirNext, Look
  <2>5. ASSUME NEW x \in Path, ReaddirMap(x)
        PROVE  \/ look' = [look EXCEPT !.pc = "done", !.ok = FALSE]
               \/ \E a : look' = [look EXCEPT !.todo = a]
               \/ \E a, b, c : look' = [[look EXCEPT !.todo = a] EXCEPT !.seen = b, !.shown = c]
    <3>1. CASE x \in look.seen
      BY <2>5, <3>1, Zenon DEF ReaddirMap, Look
    <3>2. CASE x \notin look.seen
      <4>1. \/ LookFails
            \/ \E a, b, c : Look([[look EXCEPT !.todo = a] EXCEPT !.seen = b, !.shown = c])
        BY <2>5, <3>2, Zenon DEF ReaddirMap
      <4> QED  BY <4>1, Zenon DEF LookFails, Look
    <3> QED  BY <3>1, <3>2, Zenon
  <2>6. ASSUME NEW x \in Path, ReaddirName(x)
        PROVE  \/ look' = [look EXCEPT !.pc = "done", !.ok = FALSE]
               \/ \E a : look' = [look EXCEPT !.todo = a]
               \/ \E a, b, c : look' = [[look EXCEPT !.todo = a] EXCEPT !.seen = b, !.shown = c]
    <3>1. CASE x \in look.seen
      BY <2>6, <3>1, Zenon DEF ReaddirName, Look
    <3>2. CASE x \notin look.seen
      <4>1. \/ LookFails
            \/ \E a, b, c : Look([[look EXCEPT !.todo = a] EXCEPT !.seen = b, !.shown = c])
        BY <2>6, <3>2, Zenon DEF ReaddirName
      <4> QED  BY <4>1, Zenon DEF LookFails, Look
    <3> QED  BY <3>1, <3>2, Zenon
  <2> QED  BY <2>1, <2>2, <2>3, <2>4, <2>5, <2>6, Zenon
<1>3. /\ DOMAIN look' = LookField /\ look'.pc \in {look.pc, "readdir", "entry", "done"}
      /\ look'.op = look.op /\ look'.sn = look.sn /\ look'.path = look.path /\ look'.calm = look.calm
  <2>1. ASSUME NEW a, NEW b, look' = [look EXCEPT !.k = a, !.open = b] PROVE <1>3
    BY <1>1, <2>1, Zenon DEF LookField
  <2>2. ASSUME NEW a, NEW b, look' = [look EXCEPT !.pc = "readdir", !.k = a, !.open = b] PROVE <1>3
    BY <1>1, <2>2, Zenon DEF LookField
  <2>3. ASSUME NEW a, look' = [look EXCEPT !.pc = "entry", !.todo = a] PROVE <1>3
    BY <1>1, <2>3, Zenon DEF LookField
  <2>4. ASSUME NEW a, look' = [look EXCEPT !.pc = "readdir", !.k = a] PROVE <1>3
    BY <1>1, <2>4, Zenon DEF LookField
  <2>5. CASE look' = [look EXCEPT !.pc = "done"]
    BY <1>1, <2>5, Zenon DEF LookField
  <2>6. CASE look' = [look EXCEPT !.pc = "done", !.ok = FALSE]
    BY <1>1, <2>6, Zenon DEF LookField
  <2>7. ASSUME NEW a, look' = [look EXCEPT !.todo = a] PROVE <1>3
    BY <1>1, <2>7, Zenon DEF LookField
  <2>8. ASSUME NEW a, NEW b, NEW c, look' = [[look EXCEPT !.todo = a] EXCEPT !.seen = b, !.shown = c]
        PROVE  <1>3
    <3>1. PICK l : l = [look EXCEPT !.todo = a]
      BY Zenon
    <3>2. /\ DOMAIN l = LookField /\ l.pc = look.pc /\ l.op = look.op /\ l.sn = look.sn
          /\ l.path = look.path /\ l.calm = look.calm
      BY <1>1, <3>1, Zenon DEF LookField
    <3>3. look' = [l EXCEPT !.seen = b, !.shown = c]
      BY <2>8, <3>1, Zenon
    <3> QED  BY <3>2, <3>3, Zenon DEF LookField
  <2> QED  BY <1>2, <2>1, <2>2, <2>3, <2>4, <2>5, <2>6, <2>7, <2>8, Zenon
<1> QED  BY <1>1, <1>3, Lists

(* Any step of a request inside a snapshot.                                *)
LEMMA LookAtInv == ASSUME Inv, LookAt PROVE Inv'
<1>1. ASSUME NEW s \in Snap, NEW p \in Path, LookStart("getattr", s, p) PROVE Inv'
  BY <1>1, LookStartInv
<1>2. ASSUME NEW s \in Snap, NEW p \in DirPath \cup {Root}, LookStart("readdir", s, p) PROVE Inv'
  BY <1>2, LookStartInv
<1>3. CASE LookEnd
  <2>1. look' = NoLook /\ UNCHANGED <<main, dirs, maps, sn, th, rm, taken>>
    BY <1>3 DEF LookEnd, Look, history
  <2>2. DOMAIN NoLook = LookField /\ NoLook.pc = "idle"
    BY Zenon DEF NoLook, LookField
  <2> QED  BY <2>1, <2>2, LookOnly, Zenon DEF LookPc, Looks
<1>4. CASE LookStep
  BY <1>3, <1>4, GetattrDirInv, GetattrMapInv, GetattrMainInv, ListsInv DEF LookStep
<1> QED  BY <1>1, <1>2, <1>4 DEF LookAt

(* In the beginning there are no snapshots and no requests.                *)
LEMMA InitInv == Init => Inv
<1> SUFFICES ASSUME Init PROVE Inv
  OBVIOUS
<1>1. MaxSnap \in Nat
  BY NameAssumption
<1>2. /\ sn.any = FALSE /\ sn.lat = 0 /\ sn.earliest = 1 /\ rm.sn = 0 /\ look.pc = "idle"
      /\ sn \in [any : BOOLEAN, lat : 0 .. MaxSnap, earliest : 1 .. MaxSnap + 1]
      /\ rm \in [sn : 0 .. MaxSnap, raced : BOOLEAN]
      /\ DOMAIN look = LookField
  <2>1. sn = [any |-> FALSE, lat |-> 0, earliest |-> 1] /\ rm = NoRemoval /\ look = NoLook
    BY Zenon DEF Init
  <2>2. /\ sn.any = FALSE /\ sn.lat = 0 /\ sn.earliest = 1
        /\ sn \in [any : BOOLEAN, lat : 0 .. MaxSnap, earliest : 1 .. MaxSnap + 1]
    BY <1>1, <2>1
  <2>3. rm.sn = 0 /\ rm \in [sn : 0 .. MaxSnap, raced : BOOLEAN]
    BY <1>1, <2>1 DEF NoRemoval
  <2>4. DOMAIN look = LookField /\ look.pc = "idle"
    BY <2>1, Zenon DEF NoLook, LookField
  <2> QED  BY <2>2, <2>3, <2>4, Zenon
<1>3. Nothing \in [Path -> Node]
  BY Constants DEF Nothing
<1>4. Types
  BY <1>2, <1>3, Constants, Zenon DEF Init, Types, LookPc
<1>5. \A s \in Snap : s \in Nat /\ s >= 1 /\ ~(s <= 0) /\ dirs[s] = {}
  BY <1>1 DEF Snap, Init
<1>6. \A s \in Snap, p \in Path : maps[s][p].st = "none"
  BY Constants, Zenon DEF Init
<1>7. Disk
  BY <1>2, <1>5, <1>6 DEF Init, Disk, Closed
<1>8. Apart /\ Looks /\ \A t \in Thread : Served(t)
  BY <1>2, Constants, Zenon DEF Init, Apart, Active, Looks, Served
<1> QED  BY <1>4, <1>7, <1>8 DEF Inv

(* No step breaks the invariant.                                           *)
LEMMA NextInv == Inv /\ [Next]_vars => Inv'
<1> SUFFICES ASSUME Inv, [Next]_vars PROVE Inv'
  OBVIOUS
<1>1. CASE UNCHANGED vars
  <2>1. UNCHANGED <<main, dirs, maps, sn, th, rm, look, taken>>
    BY <1>1, Zenon DEF vars
  <2>2. Types' /\ Apart' /\ \A t \in Thread : Served(t)'
    <3>1. Types'
      BY <2>1, Zenon DEF Inv, Types
    <3>2. Apart'
      BY <2>1, Zenon DEF Inv, Apart, Active
    <3>3. \A t \in Thread : Served(t)'
      BY <2>1, Zenon DEF Inv, Served
    <3> QED  BY <3>1, <3>2, <3>3, Zenon
  <2>3. Disk'
    <3>1. \A s \in Snap : Closed(s)' <=> Closed(s)
      BY <2>1, Zenon DEF Closed
    <3>2. \A s \in Snap, p \in Plain : Linked(s, p)' <=> Linked(s, p)
      BY <2>1, Zenon DEF Linked, After
    <3>3. Disk
      BY Zenon DEF Inv
    <3>4. \A s \in Snap, p \in Path :
             s >= sn'.earliest /\ maps'[s][p].st = "empty"
                => \E t \in Thread : th'[t].pc = "header" /\ th'[t].path = p /\ th'[t].sn = s
      BY <2>1, <3>3 DEF Disk
    <3>5. /\ \A s \in Snap : s >= sn'.earliest => Closed(s)'
          /\ \A s \in Snap, p \in Plain : s >= sn'.earliest /\ s <= sn'.lat => Linked(s, p)'
      BY <2>1, <3>1, <3>2, <3>3, Zenon DEF Disk
    <3>6. /\ sn'.earliest <= sn'.lat + 1 /\ (~sn'.any => sn'.earliest > sn'.lat)
          /\ (sn'.any => sn'.lat >= 1) /\ rm'.sn < sn'.earliest
          /\ \A p \in Path : main'[p].kind = "dir" => p \in DirPath
          /\ \A s \in Snap, p \in Path : s > sn'.lat => maps'[s][p].st = "none"
          /\ \A s \in Snap : s >= sn'.earliest /\ s <= sn'.lat => Root \in dirs'[s]
      BY <2>1, <3>3 DEF Disk
    <3> QED  BY <3>4, <3>5, <3>6, Zenon DEF Disk
  <2>4. Looks'
    BY <2>1, Zenon DEF Inv, Looks, Active, Unsaved
  <2> QED  BY <2>2, <2>3, <2>4, Zenon DEF Inv
<1>2. ASSUME NEW t \in Thread, Start(t) \/ Save(t) PROVE Inv'
  <2>1. CASE Start(t)
    BY <2>1, StartInv
  <2>2. CASE Save(t)
    BY <2>2, MkpathStatInv, MkpathMkdirInv, CreateMapInv, SaveHeaderInv, HeaderIsDirInv, ApplyInv
       DEF Save
  <2> QED  BY <1>2, <2>1, <2>2
<1> QED  BY <1>1, <1>2, TakeSnapshotInv, RemoveSnapshotInv, LookAtInv DEF Next

(* The inductive invariant of names and attributes.                        *)
THEOREM Invariance == Spec => []Inv
BY InitInv, NextInv, PTL DEF Spec

(* Types; and mkpath never makes a directory of a snapshot without the     *)
(* ones above it (mkpath in util.c), whatever other threads do.            *)
THEOREM Typed == Spec => []TypeOK
<1>1. Inv => TypeOK
  <2> SUFFICES ASSUME Inv PROVE TypeOK
    OBVIOUS
  <2>1. Types /\ Disk
    BY DEF Inv
  <2>2. ASSUME NEW t \in Thread
        PROVE  /\ th[t].pc \in Pc
               /\ th[t].pc \in {"stat", "mkdir", "map", "header"} => th[t].sn \in Snap
    <3>1. th[t] \in Req /\ Served(t)
      BY <2>1, Zenon DEF Inv, Types
    <3>2. th[t].pc \in Pc
      BY <3>1, Zenon DEF Req
    <3> QED  BY <3>1, <3>2, Constants, Zenon DEF Served
  <2> QED  BY <2>1, <2>2, Zenon DEF Types, Disk, Closed, TypeOK, Pc, MapFile, LookPc
<1> QED  BY <1>1, Invariance, PTL

(* Each snapshot tells which files it had and their attributes, whatever   *)
(* the threads and recursive_remove do meanwhile (mfd_open_sn and          *)
(* _mfd_open_sn save the header before the main space changes).            *)
THEOREM AttributesAlways == Spec => []AttributesIntact
<1>1. ASSUME Inv, NEW s \in sn.earliest .. sn.lat, NEW p \in Plain PROVE Recorded(s, p) = taken[s][p]
  <2>1. sn.lat \in Nat /\ sn.earliest \in Nat /\ sn.earliest >= 1 /\ s \in Nat /\ Disk
    BY <1>1, SnFacts DEF Inv
  <2> DEFINE ks == {k \in s .. sn.lat : maps[k][p].st = "saved"}
  <2>2. Recorded(s, p) = IF ks = {} THEN main[p]
                         ELSE maps[CHOOSE k \in ks : \A j \in ks : k <= j][p].node
    BY Zenon DEF Recorded
  <2>3. CASE ks = {}
    <3>1. \A j \in s .. sn.lat : maps[j][p].st # "saved"
      BY <2>3
    <3>2. sn.lat \in s .. sn.lat /\ sn.lat \in Snap /\ sn.lat >= sn.earliest
      BY <1>1, <2>1, SnFacts
    <3>3. \A j \in s .. sn.lat - 1 : maps[j][p].st # "saved"
      BY <2>1, <3>1
    <3>4. main[p] = taken[sn.lat][p]
      <4>1. sn.lat <= sn.lat
        BY <2>1
      <4>2. Linked(sn.lat, p)
        BY <1>1, <2>1, <3>2, <4>1, Zenon DEF Disk
      <4> QED  BY <3>1, <3>2, <4>2, Zenon DEF Linked, After
    <3> QED  BY <1>1, <2>2, <2>3, <3>2, <3>3, <3>4, Chain, Zenon
  <2>4. CASE ks # {}
    <3>1. ks \subseteq Nat
      BY <2>1
    <3>2. PICK k : k = CHOOSE i \in ks : \A j \in ks : i <= j
      OBVIOUS
    <3>3. k \in ks /\ \A j \in ks : k <= j
      <4> HIDE DEF ks
      <4>1. \E i \in ks : \A j \in ks : i <= j
        BY <2>4, <3>1, Smallest, Zenon
      <4> QED  BY <3>2, <4>1, Zenon
    <3>4. k \in s .. sn.lat /\ maps[k][p].st = "saved" /\ k \in Nat
      BY <3>1, <3>3
    <3>5. 1 <= k /\ k >= sn.earliest /\ k <= sn.lat
      BY <2>1, <3>4
    <3>6. maps[k][p].node = taken[k][p]
      <4>1. k \in Snap
        BY <1>1, <3>4, <3>5, SnFacts, Zenon
      <4>2. Linked(k, p)
        BY <2>1, <3>5, <4>1, Zenon DEF Disk
      <4> QED  BY <3>4, <4>2, Zenon DEF Linked
    <3>7. \A j \in s .. k - 1 : maps[j][p].st # "saved"
      <4>1. \A j \in s .. k - 1 : j \in s .. sn.lat /\ ~(k <= j)
        BY <2>1, <3>4
      <4> QED  BY <3>3, <4>1
    <3>8. Recorded(s, p) = maps[k][p].node
      <4> HIDE DEF ks
      <4> QED  BY <2>2, <2>4, <3>2, Zenon
    <3> QED  BY <1>1, <3>4, <3>6, <3>7, <3>8, Chain, Zenon
  <2> QED  BY <2>3, <2>4
<1>2. Inv => AttributesIntact
  BY <1>1 DEF AttributesIntact, Plain
<1> QED  BY <1>2, Invariance, PTL

(* $getattr and $access of a file in a snapshot give what it was when the  *)
(* snapshot was taken, though other threads save other paths between their *)
(* steps (mfd_get_sn_steps).                                               *)
THEOREM GetattrAlwaysRight == Spec => []GetattrRight
<1>1. Inv => GetattrRight
  BY Zenon DEF Inv, Looks, GetattrRight, Plain
<1> QED  BY <1>1, Invariance, PTL

(* "mkpath is resilient to parallel runs" (mfd.c:255): no step of a thread *)
(* on its way to the map file fails, unless its snapshot is removed.       *)
THEOREM MkpathAlwaysResilient == Spec => MkpathResilient
<1>1. ASSUME Inv, [Next]_vars, NEW t \in Thread, th[t].pc \in MkpathPc, th'[t].pc = "idle",
             th[t].sn >= sn.earliest
      PROVE  FALSE
  <2>1. Serving(t) /\ Types /\ th \in [Thread -> Req] /\ th[t] \in Req
    BY <1>1, ServingFacts, Zenon DEF MkpathPc, Inv, Types
  <2>2. th'[t] # th[t]
    BY <1>1 DEF MkpathPc
  <2>3. PICK u \in Thread : Start(u) \/ Save(u)
    <3>1. ~(UNCHANGED th)
      BY <2>2
    <3>2. ~TakeSnapshot /\ ~RemoveSnapshot
      BY <3>1, Zenon DEF TakeSnapshot, RemoveSnapshot, RemoveBegin, RemoveFails, RemoveEnd, RemoveMap,
         RemoveDir
    <3>3. \A l : ~Look(l)
      BY <3>1 DEF Look
    <3>4. ~LookAt
      <4>1. \A op, s, p : ~LookStart(op, s, p)
        BY <3>3, Zenon DEF LookStart
      <4>2. ~GetattrDir /\ ~GetattrMain /\ ~LookEnd
        BY <3>3, Zenon DEF GetattrDir, GetattrMain, Found, LookEnd
      <4>3. ~GetattrMap
        <5>1. SUFFICES ASSUME GetattrMap PROVE FALSE
          OBVIOUS
        <5>2. look.k \in Snap /\ look.path \in Path /\ maps \in [Snap -> [Path -> MapFile]]
          <6>1. look.pc = "loadmap" /\ Looks /\ Types
            BY <1>1, <5>1, Zenon DEF GetattrMap, Inv
          <6>2. look.path \in Path /\ look.k \in 0 .. sn.lat /\ look.k # 0
            BY <6>1 DEF Looks
          <6>3. sn.lat \in Nat /\ \A j \in Nat : 1 <= j /\ j <= sn.lat => j \in Snap
            BY <1>1, SnFacts, Zenon
          <6>4. look.k \in Nat /\ 1 <= look.k /\ look.k <= sn.lat
            BY <6>2, <6>3
          <6> QED  BY <6>1, <6>2, <6>3, <6>4, Zenon DEF Types
        <5>3. maps[look.k][look.path].st \in {"none", "empty", "saved"}
          BY <5>2 DEF MapFile
        <5> QED  BY <3>1, <5>1, <5>3, Zenon DEF GetattrMap, Found, LookFails, Look
      <4>4. ~Opendir /\ ~OpendirMain /\ ~ReaddirStep /\ ~ReaddirNext
        BY <3>3, Zenon DEF Opendir, OpendirMain, ReaddirStep, ReaddirNext, LookFails
      <4>5. \A x : ~ReaddirMap(x) /\ ~ReaddirName(x)
        BY <3>3, Zenon DEF ReaddirMap, ReaddirName, LookFails
      <4> QED  BY <4>1, <4>2, <4>3, <4>4, <4>5, Zenon DEF LookAt, LookStep
    <3>5. Next
      BY <1>1, <3>1 DEF vars
    <3> QED  BY <3>2, <3>4, <3>5 DEF Next
  <2>4. ~Start(u)
    <3>1. ASSUME NEW op, NEW p, NEW a, Begin(u, op, p, a) PROVE FALSE
      <4>1. u # t
        BY <1>1, <3>1 DEF Begin, Active, MkpathPc
      <4>2. th'[t] = th[t]
        BY <2>1, <3>1, <4>1 DEF Begin
      <4> QED  BY <2>2, <4>2, Zenon
    <3> QED  BY <3>1, Zenon DEF Start, StartMkdir, StartCreate, StartUnlink, StartRmdir, StartChmod
  <2>5. u = t
    <3>1. SUFFICES ASSUME u # t PROVE th'[t] = th[t]
      BY <2>2
    <3>2. Save(u)
      BY <2>3, <2>4
    <3> QED  BY <2>1, <3>1, <3>2, Zenon DEF Save, MkpathStat, MkpathMkdir, CreateMap, SaveHeader,
                HeaderIsDir, Apply, Goto, Go, Return
  <2>6. PICK p, s, k : p = th[t].path /\ s = th[t].sn /\ k = th[t].k
    OBVIOUS
  <2>7. /\ p \in Path /\ s \in Snap /\ Served(t) /\ th[t] # NoReq
        /\ k \in Int
    BY <1>1, <2>1, <2>6, Zenon DEF Serving, Served, MkpathPc, Req
  <2>8. \A l \in Pc \ {"idle"} : ~Goto(t, l) /\ \A j \in Int : ~Go(t, l, j)
    BY <1>1, <2>1, GoFacts, Zenon DEF Went
  <2>9. CASE th[t].pc = "stat"
    <3>1. MkpathStat(t)
      BY <2>3, <2>4, <2>5, <2>9 DEF Save, MkpathMkdir, CreateMap, SaveHeader, HeaderIsDir, Apply
    <3>2. /\ "map" \in Pc \ {"idle"} /\ "mkdir" \in Pc \ {"idle"} /\ "stat" \in Pc \ {"idle"}
          /\ k + 1 \in Int /\ k - 1 \in Int
      BY <2>7 DEF Pc
    <3> QED  BY <2>6, <2>8, <3>1, <3>2, Zenon DEF MkpathStat
  <2>10. CASE th[t].pc = "mkdir"
    <3>1. MkpathMkdir(t)
      BY <2>3, <2>4, <2>5, <2>10 DEF Save, MkpathStat, CreateMap, SaveHeader, HeaderIsDir, Apply
    <3>2. k \in 0 .. Len(p) - 1 /\ (k = 0 \/ Prefix(p, k - 1) \in dirs[s])
      BY <1>1, <2>6, <2>7, <2>10, Zenon DEF Served
    <3>3. Prefix(p, k) = Root \/ Parent(Prefix(p, k)) \in dirs[s]
      BY <2>7, <3>2, PathFacts
    <3>4. Goto(t, "map") \/ Go(t, "mkdir", k + 1)
      BY <2>6, <3>1, <3>3, Zenon DEF MkpathMkdir
    <3> QED  BY <2>6, <2>7, <2>8, <3>2, <3>4 DEF Pc
  <2>11. CASE th[t].pc = "map"
    <3>1. CreateMap(t)
      BY <2>3, <2>4, <2>5, <2>11 DEF Save, MkpathStat, MkpathMkdir, SaveHeader, HeaderIsDir, Apply
    <3>2. Parent(p) \in dirs[s]
      BY <1>1, <2>6, <2>7, <2>11, Zenon DEF Served
    <3> QED  BY <2>6, <2>8, <3>1, <3>2, Zenon DEF CreateMap, Pc
  <2> QED  BY <1>1, <2>9, <2>10, <2>11 DEF MkpathPc
<1>2. ASSUME Inv, [Next]_vars, NEW t \in Thread, th[t].pc \in MkpathPc, th'[t].pc = "idle"
      PROVE  th[t].sn < sn.earliest
  <2>1. th[t].sn \in Nat /\ sn.earliest \in Nat
    <3>1. Served(t) /\ th[t] # NoReq
      BY <1>2, Constants, Zenon DEF Inv, MkpathPc
    <3>2. th[t].sn \in {0, sn.lat}
      BY <3>1, Zenon DEF Served
    <3> QED  BY <1>2, <3>2, SnFacts
  <2> QED  BY <1>1, <1>2, <2>1
<1>3. Inv /\ [Next]_vars => [\A t \in Thread : th[t].pc \in MkpathPc /\ th'[t].pc = "idle"
         => th[t].sn < sn.earliest]_vars
  BY <1>2, Zenon
<1>4. Inv /\ [Next]_vars => [\A t \in Thread : th[t].pc \in {"stat", "mkdir", "map"} /\ th'[t].pc = "idle"
         => th[t].sn < sn.earliest]_vars
  BY <1>3 DEF MkpathPc
<1> QED  BY <1>4, Invariance, PTL DEF Spec, MkpathResilient
=============================================================================

------------------------------- MODULE Paths --------------------------------
(***************************************************************************)
(* What a request does with the path it gets: whether the path is inside   *)
(* /snapshots ($$_IS_PATH_IN_SN), what decompose_sn_path makes of it there, *)
(* which requests are let through ($$IF_PATH_MAIN_ONLY, $$IF_PATH_SN), and *)
(* how long the paths are that map_path, get_map_prefix_path and the       *)
(* others put into buffers of $$PATH_MAX bytes.                            *)
(*                                                                         *)
(* A path is a sequence of characters, of which there are "/", a letter,   *)
(* and "S", which stands for the nine letters of "snapshots".              *)
(***************************************************************************)
EXTENDS Integers, Sequences

CONSTANTS PathMax,   \* size of the buffers for paths
          EXT_LEN,   \* length of the extensions of map, dat and hid files
          MaxLen     \* bound on the length of the paths that requests bring

ASSUME PathAssumption == /\ PathMax \in Nat /\ EXT_LEN \in Nat /\ MaxLen \in Nat
                         /\ EXT_LEN < PathMax

VARIABLES req,       \* the request: op, path, the length of the root's path, sn_is_any
          ans        \* what becomes of it

pathVars == <<req, ans>>

SNDIR == <<"/", "S">>
SNDIR_LEN == Len(SNDIR)

(* libfuse puts paths together from names, with one slash before each; the *)
(* code also expects one after the last.                                   *)
Path == {p \in UNION {[1 .. n -> {"/", "S", "a"}] : n \in 1 .. MaxLen} :
           p[1] = "/" /\ \A i \in 2 .. Len(p) : p[i - 1] # "/" \/ p[i] # "/"}

MainOnlyOp == {"create", "unlink", "truncate", "chmod", "chown", "utimens", "statfs"}
UnsupportedOp == {"rename", "link", "symlink", "mknod", "readlink", "setxattr", "getxattr",
                  "listxattr", "removexattr"}
BothOp == {"getattr", "access", "open", "openw", "opendir", "mkdir", "rmdir"}
Op == MainOnlyOp \cup UnsupportedOp \cup BothOp

NoRequest == [op |-> "none", path |-> << >>, root |-> 0, any |-> FALSE]
NoAnswer == [to |-> "none", id |-> << >>, inpath |-> << >>]

PathInit == req = NoRequest /\ ans = NoAnswer

-----------------------------------------------------------------------------
(* strncmp(path, SNDIR, SNDIR_LEN) finds no difference.                    *)
Starts(p) == Len(p) >= SNDIR_LEN /\ \A i \in 1 .. SNDIR_LEN : p[i] = SNDIR[i]

\* Mutant: the character after "/snapshots" is not looked at.
InSnPrefix(p) == Starts(p)

InSn(p) == Starts(p) /\ (Len(p) = SNDIR_LEN \/ p[SNDIR_LEN + 1] = "/")

(* strchr from place i on; 0 if there is no slash.                         *)
NextSlash(p, i) ==
    LET at == {j \in i .. Len(p) : p[j] = "/"}
    IN  IF at = {} THEN 0 ELSE CHOOSE j \in at : \A k \in at : j <= k

There(where, id, inpath) == [to |-> where, id |-> id, inpath |-> inpath]

\* Mutant: a slash after the id begins a path inside the snapshot.
DecomposeNoTrail(p) ==
    LET slash == SNDIR_LEN + 1
        next == NextSlash(p, slash + 1)
    IN  IF Len(p) <= slash THEN There("root", << >>, << >>)
        ELSE IF next = 0 THEN There("id", SubSeq(p, slash, Len(p)), << >>)
        ELSE IF next = slash + 1 THEN There("root", << >>, << >>)
        ELSE There("full", SubSeq(p, slash, next - 1), SubSeq(p, next, Len(p)))

(* decompose_sn_path: "/snapshots" or "/snapshots/" is the root,           *)
(* "/snapshots/ID" or "/snapshots/ID/" a snapshot; the id keeps its slash. *)
Decompose(p) ==
    LET slash == SNDIR_LEN + 1
        next == NextSlash(p, slash + 1)
    IN  IF Len(p) <= slash THEN There("root", << >>, << >>)
        ELSE IF next = 0 THEN There("id", SubSeq(p, slash, Len(p)), << >>)
        ELSE IF next = slash + 1 THEN There("root", << >>, << >>)
        ELSE IF next = Len(p) THEN There("id", SubSeq(p, slash, Len(p) - 1), << >>)
        ELSE There("full", SubSeq(p, slash, next - 1), SubSeq(p, next, Len(p)))

-----------------------------------------------------------------------------
TooLong == -1

(* The length of the path that is put together from a prefix, a path and   *)
(* an extension, or -1 (-ENAMETOOLONG).  The room is computed as an int    *)
(* and compared as a size_t, so a negative one counts as boundless.        *)
Join(prefix, len, ext) ==
    LET room == PathMax - ext - prefix
    IN  IF room < 0 \/ len < room THEN prefix + len + ext ELSE TooLong

MapPath(root, len) == Join(root, len, 0)
GetHidPath(len) == Join(0, len, EXT_LEN)
GetDirHidPath(len) == Join(0, len, EXT_LEN + 1)
GetMapPath(len) == Join(0, len, EXT_LEN)           \* and get_dat_path
GetPrefixPath(len, prefix) == Join(prefix, len, 0)
GetMapPrefixPath(len, prefix) == Join(prefix, len, EXT_LEN)   \* and get_dat_prefix_path

(* The path of an entry of a directory, in readdir.                        *)
EntryPath(dir, len) == IF dir + 1 + len > PathMax THEN TooLong ELSE dir + 1 + len

(* The answer to a request, as far as its path decides it: for requests    *)
(* that the main space alone knows, for those inside /snapshots, and for   *)
(* those that know both.  sn_create looks at the length of its hid file's  *)
(* path only if there is a snapshot already.                               *)
To(where) == [NoAnswer EXCEPT !.to = where]
Fits(r) == MapPath(r.root, Len(r.path)) # TooLong

MainOnly(r) == To(IF InSn(r.path) THEN "EACCES" ELSE IF Fits(r) THEN "main" ELSE "ENAMETOOLONG")

\* Mutant: the path of a snapshot is taken as it comes.
NoRoomUnchecked(r) == FALSE

NoRoomForHid(r) == r.any /\ GetHidPath(MapPath(r.root, Len(r.path))) = TooLong

InSnapshots(r, d) ==
    CASE r.op \in {"getattr", "access", "opendir"} -> d
      [] r.op = "open" -> IF d.to = "full" THEN d ELSE To("EACCES")
      [] r.op = "openw" -> To("EACCES")
      [] r.op = "mkdir" -> To(IF d.to # "id" THEN "EFAULT"
                              ELSE IF NoRoomForHid(r) THEN "ENAMETOOLONG" ELSE "sn_create")
      [] r.op = "rmdir" -> To(IF d.to = "root" THEN "sn_destroy" ELSE "EFAULT")

BothSpaces(r) ==
    IF ~Fits(r) THEN To("ENAMETOOLONG")
    ELSE IF InSn(r.path) THEN InSnapshots(r, Decompose(r.path)) ELSE To("main")

Answer(r) == CASE r.op \in UnsupportedOp -> To("ENOTSUP")
               [] r.op \in MainOnlyOp -> MainOnly(r)
               [] r.op \in BothOp -> BothSpaces(r)

Receive ==
    /\ req = NoRequest
    /\ \E op \in Op, p \in Path, root \in 0 .. PathMax - 1 :
          \E any \in IF op = "mkdir" THEN BOOLEAN ELSE {FALSE} :
             req' = [op |-> op, path |-> p, root |-> root, any |-> any]
    /\ ans' = Answer(req')

Reply == req # NoRequest /\ req' = NoRequest /\ ans' = NoAnswer

PathNext == Receive \/ Reply

PathSpec == PathInit /\ [][PathNext]_pathVars

-----------------------------------------------------------------------------
(* Properties.                                                             *)

(* The names in a path, by plain definition.                               *)
NameAt(p, i) == p[i] # "/" /\ p[i - 1] = "/"
Names(p) == {i \in 2 .. Len(p) : NameAt(p, i)}
OneName(p) == \E i \in Names(p) : Names(p) = {i}
TwoNames(p) == \E i, j \in Names(p) : i # j /\ Names(p) = {i, j}
NameFrom(p, i) == LET e == NextSlash(p, i) IN SubSeq(p, i, IF e = 0 THEN Len(p) ELSE e - 1)
UnderSnapshots(p) == 2 \in Names(p) /\ NameFrom(p, 2) = <<"S">>

(* "We don't allow that in the snapshot dir, only in the main space"       *)
(* (util.c:144): a request is carried out in the main space only if the    *)
(* first name of its path is not "snapshots"; below that name only mkdir   *)
(* of a name right below and rmdir of the whole change anything.           *)
SnapshotsReadOnly ==
    req # NoRequest =>
      /\ ans.to = "main" => ~UnderSnapshots(req.path)
      /\ ans.to = "EACCES" => UnderSnapshots(req.path)
      /\ ans.to = "sn_create" => UnderSnapshots(req.path) /\ TwoNames(req.path)
      /\ ans.to = "sn_destroy" => UnderSnapshots(req.path) /\ OneName(req.path)

(* The parts that decompose_sn_path finds are those of the path: how many  *)
(* names there are decides what it is, the id is the second name, and the  *)
(* parts put together give the path again.                                 *)
DecomposeRight ==
    ans.to \in {"root", "id", "full"} =>
      LET p == req.path
          joined == SNDIR \o ans.id \o ans.inpath
      IN  /\ ans.to = (CASE OneName(p) -> "root" [] TwoNames(p) -> "id" [] OTHER -> "full")
          /\ ans.to # "root" => ans.id = <<"/">> \o NameFrom(p, SNDIR_LEN + 2)
          /\ p \in {joined, joined \o <<"/">>}

(* No path that is put together is longer than its buffer, and none is     *)
(* refused that would fit, with two exceptions.  The room for the path of  *)
(* a map or dat file in a snapshot is computed as an int and compared as a *)
(* size_t (util.c:226): it is negative, and the test lets everything pass, *)
(* for a first snapshot whose own path nearly fills the buffer; for every  *)
(* later one get_hid_path has refused such a path (snapshot.c:361).  And   *)
(* readdir lets an entry pass whose path is longer by the byte that ends   *)
(* the string (fuse_fd_read.c:168).                                        *)
PathsFit ==
    LET Right(n, need) == IF need < PathMax THEN n = need ELSE n = TooLong
        sn == MapPath(req.root, Len(req.path))
    IN  req.op \in {"mkdir", "getattr"} =>
          /\ Right(sn, req.root + Len(req.path))
          /\ sn # TooLong => Right(GetMapPath(sn), sn + EXT_LEN)
                             /\ Right(GetDirHidPath(sn), sn + EXT_LEN + 1)
          /\ ans.to = "sn_create" => \A len \in 1 .. PathMax :
                /\ Right(GetPrefixPath(len, sn), sn + len)
                /\ req.any \/ sn + EXT_LEN <= PathMax =>
                      Right(GetMapPrefixPath(len, sn), sn + len + EXT_LEN)
                /\ sn + 1 + len # PathMax => Right(EntryPath(sn, len), sn + 1 + len)
=============================================================================

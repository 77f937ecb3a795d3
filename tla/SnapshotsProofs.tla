-------------------------- MODULE SnapshotsProofs ---------------------------
(***************************************************************************)
(* Proofs about the chain of snapshots for any number of names, with       *)
(* system calls that fail and deaths of the process at any moment.  Until  *)
(* mkdir adopts a pointer file that a failed cleanup left behind, the      *)
(* pointer files form a chain of whole snapshots, and a walk along it      *)
(* finds what it looks for although snapshots are created meanwhile.       *)
(* Unless the process dies while snapshots/.hid is truncated, the pointer  *)
(* files implement the list of snapshots up to then.                       *)
(***************************************************************************)
EXTENDS Snapshots, FiniteSetTheorems, TLAPS

OpPc == {"idle", "hid", "writehid", "top", "writetop", "memory", "unhid", "rmdir",
         "untop", "unprev", "remove", "removeonly"}
Creating == op.pc \in {"hid", "writehid", "top", "writetop", "memory", "unhid", "rmdir"}

FaultType == [error : Nat, crash : Nat, left : SUBSET Id, adopted : BOOLEAN]

(* The type of each variable, the requests with all their fields.          *)
Types ==
    /\ dir \in [Id -> {"none", "whole", "part"}]
    /\ hid \in [Id \cup {Top} -> Id \cup {Absent, Empty}]
    /\ up \in BOOLEAN /\ any \in BOOLEAN
    /\ lat \in Id \cup {Absent} /\ number \in 0 .. MaxCreate
    /\ op \in [pc : OpPc, id : Id \cup {Absent}, prev : Id \cup {Top, Absent}]
    /\ walk \in [pc : {"idle", "walk", "found", "lost"}, id : Id \cup {Absent},
                 list : Seq(Id \cup {Absent, Garbage}), chain : Seq(Id)]
    /\ Len(walk.list) < MaxSnapshots
    /\ faults \in FaultType

(* c is the chain of distinct snapshots from x to the earliest one.        *)
Among(x, c) == \E i \in 1 .. Len(c) : c[i] = x
IsChain(h, c, x) ==
    /\ c \in Seq(Id) /\ Linked(h, c)
    /\ \A i, j \in 1 .. Len(c) : c[i] = c[j] => i = j
    /\ c = << >> => x \notin Id
    /\ c # << >> => c[1] = x /\ h[c[Len(c)]] = Absent
ChainOK ==
    /\ IsChain(hid, Chain, Latest)
    /\ \A i \in 1 .. Len(Chain) : dir[Chain[i]] # "none"

(* What is in memory, and what snapshots/.hid has to do with it.           *)
MemoryOK ==
    /\ ~up => ~any /\ op = NoOp /\ walk = NoWalk
    /\ any => lat \in Id
    /\ up /\ ~At("memory") => \/ hid[Top] \in {Empty, Latest}
                              \/ hid[Top] = Absent /\ Len(Chain) = 1

(* How far sn_create has come with the directory and the pointer file.     *)
CreatingOK ==
    Creating =>
        /\ op.id \in Id /\ dir[op.id] = "whole" /\ ~Among(op.id, Chain)
        /\ number < MaxCreate
        /\ op.pc \in {"hid", "rmdir"} => hid[op.id] = Absent \/ op.id \in faults.left
        /\ op.pc \in {"hid", "writehid"} => any
        /\ op.pc \in {"top", "writetop", "memory"} => hid[op.id] = IF any THEN lat ELSE Absent
        /\ At("memory") => hid[Top] = op.id

(* How far sn_destroy has come with the earliest snapshot.                 *)
DestroyingOK ==
    Destroying =>
        /\ any /\ walk.pc = "idle" /\ op.id \in Id
        /\ op.pc \in {"untop", "removeonly"} => Chain = <<op.id>>
        /\ At("untop") => op.prev = Top
        /\ At("removeonly") => hid[Top] = Absent
        /\ At("unprev") => /\ Len(Chain) > 1 /\ op.id = Chain[Len(Chain)]
                           /\ op.prev = Chain[Len(Chain) - 1]
        /\ At("remove") => ~Among(op.id, Chain) /\ hid[op.id] = Absent

(* How far sn_get_paths_to has come along the chain it started from, which *)
(* still stands.                                                           *)
WalkingOK ==
    LET c == walk.chain
        l == walk.list
    IN  walk.pc # "idle" =>
            /\ walk.id \in Id /\ Len(l) >= 1
            /\ Linked(hid, c) /\ \A i \in 1 .. Len(c) : dir[c[i]] # "none"
            /\ c # << >> => hid[c[Len(c)]] = Absent
            /\ Creating /\ ~At("memory") => ~Among(op.id, c)
            /\ l[1] = Garbage => Len(l) = 1 /\ walk.pc # "found"
            /\ l[1] # Garbage /\ c # << >> =>
                  /\ Len(l) <= Len(c) /\ \A i \in 1 .. Len(l) : l[i] = c[i]
                  /\ walk.pc = "lost" => Len(l) + 1 >= MaxSnapshots \/ Len(l) = Len(c)
            /\ \A i \in 1 .. Len(l) - 1 : l[i] # walk.id
            /\ walk.pc = "lost" => l[Len(l)] # walk.id

Inv == /\ Types /\ ChainOK /\ MemoryOK /\ CreatingOK /\ DestroyingOK /\ WalkingOK
       /\ PointerNeedsDir /\ ChainWhole

(* What holds also after a pointer file that was left behind has come into *)
(* the chain, which may then even be a cycle.                              *)
MayKeepPointer ==
    op.pc \in {"hid", "rmdir"} \/ (~any /\ op.pc \in {"top", "writetop"})
Base == /\ Types /\ PointerNeedsDir /\ (any => lat \in Id) /\ (~up => op.pc = "idle")
        /\ Creating =>
              /\ op.id \in Id /\ dir[op.id] = "whole" /\ number < MaxCreate
              /\ op.pc \in {"hid", "writehid"} => any
              /\ MayKeepPointer => hid[op.id] = Absent \/ op.id \in faults.left
        /\ Destroying => op.id \in Id /\ hid[op.id] = Absent
        /\ faults.left # {} \/ faults.adopted => faults.error # 0

(* The inductive invariant: the chain is what it should be until sn_create *)
(* adopts such a file.                                                     *)
IndInv == Base /\ (~faults.adopted => Inv)
-----------------------------------------------------------------------------
(* What the constants are.                                                 *)
LEMMA Constants ==
    /\ Top \notin Id /\ Absent \notin Id /\ Empty \notin Id /\ Garbage \notin Id
    /\ Absent # Empty /\ Absent # Garbage
    /\ MaxSnapshots \in Nat /\ MaxSnapshots >= 2 /\ MaxCreate \in Nat
BY SnapshotAssumption

(* Each nonempty set of positions has a first one.                         *)
LEMMA HasLeast ==
    ASSUME NEW K, K \subseteq Nat, K # {} PROVE \E k \in K : \A j \in K : k <= j
<1>1. PICK R : R = OpToRel(<, Nat)
  BY Zenon
<1>2. IsWellFoundedOn(R, Nat)
  BY <1>1, NatLessThanWellFounded, Zenon
<1>3. PICK k \in K : \A j \in K : ~ (<<j, k>> \in R)
  BY <1>2, WFMin, Zenon
<1>4. R = {p \in Nat \X Nat : p[1] < p[2]}
  BY <1>1, Zenon DEF OpToRel
<1>5. \A j \in K : ~(j < k)
  BY <1>3, <1>4, Zenon
<1> QED  BY <1>5

(* A chain has no more snapshots than there are names for.                 *)
LEMMA ChainBound ==
    ASSUME NEW c \in Seq(Id), \A i, j \in 1 .. Len(c) : c[i] = c[j] => i = j
    PROVE  Len(c) \in 0 .. Cardinality(Id)
<1>1. Len(c) \in Nat /\ c \in [1 .. Len(c) -> Id]
  OBVIOUS
<1>2. IsFiniteSet(Id) /\ Cardinality(Id) \in Nat
  BY SnapshotAssumption, FS_CardinalityType, Zenon
<1>3. 1 \in Int /\ Len(c) \in Int
  BY <1>1
<1>4. IsFiniteSet(1 .. Len(c)) /\ Cardinality(1 .. Len(c)) = IF 1 > Len(c) THEN 0 ELSE Len(c) - 1 + 1
  BY <1>3, FS_Interval, Zenon
<1>5. Cardinality(1 .. Len(c)) = Len(c)
  BY <1>1, <1>4
<1>6. ~(Cardinality(Id) < Cardinality(1 .. Len(c)))
  <2>1. PICK S : S = 1 .. Len(c)
    BY Zenon
  <2>2. IsFiniteSet(S) /\ c \in [S -> Id] /\ \A i, j \in S : c[i] = c[j] => i = j
    BY <1>1, <1>4, <2>1, Zenon
  <2>3. SUFFICES ASSUME Cardinality(Id) < Cardinality(S) PROVE FALSE
    BY <2>1, Zenon
  <2>4. \E i, j \in S : i # j /\ c[i] = c[j]
    BY <1>2, <2>2, <2>3, FS_PigeonHole
  <2> QED  BY <2>2, <2>4, Zenon
<1> QED  BY <1>1, <1>2, <1>5, <1>6

(* Every walk from x along the pointers is a part of the chain from x.     *)
LEMMA WalkIsPrefix ==
    ASSUME NEW h, NEW c, NEW x, IsChain(h, c, x), NEW n \in Nat, NEW e \in [1 .. n -> Id],
           e # << >> => e[1] = x, Linked(h, e)
    PROVE  n <= Len(c) /\ \A i \in 1 .. n : e[i] = c[i]
<1>1. c \in Seq(Id) /\ Len(c) \in Nat /\ Len(e) = n
  BY DEF IsChain
<1> DEFINE B == {i \in 1 .. n : ~(i <= Len(c) /\ e[i] = c[i])}
<1>2. SUFFICES ASSUME B # {} PROVE FALSE
  <2>1. n \in B \/ n = 0 \/ n <= Len(c)
    BY <1>1
  <2> QED  BY <1>1, <1>2, <2>1
<1>3. PICK k \in B : \A j \in B : k <= j
  <2>1. B \subseteq Nat
    OBVIOUS
  <2> HIDE DEF B
  <2> QED  BY <1>2, <2>1, HasLeast, Zenon
<1>4. k \in 1 .. n /\ e[1] = x /\ e[1] \in Id /\ e[k] \in Id
  BY <1>3
<1>5. c # << >> /\ c[1] = x /\ 1 <= Len(c) /\ h[c[Len(c)]] \notin Id
  BY <1>1, <1>4, Constants DEF IsChain
<1>6. k # 1
  BY <1>3, <1>4, <1>5
<1>7. k - 1 \in 1 .. n /\ k - 1 \notin B /\ (k - 1) + 1 = k /\ k - 1 \in 1 .. Len(e) - 1
  BY <1>1, <1>3, <1>4, <1>6
<1>8. k - 1 <= Len(c) /\ e[k - 1] = c[k - 1] /\ h[e[k - 1]] = e[k]
  BY <1>7 DEF Linked
<1>9. k - 1 # Len(c)
  BY <1>4, <1>5, <1>8
<1>10. k - 1 \in 1 .. Len(c) - 1
  BY <1>1, <1>7, <1>8, <1>9
<1>11. h[c[k - 1]] = c[k]
  BY <1>7, <1>10 DEF IsChain, Linked
<1> QED  BY <1>1, <1>3, <1>8, <1>10, <1>11

(* Chains are unique: a sequence that follows the pointers from x to a     *)
(* snapshot without a pointer file is what sn_get_earliest walks along.    *)
LEMMA ChainIs ==
    ASSUME NEW h, NEW c, NEW x, IsChain(h, c, x)
    PROVE  ChainFrom(h, x) = c
<1> DEFINE Walks == {e \in UNION {[1 .. n -> Id] : n \in 0 .. Cardinality(Id)} :
                         (e # << >> => e[1] = x) /\ Linked(h, e)}
<1>1. c \in Seq(Id) /\ Len(c) \in Nat /\ c \in [1 .. Len(c) -> Id]
  BY DEF IsChain
<1>2. Len(c) \in 0 .. Cardinality(Id)
  BY ChainBound, Zenon DEF IsChain
<1>3. c \in Walks
  BY <1>1, <1>2, Zenon DEF IsChain
<1>4. ASSUME NEW e \in Walks
      PROVE  Len(e) <= Len(c) /\ e \in [1 .. Len(e) -> Id] /\ Len(e) \in Nat
             /\ \A i \in 1 .. Len(e) : e[i] = c[i]
  <2>1. PICK n \in 0 .. Cardinality(Id) : e \in [1 .. n -> Id]
    BY <1>4, Zenon
  <2>2. n \in Nat
    OBVIOUS
  <2>3. Len(e) = n
    BY <2>1, <2>2
  <2>4. (e # << >> => e[1] = x) /\ Linked(h, e)
    BY <1>4, Zenon
  <2>5. n <= Len(c) /\ \A i \in 1 .. n : e[i] = c[i]
    BY <2>1, <2>2, <2>4, WalkIsPrefix
  <2> QED  BY <2>1, <2>2, <2>3, <2>5, Zenon
<1>5. PICK w : w = ChainFrom(h, x)
  BY Zenon
<1>6. w \in Walks /\ \A e \in Walks : Len(e) <= Len(w)
  <2>1. \A e \in Walks : Len(e) <= Len(c)
    BY <1>4, Zenon
  <2> QED  BY <1>3, <1>5, <2>1, Zenon DEF ChainFrom
<1>7. Len(c) <= Len(w) /\ Len(w) <= Len(c) /\ w \in [1 .. Len(w) -> Id] /\ Len(w) \in Nat
      /\ \A i \in 1 .. Len(w) : w[i] = c[i]
  BY <1>3, <1>4, <1>6, Zenon
<1>8. Len(w) = Len(c)
  <2>1. PICK m, n : m = Len(w) /\ n = Len(c)
    BY Zenon
  <2>2. m \in Nat /\ n \in Nat /\ m <= n /\ n <= m
    BY <1>1, <1>7, <2>1, Zenon
  <2> QED  BY <2>1, <2>2
<1> QED  BY <1>1, <1>5, <1>7, <1>8

(* The same in the next state.                                             *)
LEMMA NextChain ==
    ASSUME NEW c, IsChain(hid', c, Latest')
    PROVE  Chain' = c
<1>1. PICK h, x : h = hid' /\ x = Latest'
  BY Zenon
<1>2. ChainFrom(h, x) = c
  BY <1>1, ChainIs, Zenon
<1> QED  BY <1>1, <1>2, Zenon DEF Chain

(* What the parts of the invariant say of the chain and of the request     *)
(* that creates or removes a snapshot.                                     *)
LEMMA Basics ==
    ASSUME Inv
    PROVE  /\ Chain \in Seq(Id) /\ Len(Chain) \in Nat
           /\ \A i \in 1 .. Len(Chain) : Chain[i] \in Id /\ dir[Chain[i]] # "none"
           /\ Chain = << >> <=> Latest \notin Id
           /\ Chain = << >> <=> Len(Chain) = 0
           /\ op.pc \in OpPc /\ op.id \in Id \cup {Absent}
           /\ walk.chain \in Seq(Id) /\ Len(walk.chain) \in Nat
           /\ Latest \in Id \cup {Absent, Empty}
<1>1. Types /\ ChainOK
  BY DEF Inv
<1>2. Chain \in Seq(Id) /\ (Chain = << >> => Latest \notin Id) /\ (Chain # << >> => Chain[1] = Latest)
      /\ \A i \in 1 .. Len(Chain) : dir[Chain[i]] # "none"
  BY <1>1, Zenon DEF ChainOK, IsChain
<1>3. Latest \in Id \cup {Absent, Empty}
  BY <1>1 DEF Types, Latest
<1>4. op.pc \in OpPc /\ op.id \in Id \cup {Absent} /\ walk.chain \in Seq(Id)
  BY <1>1 DEF Types
<1> QED  BY <1>2, <1>3, <1>4

(* Steps after which the chain is what it was.                             *)
LEMMA SameChain ==
    ASSUME Inv, Latest' = Latest, \A i \in 1 .. Len(Chain) : hid'[Chain[i]] = hid[Chain[i]]
    PROVE  Chain' = Chain /\ IsChain(hid', Chain, Latest')
<1>1. IsChain(hid, Chain, Latest) /\ Len(Chain) \in Nat
  BY Basics, Zenon DEF Inv, ChainOK
<1>2. \A i \in 1 .. Len(Chain) - 1 : i \in 1 .. Len(Chain)
  BY <1>1
<1>3. Chain # << >> => Len(Chain) \in 1 .. Len(Chain)
  BY <1>1, Basics
<1>4. IsChain(hid', Chain, Latest')
  <2>1. Linked(hid', Chain)
    BY <1>1, <1>2, Zenon DEF IsChain, Linked
  <2> QED  BY <1>1, <1>3, <2>1, Zenon DEF IsChain
<1>5. PICK c : c = Chain
  BY Zenon
<1> QED  BY <1>4, <1>5, NextChain, Zenon

(* A snapshot whose pointer file says what was the latest one becomes the  *)
(* first of the chain.                                                     *)
LEMMA LongerChain ==
    ASSUME Inv, up, NEW y \in Id, ~Among(y, Chain), hid[y] = IF any THEN lat ELSE Absent
    PROVE  IsChain(hid, <<y>> \o Chain, y)
<1>1. IsChain(hid, Chain, Latest) /\ Chain \in Seq(Id) /\ Len(Chain) \in Nat
  BY Basics, Zenon DEF Inv, ChainOK
<1>2. Latest = hid[y] /\ (Chain = << >> => hid[y] = Absent)
  BY Basics, Constants DEF Latest, Inv, MemoryOK
<1>3. PICK c : c = <<y>> \o Chain
  BY Zenon
<1>4. /\ c \in Seq(Id) /\ Len(c) = Len(Chain) + 1 /\ c[1] = y /\ c # << >>
      /\ \A i \in 1 .. Len(Chain) : c[i + 1] = Chain[i]
      /\ \A i \in 2 .. Len(c) : c[i] = Chain[i - 1] /\ i - 1 \in 1 .. Len(Chain)
  BY <1>1, <1>3
<1>5. Linked(hid, c)
  <2>1. SUFFICES ASSUME NEW i \in 1 .. Len(c) - 1 PROVE hid[c[i]] = c[i + 1]
    BY Zenon DEF Linked
  <2>2. CASE i = 1
    <3>1. Chain # << >> /\ c[2] = Chain[1]
      BY <1>1, <1>4, <2>1, <2>2
    <3>2. Chain[1] = Latest
      BY <1>1, <3>1, Zenon DEF IsChain
    <3> QED  BY <1>2, <1>4, <2>2, <3>1, <3>2
  <2>3. CASE i # 1
    <3>1. /\ i - 1 \in 1 .. Len(Chain) - 1 /\ c[i] = Chain[i - 1] /\ (i - 1) + 1 = i
          /\ c[i + 1] = Chain[i]
      BY <1>1, <1>4, <2>1, <2>3
    <3>2. hid[Chain[i - 1]] = Chain[(i - 1) + 1]
      BY <1>1, <3>1, Zenon DEF IsChain, Linked
    <3> QED  BY <3>1, <3>2
  <2> QED  BY <2>2, <2>3
<1>6. ASSUME NEW i \in 1 .. Len(c), NEW j \in 1 .. Len(c), c[i] = c[j] PROVE i = j
  <2>1. \A k \in 1 .. Len(Chain) : Chain[k] # y
    BY Zenon DEF Among
  <2>2. CASE i = 1
    <3>1. ~(j \in 2 .. Len(c))
      BY <1>4, <1>6, <2>1, <2>2, Zenon
    <3> QED  BY <1>1, <1>4, <2>2, <3>1
  <2>3. CASE j = 1
    <3>1. ~(i \in 2 .. Len(c))
      BY <1>4, <1>6, <2>1, <2>3, Zenon
    <3> QED  BY <1>1, <1>4, <2>3, <3>1
  <2>4. CASE i # 1 /\ j # 1
    <3>1. i \in 2 .. Len(c) /\ j \in 2 .. Len(c)
      BY <1>1, <1>4, <2>4
    <3>2. Chain[i - 1] = Chain[j - 1] /\ i - 1 \in 1 .. Len(Chain) /\ j - 1 \in 1 .. Len(Chain)
      BY <1>4, <1>6, <3>1, Zenon
    <3>3. i - 1 = j - 1
      BY <1>1, <3>2, Zenon DEF IsChain
    <3> QED  BY <3>1, <3>3
  <2> QED  BY <2>2, <2>3, <2>4
<1>7. hid[c[Len(c)]] = Absent
  <2>1. CASE Chain = << >>
    BY <1>2, <1>4, <2>1
  <2>2. CASE Chain # << >>
    <3>1. c[Len(c)] = Chain[Len(Chain)]
      BY <1>1, <1>4, <2>2
    <3> QED  BY <1>1, <2>2, <3>1, Zenon DEF IsChain
  <2> QED  BY <2>1, <2>2
<1>8. IsChain(hid, c, y)
  BY <1>4, <1>5, <1>6, <1>7, Zenon DEF IsChain
<1> QED  BY <1>3, <1>8, Zenon

(* A longer chain has one more snapshot.                                   *)
LEMMA InLonger ==
    ASSUME NEW s \in Seq(Id), NEW y \in Id, NEW c, c = <<y>> \o s, NEW i \in 1 .. Len(c)
    PROVE  c[i] = y \/ \E j \in 1 .. Len(s) : c[i] = s[j]
<1>1. Len(s) \in Nat
  OBVIOUS
<1>2. CASE i = 1
  BY <1>2
<1>3. CASE i # 1
  <2>1. i - 1 \in 1 .. Len(s) /\ c[i] = s[i - 1]
    BY <1>1, <1>3
  <2> QED  BY <2>1, Zenon
<1> QED  BY <1>2, <1>3, Zenon

(* Without its last snapshot, and with no pointer to that one, the chain   *)
(* is still one.                                                           *)
LEMMA ShorterChain ==
    ASSUME Inv, Len(Chain) > 1, hid' = [hid EXCEPT ![Chain[Len(Chain) - 1]] = Absent],
           Latest' = Latest
    PROVE  IsChain(hid', SubSeq(Chain, 1, Len(Chain) - 1), Latest')
<1>0. IsChain(hid, Chain, Latest)
  BY Zenon DEF Inv, ChainOK
<1>1. Chain \in Seq(Id) /\ Len(Chain) \in Nat /\ Chain # << >>
  BY Basics
<1>2. PICK c, n : c = SubSeq(Chain, 1, Len(Chain) - 1) /\ n = Len(Chain) - 1
  BY Zenon
<1>3. /\ n \in Nat /\ n >= 1 /\ n \in 1 .. Len(Chain) /\ c \in Seq(Id) /\ Len(c) = n 
      /\ \A i \in 1 .. n : c[i] = Chain[i] /\ i \in 1 .. Len(Chain)
  <2>1. n \in Nat /\ n >= 1 /\ n \in 1 .. Len(Chain) /\ c = SubSeq(Chain, 1, n)
    BY <1>1, <1>2
  <2> QED  BY <1>1, <2>1
<1>4. /\ Chain[1] = Latest
      /\ \A i, j \in 1 .. Len(Chain) : Chain[i] = Chain[j] => i = j
      /\ \A i \in 1 .. Len(Chain) - 1 : hid[Chain[i]] = Chain[i + 1]
  BY <1>0, <1>1, Zenon DEF IsChain, Linked
<1>5. hid \in [Id \cup {Top} -> Id \cup {Absent, Empty}] /\ Chain[n] \in Id
  BY <1>1, <1>3 DEF Inv, Types
<1>6. Linked(hid', c)
  <2>1. SUFFICES ASSUME NEW i \in 1 .. Len(c) - 1 PROVE hid'[c[i]] = c[i + 1]
    BY Zenon DEF Linked
  <2>2. i \in 1 .. n /\ i + 1 \in 1 .. n /\ i # n /\ i \in 1 .. Len(Chain) - 1
    BY <1>2, <1>3, <2>1
  <2>3. Chain[i] # Chain[n] /\ Chain[i] \in Id
    BY <1>1, <1>3, <1>4, <2>2
  <2>4. hid'[Chain[i]] = hid[Chain[i]]
    BY <1>2, <1>5, <2>3
  <2> QED  BY <1>3, <1>4, <2>2, <2>4, Zenon
<1>7. hid'[c[Len(c)]] = Absent /\ c[1] = Latest
  <2>1. c[Len(c)] = Chain[n] /\ c[1] = Chain[1]
    BY <1>3
  <2> QED  BY <1>2, <1>4, <1>5, <2>1
<1>8. IsChain(hid', c, Latest')
  <2>1. c # << >> /\ \A i, j \in 1 .. Len(c) : c[i] = c[j] => i = j
    BY <1>3, <1>4
  <2> QED  BY <2>1, <1>3, <1>4, <1>6, <1>7, Zenon DEF IsChain
<1> QED  BY <1>2, <1>8, Zenon

-----------------------------------------------------------------------------
(* What each step does: it preserves the invariant, and changes the list   *)
(* of snapshots as SnapshotList says, if at all.                           *)
StepOK == Inv' /\ (TornCrash \/ Chain' = Chain \/ List!ListNext)

(* A walk goes on as if nothing had happened when the snapshots it meets   *)
(* stay as they are.                                                       *)
LEMMA WalkingKept ==
    ASSUME Inv, walk' = walk,
           walk.pc # "idle" => \A i \in 1 .. Len(walk.chain) :
               /\ hid'[walk.chain[i]] = hid[walk.chain[i]]
               /\ dir'[walk.chain[i]] = dir[walk.chain[i]],
           walk.pc # "idle" /\ Creating' /\ ~At("memory")' => ~Among(op'.id, walk.chain)
    PROVE  WalkingOK'
<1>1. SUFFICES ASSUME walk.pc # "idle" PROVE WalkingOK'
  BY Zenon DEF WalkingOK
<1>2. PICK c : c = walk.chain
  BY Zenon
<1>3. WalkingOK /\ Len(c) \in Nat
  BY <1>2, Basics, Zenon DEF Inv
<1>4. /\ \A i \in 1 .. Len(c) - 1 : i \in 1 .. Len(c)
      /\ c # << >> => Len(c) \in 1 .. Len(c)
  BY <1>2, <1>3, Basics
<1>5. Linked(hid, c) /\ (c # << >> => hid[c[Len(c)]] = Absent)
      /\ \A i \in 1 .. Len(c) : dir[c[i]] # "none"
  BY <1>1, <1>2, <1>3, Zenon DEF WalkingOK
<1>6. Linked(hid', c) /\ (c # << >> => hid'[c[Len(c)]] = Absent)
      /\ \A i \in 1 .. Len(c) : dir'[c[i]] # "none"
  BY <1>1, <1>2, <1>4, <1>5, Zenon DEF Linked
<1>7. Creating' /\ ~At("memory")' => ~Among(op'.id, c)
  BY <1>1, <1>2, Zenon
<1> QED  BY <1>1, <1>2, <1>3, <1>6, <1>7, Zenon DEF WalkingOK

(* sn_create touches only the snapshot y that it makes, which is neither   *)
(* in the chain yet nor met by a walk, and snapshots/.hid.                 *)
LEMMA CreateKeeps ==
    ASSUME Inv, up, ~Destroying, UNCHANGED <<memory, walk>>,
           NEW y \in Id, ~Among(y, Chain), walk.pc # "idle" => ~Among(y, walk.chain),
           \A x \in Id \ {y} : hid'[x] = hid[x] /\ dir'[x] = dir[x],
           faults'.error = 0 => faults.error = 0, faults.left \subseteq faults'.left,
           op'.pc \in OpPc, Creating' => op'.id = y, ~Destroying'
    PROVE  /\ Chain' = Chain /\ Latest' = Latest
           /\ ChainOK' /\ DestroyingOK' /\ WalkingOK' /\ ChainWhole'
           /\ (hid'[y] # Absent => dir'[y] # "none" \/ y \in faults'.left)
              => PointerNeedsDir'
<1>1. Latest' = Latest
  <2>1. up' = up /\ any' = any /\ lat' = lat /\ up
    BY DEF memory
  <2> QED  BY <2>1, Zenon DEF Latest
<1>2. \A i \in 1 .. Len(Chain) : Chain[i] \in Id \ {y}
  BY Basics, Zenon DEF Among
<1>3. \A i \in 1 .. Len(Chain) : hid'[Chain[i]] = hid[Chain[i]] /\ dir'[Chain[i]] = dir[Chain[i]]
  BY <1>2, Zenon
<1>4. Chain' = Chain /\ IsChain(hid', Chain, Latest')
  BY <1>1, <1>3, SameChain, Zenon
<1>5. ChainOK'
  BY <1>3, <1>4, Basics, Zenon DEF ChainOK
<1>6. DestroyingOK'
  BY Zenon DEF DestroyingOK
<1>7. WalkingOK'
  <2>1. walk' = walk
    BY Zenon
  <2>2. \A i \in 1 .. Len(walk.chain) : walk.chain[i] \in Id
    BY Basics
  <2>3. walk.pc # "idle" => \A i \in 1 .. Len(walk.chain) : walk.chain[i] \in Id \ {y}
    BY <2>2, Zenon DEF Among
  <2>4. walk.pc # "idle" => \A i \in 1 .. Len(walk.chain) :
            /\ hid'[walk.chain[i]] = hid[walk.chain[i]]
            /\ dir'[walk.chain[i]] = dir[walk.chain[i]]
    BY <2>3, Zenon
  <2> QED  BY <2>1, <2>4, WalkingKept, Zenon
<1>8. ChainWhole'
  <2>1. ~At("removeonly")
    BY DEF Destroying, At
  <2> QED  BY <1>3, <1>4, <2>1, Zenon DEF ChainWhole, Inv
<1>9. ASSUME hid'[y] # Absent => dir'[y] # "none" \/ y \in faults'.left PROVE PointerNeedsDir'
  BY <1>9, Zenon DEF PointerNeedsDir, Inv
<1> QED  BY <1>1, <1>4, <1>5, <1>6, <1>7, <1>8, <1>9, Zenon

(* What a step of sn_create relies on.                                     *)
LEMMA CreateFacts ==
    ASSUME Inv, Creating
    PROVE  /\ up /\ ~Destroying /\ op.id \in Id /\ op.id # Top /\ ~Among(op.id, Chain)
           /\ dir[op.id] = "whole" /\ number < MaxCreate
           /\ ~At("memory") /\ walk.pc # "idle" => ~Among(op.id, walk.chain)
           /\ op.pc \in {"hid", "rmdir"} => hid[op.id] = Absent \/ op.id \in faults.left
           /\ op.pc \in {"hid", "writehid"} => any
           /\ op.pc \in {"top", "writetop", "memory"} => hid[op.id] = IF any THEN lat ELSE Absent
           /\ At("memory") => hid[Top] = op.id
           /\ ~At("memory") => \/ hid[Top] \in {Empty, Latest}
                               \/ hid[Top] = Absent /\ Len(Chain) = 1
<1>1. up /\ ~Destroying
  <2>1. op.pc # "idle"
    BY DEF Creating
  <2>2. up
    BY <2>1 DEF Inv, MemoryOK, NoOp
  <2> QED  BY <2>2 DEF Creating, Destroying
<1>2. CreatingOK /\ WalkingOK /\ MemoryOK
  BY Zenon DEF Inv
<1>3. ~At("memory") /\ walk.pc # "idle" => ~Among(op.id, walk.chain)
  BY <1>2, Zenon DEF WalkingOK
<1>4. op.id \in Id /\ op.id # Top
  BY <1>2, Constants, Zenon DEF CreatingOK
<1> QED  BY <1>1, <1>2, <1>3, <1>4, Zenon DEF CreatingOK, MemoryOK

(* The request goes on to its next system call.                            *)
LEMMA GotoFacts ==
    ASSUME Inv, NEW l \in OpPc, Goto(l)
    PROVE  /\ op' \in [pc : OpPc, id : Id \cup {Absent}, prev : Id \cup {Top, Absent}]
           /\ op'.pc = l /\ op'.id = op.id /\ op'.prev = op.prev
BY DEF Inv, Types, Goto

(* The request ends.                                                       *)
LEMMA DoneFacts ==
    ASSUME Done
    PROVE  /\ op' \in [pc : OpPc, id : Id \cup {Absent}, prev : Id \cup {Top, Absent}]
           /\ op'.pc = "idle" /\ ~Creating' /\ ~Destroying' /\ \A l : At(l)' => l = "idle"
<1>1. op' = [pc |-> "idle", id |-> Absent, prev |-> Absent]
  BY DEF Done, NoOp
<1> QED  BY <1>1 DEF OpPc, Creating, Destroying, At

(* Errors are counted, and a pointer file once left behind is remembered.  *)
FaultStep == /\ faults' \in FaultType /\ (faults'.error = 0 => faults.error = 0)
             /\ faults.left \subseteq faults'.left

(* A system call works or fails.                                           *)
LEMMA FaultFacts ==
    ASSUME Inv, Works \/ Fails
    PROVE  FaultStep /\ (Fails => faults'.error # 0)
<1>1. faults \in FaultType
  BY DEF Inv, Types
<1>2. CASE Works /\ ~Fails
  BY <1>1, <1>2 DEF Works, FaultStep
<1>3. CASE Fails
  BY <1>1, <1>3 DEF Fails, FaultStep, FaultType
<1> QED  BY <1>2, <1>3

(* A step of sn_create on the way to the next system call.                 *)
LEMMA CreateStep ==
    ASSUME Inv, Creating, ~At("memory"), FaultStep, UNCHANGED <<dir, memory, walk>>,
           NEW l \in {"hid", "writehid", "top", "writetop", "memory", "unhid", "rmdir"}, Goto(l),
           hid' \in [Id \cup {Top} -> Id \cup {Absent, Empty}],
           \A x \in Id \ {op.id} : hid'[x] = hid[x],
           l # "memory" => hid'[Top] \in {hid[Top], Empty},
           l = "memory" => hid'[Top] = op.id,
           l \in {"hid", "rmdir"} => hid'[op.id] = Absent \/ op.id \in faults'.left,
           l \in {"hid", "writehid"} => any,
           l \in {"top", "writetop", "memory"} => hid'[op.id] = IF any THEN lat ELSE Absent
    PROVE  StepOK
<1>1. /\ op' \in [pc : OpPc, id : Id \cup {Absent}, prev : Id \cup {Top, Absent}]
      /\ op'.pc = l /\ op'.id = op.id
  <2>1. l \in OpPc
    BY DEF OpPc
  <2> QED  BY <2>1, GotoFacts, Zenon
<1>2. faults' \in FaultType /\ (faults'.error = 0 => faults.error = 0)
      /\ faults.left \subseteq faults'.left
  BY Zenon DEF FaultStep
<1>3. Creating' /\ ~Destroying' /\ (At("memory")' <=> l = "memory") /\ l \in OpPc
  BY <1>1 DEF Creating, Destroying, At, OpPc
<1>4. /\ up /\ ~Destroying /\ op.id \in Id /\ ~Among(op.id, Chain)
      /\ dir[op.id] = "whole" /\ number < MaxCreate
      /\ walk.pc # "idle" => ~Among(op.id, walk.chain)
  BY CreateFacts, Zenon
<1>5. up' = up /\ any' = any /\ lat' = lat /\ number' = number /\ dir' = dir /\ walk' = walk
  BY DEF memory
<1>6. Types'
  BY <1>1, <1>2, <1>5, Zenon DEF Types, Inv
<1>7. hid'[op.id] # Absent => dir'[op.id] # "none" \/ op.id \in faults'.left
  BY <1>4, <1>5
<1>8. /\ Chain' = Chain /\ Latest' = Latest
      /\ ChainOK' /\ DestroyingOK' /\ WalkingOK' /\ ChainWhole' /\ PointerNeedsDir'
  BY <1>1, <1>2, <1>3, <1>4, <1>5, <1>7, CreateKeeps, Zenon
<1>9. MemoryOK'
  <2>1. any => lat \in Id
    BY Zenon DEF Inv, MemoryOK
  <2>2. hid[Top] \in {Empty, Latest} \/ (hid[Top] = Absent /\ Len(Chain) = 1)
    BY CreateFacts, Zenon
  <2> QED  BY <1>3, <1>4, <1>5, <1>8, <2>1, <2>2, Zenon DEF MemoryOK
<1>10. CreatingOK'
  BY <1>1, <1>3, <1>4, <1>5, <1>8, Zenon DEF CreatingOK
<1> QED  BY <1>6, <1>8, <1>9, <1>10, Zenon DEF StepOK, Inv

(* sn_create creates the pointer file of the new snapshot, or cannot.      *)
LEMMA CreateHidOK == ASSUME Inv, CreateHid \/ CreateHidFails PROVE StepOK
<1>1. At("hid") /\ Creating /\ ~At("memory") /\ any /\ Types
      /\ op.id \in Id /\ Top # op.id /\ (hid[op.id] = Absent \/ op.id \in faults.left)
  BY CreateFacts DEF CreateHid, CreateHidFails, At, Creating, Inv
<1>2. CASE CreateHid
  <2>1. /\ hid' \in [Id \cup {Top} -> Id \cup {Absent, Empty}] /\ hid'[Top] = hid[Top]
        /\ \A x \in Id \ {op.id} : hid'[x] = hid[x]
    BY <1>1, <1>2 DEF CreateHid, Pointer, Types
  <2>2. Works /\ Goto("writehid") /\ UNCHANGED <<dir, memory, walk>>
    BY <1>2, Zenon DEF CreateHid
  <2> QED  BY <1>1, <2>1, <2>2, FaultFacts, CreateStep
<1>3. CASE CreateHidFails
  <2>1. (Works \/ Fails) /\ Goto("rmdir") /\ UNCHANGED <<dir, memory, walk>> /\ hid' = hid
    BY <1>3 DEF CreateHidFails, disk
  <2>2. FaultStep /\ (hid'[op.id] = Absent \/ op.id \in faults'.left)
    BY <1>1, <2>1, FaultFacts, Zenon DEF FaultStep
  <2> QED  BY <1>1, <2>1, <2>2, CreateStep DEF Types
<1> QED  BY <1>2, <1>3

(* It writes the path of the latest snapshot there, or cannot.             *)
LEMMA WriteHidOK == ASSUME Inv, WriteHid \/ WriteHidFails PROVE StepOK
<1>1. At("writehid") /\ Creating /\ ~At("memory") /\ any /\ Types
      /\ op.id \in Id /\ Top # op.id /\ lat \in Id
  BY CreateFacts DEF WriteHid, WriteHidFails, At, Creating, Inv, MemoryOK
<1>2. CASE WriteHid
  <2>1. /\ hid' \in [Id \cup {Top} -> Id \cup {Absent, Empty}] /\ hid'[Top] = hid[Top]
        /\ hid'[op.id] = lat /\ \A x \in Id \ {op.id} : hid'[x] = hid[x]
    BY <1>1, <1>2 DEF WriteHid, Pointer, Types
  <2>2. Works /\ Goto("top") /\ UNCHANGED <<dir, memory, walk>>
    BY <1>2, Zenon DEF WriteHid
  <2> QED  BY <1>1, <2>1, <2>2, FaultFacts, CreateStep
<1>3. CASE WriteHidFails
  <2>1. Fails /\ Goto("unhid") /\ UNCHANGED <<dir, memory, walk>> /\ hid' = hid
    BY <1>3 DEF WriteHidFails, disk
  <2> QED  BY <1>1, <2>1, FaultFacts, CreateStep DEF Types
<1> QED  BY <1>2, <1>3

(* sn_set_latest truncates snapshots/.hid and writes it, or cannot.        *)
LEMMA SetLatestOK == ASSUME Inv, OpenTop \/ WriteTop \/ SetLatestFails PROVE StepOK
<1>1. /\ At("top") \/ At("writetop")
      /\ Creating /\ ~At("memory") /\ Types /\ op.id \in Id /\ Top # op.id
      /\ hid[op.id] = IF any THEN lat ELSE Absent
  BY CreateFacts DEF OpenTop, WriteTop, SetLatestFails, At, Creating, Inv
<1>2. CASE OpenTop
  <2>1. /\ hid' \in [Id \cup {Top} -> Id \cup {Absent, Empty}] /\ hid'[Top] = Empty
        /\ \A x \in Id : hid'[x] = hid[x]
    BY <1>2, Constants, <1>1 DEF OpenTop, Pointer, Types
  <2>2. Works /\ Goto("writetop") /\ UNCHANGED <<dir, memory, walk>>
    BY <1>2, Zenon DEF OpenTop
  <2> QED  BY <1>1, <2>1, <2>2, FaultFacts, CreateStep
<1>3. CASE WriteTop
  <2>1. /\ hid' \in [Id \cup {Top} -> Id \cup {Absent, Empty}] /\ hid'[Top] = op.id
        /\ \A x \in Id : hid'[x] = hid[x]
    BY <1>3, Constants, <1>1 DEF WriteTop, Pointer, Types
  <2>2. Works /\ Goto("memory") /\ UNCHANGED <<dir, memory, walk>>
    BY <1>3, Zenon DEF WriteTop
  <2> QED  BY <1>1, <2>1, <2>2, FaultFacts, CreateStep
<1>4. CASE SetLatestFails
  <2>1. /\ Fails /\ UNCHANGED <<dir, memory, walk>> /\ hid' = hid
        /\ Goto(IF any THEN "unhid" ELSE "rmdir")
    BY <1>4, Zenon DEF SetLatestFails, disk
  <2>2. CASE any
    <3>1. Goto("unhid")
      BY <2>1, <2>2, Zenon
    <3> QED  BY <1>1, <2>1, <3>1, FaultFacts, CreateStep DEF Types
  <2>3. CASE ~any
    <3>1. Goto("rmdir")
      BY <2>1, <2>3, Zenon
    <3> QED  BY <1>1, <2>1, <2>3, <3>1, FaultFacts, CreateStep DEF Types
  <2> QED  BY <2>2, <2>3
<1> QED  BY <1>2, <1>3, <1>4

(* After an error the pointer file of the new snapshot is removed.         *)
LEMMA UnlinkHidOK == ASSUME Inv, UnlinkHid PROVE StepOK
<1>1. At("unhid") /\ Creating /\ ~At("memory") /\ Types /\ op.id \in Id /\ Top # op.id
  BY CreateFacts DEF UnlinkHid, At, Creating, Inv
<1>2. /\ hid' \in [Id \cup {Top} -> Id \cup {Absent, Empty}] /\ hid'[Top] = hid[Top]
      /\ hid'[op.id] = Absent /\ \A x \in Id \ {op.id} : hid'[x] = hid[x]
  BY <1>1 DEF UnlinkHid, Pointer, Types
<1>3. Works /\ Goto("rmdir") /\ UNCHANGED <<dir, memory, walk>>
  BY Zenon DEF UnlinkHid, Works
<1> QED  BY <1>1, <1>2, <1>3, FaultFacts, CreateStep

(* A pointer file that cannot be removed is remembered.                    *)
LEMMA LeftBehind ==
    ASSUME faults \in FaultType, op.id \in Id, UnlinkHidFails
    PROVE  /\ faults' \in FaultType /\ faults'.error # 0 /\ faults'.adopted = faults.adopted
           /\ faults.left \subseteq faults'.left /\ op.id \in faults'.left
<1>1. PICK e, k : e = faults.error + 1 /\ k = faults.left \cup {op.id}
  BY Zenon
<1>2. faults' = [faults EXCEPT !.error = e, !.left = k]
  BY <1>1, Zenon DEF UnlinkHidFails
<1>3. e \in Nat /\ e # 0 /\ k \in SUBSET Id /\ faults.left \subseteq k /\ op.id \in k
  BY <1>1 DEF FaultType
<1>4. faults' \in FaultType
  BY <1>2, <1>3, Zenon DEF FaultType
<1>5. faults'.error = e /\ faults'.left = k /\ faults'.adopted = faults.adopted
  <2>1. faults \in [error : Nat, crash : Nat, left : SUBSET Id, adopted : BOOLEAN]
    BY Zenon DEF FaultType
  <2> QED  BY <1>2, <2>1, Zenon
<1> QED  BY <1>3, <1>4, <1>5, Zenon

(* If the pointer file cannot be removed, sn_create goes on.               *)
LEMMA UnlinkHidFailsOK == ASSUME Inv, UnlinkHidFails PROVE StepOK
<1>1. At("unhid") /\ Creating /\ ~At("memory") /\ Types /\ op.id \in Id
  BY CreateFacts DEF UnlinkHidFails, At, Creating, Inv
<1>2. FaultStep /\ op.id \in faults'.left
  <2>1. faults \in FaultType
    BY <1>1 DEF Types
  <2> QED  BY <1>1, <2>1, LeftBehind, Zenon DEF FaultStep
<1>3. Goto("rmdir") /\ UNCHANGED <<dir, memory, walk>> /\ hid' = hid
  BY Zenon DEF UnlinkHidFails, disk
<1>4. hid \in [Id \cup {Top} -> Id \cup {Absent, Empty}]
  BY <1>1, Zenon DEF Types
<1> QED  BY <1>1, <1>2, <1>3, <1>4, CreateStep

(* mkdir makes the directory of a snapshot that is not in the chain.  The  *)
(* first snapshot has no pointer file, unless one was left behind.         *)
LEMMA MkdirOK == ASSUME Inv, NEW y \in Id, Mkdir(y), ~faults'.adopted PROVE StepOK
<1>0. faults' = faults /\ (~any => hid[y] = Absent)
  <2>1. faults \in FaultType
    BY Zenon DEF Inv, Types
  <2>2. CASE ~any /\ hid[y] # Absent
    BY <2>1, <2>2 DEF Mkdir, FaultType
  <2>3. CASE ~(~any /\ hid[y] # Absent)
    BY <2>3, Zenon DEF Mkdir
  <2> QED  BY <2>2, <2>3
<1>1. /\ up /\ number < MaxCreate /\ dir[y] = "none" /\ hid' = hid /\ faults' = faults
      /\ up' = up /\ any' = any /\ lat' = lat /\ number' = number /\ walk' = walk
      /\ Types /\ op.pc = "idle" /\ (any => lat \in Id)
      /\ UNCHANGED <<memory, walk>>
  BY <1>0 DEF Mkdir, memory, At, Inv, MemoryOK
<1>2. /\ dir' \in [Id -> {"none", "whole", "part"}] /\ dir'[y] = "whole"
      /\ \A x \in Id \ {y} : dir'[x] = dir[x]
  BY <1>1 DEF Mkdir, Types
<1>3. PICK l : l = IF any THEN "hid" ELSE "top"
  BY Zenon
<1>4. l \in {"hid", "top"} /\ (any <=> l = "hid")
  BY <1>3
<1>5. op' = [pc |-> l, id |-> y, prev |-> Absent]
  <2>1. op' = [NoOp EXCEPT !.pc = l, !.id = y]
    BY <1>3, Zenon DEF Mkdir
  <2> QED  BY <2>1, Zenon DEF NoOp
<1>6. /\ op' \in [pc : OpPc, id : Id \cup {Absent}, prev : Id \cup {Top, Absent}]
      /\ op'.pc = l /\ op'.id = y /\ Creating' /\ ~Destroying' /\ ~At("memory")' /\ ~Destroying
      /\ ~At("memory") /\ op'.pc \in OpPc
  BY <1>1, <1>4, <1>5 DEF OpPc, Creating, Destroying, At
<1>7. ~Among(y, Chain)
  BY <1>1, Basics, Zenon DEF Among
<1>8. walk.pc # "idle" => ~Among(y, walk.chain)
  <2>1. WalkingOK
    BY Zenon DEF Inv
  <2> QED  BY <1>1, <2>1, Zenon DEF WalkingOK, Among
<1>9. hid[y] = Absent \/ y \in faults.left
  BY <1>1, Zenon DEF Inv, PointerNeedsDir
<1>10. Types'
  BY <1>1, <1>2, <1>6, Zenon DEF Types
<1>11. /\ Chain' = Chain /\ Latest' = Latest
       /\ ChainOK' /\ DestroyingOK' /\ WalkingOK' /\ ChainWhole' /\ PointerNeedsDir'
  <2>1. \A x \in Id \ {y} : hid'[x] = hid[x] /\ dir'[x] = dir[x]
    BY <1>1, <1>2, Zenon
  <2>2. hid'[y] # Absent => dir'[y] # "none" \/ y \in faults'.left
    BY <1>1, <1>9, Zenon
  <2> QED  BY <1>1, <1>6, <1>7, <1>8, <2>1, <2>2, CreateKeeps, Zenon
<1>12. MemoryOK'
  <2>1. hid[Top] \in {Empty, Latest} \/ (hid[Top] = Absent /\ Len(Chain) = 1)
    BY <1>1, <1>6, Zenon DEF Inv, MemoryOK
  <2> QED  BY <1>1, <1>6, <1>11, <2>1, Zenon DEF MemoryOK
<1>13. CreatingOK'
  <2>1. At("memory")' => FALSE
    BY <1>6
  <2>2. /\ op'.pc \in {"hid", "writehid"} => any'
        /\ op'.pc \in {"hid", "rmdir"} => hid'[op'.id] = Absent \/ op'.id \in faults'.left
        /\ op'.pc \in {"top", "writetop", "memory"} =>
              hid'[op'.id] = IF any' THEN lat' ELSE Absent
    BY <1>0, <1>1, <1>4, <1>6, <1>9
  <2> QED  BY <1>1, <1>2, <1>6, <1>7, <1>11, <2>1, <2>2, Zenon DEF CreatingOK
<1> QED  BY <1>10, <1>11, <1>12, <1>13, Zenon DEF StepOK, Inv

(* After an error the directory of the new snapshot is removed, or cannot  *)
(* be; without it there is no pointer file that is not remembered.         *)
LEMMA RmdirNewOK == ASSUME Inv, RmdirNew \/ RmdirNewFails PROVE StepOK
<1>1. At("rmdir") /\ Creating /\ ~At("memory") /\ Types /\ (any => lat \in Id)
  BY DEF RmdirNew, RmdirNewFails, At, Creating, Inv, MemoryOK
<1>2. /\ up /\ ~Destroying /\ op.id \in Id /\ ~Among(op.id, Chain)
      /\ hid[op.id] = Absent \/ op.id \in faults.left
      /\ walk.pc # "idle" => ~Among(op.id, walk.chain)
      /\ hid[Top] \in {Empty, Latest} \/ (hid[Top] = Absent /\ Len(Chain) = 1)
  BY <1>1, CreateFacts DEF At
<1>3. /\ hid' = hid /\ (Works \/ Fails) /\ Done /\ UNCHANGED <<memory, walk>>
      /\ up' = up /\ any' = any /\ lat' = lat /\ number' = number /\ walk' = walk
  BY DEF RmdirNew, RmdirNewFails, memory, disk
<1>0. FaultStep
  BY <1>3, FaultFacts, Zenon
<1>4. /\ dir' \in [Id -> {"none", "whole", "part"}]
      /\ \A x \in Id \ {op.id} : hid'[x] = hid[x] /\ dir'[x] = dir[x]
  BY <1>1, <1>2, <1>3 DEF RmdirNew, RmdirNewFails, Types, disk
<1>5. /\ op' \in [pc : OpPc, id : Id \cup {Absent}, prev : Id \cup {Top, Absent}]
      /\ op'.pc = "idle" /\ ~Creating' /\ ~Destroying' /\ op'.pc \in OpPc
  BY <1>3, DoneFacts DEF OpPc
<1>6. Types'
  BY <1>0, <1>1, <1>3, <1>4, <1>5, Zenon DEF Types, FaultStep
<1>7. /\ Chain' = Chain /\ Latest' = Latest
      /\ ChainOK' /\ DestroyingOK' /\ WalkingOK' /\ ChainWhole' /\ PointerNeedsDir'
  <2>1. hid'[op.id] # Absent => dir'[op.id] # "none" \/ op.id \in faults'.left
    BY <1>0, <1>2, <1>3, Zenon DEF FaultStep
  <2> QED  BY <1>0, <1>2, <1>3, <1>4, <1>5, <2>1, CreateKeeps, Zenon DEF FaultStep
<1>8. MemoryOK' /\ CreatingOK'
  BY <1>1, <1>2, <1>3, <1>5, <1>7, Zenon DEF MemoryOK, CreatingOK
<1> QED  BY <1>6, <1>7, <1>8, Zenon DEF StepOK, Inv

(* The new snapshot becomes the latest one: it is put in front of the      *)
(* list, and the pointer files already say so.                             *)
LEMMA SetMemoryOK == ASSUME Inv, SetMemory PROVE StepOK
<1>1. /\ At("memory") /\ Creating /\ Types /\ up
      /\ op.id \in Id /\ ~Among(op.id, Chain) /\ dir[op.id] = "whole" /\ number < MaxCreate
      /\ hid[op.id] = (IF any THEN lat ELSE Absent) /\ hid[Top] = op.id
  BY CreateFacts DEF SetMemory, At, Creating, Inv
<1>2. /\ lat' = op.id /\ any' = TRUE /\ number' = number + 1 /\ up' = up /\ walk' = walk
      /\ dir' = dir /\ hid' = hid /\ faults' = faults
  BY DEF SetMemory, disk
<1>3. /\ op' \in [pc : OpPc, id : Id \cup {Absent}, prev : Id \cup {Top, Absent}]
      /\ op'.pc = "idle" /\ ~Creating' /\ ~Destroying'
  BY DoneFacts, Zenon DEF SetMemory
<1>4. PICK y : y = op.id
  BY Zenon
<1>5. Latest' = y /\ IsChain(hid, <<y>> \o Chain, y)
  <2>1. Latest' = y
    BY <1>1, <1>2, <1>4 DEF Latest
  <2> QED  BY <1>1, <1>4, <2>1, LongerChain, Zenon
<1>6. PICK c : c = <<y>> \o Chain
  BY Zenon
<1>7. Chain' = c /\ IsChain(hid', c, Latest')
  BY <1>2, <1>5, <1>6, NextChain, Zenon
<1>8. \A i \in 1 .. Len(c) : c[i] = y \/ \E j \in 1 .. Len(Chain) : c[i] = Chain[j]
  <2>1. Chain \in Seq(Id) /\ Len(Chain) \in Nat /\ y \in Id
    BY <1>1, <1>4, Basics, Zenon
  <2> QED  BY <1>6, <2>1, InLonger
<1>9. Types'
  <2>1. number' \in 0 .. MaxCreate
    BY <1>1, <1>2, Constants DEF Types
  <2> QED  BY <1>1, <1>2, <1>3, <2>1, Zenon DEF Types
<1>10. ChainOK'
  <2>1. \A i \in 1 .. Len(c) : dir'[c[i]] # "none"
    BY <1>1, <1>2, <1>4, <1>8, Basics
  <2> QED  BY <1>7, <2>1, Zenon DEF ChainOK
<1>11. MemoryOK' /\ CreatingOK' /\ DestroyingOK'
  BY <1>1, <1>2, <1>3, <1>4, <1>5, Zenon DEF MemoryOK, CreatingOK, DestroyingOK
<1>12. WalkingOK'
  BY <1>2, <1>3, WalkingKept, Zenon
<1>13. ChainWhole' /\ PointerNeedsDir'
  <2>1. ~At("removeonly")
    BY <1>1 DEF At
  <2> QED  BY <1>1, <1>2, <1>4, <1>7, <1>8, <2>1, Zenon DEF Inv, ChainWhole, PointerNeedsDir
<1>14. List!ListNext
  <2>1. \A i \in 1 .. Len(Chain) : Chain[i] # y
    BY <1>1, <1>4, Zenon DEF Among
  <2> QED  BY <1>1, <1>4, <1>6, <1>7, <2>1, Zenon DEF List!ListNext, List!CreateSn
<1> QED  BY <1>9, <1>10, <1>11, <1>12, <1>13, <1>14, Zenon DEF StepOK, Inv

-----------------------------------------------------------------------------
(* What a step of sn_destroy relies on.                                    *)
LEMMA DestroyFacts ==
    ASSUME Inv, Destroying
    PROVE  /\ up /\ ~Creating /\ any /\ lat \in Id /\ walk.pc = "idle" /\ op.id \in Id
           /\ op.pc \in {"untop", "removeonly"} => Chain = <<op.id>> /\ Len(Chain) = 1
           /\ At("untop") => op.prev = Top
           /\ At("removeonly") => hid[Top] = Absent
           /\ At("unprev") => /\ Len(Chain) > 1 /\ op.id = Chain[Len(Chain)]
                              /\ op.prev = Chain[Len(Chain) - 1]
           /\ At("remove") => ~Among(op.id, Chain)
           /\ op.pc \in {"remove", "removeonly"} => hid[op.id] = Absent
           /\ hid[Top] \in {Empty, Latest} \/ (hid[Top] = Absent /\ Len(Chain) = 1)
<1>1. DestroyingOK /\ MemoryOK /\ IsChain(hid, Chain, Latest)
  BY Zenon DEF Inv, ChainOK
<1>2. op.pc # "idle" /\ ~Creating /\ ~At("memory")
  BY DEF Destroying, Creating, At
<1>3. up
  BY <1>1, <1>2 DEF MemoryOK, NoOp
<1>4. op.pc \in {"untop", "removeonly"} =>
          Chain = <<op.id>> /\ Len(Chain) = 1 /\ hid[op.id] = Absent
  <2>1. SUFFICES ASSUME Chain = <<op.id>>
                 PROVE  Len(Chain) = 1 /\ hid[op.id] = Absent
    BY <1>1, Zenon DEF DestroyingOK
  <2>2. Len(Chain) = 1 /\ Chain[1] = op.id /\ Chain # << >>
    BY <2>1
  <2> QED  BY <1>1, <2>2 DEF IsChain
<1> QED  BY <1>1, <1>2, <1>3, <1>4, Zenon DEF DestroyingOK, MemoryOK, At

(* A step of sn_destroy that leaves the chain as it is.                    *)
LEMMA DestroyStep ==
    ASSUME Inv, Destroying, UNCHANGED <<memory, walk>>,
           op' \in [pc : OpPc, id : Id \cup {Absent}, prev : Id \cup {Top, Absent}], ~Creating',
           FaultStep,
           dir' \in [Id -> {"none", "whole", "part"}],
           hid' \in [Id \cup {Top} -> Id \cup {Absent, Empty}],
           \A x \in Id : hid'[x] = hid[x],
           hid'[Top] = hid[Top] \/ (hid'[Top] = Absent /\ Len(Chain) = 1),
           \A x \in Id : dir[x] # "none" => dir'[x] # "none",
           \A i \in 1 .. Len(Chain) : dir'[Chain[i]] # dir[Chain[i]] => At("removeonly")',
           At("removeonly") => At("removeonly")' \/ faults'.error # 0,
           Destroying' => op'.id = op.id /\ op'.prev = op.prev,
           op'.pc \in {"idle", "removeonly", op.pc},
           At("removeonly")' => Chain = <<op.id>> /\ hid'[Top] = Absent
    PROVE  StepOK
<1>1. /\ up' = up /\ any' = any /\ lat' = lat /\ number' = number /\ walk' = walk
      /\ up /\ any /\ lat \in Id /\ walk.pc = "idle" /\ op.id \in Id /\ ~Creating
      /\ hid[Top] \in {Empty, Latest} \/ (hid[Top] = Absent /\ Len(Chain) = 1)
  BY DestroyFacts, Zenon DEF memory
<1>2. Types'
  BY <1>1, Zenon DEF Types, FaultStep, Inv
<1>3. Latest' = Latest
  BY <1>1, Zenon DEF Latest
<1>4. Chain' = Chain /\ IsChain(hid', Chain, Latest')
  BY <1>3, Basics, SameChain, Zenon
<1>5. ChainOK'
  BY <1>4, Basics, Zenon DEF ChainOK
<1>6. MemoryOK' /\ CreatingOK'
  BY <1>1, <1>3, <1>4, Zenon DEF MemoryOK, CreatingOK
<1>7. DestroyingOK'
  <2>1. SUFFICES ASSUME Destroying' PROVE DestroyingOK'
    BY Zenon DEF DestroyingOK
  <2>2. CASE op'.pc = op.pc
    <3>1. DestroyingOK
      BY Zenon DEF Inv
    <3> QED  BY <1>1, <1>4, <2>1, <2>2, <3>1, Zenon DEF DestroyingOK, At
  <2>3. CASE op'.pc = "removeonly"
    BY <1>1, <1>4, <2>1, <2>3 DEF DestroyingOK, At
  <2> QED  BY <2>1, <2>2, <2>3 DEF Destroying
<1>8. WalkingOK'
  BY <1>1, WalkingKept, Zenon
<1>9. ChainWhole'
  <2>1. SUFFICES ASSUME faults'.error = 0, ~At("removeonly")'
                 PROVE  \A i \in 1 .. Len(Chain) : dir'[Chain[i]] = "whole"
    BY <1>4, Zenon DEF ChainWhole
  <2>2. \A i \in 1 .. Len(Chain) : dir[Chain[i]] = "whole"
    BY <2>1, Zenon DEF ChainWhole, FaultStep, Inv
  <2> QED  BY <2>1, <2>2, Zenon
<1>10. PointerNeedsDir'
  BY Zenon DEF PointerNeedsDir, FaultStep, Inv
<1> QED  BY <1>2, <1>4, <1>5, <1>6, <1>7, <1>8, <1>9, <1>10, Zenon DEF StepOK, Inv

(* sn_destroy finds the earliest snapshot and the pointer to it.           *)
LEMMA DestroyOK == ASSUME Inv, Destroy PROVE StepOK
<1>1. /\ up /\ any /\ walk.pc = "idle" /\ op.pc = "idle" /\ ~At("memory") /\ Types /\ lat \in Id
      /\ up' = up /\ any' = any /\ lat' = lat /\ number' = number /\ walk' = walk
      /\ dir' = dir /\ hid' = hid /\ faults' = faults
  BY DEF Destroy, At, Inv, MemoryOK, memory, disk
<1>2. PICK n : n = Len(Chain)
  BY Zenon
<1>3. n \in Nat /\ n >= 1 /\ Chain \in Seq(Id) /\ Chain[n] \in Id /\ (n # 1 => Chain[n - 1] \in Id)
  <2>1. Latest \in Id
    BY <1>1 DEF Latest
  <2> QED  BY <1>2, <2>1, Basics
<1>4. PICK l, p : l = (IF n = 1 THEN "untop" ELSE "unprev")
                  /\ p = IF n = 1 THEN Top ELSE Chain[n - 1]
  BY Zenon
<1>5. op' = [pc |-> l, id |-> Chain[n], prev |-> p]
  BY <1>2, <1>4, Zenon DEF Destroy
<1>6. /\ op' \in [pc : OpPc, id : Id \cup {Absent}, prev : Id \cup {Top, Absent}]
      /\ op'.pc = l /\ op'.id = Chain[n] /\ op'.prev = p /\ l \in {"untop", "unprev"}
      /\ l = "untop" => n = 1 /\ p = Top
      /\ l = "unprev" => n > 1 /\ p = Chain[n - 1]
  BY <1>3, <1>4, <1>5 DEF OpPc
<1>7. ~Creating' /\ ~At("memory")' /\ ~At("removeonly") /\ ~At("removeonly")' /\ ~At("remove")'
  BY <1>1, <1>6 DEF Creating, At
<1>8. Types'
  BY <1>1, <1>6, Zenon DEF Types
<1>9. Latest' = Latest
  BY <1>1, Zenon DEF Latest
<1>10. Chain' = Chain /\ IsChain(hid', Chain, Latest')
  BY <1>1, <1>9, SameChain, Zenon
<1>11. ChainOK' /\ MemoryOK' /\ CreatingOK' /\ ChainWhole' /\ PointerNeedsDir'
  BY <1>1, <1>7, <1>9, <1>10, Zenon
  DEF ChainOK, MemoryOK, CreatingOK, ChainWhole, PointerNeedsDir, Inv
<1>12. DestroyingOK'
  <2>1. ASSUME n = 1 PROVE Chain = <<Chain[n]>>
    <3>1. PICK d : d = <<Chain[1]>>
      BY Zenon
    <3>2. d \in [1 .. 1 -> Id] /\ d[1] = Chain[1]
      BY <1>3, <2>1, <3>1
    <3>3. Chain \in [1 .. 1 -> Id]
      <4>1. Chain \in [1 .. Len(Chain) -> Id]
        BY <1>3
      <4> QED  BY <1>2, <2>1, <4>1, Zenon
    <3>4. Chain = d
      BY <3>2, <3>3
    <3> QED  BY <2>1, <3>1, <3>4
  <2> QED  BY <1>1, <1>2, <1>3, <1>6, <1>7, <1>10, <2>1 DEF DestroyingOK, At
<1>13. WalkingOK'
  BY <1>1, <1>7, WalkingKept, Zenon
<1> QED  BY <1>8, <1>10, <1>11, <1>12, <1>13, Zenon DEF StepOK, Inv

(* It removes the pointer to it.  For the only snapshot that is            *)
(* snapshots/.hid and the list stays as it is until the files are gone;    *)
(* otherwise the snapshot leaves the list now.                             *)
LEMMA UnlinkPointerOK == ASSUME Inv, UnlinkPointer PROVE StepOK
<1>1. /\ At("untop") \/ At("unprev")
      /\ Destroying /\ ~Creating /\ Types /\ up /\ any /\ lat \in Id /\ walk.pc = "idle"
      /\ op.id \in Id
      /\ up' = up /\ any' = any /\ lat' = lat /\ number' = number /\ walk' = walk
      /\ dir' = dir /\ faults' = faults /\ UNCHANGED <<memory, walk>>
  BY DestroyFacts DEF UnlinkPointer, At, Inv, memory, Works, Destroying
<1>2. CASE At("untop")
  <2>1. Chain = <<op.id>> /\ Len(Chain) = 1 /\ op.prev = Top
    BY <1>1, <1>2, DestroyFacts DEF At
  <2>2. /\ hid' \in [Id \cup {Top} -> Id \cup {Absent, Empty}]
        /\ hid'[Top] = Absent /\ \A x \in Id : hid'[x] = hid[x]
    BY <1>1, <2>1, Constants DEF UnlinkPointer, Pointer, Types
  <2>3. /\ op' \in [pc : OpPc, id : Id \cup {Absent}, prev : Id \cup {Top, Absent}]
        /\ op'.pc = "removeonly" /\ op'.id = op.id /\ op'.prev = op.prev
    <3>1. Goto("removeonly") /\ "removeonly" \in OpPc
      BY <1>2, Zenon DEF UnlinkPointer, OpPc
    <3> QED  BY <3>1, GotoFacts, Zenon
  <2>4. ~Creating' /\ At("removeonly")' /\ Destroying'
    BY <2>3 DEF Creating, At, Destroying
  <2>5. dir \in [Id -> {"none", "whole", "part"}] /\ FaultStep
    <3>1. dir \in [Id -> {"none", "whole", "part"}] /\ Works
      BY <1>1 DEF Types, Works
    <3> QED  BY <3>1, FaultFacts, Zenon
  <2> QED  BY <1>1, <2>1, <2>2, <2>3, <2>4, <2>5, DestroyStep, Zenon
<1>3. CASE At("unprev")
  <2>1. /\ Len(Chain) > 1 /\ op.id = Chain[Len(Chain)] /\ op.prev = Chain[Len(Chain) - 1]
        /\ hid[Top] \in {Empty, Latest} /\ Len(Chain) \in Nat /\ Chain \in Seq(Id)
        /\ op.prev \in Id
    BY <1>1, <1>3, DestroyFacts, Basics DEF At
  <2>2. PICK c : c = SubSeq(Chain, 1, Len(Chain) - 1)
    BY Zenon
  <2>3. Latest' = Latest
    BY <1>1, Zenon DEF Latest
  <2>4. hid' = [hid EXCEPT ![Chain[Len(Chain) - 1]] = Absent]
    BY <2>1, Zenon DEF UnlinkPointer, Pointer
  <2>5. Chain' = c /\ IsChain(hid', c, Latest')
    BY <2>1, <2>2, <2>3, <2>4, ShorterChain, NextChain, Zenon
  <2>6. /\ c # << >> /\ Chain # << >>
        /\ \A i \in 1 .. Len(c) : c[i] = Chain[i] /\ i \in 1 .. Len(Chain) /\ i # Len(Chain)
    <3>1. PICK n : n = Len(Chain) - 1
      BY Zenon
    <3>2. n \in Nat /\ n >= 1 /\ n <= Len(Chain) /\ c = SubSeq(Chain, 1, n)
      BY <2>1, <2>2, <3>1
    <3>3. c \in Seq(Id) /\ Len(c) = n /\ \A i \in 1 .. n : c[i] = Chain[i]
      BY <2>1, <3>2
    <3>4. c # << >> /\ Chain # << >>
      BY <2>1, <3>2, <3>3
    <3>5. \A i \in 1 .. n : i \in 1 .. Len(Chain) /\ i # Len(Chain)
      BY <2>1, <3>1, <3>2
    <3> QED  BY <3>3, <3>4, <3>5, Zenon
  <2>7. /\ hid' \in [Id \cup {Top} -> Id \cup {Absent, Empty}] /\ hid'[Top] = hid[Top]
        /\ \A x \in Id : hid'[x] \in {hid[x], Absent}
    BY <1>1, <2>1, Constants DEF UnlinkPointer, Pointer, Types
  <2>8. /\ op' \in [pc : OpPc, id : Id \cup {Absent}, prev : Id \cup {Top, Absent}]
        /\ op'.pc = "remove" /\ op'.id = op.id
    <3>1. ~At("untop") /\ "remove" \in OpPc
      BY <1>3 DEF At, OpPc
    <3>2. Goto("remove")
      BY <3>1, Zenon DEF UnlinkPointer
    <3> QED  BY <3>1, <3>2, GotoFacts, Zenon
  <2>9. ~Creating' /\ At("remove")' /\ ~At("removeonly") /\ ~At("untop")' /\ ~At("unprev")'
        /\ ~At("removeonly")' /\ op'.pc \notin {"untop", "removeonly"}
    BY <1>3, <2>8 DEF Creating, At
  <2>10. Types'
    BY <1>1, <2>7, <2>8, Zenon DEF Types
  <2>11. ChainOK' /\ ChainWhole'
    BY <1>1, <2>5, <2>6, <2>9, Basics, Zenon DEF ChainOK, ChainWhole, Inv
  <2>12. MemoryOK' /\ CreatingOK'
    BY <1>1, <2>1, <2>3, <2>7, <2>9, Zenon DEF MemoryOK, CreatingOK
  <2>13. ~Among(op.id, c) /\ hid[op.id] = Absent
    <3>1. IsChain(hid, Chain, Latest)
      BY Zenon DEF Inv, ChainOK
    <3>2. Len(Chain) \in 1 .. Len(Chain)
      BY <2>1
    <3>3. \A i \in 1 .. Len(c) : c[i] # Chain[Len(Chain)]
      BY <2>6, <3>1, <3>2 DEF IsChain
    <3>4. hid[Chain[Len(Chain)]] = Absent
      BY <2>6, <3>1, Zenon DEF IsChain
    <3> QED  BY <2>1, <3>3, <3>4, Zenon DEF Among
  <2>14. DestroyingOK'
    <3>1. hid'[op.id] = Absent
      BY <1>1, <2>7, <2>13
    <3> QED  BY <1>1, <2>5, <2>8, <2>9, <2>13, <3>1, Zenon DEF DestroyingOK
  <2>15. WalkingOK'
    BY <1>1, <2>9, WalkingKept, Zenon
  <2>16. PointerNeedsDir'
    BY <1>1, <2>7 DEF PointerNeedsDir, Inv
  <2>17. List!ListNext
    BY <2>2, <2>5, <2>6, Zenon DEF List!ListNext, List!DestroySn
  <2> QED  BY <2>10, <2>11, <2>12, <2>14, <2>15, <2>16, <2>17, Zenon DEF StepOK, Inv
<1> QED  BY <1>1, <1>2, <1>3

(* It cannot remove the pointer, and gives up.                             *)
LEMMA UnlinkPointerFailsOK == ASSUME Inv, UnlinkPointerFails PROVE StepOK
<1>1. /\ Destroying /\ ~At("removeonly") /\ Types /\ Done /\ (Works \/ Fails)
      /\ UNCHANGED <<memory, walk>> /\ hid' = hid /\ dir' = dir
  BY DEF UnlinkPointerFails, At, Inv, Destroying, disk
<1>2. FaultStep
  BY <1>1, FaultFacts, Zenon
<1>3. /\ op' \in [pc : OpPc, id : Id \cup {Absent}, prev : Id \cup {Top, Absent}]
      /\ op'.pc = "idle" /\ ~Creating' /\ ~Destroying' /\ ~At("removeonly")'
  BY <1>1, DoneFacts
<1>4. /\ dir \in [Id -> {"none", "whole", "part"}]
      /\ hid \in [Id \cup {Top} -> Id \cup {Absent, Empty}]
  BY <1>1 DEF Types
<1> QED  BY <1>1, <1>2, <1>3, <1>4, DestroyStep, Zenon

(* recursive_remove removes some files of a snapshot that is not in the    *)
(* list, or is the only one.                                               *)
LEMMA RemoveSomeOK == ASSUME Inv, RemoveSome PROVE StepOK
<1>1. /\ At("remove") \/ At("removeonly")
      /\ Destroying /\ ~Creating /\ Types /\ op' = op /\ Works /\ op.id \in Id
      /\ UNCHANGED <<memory, walk>> /\ hid' = hid
      /\ At("removeonly") => Chain = <<op.id>> /\ hid[Top] = Absent
      /\ At("remove") => ~Among(op.id, Chain)
  BY DestroyFacts DEF RemoveSome, At, Inv, Destroying
<1>2. FaultStep
  BY <1>1, FaultFacts, Zenon
<1>3. /\ dir' \in [Id -> {"none", "whole", "part"}]
      /\ hid \in [Id \cup {Top} -> Id \cup {Absent, Empty}]
      /\ \A x \in Id : dir[x] # "none" => dir'[x] # "none"
      /\ \A x \in Id : x # op.id => dir'[x] = dir[x]
      /\ op \in [pc : OpPc, id : Id \cup {Absent}, prev : Id \cup {Top, Absent}]
  BY <1>1 DEF Types, RemoveSome
<1>4. /\ ~Creating' /\ (At("removeonly")' <=> At("removeonly"))
  BY <1>1 DEF Creating, At
<1>5. \A i \in 1 .. Len(Chain) : dir'[Chain[i]] # dir[Chain[i]] => At("removeonly")'
  BY <1>1, <1>3, <1>4, Basics, Zenon DEF Among
<1> QED  BY <1>1, <1>2, <1>3, <1>4, <1>5, DestroyStep, Zenon

(* recursive_remove fails, and the rest of the files stay.                 *)
LEMMA RemoveFailsOK == ASSUME Inv, RemoveFails PROVE StepOK
<1>1. /\ Destroying /\ Types /\ Done /\ Fails
      /\ UNCHANGED <<memory, walk>> /\ hid' = hid /\ dir' = dir
  BY DEF RemoveFails, At, Inv, Destroying, disk
<1>2. FaultStep /\ faults'.error # 0
  BY <1>1, FaultFacts, Zenon
<1>3. /\ op' \in [pc : OpPc, id : Id \cup {Absent}, prev : Id \cup {Top, Absent}]
      /\ op'.pc = "idle" /\ ~Creating' /\ ~Destroying' /\ ~At("removeonly")'
  BY <1>1, DoneFacts
<1>4. /\ dir \in [Id -> {"none", "whole", "part"}]
      /\ hid \in [Id \cup {Top} -> Id \cup {Absent, Empty}]
  BY <1>1 DEF Types
<1> QED  BY <1>1, <1>2, <1>3, <1>4, DestroyStep, Zenon

(* The directory is gone, and no pointer file is left without it.  The     *)
(* only snapshot leaves the list now.                                      *)
LEMMA RemoveAllOK == ASSUME Inv, RemoveAll PROVE StepOK
<1>1. /\ At("remove") \/ At("removeonly")
      /\ Destroying /\ ~Creating /\ Types /\ up /\ any /\ lat \in Id /\ walk.pc = "idle"
      /\ op.id \in Id /\ hid[op.id] = Absent
      /\ hid[Top] \in {Empty, Latest} \/ (hid[Top] = Absent /\ Len(Chain) = 1)
      /\ up' = up /\ lat' = lat /\ number' = number /\ walk' = walk
      /\ hid' = hid /\ faults' = faults /\ Done
      /\ any' = IF At("removeonly") THEN FALSE ELSE any
      /\ At("removeonly") => Chain = <<op.id>> /\ hid[Top] = Absent
      /\ At("remove") => ~Among(op.id, Chain)
  BY DestroyFacts DEF RemoveAll, At, Inv, Works, Destroying
<1>2. /\ dir' \in [Id -> {"none", "whole", "part"}]
      /\ \A x \in Id : x # op.id => dir'[x] = dir[x]
  BY <1>1 DEF RemoveAll, Types
<1>3. /\ op' \in [pc : OpPc, id : Id \cup {Absent}, prev : Id \cup {Top, Absent}]
      /\ op'.pc = "idle" /\ ~Creating' /\ ~Destroying' /\ ~At("memory")'
  BY <1>1, DoneFacts
<1>4. Types'
  <2>1. any' \in BOOLEAN
    BY <1>1, Zenon
  <2> QED  BY <1>1, <1>2, <1>3, <2>1, Zenon DEF Types
<1>5. CreatingOK' /\ DestroyingOK' /\ WalkingOK' /\ PointerNeedsDir'
  <2>1. WalkingOK'
    BY <1>1, <1>3, WalkingKept, Zenon
  <2> QED  BY <1>1, <1>2, <1>3, <2>1, Zenon DEF CreatingOK, DestroyingOK, PointerNeedsDir, Inv
<1>6. CASE At("removeonly")
  <2>1. any' = FALSE /\ Latest' = Absent /\ hid'[Top] = Absent /\ Len(Chain) = 1 /\ Chain # << >>
    <3>1. any' = FALSE
      BY <1>1, <1>6, Zenon
    <3>2. Chain = <<op.id>>
      BY <1>1, <1>6, Zenon
    <3> QED  BY <1>1, <1>6, <3>1, <3>2 DEF Latest
  <2>2. PICK c : c = << >>
    BY Zenon
  <2>3. Chain' = c /\ IsChain(hid', c, Latest') /\ Len(c) = 0
    <3>1. IsChain(hid', c, Latest') /\ Len(c) = 0
      BY <2>1, <2>2, Constants DEF IsChain, Linked
    <3> QED  BY <3>1, NextChain, Zenon
  <2>4. \A i \in 1 .. Len(c) : FALSE
    BY <2>3
  <2>5. ChainOK' /\ ChainWhole' /\ MemoryOK'
    BY <1>1, <1>3, <2>1, <2>3, <2>4, Zenon DEF ChainOK, ChainWhole, MemoryOK
  <2>6. List!ListNext
    <3>1. SubSeq(Chain, 1, Len(Chain) - 1) = << >>
      BY <2>1, Basics
    <3> QED  BY <2>1, <2>2, <2>3, <3>1, Zenon DEF List!ListNext, List!DestroySn
  <2> QED  BY <1>4, <1>5, <2>5, <2>6, Zenon DEF StepOK, Inv
<1>7. CASE At("remove")
  <2>1. ~At("removeonly") /\ any' = any
    BY <1>1, <1>7 DEF At
  <2>2. Latest' = Latest
    <3>1. up' = up /\ lat' = lat /\ hid' = hid
      BY <1>1, Zenon
    <3> QED  BY <2>1, <3>1, Zenon DEF Latest
  <2>3. Chain' = Chain /\ IsChain(hid', Chain, Latest')
    BY <1>1, <2>2, SameChain, Zenon
  <2>4. \A i \in 1 .. Len(Chain) : dir'[Chain[i]] = dir[Chain[i]]
    BY <1>1, <1>2, <1>7, Basics, Zenon DEF Among
  <2>5. ChainOK' /\ ChainWhole' /\ MemoryOK'
    BY <1>1, <1>3, <2>1, <2>2, <2>3, <2>4, Basics, Zenon DEF ChainOK, ChainWhole, MemoryOK, Inv
  <2> QED  BY <1>4, <1>5, <2>3, <2>5, Zenon DEF StepOK, Inv
<1> QED  BY <1>1, <1>6, <1>7

-----------------------------------------------------------------------------
(* A step of a walk changes neither the snapshots nor the other request.   *)
LEMMA WalkOnly ==
    ASSUME Inv, UNCHANGED <<disk, memory, op, faults>>, ~Destroying \/ walk'.pc = "idle", up,
           walk' \in [pc : {"idle", "walk", "found", "lost"}, id : Id \cup {Absent},
                      list : Seq(Id \cup {Absent, Garbage}), chain : Seq(Id)],
           Len(walk'.list) < MaxSnapshots, WalkingOK'
    PROVE  StepOK
<1>1. /\ dir' = dir /\ hid' = hid /\ up' = up /\ any' = any /\ lat' = lat /\ number' = number
      /\ op' = op /\ faults' = faults
  BY DEF disk, memory
<1>2. Latest' = Latest
  BY <1>1, Zenon DEF Latest
<1>3. Chain' = Chain
  BY <1>1, <1>2, SameChain, Zenon
<1>4. Types'
  BY <1>1, Zenon DEF Types, Inv
<1>5. ChainOK' /\ MemoryOK' /\ CreatingOK' /\ ChainWhole' /\ PointerNeedsDir'
  BY <1>1, <1>2, <1>3, Zenon
  DEF ChainOK, MemoryOK, CreatingOK, Creating, At, ChainWhole, PointerNeedsDir, Inv
<1>6. DestroyingOK'
  <2>1. DestroyingOK
    BY Zenon DEF Inv
  <2>2. CASE ~Destroying
    BY <1>1, <2>2, Zenon DEF DestroyingOK, Destroying
  <2>3. CASE walk'.pc = "idle"
    BY <1>1, <1>3, <2>1, <2>3, Zenon DEF DestroyingOK, Destroying, At
  <2> QED  BY <2>2, <2>3
<1> QED  BY <1>3, <1>4, <1>5, <1>6, Zenon DEF StepOK, Inv

(* A walk has started when there is one.                                   *)
LEMMA WalkFacts ==
    ASSUME Inv, walk.pc # "idle"
    PROVE  up /\ ~Destroying
<1>1. up
  BY DEF Inv, MemoryOK, NoWalk
<1> QED  BY <1>1, Zenon DEF Inv, DestroyingOK

(* sn_get_paths_to starts from sn_lat_dir, perhaps while it is changed.    *)
LEMMA WalkStartOK == ASSUME Inv, NEW x \in Id, WalkStart(x) PROVE StepOK
<1>1. /\ up /\ ~Destroying /\ UNCHANGED <<disk, memory, op, faults>> /\ Types
      /\ dir' = dir /\ hid' = hid /\ op' = op
  BY DEF WalkStart, Inv, disk
<1>2. PICK first \in IF At("memory") THEN {lat, op.id, Garbage} ELSE {lat} :
          walk' = [pc |-> "walk", id |-> x, list |-> <<first>>,
                   chain |-> IF first = lat THEN Chain ELSE <<op.id>> \o Chain]
  BY Zenon DEF WalkStart
<1>3. /\ first \in {lat, op.id, Garbage} /\ (first # lat => At("memory"))
      /\ first \in Id \cup {Absent, Garbage}
  BY <1>1 DEF Types
<1>4. PICK c : c = IF first = lat THEN Chain ELSE <<op.id>> \o Chain
  BY Zenon
<1>5. PICK l : l = <<first>>
  BY Zenon
<1>6. walk' = [pc |-> "walk", id |-> x, list |-> l, chain |-> c]
  BY <1>2, <1>4, <1>5, Zenon
<1>7. l \in Seq(Id \cup {Absent, Garbage}) /\ Len(l) = 1 /\ l[1] = first
  BY <1>3, <1>5
<1>8. PICK z : IsChain(hid, c, z) /\ (c # << >> /\ first # Garbage => z = first)
  <2>1. CASE first = lat
    <3>1. c = Chain /\ IsChain(hid, Chain, Latest)
      BY <1>4, <2>1, Zenon DEF Inv, ChainOK
    <3>2. c # << >> => Latest = lat
      BY <1>1, <3>1, Basics, Constants DEF Latest
    <3> QED  BY <2>1, <3>1, <3>2, Zenon
  <2>2. CASE first # lat
    <3>1. Creating
      BY <1>3, <2>2 DEF At, Creating
    <3>2. op.id \in Id /\ ~Among(op.id, Chain) /\ hid[op.id] = IF any THEN lat ELSE Absent
      BY <1>3, <2>2, <3>1, CreateFacts DEF At
    <3>3. IsChain(hid, c, op.id)
      BY <1>1, <1>4, <2>2, <3>2, LongerChain, Zenon
    <3> QED  BY <1>3, <2>2, <3>3, Zenon
  <2> QED  BY <2>1, <2>2
<1>9. \A i \in 1 .. Len(c) : dir[c[i]] # "none"
  <2>1. CASE first = lat
    BY <1>4, <2>1, Basics, Zenon
  <2>2. CASE first # lat
    <3>1. Creating
      BY <1>3, <2>2 DEF At, Creating
    <3>2. op.id \in Id /\ dir[op.id] = "whole" /\ Chain \in Seq(Id) /\ Len(Chain) \in Nat
          /\ \A i \in 1 .. Len(Chain) : dir[Chain[i]] # "none"
      BY <3>1, CreateFacts, Basics, Zenon
    <3>3. c = <<op.id>> \o Chain
      BY <1>4, <2>2, Zenon
    <3> QED  BY <3>2, <3>3, InLonger
  <2> QED  BY <2>1, <2>2
<1>10. /\ c \in Seq(Id) /\ Linked(hid, c) /\ (c # << >> => hid[c[Len(c)]] = Absent)
       /\ c # << >> /\ first # Garbage => c[1] = first
  BY <1>8, Zenon DEF IsChain
<1>11. /\ walk' \in [pc : {"idle", "walk", "found", "lost"}, id : Id \cup {Absent},
                     list : Seq(Id \cup {Absent, Garbage}), chain : Seq(Id)]
       /\ walk'.pc = "walk" /\ walk'.list = l /\ walk'.chain = c /\ walk'.id = x
  BY <1>6, <1>7, <1>10
<1>12. Creating /\ ~At("memory") => ~Among(op.id, c)
  BY <1>3, <1>4, CreateFacts, Zenon
<1>13. Creating' = Creating /\ At("memory")' = At("memory")
  BY <1>1 DEF Creating, At
<1>14. WalkingOK'
  <2>1. Len(l) >= 1 /\ (\A i \in 1 .. Len(l) - 1 : FALSE)
    BY <1>7
  <2>2. c # << >> /\ first # Garbage => Len(l) <= Len(c) /\ \A i \in 1 .. Len(l) : l[i] = c[i]
    BY <1>7, <1>10
  <2> QED  BY <1>1, <1>7, <1>9, <1>10, <1>11, <1>12, <1>13, <2>1, <2>2, Zenon DEF WalkingOK
<1>15. Len(walk'.list) < MaxSnapshots
  <2>1. Len(l) < MaxSnapshots
    BY <1>7, Constants
  <2> QED  BY <1>11, <2>1, Zenon
<1> QED  BY <1>1, <1>11, <1>14, <1>15, WalkOnly, Zenon

(* The walk has found the snapshot or is lost, or goes on to what the      *)
(* pointer file says.                                                      *)
LEMMA WalkStepOK == ASSUME Inv, WalkStep PROVE StepOK
<1>1. PICK l, c, p, x : l = walk.list /\ c = walk.chain /\ p = Len(l) /\ x = l[p]
  BY Zenon
<1>2. PICK next : next = IF x \in Id THEN hid[x] ELSE Absent
  BY Zenon
<1>3. walk' = IF x = walk.id THEN [walk EXCEPT !.pc = "found"]
              ELSE IF p + 1 >= MaxSnapshots \/ next \notin Id THEN [walk EXCEPT !.pc = "lost"]
              ELSE [walk EXCEPT !.list = Append(@, next)]
  BY <1>1, <1>2, Zenon DEF WalkStep
<1>4. /\ walk.pc = "walk" /\ walk.pc # "idle" /\ UNCHANGED <<disk, memory, op, faults>> /\ Types
      /\ dir' = dir /\ hid' = hid /\ op' = op
  BY DEF WalkStep, Inv, disk
<1>5. up /\ ~Destroying /\ Creating' = Creating /\ At("memory")' = At("memory")
  BY <1>4, WalkFacts DEF Creating, At
<1>6. /\ walk \in [pc : {"idle", "walk", "found", "lost"}, id : Id \cup {Absent},
                   list : Seq(Id \cup {Absent, Garbage}), chain : Seq(Id)]
      /\ Len(l) < MaxSnapshots
  BY <1>1, <1>4 DEF Types
<1>7. /\ l \in Seq(Id \cup {Absent, Garbage}) /\ c \in Seq(Id) /\ Len(l) \in Nat /\ Len(c) \in Nat
  BY <1>1, <1>6
<1>8. /\ walk.id \in Id /\ Len(l) >= 1
      /\ Linked(hid, c) /\ \A i \in 1 .. Len(c) : dir[c[i]] # "none"
      /\ c # << >> => hid[c[Len(c)]] = Absent
      /\ Creating /\ ~At("memory") => ~Among(op.id, c)
      /\ l[1] = Garbage => Len(l) = 1
      /\ l[1] # Garbage /\ c # << >> => Len(l) <= Len(c) /\ \A i \in 1 .. Len(l) : l[i] = c[i]
      /\ \A i \in 1 .. Len(l) - 1 : l[i] # walk.id
  <2>1. WalkingOK
    BY Zenon DEF Inv
  <2> QED  BY <1>1, <1>4, <2>1, Zenon DEF WalkingOK
<1>9. p \in 1 .. Len(l) /\ p \in Nat
  BY <1>1, <1>7, <1>8
<1>10. ASSUME l[1] # Garbage, c # << >>
       PROVE  /\ x = c[p] /\ x \in Id /\ next = hid[x] /\ p \in 1 .. Len(c)
              /\ p # Len(c) => next = c[p + 1] /\ next \in Id
              /\ p = Len(c) => next = Absent
  <2>1. x = c[p] /\ p \in 1 .. Len(c) /\ c[p] \in Id
    BY <1>1, <1>7, <1>8, <1>9, <1>10
  <2>2. next = hid[x]
    BY <1>2, <2>1
  <2>3. p # Len(c) => p \in 1 .. Len(c) - 1 /\ p + 1 \in 1 .. Len(c)
    BY <1>7, <2>1
  <2>4. p # Len(c) => next = c[p + 1] /\ next \in Id
    BY <1>7, <1>8, <2>1, <2>2, <2>3 DEF Linked
  <2>5. p = Len(c) => next = Absent
    BY <1>8, <1>10, <2>1, <2>2
  <2> QED  BY <2>1, <2>2, <2>4, <2>5
<1>11. CASE x = walk.id
  <2>1. walk' = [walk EXCEPT !.pc = "found"]
    BY <1>3, <1>11, Zenon
  <2>2. /\ walk' \in [pc : {"idle", "walk", "found", "lost"}, id : Id \cup {Absent},
                      list : Seq(Id \cup {Absent, Garbage}), chain : Seq(Id)]
        /\ walk'.pc = "found" /\ walk'.list = l /\ walk'.chain = c /\ walk'.id = walk.id
    BY <1>1, <1>6, <2>1
  <2>3. l[1] # Garbage
    <3>1. Garbage \notin Id
      BY Constants
    <3> QED  BY <1>1, <1>8, <1>11, <3>1, Zenon
  <2>4. WalkingOK'
    BY <1>4, <1>5, <1>8, <2>2, <2>3 DEF WalkingOK
  <2> QED  BY <1>4, <1>5, <1>6, <2>2, <2>4, WalkOnly, Zenon
<1>12. CASE x # walk.id /\ (p + 1 >= MaxSnapshots \/ next \notin Id)
  <2>1. walk' = [walk EXCEPT !.pc = "lost"]
    BY <1>3, <1>12, Zenon
  <2>2. /\ walk' \in [pc : {"idle", "walk", "found", "lost"}, id : Id \cup {Absent},
                      list : Seq(Id \cup {Absent, Garbage}), chain : Seq(Id)]
        /\ walk'.pc = "lost" /\ walk'.list = l /\ walk'.chain = c /\ walk'.id = walk.id
    BY <1>1, <1>6, <2>1
  <2>3. l[Len(l)] # walk.id
    BY <1>1, <1>12, Zenon
  <2>4. l[1] # Garbage /\ c # << >> => Len(l) + 1 >= MaxSnapshots \/ Len(l) = Len(c)
    BY <1>1, <1>10, <1>12, Zenon
  <2>5. WalkingOK'
    BY <1>4, <1>5, <1>8, <2>2, <2>3, <2>4, Zenon DEF WalkingOK
  <2> QED  BY <1>4, <1>5, <1>6, <2>2, <2>5, WalkOnly, Zenon
<1>13. CASE x # walk.id /\ ~(p + 1 >= MaxSnapshots \/ next \notin Id)
  <2>1. PICK m : m = Append(l, next)
    BY Zenon
  <2>2. walk' = [walk EXCEPT !.list = m]
    BY <1>1, <1>3, <1>13, <2>1, Zenon
  <2>3. /\ m \in Seq(Id \cup {Absent, Garbage}) /\ Len(m) = p + 1 /\ m[p + 1] = next
        /\ \A i \in 1 .. p : m[i] = l[i]
    BY <1>1, <1>7, <1>9, <1>13, <2>1
  <2>4. /\ walk' \in [pc : {"idle", "walk", "found", "lost"}, id : Id \cup {Absent},
                      list : Seq(Id \cup {Absent, Garbage}), chain : Seq(Id)]
        /\ walk'.pc = "walk" /\ walk'.list = m /\ walk'.chain = c /\ walk'.id = walk.id
    <3>1. m \in Seq(Id \cup {Absent, Garbage}) /\ walk.pc = "walk" /\ walk.chain = c
      BY <1>1, <1>4, <2>3, Zenon
    <3>2. walk \in [pc : {"idle", "walk", "found", "lost"}, id : Id \cup {Absent},
                    list : Seq(Id \cup {Absent, Garbage}), chain : Seq(Id)]
      BY <1>6, Zenon
    <3> QED  BY <2>2, <3>1, <3>2, Zenon
  <2>5. x \in Id
    BY <1>2, <1>13, Constants
  <2>6. l[1] # Garbage /\ m[1] = l[1]
    <3>1. l[1] # Garbage
      BY <1>1, <1>8, <2>5, Constants
    <3>2. 1 \in 1 .. p
      BY <1>9
    <3> QED  BY <2>3, <3>1, <3>2, Zenon
  <2>7. c # << >> => Len(m) <= Len(c) /\ \A i \in 1 .. Len(m) : m[i] = c[i]
    <3>1. SUFFICES ASSUME c # << >>
                   PROVE  Len(m) <= Len(c) /\ \A i \in 1 .. Len(m) : m[i] = c[i]
      OBVIOUS
    <3>2. p \in 1 .. Len(c) /\ p # Len(c) /\ next = c[p + 1]
      BY <1>10, <1>13, <2>6, <3>1, Constants
    <3>3. Len(m) <= Len(c)
      BY <1>7, <2>3, <3>2
    <3>4. \A i \in 1 .. p : m[i] = c[i]
      BY <1>1, <1>8, <2>3, <2>6, <3>1
    <3>5. \A i \in 1 .. Len(m) : i \in 1 .. p \/ i = p + 1
      BY <1>9, <2>3
    <3> QED  BY <2>3, <3>2, <3>3, <3>4, <3>5, Zenon
  <2>8. \A i \in 1 .. Len(m) - 1 : m[i] # walk.id
    <3>1. \A i \in 1 .. Len(m) - 1 : i \in 1 .. p /\ (i = p \/ i \in 1 .. Len(l) - 1)
      BY <1>1, <1>9, <2>3
    <3>2. \A i \in 1 .. p : m[i] = l[i]
      BY <2>3, Zenon
    <3>3. \A i \in 1 .. Len(l) - 1 : l[i] # walk.id
      BY <1>8, Zenon
    <3>4. l[p] # walk.id
      BY <1>1, <1>13, Zenon
    <3> QED  BY <3>1, <3>2, <3>3, <3>4, Zenon
  <2>9. Len(m) >= 1 /\ Len(m) < MaxSnapshots
    <3>1. ~(p + 1 >= MaxSnapshots) /\ MaxSnapshots \in Nat /\ p \in Nat /\ Len(m) = p + 1
      BY <1>9, <1>13, <2>3, Constants, Zenon
    <3> QED  BY <3>1
  <2>10. WalkingOK'
    BY <1>4, <1>5, <1>8, <2>4, <2>6, <2>7, <2>8, <2>9 DEF WalkingOK
  <2> QED  BY <1>4, <1>5, <2>4, <2>9, <2>10, WalkOnly, Zenon
<1> QED  BY <1>11, <1>12, <1>13

(* The walk is over.                                                       *)
LEMMA WalkEndOK == ASSUME Inv, WalkEnd PROVE StepOK
<1>1. walk.pc # "idle" /\ UNCHANGED <<disk, memory, op, faults>> /\ walk' = NoWalk
  BY DEF WalkEnd
<1>2. up
  BY <1>1, WalkFacts, Zenon
<1>3. walk' = [pc |-> "idle", id |-> Absent, list |-> << >>, chain |-> << >>]
  BY <1>1, Zenon DEF NoWalk
<1>4. /\ walk' \in [pc : {"idle", "walk", "found", "lost"}, id : Id \cup {Absent},
                    list : Seq(Id \cup {Absent, Garbage}), chain : Seq(Id)]
      /\ walk'.pc = "idle" /\ walk'.list = << >>
  BY <1>3
<1>5. WalkingOK' /\ Len(walk'.list) < MaxSnapshots
  BY <1>4, Constants DEF WalkingOK
<1> QED  BY <1>1, <1>2, <1>4, <1>5, WalkOnly, Zenon

-----------------------------------------------------------------------------
(* The process dies: what is found on disk is the list as it was, or with  *)
(* the snapshot that was about to become the latest one, or without the    *)
(* only one when that was being removed.                                   *)
LEMMA CrashOK == ASSUME Inv, Crash PROVE StepOK
<1>1. /\ up /\ Types /\ up' = FALSE /\ any' = FALSE /\ lat' = Absent /\ number' = 0
      /\ op' = NoOp /\ walk' = NoWalk /\ dir' = dir /\ hid' = hid /\ Done
      /\ TornCrash \/ hid[Top] # Empty
  BY DEF Crash, Inv, disk, Done
<1>2. faults' \in FaultType /\ faults'.error = faults.error /\ faults'.left = faults.left
  <2>1. faults \in FaultType
    BY <1>1 DEF Types
  <2> QED  BY <2>1 DEF Crash, FaultType
<1>3. /\ op' \in [pc : OpPc, id : Id \cup {Absent}, prev : Id \cup {Top, Absent}]
      /\ op'.pc = "idle" /\ ~Creating' /\ ~Destroying'
  BY <1>1, DoneFacts, Zenon
<1>4. /\ walk' \in [pc : {"idle", "walk", "found", "lost"}, id : Id \cup {Absent},
                    list : Seq(Id \cup {Absent, Garbage}), chain : Seq(Id)]
      /\ walk'.pc = "idle" /\ Len(walk'.list) < MaxSnapshots
  BY <1>1, Constants DEF NoWalk
<1>5. Types'
  <2>1. number' \in 0 .. MaxCreate
    BY <1>1, Constants
  <2> QED  BY <1>1, <1>2, <1>3, <1>4, <2>1, Zenon DEF Types
<1>6. MemoryOK' /\ CreatingOK' /\ DestroyingOK' /\ WalkingOK' /\ PointerNeedsDir'
  BY <1>1, <1>2, <1>3, <1>4, Zenon
  DEF MemoryOK, CreatingOK, DestroyingOK, WalkingOK, PointerNeedsDir, Inv
<1>7. Latest' = hid[Top]
  BY <1>1, Zenon DEF Latest
<1>8. ASSUME NEW c, IsChain(hid, c, hid[Top]), \A i \in 1 .. Len(c) : dir[c[i]] # "none",
             faults.error = 0 => \A i \in 1 .. Len(c) : dir[c[i]] = "whole",
             TornCrash \/ c = Chain \/ (\E y \in Id : ~Among(y, Chain) /\ c = <<y>> \o Chain)
             \/ (Chain # << >> /\ c = SubSeq(Chain, 1, Len(Chain) - 1))
      PROVE  StepOK
  <2>1. Chain' = c
    BY <1>1, <1>7, <1>8, NextChain, Zenon
  <2>2. ChainOK' /\ ChainWhole'
    BY <1>1, <1>2, <1>7, <1>8, <2>1, Zenon DEF ChainOK, ChainWhole
  <2>3. TornCrash \/ Chain' = Chain \/ List!ListNext
    BY <1>8, <2>1, Zenon DEF List!ListNext, List!CreateSn, List!DestroySn, Among
  <2> QED  BY <1>5, <1>6, <2>2, <2>3, Zenon DEF StepOK, Inv
<1>9. CASE At("memory")
  <2>1. Creating
    BY <1>9 DEF At, Creating
  <2>2. op.id \in Id /\ ~Among(op.id, Chain) /\ hid[op.id] = (IF any THEN lat ELSE Absent)
        /\ hid[Top] = op.id /\ dir[op.id] = "whole"
    BY <1>9, <2>1, CreateFacts DEF At
  <2>0. PICK y : y = op.id
    BY Zenon
  <2>3. PICK c : c = <<y>> \o Chain
    BY Zenon
  <2>4. IsChain(hid, c, hid[Top])
    BY <1>1, <2>0, <2>2, <2>3, LongerChain, Zenon
  <2>5. Chain \in Seq(Id) /\ Len(Chain) \in Nat /\ y \in Id
    BY <2>0, <2>2, Basics, Zenon
  <2>6. \A i \in 1 .. Len(c) : c[i] = y \/ \E j \in 1 .. Len(Chain) : c[i] = Chain[j]
    BY <2>3, <2>5, InLonger
  <2>7. ~At("removeonly")
    BY <1>9 DEF At
  <2>8. /\ \A i \in 1 .. Len(c) : dir[c[i]] # "none"
        /\ faults.error = 0 => \A i \in 1 .. Len(c) : dir[c[i]] = "whole"
    <3>1. \A j \in 1 .. Len(Chain) : dir[Chain[j]] # "none"
      BY Basics, Zenon
    <3>2. faults.error = 0 => \A j \in 1 .. Len(Chain) : dir[Chain[j]] = "whole"
      BY <2>7, Zenon DEF Inv, ChainWhole
    <3> QED  BY <2>0, <2>2, <2>6, <3>1, <3>2
  <2> QED  BY <1>8, <2>0, <2>2, <2>3, <2>4, <2>8, Zenon
<1>10. CASE ~At("memory")
  <2>1. hid[Top] \in {Empty, Latest} \/ (hid[Top] = Absent /\ Len(Chain) = 1)
    BY <1>1, <1>10, Zenon DEF Inv, MemoryOK
  <2>2. CASE hid[Top] \in Id
    <3>1. hid[Top] = Latest /\ IsChain(hid, Chain, Latest)
      <4>1. hid[Top] = Latest
        BY <2>1, <2>2, Constants, Zenon
      <4> QED  BY <4>1, Zenon DEF Inv, ChainOK
    <3>2. ~At("removeonly")
      <4>1. At("removeonly") => Destroying
        BY DEF At, Destroying
      <4> QED  BY <2>2, <4>1, DestroyFacts, Constants
    <3>3. faults.error = 0 => \A i \in 1 .. Len(Chain) : dir[Chain[i]] = "whole"
      BY <3>2, Zenon DEF Inv, ChainWhole
    <3> QED  BY <1>8, <3>1, <3>3, Basics, Zenon
  <2>3. CASE hid[Top] \notin Id
    <3>1. PICK c : c = << >>
      BY Zenon
    <3>2. IsChain(hid, c, hid[Top]) /\ \A i \in 1 .. Len(c) : FALSE
      BY <2>3, <3>1 DEF IsChain, Linked
    <3>3. TornCrash \/ c = Chain \/ (Chain # << >> /\ c = SubSeq(Chain, 1, Len(Chain) - 1))
      <4>1. CASE hid[Top] = Empty
        BY <1>1, <4>1
      <4>2. CASE hid[Top] = Latest
        BY <2>3, <3>1, <4>2, Basics, Zenon
      <4>3. CASE Len(Chain) = 1
        <5>1. SubSeq(Chain, 1, Len(Chain) - 1) = << >> /\ Chain # << >>
          BY <4>3, Basics
        <5> QED  BY <3>1, <5>1, Zenon
      <4> QED  BY <2>1, <4>1, <4>2, <4>3, Zenon
    <3> QED  BY <1>8, <3>2, <3>3, Zenon
  <2> QED  BY <2>2, <2>3
<1> QED  BY <1>9, <1>10

(* Mounting reads the latest snapshot from snapshots/.hid.                 *)
LEMMA MountOK == ASSUME Inv, Mount PROVE StepOK
<1>1. /\ ~up /\ up' = TRUE /\ any' = (hid[Top] # Absent) /\ lat' = hid[Top] /\ hid[Top] # Empty
      /\ Types /\ number' = number /\ op' = op /\ walk' = walk /\ dir' = dir /\ hid' = hid
      /\ faults' = faults
  BY DEF Mount, Inv, disk
<1>2. hid[Top] \in Id \cup {Absent} /\ any' \in BOOLEAN
  BY <1>1 DEF Types
<1>3. op = NoOp /\ op.pc = "idle" /\ ~Creating' /\ ~Destroying' /\ ~At("memory")' /\ ~At("removeonly")
      /\ ~At("removeonly")'
  <2>1. op = [pc |-> "idle", id |-> Absent, prev |-> Absent]
    BY <1>1 DEF Inv, MemoryOK, NoOp
  <2> QED  BY <1>1, <2>1 DEF Creating, Destroying, At, NoOp
<1>4. Types'
  BY <1>1, <1>2, Zenon DEF Types
<1>5. Latest' = hid[Top] /\ Latest = hid[Top]
  BY <1>1, Zenon DEF Latest
<1>6. Chain' = Chain
  BY <1>1, <1>5, SameChain, Zenon
<1>7. ChainOK' /\ CreatingOK' /\ DestroyingOK' /\ ChainWhole' /\ PointerNeedsDir'
  BY <1>1, <1>3, <1>5, <1>6, Zenon
  DEF ChainOK, CreatingOK, DestroyingOK, ChainWhole, PointerNeedsDir, Inv
<1>8. MemoryOK'
  <2>1. any' => lat' \in Id
    BY <1>1, <1>2, Zenon
  <2> QED  BY <1>1, <1>5, <2>1 DEF MemoryOK
<1>9. WalkingOK'
  BY <1>1, <1>3, WalkingKept, Zenon
<1> QED  BY <1>4, <1>6, <1>7, <1>8, <1>9, Zenon DEF StepOK, Inv

-----------------------------------------------------------------------------
(* Every step of snapshot.c, of the walk, of a crash and of a mount        *)
(* preserves the invariant and changes the list only as it may.            *)
LEMMA NextOK == ASSUME Inv, [Next]_vars, ~faults'.adopted PROVE StepOK
<1>1. ASSUME NEW x \in Id, Mkdir(x) PROVE StepOK
  BY <1>1, MkdirOK
<1>2. ASSUME NEW x \in Id, WalkStart(x) PROVE StepOK
  BY <1>2, WalkStartOK
<1>3. ASSUME UNCHANGED vars PROVE StepOK
  <2>1. /\ dir' = dir /\ hid' = hid /\ up' = up /\ any' = any /\ lat' = lat /\ number' = number
        /\ op' = op /\ walk' = walk /\ faults' = faults
    BY <1>3 DEF vars
  <2>2. Latest' = Latest
    BY <2>1, Zenon DEF Latest
  <2>3. Chain' = Chain
    BY <2>1, <2>2, SameChain, Zenon
  <2>4. Types' /\ PointerNeedsDir' /\ ChainWhole' /\ ChainOK'
    <3>1. Types /\ PointerNeedsDir /\ ChainWhole /\ ChainOK
      BY Zenon DEF Inv
    <3>2. Types'
      BY <2>1, <3>1, Zenon DEF Types
    <3>3. PointerNeedsDir'
      BY <2>1, <3>1, Zenon DEF PointerNeedsDir, At
    <3>4. ChainWhole'
      BY <2>1, <2>3, <3>1, Zenon DEF ChainWhole, At
    <3>5. ChainOK'
      BY <2>1, <2>2, <2>3, <3>1, Zenon DEF ChainOK
    <3> QED  BY <3>2, <3>3, <3>4, <3>5, Zenon
  <2>5. MemoryOK' /\ CreatingOK' /\ DestroyingOK'
    BY <2>1, <2>2, <2>3, Zenon
    DEF MemoryOK, CreatingOK, DestroyingOK, Creating, Destroying, At, Inv
  <2>6. WalkingOK'
    BY <2>1, Zenon DEF WalkingOK, Creating, At, Inv
  <2> QED  BY <2>3, <2>4, <2>5, <2>6, Zenon DEF StepOK, Inv
<1> QED
  BY <1>1, <1>2, <1>3, CreateHidOK, WriteHidOK, SetLatestOK, SetMemoryOK, UnlinkHidOK,
     UnlinkHidFailsOK, RmdirNewOK, DestroyOK, UnlinkPointerOK, UnlinkPointerFailsOK, RemoveSomeOK, RemoveFailsOK, RemoveAllOK,
     WalkStepOK, WalkEndOK, CrashOK, MountOK, Zenon
  DEF Next

(* Before the first mount there are no snapshots.                          *)
LEMMA InitOK == Init => Inv /\ Chain = << >>
<1>1. SUFFICES ASSUME Init PROVE Inv /\ Chain = << >>
  OBVIOUS
<1>0. /\ hid \in [Id \cup {Top} -> Id \cup {Absent, Empty}] /\ dir \in [Id -> {"none", "whole", "part"}]
      /\ hid[Top] = Absent /\ (\A x \in Id : hid[x] = Absent)
  <2>1. hid = [x \in Id \cup {Top} |-> Absent] /\ dir = [x \in Id |-> "none"]
    BY <1>1, Zenon DEF Init
  <2> QED  BY <2>1
<1>2. /\ up = FALSE /\ any = FALSE /\ lat = Absent /\ number = 0
      /\ op = [pc |-> "idle", id |-> Absent, prev |-> Absent]
      /\ walk = [pc |-> "idle", id |-> Absent, list |-> << >>, chain |-> << >>]
      /\ faults = [error |-> 0, crash |-> 0, left |-> {}, adopted |-> FALSE]
  BY <1>1, Zenon DEF Init, NoOp, NoWalk
<1>3. Latest = Absent
  BY <1>0, <1>2 DEF Latest
<1>4. PICK c : c = << >>
  BY Zenon
<1>5. IsChain(hid, c, Latest) /\ \A i \in 1 .. Len(c) : FALSE
  BY <1>3, <1>4, Constants DEF IsChain, Linked
<1>6. Chain = c
  BY <1>5, ChainIs, Zenon DEF Chain
<1>7. op.pc = "idle" /\ walk.pc = "idle" /\ ~Creating /\ ~Destroying /\ op = NoOp /\ walk = NoWalk
  BY <1>0, <1>2 DEF Creating, Destroying, NoOp, NoWalk
<1>8. Types
  <2>1. /\ op \in [pc : OpPc, id : Id \cup {Absent}, prev : Id \cup {Top, Absent}]
        /\ number \in 0 .. MaxCreate /\ faults \in FaultType
    BY <1>0, <1>2, Constants DEF OpPc, FaultType
  <2>2. /\ walk \in [pc : {"idle", "walk", "found", "lost"}, id : Id \cup {Absent},
                     list : Seq(Id \cup {Absent, Garbage}), chain : Seq(Id)]
        /\ Len(walk.list) < MaxSnapshots
    BY <1>0, <1>2, Constants
  <2> QED  BY <1>0, <1>2, <2>1, <2>2, Zenon DEF Types
<1>9. ChainOK /\ ChainWhole /\ PointerNeedsDir
  BY <1>0, <1>2, <1>5, <1>6, Zenon DEF ChainOK, ChainWhole, PointerNeedsDir
<1>10. MemoryOK /\ CreatingOK /\ DestroyingOK /\ WalkingOK
  BY <1>0, <1>2, <1>7, Zenon DEF MemoryOK, CreatingOK, DestroyingOK, WalkingOK
<1> QED  BY <1>4, <1>6, <1>8, <1>9, <1>10, Zenon DEF Inv

-----------------------------------------------------------------------------
(* Whatever the pointer files say, following them from x gives snapshots.  *)
LEMMA ChainType ==
    ASSUME NEW h, NEW x
    PROVE  ChainFrom(h, x) \in Seq(Id) /\ (x \in Id => Len(ChainFrom(h, x)) >= 1)
<1> DEFINE Walks == {c \in UNION {[1 .. n -> Id] : n \in 0 .. Cardinality(Id)} :
                         (c # << >> => c[1] = x) /\ Linked(h, c)}
           Missing == {k \in Nat : \E c \in Walks : k = Cardinality(Id) - Len(c)}
<1>1. IsFiniteSet(Id) /\ Cardinality(Id) \in Nat
  BY SnapshotAssumption, FS_CardinalityType, Zenon
<1>2. ASSUME NEW c \in Walks
      PROVE  c \in Seq(Id) /\ Len(c) \in 0 .. Cardinality(Id)
  <2>1. PICK n \in 0 .. Cardinality(Id) : c \in [1 .. n -> Id]
    BY <1>2, Zenon
  <2> QED  BY <1>1, <2>1
<1>3. ASSUME NEW c \in Seq(Id), Len(c) \in 0 .. Cardinality(Id), c # << >> => c[1] = x,
             Linked(h, c)
      PROVE  c \in Walks
  <2>1. c \in [1 .. Len(c) -> Id]
    OBVIOUS
  <2> QED  BY <1>3, <2>1, Zenon
<1>4. PICK w \in Walks : \A c \in Walks : Len(c) <= Len(w)
  <2>1. PICK e : e = << >>
    BY Zenon
  <2>2. e \in Seq(Id) /\ Len(e) = 0 /\ e = << >> /\ Len(e) \in 0 .. Cardinality(Id)
    BY <1>1, <2>1
  <2>3. Linked(h, e)
    BY <2>2 DEF Linked
  <2>4. e \in Walks
    BY <1>3, <2>2, <2>3, Zenon
  <2> HIDE DEF Walks
  <2>5. \A c \in Walks : Cardinality(Id) - Len(c) \in Missing
    BY <1>1, <1>2
  <2>6. Missing # {} /\ Missing \subseteq Nat
    BY <2>4, <2>5
  <2>7. PICK k \in Missing : \A j \in Missing : k <= j
    <3> HIDE DEF Missing
    <3> QED  BY <2>6, HasLeast, Zenon
  <2>8. PICK w \in Walks : k = Cardinality(Id) - Len(w)
    BY <2>7
  <2>9. ASSUME NEW c \in Walks PROVE Len(c) <= Len(w)
    <3>1. k <= Cardinality(Id) - Len(c)
      BY <2>5, <2>7, <2>9, Zenon
    <3>2. Len(c) \in Nat /\ Len(w) \in Nat
      BY <1>1, <1>2, <2>8, <2>9
    <3> QED  BY <1>1, <2>8, <3>1, <3>2
  <2> QED  BY <2>8, <2>9, Zenon
<1>5. PICK d : d = ChainFrom(h, x)
  BY Zenon
<1>6. d \in Walks /\ \A c \in Walks : Len(c) <= Len(d)
  BY <1>4, <1>5, Zenon DEF ChainFrom
<1>7. ASSUME x \in Id PROVE Len(d) >= 1
  <2>1. PICK e : e = <<x>>
    BY Zenon
  <2>2. Cardinality(Id) # 0
    BY <1>1, <1>7, FS_EmptySet
  <2>3. e \in Seq(Id) /\ Len(e) = 1 /\ e[1] = x /\ Len(e) \in 0 .. Cardinality(Id)
    BY <1>1, <1>7, <2>1, <2>2
  <2>4. Linked(h, e)
    BY <2>3 DEF Linked
  <2>5. e \in Walks
    BY <1>3, <2>3, <2>4, Zenon
  <2>6. Len(e) <= Len(d) /\ Len(d) \in 0 .. Cardinality(Id)
    BY <1>2, <1>6, <2>5, Zenon
  <2> QED  BY <1>1, <2>3, <2>6
<1> QED  BY <1>2, <1>5, <1>6, <1>7, Zenon

(* The chain that sn_get_earliest and sn_get_paths_to walk along.          *)
LEMMA ChainSeq == Chain \in Seq(Id) /\ (Latest \in Id => Len(Chain) >= 1)
<1>1. PICK h, x : h = hid /\ x = Latest
  BY Zenon
<1> QED  BY <1>1, ChainType, Zenon DEF Chain

(* What a step may do to the faults: errors and files left behind are      *)
(* remembered, and a file is adopted only where one was left.              *)
FaultsGrow ==
    /\ faults' \in FaultType /\ (faults'.error = 0 => faults.error = 0)
    /\ faults.left \subseteq faults'.left
    /\ faults'.left # faults.left => faults'.error # 0
    /\ faults'.adopted # faults.adopted => faults'.adopted /\ faults.left # {}

(* A step that changes pointer files, directories and the request, but not *)
(* what is in memory.                                                      *)
LEMMA BaseKept ==
    ASSUME Base, FaultsGrow, UNCHANGED <<memory, walk>>,
           op' \in [pc : OpPc, id : Id \cup {Absent}, prev : Id \cup {Top, Absent}],
           dir' \in [Id -> {"none", "whole", "part"}],
           hid' \in [Id \cup {Top} -> Id \cup {Absent, Empty}],
           PointerNeedsDir', up \/ op'.pc = "idle",
           Creating' => /\ op'.id \in Id /\ dir'[op'.id] = "whole" /\ number < MaxCreate
                        /\ op'.pc \in {"hid", "writehid"} => any
                        /\ MayKeepPointer' => hid'[op'.id] = Absent \/ op'.id \in faults'.left,
           Destroying' => op'.id \in Id /\ hid'[op'.id] = Absent
    PROVE  Base'
<1>1. /\ up' = up /\ any' = any /\ lat' = lat /\ number' = number /\ walk' = walk
      /\ Types /\ (any => lat \in Id)
  BY DEF memory, Base
<1>2. Types'
  BY <1>1, Zenon DEF Types, FaultsGrow
<1>3. faults'.left # {} \/ faults'.adopted => faults'.error # 0
  BY Zenon DEF Base, FaultsGrow
<1> QED  BY <1>1, <1>2, <1>3, Zenon DEF Base

(* A system call works or fails.                                           *)
LEMMA FaultsGrowOrNot ==
    ASSUME Base, Works \/ Fails
    PROVE  FaultsGrow /\ faults'.left = faults.left /\ faults'.adopted = faults.adopted
<1>1. faults \in FaultType
  BY DEF Base, Types
<1>2. CASE Works
  BY <1>1, <1>2 DEF Works, FaultsGrow
<1>3. CASE Fails
  BY <1>1, <1>3 DEF Fails, FaultsGrow, FaultType
<1> QED  BY <1>2, <1>3

(* sn_create goes on to the next system call, or to its cleanup.           *)
LEMMA BaseCreate ==
    ASSUME Base, Creating, FaultsGrow, UNCHANGED <<dir, memory, walk>>,
           NEW l \in {"writehid", "top", "writetop", "memory", "unhid", "rmdir"}, Goto(l),
           hid' \in [Id \cup {Top} -> Id \cup {Absent, Empty}],
           \A x \in Id \ {op.id} : hid'[x] = hid[x], l = "writehid" => any,
           l = "rmdir" \/ (~any /\ l \in {"top", "writetop"})
               => hid'[op.id] = Absent \/ op.id \in faults'.left
    PROVE  Base'
<1>1. /\ Types /\ PointerNeedsDir /\ op.id \in Id /\ dir[op.id] = "whole" /\ number < MaxCreate
      /\ dir' = dir /\ any' = any
  BY Zenon DEF Base, memory
<1>2. /\ op' \in [pc : OpPc, id : Id \cup {Absent}, prev : Id \cup {Top, Absent}]
      /\ op'.pc = l /\ op'.id = op.id /\ ~Destroying'
  BY <1>1 DEF Types, Goto, OpPc, Destroying
<1>3. MayKeepPointer' => hid'[op.id] = Absent \/ op.id \in faults'.left
  BY <1>1, <1>2 DEF MayKeepPointer
<1>4. PointerNeedsDir'
  BY <1>1, Zenon DEF PointerNeedsDir, FaultsGrow
<1>5. dir' \in [Id -> {"none", "whole", "part"}]
  BY <1>1, Zenon DEF Types
<1>6. up /\ (op'.pc \in {"hid", "writehid"} => any)
  BY <1>2 DEF Base, Creating
<1> QED  BY <1>1, <1>2, <1>3, <1>4, <1>5, <1>6, BaseKept, Zenon

(* Each step of sn_create before the latest snapshot is set in memory.     *)
LEMMA CreateBase ==
    ASSUME Base, \/ CreateHid \/ CreateHidFails \/ WriteHid \/ WriteHidFails
                 \/ OpenTop \/ WriteTop \/ SetLatestFails \/ UnlinkHid \/ UnlinkHidFails
    PROVE  Base' /\ (~faults'.adopted => ~faults.adopted)
<1>1. op.pc \in {"hid", "writehid", "top", "writetop", "unhid"}
  BY DEF CreateHid, CreateHidFails, WriteHid, WriteHidFails, OpenTop, WriteTop, SetLatestFails,
         UnlinkHid, UnlinkHidFails, At
<1>2. Creating /\ Types
  BY <1>1 DEF Creating, Base
<1>3. /\ op.id \in Id /\ op.id # Top /\ faults \in FaultType /\ lat \in Id \cup {Absent}
      /\ hid \in [Id \cup {Top} -> Id \cup {Absent, Empty}]
      /\ MayKeepPointer => hid[op.id] = Absent \/ op.id \in faults.left
      /\ op.pc \in {"hid", "writehid"} => any
  BY <1>2, Constants, Zenon DEF Base, Types
<1>4. /\ At("hid") => MayKeepPointer
      /\ ~any /\ (At("top") \/ At("writetop")) => MayKeepPointer
  BY DEF MayKeepPointer, At
<1>5. UNCHANGED <<dir, memory, walk>>
  BY Zenon DEF CreateHid, CreateHidFails, WriteHid, WriteHidFails, OpenTop, WriteTop,
               SetLatestFails, UnlinkHid, UnlinkHidFails, disk
<1>6. CASE CreateHid
  <2>1. Works /\ Goto("writehid") /\ any
    BY <1>3, <1>6 DEF CreateHid, At
  <2>2. /\ hid' \in [Id \cup {Top} -> Id \cup {Absent, Empty}]
        /\ \A x \in Id \ {op.id} : hid'[x] = hid[x]
    BY <1>3, <1>6 DEF CreateHid, Pointer
  <2>3. FaultsGrow /\ faults'.adopted = faults.adopted
    BY <2>1, FaultsGrowOrNot, Zenon
  <2> QED  BY <1>2, <1>5, <2>1, <2>2, <2>3, BaseCreate
<1>7. CASE CreateHidFails
  <2>1. (Works \/ Fails) /\ Goto("rmdir") /\ hid' = hid /\ At("hid")
    BY <1>7 DEF CreateHidFails, disk
  <2>2. FaultsGrow /\ faults'.adopted = faults.adopted /\ faults'.left = faults.left
    BY <2>1, FaultsGrowOrNot, Zenon
  <2>3. hid'[op.id] = Absent \/ op.id \in faults'.left
    BY <1>3, <1>4, <2>1, <2>2, Zenon
  <2> QED  BY <1>2, <1>3, <1>5, <2>1, <2>2, <2>3, BaseCreate
<1>8. CASE WriteHid
  <2>1. Works /\ Goto("top") /\ any
    BY <1>3, <1>8 DEF WriteHid, At
  <2>2. /\ hid' \in [Id \cup {Top} -> Id \cup {Absent, Empty}]
        /\ \A x \in Id \ {op.id} : hid'[x] = hid[x]
    BY <1>3, <1>8 DEF WriteHid, Pointer
  <2>3. FaultsGrow /\ faults'.adopted = faults.adopted
    BY <2>1, FaultsGrowOrNot, Zenon
  <2> QED  BY <1>2, <1>5, <2>1, <2>2, <2>3, BaseCreate
<1>9. CASE WriteHidFails
  <2>1. Fails /\ Goto("unhid") /\ hid' = hid
    BY <1>9 DEF WriteHidFails, disk
  <2>2. FaultsGrow /\ faults'.adopted = faults.adopted
    BY <2>1, FaultsGrowOrNot, Zenon
  <2> QED  BY <1>2, <1>3, <1>5, <2>1, <2>2, BaseCreate
<1>10. CASE OpenTop \/ WriteTop
  <2>1. PICK l \in {"writetop", "memory"} : Goto(l)
    BY <1>10 DEF OpenTop, WriteTop
  <2>2. Works /\ (At("top") \/ At("writetop"))
    BY <1>10, Zenon DEF OpenTop, WriteTop
  <2>3. /\ hid' \in [Id \cup {Top} -> Id \cup {Absent, Empty}]
        /\ \A x \in Id : hid'[x] = hid[x]
    BY <1>3, <1>10, Constants DEF OpenTop, WriteTop, Pointer
  <2>4. FaultsGrow /\ faults'.adopted = faults.adopted /\ faults'.left = faults.left
    BY <2>2, FaultsGrowOrNot, Zenon
  <2>5. ~any => hid'[op.id] = Absent \/ op.id \in faults'.left
    BY <1>3, <1>4, <2>2, <2>3, <2>4, Zenon
  <2> QED  BY <1>2, <1>5, <2>1, <2>3, <2>4, <2>5, BaseCreate
<1>11. CASE SetLatestFails
  <2>1. Fails /\ Goto(IF any THEN "unhid" ELSE "rmdir") /\ hid' = hid /\ (At("top") \/ At("writetop"))
    BY <1>11, Zenon DEF SetLatestFails, disk
  <2>2. FaultsGrow /\ faults'.adopted = faults.adopted /\ faults'.left = faults.left
    BY <2>1, FaultsGrowOrNot, Zenon
  <2>3. CASE any
    <3>1. Goto("unhid")
      BY <2>1, <2>3, Zenon
    <3> QED  BY <1>2, <1>3, <1>5, <2>1, <2>2, <3>1, BaseCreate
  <2>4. CASE ~any
    <3>1. Goto("rmdir") /\ (hid'[op.id] = Absent \/ op.id \in faults'.left)
      BY <1>3, <1>4, <2>1, <2>2, <2>4, Zenon
    <3> QED  BY <1>2, <1>3, <1>5, <2>1, <2>2, <3>1, BaseCreate
  <2> QED  BY <2>3, <2>4
<1>12. CASE UnlinkHid
  <2>1. Works /\ Goto("rmdir")
    BY <1>12, Zenon DEF UnlinkHid
  <2>2. /\ hid' \in [Id \cup {Top} -> Id \cup {Absent, Empty}]
        /\ hid'[op.id] = Absent /\ \A x \in Id \ {op.id} : hid'[x] = hid[x]
    BY <1>3, <1>12 DEF UnlinkHid, Pointer
  <2>3. FaultsGrow /\ faults'.adopted = faults.adopted
    BY <2>1, FaultsGrowOrNot, Zenon
  <2> QED  BY <1>2, <1>5, <2>1, <2>2, <2>3, BaseCreate
<1>13. CASE UnlinkHidFails
  <2>1. Goto("rmdir") /\ hid' = hid
    BY <1>13 DEF UnlinkHidFails, disk
  <2>2. /\ faults' \in FaultType /\ faults'.error # 0 /\ faults'.adopted = faults.adopted
        /\ faults.left \subseteq faults'.left /\ op.id \in faults'.left
    BY <1>3, <1>13, LeftBehind, Zenon
  <2>3. FaultsGrow
    BY <2>2, Zenon DEF FaultsGrow
  <2> QED  BY <1>2, <1>3, <1>5, <2>1, <2>2, <2>3, BaseCreate
<1> QED  BY <1>6, <1>7, <1>8, <1>9, <1>10, <1>11, <1>12, <1>13

(* mkdir makes the directory; where it finds a pointer file there was one  *)
(* left behind.                                                            *)
LEMMA MkdirBase ==
    ASSUME Base, NEW y \in Id, Mkdir(y) PROVE Base' /\ (~faults'.adopted => ~faults.adopted)
<1>1. /\ Types /\ PointerNeedsDir /\ dir[y] = "none" /\ hid' = hid /\ number < MaxCreate
      /\ up /\ any' = any /\ UNCHANGED <<memory, walk>>
  BY DEF Mkdir, Base, memory
<1>2. /\ dir' \in [Id -> {"none", "whole", "part"}] /\ dir'[y] = "whole"
      /\ (\A x \in Id \ {y} : dir'[x] = dir[x])
      /\ faults \in FaultType /\ hid \in [Id \cup {Top} -> Id \cup {Absent, Empty}]
  BY <1>1 DEF Mkdir, Types
<1>3. hid[y] # Absent => y \in faults.left
  BY <1>1, Zenon DEF PointerNeedsDir
<1>4. FaultsGrow /\ faults'.left = faults.left /\ (~faults'.adopted => ~faults.adopted)
  <2>1. CASE ~any /\ hid[y] # Absent
    <3>1. faults' = [faults EXCEPT !.adopted = TRUE]
      BY <2>1, Zenon DEF Mkdir
    <3>2. faults \in [error : Nat, crash : Nat, left : SUBSET Id, adopted : BOOLEAN]
      BY <1>2, Zenon DEF FaultType
    <3>3. faults' \in FaultType
      BY <3>1, <3>2, Zenon DEF FaultType
    <3>4. faults'.error = faults.error /\ faults'.left = faults.left /\ faults'.adopted = TRUE
      BY <3>1, <3>2, Zenon
    <3> QED  BY <1>3, <2>1, <3>3, <3>4, Zenon DEF FaultsGrow
  <2>2. CASE ~(~any /\ hid[y] # Absent)
    <3>1. faults' = faults
      BY <2>2, Zenon DEF Mkdir
    <3> QED  BY <1>2, <3>1, Zenon DEF FaultsGrow
  <2> QED  BY <2>1, <2>2
<1>5. PICK l : l = IF any THEN "hid" ELSE "top"
  BY Zenon
<1>6. op' = [pc |-> l, id |-> y, prev |-> Absent]
  <2>1. op' = [NoOp EXCEPT !.pc = l, !.id = y]
    BY <1>5, Zenon DEF Mkdir
  <2> QED  BY <2>1, Zenon DEF NoOp
<1>7. /\ op' \in [pc : OpPc, id : Id \cup {Absent}, prev : Id \cup {Top, Absent}]
      /\ op'.id = y /\ ~Destroying' /\ (op'.pc \in {"hid", "writehid"} => any)
  BY <1>5, <1>6 DEF OpPc, Destroying
<1>8. PointerNeedsDir'
  BY <1>1, <1>2, <1>3, <1>4, Zenon DEF PointerNeedsDir
<1>9. Base'
  BY <1>1, <1>2, <1>3, <1>4, <1>7, <1>8, BaseKept
<1> QED  BY <1>4, <1>9, Zenon

(* sn_create ends, with or without its directory.                          *)
LEMMA RmdirBase ==
    ASSUME Base, RmdirNew \/ RmdirNewFails PROVE Base' /\ (~faults'.adopted => ~faults.adopted)
<1>1. /\ Types /\ PointerNeedsDir /\ op.pc = "rmdir" /\ hid' = hid /\ Done
      /\ UNCHANGED <<memory, walk>> /\ (Works \/ Fails)
  BY DEF RmdirNew, RmdirNewFails, Base, At, disk
<1>2. op.id \in Id /\ (hid[op.id] = Absent \/ op.id \in faults.left)
  BY <1>1 DEF Base, Creating, MayKeepPointer
<1>3. /\ dir' \in [Id -> {"none", "whole", "part"}]
      /\ (\A x \in Id \ {op.id} : dir'[x] = dir[x])
      /\ hid \in [Id \cup {Top} -> Id \cup {Absent, Empty}]
  BY <1>1 DEF RmdirNew, RmdirNewFails, Types, disk
<1>4. FaultsGrow /\ faults'.left = faults.left /\ faults'.adopted = faults.adopted
  BY <1>1, FaultsGrowOrNot, Zenon
<1>5. /\ op' \in [pc : OpPc, id : Id \cup {Absent}, prev : Id \cup {Top, Absent}]
      /\ ~Creating' /\ ~Destroying' /\ op'.pc = "idle"
  BY <1>1, DoneFacts, Zenon
<1>6. PointerNeedsDir'
  BY <1>1, <1>2, <1>3, <1>4, Zenon DEF PointerNeedsDir
<1>7. Base'
  BY <1>1, <1>3, <1>4, <1>5, <1>6, BaseKept, Zenon
<1> QED  BY <1>4, <1>7, Zenon

(* The latest snapshot is set in memory.                                   *)
LEMMA SetMemoryBase ==
    ASSUME Base, SetMemory PROVE Base' /\ (~faults'.adopted => ~faults.adopted)
<1>1. /\ Types /\ PointerNeedsDir /\ op.pc = "memory" /\ op.id \in Id /\ number < MaxCreate
      /\ lat' = op.id /\ any' = TRUE /\ number' = number + 1 /\ up' = up /\ walk' = walk
      /\ dir' = dir /\ hid' = hid /\ faults' = faults /\ Done
      /\ (faults.left # {} \/ faults.adopted => faults.error # 0)
  BY DEF SetMemory, Base, At, Creating, disk
<1>2. /\ op' \in [pc : OpPc, id : Id \cup {Absent}, prev : Id \cup {Top, Absent}]
      /\ ~Creating' /\ ~Destroying' /\ op'.pc = "idle"
  BY <1>1, DoneFacts, Zenon
<1>3. number' \in 0 .. MaxCreate
  BY <1>1, Constants DEF Types
<1>4. Types' /\ PointerNeedsDir'
  BY <1>1, <1>2, <1>3, Zenon DEF Types, PointerNeedsDir
<1> QED  BY <1>1, <1>2, <1>4, Zenon DEF Base

(* sn_destroy looks for the earliest snapshot: one without a pointer file. *)
LEMMA DestroyBase ==
    ASSUME Base, Destroy PROVE Base' /\ (~faults'.adopted => ~faults.adopted)
<1>1. /\ Types /\ PointerNeedsDir /\ up /\ any /\ lat \in Id /\ dir' = dir /\ hid' = hid
      /\ faults' = faults /\ UNCHANGED <<memory, walk>>
  BY DEF Destroy, Base, disk
<1>2. PICK n : n = Len(Chain)
  BY Zenon
<1>3. n \in Nat /\ n >= 1 /\ Chain \in Seq(Id)
  <2>1. Latest \in Id
    BY <1>1 DEF Latest
  <2>2. Chain \in Seq(Id) /\ Len(Chain) >= 1
    BY <2>1, ChainSeq, Zenon
  <2> QED  BY <1>2, <2>2
<1>4. PICK l, p : l = (IF n = 1 THEN "untop" ELSE "unprev")
                  /\ p = IF n = 1 THEN Top ELSE Chain[n - 1]
  BY Zenon
<1>5. op' = [pc |-> l, id |-> Chain[n], prev |-> p] /\ hid[Chain[n]] = Absent
  BY <1>2, <1>4, Zenon DEF Destroy
<1>6. Chain[n] \in Id /\ p \in Id \cup {Top}
  BY <1>2, <1>3, <1>4
<1>7. /\ op' \in [pc : OpPc, id : Id \cup {Absent}, prev : Id \cup {Top, Absent}]
      /\ op'.id = Chain[n] /\ ~Creating'
  BY <1>4, <1>5, <1>6 DEF OpPc, Creating
<1>8. FaultsGrow /\ PointerNeedsDir'
  <2>1. Works
    BY <1>1, Zenon DEF Works
  <2> QED  BY <1>1, <2>1, FaultsGrowOrNot, Zenon DEF PointerNeedsDir
<1>9. /\ dir' \in [Id -> {"none", "whole", "part"}]
      /\ hid' \in [Id \cup {Top} -> Id \cup {Absent, Empty}]
  BY <1>1, Zenon DEF Types
<1>10. Base'
  BY <1>1, <1>5, <1>6, <1>7, <1>8, <1>9, BaseKept, Zenon
<1> QED  BY <1>1, <1>10, Zenon

(* sn_destroy removes the pointer and the files of that snapshot.          *)
LEMMA RemoveBase ==
    ASSUME Base, UnlinkPointer \/ UnlinkPointerFails \/ RemoveSome \/ RemoveFails \/ RemoveAll
    PROVE  Base' /\ (~faults'.adopted => ~faults.adopted)
<1>0. /\ At("untop") \/ At("unprev") \/ At("remove") \/ At("removeonly")
      /\ Works \/ Fails
  BY Zenon DEF UnlinkPointer, UnlinkPointerFails, RemoveSome, RemoveFails, RemoveAll
<1>1. Types /\ PointerNeedsDir /\ op.pc \in {"untop", "unprev", "remove", "removeonly"}
      /\ (any => lat \in Id) /\ (Works \/ Fails)
  BY <1>0, Zenon DEF At, Base
<1>2. op.id \in Id /\ hid[op.id] = Absent /\ ~Creating /\ up
  BY <1>1 DEF Base, Destroying, Creating
<1>3. FaultsGrow /\ faults'.left = faults.left /\ faults'.adopted = faults.adopted
  BY <1>1, FaultsGrowOrNot, Zenon
<1>4. /\ dir \in [Id -> {"none", "whole", "part"}]
      /\ hid \in [Id \cup {Top} -> Id \cup {Absent, Empty}]
      /\ op \in [pc : OpPc, id : Id \cup {Absent}, prev : Id \cup {Top, Absent}]
  BY <1>1, Zenon DEF Types
<1>5. CASE UnlinkPointer
  <2>1. UNCHANGED <<dir, memory, walk>> /\ Pointer(op.prev, Absent)
    BY <1>5, Zenon DEF UnlinkPointer
  <2>0. PICK q : q = op.prev
    BY Zenon
  <2>2. /\ hid' \in [Id \cup {Top} -> Id \cup {Absent, Empty}]
        /\ \A x \in Id : hid'[x] \in {hid[x], Absent}
    <3>1. hid' = [hid EXCEPT ![q] = Absent]
      BY <2>0, <2>1, Zenon DEF Pointer
    <3>2. hid \in [Id \cup {Top} -> Id \cup {Absent, Empty}]
      BY <1>4, Zenon
    <3>3. \A x \in DOMAIN hid : hid'[x] \in {hid[x], Absent}
      BY <3>1, Zenon
    <3> QED  BY <3>1, <3>2, <3>3, Zenon
  <2>3. PICK l : l = IF At("untop") THEN "removeonly" ELSE "remove"
    BY Zenon
  <2>4. Goto(l) /\ l \in {"removeonly", "remove"}
    BY <1>5, <2>3 DEF UnlinkPointer
  <2>5. /\ op' \in [pc : OpPc, id : Id \cup {Absent}, prev : Id \cup {Top, Absent}]
        /\ op'.id = op.id /\ ~Creating'
    BY <1>4, <2>4 DEF Goto, OpPc, Creating
  <2>6. PointerNeedsDir' /\ hid'[op.id] = Absent
    BY <1>1, <1>2, <1>3, <2>1, <2>2 DEF PointerNeedsDir
  <2> QED  BY <1>2, <1>3, <1>4, <2>1, <2>2, <2>5, <2>6, BaseKept
<1>6. CASE UnlinkPointerFails \/ RemoveFails
  <2>1. Done /\ dir' = dir /\ hid' = hid /\ UNCHANGED <<memory, walk>>
    BY <1>6 DEF UnlinkPointerFails, RemoveFails, disk
  <2>2. /\ op' \in [pc : OpPc, id : Id \cup {Absent}, prev : Id \cup {Top, Absent}]
        /\ ~Creating' /\ ~Destroying' /\ op'.pc = "idle"
    BY <2>1, DoneFacts, Zenon
  <2>3. PointerNeedsDir'
    BY <1>1, <1>3, <2>1, Zenon DEF PointerNeedsDir
  <2>4. Base'
    BY <1>3, <1>4, <2>1, <2>2, <2>3, BaseKept, Zenon
  <2> QED  BY <1>3, <2>4, Zenon
<1>7. CASE RemoveSome
  <2>1. op' = op /\ hid' = hid /\ UNCHANGED <<memory, walk>>
    BY <1>7, Zenon DEF RemoveSome
  <2>2. /\ dir' \in [Id -> {"none", "whole", "part"}]
        /\ \A x \in Id : dir[x] # "none" => dir'[x] # "none"
    <3>1. PICK y : y = op.id
      BY Zenon
    <3>2. dir' = [dir EXCEPT ![y] = "part"] /\ dir \in [Id -> {"none", "whole", "part"}]
      BY <1>4, <1>7, <3>1, Zenon DEF RemoveSome
    <3> QED  BY <3>1, <3>2, Zenon
  <2>3. PointerNeedsDir' /\ ~Creating'
    BY <1>1, <1>2, <1>3, <2>1, <2>2, Zenon DEF PointerNeedsDir, Creating
  <2>4. Base'
    BY <1>2, <1>3, <1>4, <2>1, <2>2, <2>3, BaseKept, Zenon
  <2> QED  BY <1>3, <2>4, Zenon
<1>8. CASE RemoveAll
  <2>1. /\ Done /\ hid' = hid /\ any' \in {FALSE, any} /\ up' = up /\ lat' = lat
        /\ number' = number /\ walk' = walk
    BY <1>8, Zenon DEF RemoveAll
  <2>2. /\ dir' \in [Id -> {"none", "whole", "part"}]
        /\ \A x \in Id \ {op.id} : dir'[x] = dir[x]
    <3>1. PICK y : y = op.id
      BY Zenon
    <3>2. dir' = [dir EXCEPT ![y] = "none"] /\ dir \in [Id -> {"none", "whole", "part"}]
      BY <1>4, <1>8, <3>1, Zenon DEF RemoveAll
    <3> QED  BY <3>1, <3>2, Zenon
  <2>3. /\ op' \in [pc : OpPc, id : Id \cup {Absent}, prev : Id \cup {Top, Absent}]
        /\ ~Creating' /\ ~Destroying' /\ op'.pc = "idle"
    BY <2>1, DoneFacts, Zenon
  <2>4. PointerNeedsDir'
    BY <1>1, <1>2, <1>3, <2>1, <2>2, Zenon DEF PointerNeedsDir
  <2>5. any' \in BOOLEAN /\ (any' => lat' \in Id)
    <3>1. any \in BOOLEAN
      BY <1>1, Zenon DEF Types
    <3>2. lat' = lat /\ (any' = any \/ any' = FALSE)
      BY <2>1, Zenon
    <3>3. CASE any' = any
      BY <1>1, <3>1, <3>2, <3>3
    <3>4. CASE any' = FALSE
      BY <3>4, Zenon
    <3> QED  BY <3>2, <3>3, <3>4, Zenon
  <2>6. Types'
    BY <1>1, <1>3, <2>1, <2>2, <2>3, <2>5, Zenon DEF Types, FaultsGrow
  <2>7. faults'.left # {} \/ faults'.adopted => faults'.error # 0
    BY <1>3, Zenon DEF Base, FaultsGrow
  <2> QED  BY <1>3, <2>3, <2>4, <2>5, <2>6, <2>7, Zenon DEF Base
<1> QED  BY <1>5, <1>6, <1>7, <1>8

(* A walk stays within MAX_SNAPSHOTS, whatever the pointer files say.      *)
LEMMA WalkBase ==
    ASSUME Base, (\E x \in Id : WalkStart(x)) \/ WalkStep \/ WalkEnd
    PROVE  Base' /\ (~faults'.adopted => ~faults.adopted)
<1>1. UNCHANGED <<disk, memory, op, faults>> /\ Types
  BY DEF WalkStart, WalkStep, WalkEnd, Base
<1>2. /\ dir' = dir /\ hid' = hid /\ up' = up /\ any' = any /\ lat' = lat /\ number' = number
      /\ op' = op /\ faults' = faults
  BY <1>1 DEF disk, memory
<1>3. SUFFICES /\ walk' \in [pc : {"idle", "walk", "found", "lost"}, id : Id \cup {Absent},
                             list : Seq(Id \cup {Absent, Garbage}), chain : Seq(Id)]
               /\ Len(walk'.list) < MaxSnapshots
  <2>1. ASSUME /\ walk' \in [pc : {"idle", "walk", "found", "lost"}, id : Id \cup {Absent},
                             list : Seq(Id \cup {Absent, Garbage}), chain : Seq(Id)]
               /\ Len(walk'.list) < MaxSnapshots
        PROVE  Types'
    BY <1>1, <1>2, <2>1, Zenon DEF Types
  <2>2. PointerNeedsDir' /\ (Creating' <=> Creating) /\ (Destroying' <=> Destroying)
        /\ (MayKeepPointer' <=> MayKeepPointer)
    BY <1>2, Zenon DEF Base, PointerNeedsDir, Creating, Destroying, MayKeepPointer
  <2> QED  BY <1>2, <2>1, <2>2, Zenon DEF Base
<1>4. ASSUME NEW x \in Id, WalkStart(x)
      PROVE  /\ walk' \in [pc : {"idle", "walk", "found", "lost"}, id : Id \cup {Absent},
                           list : Seq(Id \cup {Absent, Garbage}), chain : Seq(Id)]
             /\ Len(walk'.list) < MaxSnapshots
  <2>1. PICK first \in IF At("memory") THEN {lat, op.id, Garbage} ELSE {lat} :
            walk' = [pc |-> "walk", id |-> x, list |-> <<first>>,
                     chain |-> IF first = lat THEN Chain ELSE <<op.id>> \o Chain]
    BY <1>4, Zenon DEF WalkStart
  <2>2. At("memory") => op.id \in Id
    BY DEF Base, At, Creating
  <2>3. first \in Id \cup {Absent, Garbage} /\ (first # lat => op.id \in Id)
    BY <1>1, <2>1, <2>2 DEF Types
  <2>4. PICK c : c = IF first = lat THEN Chain ELSE <<op.id>> \o Chain
    BY Zenon
  <2>5. c \in Seq(Id)
    <3>1. Chain \in Seq(Id)
      BY ChainSeq, Zenon
    <3> QED  BY <2>3, <2>4, <3>1
  <2>6. PICK l : l = <<first>>
    BY Zenon
  <2>7. l \in Seq(Id \cup {Absent, Garbage}) /\ Len(l) = 1 /\ 1 < MaxSnapshots
    BY <2>3, <2>6, Constants
  <2>8. walk' = [pc |-> "walk", id |-> x, list |-> l, chain |-> c]
    BY <2>1, <2>4, <2>6, Zenon
  <2>9. /\ walk' \in [pc : {"idle", "walk", "found", "lost"}, id : Id \cup {Absent},
                       list : Seq(Id \cup {Absent, Garbage}), chain : Seq(Id)]
        /\ walk'.list = l
    BY <2>5, <2>7, <2>8, Zenon
  <2> QED  BY <2>7, <2>9, Zenon
<1>5. CASE WalkStep
  <2>1. PICK p, next : /\ p = Len(walk.list)
                       /\ next = IF walk.list[p] \in Id THEN hid[walk.list[p]] ELSE Absent
    BY Zenon
  <2>2. walk' = IF walk.list[p] = walk.id THEN [walk EXCEPT !.pc = "found"]
                ELSE IF p + 1 >= MaxSnapshots \/ next \notin Id THEN [walk EXCEPT !.pc = "lost"]
                ELSE [walk EXCEPT !.list = Append(@, next)]
    BY <1>5, <2>1, Zenon DEF WalkStep
  <2>3. /\ walk \in [pc : {"idle", "walk", "found", "lost"}, id : Id \cup {Absent},
                     list : Seq(Id \cup {Absent, Garbage}), chain : Seq(Id)]
        /\ Len(walk.list) < MaxSnapshots
    BY <1>1, Zenon DEF Types
  <2>4. CASE ~(p + 1 >= MaxSnapshots \/ next \notin Id) /\ walk.list[p] # walk.id
    <3>1. PICK l : l = Append(walk.list, next)
      BY Zenon
    <3>2. l \in Seq(Id \cup {Absent, Garbage}) /\ Len(l) < MaxSnapshots
      <4>1. walk.list \in Seq(Id \cup {Absent, Garbage})
        BY <2>3
      <4> QED  BY <2>1, <2>4, <3>1, <4>1, Constants
    <3>3. walk' = [walk EXCEPT !.list = l]
      BY <2>2, <2>4, <3>1, Zenon
    <3> QED  BY <2>3, <3>2, <3>3
  <2>5. CASE walk' \in {[walk EXCEPT !.pc = "found"], [walk EXCEPT !.pc = "lost"]}
    BY <2>3, <2>5
  <2> QED  BY <2>2, <2>4, <2>5, Zenon
<1>6. CASE WalkEnd
  <2>1. walk' = [pc |-> "idle", id |-> Absent, list |-> << >>, chain |-> << >>]
    BY <1>6, Zenon DEF WalkEnd, NoWalk
  <2> QED  BY <2>1, Constants
<1> QED  BY <1>4, <1>5, <1>6

(* The process dies, and the file system is mounted again.                 *)
LEMMA MountBase ==
    ASSUME Base, Crash \/ Mount PROVE Base' /\ (~faults'.adopted => ~faults.adopted)
<1>1. Types /\ PointerNeedsDir /\ dir' = dir /\ hid' = hid /\ faults \in FaultType
      /\ (faults.left # {} \/ faults.adopted => faults.error # 0)
  BY DEF Crash, Mount, Base, disk, Types
<1>2. CASE Crash
  <2>1. /\ up' = FALSE /\ any' = FALSE /\ lat' = Absent /\ number' = 0 /\ walk' = NoWalk /\ Done
    BY <1>2, Zenon DEF Crash, Done
  <2>2. /\ faults' \in FaultType /\ faults'.error = faults.error /\ faults'.left = faults.left
        /\ faults'.adopted = faults.adopted
    BY <1>1, <1>2 DEF Crash, FaultType
  <2>3. /\ op' \in [pc : OpPc, id : Id \cup {Absent}, prev : Id \cup {Top, Absent}]
        /\ ~Creating' /\ ~Destroying' /\ op'.pc = "idle"
    BY <2>1, DoneFacts, Zenon
  <2>4. /\ walk' \in [pc : {"idle", "walk", "found", "lost"}, id : Id \cup {Absent},
                      list : Seq(Id \cup {Absent, Garbage}), chain : Seq(Id)]
        /\ Len(walk'.list) < MaxSnapshots /\ number' \in 0 .. MaxCreate
    BY <2>1, Constants DEF NoWalk
  <2>5. Types' /\ PointerNeedsDir'
    BY <1>1, <2>1, <2>2, <2>3, <2>4, Zenon DEF Types, PointerNeedsDir
  <2> QED  BY <1>1, <2>1, <2>2, <2>3, <2>5, Zenon DEF Base
<1>3. CASE Mount
  <2>1. /\ up' = TRUE /\ any' = (hid[Top] # Absent) /\ lat' = hid[Top] /\ hid[Top] # Empty
        /\ number' = number /\ op' = op /\ walk' = walk /\ faults' = faults
    BY <1>3, Zenon DEF Mount
  <2>2. hid[Top] \in Id \cup {Absent} /\ any' \in BOOLEAN
    BY <1>1, <2>1 DEF Types
  <2>3. ~Creating' /\ ~Destroying'
    <3>1. op.pc = "idle"
      BY <1>3, Zenon DEF Base, Mount
    <3> QED  BY <2>1, <3>1 DEF Creating, Destroying
  <2>4. Types' /\ PointerNeedsDir'
    BY <1>1, <2>1, <2>2, Zenon DEF Types, PointerNeedsDir
  <2> QED  BY <1>1, <2>1, <2>2, <2>3, <2>4, Zenon DEF Base
<1> QED  BY <1>2, <1>3

(* Every step preserves what holds of the pointer files whether or not one *)
(* that was left behind has come into the chain, and that is not undone.   *)
LEMMA NextBase ==
    ASSUME Base, [Next]_vars PROVE Base' /\ (~faults'.adopted => ~faults.adopted)
<1>1. CASE UNCHANGED vars
  <2>1. /\ dir' = dir /\ hid' = hid /\ up' = up /\ any' = any /\ lat' = lat /\ number' = number
        /\ op' = op /\ walk' = walk /\ faults' = faults
    BY <1>1 DEF vars
  <2>2. /\ Types' /\ PointerNeedsDir' /\ (Creating' <=> Creating) /\ (Destroying' <=> Destroying)
        /\ (MayKeepPointer' <=> MayKeepPointer)
    BY <2>1, Zenon DEF Base, Types, PointerNeedsDir, Creating, Destroying, MayKeepPointer
  <2> QED  BY <2>1, <2>2, Zenon DEF Base
<1>2. ASSUME NEW x \in Id, Mkdir(x) PROVE Base' /\ (~faults'.adopted => ~faults.adopted)
  BY <1>2, MkdirBase, Zenon
<1>3. ASSUME NEW x \in Id, WalkStart(x) PROVE Base' /\ (~faults'.adopted => ~faults.adopted)
  BY <1>3, WalkBase, Zenon
<1> QED
  BY <1>1, <1>2, <1>3, CreateBase, RmdirBase, SetMemoryBase, DestroyBase, RemoveBase, WalkBase,
     MountBase, Zenon
  DEF Next

(* Until sn_create makes a first snapshot of a name whose pointer file an  *)
(* earlier cleanup could not remove, the pointer files form one chain of   *)
(* distinct snapshots with directories that ends at the earliest one, and  *)
(* memory and snapshots/.hid agree with it: for any set of names and any   *)
(* bounds, wherever system calls fail and whenever the process dies.       *)
THEOREM Invariance == Spec => []IndInv
<1>1. Init => IndInv
  <2>1. ASSUME Init PROVE Base
    <3>1. Inv
      BY <2>1, InitOK, Zenon
    <3>2. /\ up = FALSE /\ any = FALSE /\ op.pc = "idle"
          /\ faults = [error |-> 0, crash |-> 0, left |-> {}, adopted |-> FALSE]
      BY <2>1 DEF Init, NoOp
    <3>3. ~Creating /\ ~Destroying /\ faults.left = {} /\ ~faults.adopted
      BY <3>2 DEF Creating, Destroying
    <3> QED  BY <3>1, <3>2, <3>3, Zenon DEF Base, Inv
  <2> QED  BY <2>1, InitOK, Zenon DEF IndInv
<1>2. IndInv /\ [Next]_vars => IndInv'
  <2>1. ASSUME IndInv, [Next]_vars PROVE IndInv'
    <3>1. Base' /\ (~faults'.adopted => ~faults.adopted)
      BY <2>1, NextBase, Zenon DEF IndInv
    <3>2. ASSUME ~faults'.adopted PROVE Inv'
      BY <2>1, <3>1, <3>2, NextOK, Zenon DEF IndInv, StepOK
    <3> QED  BY <3>1, <3>2, Zenon DEF IndInv
  <2> QED  BY <2>1
<1> QED  BY <1>1, <1>2, PTL DEF Spec

(* The snapshot directory, the pointer files and the sn_ fields have their *)
(* types, and a walk stays within MAX_SNAPSHOTS, also in a cycle.          *)
THEOREM TypeCorrect == Spec => []TypeOK
<1>1. IndInv => TypeOK
  BY DEF IndInv, Base, Types, TypeOK
<1> QED  BY <1>1, Invariance, PTL

(* Without I/O errors each snapshot of the chain has all its files: a      *)
(* removal starts only after its pointer is gone.                          *)
THEOREM ChainAlwaysWhole == Spec => []ChainWhole
<1>1. ASSUME IndInv PROVE ChainWhole
  <2>1. CASE faults.adopted
    BY <1>1, <2>1, Zenon DEF IndInv, Base, ChainWhole
  <2>2. CASE ~faults.adopted
    BY <1>1, <2>2, Zenon DEF IndInv, Inv
  <2> QED  BY <2>1, <2>2
<1> QED  BY <1>1, Invariance, PTL

(* O_EXCL in sn_create fails for a name that mkdir accepted only where an  *)
(* earlier cleanup could not remove the pointer file: no other one         *)
(* outlives the directory of its snapshot.                                 *)
THEOREM PointersHaveDirs == Spec => []PointerNeedsDir
<1>1. IndInv => PointerNeedsDir
  BY Zenon DEF IndInv, Base
<1> QED  BY <1>1, Invariance, PTL

(* The paths that sn_get_paths_to returns are those of the chain as it was *)
(* when the walk started, until sn_create adopts a pointer file that was   *)
(* left behind.                                                            *)
THEOREM WalksFollow == Spec => []WalkFollowsChain
<1>1. ASSUME IndInv PROVE WalkFollowsChain
  <2>1. SUFFICES ASSUME ~faults.adopted, walk.pc = "found", walk.chain # << >>
                 PROVE  /\ Len(walk.list) <= Len(walk.chain)
                        /\ \A i \in 1 .. Len(walk.list) : walk.list[i] = walk.chain[i]
    BY Zenon DEF WalkFollowsChain
  <2>2. WalkingOK /\ walk.pc # "idle"
    BY <1>1, <2>1 DEF IndInv, Inv
  <2> QED  BY <2>1, <2>2, Zenon DEF WalkingOK
<1> QED  BY <1>1, Invariance, PTL

(* sn_get_paths_to finds every snapshot that is there when it starts,      *)
(* unless MAX_SNAPSHOTS others are before it or it has read a path that    *)
(* was being written, or sn_create has adopted a pointer file that was     *)
(* left behind.                                                            *)
THEOREM WalksFind == Spec => []WalkFinds
<1>1. ASSUME IndInv PROVE WalkFinds
  <2>1. SUFFICES ASSUME ~faults.adopted, walk.pc = "lost", NEW i \in 1 .. Len(walk.chain),
                        walk.chain[i] = walk.id, Head(walk.list) # Garbage
                 PROVE  i >= MaxSnapshots
    BY Zenon DEF WalkFinds
  <2>0. Inv
    BY <1>1, <2>1, Zenon DEF IndInv
  <2>2. PICK l, c : l = walk.list /\ c = walk.chain
    BY Zenon
  <2>3. l \in Seq(Id \cup {Absent, Garbage}) /\ c \in Seq(Id) /\ Len(l) \in Nat /\ Len(c) \in Nat
    BY <2>0, <2>2 DEF Inv, Types
  <2>4. /\ Len(l) >= 1
        /\ l[1] # Garbage /\ c # << >> =>
              /\ Len(l) <= Len(c) /\ \A j \in 1 .. Len(l) : l[j] = c[j]
              /\ Len(l) + 1 >= MaxSnapshots \/ Len(l) = Len(c)
        /\ \A j \in 1 .. Len(l) - 1 : l[j] # walk.id
        /\ l[Len(l)] # walk.id
    <3>1. WalkingOK /\ walk.pc # "idle"
      BY <2>0, <2>1 DEF Inv
    <3> QED  BY <2>1, <2>2, <3>1, Zenon DEF WalkingOK
  <2>5. l[1] # Garbage /\ c # << >>
    BY <2>1, <2>2, <2>3, <2>4
  <2>6. i \notin 1 .. Len(l)
    <3>1. \A j \in 1 .. Len(l) : j \in 1 .. Len(l) - 1 \/ j = Len(l)
      BY <2>3
    <3> QED  BY <2>1, <2>2, <2>4, <2>5, <3>1, Zenon
  <2>7. Len(l) + 1 >= MaxSnapshots \/ Len(l) = Len(c)
    BY <2>4, <2>5, Zenon
  <2>8. i \in 1 .. Len(c)
    BY <2>2, Zenon
  <2> QED  BY <2>3, <2>6, <2>7, <2>8, Constants
<1> QED  BY <1>1, Invariance, PTL

(* The pointer files implement the list of snapshots, a failed or an       *)
(* interrupted request included, until sn_create makes a first snapshot of *)
(* a name whose pointer file an earlier cleanup could not remove, and      *)
(* unless the process dies while snapshots/.hid is truncated.              *)
THEOREM Refinement == ASSUME ~TornCrash PROVE Spec => ImplementsList
<1>1. Init => List!ListInit
  BY InitOK, Zenon DEF List!ListInit
<1>2. IndInv /\ [Next]_vars => [List!ListNext \/ faults'.adopted]_Chain
  <2>1. ASSUME IndInv, [Next]_vars, ~faults'.adopted PROVE Chain' = Chain \/ List!ListNext
    <3>1. ~faults.adopted
      BY <2>1, NextBase, Zenon DEF IndInv
    <3> QED  BY <2>1, <3>1, NextOK, Zenon DEF IndInv, StepOK
  <2> QED  BY <2>1, Zenon
<1> QED  BY <1>1, <1>2, Invariance, PTL DEF Spec, ImplementsList

=============================================================================

------------------------------- MODULE Blocks -------------------------------
(***************************************************************************)
(* The arithmetic of block.c: which blocks of a file a request is about    *)
(* ($$B_CALC_BLOCKS, after the request was cut to the size the file had in *)
(* the snapshot), which of them b_write saves, and which bytes of them     *)
(* b_read copies to which places of the buffer.                            *)
(*                                                                         *)
(* A byte of the file is <<b, i>>, byte i of block b: a block may come     *)
(* from a dat file or from the main file, so one read must not go beyond   *)
(* its block.  Where the blocks come from is the business of CopyOnWrite.  *)
(***************************************************************************)
EXTENDS Integers

CONSTANTS BL_S,     \* the block size in bytes
          MaxByte   \* bound on offsets and sizes

ASSUME BlockAssumption == BL_S \in Nat \ {0} /\ MaxByte \in Nat

VARIABLES
    call,         \* the call: [op, offset, size], and the file's size in the snapshot
    at,
    size,         \* readsize or writesize, as adjusted
    blockoffset,  \* the current block
    blocknumber,  \* how many blocks are still to do
    copyto,       \* where in buf the next bytes go
    buf,          \* buf[i]: the byte read into place i
    saved         \* the blocks b_write has gone through

blockVars == <<call, at, size, blockoffset, blocknumber, copyto, buf, saved>>

Byte == 0 .. MaxByte
NoByte == <<-1, -1>>
Calls == [op : {"read", "write", "truncate"}, offset : Byte, size : Byte, fsize : Byte]

BlockInit ==
    /\ call \in Calls /\ at = "call" /\ size = 0
    /\ blockoffset = 0 /\ blocknumber = 0 /\ copyto = 0
    /\ buf = [i \in Byte |-> NoByte] /\ saved = {}

-----------------------------------------------------------------------------
(* b_truncate saves what is cut off, from the new size (the offset) on.    *)
Asked == IF call.op # "truncate" THEN call.size
         ELSE IF call.offset < call.fsize THEN call.fsize - call.offset ELSE 0

Nowhere ==
    /\ at = "call"
    /\ Asked = 0 \/ (call.offset + Asked > call.fsize /\ call.offset >= call.fsize)
    /\ at' = "done"
    /\ UNCHANGED <<call, size, blockoffset, blocknumber, copyto, buf, saved>>

\* Mutant: the part of the first block before the offset is forgotten.
BlockCountAligned(offset, n) == (n - 1) \div BL_S + 1

BlockCount(offset, n) == (n + (offset % BL_S) - 1) \div BL_S + 1

CalcBlocks ==
    LET n == IF call.offset + Asked > call.fsize THEN call.fsize - call.offset ELSE Asked
    IN  /\ at = "call" /\ Asked # 0
        /\ call.offset + Asked > call.fsize => call.offset < call.fsize
        /\ size' = n
        /\ blockoffset' = call.offset \div BL_S
        /\ blocknumber' = BlockCount(call.offset, n)
        /\ at' = "loop"
        /\ UNCHANGED <<call, copyto, buf, saved>>

NextBlock ==
    /\ blocknumber' = blocknumber - 1
    /\ blockoffset' = blockoffset + 1
    /\ at' = IF blocknumber = 1 THEN "done" ELSE "loop"
    /\ UNCHANGED <<call, size>>

(* In the first block (copyto is still 0) the copy begins at the offset,   *)
(* in the last one it ends with the request.                               *)
CopyFrom == IF copyto = 0 THEN call.offset - blockoffset * BL_S ELSE 0

\* Mutant: the end of the last block is not cut off.
CopyLengthWhole == BL_S - CopyFrom

CopyLength == BL_S - CopyFrom - (IF blocknumber = 1
                                 THEN (blockoffset + 1) * BL_S - call.offset - size ELSE 0)

ReadBlock ==
    /\ at = "loop" /\ call.op = "read"
    /\ buf' = [i \in Byte |-> IF copyto <= i /\ i < copyto + CopyLength
                              THEN <<blockoffset, CopyFrom + (i - copyto)>> ELSE buf[i]]
    /\ copyto' = copyto + CopyLength
    /\ NextBlock
    /\ UNCHANGED saved

WriteBlock ==
    /\ at = "loop" /\ call.op # "read"
    /\ saved' = saved \cup {blockoffset}
    /\ NextBlock
    /\ UNCHANGED <<copyto, buf>>

BlockNext == Nowhere \/ CalcBlocks \/ ReadBlock \/ WriteBlock

BlockSpec == BlockInit /\ [][BlockNext]_blockVars

-----------------------------------------------------------------------------
(* Properties.                                                             *)

(* The bytes the call is about, by plain definition: those asked for, as   *)
(* far as the file went.                                                   *)
Wanted == {x \in call.offset .. call.fsize - 1 :
             call.op = "truncate" \/ x < call.offset + call.size}
ByteOf(x) == <<x \div BL_S, x % BL_S>>

(* b_read fills the buffer from its start, each place with the byte of the *)
(* file that belongs there and no place beyond the request; it returns     *)
(* (copyto) when all that the file had is read, and not before.            *)
BufferRight ==
    call.op = "read" =>
      /\ \A i \in Byte : i < copyto => call.offset + i \in Wanted
                                       /\ buf[i] = ByteOf(call.offset + i)
      /\ \A i \in Byte : i >= copyto => buf[i] = NoByte
      /\ at = "done" => \A x \in Wanted : x < call.offset + copyto

(* b_write and b_truncate go through the blocks that hold a byte that will *)
(* change and that the snapshot had, and through no other.                 *)
SavesExactly ==
    call.op # "read" =>
      /\ \A b \in saved : \E x \in Wanted : x \div BL_S = b
      /\ at = "done" => \A x \in Wanted : x \div BL_S \in saved
=============================================================================

------------------------------- MODULE MCPure -------------------------------
(***************************************************************************)
(* The calculations of block.c and util.c for TLC: modules Blocks and      *)
(* Paths side by side; a behaviour is one of the one or one of the other.  *)
(***************************************************************************)
EXTENDS Blocks, Paths

(* A call that asks for nothing.                                           *)
NoCall == [op |-> "read", offset |-> 0, size |-> 0, fsize |-> 0]

PureInit == BlockInit /\ PathInit
PureNext == \/ BlockNext /\ UNCHANGED pathVars
            \/ call = NoCall /\ PathNext /\ UNCHANGED blockVars
PureSpec == PureInit /\ [][PureNext]_<<blockVars, pathVars>>
=============================================================================

---------------------------- MODULE MCBlockIndex ----------------------------
(***************************************************************************)
(* A small instance of BlockIndex: two audits, one of which grows twice,   *)
(* and two transactions that may have blocks in both.  UIDs are symmetric. *)
(***************************************************************************)
EXTENDS BlockIndexInv, TLC

CONSTANTS ptms, opn

MCMaxBlocks == [f \in Audits |-> IF f = ptms THEN 2 ELSE 1]

Symmetry == Permutations(Uids)
=============================================================================

--------------------------- MODULE SequentialScan ---------------------------
(***************************************************************************)
(* What a scan of audit files promises (scan_transactions_for_list of      *)
(* log_core.py): the blocks are added to their transactions in the order   *)
(* of the files, and the locations are kept only when all were added.      *)
(***************************************************************************)
EXTENDS Naturals, Sequences

CONSTANT Total      \* blocks in the files, numbered in their order

VARIABLES
    added,          \* the blocks added so far, in the order they were
    result          \* "scanning", "complete" or "failed"

vars == <<added, result>>

\* The blocks from "first" to "last".
Blocks(first, last) == [i \in 1..(last - first + 1) |-> first + i - 1]

Init == added = <<>> /\ result = "scanning"

Add ==
    /\ result = "scanning"
    /\ \E last \in (Len(added) + 1)..Total : added' = added \o Blocks(Len(added) + 1, last)
    /\ UNCHANGED result

Complete ==
    /\ result = "scanning" /\ Len(added) = Total
    /\ result' = "complete"
    /\ UNCHANGED added

Fail ==
    /\ result = "scanning"
    /\ result' = "failed"
    /\ UNCHANGED added

Next == Add \/ Complete \/ Fail

Spec == Init /\ [][Next]_vars
=============================================================================

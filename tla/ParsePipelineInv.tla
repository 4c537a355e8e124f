-------------------------- MODULE ParsePipelineInv --------------------------
(***************************************************************************)
(* The inductive invariant of ParsePipeline.                               *)
(***************************************************************************)
EXTENDS ParsePipeline

\* The last block before the i-th batch that is under way.
EndBefore(i) == IF i = 1 THEN Len(added) ELSE pending[i - 1].last

\* The batches under way follow on each other and on what was added.
Contiguous ==
    \A i \in 1..(Len(pending) + 1) :
        IF i > Len(pending) THEN EndBefore(i) = read
                            ELSE pending[i].first = EndBefore(i) + 1 /\ EndBefore(i) < pending[i].last

\* What was read from the i-th batch on is no more than the batches hold.
Held ==
    /\ Len(pending) <= 2 * workers
    /\ \A i \in 1..(Len(pending) + 1) : read - EndBefore(i) <= (Len(pending) + 1 - i) * BatchBlocks

(***************************************************************************)
(* What has been added are the first blocks in their order, and the        *)
(* futures hold the next ones, in order and without a gap, until the scan  *)
(* is given up (1437-1456).                                                *)
(***************************************************************************)
PipelineInv ==
    /\ TypeOK
    /\ added = Blocks(1, Len(added))
    /\ pc \in {"reading", "waiting", "draining"} => Contiguous /\ Held
    /\ workers = 1 => pending = <<>>
    /\ pc = "reading" /\ workers > 1 => Len(pending) < 2 * workers
    /\ pc = "draining" => read = Total
    /\ pc = "done" => Len(added) = Total
    /\ pc = "done" => pending = <<>>
    /\ pc = "failed" => Busy = {}
    /\ published # NotPublished => pc = "done" /\ published = Total
    /\ BoundedUse
=============================================================================

--------------------------- MODULE ParsePipeline ---------------------------
(***************************************************************************)
(* The parallel scan of audit files (log_core.py, 1395-1485).  The caller  *)
(* reads the files block by block into batches and submits them to a pool  *)
(* of processes; it takes the results in the order of submission and has   *)
(* at most two batches per worker under way.  A small scan parses each     *)
(* batch itself.                                                           *)
(***************************************************************************)
EXTENDS Integers, Sequences, FiniteSets

CONSTANTS
    Total,          \* blocks in the files, numbered in their order
    FileEnds,       \* the last block of each file
    BatchBlocks,    \* AUDIT_BATCH_BLOCKS
    MaxWorkers      \* the limit of audit_worker_count

ASSUME PipelineAssumption ==
    /\ Total \in Nat /\ BatchBlocks \in Nat \ {0} /\ MaxWorkers \in Nat \ {0}
    /\ FileEnds \subseteq 1..Total

VARIABLES
    workers,        \* 1: no pool
    read,           \* blocks read into batches that were submitted
    pending,        \* the futures of the batches not taken yet, oldest first
    added,          \* the blocks added to transactions, in the order they were
    pc,             \* what the caller does
    published       \* the number of blocks in AUDIT_BLOCK_LOCATION_CACHE, if any

vars == <<workers, read, pending, added, pc, published>>

NotPublished == Total + 1

Blocks(first, last) == [i \in 1..(last - first + 1) |-> first + i - 1]
Batches == [first : 1..Total, last : 1..Total, state : {"queued", "running", "parsed", "raised", "lost", "cancelled"}]

TypeOK ==
    /\ workers \in 1..MaxWorkers
    /\ read \in 0..Total
    /\ pending \in Seq(Batches)
    /\ added \in Seq(1..Total)
    /\ pc \in {"reading", "waiting", "draining", "closing", "done", "failed"}
    /\ published \in 0..NotPublished

\* audit_worker_count, or 1 for files below PARALLEL_AUDIT_MIN_BYTES.
Init ==
    /\ workers \in 1..MaxWorkers
    /\ read = 0 /\ pending = <<>> /\ added = <<>>
    /\ pc = "reading" /\ published = NotPublished

\* Batches that a process has, or may still get.
Busy == {i \in DOMAIN pending : pending[i].state \in {"queued", "running"}}
Running == {i \in DOMAIN pending : pending[i].state = "running"}

\* What may be the last block of the next batch: a batch is full, by blocks or
\* by bytes, or it ends with its file.
BatchEnds ==
    {last \in (read + 1)..Total :
        /\ last - read <= BatchBlocks
        /\ \A e \in FileEnds : read < e => last <= e}

PoolFull(futures) == Len(futures) >= workers * 2

PoolBroken == \E i \in DOMAIN pending : pending[i].state = "lost"

\* The next batch is submitted to the pool.
Submit ==
    /\ pc = "reading" /\ workers > 1
    /\ ~PoolBroken
    /\ \E last \in BatchEnds :
       /\ pending' = Append(pending, [first |-> read + 1, last |-> last, state |-> "queued"])
       /\ read' = last
    /\ pc' = IF PoolFull(pending') THEN "waiting" ELSE "reading"
    /\ UNCHANGED <<workers, added, published>>

\* Without a pool it is parsed at once.
ParseHere ==
    /\ pc = "reading" /\ workers = 1
    /\ \E last \in BatchEnds :
       /\ added' = added \o Blocks(read + 1, last)
       /\ read' = last
    /\ UNCHANGED <<workers, pending, pc, published>>

ReadAll ==
    /\ pc = "reading" /\ read = Total
    /\ pc' = "draining"
    /\ UNCHANGED <<workers, read, pending, added, published>>

\* Mutant: whichever result is there is taken.
TakeAnyResult ==
    /\ pc \in {"waiting", "draining"}
    /\ \E i \in DOMAIN pending :
       /\ pending[i].state = "parsed"
       /\ added' = added \o Blocks(pending[i].first, pending[i].last)
       /\ pending' = SubSeq(pending, 1, i - 1) \o SubSeq(pending, i + 1, Len(pending))
    /\ pc' = IF pc = "waiting" THEN "reading" ELSE "draining"
    /\ UNCHANGED <<workers, read, published>>

\* pending.popleft().result()
TakeResult ==
    /\ pc \in {"waiting", "draining"}
    /\ pending # <<>> /\ Head(pending).state = "parsed"
    /\ added' = added \o Blocks(Head(pending).first, Head(pending).last)
    /\ pending' = Tail(pending)
    /\ pc' = IF pc = "waiting" THEN "reading" ELSE "draining"
    /\ UNCHANGED <<workers, read, published>>

\* All results are added: the pool is shut down and the locations are kept.
Publish ==
    /\ pc = "draining" /\ pending = <<>>
    /\ published' = Len(added)
    /\ pc' = "done"
    /\ UNCHANGED <<workers, read, pending, added>>

\* "finally": futures that no worker has taken are cancelled.
CancelFutures ==
    pending' = [i \in DOMAIN pending |->
                   IF pending[i].state = "queued" THEN [pending[i] EXCEPT !.state = "cancelled"] ELSE pending[i]]

\* Mutant: a process that died is waited for.
TakeRaised ==
    /\ pc \in {"waiting", "draining"}
    /\ pending # <<>> /\ Head(pending).state = "raised"
    /\ CancelFutures
    /\ pc' = "closing"
    /\ UNCHANGED <<workers, read, added, published>>

\* The result that is waited for is an exception.
TakeError ==
    /\ pc \in {"waiting", "draining"}
    /\ pending # <<>> /\ Head(pending).state \in {"raised", "lost"}
    /\ CancelFutures
    /\ pc' = "closing"
    /\ UNCHANGED <<workers, read, added, published>>

\* A pool that has lost a process takes no batch.
SubmitRaises ==
    /\ pc = "reading" /\ PoolBroken
    /\ CancelFutures
    /\ pc' = "closing"
    /\ UNCHANGED <<workers, read, added, published>>

\* Reading fails, or progress_callback raises because the scan was cancelled.
Interrupt ==
    /\ pc = "reading"
    /\ CancelFutures
    /\ pc' = "closing"
    /\ UNCHANGED <<workers, read, added, published>>

\* Mutant: the pool is shut down without waiting for its workers.
ShutdownAtOnce ==
    /\ pc = "closing"
    /\ pc' = "failed"
    /\ UNCHANGED <<workers, read, pending, added, published>>

\* shutdown(wait=True): the error goes on when no worker is busy.
Shutdown ==
    /\ pc = "closing" /\ Busy = {}
    /\ pc' = "failed"
    /\ UNCHANGED <<workers, read, pending, added, published>>

-----------------------------------------------------------------------------
(* The processes of the pool *)

\* A batch is handed to the processes, in the order of submission; one more
\* than there are processes (EXTRA_QUEUED_CALLS of the standard library).
Start ==
    /\ Cardinality(Running) <= workers
    /\ ~PoolBroken
    /\ \E i \in DOMAIN pending :
       /\ pending[i].state = "queued"
       /\ \A j \in 1..(i - 1) : pending[j].state # "queued"
       /\ pending' = [pending EXCEPT ![i].state = "running"]
    /\ UNCHANGED <<workers, read, added, pc, published>>

\* The future of a batch is done, with a result or an exception.
Finish(i, state) ==
    /\ pending[i].state = "running"
    /\ pending' = [pending EXCEPT ![i].state = state]
    /\ UNCHANGED <<workers, read, added, pc, published>>

\* A process dies: every future that is not done gets BrokenProcessPool.
Break ==
    /\ Busy # {}
    /\ pending' = [i \in DOMAIN pending |-> IF i \in Busy THEN [pending[i] EXCEPT !.state = "lost"] ELSE pending[i]]
    /\ UNCHANGED <<workers, read, added, pc, published>>

Caller == Submit \/ SubmitRaises \/ ParseHere \/ ReadAll \/ TakeResult \/ Publish \/ TakeError \/ Shutdown
Parsed == \E i \in DOMAIN pending : Finish(i, "parsed") \/ Finish(i, "raised")

Next == Caller \/ Interrupt \/ Start \/ Parsed \/ Break

Spec == Init /\ [][Next]_vars

\* The caller goes on by itself, so do the processes.
LiveSpec == Spec /\ WF_vars(Caller) /\ WF_vars(Start) /\ WF_vars(Parsed)
-----------------------------------------------------------------------------
(***************************************************************************)
(* The parallel scan is a sequential one: whatever the order in which the  *)
(* workers finish, blocks are added in the order of the files, and only a  *)
(* complete scan is kept ("Publish only complete results; interrupted      *)
(* scans leave no partial cache", log_core.py:1483).                       *)
(***************************************************************************)
Result ==
    CASE pc = "done" -> "complete"
      [] pc \in {"closing", "failed"} -> "failed"
      [] OTHER -> "scanning"
Scan == INSTANCE SequentialScan WITH result <- Result
ScansInOrder == Scan!Spec
PublishedComplete == published # NotPublished => published = Total /\ added = Blocks(1, Total)

(***************************************************************************)
(* "Bound CPU and memory use" (1399): the texts read and not yet added are  *)
(* those of at most two batches for each worker.                           *)
(***************************************************************************)
BoundedUse == read - Len(added) <= 2 * workers * BatchBlocks

(***************************************************************************)
(* However a scan ends, no worker still parses for it (1453-1456).         *)
(***************************************************************************)
NobodyLeft == pc \in {"done", "failed"} => Busy = {}

(***************************************************************************)
(* A scan ends: the caller never waits for a batch that nobody parses.     *)
(***************************************************************************)
ScanEnds == <>(pc \in {"done", "failed"})
=============================================================================

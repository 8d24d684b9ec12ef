------------------------------ MODULE Batches ------------------------------
(***************************************************************************)
(* How an agent splits its peers into batches when it asks them whether it *)
(* is healthy, and how many batches that makes.                            *)
(***************************************************************************)
EXTENDS Integers

MinNrOfNodesInBatch == 3
MaxNrOfBatchesAfterFirst == 10

\* The size of a batch after the first: a tenth of the others, but not too few.
LaterBatch(total) ==
    LET tenth == (total - MinNrOfNodesInBatch) \div MaxNrOfBatchesAfterFirst IN
    IF tenth < MinNrOfNodesInBatch THEN MinNrOfNodesInBatch ELSE tenth

\* Mutant of GetNextBatchSize: the first batch is like the others.
GetNextBatchSizeNoFirst(total, remaining) ==
    IF remaining < LaterBatch(total) THEN remaining ELSE LaterBatch(total)

\* The number of nodes to ask next when remaining of total are left.
GetNextBatchSize(total, remaining) ==
    LET size == IF total = remaining THEN MinNrOfNodesInBatch ELSE LaterBatch(total) IN
    IF remaining < size THEN remaining ELSE size

\* The loop of GetNrOfBatches with n nodes left, as a function of n.
GetNrOfBatches(total) ==
    LET batches[n \in 0 .. total] ==
          IF n = 0 THEN 0 ELSE 1 + batches[n - GetNextBatchSize(total, n)]
    IN  batches[total]
=============================================================================

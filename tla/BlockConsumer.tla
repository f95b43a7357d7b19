--------------------------- MODULE BlockConsumer ---------------------------
(***************************************************************************)
(* The synchronization of the back end with the chain: the scheduler, the  *)
(* BlockConsumer's job, its batches and the sync point.                    *)
(*                                                                         *)
(* A block has `Steps` effects after the first: step 0 stores its          *)
(* transactions, step k > 0 applies its k-th extrinsic, each in database   *)
(* transactions of its own.  Only the sync point survives a failure of the *)
(* job, and it moves once per batch.                                       *)
(***************************************************************************)
EXTENDS Integers

CONSTANTS
    BATCH_SIZE,
    Steps,        \* number of extrinsics of a block
    Poison,       \* the numbers of the blocks whose first extrinsic always throws
    MaxBlock,     \* bound on the block numbers
    MaxTimes,     \* counters of repetitions saturate here
    MaxFailures   \* bound on the failures that are not due to a block's content

ASSUME ConstantsAssumption ==
    /\ BATCH_SIZE \in Nat \ { 0 }
    /\ Steps \in Nat \ { 0 }
    /\ MaxBlock \in Nat \ { 0 }
    /\ Poison \subseteq 0 .. MaxBlock
    /\ MaxTimes \in Nat \ { 0 }
    /\ MaxFailures \in Nat

ChainType == { "Solo", "Para" }
Number    == 0 .. MaxBlock
Block     == [chainType : ChainType, blockNumber : Number]
NoBlock   == [chainType |-> "none"]

VARIABLES
    head,       \* the finalized head of the node (external)
    syncPoint,  \* the row of the sync point, or NoBlock
    job,        \* the running consumeNewBlocks
    base,       \* history: the block before the first one of the current chain to be processed
    applied,    \* history: how often step k of block b of the current chain was done
    dropped,    \* history: the jobs dropped before they reached their head
    failures    \* history: failures so far

vars == << head, syncPoint, job, base, applied, dropped, failures >>

Idle == [running |-> FALSE]

Job == [ running : { TRUE },
         head    : Block,    \* the head when the job started
         last    : Number,   \* currentLast, the last block of the previous batch
         stop    : Number,   \* nextStop, the last block of this batch
         at      : Nat,      \* the block being processed
         step    : 0 .. Steps ]

Init ==
    /\ head \in [chainType : { "Solo" }, blockNumber : Number \ { 0 }]
    /\ syncPoint = NoBlock
    /\ job = Idle
    /\ base = head.blockNumber
    /\ applied = [b \in Number |-> [k \in 0 .. Steps |-> 0]]
    /\ dropped = 0
    /\ failures = 0

-----------------------------------------------------------------------------
(***************************************************************************)
(* The node (external).                                                    *)
(***************************************************************************)

finalizeBlock ==
    /\ head.blockNumber < MaxBlock
    /\ head' = [head EXCEPT !.blockNumber = @ + 1]
    /\ UNCHANGED << syncPoint, job, base, applied, dropped, failures >>

\* The back end may be answered by a node whose finalized head lags behind.
lagBehind ==
    /\ failures < MaxFailures
    /\ failures' = failures + 1
    /\ \E n \in 1 .. head.blockNumber - 1 : head' = [head EXCEPT !.blockNumber = n]
    /\ UNCHANGED << syncPoint, job, base, applied, dropped >>

\* The solo chain becomes a parachain with block numbers of its own; the back
\* end is restarted on it.
migrate ==
    /\ head.chainType = "Solo"
    /\ \E n \in Number \ { 0 } :
          /\ head' = [chainType |-> "Para", blockNumber |-> n]
          /\ base' = n
    /\ job' = Idle
    /\ applied' = [b \in Number |-> [k \in 0 .. Steps |-> 0]]
    /\ dropped' = 0
    /\ UNCHANGED << syncPoint, failures >>

-----------------------------------------------------------------------------
(***************************************************************************)
(* The job.                                                                *)
(***************************************************************************)

saturatingInc(n) == IF n < MaxTimes THEN n + 1 ELSE n

\* Seeded fault: the batch may go beyond the head.
getNextStopUncapped(last, to) == last + BATCH_SIZE

getNextStop(last, to) == IF last + BATCH_SIZE > to THEN to ELSE last + BATCH_SIZE

lastSyncedHere == syncPoint.chainType = head.chainType

\* Its two errors: the node is behind the sync point, or on the previous chain.
isOutOfSync ==
    \/ syncPoint.chainType = "Para" /\ head.chainType = "Solo"
    \/ lastSyncedHere /\ syncPoint.blockNumber > head.blockNumber

\* Seeded faults: the job always restarts at the head; the last synchronized
\* block is processed again.
getLastBlockAtHead == head.blockNumber - 1
getLastBlockAgain == IF lastSyncedHere THEN syncPoint.blockNumber - 1 ELSE head.blockNumber - 1

getLastBlock == IF lastSyncedHere THEN syncPoint.blockNumber ELSE head.blockNumber - 1

\* The scheduler's interval elapses while no job runs: consumeNewBlocks begins.
startJob ==
    /\ ~job.running
    /\ ~(lastSyncedHere /\ syncPoint.blockNumber = head.blockNumber)
    /\ ~isOutOfSync
    /\ job' = [ running |-> TRUE,
                head    |-> head,
                last    |-> getLastBlock,
                stop    |-> getNextStop(getLastBlock, head.blockNumber),
                at      |-> getLastBlock + 1,
                step    |-> 0 ]
    /\ base' = IF lastSyncedHere THEN base ELSE getLastBlock
    /\ UNCHANGED << head, syncPoint, applied, dropped, failures >>

inBatch == job.running /\ job.at <= job.stop

do(k) == applied' = [applied EXCEPT ![job.at][k] = saturatingInc(@)]

\* TransactionSynchronizer.addTransactions
addTransactions ==
    /\ inBatch
    /\ job.step = 0
    /\ do(0)
    /\ job' = [job EXCEPT !.step = 1]
    /\ UNCHANGED << head, syncPoint, base, dropped, failures >>

\* Seeded fault: the loop does not advance past the last extrinsic.
processExtrinsicAgain ==
    /\ inBatch
    /\ job.step > 0
    /\ job.at \notin Poison
    /\ do(job.step)
    /\ job' = IF job.step < Steps THEN [job EXCEPT !.step = @ + 1] ELSE job
    /\ UNCHANGED << head, syncPoint, base, dropped, failures >>

\* one extrinsic, through the three synchronizers that update requests and votes
processExtrinsic ==
    /\ inBatch
    /\ job.step > 0
    /\ job.at \notin Poison
    /\ do(job.step)
    /\ job' = IF job.step < Steps THEN [job EXCEPT !.step = @ + 1]
                                  ELSE [job EXCEPT !.step = 0, !.at = @ + 1]
    /\ UNCHANGED << head, syncPoint, base, dropped, failures >>

\* "Unsupported batch", a missing inclusion fee, an item that cannot be
\* acknowledged: the exception reaches the scheduler, which drops the job.
throwOnPoison ==
    /\ inBatch
    /\ job.step = 1
    /\ job.at \in Poison
    /\ job' = Idle
    /\ dropped' = saturatingInc(dropped)
    /\ UNCHANGED << head, syncPoint, base, applied, failures >>

\* Seeded fault: the sync point moves to the head the job started from.
syncToHead ==
    /\ job.running
    /\ job.at = job.stop + 1
    /\ syncPoint' = job.head
    /\ job' = IF job.stop = job.head.blockNumber THEN Idle
              ELSE [job EXCEPT !.last = job.stop,
                               !.stop = getNextStop(job.stop, job.head.blockNumber)]
    /\ UNCHANGED << head, base, applied, dropped, failures >>

\* the end of a batch: the sync point is stored, then the next batch begins
sync ==
    /\ job.running
    /\ job.at = job.stop + 1
    /\ syncPoint' = [chainType |-> job.head.chainType, blockNumber |-> job.stop]
    /\ job' = IF job.stop = job.head.blockNumber THEN Idle
              ELSE [job EXCEPT !.last = job.stop,
                               !.stop = getNextStop(job.stop, job.head.blockNumber)]
    /\ UNCHANGED << head, base, applied, dropped, failures >>

\* Seeded fault: the flag stays set although the job is over.
failAndKeepRunning ==
    /\ job.running
    /\ failures < MaxFailures
    /\ failures' = failures + 1
    /\ job' = [job EXCEPT !.at = job.stop + 2]
    /\ UNCHANGED << head, syncPoint, base, applied, dropped >>

\* The node or the database does not answer, or the process dies.
fail ==
    /\ job.running
    /\ failures < MaxFailures
    /\ failures' = failures + 1
    /\ job' = Idle
    /\ dropped' = saturatingInc(dropped)
    /\ UNCHANGED << head, syncPoint, base, applied >>

JobStep == addTransactions \/ processExtrinsic \/ throwOnPoison \/ sync

Next == finalizeBlock \/ lagBehind \/ migrate \/ startJob \/ JobStep \/ fail

Spec == Init /\ [][Next]_vars

\* The scheduler fires every 12 seconds, and the awaits of a job return.
FairSpec == Spec /\ WF_vars(startJob) /\ WF_vars(JobStep)

-----------------------------------------------------------------------------
(***************************************************************************)
(* Properties.                                                             *)
(***************************************************************************)

\* Every variable has its type; in particular a batch never reaches beyond
\* the block numbers that exist.
TypeOK ==
    /\ head \in Block
    /\ syncPoint \in Block \union { NoBlock }
    /\ job \in Job \union { Idle }
    /\ base \in Number
    /\ applied \in [Number -> [0 .. Steps -> 0 .. MaxTimes]]
    /\ dropped \in 0 .. MaxTimes
    /\ failures \in 0 .. MaxFailures

Done(b) == \A k \in 0 .. Steps : applied[b][k] > 0

\* No block is skipped: whatever failed and was restarted, every effect of
\* every block from the first one processed up to the sync point took place.
SyncPointCoversAll ==
    lastSyncedHere => \A b \in base + 1 .. syncPoint.blockNumber : Done(b)

\* An effect takes place only after all those before it in the chain did,
\* restarts included: no extrinsic is applied before one it may depend on.
AppliedInOrder ==
    [][\A b \in Number, k \in 0 .. Steps :
          applied'[b][k] > applied[b][k] =>
            /\ \A c \in base + 1 .. b - 1 : Done(c)
            /\ \A i \in 0 .. k - 1 : applied[b][i] > 0]_vars

\* Nothing behind the sync point is ever applied again.
NoReplayBehindSyncPoint ==
    [][\A b \in Number :
          lastSyncedHere /\ b <= syncPoint.blockNumber /\ head'.chainType = head.chainType
            => applied'[b] = applied[b]]_vars

\* Duplicates come from dropped jobs, never from a job itself: an effect takes
\* place at most once, plus once for every job that was dropped.
OncePerDroppedJob ==
    \A b \in Number, k \in 0 .. Steps : applied[b][k] <= dropped + 1

Synchronized == lastSyncedHere /\ syncPoint.blockNumber >= head.blockNumber

\* The next batch contains a block that cannot be applied.
Blocked ==
    Poison \intersect (getLastBlock + 1 .. getNextStop(getLastBlock, head.blockNumber)) # {}

\* Once failures and new blocks cease, the sync point catches up with the
\* head, unless a block that cannot be applied is in the way: it stops the
\* synchronization of all that follows.
EventuallySynchronized == <>[](Synchronized \/ Blocked)

\* The block consumer delivers blocks as BlockDelivery promises.
Delivery == INSTANCE BlockDelivery WITH
    acked  <- IF lastSyncedHere THEN syncPoint.blockNumber ELSE -1,
    cursor <- IF job.running THEN job.at - 1
              ELSE IF lastSyncedHere THEN syncPoint.blockNumber ELSE -1

ImplementsBlockDelivery == Delivery!Spec

-----------------------------------------------------------------------------
\* "As a result, `last` is -1 when nothing has been synced yet": the first
\* synchronization would process every block of the chain.  It begins at the
\* head.
SyncedFromGenesis ==
    lastSyncedHere => \A b \in 0 .. syncPoint.blockNumber : Done(b)
=============================================================================

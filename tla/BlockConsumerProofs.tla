------------------------ MODULE BlockConsumerProofs ------------------------
(***************************************************************************)
(* The safety of the synchronization, for any batch size, number of        *)
(* extrinsics per block, blocks that cannot be applied and failures.       *)
(*                                                                         *)
(* The invariant says where a job stands: it works on the chain of the     *)
(* head, right after the sync point or the base, it has done all that is   *)
(* before its position, and what is still pending was only done by jobs    *)
(* that were dropped.                                                      *)
(***************************************************************************)
EXTENDS BlockConsumer, TLAPS

\* a job goes on from the sync point, or from the base when there is none
JobPosition ==
    /\ job.head.chainType = head.chainType
    /\ job.last < job.stop /\ job.stop <= job.head.blockNumber
    /\ job.last < job.at /\ job.at <= job.stop + 1
    /\ job.at = job.stop + 1 => job.step = 0
    /\ base <= job.last
    /\ lastSyncedHere => syncPoint.blockNumber = job.last
    /\ ~lastSyncedHere => base = job.last

\* ... and has done what is before its position
JobDone ==
    /\ \A c \in base + 1 .. job.at - 1 : Done(c)
    /\ \A i \in 0 .. job.step - 1 : applied[job.at][i] > 0

ChainInv ==
    /\ head.blockNumber > 0
    /\ head.chainType = "Solo" => syncPoint.chainType # "Para"
    /\ lastSyncedHere => base <= syncPoint.blockNumber

\* effects that neither the running job nor one that ended normally did
Pending(b, k) ==
    IF job.running THEN b > job.at \/ (b = job.at /\ k >= job.step)
    ELSE lastSyncedHere => b > syncPoint.blockNumber

PendingByDropped ==
    \A b \in Number, k \in 0 .. Steps : Pending(b, k) => applied[b][k] <= dropped

Inv ==
    /\ TypeOK
    /\ ChainInv
    /\ job.running => JobPosition /\ JobDone
    /\ SyncPointCoversAll
    /\ OncePerDroppedJob
    /\ PendingByDropped

USE ConstantsAssumption DEF ConstantsAssumption, ChainType, Number

LEMMA JobIsTyped ==
    ASSUME TypeOK
    PROVE  \/ job \in Job /\ job.running
           \/ job = Idle /\ ~job.running
<1>1. CASE job \in Job
  BY <1>1 DEF Job
<1>2. CASE job = Idle
  BY <1>2 DEF Idle
<1> QED
  BY <1>1, <1>2 DEF TypeOK

LEMMA SyncedIsBlock ==
    ASSUME TypeOK, lastSyncedHere
    PROVE  /\ syncPoint \in Block
           /\ syncPoint.blockNumber \in Number
  BY DEF TypeOK, lastSyncedHere, Block, NoBlock

LEMMA InitInv == Init => Inv
<1> SUFFICES ASSUME Init PROVE Inv
  OBVIOUS
<1>1. head \in Block /\ head.blockNumber > 0 /\ head.chainType = "Solo" /\ base = head.blockNumber
  BY DEF Init, Block
<1>2. ~lastSyncedHere /\ syncPoint.chainType = "none"
  BY <1>1 DEF Init, NoBlock, lastSyncedHere
<1>3. ~job.running /\ job = Idle
  BY DEF Init, Idle
<1>4. applied = [b \in Number |-> [k \in 0 .. Steps |-> 0]] /\ dropped = 0 /\ failures = 0
  BY DEF Init
<1>5. TypeOK
  BY <1>1, <1>3, <1>4 DEF Init, TypeOK, Block
<1>6. \A b \in Number, k \in 0 .. Steps : applied[b][k] = 0
  BY <1>4
<1> QED
  BY <1>1, <1>2, <1>3, <1>4, <1>5, <1>6
     DEF Inv, ChainInv, SyncPointCoversAll, OncePerDroppedJob, PendingByDropped

-----------------------------------------------------------------------------
(***************************************************************************)
(* The effects of a step.                                                  *)
(***************************************************************************)

LEMMA Increment ==
    ASSUME NEW n \in 0 .. MaxTimes
    PROVE  /\ saturatingInc(n) \in 0 .. MaxTimes
           /\ saturatingInc(n) >= n /\ saturatingInc(n) > 0
           /\ saturatingInc(n) <= n + 1
           /\ \A m \in 0 .. MaxTimes : m <= n + 1 => m <= saturatingInc(n)
  BY DEF saturatingInc

\* A step of a block only counts one effect more.
LEMMA DoCounts ==
    ASSUME TypeOK, NEW k \in 0 .. Steps, job.at \in Number, do(k)
    PROVE  /\ applied' \in [Number -> [0 .. Steps -> 0 .. MaxTimes]]
           /\ applied'[job.at][k] = saturatingInc(applied[job.at][k])
           /\ applied'[job.at][k] > 0
           /\ applied[job.at][k] \in 0 .. MaxTimes
           /\ \A b \in Number, i \in 0 .. Steps :
                 b # job.at \/ i # k => applied'[b][i] = applied[b][i]
           /\ \A b \in Number : b # job.at => applied'[b] = applied[b]
           /\ \A b \in Number, i \in 0 .. Steps : applied[b][i] > 0 => applied'[b][i] > 0
<1>1. applied \in [Number -> [0 .. Steps -> 0 .. MaxTimes]]
  BY DEF TypeOK
<1>2. applied[job.at][k] \in 0 .. MaxTimes
  BY <1>1
<1> DEFINE new == saturatingInc(applied[job.at][k])
<1>3. new \in 0 .. MaxTimes /\ new > 0
  BY <1>2, Increment
<1>4. applied' = [applied EXCEPT ![job.at][k] = new]
  BY DEF do
<1> HIDE DEF new
<1>5. applied' \in [Number -> [0 .. Steps -> 0 .. MaxTimes]]
  BY <1>1, <1>3, <1>4
<1>6. applied'[job.at][k] = new
  BY <1>1, <1>4
<1>7. \A b \in Number,
i \in 0 .. Steps : b # job.at \/ i # k => applied'[b][i] = applied[b][i]
  BY <1>1, <1>4
<1>8. \A b \in Number : b # job.at => applied'[b] = applied[b]
  BY <1>1, <1>4
<1> QED
  BY <1>2, <1>3, <1>5, <1>6, <1>7, <1>8 DEF new

\* the position of a job, in numbers
LEMMA Position ==
    ASSUME Inv, job.running
    PROVE  /\ job \in Job
           /\ job.head \in Block /\ job.head.blockNumber \in Number
           /\ job.last \in Number /\ job.stop \in Number /\ job.at \in Nat
           /\ job.step \in 0 .. Steps
           /\ base \in Number
           /\ JobPosition /\ JobDone
           /\ job.at <= job.stop => job.at \in Number
           /\ job.at >= 1
<1>1. job \in Job
  BY JobIsTyped DEF Inv
<1>2. /\ job.head \in Block /\ job.head.blockNumber \in Number
      /\ job.last \in Number /\ job.stop \in Number /\ job.at \in Nat
      /\ job.step \in 0 .. Steps
  BY <1>1 DEF Job, Block
<1>3. base \in Number /\ JobPosition /\ JobDone
  BY DEF Inv, TypeOK
<1>4. job.at >= 1
  BY <1>2, <1>3 DEF JobPosition
<1> QED
  BY <1>1, <1>2, <1>3, <1>4

-----------------------------------------------------------------------------
(***************************************************************************)
(* The node changes the head, or the chain.                                *)
(***************************************************************************)

\* A new block, or a node that lags behind: the chain of the head stays, and so
\* does all that was done.
LEMMA HeadKeepsInv ==
    ASSUME Inv, finalizeBlock \/ lagBehind
    PROVE  Inv'
<1>1. /\ head' \in Block /\ head'.chainType = head.chainType /\ head'.blockNumber > 0
      /\ failures' \in 0 .. MaxFailures
  <2>1. CASE finalizeBlock
    BY <2>1 DEF Inv, TypeOK, Block, ChainInv, finalizeBlock
  <2>2. CASE lagBehind
    <3>1. head \in Block /\ failures \in 0 .. MaxFailures
      BY DEF Inv, TypeOK
    <3>2. PICK n \in 1 .. head.blockNumber - 1 : head' = [head EXCEPT !.blockNumber = n]
      BY <2>2 DEF lagBehind
    <3>3. head.blockNumber \in Number
      BY <3>1 DEF Block
    <3>4. n \in Number /\ n > 0
      BY <3>3
    <3>5. head' \in Block /\ head'.chainType = head.chainType /\ head'.blockNumber = n
      BY <3>1, <3>2, <3>4 DEF Block
    <3>6. failures' \in 0 .. MaxFailures
      BY <2>2, <3>1 DEF lagBehind
    <3> QED
      BY <3>4, <3>5, <3>6
  <2> QED
    BY <2>1, <2>2
<1>2. UNCHANGED << syncPoint, job, base, applied, dropped >>
  BY DEF finalizeBlock, lagBehind
<1>3. lastSyncedHere' <=> lastSyncedHere
  BY <1>1, <1>2 DEF lastSyncedHere
<1>4. TypeOK'
  BY <1>1, <1>2 DEF Inv, TypeOK
<1>5. ChainInv'
  BY <1>1, <1>2, <1>3 DEF Inv, ChainInv
<1>6. job'.running => JobPosition' /\ JobDone'
  BY <1>1, <1>2, <1>3 DEF Inv, JobPosition, JobDone, Done
<1>7. SyncPointCoversAll' /\ OncePerDroppedJob' /\ PendingByDropped'
  BY <1>2, <1>3 DEF Inv, SyncPointCoversAll, OncePerDroppedJob, PendingByDropped, Pending,
                    Done
<1> QED
  BY <1>4, <1>5, <1>6, <1>7 DEF Inv

\* The new chain has neither a sync point nor effects.
LEMMA MigrateKeepsInv ==
    ASSUME Inv, migrate
    PROVE  Inv'
<1>1. /\ head' \in Block /\ head'.chainType = "Para" /\ head'.blockNumber > 0
      /\ base' \in Number
  BY DEF migrate, Block
<1>2. job' = Idle /\ ~job'.running /\ syncPoint' = syncPoint
  BY DEF migrate, Idle
<1>3. ~lastSyncedHere'
  BY <1>1, <1>2 DEF Inv, ChainInv, migrate, lastSyncedHere
<1>4. /\ applied' = [b \in Number |-> [k \in 0 .. Steps |-> 0]]
      /\ dropped' = 0 /\ failures' = failures
  BY DEF migrate
<1>5. \A b \in Number, k \in 0 .. Steps : applied'[b][k] = 0
  BY <1>4
<1>6. TypeOK'
  BY <1>1, <1>2, <1>4 DEF Inv, TypeOK
<1>7. ChainInv' /\ SyncPointCoversAll'
  BY <1>1, <1>3 DEF ChainInv, SyncPointCoversAll
<1>8. OncePerDroppedJob' /\ PendingByDropped'
  BY <1>4, <1>5 DEF OncePerDroppedJob, PendingByDropped
<1> QED
  BY <1>2, <1>6, <1>7, <1>8 DEF Inv

-----------------------------------------------------------------------------
(***************************************************************************)
(* The job starts, and ends.                                               *)
(***************************************************************************)

\* the last block before the job, and the first stop
LEMMA Starting ==
    ASSUME Inv, startJob
    PROVE  LET last == getLastBlock
               stop == getNextStop(last, head.blockNumber)
           IN  /\ last \in Number /\ stop \in Number
               /\ head \in Block /\ head.blockNumber \in Number
               /\ last < stop /\ stop <= head.blockNumber
               /\ lastSyncedHere => syncPoint.blockNumber = last /\ base <= last
               /\ base' \in Number /\ base' <= last
               /\ ~lastSyncedHere => base' = last
               /\ lastSyncedHere => base' = base
<1>1. head \in Block /\ head.blockNumber \in Number /\ head.blockNumber > 0 /\ base \in Number
  BY DEF Inv, TypeOK, Block, ChainInv
<1>2. CASE lastSyncedHere
  <2>1. syncPoint.blockNumber \in Number /\ base <= syncPoint.blockNumber
    BY <1>2, SyncedIsBlock DEF Inv, ChainInv
  <2>2. syncPoint.blockNumber < head.blockNumber
    BY <1>1, <1>2, <2>1 DEF startJob, isOutOfSync
  <2>3. getLastBlock = syncPoint.blockNumber /\ base' = base
    BY <1>2 DEF getLastBlock, startJob
  <2> QED
    BY <1>1, <1>2, <2>1, <2>2, <2>3 DEF getNextStop
<1>3. CASE ~lastSyncedHere
  <2>1. getLastBlock = head.blockNumber - 1 /\ base' = head.blockNumber - 1
    BY <1>3 DEF getLastBlock, startJob
  <2> QED
    BY <1>1, <1>3, <2>1 DEF getNextStop
<1> QED
  BY <1>2, <1>3

LEMMA StartKeepsInv ==
    ASSUME Inv, startJob
    PROVE  Inv'
<1> DEFINE last == getLastBlock
           stop == getNextStop(last, head.blockNumber)
<1>1. /\ last \in Number /\ stop \in Number
      /\ head \in Block /\ head.blockNumber \in Number
      /\ last < stop /\ stop <= head.blockNumber
      /\ lastSyncedHere => syncPoint.blockNumber = last /\ base <= last
      /\ base' \in Number /\ base' <= last
      /\ ~lastSyncedHere => base' = last
      /\ lastSyncedHere => base' = base
  BY Starting
<1>2. /\ job' = [ running |-> TRUE, head |-> head, last |-> last, stop |-> stop,
                  at |-> last + 1, step |-> 0 ]
      /\ ~job.running
      /\ UNCHANGED << head, syncPoint, applied, dropped, failures >>
  BY DEF startJob
<1> HIDE DEF last, stop
<1>3. /\ job'.running /\ job'.head = head /\ job'.last = last /\ job'.stop = stop
      /\ job'.at = last + 1 /\ job'.step = 0
      /\ job' \in Job
  BY <1>1, <1>2 DEF Job
<1>4. lastSyncedHere' <=> lastSyncedHere
  BY <1>2 DEF lastSyncedHere
<1>5. TypeOK'
  BY <1>1, <1>2, <1>3 DEF Inv, TypeOK
<1>6. ChainInv' /\ SyncPointCoversAll'
  BY <1>1, <1>2, <1>4 DEF Inv, ChainInv, SyncPointCoversAll, Done
<1>7. JobPosition'
  BY <1>1, <1>2, <1>3, <1>4 DEF JobPosition
<1>8. JobDone'
  <2>1. \A c \in base' + 1 .. last : Done(c)'
    <3>1. CASE lastSyncedHere
      BY <1>1, <1>2, <3>1 DEF Inv, SyncPointCoversAll, Done
    <3>2. CASE ~lastSyncedHere
      BY <1>1, <3>2
    <3> QED
      BY <3>1, <3>2
  <2>2. job'.at - 1 = last /\ 0 .. job'.step - 1 = {}
    BY <1>1, <1>3
  <2> QED
    BY <2>1, <2>2 DEF JobDone
<1>9. OncePerDroppedJob' /\ PendingByDropped'
  <2>1. \A b \in Number, k \in 0 .. Steps : Pending(b, k)' => Pending(b, k)
    BY <1>1, <1>2, <1>3 DEF Pending
  <2> QED
    BY <1>2, <2>1 DEF Inv, OncePerDroppedJob, PendingByDropped
<1> QED
  BY <1>5, <1>6, <1>7, <1>8, <1>9 DEF Inv

\* A job that is dropped leaves its effects to the counter of dropped jobs.
LEMMA DropKeepsInv ==
    ASSUME Inv, throwOnPoison \/ fail
    PROVE  Inv'
<1>1. /\ job' = Idle /\ ~job'.running
      /\ dropped' = saturatingInc(dropped)
      /\ UNCHANGED << head, syncPoint, base, applied >>
      /\ failures' \in 0 .. MaxFailures
  <2>1. failures \in 0 .. MaxFailures
    BY DEF Inv, TypeOK
  <2>2. CASE throwOnPoison
    BY <2>1, <2>2 DEF throwOnPoison, Idle
  <2>3. CASE fail
    <3>1. /\ job' = Idle
          /\ dropped' = saturatingInc(dropped)
          /\ UNCHANGED << head, syncPoint, base, applied >>
          /\ failures' = failures + 1 /\ failures < MaxFailures
      BY <2>3 DEF fail
    <3> QED
      BY <2>1, <3>1, ConstantsAssumption DEF Idle
  <2> QED
    BY <2>2, <2>3
<1>2. /\ dropped \in 0 .. MaxTimes /\ dropped' \in 0 .. MaxTimes /\ dropped <= dropped'
      /\ \A m \in 0 .. MaxTimes : m <= dropped + 1 => m <= dropped'
  BY <1>1, Increment DEF Inv, TypeOK
<1>3. lastSyncedHere' <=> lastSyncedHere
  BY <1>1 DEF lastSyncedHere
<1>4. TypeOK'
  BY <1>1, <1>2 DEF Inv, TypeOK
<1>5. ChainInv' /\ SyncPointCoversAll'
  BY <1>1, <1>3 DEF Inv, ChainInv, SyncPointCoversAll, Done
<1>6. \A b \in Number, k \in 0 .. Steps : applied[b][k] \in 0 .. MaxTimes
  BY DEF Inv, TypeOK
<1>7. \A b \in Number, k \in 0 .. Steps : applied'[b][k] <= dropped'
  BY <1>1, <1>2, <1>6 DEF Inv, OncePerDroppedJob
<1>8. OncePerDroppedJob' /\ PendingByDropped'
  BY <1>1, <1>2, <1>6, <1>7 DEF OncePerDroppedJob, PendingByDropped
<1> QED
  BY <1>1, <1>4, <1>5, <1>8 DEF Inv

-----------------------------------------------------------------------------
(***************************************************************************)
(* The work of a job.                                                      *)
(***************************************************************************)

\* what addTransactions and processExtrinsic have in common
EffectStep ==
    /\ inBatch
    /\ do(job.step)
    /\ job' = IF job.step < Steps THEN [job EXCEPT !.step = @ + 1]
                                  ELSE [job EXCEPT !.step = 0, !.at = @ + 1]
    /\ UNCHANGED << head, syncPoint, base, dropped, failures >>

LEMMA EffectSteps ==
    ASSUME addTransactions \/ processExtrinsic
    PROVE  EffectStep
<1>1. CASE addTransactions
  <2>1. job.step = 0 /\ 0 < Steps /\ job' = [job EXCEPT !.step = 1]
    BY <1>1 DEF addTransactions
  <2>2. [job EXCEPT !.step = @ + 1] = [job EXCEPT !.step = 1]
    BY <2>1
  <2> QED
    BY <1>1, <2>1, <2>2 DEF addTransactions, EffectStep
<1>2. CASE processExtrinsic
  BY <1>2 DEF processExtrinsic, EffectStep
<1> QED
  BY <1>1, <1>2

\* where the job is after the effect
LEMMA Advance ==
    ASSUME Inv, EffectStep
    PROVE  /\ job.running /\ job.at \in Number /\ job.at <= job.stop
           /\ job' \in Job /\ job'.running
           /\ job'.head = job.head /\ job'.last = job.last /\ job'.stop = job.stop
           /\ \/ job.step < Steps /\ job'.at = job.at /\ job'.step = job.step + 1
              \/ job.step = Steps /\ job'.at = job.at + 1 /\ job'.step = 0
<1>1. job.running /\ job.at <= job.stop
  BY DEF EffectStep, inBatch
<1>2. job \in Job /\ job.step \in 0 .. Steps /\ job.at \in Number
  BY <1>1, Position
<1>3. CASE job.step < Steps
  <2>1. job' = [job EXCEPT !.step = job.step + 1] /\ job.step + 1 \in 0 .. Steps
    BY <1>2, <1>3 DEF EffectStep
  <2> QED
    BY <1>1, <1>2, <1>3, <2>1 DEF Job
<1>4. CASE job.step = Steps
  <2>1. job' = [job EXCEPT !.step = 0, !.at = job.at + 1]
    BY <1>4 DEF EffectStep
  <2>2. job.at + 1 \in Nat /\ 0 \in 0 .. Steps
    BY <1>2
  <2>3. job' \in Job /\ job'.at = job.at + 1 /\ job'.step = 0
    BY <1>2, <2>1, <2>2 DEF Job
  <2>4. job'.running /\ job'.head = job.head /\ job'.last = job.last /\ job'.stop = job.stop
    BY <1>1, <1>2, <2>1 DEF Job
  <2> QED
    BY <1>1, <1>2, <1>4, <2>3, <2>4
<1> QED
  BY <1>2, <1>3, <1>4

LEMMA EffectKeepsInv ==
    ASSUME Inv, EffectStep
    PROVE  Inv'
<1>1. /\ job.head \in Block /\ job.head.blockNumber \in Number
      /\ job.last \in Number /\ job.stop \in Number
      /\ job.step \in 0 .. Steps /\ base \in Number
      /\ JobPosition /\ JobDone
  BY Position DEF EffectStep, inBatch
<1>2. /\ job.running /\ job.at \in Number /\ job.at <= job.stop
      /\ job' \in Job /\ job'.running
      /\ job'.head = job.head /\ job'.last = job.last /\ job'.stop = job.stop
      /\ \/ job.step < Steps /\ job'.at = job.at /\ job'.step = job.step + 1
         \/ job.step = Steps /\ job'.at = job.at + 1 /\ job'.step = 0
  BY Advance
<1>3. UNCHANGED << head, syncPoint, base, dropped, failures >> /\ TypeOK
  BY DEF EffectStep, Inv
<1>4. /\ applied' \in [Number -> [0 .. Steps -> 0 .. MaxTimes]]
      /\ applied'[job.at][job.step] = saturatingInc(applied[job.at][job.step])
      /\ applied'[job.at][job.step] > 0
      /\ applied[job.at][job.step] \in 0 .. MaxTimes
      /\ \A b \in Number, i \in 0 .. Steps :
            b # job.at \/ i # job.step => applied'[b][i] = applied[b][i]
      /\ \A b \in Number, i \in 0 .. Steps : applied[b][i] > 0 => applied'[b][i] > 0
  BY <1>1, <1>2, <1>3, DoCounts DEF EffectStep
<1>5. TypeOK'
  BY <1>2, <1>3, <1>4 DEF TypeOK
<1>6. lastSyncedHere' <=> lastSyncedHere
  BY <1>3 DEF lastSyncedHere
<1>7. ChainInv'
  BY <1>3, <1>6 DEF Inv, ChainInv
<1>8. JobPosition'
  BY <1>1, <1>2, <1>3, <1>6 DEF JobPosition
<1>9. \A c \in Number : Done(c) => Done(c)'
  BY <1>4 DEF Done
<1>10. JobDone'
  <2>1. \A c \in base + 1 .. job.at - 1 : Done(c)'
    BY <1>1, <1>2, <1>9 DEF JobDone
  <2>2. \A i \in 0 .. job.step : applied'[job.at][i] > 0
    <3>1. \A i \in 0 .. job.step - 1 : i \in 0 .. Steps /\ applied[job.at][i] > 0
      BY <1>1 DEF JobDone
    <3>2. \A i \in 0 .. job.step - 1 : applied'[job.at][i] > 0
      BY <1>2, <1>4, <3>1
    <3>3. \A i \in 0 .. job.step : i \in 0 .. job.step - 1 \/ i = job.step
      BY <1>1
    <3> QED
      BY <1>4, <3>2, <3>3
  <2>3. CASE job.step < Steps /\ job'.at = job.at /\ job'.step = job.step + 1
    <3>1. 0 .. job'.step - 1 = 0 .. job.step
      BY <1>1, <2>3
    <3> QED
      BY <1>3, <2>1, <2>2, <2>3, <3>1 DEF JobDone
  <2>4. CASE job.step = Steps /\ job'.at = job.at + 1 /\ job'.step = 0
    <3>1. \A c \in Number : c = job.at => Done(c)'
      BY <2>2, <2>4 DEF Done
    <3>2. \A c \in base + 1 .. job'.at - 1 : c \in base + 1 .. job.at - 1 \/ c = job.at
      BY <1>1, <1>2, <2>4
    <3>3. 0 .. job'.step - 1 = {}
      BY <2>4
    <3> QED
      BY <1>2, <1>3, <2>1, <3>1, <3>2, <3>3 DEF JobDone
  <2> QED
    BY <1>2, <2>3, <2>4
<1>11. SyncPointCoversAll'
  <2> SUFFICES ASSUME lastSyncedHere, NEW b \in base + 1 .. syncPoint.blockNumber
               PROVE  Done(b)'
    BY <1>3, <1>6 DEF SyncPointCoversAll
  <2>1. b \in Number
    BY <1>1, <1>3, SyncedIsBlock
  <2> QED
    BY <1>9, <2>1 DEF Inv, SyncPointCoversAll
<1>12. applied[job.at][job.step] <= dropped
  BY <1>1, <1>2 DEF Inv, PendingByDropped, Pending
<1>13. OncePerDroppedJob'
  <2>1. applied'[job.at][job.step] <= dropped + 1
    <3> DEFINE old == applied[job.at][job.step]
               new == applied'[job.at][job.step]
    <3>1. old \in 0 .. MaxTimes /\ new = saturatingInc(old) /\ old <= dropped
      BY <1>4, <1>12
    <3>2. dropped \in 0 .. MaxTimes
      BY <1>3 DEF TypeOK
    <3> HIDE DEF old, new
    <3>3. new \in 0 .. MaxTimes /\ new <= old + 1
      BY <3>1, Increment
    <3>4. new <= dropped + 1
      BY <3>1, <3>2, <3>3
    <3> QED
      BY <3>4 DEF new
  <2> QED
    BY <1>3, <1>4, <2>1 DEF Inv, OncePerDroppedJob
<1>14. PendingByDropped'
  <2>1. \A b \in Number, k \in 0 .. Steps :
           Pending(b, k)' => Pending(b, k) /\ (b # job.at \/ k # job.step)
    BY <1>1, <1>2 DEF Pending
  <2> QED
    BY <1>3, <1>4, <2>1 DEF Inv, PendingByDropped
<1> QED
  BY <1>5, <1>7, <1>8, <1>10, <1>11, <1>13, <1>14 DEF Inv

\* The batch is acknowledged; the job ends, or goes on with the next batch.
LEMMA SyncKeepsInv ==
    ASSUME Inv, sync
    PROVE  Inv'
<1>1. /\ job \in Job /\ job.running
      /\ job.head \in Block /\ job.head.blockNumber \in Number
      /\ job.last \in Number /\ job.stop \in Number /\ job.at \in Nat
      /\ job.step \in 0 .. Steps /\ base \in Number
      /\ JobPosition /\ JobDone
      /\ job.at = job.stop + 1 /\ job.step = 0
  BY Position DEF sync, JobPosition
<1>2. /\ syncPoint' = [chainType |-> job.head.chainType, blockNumber |-> job.stop]
      /\ UNCHANGED << head, base, applied, dropped, failures >>
      /\ TypeOK
  BY DEF sync, Inv
<1>3. /\ syncPoint' \in Block /\ syncPoint'.blockNumber = job.stop
      /\ lastSyncedHere'
      /\ syncPoint'.chainType = head.chainType
  BY <1>1, <1>2 DEF Block, lastSyncedHere, JobPosition
<1>4. \/ job' = Idle /\ ~job'.running
      \/ /\ job' \in Job /\ job'.running
         /\ job'.head = job.head /\ job'.last = job.stop
         /\ job'.stop > job.stop /\ job'.stop <= job.head.blockNumber
         /\ job'.stop \in Number
         /\ job'.at = job.at /\ job'.step = job.step
  <2>1. CASE job.stop = job.head.blockNumber
    BY <2>1 DEF sync, Idle
  <2>2. CASE job.stop # job.head.blockNumber
    <3> DEFINE next == getNextStop(job.stop, job.head.blockNumber)
    <3>1. next > job.stop /\ next <= job.head.blockNumber /\ next \in Number
      BY <1>1, <2>2 DEF JobPosition, getNextStop
    <3>2. job' = [job EXCEPT !.last = job.stop, !.stop = next]
      BY <2>2 DEF sync
    <3> HIDE DEF next
    <3> QED
      BY <1>1, <3>1, <3>2 DEF Job
  <2> QED
    BY <2>1, <2>2
<1>5. TypeOK'
  BY <1>2, <1>3, <1>4 DEF TypeOK
<1>6. ChainInv'
  BY <1>1, <1>2, <1>3 DEF Inv, ChainInv, JobPosition, Block
<1>7. \A c \in base + 1 .. job.stop : Done(c)'
  <2>1. job.at - 1 = job.stop
    BY <1>1
  <2> QED
    BY <1>1, <1>2, <2>1 DEF JobDone, Done
<1>8. SyncPointCoversAll'
  BY <1>2, <1>3, <1>7 DEF SyncPointCoversAll
<1>9. job'.running => JobPosition' /\ JobDone'
  <2> SUFFICES ASSUME job'.running PROVE JobPosition' /\ JobDone'
    OBVIOUS
  <2>1. /\ job'.head = job.head /\ job'.last = job.stop
        /\ job'.stop > job.stop /\ job'.stop <= job.head.blockNumber
        /\ job'.stop \in Number
        /\ job'.at = job.at /\ job'.step = job.step
    BY <1>4
  <2>2. JobPosition'
    BY <1>1, <1>2, <1>3, <2>1 DEF JobPosition
  <2>3. JobDone'
    BY <1>1, <1>2, <2>1 DEF JobDone, Done
  <2> QED
    BY <2>2, <2>3
<1>10. \A b \in Number, k \in 0 .. Steps : Pending(b, k)' => Pending(b, k)
  BY <1>1, <1>3, <1>4 DEF Pending
<1>11. OncePerDroppedJob' /\ PendingByDropped'
  BY <1>2, <1>10 DEF Inv, OncePerDroppedJob, PendingByDropped
<1> QED
  BY <1>5, <1>6, <1>8, <1>9, <1>11 DEF Inv

-----------------------------------------------------------------------------
(***************************************************************************)
(* The theorems.                                                           *)
(***************************************************************************)

LEMMA InvStep ==
    ASSUME Inv, [Next]_vars
    PROVE  Inv'
<1>1. CASE Next
  BY <1>1, HeadKeepsInv, MigrateKeepsInv, StartKeepsInv, DropKeepsInv, SyncKeepsInv,
     EffectSteps, EffectKeepsInv DEF Next, JobStep
<1>2. CASE UNCHANGED vars
  <2>1. UNCHANGED << head, syncPoint, job, base, applied, dropped, failures >>
    BY <1>2 DEF vars
  <2>2. lastSyncedHere' <=> lastSyncedHere
    BY <2>1 DEF lastSyncedHere
  <2>3. TypeOK' /\ ChainInv' /\ SyncPointCoversAll'
    BY <2>1, <2>2 DEF Inv, TypeOK, ChainInv, SyncPointCoversAll, Done
  <2>4. job'.running => JobPosition' /\ JobDone'
    BY <2>1, <2>2 DEF Inv, JobPosition, JobDone, Done
  <2>5. OncePerDroppedJob' /\ PendingByDropped'
    BY <2>1, <2>2 DEF Inv, OncePerDroppedJob, PendingByDropped, Pending
  <2> QED
    BY <2>3, <2>4, <2>5 DEF Inv
<1> QED
  BY <1>1, <1>2

\* The invariant, for any batch size, failures and migration.
THEOREM Invariance == Spec => []Inv
<1>1. Init => Inv
  BY InitInv
<1>2. Inv /\ [Next]_vars => Inv'
  BY InvStep
<1> QED BY <1>1, <1>2, PTL DEF Spec

\* Every variable keeps its type; a job never works on a block that does not exist.
THEOREM TypeCorrect == Spec => []TypeOK
<1>1. Inv => TypeOK
  BY DEF Inv
<1> QED BY <1>1, Invariance, PTL

\* No block up to the sync point is skipped, whatever failed (consumeNewBlocks).
THEOREM NothingSkipped == Spec => []SyncPointCoversAll
<1>1. Inv => SyncPointCoversAll
  BY DEF Inv
<1> QED BY <1>1, Invariance, PTL

\* Only dropped jobs repeat effects, each of them at most once.
THEOREM OncePerDrop == Spec => []OncePerDroppedJob
<1>1. Inv => OncePerDroppedJob
  BY DEF Inv
<1> QED BY <1>1, Invariance, PTL

\* Only the steps of the job count effects; the others keep or reset them.
LEMMA OnlyEffectsCount ==
    ASSUME Inv, [Next]_vars
    PROVE  \/ EffectStep
           \/ UNCHANGED applied
           \/ /\ head'.chainType # head.chainType
              /\ \A b \in Number, k \in 0 .. Steps : applied'[b][k] <= applied[b][k]
<1>1. CASE migrate
  <2>1. head'.chainType # head.chainType
    BY <1>1 DEF migrate
  <2>2. applied' = [b \in Number |-> [k \in 0 .. Steps |-> 0]]
    BY <1>1 DEF migrate
  <2>3. \A b \in Number, k \in 0 .. Steps : applied[b][k] \in 0 .. MaxTimes
    BY DEF Inv, TypeOK
  <2>4. \A b \in Number, k \in 0 .. Steps : applied'[b][k] = 0
    BY <2>2
  <2> QED
    BY <2>1, <2>3, <2>4
<1>2. CASE addTransactions \/ processExtrinsic
  BY <1>2, EffectSteps
<1>3. CASE finalizeBlock \/ lagBehind \/ startJob \/ throwOnPoison \/ sync \/ fail
  BY <1>3 DEF finalizeBlock, lagBehind, startJob, throwOnPoison, sync, fail
<1>4. CASE UNCHANGED vars
  BY <1>4 DEF vars
<1> QED
  BY <1>1, <1>2, <1>3, <1>4 DEF Next, JobStep

\* Effects take place in the order of the chain, restarts included.
THEOREM InOrder == Spec => AppliedInOrder
<1> DEFINE InOrderStep ==
      \A b \in Number, k \in 0 .. Steps :
         applied'[b][k] > applied[b][k] =>
           /\ \A c \in base + 1 .. b - 1 : Done(c)
           /\ \A i \in 0 .. k - 1 : applied[b][i] > 0
<1>1. ASSUME Inv, [Next]_vars
      PROVE  InOrderStep
  <2> SUFFICES ASSUME NEW b \in Number, NEW k \in 0 .. Steps,
                      applied'[b][k] > applied[b][k]
               PROVE  /\ \A c \in base + 1 .. b - 1 : Done(c)
                      /\ \A i \in 0 .. k - 1 : applied[b][i] > 0
    OBVIOUS
  <2>1. applied[b][k] \in 0 .. MaxTimes /\ applied'[b][k] \in 0 .. MaxTimes
    BY <1>1, InvStep DEF Inv, TypeOK
  <2>2. EffectStep
    BY <1>1, <2>1, OnlyEffectsCount
  <2>3. job.running /\ job.at \in Number /\ job.step \in 0 .. Steps /\ JobDone /\ TypeOK
    BY <1>1, <2>2, Advance, Position DEF Inv
  <2>4. b = job.at /\ k = job.step
    <3>1. do(job.step)
      BY <2>2 DEF EffectStep
    <3>2. b # job.at \/ k # job.step => applied'[b][k] = applied[b][k]
      BY <2>3, <3>1, DoCounts
    <3>3. applied'[b][k] # applied[b][k]
      BY <2>1
    <3> QED
      BY <3>2, <3>3
  <2> QED
    BY <2>3, <2>4 DEF JobDone
<1>2. InOrderStep => [InOrderStep]_vars
  OBVIOUS
<1> QED BY <1>1, <1>2, Invariance, PTL DEF Spec, AppliedInOrder

\* Nothing behind the sync point is applied again (getLastBlock).
THEOREM NoReplay == Spec => NoReplayBehindSyncPoint
<1> DEFINE NoReplayStep ==
      \A b \in Number :
         lastSyncedHere /\ b <= syncPoint.blockNumber /\ head'.chainType = head.chainType
           => applied'[b] = applied[b]
<1>1. ASSUME Inv, [Next]_vars
      PROVE  NoReplayStep
  <2>1. CASE EffectStep
    <3>1. /\ job.running /\ job.at \in Number /\ job.last \in Number
          /\ job.step \in 0 .. Steps /\ JobPosition /\ TypeOK
      BY <1>1, <2>1, Advance, Position DEF Inv
    <3>2. \A b \in Number : b # job.at => applied'[b] = applied[b]
      BY <2>1, <3>1, DoCounts DEF EffectStep
    <3>3. lastSyncedHere => syncPoint.blockNumber < job.at
      BY <3>1 DEF JobPosition
    <3>4. lastSyncedHere => syncPoint.blockNumber \in Number
      BY <3>1, SyncedIsBlock
    <3> QED
      BY <3>1, <3>2, <3>3, <3>4
  <2>2. CASE UNCHANGED applied
    BY <2>2
  <2> QED
    BY <1>1, <2>1, <2>2, OnlyEffectsCount
<1>2. NoReplayStep => [NoReplayStep]_vars
  OBVIOUS
<1> QED BY <1>1, <1>2, Invariance, PTL DEF Spec, NoReplayBehindSyncPoint

\* The consumer is a delivery of blocks: one after the other, acknowledged only
\* when delivered, started over from the last acknowledgement.
THEOREM Refinement == Spec => ImplementsBlockDelivery
<1> DEFINE acked  == IF lastSyncedHere THEN syncPoint.blockNumber ELSE -1
           cursor == IF job.running THEN job.at - 1
                     ELSE IF lastSyncedHere THEN syncPoint.blockNumber ELSE -1
<1>1. Init => Delivery!Init
  <2> SUFFICES ASSUME Init PROVE Delivery!Init
    OBVIOUS
  <2>1. ~job.running /\ ~lastSyncedHere
    BY DEF Init, Idle, lastSyncedHere, NoBlock
  <2> QED
    BY <2>1 DEF Delivery!Init, Delivery!None
<1>2. ASSUME Inv, [Next]_vars
      PROVE  [Delivery!Next]_<< acked, cursor >>
  <2>1. lastSyncedHere => syncPoint.blockNumber \in Number
    BY <1>2, SyncedIsBlock DEF Inv
  <2>2. CASE finalizeBlock \/ lagBehind
    <3>1. head'.chainType = head.chainType /\ UNCHANGED << syncPoint, job >>
      BY <1>2, <2>2 DEF finalizeBlock, lagBehind, Inv, TypeOK, Block
    <3> QED
      BY <3>1 DEF lastSyncedHere
  <2>3. CASE migrate
    <3>1. ~job'.running /\ ~lastSyncedHere'
      BY <1>2, <2>3 DEF migrate, Idle, lastSyncedHere, Inv, ChainInv
    <3>2. Delivery!Reset
      BY <3>1 DEF Delivery!Reset, Delivery!None
    <3> QED
      BY <3>2 DEF Delivery!Next
  <2>4. CASE startJob
    <3>1. /\ ~job.running /\ job'.running /\ job'.at - 1 = getLastBlock
          /\ lastSyncedHere' <=> lastSyncedHere
          /\ syncPoint' = syncPoint
          /\ getLastBlock \in Nat
      BY <1>2, <2>4, Starting DEF startJob, lastSyncedHere
    <3>2. CASE lastSyncedHere
      BY <3>1, <3>2 DEF getLastBlock
    <3>3. CASE ~lastSyncedHere
      BY <3>1, <3>3 DEF Delivery!Next, Delivery!Begin, Delivery!None
    <3> QED
      BY <3>2, <3>3
  <2>5. CASE EffectStep
    <3>1. /\ job.running /\ job'.running /\ job.at \in Number /\ job.at >= 1
          /\ job'.at = job.at \/ job'.at = job.at + 1
          /\ UNCHANGED << syncPoint, head >>
      BY <1>2, <2>5, Advance, Position DEF EffectStep
    <3>2. acked' = acked
      BY <3>1 DEF lastSyncedHere
    <3>3. CASE job'.at = job.at
      BY <3>1, <3>2, <3>3
    <3>4. CASE job'.at = job.at + 1
      BY <3>1, <3>2, <3>4 DEF Delivery!Next, Delivery!Deliver, Delivery!None
    <3> QED
      BY <3>1, <3>3, <3>4
  <2>6. CASE throwOnPoison \/ fail
    <3>1. job.running /\ ~job'.running /\ UNCHANGED << syncPoint, head >>
      BY <2>6 DEF throwOnPoison, fail, inBatch, Idle
    <3>2. acked' = acked /\ cursor' = acked
      BY <3>1 DEF lastSyncedHere
    <3> QED
      BY <3>2 DEF Delivery!Next, Delivery!StartOver
  <2>7. CASE sync
    <3>1. /\ job.running /\ job.at \in Nat /\ job.stop \in Number
          /\ job.at = job.stop + 1 /\ job.head.chainType = head.chainType
      BY <1>2, <2>7, Position DEF sync, JobPosition
    <3>2. /\ lastSyncedHere' /\ syncPoint'.blockNumber = job.stop
          /\ job'.running => job'.at = job.at
      BY <1>2, <2>7, <3>1, Position DEF sync, lastSyncedHere, Idle, Job
    <3>3. cursor = job.stop /\ cursor' = job.stop /\ acked' = job.stop
      BY <3>1, <3>2
    <3>4. cursor # -1
      BY <3>1, <3>3
    <3> QED
      BY <3>3, <3>4 DEF Delivery!Next, Delivery!Acknowledge, Delivery!None
  <2>8. CASE UNCHANGED vars
    BY <2>8 DEF vars, lastSyncedHere
  <2> QED
    BY <1>2, <2>2, <2>3, <2>4, <2>5, <2>6, <2>7, <2>8, EffectSteps DEF Next, JobStep
<1> QED BY <1>1, <1>2, Invariance, PTL DEF Spec, ImplementsBlockDelivery, Delivery!Spec
=============================================================================

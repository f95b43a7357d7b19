---------------------------- MODULE ChainRecords ----------------------------
(***************************************************************************)
(* What the back end records of the chain besides the requests: the        *)
(* transactions, the votes of the legal officers and the issuers selected  *)
(* for a LOC.  The job of BlockConsumer feeds them with blocks and goes    *)
(* back to the sync point when it is dropped; a block holds one extrinsic  *)
(* besides its timestamp.                                                  *)
(*                                                                         *)
(* An officer owns one LOC, named like the officer; the identity LOC of an *)
(* issuer exists.                                                          *)
(***************************************************************************)
EXTENDS Transactions

CONSTANTS
    Officers,    \* the legal officers, all on this node
    Issuers,
    BATCH_SIZE,
    MaxBlocks,   \* bound on the blocks
    MaxEvents,   \* bound on what one extrinsic charges
    MaxCharging, \* bound on the blocks that only charge or transfer; not mixed with others
    MaxDrops     \* bound on the dropped jobs

VoteStatus == { "PENDING", "APPROVED", "REJECTED" }
VoteResult == { "Yes", "No" }

\* None is different from what stands in its place.
ASSUME ConstantsAssumption ==
    /\ Officers \subseteq Accounts /\ IsFiniteSet(Officers)
    /\ Issuers \subseteq Accounts
    /\ None \notin Accounts /\ None \notin VoteResult /\ None \notin BOOLEAN /\ None # "FROM"
    /\ BATCH_SIZE \in Nat \ { 0 }
    /\ MaxDrops \in Nat

Locs == Officers

VARIABLES
    blocks,        \* the finalized extrinsics, one per block (external)
    chain,         \* the votes and selections of the chain (external)
    syncPoint,     \* the last block behind the sync point
    job,           \* the running job
    transactions,  \* the table of transactions, with the block and the attempt that stored a row
    votes,         \* the table of votes, by vote id
    selection,     \* the table of selections
    pending,       \* the writes of selections nobody waits for
    drops,         \* the jobs dropped so far
    unsure         \* history: the issuers of whom two writes overlapped, or one was lost

vars == << blocks, chain, syncPoint, job, transactions, votes, selection, pending, drops, unsure >>

records == << transactions, votes, selection, pending >>

VoteId == 1 .. Cardinality(Locs)
NoVote == [loc |-> None]
Ballots == [Officers -> VoteResult \union { None }]
Vote    == [loc : Locs, status : VoteStatus, ballots : Ballots]

newVote(l) == [loc |-> l, status |-> "PENDING", ballots |-> [o \in Officers |-> None]]

withBallot(vote, o, result, status) == [vote EXCEPT !.ballots[o] = result, !.status = status]

\* whether a row says that the issuer is selected; None without a row
Selection == BOOLEAN \union { None }

Idle == [running |-> FALSE]

Init ==
    /\ blocks = << >>
    /\ chain = [votes |-> << >>, nominated |-> {}, selected |-> {}]
    /\ syncPoint = 0
    /\ job = Idle
    /\ transactions = {}
    /\ votes = [v \in VoteId |-> NoVote]
    /\ selection = [x \in Locs \X Issuers |-> None]
    /\ pending = {}
    /\ drops = 0
    /\ unsure = {}

-----------------------------------------------------------------------------
(***************************************************************************)
(* The chain (external): the calls it accepts, what they change and the    *)
(* events they leave.                                                      *)
(***************************************************************************)

Transfers  == [section : { "balances" }, method : { "transfer" }, dest : Accounts]
Recovered  == [section : { "recovery" }, method : { "asRecovered" }, account : Accounts, call : Transfers]
Approvals  == [section : { "vault" }, method : { "approveCall" }, vault : Accounts, call : Transfers]
Other      == [section |-> "logionLoc", method |-> "createLoc"]

CreateVote == [section |-> "vote", method |-> "createVoteForAllLegalOfficers"]
CastVote   == [section |-> "vote", method |-> "vote"]
VoteCalls  == { CreateVote, CastVote }
IssuerCalls ==
    [section : { "logionLoc" }, method : { "nominateIssuer", "dismissIssuer" }, issuer : Issuers]
      \union [section : { "logionLoc" }, method : { "setIssuerSelection" }, issuer : Issuers, selected : BOOLEAN]

batchAll(a, b) == [section |-> "utility", method |-> "batchAll", calls |-> << a, b >>]
Batch == [section |-> "utility", method |-> "batch"]

createdVotes(c, signer) ==
    { [chain |-> [c EXCEPT !.votes = Append(@, newVote(signer))],
       events |-> << [method |-> "VoteCreated", vote |-> Len(c.votes) + 1] >>] :
        x \in { y \in { signer } : \A v \in DOMAIN c.votes : c.votes[v].loc # y } }

castVotes(c, signer) ==
    { [chain |-> [c EXCEPT !.votes[x.v] = withBallot(@, signer, x.result, x.status)],
       events |-> << [method |-> "VoteUpdated", vote |-> x.v, voter |-> signer, result |-> x.result,
                      closed |-> x.status # "PENDING", approved |-> x.status = "APPROVED"] >>] :
        x \in { y \in [v : DOMAIN c.votes, result : VoteResult, status : VoteStatus] :
                  /\ c.votes[y.v].status = "PENDING"
                  /\ c.votes[y.v].ballots[signer] = None } }

\* Nominations and selections are those of one officer.
issuerChanges(c, signer, call) ==
    LET x == << signer, call.issuer >>
        ok(d) == { [chain |-> d, events |-> << >>] }
    IN  CASE call.method = "nominateIssuer" /\ x \notin c.nominated ->
               ok([c EXCEPT !.nominated = @ \union { x }])
          [] call.method = "dismissIssuer" /\ x \in c.nominated ->
               ok([c EXCEPT !.nominated = @ \ { x }, !.selected = @ \ { x }])
          [] call.method = "setIssuerSelection" /\ x \in c.nominated ->
               ok([c EXCEPT !.selected = IF call.selected THEN @ \union { x } ELSE @ \ { x }])
          [] OTHER -> {}

outcomes(c, signer, call) ==
    CASE call = CreateVote -> createdVotes(c, signer)
      [] call = CastVote -> castVotes(c, signer)
      [] OTHER -> issuerChanges(c, signer, call)

batchOutcomes(c, signer, a, b) ==
    UNION { { [chain |-> y.chain, events |-> x.events \o y.events] :
                y \in outcomes(x.chain, signer, b) } : x \in outcomes(c, signer, a) }

isCharging(call) == call = Other \/ call.section \in { "balances", "recovery", "vault" }

finalized(call, signer, events, failure) ==
    /\ Len(blocks) < MaxBlocks
    /\ blocks' = Append(blocks, ExtrinsicBuilder(call, signer, events, failure))
    /\ UNCHANGED << syncPoint, job, drops, unsure, records >>

\* an officer's vote, nomination, dismissal or selection, alone or two at once
finalizeCall ==
    /\ \A b \in DOMAIN blocks : ~isCharging(blocks[b].call)
    /\ \E o \in Officers :
          \/ \E a \in VoteCalls \union IssuerCalls : \E x \in outcomes(chain, o, a) :
                /\ chain' = x.chain
                /\ finalized(a, o, x.events, "none")
          \/ \E a, b \in VoteCalls \union IssuerCalls : \E x \in batchOutcomes(chain, o, a, b) :
                /\ chain' = x.chain
                /\ finalized(batchAll(a, b), o, x.events, "none")

\* one that fails: in its pallet, or because the signer is no legal officer
finalizeFailed ==
    /\ \A b \in DOMAIN blocks : ~isCharging(blocks[b].call)
    /\ UNCHANGED chain
    /\ \/ \E o \in Officers, a \in VoteCalls \union IssuerCalls : finalized(a, o, << >>, "module")
       \/ \E s \in Accounts \ Officers, a \in VoteCalls \union IssuerCalls :
             finalized(a, s, << >>, "other")
       \/ \E o \in Officers, a, b \in VoteCalls : finalized(batchAll(a, b), o, << >>, "module")
       \/ \E o \in Officers : finalized(Batch, o, << >>, "none")

\* The fee of a collection item is charged to the signer.
Charges(signer) ==
    [method : { "StorageFeeWithdrawn", "CertificateFeeWithdrawn", "ValueFeeWithdrawn",
                "Reserved", "Unreserved" }, from : Accounts]
      \union [method : { "LegalFeeWithdrawn", "TokensRecordFeeWithdrawn" },
              from : Accounts, to : Accounts \union { None }]
      \union [method : { "CollectionItemFeeWithdrawn" }, from : { signer },
              to : Accounts \union { None }]

moved(from, call) == << [method |-> "Transfer", from |-> from, to |-> call.dest] >>

\* an extrinsic that only charges or transfers
finalizeCharges ==
    /\ Len(blocks) < MaxCharging
    /\ \A b \in DOMAIN blocks : isCharging(blocks[b].call)
    /\ UNCHANGED chain
    /\ \E s \in Accounts :
          \/ \E es \in BoundedSeq(Charges(s), MaxEvents) : finalized(Other, s, es, "none")
          \/ \E t \in Transfers : finalized(t, s, moved(s, t), "none")
          \/ \E r \in { r \in Recovered : r.account # s } :
                finalized(r, s, moved(r.account, r.call), "none")
          \/ \E a \in { a \in Approvals : a.vault # s } :
                finalized(a, s, moved(a.vault, a.call), "none") \/ finalized(a, s, << >>, "none")
          \/ \E c \in Transfers \union { r \in Recovered : r.account # s }
                      \union { a \in Approvals : a.vault # s } :
                \E failure \in { "module", "other" } : finalized(c, s, << >>, failure)

-----------------------------------------------------------------------------
(***************************************************************************)
(* The job.                                                                *)
(***************************************************************************)

extrinsic(e, call) == [call |-> call, signer |-> e.signer, events |-> e.events, failed |-> error(e)]

\* Seeded fault: the calls of a batch are not looked at.
unwrapNothing(e) == << extrinsic(e, e.call) >>

\* Seeded fault: the calls of a batch that failed are looked at.
unwrapFailedToo(e) ==
    << extrinsic(e, e.call) >>
      \o IF e.call.section = "utility" /\ e.call.method = "batchAll"
         THEN [k \in DOMAIN e.call.calls |-> [extrinsic(e, e.call.calls[k]) EXCEPT !.failed = FALSE]]
         ELSE << >>

\* The calls of a batch follow it, each with all the events of the batch.
unwrapExtrinsics(e) ==
    << extrinsic(e, e.call) >>
      \o IF e.call.section = "utility" /\ e.call.method = "batchAll" /\ ~error(e)
         THEN [k \in DOMAIN e.call.calls |-> [extrinsic(e, e.call.calls[k]) EXCEPT !.failed = FALSE]]
         ELSE << >>

unsupportedBatch(e) == e.call.section = "utility" /\ e.call.method \in { "batch", "forceBatch" }

\* processBlock begins with block n
processBlock(n, stop) ==
    [ running |-> TRUE, at |-> n, stop |-> stop,
      rows |-> extractTransactions(blocks[n]), todo |-> unwrapExtrinsics(blocks[n]) ]

\* Seeded fault: the batch may go beyond the head.
startJobUncapped ==
    /\ ~job.running
    /\ syncPoint < Len(blocks)
    /\ job' = processBlock(syncPoint + 1, syncPoint + BATCH_SIZE)
    /\ UNCHANGED << blocks, chain, syncPoint, drops, unsure, records >>

startJob ==
    /\ ~job.running
    /\ syncPoint < Len(blocks)
    /\ job' = processBlock(syncPoint + 1, Min({ syncPoint + BATCH_SIZE, Len(blocks) }))
    /\ UNCHANGED << blocks, chain, syncPoint, drops, unsure, records >>

\* TransactionSynchronizer.addTransactions: each row in a transaction of its own
addTransaction ==
    /\ job.running
    /\ \E r \in job.rows :
          /\ transactions' = transactions \union { [block |-> job.at, attempt |-> drops, row |-> r] }
          /\ job' = [job EXCEPT !.rows = @ \ { r }]
    /\ UNCHANGED << blocks, chain, syncPoint, votes, selection, pending, drops, unsure >>

\* the rows of the block are saved, its extrinsics follow
canApply ==
    /\ job.running
    /\ job.rows = {}
    /\ ~unsupportedBatch(blocks[job.at])
    /\ job.todo # << >>

isCall(x, section, methods) ==
    ~x.failed /\ x.call.section = section /\ x.call.method \in methods

applied ==
    /\ job' = [job EXCEPT !.todo = Tail(@)]
    /\ UNCHANGED << blocks, chain, syncPoint, transactions, drops >>

hasEvent(x, method) == Events(x, method) # {}
eventOf(x, method)  == x.events[Min(Events(x, method))]

isCreation(x) == isCall(x, "vote", { "createVoteForAllLegalOfficers" })

\* VoteRepository.save: a row that exists is written over, its ballots are added to
saved(v, vote) ==
    [vote EXCEPT !.ballots =
        [o \in Officers |-> IF @[o] = None /\ votes[v] # NoVote THEN votes[v].ballots[o] ELSE @[o]]]

addVote(x) ==
    /\ isCreation(x)
    /\ hasEvent(x, "VoteCreated")
    /\ LET event == eventOf(x, "VoteCreated")
       IN  votes' = [votes EXCEPT ![event.vote] = saved(event.vote, newVote(x.signer))]
    /\ applied
    /\ UNCHANGED << selection, pending, unsure >>

isBallot(x) == isCall(x, "vote", { "vote" })

\* the first VoteUpdated, of a vote that has a row, is pending and lacks the ballot
canAddBallot(x) ==
    LET event == eventOf(x, "VoteUpdated")
    IN  /\ hasEvent(x, "VoteUpdated")
        /\ votes[event.vote] # NoVote
        /\ event.closed => votes[event.vote].status = "PENDING"
        /\ votes[event.vote].ballots[event.voter] = None

\* Seeded fault: a vote that is closed stays pending.
updateVoteOnly(x) ==
    /\ isBallot(x)
    /\ canAddBallot(x)
    /\ LET event == eventOf(x, "VoteUpdated")
       IN  votes' = [votes EXCEPT ![event.vote].ballots[event.voter] = event.result]
    /\ applied
    /\ UNCHANGED << selection, pending, unsure >>

\* VoteSynchronizer.updateVote: a second ballot of an officer, or one on a closed
\* vote, throws
updateVote(x) ==
    /\ isBallot(x)
    /\ canAddBallot(x)
    /\ LET event == eventOf(x, "VoteUpdated")
       IN  votes' = [votes EXCEPT ![event.vote] =
             withBallot(@, event.voter, event.result,
                        IF ~event.closed THEN @.status
                        ELSE IF event.approved THEN "APPROVED" ELSE "REJECTED")]
    /\ applied
    /\ UNCHANGED << selection, pending, unsure >>

isIssuerCall(x) ==
    /\ isCall(x, "logionLoc", { "nominateIssuer", "dismissIssuer", "setIssuerSelection" })
    /\ x.signer \in Officers

\* a write begins that is not awaited: one of the same issuer may be under way
writes(w) ==
    /\ pending' = pending \union { w }
    /\ unsure' = unsure \union { v.issuer : v \in { v \in pending : v.issuer = w.issuer } }

notifyIssuerNominatedDismissed(x) ==
    /\ isIssuerCall(x)
    /\ IF x.call.method = "dismissIssuer" THEN writes([issuer |-> x.call.issuer, loc |-> None])
       ELSE x.call.method = "nominateIssuer" /\ UNCHANGED << pending, unsure >>
    /\ applied
    /\ UNCHANGED << votes, selection >>

handleIssuerSelectedUnselected(x) ==
    /\ isIssuerCall(x)
    /\ x.call.method = "setIssuerSelection"
    /\ writes([issuer |-> x.call.issuer, loc |-> x.signer, selected |-> x.call.selected])
    /\ applied
    /\ UNCHANGED << votes, selection >>

\* an extrinsic of which nothing is recorded but its transactions
skip(x) ==
    /\ ~isCreation(x) /\ ~isBallot(x) /\ ~isIssuerCall(x)
    /\ applied
    /\ UNCHANGED << votes, selection, pending, unsure >>

apply ==
    /\ canApply
    /\ LET x == Head(job.todo)
       IN  \/ addVote(x) \/ updateVote(x)
           \/ notifyIssuerNominatedDismissed(x) \/ handleIssuerSelectedUnselected(x)
           \/ skip(x)

wrote(w) ==
    /\ w \in pending
    /\ pending' = pending \ { w }
    /\ UNCHANGED << blocks, chain, syncPoint, job, transactions, votes, drops, unsure >>

\* a row is created to select only
selectUnselect(w) ==
    /\ w.loc # None
    /\ selection' = [selection EXCEPT
          ![<< w.loc, w.issuer >>] = IF w.selected \/ @ # None THEN w.selected ELSE @]
    /\ wrote(w)

\* the rows of the issuer, whatever the LOC
unselectAll(w) ==
    /\ w.loc = None
    /\ selection' = [x \in DOMAIN selection |->
          IF x[2] = w.issuer /\ selection[x] # None THEN FALSE ELSE selection[x]]
    /\ wrote(w)

writeSelection == \E w \in pending : selectUnselect(w) \/ unselectAll(w)

processed == job.running /\ job.rows = {} /\ job.todo = << >> /\ ~unsupportedBatch(blocks[job.at])

nextBlock ==
    /\ processed
    /\ job.at < job.stop
    /\ job' = processBlock(job.at + 1, job.stop)
    /\ UNCHANGED << blocks, chain, syncPoint, drops, unsure, records >>

sync ==
    /\ processed
    /\ job.at = job.stop
    /\ syncPoint' = job.stop
    /\ job' = Idle
    /\ UNCHANGED << blocks, chain, drops, unsure, records >>

\* An exception ends the job: one of the block's content, or of the node or the
\* database.
dropJob ==
    /\ job.running
    /\ drops < MaxDrops
    /\ job' = Idle
    /\ drops' = drops + 1
    /\ UNCHANGED << blocks, chain, syncPoint, records, unsure >>

\* The process dies, with the writes nobody waited for.
crash ==
    /\ drops < MaxDrops
    /\ job' = Idle
    /\ drops' = drops + 1
    /\ pending' = {}
    /\ unsure' = unsure \union { w.issuer : w \in pending }
    /\ UNCHANGED << blocks, chain, syncPoint, transactions, votes, selection >>

Next ==
    \/ finalizeCall \/ finalizeFailed \/ finalizeCharges
    \/ startJob \/ addTransaction \/ apply \/ nextBlock \/ sync
    \/ writeSelection \/ dropJob \/ crash

Spec == Init /\ [][Next]_vars

-----------------------------------------------------------------------------
(***************************************************************************)
(* Properties.                                                             *)
(***************************************************************************)

\* Every variable has its type: the rows of the votes and of the selections
\* are those of known officers and issuers, and a job stays within the blocks.
TypeOK ==
    /\ syncPoint \in 0 .. Len(blocks)
    /\ job = Idle \/ (job.running /\ syncPoint < job.at /\ job.at <= job.stop /\ job.stop <= Len(blocks))
    /\ \A t \in transactions : t.row \in Transaction
    /\ votes \in [VoteId -> Vote \union { NoVote }]
    /\ selection \in [Locs \X Issuers -> Selection]
    /\ unsure \subseteq Issuers
    /\ drops \in 0 .. MaxDrops

\* what an extrinsic charged, as far as the back end is told: the last fee of a kind
charges(e) ==
    { 0 } \union (UNION { fee(e, m) : m \in SignerFees \union { "TokensRecordFeeWithdrawn" } })
          \union Events(e, "Reserved") \union Events(e, "Unreserved") \union Events(e, "Transfer")

\* What the signer of a recovered account's transfer pays is shown to that account.
shownTo(e, i) ==
    IF determineType(e) = "TRANSFER_FROM_RECOVERED" /\ withdrawnFrom(e, i) = e.signer
    THEN e.call.account ELSE withdrawnFrom(e, i)

\* the rows of block b in the list of an account, as the one that paid
payments(b, account) ==
    { t \in transactions : /\ t.block = b
                           /\ t.row.from = account
                           /\ isListed(t.row, account)
                           /\ ~(t.row.hiddenFrom = "FROM" /\ t.row.to = account) }

isReadable(account) ==
    \A t \in transactions : isListed(t.row, account) => asTransactionType(t.row.type)

\* An account that reads its list finds each of its charges of the synchronized
\* blocks, in one row, plus one for every job that was dropped; and nothing that
\* another account was charged.
ChargesShown ==
    \A b \in 1 .. syncPoint, a \in { x \in Accounts : isReadable(x) } :
       LET e == blocks[b]
       IN  /\ \A i \in charges(e) :
                 shownTo(e, i) = a =>
                   Cardinality({ t \in payments(b, a) : i \in total(t.row) }) \in 1 .. drops + 1
           /\ \A t \in payments(b, a) : \A i \in total(t.row) : shownTo(e, i) = a

voteCalls(e) ==
    IF e.call.section = "utility" /\ e.call.method = "batchAll" /\ e.failure = "none"
    THEN { k \in DOMAIN e.call.calls : e.call.calls[k].section = "vote" } ELSE {}

\* All the calls of a batch read the first event of it.
severalVotesInBatch == \E b \in DOMAIN blocks : Cardinality(voteCalls(blocks[b])) > 1

\* Once every block is behind the sync point, the votes are those of the chain,
\* ballots and outcome, whatever was dropped and replayed on the way, unless one
\* batch held several calls about votes.
CaughtUpVotesAreTrue ==
    syncPoint = Len(blocks) /\ ~severalVotesInBatch =>
        \A v \in VoteId : votes[v] = IF v \in DOMAIN chain.votes THEN chain.votes[v] ELSE NoVote

\* the extrinsic to apply throws, and will again at every attempt
isStuck(x) ==
    \/ isCreation(x) /\ ~hasEvent(x, "VoteCreated")
    \/ isBallot(x) /\ ~canAddBallot(x)

\* The synchronization of a vote stops for good only over a ballot that a dropped
\* job recorded, a batch with several calls about votes, or a failure that passes
\* for a success.
StuckForAReason ==
    canApply /\ isStuck(Head(job.todo)) =>
       \/ severalVotesInBatch
       \/ blocks[job.at].failure = "other"
       \/ /\ drops > 0
          /\ LET event == eventOf(Head(job.todo), "VoteUpdated")
             IN  votes[event.vote].ballots[event.voter] # None

dismissals(e) ==
    { << e.signer, c.issuer >> :
        c \in { c \in { e.call } \union (IF e.call.section = "utility" /\ e.call.method = "batchAll"
                                         THEN ToSet(e.call.calls) ELSE {}) :
                  e.failure = "none" /\ c.section = "logionLoc" /\ c.method = "dismissIssuer" } }

\* Once every block is applied and no write is under way, an issuer shown as
\* selected for a LOC is selected on chain, and one selected on chain is shown so
\* unless another officer dismissed it; except for the issuers of whom writes
\* overlapped or were lost with the process.
SelectionFollowsChain ==
    syncPoint = Len(blocks) /\ ~job.running /\ pending = {} =>
        \A l \in Locs, i \in Issuers \ unsure :
           /\ selection[<< l, i >>] = TRUE => << l, i >> \in chain.selected
           /\ << l, i >> \in chain.selected /\ selection[<< l, i >>] # TRUE =>
                \E b \in DOMAIN blocks, o \in Officers \ { l } : << o, i >> \in dismissals(blocks[b])
=============================================================================

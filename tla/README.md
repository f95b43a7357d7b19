# logion back end: a TLA+ verification project

This directory specifies the core of `logion-backend-ts` in TLA+, model-checks
it on small instances with TLC and proves the properties of its modules with
TLAPS.

The back end of a legal officer's node keeps, in a relational database, what
the logion chain does not: the requests that lead to a legal officer case
(LOC), their contents and their reviews, the files themselves, the decisions
about account recoveries, vault transfers and lost secrets. Two worlds change
that database, and nothing orders them:

* the **REST API**, where requesters, legal officers and verified issuers
  *announce* what they are about to do on chain and cancel the announcement
  when their extrinsic fails;
* the **block consumer**, which reads finalized blocks and applies their
  extrinsics in order, restarting from a *sync point* after any failure.

Most of what can go wrong here is in the meeting of the two: an extrinsic
that arrives late, without its announcement, after its cancellation, or twice.
The rest is in requests that overlap: a handler checks, awaits the node, IPFS,
iDenfy or a file, and only then opens its transaction.

## 1. Inventory

Paths are relative to `src/src/logion/`.

| Component | State | Operations | Talks to | What is hard | Correct when |
|---|---|---|---|---|---|
| Item lifecycle (`model/loc_lifecycle.ts`) | status, dates of review, addition and of two acknowledgements, of every file, metadata item and link | review, announce publication, cancel, acknowledge by owner or issuer, confirm | embedded in LOC items | each mutator is called from REST *and* from the synchronizer | reviews are kept, acknowledgements complete, dates true |
| LOC requests (`model/locrequest.model.ts`, its controller and service) | the LOC's row, its items, void info | create, submit, review, rework, open, close, void, delete, item handlers | authorization, chain announcements | order of announcements and extrinsics; auto-publish and auto-acknowledge act on all items at once | a request under review has no draft; a closed LOC is on chain |
| LOC synchronization (`services/locsynchronization.service.ts`) | none of its own | one handler per extrinsic of the LOC pallet | LOCs, collections, tokens records, issuer selection | replays; exceptions block everything behind | every handler can be replayed |
| Block consumption (`services/blockconsumption.service.ts`, `scheduler/`, `services/syncpoint.service.ts`) | sync point row, running flag | start a job, process a batch, move the sync point | node, all synchronizers | crash between effects and sync point; lagging node; change of chain; poison block | no block skipped or reordered; eventually synchronized |
| Transactions (`services/extrinsicsbuilder.ts`, `services/transactionsync.service.ts`, `services/transaction.extractor.ts`, `model/transaction.model.ts`) | transaction rows | extract and add those of a block, list those of an account | block consumer | no key prevents duplicates on replay; charges of one extrinsic spread over rows of several accounts | an account finds each of its charges, and nothing else |
| Account recovery (`model/account_recovery.model.ts` and around) | request status and decision | create, accept, reject, cancel, activate | identity LOCs, chain | the synchronizer reads, then activates in other transactions | activated only if accepted; accepted ones do get activated |
| Vault transfers (`model/vaulttransferrequest.model.ts` and around) | request status and decision | create, accept, reject, cancel, resubmit | account recoveries | rests on a recovery decided elsewhere | only from recovered accounts |
| Secret recovery (`model/secret_recovery.model.ts`, controllers) and recoverable secrets (`model/locrequest.model.ts`) | request status, `downloaded`; the secrets of an identity LOC | add and remove secrets; create, accept, reject, download once | identity LOCs | a secret removed between request and download; overlapping downloads | returned once, to who asked, after acceptance and in time |
| Collection items (`model/collection.model.ts`, controller, service) | submitted or confirmed item, uploaded files | submit, cancel, confirm, upload | LOC synchronization, IPFS | checks are made, and files moved, before the transaction opens; confirmation is not replayable | contents only of what is on chain, kept once uploaded; the limit is passed by overlapping requests only |
| Tokens records (`model/tokensrecord.model.ts`, ...) | as collection items | as collection items | as collection items | as collection items | as collection items |
| Restricted delivery, file storage (`services/file.storage.service.ts`, `lib/crypto/EncryptedFile.ts`, `lib/ipfs/`, ...) | IPFS contents, large objects, temporary files, recorded deliveries | import, export, delete, mark, record | LOCs, collections | a writer and a reader shared by all requests; paths that do not depend on the request; import before commit | a row always has its content, contents are whole, a copy is traced to its owner |
| iDenfy (`services/idenfy/`) | the verification of a LOC | create a session, call back | identity LOCs, iDenfy | the callback races edition, submission and the recording of the session | a verdict is genuine and comes with its files |
| Issuer selection (`model/verifiedissuerselection.model.ts`, ...) | selected issuers | select, unselect, nominate, dismiss | LOC synchronization | written without being awaited | follows the chain |
| Votes (`model/vote.model.ts`, `services/votesynchronization.service.ts`) | votes and ballots | create, ballot, close | closed LOCs | replays meet existing rows | the votes are those of the chain |
| Children persistence (`model/child.ts`) | `_toAdd`, `_toUpdate`, `_toDelete`, indexes | add, update, delete, save | all aggregates | a forgotten flag loses an update; indexes are shifted under a unique constraint | what is stored is what the handler left |
| Authorization (`services/locauthorization.service.ts`) | none | who may contribute, to which item | LOCs, selection | read from the chain while it moves | modelled with the LOCs |
| LOC files of officers, settings, legal officers | single rows | put, get, delete | | the file of an officer is replaced without a check | modelled with the storage; settings are not |
| Sponsorship, notifications, seal, ownership checks, views, configuration, health, workload, container, migrations, tools | none, or output only | | | | |

`PROJECT.json` lists every component with its status, and 40 hazards, each at
its line with the properties that would catch it or the reason why none does.

## 2. Modules

| Module | Models | Rests on |
|---|---|---|
| `ItemLifecycle` | class `EmbeddableLifecycle`: each mutator as a condition (it does not throw) and the record it leaves. No variables. | |
| `LocRequest` | one `LocRequestAggregateRoot` with its items, every handler of the REST API that changes it, the pallet as far as the back end relies on it (external), and `LocSynchronizer` on the finalized extrinsics. | `ItemLifecycle` |
| `LocRequestHistory` | `LocRequest` with one history variable: the items whose publication was confirmed. | `LocRequest` |
| `BlockDelivery` | what the block consumer promises to the synchronizers (abstract). | |
| `BlockConsumer` | scheduler, job, batches, sync point; shown to implement `BlockDelivery`. | `BlockDelivery` |
| `Recovery` | account recovery requests, vault transfer requests, and the synchronizer that activates recoveries. | |
| `Collection` | collection items and tokens records of one LOC, requests whose awaits interleave, confirmation by the synchronizer. | |
| `EncryptedFile` | the shared writer and reader of encrypted files, block by block. | |
| `Storage` | contents from the upload to the copies sent to clients: rows, IPFS, large objects, temporary paths, recorded deliveries. | `EncryptedFile` |
| `IdentityLoc` | the identity LOCs of one requester and their iDenfy sessions, with their callbacks. | |
| `SecretRecovery` | the secrets of these LOCs and the requests to recover one. | `IdentityLoc` |
| `Transactions` | from an extrinsic with its events to transaction rows, and to the list of an account. No variables. | |
| `ChainRecords` | what the synchronizers record of blocks: transactions, votes, verified issuers and their selection, under jobs that are dropped and replayed. | `Transactions` |
| `Children` | the array of indexed children of a root and the statements that save it. | |
| `MCLocRequest`, `MCCollection`, `MCStorage`, `MCSecretRecovery`, `MCChainRecords` | TLC's instances: casts, symmetry, views and bounds. | the module they instantiate |
| `LocRequestProofs`, `CollectionProofs`, `BlockConsumerProofs`, `RecoveryProofs`, `SecretRecoveryProofs`, `StorageProofs`, `ChainRecordsProofs`, `ChildrenProofs` | the theorems (section 4). | the module they are named after |

How the modules compose: `LocRequest` receives extrinsics exactly as
`BlockDelivery` delivers them. Its variables `feed` and `pos` are the
extrinsics ahead of the sync point and how many of them were applied;
`syncExtrinsic` is *Deliver*, `moveSyncPoint` is *Acknowledge* and
`restartFromSyncPoint` is *StartOver*; `Collection` does likewise
(`confirm`, `moveSyncPoint`, `startOver`), and `ChainRecords` with the batches
themselves, since a row is tagged with the attempt that stored it.
`BlockConsumer` is proved to deliver that way, so the others need not repeat
it. `Recovery` uses the same contract in its weakest form: an extrinsic
is retried until it was applied to the end. `Collection` leaves the contents
of files to `Storage`, where an entry has one file.

### 2.1 Correspondence with the code

**Handlers.** A REST handler does its work inside
`LocRequestService.update` (or its sibling of another aggregate), which loads
the aggregate, runs the mutation and saves, in one database transaction. It is
one action; an exception rolls the transaction back, so the conditions of
`requireDefined`, `badRequest`, authorization and of the mutators are guards.
We assume that transactions on one aggregate serialise: `DefaultTransactional`
comes from rest-api-core, outside this repository. `UploadedOnce` rests on it,
since the second check of a cid is inside the transaction.

**Requests that await.** Where a handler asks the node, IPFS, iDenfy or a file
before or after its transaction, each part between two awaits is an action, and
a variable holds what the request carries over the await: `client[c]` in
`Collection`, `IdentityLoc` and `SecretRecovery`, `pc[c]` and `job[c]` in
`Storage`. What it carries may be stale, which is the point: a cancellation
carries the date of the row it read, which `delete` trusts; a creation the
result of its check (`sure`); a download of a secret the value it read.
`fails` is an exception or a crash at any of the awaits.

**Items.** Files, metadata items and links embed the same lifecycle and go
through the same generic functions (`mutateAllItems`, `LocItems`), so one set
`Items` stands for all three; `Files` and `Links` tell them apart where the code
does (only files can be submitted directly, a missing file makes `addFile`
throw where the others log).

**Roles.** An account matters by its relation to the LOC: `OWNER`, `REQUESTER`,
`ISSUER`. `polkadot` says whether the requester can sign extrinsics; the
others always can. Selection of an issuer happens on chain and is the owner's
free choice at any time, so a contribution by an issuer may find it selected
as soon as the LOC exists on chain. `ChainRecords` is about what the back end
keeps of that choice.

**Dates** are booleans: the code only asks whether they are set. The age of a
request for a secret is counted in ticks, `DAY` of them in a day, since the code
compares whole days.

**Database semantics** (external: TypeORM). The children of an aggregate are
saved with `update().set(...)`, where an undefined property of an embedded
object (the lifecycle) is written as NULL: `addedOn = undefined` really clears
the date. The key of a child is among the values it sets: the files of an
entry of a collection are updated by a where-clause that names the entry only, so
that with a second file the primary key is violated and no content is ever
recorded (`setFileCid`). The root is saved with
`save`, which skips undefined properties: clearing a column of the root this
way has no effect (`resubmitVaultTransferRequest` keeps the old decision).
An embedded object of a loaded row is always there, with undefined fields: a
LOC made void on chain without the announcement has a void date but no
reason, and `isVoid()` tells by the reason. A nullable column without a value
is null, not undefined: `collectionMaxSize !== undefined` holds of a collection
without a limit, and `size >= null` of every size, so that such a collection
takes no item (`limit`).

**Children.** `Children` splits the saving of a root into its SQL statements.
Its flags are those of `model/child.ts`; the order of `writeRow` is that of
`saveIndexedChildren`, after the deletions. A transaction that throws leaves the
rows as they were, and the next one loads its root again: it is not an action.

**Files.** A content is a sequence of cipher blocks: salt, vector, body, last.
`FileStorageService` is a singleton, with one `EncryptedFileWriter` and one
`EncryptedFileReader` whose handle and cipher are fields: `writer.file` and
`writer.cipher` say whose they are now. The steps of the writer are those
between its awaits. Requests that overlap in the reader, which also share its
buffer, may read anything. A download writes to a path that depends on the file
(and on whether it is a delivery) only: `fetched[p]` and `clear[p]` are what is
on it. `met[c]` is a history: the shared things that another request used
while `c` did, so that properties can speak of a request that was alone.

**Identity LOCs.** `late` and `raced` are histories that name the gaps of
`OneIdentityLoc` and `PendingIsAwaited`. A session of iDenfy is created, then
recorded (`initIdenfyVerification`); it calls back as often as it likes once
it has a verdict. The files of a verdict are in the LOC or not, as a set of
sessions.

**Transactions.** What an account pays is an event of the extrinsic, named by
its position; an amount of a row is the set of the events that it adds up, and
position 0 stands for the inclusion fee. Rows carry, as history, the block and
the attempt that stored them.

**Selections** are written without `await`: `pending` holds these writes,
which end in any order, or get lost with the process. `unsure` is the history of
the issuers of whom two writes overlapped or one was lost.

**The chain** (`chain...` actions) is external: the pallet accepts
what its rules allow, the accounts sign what they like, announced or not.
Only what the back end relies on is kept.

**The synchronizer of recoveries** is not one transaction: it reads the
accepted requests, then activates each in a transaction of its own
(`findAcceptedRequests`, `setActivated`, `extrinsicDone`), and may be
interrupted in between (`interrupt`).

**The block consumer.** A block has an effect of its own (its transactions,
step 0) and one per extrinsic; each is committed separately. Only the sync
point survives a failure. `Poison` blocks are those whose application throws
every time (an unsupported batch, an acknowledgement of an item that is not
published, a missing fee). `lagBehind` is a node whose finalized head is
behind, `migrate` the change from the solo chain to the parachain.

**Simplifications that a reader should know.** In `ChainRecords` a block holds
one extrinsic, an officer owns one LOC which has one vote at most, the identity
LOC of an issuer exists, synchronization starts before the first vote, the fee
of a collection item is charged to the signer, and extrinsics of sudo are left
out. In `Storage` an item or a record has one file, a collection has one item
when the files of its LOC are delivered, and who owns a token, and whether
delivery is restricted, are not asked: every client is an owner. In
`IdentityLoc` the foreign key on the LOC of the requester is not modelled.

## 3. What is checked

| Run | Question and outcome | Size |
|---|---|---|
| `loc_request` | A file, and a metadata item or a link, of any roles and either type of requester, every handler against up to three extrinsics: are reviews kept, acknowledgements complete, dates true, does a request under review have a draft, is a LOC closed over anything unpublished? Yes, yes, yes, no, no. | 1,119,117 states |
| `loc_owner_items` | Are the owner's own items on chain when the LOC is closed? **No** (finding). | |
| `loc_confirmed_cancelled` | Does a confirmed publication resist cancellation? **No** (finding). | |
| `block_consumer` | Failures anywhere, a poison block, a lagging node and a change of chain: is anything skipped, reordered, replayed behind the sync point, or never reached? No, except behind a poison block, which the property states. Implements `BlockDelivery`. | 175,088 states |
| `block_consumer_genesis` | Does the first synchronization cover the chain from its beginning? **No** (finding). | |
| `recovery` | Decisions, cancellations and an interrupted synchronizer: are only accepted recoveries activated, are all of those, and do vault transfers rely on active ones? Yes. | 392,850 states |
| `recovery_cancelled_twice` | Does ACCEPTED_CANCELLED mean that the request was accepted? **No** (finding). | |
| `collection` | Two overlapping requests and an interrupted synchronizer on two entries: how far is the limit passed, do contents exist of anything unpublished, is a content replaced, what stops the synchronization? By one; no; no; only an entry unknown here or confirmed before the interruption. | 803,630 states |
| `collection_confirmed_deleted` | Does a confirmed entry resist a cancellation under way? **No** (finding). | |
| `storage` | Two requests that upload, replace, remove, download and deliver files of every kind, with failures and a crash: does a row always have its content, is a content whole and read back, is what an owner is sent recorded? Yes, as long as no other request shares the writer, the reader or the path; reading back loses the last block of contents that fill the read buffer a whole number of times, which `ReadBack` states. | about 1,690,000 states |
| `secret_recovery` | Two overlapping requests about two identity LOCs, two sessions of iDenfy, two secrets and a request for one: who gets a secret and how often, is a verdict genuine, how do two identity LOCs come about? As the properties say: the gaps are named in them. | 739,090 states |
| `chain_records` | Blocks with charges, votes, ballots, nominations and selections, replayed after failures: does an account find its charges, are votes and selections those of the chain, what stops the synchronization? Yes, with the duplicates of dropped jobs; yes, but for the exceptions the properties name. | 715,849 states |

Each property of a passing run has a mutant in `PROJECT.json`: a plausible
fault of the code (the operators commented *Seeded fault*, or another operator of
the module) under which the same run finds the property violated. Before it was
proved, each inductive invariant of section 4 was checked with TLC over the same
instances; that of `Children` over four keys (27 million states).

**Bounds.**

* *loc_request.* `MaxFeed = 3` with the file alone lets a publication, an
  acknowledgement and the closing of a LOC be finalized before the back end sees
  any of them, be applied partly and be replayed; every handler interleaves with
  each. Items only interact through the handlers that act on all of them, and
  those treat two items as they treat more: two items of different submitters
  with one extrinsic show the interactions, in six casts that give every role to
  either of them. The proofs lift all of this.
* *block_consumer.* `BATCH_SIZE = 2` and `MaxBlock = 6` give partial, exact and
  consecutive batches; block 5 is the poison, so that there is something before
  and after it; counters saturate at `MaxTimes = 3`, one above what
  `MaxFailures = 2` failures can cause without the poison.
* *recovery.* Two requests make an interruption between two activations
  possible, and a second extrinsic makes its replay meet another.
* *collection.* Two requests show every overlap of two, which is where the
  limit, the two uploads and the stale cancellation show; two entries with a
  limit of one compete for a place, and are published in one batch that an
  interruption makes replay. One file per entry is the only case in which an
  upload succeeds (section 2.1).
* *storage.* Two requests, one file of each kind. With `BUFFER = 2` blocks and
  contents of none or one whole block, the encrypted file fills the buffer a
  whole number of times or does not, which is where the reader differs. Two
  imports ever are one content and its replacement, or two overlapping uploads.
  `View` identifies states that differ in what is overwritten before it is
  read; clients are symmetric. `Bound` keeps apart what cannot meet: downloads
  use the reader and a path, uploads the writer, and files of officers, which
  are not encrypted, a path only.
* *secret_recovery.* Two LOCs, or two sessions of one, or the secrets of one:
  the constraint does not mix these, since a LOC's verification is over before it
  is closed and can hold secrets. A limit of zero secrets is passed by the first,
  as ten are by the eleventh; the last value is a replacement of a removed one.
* *chain_records.* A behaviour is about charges (one extrinsic of up to two
  events, one drop), or about votes, or about issuers (three blocks in batches of
  two, one of them a batch or a failure). Issuers and officers are symmetric.

**Deadlock** is not checked: every instance is bounded (feed, blocks,
failures, extrinsics, identifiers) and stops when the bounds are used up.

**Fairness.** `LocRequest`, `Storage`, `SecretRecovery` and `ChainRecords`
assume none; their properties are safety and action properties. `FairSpec` of
`BlockConsumer` is weakly fair to `startJob`, since the scheduler fires every 12
seconds, and to `JobStep`, since the awaits of a job return (a hazard notes what
happens if one does not). Nothing is fair to the node or to failures, which are
bounded. `Recovery` is weakly fair to `SyncStep`: the block consumer retries an
extrinsic until it succeeds, which `EventuallySynchronized` justifies; so is
`Collection`. No user is ever obliged to act.

### 3.1 Findings

1. *An owner's item counts as on chain before it is.* `fromSubmissionType`
   dates the owner's acknowledgement when the item is added, so
   `ensureAllItemsAckedOnChain` accepts it once its status is ACKNOWLEDGED;
   `preClose` then closes a LOC whose item was only announced.
2. *A confirmed publication can be cancelled.* A publication announced again
   after the extrinsic was synchronized overwrites `addedOn` with undefined;
   `cancelPrePublishOrAcknowledge`, which refuses confirmed items by that
   date, then succeeds.
3. *The first synchronization starts at the head.* The comment at
   `blockconsumption.service.ts:54` says it starts from −1; `getLastBlock`
   returns `head - 1`.
4. *Cancelling twice.* `cancel` of an account recovery request has
   ACCEPTED_CANCELLED as its last branch, which also catches requests that
   are cancelled already.
5. *A confirmed entry of a collection can be deleted.* `delete` refuses
   published entries by the date of the object that `cancelItem` read before the
   transaction; an extrinsic finalized and synchronized in between is lost, and
   a replay of its batch then throws for good.

### 3.2 Behaviours without a run of their own

The models contain these behaviours, and the properties name them as exceptions
or leave them alone. The maintainers may want to look at them.

* *Files.* `decipher.final()` is not called when the encrypted content fills the
  8192 bytes of the reader's buffer a whole number of times: the end of the file
  is lost (`Kept` in `ReadBack`). Overlapping requests share the fields of
  one writer and one reader. Two deliveries of one file share a temporary path:
  either may send the other's copy, and the second removal throws in a
  callback. `collection.controller.ts` builds its temporary paths from `Hash`
  objects, `records.controller.ts` from their hexadecimal form.
* *Transactions.* The extractor writes CERTIFICATE_FEE, `asTransactionType`
  does not know it: such a row makes the list of its account unreadable. What
  the signer of `asRecovered` pays is shown on the lost account. A
  dispatch error that is not a pallet's passes for a success
  (`extrinsicsbuilder.ts:87`).
* *Votes and issuers.* A batch with several calls about votes reads the
  first event of the batch for each of them. The dismissal of an issuer by one
  officer clears its selections on the LOCs of all.
* *Identity LOCs.* A second identity LOC comes about through `createOpenLoc`,
  two overlapping creations, or a voiding that is announced and taken back. A
  request about another LOC accepts a draft identity LOC, though its message
  asks for a valid, closed one.
* *iDenfy.* A callback is not matched with the session recorded last: a late
  one of an older session is recorded. A session that is recorded late overwrites a
  verdict, APPROVED included, or starts after the submission. The files of a
  verdict are items of type MANUAL_BY_USER, submitted in the owner's name.
* *Secrets.* `addSecret` accepts eleven secrets where its message says ten.
* *Vault transfers.* A request submitted again keeps the columns of its old
  decision. With several active recoveries only one row, in no defined order, is
  compared with the origin (`vaulttransferrequest.controller.ts:197`).
* *LOC items.* A draft item that is on chain can be deleted, unlike the API
  description says (`locrequest.controller.ts:721`).

## 4. What is proved

Every theorem holds for every value of the constants that satisfies the named
assumptions of its module. Each comes from an inductive invariant `Inv`
(`Init => Inv`, `Inv /\ [Next]_vars => Inv'`), because none of the properties is
inductive alone; the preservation proofs have one step per action.

### 4.1 LOC requests

`LocRequestProofs` proves, for every set of contents, every distribution of
submitters and every bound on the feed, under `ConstantsAssumption` only
(`Files` and `Links` are disjoint subsets of `Items`, `MaxFeed` is a positive number):

| Theorem | States |
|---|---|
| `TypeCorrect` | `Spec => []TypeOK` |
| `NoDraftUnderReview` | `Spec => []PendingHasNoDraft` |
| `ReviewBeforePublication` | `Spec => []UserItemsReviewed` |
| `AcknowledgementsComplete` | `Spec => []AcknowledgedByAllRequired` |
| `ConfirmationsTrue` | `Spec => []ConfirmationsAreChainFacts` |
| `ReviewsKept` | `Spec => ReviewsAreKept` (action property) |
| `ClosesOverPublished` | `Spec => ClosesOnlyOverPublished` (action property) |
| `Invariance` | `Spec => []Inv`, from which the others follow |

That a date is a fact of the chain depends on every extrinsic in the
feed being finalized (`FeedIsFinalized`), which depends on what the pallet
holds (`ChainIsConsistent`: who may have acknowledged an item, and that what is
acknowledged is there); that nothing reviewed appears out of
nowhere depends on a LOC that does not exist having no items
(`NothingWithoutLoc`). That a closed LOC's items are on chain needs that the
owner's items never were drafts (`OwnerItemsAccepted`). Their conjunction
with the properties is `Inv`.

*The argument.* The many handlers do few things to an item. `ItemMove(i)`
enumerates them: the item stays, is added, removed, reviewed, published
(announced, confirmed, cancelled) or acknowledged (likewise), with the
condition under which each happens and, for a dated change, that the chain
holds it. The lemmas `CreationMoves`, `DeletionMoves`, `ReviewMoves`,
`ItemHandlerMoves`, `EndingMoves` and `ExtrinsicMoves` show, one step per
action, that no step does anything else; the per-item invariants are then shown for
an arbitrary `ItemMove`, using the lemmas about the mutators, and the
rest (`loc`, `chain`, `feed`) separately.

### 4.2 Collections

`CollectionProofs` proves, for any entries, files, requests, limit and number
of interruptions, under `ConstantsAssumption` only (entries and requests are
finite, there is at least one request, `NoCid` is none of them):

| Theorem | States |
|---|---|
| `TypeCorrect` | `Spec => []TypeOK` |
| `PublishedContent` | `Spec => []ContentOfPublishedFiles` |
| `ContentIsKept` | `Spec => UploadedOnce` (action property) |
| `LimitHolds` | `Spec => []SizeBounded` |
| `Invariance` | `Spec => []Inv`, from which the first two follow |

`ContentOfPublishedFiles` is not inductive: a request in flight is about to
write a content. `FilesInFlight` says that what such a request checked before its
awaits is still true, because nothing leaves the chain. Every part of a request
either only awaits or only writes (`Awaiting`, `Writing`), so the invariant is
shown for those two shapes and each action is reduced to one of them.
`ContentIsKept` follows from the five things a step can do to a row
(`RowMoves`). `SizeBounded` is inductive on top of the types: a step adds
nothing, finds a free place for a submission, or turns a submission into an item
(`SizeMoves`).

### 4.3 Block consumption

`BlockConsumerProofs` proves, for any batch size, number of effects per block,
poison blocks and failures, under `ConstantsAssumption`:

| Theorem | States |
|---|---|
| `TypeCorrect` | `Spec => []TypeOK` |
| `NothingSkipped` | `Spec => []SyncPointCoversAll` |
| `OncePerDrop` | `Spec => []OncePerDroppedJob` |
| `InOrder` | `Spec => AppliedInOrder` (action property) |
| `NoReplay` | `Spec => NoReplayBehindSyncPoint` (action property) |
| `Refinement` | `Spec => ImplementsBlockDelivery` |

The invariant says where a running job stands (`JobPosition`: on the chain of
the head, right after the sync point or the base), that it has done all that is
before its position (`JobDone`), and that what lies ahead was only done by
jobs that were dropped (`PendingByDropped`). The refinement maps the sync point
to what was acknowledged and the position of the job to the cursor of
`BlockDelivery`: only starting a job, ending a block, moving the sync point and
losing the job are not stuttering steps there.

### 4.4 Account recovery

`RecoveryProofs` proves, for any requests, transfers, accounts, extrinsics and
interruptions, `TypeCorrect`, `ActivationAccepted` (`ActivatedWasAccepted`),
`AccessRecovered` (`TransfersOfRecoveredAccounts`) and `DecisionIsFinal`
(`DecidedOnce`). What the synchronizer read may be stale when it writes, so that
"it activates accepted requests only" is not inductive. `Activating` says what is
left of it: the decision of each request it once read is ACCEPTED,
cancelled or not; `Decided` ties statuses to decisions.

### 4.5 Identity LOCs and secrets

`SecretRecoveryProofs` proves, for any number of LOCs, sessions, secrets,
requests and clients, under `IdentityAssumption` and `SecretAssumption` (the
value `None` is nothing else, names are finite):

| Theorem | States |
|---|---|
| `TypeCorrect` | `Spec => []TypeOK` |
| `OneLoc` | `Spec => []OneIdentityLoc` |
| `Awaited` | `Spec => []PendingIsAwaited` |
| `Genuine` | `Spec => []VerdictIsGenuine` |
| `ReturnedOnce` | `Spec => []ReturnedAsAccepted` |
| `NotWasted` | `Spec => []UsedUpForAReason` |

`Inv` is `IdInv /\ SecInv`, and is about what a client carries over its awaits. A
creation whose check still counts knows of no LOC but late ones (`SureOfNone`); a
request to iDenfy carries a session of its LOC, which cannot have a verdict
before its URL was returned (`AboutSession`). A download carries a value that is
not older than what was asked for, or a secret that was removed (`AboutSecret`);
two clients never answer one request, because using it up is a transaction
(`AnsweringAlone`). Each half only depends on the clients that are about it.

### 4.6 Contents of files

`StorageProofs` proves, for any number of files, requests and imports, and any
size of the contents and of the buffer, under `EncryptedFileAssumption` and
`StorageAssumption` (files have one kind; `None` and `Absent` are no identifiers,
and `None`, which stands for a path without a file, is no clear copy):

| Theorem | States |
|---|---|
| `TypeCorrect` | `Spec => []TypeOK` |
| `RowsKeepContent` | `Spec => []RowsHaveContent` |
| `WholeUnlessShared` | `Spec => []StoredWhole` |
| `SentAsRecorded` | `Spec => []CopiesAreRecorded` |
| `WholeComesBack` | `Spec => []ReadBack` |

`Contents` says who holds an identifier between the change of a row and that of
what is stored: one to commit is stored and nobody else's (`Committing`), one to
remove is in no row and will be in none (`Removing`), one that is replaced is of
the same file (`Replacing`). `Written` says that a request that has the writer
for itself wrote a prefix of the encrypted content that its step determines,
`Copied` that one that has its path for itself recorded what is on it. Both are
about `met`: two requests in the writer at the same time have always met.

`WholeComesBack` needs a second invariant, `ReadInv`, inductive together with the
first. `Fetching` relates what a request has fetched to what is stored; `ReadAt`
says of a request that is alone with the reader and on its path what each step of
`decrypt` has left of the content, has written and has kept for the final block.
While it reads, what is left and what was read are the two halves of a cut of
the content at a whole number of buffers (`Division`, `Cut`, `CutAgain`,
`ReadsOn`). When fewer bytes than the buffer are left, they are the remainder of
the size by `BUFFER`: this is how the proof avoids deciding a modulus that is not
a number (`OneRemainder`, `Remainder`), and why a size that the buffer divides
ends with an empty last read, whose final block is never written (`LastRead`).

### 4.7 Children

`ChildrenProofs` proves, for any keys and without assumptions, `RowsUnique`
(`RowsAreUnique`: no statement of a transaction breaks the unique constraint on
indexes), `Positions` (`IndexesArePositions`) and `Saved` (`SavedAsLeft`). While
rows are written, one that is still to be written has an index that is at least
that of its child (`RowsBehind`); the first child is written first, so the index
it takes is free. No run is needed for it: there is nothing that TLC would show
and the proof does not.

### 4.8 Records of the chain

`ChainRecordsProofs` proves, for any accounts, officers and issuers, any size of
the batches and any bounds, under `ConstantsAssumption` (officers and issuers
are accounts, officers are finitely many, `None` is nothing else, the batch size is
positive):

| Theorem | States |
|---|---|
| `TypeCorrect` | `Spec => []TypeOK` |
| `ChargesFound` | `Spec => []ChargesShown` |
| `VotesTrue` | `Spec => []CaughtUpVotesAreTrue` |
| `StuckReason` | `Spec => []StuckForAReason` |
| `SelectionsFollow` | `Spec => []SelectionFollowsChain` |
| `Invariance` | `Spec => []Inv`, from which the others follow |

The properties speak of moments: every block is behind the sync point, no
write is pending. `Inv` says what holds between them, at any
position of a job that may be dropped, in terms of two positions: `Done(b, k)`,
the k-th call of block b is applied by this job or was before the sync point,
and `Saved(b, r)`, likewise for a row.

* `Typed` holds the shape of the blocks: `Finalized` lists what an extrinsic and
  its events can be, `TellsOneVote` that an extrinsic with one call about votes has
  one event, of that call. It also says that what the job has left to do is a
  suffix of the block it is at.
* *Votes.* `VotesTold` relates the votes of the chain to the events of the blocks,
  each ballot and outcome told by one event and after the creation;
  `VotesRecorded` relates the rows to the chain (`RowsOfChain`: nothing else
  is in them), to the events passed (`PassedInRows`: all of those are in them) and
  to the replay (`BallotsInRows`: a ballot that is there before its event is passed
  was left by a dropped job, and the ballot comes before the outcome). The first
  and the second give `CaughtUpVotesAreTrue` once every block is passed, and the
  third is what `StuckForAReason` needs.
* *Selections.* `ShownFollows`: when all that tells of an issuer and a LOC is
  done, what the row will show once the pending writes are done is what the *last*
  such call says, which survives a replay because the last call is the last again;
  `ChainFollows`: the chain holds what the last call *of the LOC's owner* says.
  They differ by the dismissals of others only. `OneWrite` says that the
  writes of an issuer do not overlap, as long as the issuer is not `unsure`.
* *Transactions.* `RowsExtracted` and `RowsStored`: the table holds what was
  extracted of the blocks, once per attempt at most, and all of it for those
  behind the sync point. The rest is about the pure functions of
  `Transactions`: `RowContents` and `OtherRows` say what each row is, `Placed` that
  an amount of a row determines the type and the payer of the row, `SameRow` that these
  determine the row, `Found` that every charge is in one. So a charge is in one
  row of the extrinsic, hence in one stored row per attempt.

`Inv` was an invariant of TLC's run before it was proved.

### 4.9 Only model-checked

* Liveness: `EventuallySynchronized` (of `BlockConsumer` and of `Collection`)
  and `AcceptedIsActivated`. The prover handles neither ENABLED nor fairness.

Every invariant and every action property of a passing run is stated by a theorem.
What a run adds to them is that the interesting cases happen on its instance, and
that a plausible mistake in the code would break the property.


## 5. What is not modelled, and why

* Amounts, texts, names, hashes, vault destinations: no property
  depends on them; where a *missing* fee makes an extrinsic fail for good, the
  block is a poison block.
* Views, notifications, mail, metrics, logging, generated types: output only.
* IPFS, exiftool, the database, iDenfy's own service and the node are external:
  modelled as the code relies on them. The registries of tokens that ownership
  checks ask have no state here: every client is an owner.
* Authentication (rest-api-core): external; the models start from the
  authenticated account's role. The contributors invited on chain to a
  collection are the pallet's.
* Sponsorship: a check on chain and a unique column, no state of its own.
* Settings and the directory of legal officers: single-row writes without
  interaction.
* That a way out of a dead end of the review exists is a branching property,
  which linear-time checks cannot state (hazard at `locrequest.model.ts:80`).

## 6. Plan

Done: the modules of section 2, in the order of the table, and their proofs.

Next:

1. The deletion of a collection LOC under its entries and their contents: the
   composition of `LocRequest`, `Collection` and `Storage`.
2. Sponsorship, with the LOC that uses it.

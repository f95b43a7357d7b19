----------------------------- MODULE LocRequest -----------------------------
(***************************************************************************)
(* One LOC request of the back end: the LocRequestAggregateRoot, its items *)
(* and the two worlds that change it.                                      *)
(*                                                                         *)
(*   - The REST API.  The requester, the legal officer that owns the LOC   *)
(*     and the verified issuers selected on it announce what they are      *)
(*     about to do on chain (open, publish, acknowledge, close, void) and  *)
(*     cancel the announcement when the extrinsic fails.  A handler runs   *)
(*     its checks inside LocRequestService.update, hence one transaction   *)
(*     and one action here; an exception rolls it back, hence a guard.     *)
(*                                                                         *)
(*   - The chain.  `feed` holds the finalized extrinsics about the LOC     *)
(*     that are not yet behind the sync point and `pos` counts how many of *)
(*     them were already applied: the block consumer applies them in order,*)
(*     moves the sync point once per batch, and a crash before that makes  *)
(*     it apply them again.  An extrinsic whose application throws stays   *)
(*     at the head of the feed and is retried forever.                     *)
(*                                                                         *)
(* Nothing orders the two: an extrinsic may reach the back end long after  *)
(* the announcement, after its cancellation, or without any.               *)
(***************************************************************************)
EXTENDS Integers, FiniteSets, Sequences, ItemLifecycle

CONSTANTS
    Items,    \* the contents that may become items of the LOC
    Files,    \* those that are files,
    Links,    \* those that are links to another LOC; the others are metadata
    MaxFeed   \* bound on the finalized extrinsics ahead of the sync point

ASSUME ConstantsAssumption ==
    /\ Files \subseteq Items
    /\ Links \subseteq Items \ Files
    /\ MaxFeed \in Nat \ { 0 }

VARIABLES
    polkadot,   \* is the requester a Polkadot account?  Never changes.
    submitter,  \* who holds each content, and would submit it.  Never changes.
    loc,        \* the row of the LOC
    items,      \* its child rows, or Absent
    chain,      \* the LOC in the pallet's storage
    feed, pos   \* extrinsics not behind the sync point; how many were applied

vars == << polkadot, submitter, loc, items, chain, feed, pos >>
\* what no REST handler changes, and what no extrinsic changes by itself
restVars  == << polkadot, submitter, chain, feed, pos >>
chainVars == << polkadot, submitter, loc, items, pos >>

Metadata == Items \ (Files \union Links)

Absent == [status |-> "ABSENT"]

\* "NONE" before the creation, "DELETED" after it: the row does not exist.
LocStatus == { "NONE", "DELETED", "DRAFT", "REVIEW_PENDING", "REVIEW_ACCEPTED",
               "REVIEW_REJECTED", "OPEN", "CLOSED" }

Loc == [ status     : LocStatus,
         locCreatedOn : BOOLEAN, closedOn : BOOLEAN,
         voidReason : BOOLEAN, voidedOn : BOOLEAN ]

NoLoc == [ status |-> "NONE", locCreatedOn |-> FALSE, closedOn |-> FALSE,
           voidReason |-> FALSE, voidedOn |-> FALSE ]

Extrinsic == [ call : { "createLoc", "addItem", "acknowledgeItem", "close", "makeVoid" },
               items : SUBSET Items, signer : Role ]

Chain == [ loc   : { "NONE", "OPEN", "CLOSED" },
           void  : BOOLEAN,
           items : SUBSET Items,
           acks  : [Items -> SUBSET { "OWNER", "ISSUER" }] ]

Present   == { i \in Items : items[i].status # "ABSENT" }
Exists    == loc.status \notin { "NONE", "DELETED" }
Having(S) == { i \in Present : items[i].status \in S }

Init ==
    /\ polkadot \in BOOLEAN
    /\ submitter \in [Items -> Role]
    /\ loc = NoLoc
    /\ items = [i \in Items |-> Absent]
    /\ chain = [ loc |-> "NONE", void |-> FALSE, items |-> {},
                 acks |-> [i \in Items |-> {}] ]
    /\ feed = <<>>
    /\ pos = 0

-----------------------------------------------------------------------------
(***************************************************************************)
(* Who may do what.                                                        *)
(***************************************************************************)

isVerifiedIssuer(role) == role \notin { "OWNER", "REQUESTER" }

\* type of the account behind a role: owners and issuers are Polkadot accounts
isPolkadot(role) == role = "REQUESTER" => polkadot

isPublishAcknowledge(it) == ~isPolkadot(it.submitter) \/ it.submitter = "OWNER"

\* An issuer is selected on chain, on a LOC that exists there.  Selection is
\* the owner's free choice, so a contribution may find the issuer selected.
isSelectedIssuer(role) == role = "ISSUER" /\ chain.loc # "NONE"

\* Contribution.itemContribution: the owner only if the requester cannot sign
mayContributeItem(role) ==
    \/ role = "OWNER" /\ ~polkadot
    \/ role = "REQUESTER"
    \/ isSelectedIssuer(role)

\* Contribution.locContribution
mayContributeLoc(role) == role \in { "OWNER", "REQUESTER" } \/ isSelectedIssuer(role)

ensureEditable(type) ==
    /\ loc.status \in { "DRAFT", "OPEN" }
    /\ type = "DIRECT_BY_REQUESTER" => loc.status = "OPEN"

ensureCanAcceptOrReject == loc.status \in { "REVIEW_PENDING", "REVIEW_ACCEPTED", "OPEN" }

mayPrePublishOrAcknowledge(it, contributor) ==
    \/ ~isPolkadot(it.submitter) /\ contributor = "OWNER"
    \/ contributor = IF it.submitter \in { "ISSUER", "REQUESTER" }
                     THEN "REQUESTER" ELSE "OWNER"

mayPreAcknowledge(it, contributor) ==
    \/ contributor = "OWNER"
    \/ isVerifiedIssuer(it.submitter) /\ contributor = it.submitter

\* the requester for LocRequestAggregateRoot.canOpen
canOpen == polkadot /\ loc.status \in { "REVIEW_ACCEPTED", "OPEN" }

\* mutateAllItems: f(it) for the items of S, in one transaction
mutateAllItems(S, f(_)) == [i \in Items |-> IF i \in S THEN f(items[i]) ELSE items[i]]

\* Seeded fault: one kind of item is forgotten.
updateDraftFilesOnly ==
    mutateAllItems(Having({ "DRAFT" }) \intersect Files,
                   LAMBDA it : [it EXCEPT !.status = "REVIEW_PENDING"])

updateAllDraftItemsStatus ==
    mutateAllItems(Having({ "DRAFT" }), LAMBDA it : [it EXCEPT !.status = "REVIEW_PENDING"])

-----------------------------------------------------------------------------
(***************************************************************************)
(* Creation and deletion.  A request has a fresh UUID: a deleted LOC never *)
(* comes back.                                                             *)
(***************************************************************************)

\* createLocRequest: by the requester, as a draft or not, or by the owner
createLocRequest ==
    /\ loc.status = "NONE"
    /\ \E status \in { "DRAFT", "REVIEW_PENDING", "OPEN" } :
          loc' = [loc EXCEPT !.status = status]
    /\ UNCHANGED << items, restVars >>

\* createOpenLoc: metadata and links directly submitted by the requester
createOpenLoc ==
    /\ loc.status = "NONE"
    /\ loc' = [loc EXCEPT !.status = "OPEN"]
    /\ \E S \in SUBSET { i \in Items \ Files : submitter[i] = "REQUESTER" } :
          items' = mutateAllItems(S, LAMBDA it :
                                  fromSubmissionType("REQUESTER", "DIRECT_BY_REQUESTER"))
    /\ UNCHANGED restVars

\* a draft with one link to the original LOC, submitted at once
newSofRequest(i) ==
    [items EXCEPT ![i] = requestReview(fromSubmissionType("REQUESTER", "MANUAL_BY_USER"))]

createSofRequest ==
    /\ loc.status = "NONE"
    /\ loc' = [loc EXCEPT !.status = "REVIEW_PENDING"]
    /\ \E i \in Links :
          /\ submitter[i] = "REQUESTER"
          /\ items' = newSofRequest(i)
    /\ UNCHANGED restVars

\* deleteRequest: the row and its children
deleteRequest ==
    /\ loc' = [NoLoc EXCEPT !.status = "DELETED"]
    /\ items' = [i \in Items |-> Absent]
    /\ UNCHANGED restVars

cancelLocRequest ==
    /\ loc.status \in { "DRAFT", "REVIEW_REJECTED", "REVIEW_ACCEPTED" }
    /\ deleteRequest

cancelCreateOpenLoc ==
    /\ loc.status = "OPEN"
    /\ deleteRequest

-----------------------------------------------------------------------------
(***************************************************************************)
(* Review of the request.                                                  *)
(***************************************************************************)

\* The refusal while an iDenfy verification is pending is left out: the request
\* may then be submitted later, or not at all.
submit ==
    /\ loc.status = "DRAFT"
    /\ loc' = [loc EXCEPT !.status = "REVIEW_PENDING"]
    /\ items' = updateAllDraftItemsStatus

reject ==
    /\ loc.status = "REVIEW_PENDING"
    /\ loc' = [loc EXCEPT !.status = "REVIEW_REJECTED"]
    /\ items' = items

rework ==
    /\ loc.status \in { "REVIEW_REJECTED", "REVIEW_ACCEPTED" }
    /\ loc' = [loc EXCEPT !.status = "DRAFT"]
    /\ items' = items

\* the requester submits and reworks its request, the owner rejects it
submitLocRequest == submit /\ UNCHANGED restVars
rejectLocRequest == reject /\ UNCHANGED restVars
reworkLocRequest == rework /\ UNCHANGED restVars

\* publishAllAcceptedItems
publishAllAcceptedItems ==
    mutateAllItems(Having({ "REVIEW_ACCEPTED" }),
                   LAMBDA it : prePublishOrAcknowledge(it, isPublishAcknowledge(it), FALSE))

ensureAllItemsAccepted == Having({ "REVIEW_ACCEPTED" }) = Present

canAccept == loc.status = "REVIEW_PENDING" /\ ensureAllItemsAccepted

accept ==
    /\ loc' = [loc EXCEPT !.status = "REVIEW_ACCEPTED"]
    /\ items' = items

\* of a request that is accepted or open
preOpen(autoPublish) ==
    /\ loc' = [loc EXCEPT !.status = "OPEN"]
    /\ items' = IF autoPublish THEN publishAllAcceptedItems ELSE items

\* When the requester cannot open the LOC, accepting it opens it.
acceptLocRequest(autoPublish) ==
    /\ canAccept
    /\ IF polkadot THEN accept ELSE preOpen(autoPublish)
    /\ UNCHANGED restVars

openLoc(autoPublish) == canOpen /\ preOpen(autoPublish) /\ UNCHANGED restVars

\* The items whose publication is cancelled are the PUBLISHED ones without
\* addedOn; cancelling throws on one whose publication is an acknowledgement.
toUnpublish == { i \in Having({ "PUBLISHED" }) : ~items[i].addedOn }

cancelPreOpen(autoPublish) ==
    /\ loc.status = "OPEN"
    /\ autoPublish => \A i \in toUnpublish : canCancelPrePublishOrAcknowledge(
                                                items[i], isPublishAcknowledge(items[i]))
    /\ loc' = [loc EXCEPT !.status = "REVIEW_ACCEPTED"]
    /\ items' = IF autoPublish THEN mutateAllItems(toUnpublish, cancelPrePublishOrAcknowledge)
                                ELSE items

cancelOpenLoc(autoPublish) == canOpen /\ cancelPreOpen(autoPublish) /\ UNCHANGED restVars

-----------------------------------------------------------------------------
(***************************************************************************)
(* The items: what the aggregate does to one, whatever its kind.           *)
(***************************************************************************)

updateItem(i, it) ==
    /\ items' = [items EXCEPT ![i] = it]
    /\ UNCHANGED << loc, restVars >>

submissionTypeOf(i, direct) ==
    IF direct /\ submitter[i] = "REQUESTER" THEN "DIRECT_BY_REQUESTER"
    ELSE IF submitter[i] = "OWNER" THEN "MANUAL_BY_OWNER" ELSE "MANUAL_BY_USER"

addItem(i, direct) ==
    LET type == submissionTypeOf(i, direct)
    IN  /\ mayContributeItem(submitter[i])
        /\ ensureEditable(type)
        /\ i \notin Present
        /\ updateItem(i, fromSubmissionType(submitter[i], type))

\* canRemove: by its submitter, and not once it was reviewed or published
removeItem(i) ==
    /\ mayContributeItem(submitter[i])
    /\ ensureEditable("MANUAL_BY_USER")
    /\ i \in Having({ "DRAFT", "REVIEW_REJECTED" })
    /\ updateItem(i, Absent)

\* any contributor may request the review of any item
requestItemReview(i) ==
    /\ loc.status = "OPEN"
    /\ i \in Present
    /\ canRequestReview(items[i])
    /\ updateItem(i, requestReview(items[i]))

reviewItem(i, decision) ==
    /\ ensureCanAcceptOrReject
    /\ i \in Present
    /\ \/ /\ decision = "ACCEPT"
          /\ canAcceptItem(items[i])
          /\ updateItem(i, acceptItem(items[i]))
       \/ /\ decision = "REJECT"
          /\ canRejectItem(items[i])
          /\ updateItem(i, rejectItem(items[i]))

prePublishOrAcknowledgeItem(i, contributor) ==
    LET isAcknowledged == isPublishAcknowledge(items[i])
    IN  /\ loc.status = "OPEN"
        /\ i \in Present
        /\ mayContributeLoc(contributor)
        /\ mayPrePublishOrAcknowledge(items[i], contributor)
        /\ canPrePublishOrAcknowledge(items[i], isAcknowledged)
        /\ updateItem(i, prePublishOrAcknowledge(items[i], isAcknowledged, FALSE))

cancelPrePublishOrAcknowledgeItem(i, contributor) ==
    /\ loc.status = "OPEN"
    /\ i \in Present
    /\ mayContributeLoc(contributor)
    /\ mayPrePublishOrAcknowledge(items[i], contributor)
    /\ canCancelPrePublishOrAcknowledge(items[i], isPublishAcknowledge(items[i]))
    /\ updateItem(i, cancelPrePublishOrAcknowledge(items[i]))

\* The REST handlers acknowledge without a date, the extrinsics with one.
\* Neither looks at the status of the LOC.
acknowledge(it, contributor, on) ==
    preAcknowledge(it, isVerifiedIssuer(it.submitter), isVerifiedIssuer(contributor), on)

\* Seeded fault: the announcement is dated as if it were the extrinsic.
preAcknowledgeItemDated(i, contributor) ==
    /\ Exists
    /\ i \in Present
    /\ mayContributeLoc(contributor)
    /\ mayPreAcknowledge(items[i], contributor)
    /\ canPreAcknowledge(items[i])
    /\ updateItem(i, acknowledge(items[i], contributor, TRUE))

preAcknowledgeItem(i, contributor) ==
    /\ Exists
    /\ i \in Present
    /\ mayContributeLoc(contributor)
    /\ mayPreAcknowledge(items[i], contributor)
    /\ canPreAcknowledge(items[i])
    /\ updateItem(i, acknowledge(items[i], contributor, FALSE))

cancelPreAcknowledgeItem(i, contributor) ==
    /\ Exists
    /\ i \in Present
    /\ mayContributeLoc(contributor)
    /\ mayPreAcknowledge(items[i], contributor)
    /\ canCancelPreAcknowledge(items[i])
    /\ updateItem(i, cancelPreAcknowledge(items[i], isVerifiedIssuer(contributor)))

-----------------------------------------------------------------------------
(***************************************************************************)
(* The REST handlers of the three kinds of item, which the aggregate keeps *)
(* in three tables.                                                        *)
(***************************************************************************)

\* Only files may be submitted directly (field `direct` of the upload form).
\* What happens to the content of a file is told by module Storage.
addFile(i, direct)              == i \in Files /\ addItem(i, direct)
deleteFile(i)                   == i \in Files /\ removeItem(i)
requestFileReview(i)            == i \in Files /\ requestItemReview(i)
reviewFile(i, decision)         == i \in Files /\ reviewItem(i, decision)
prePublishOrAcknowledgeFile(i, contributor) ==
    i \in Files /\ prePublishOrAcknowledgeItem(i, contributor)
cancelPrePublishOrAcknowledgeFile(i, contributor) ==
    i \in Files /\ cancelPrePublishOrAcknowledgeItem(i, contributor)
preAcknowledgeFile(i, contributor) ==
    i \in Files /\ preAcknowledgeItem(i, contributor)
cancelPreAcknowledgeFile(i, contributor) ==
    i \in Files /\ cancelPreAcknowledgeItem(i, contributor)

addMetadata(i)                  == i \in Metadata /\ addItem(i, FALSE)
deleteMetadata(i)               == i \in Metadata /\ removeItem(i)
requestMetadataReview(i)        == i \in Metadata /\ requestItemReview(i)
reviewMetadata(i, decision)     == i \in Metadata /\ reviewItem(i, decision)
prePublishOrAcknowledgeMetadataItem(i, contributor) ==
    i \in Metadata /\ prePublishOrAcknowledgeItem(i, contributor)
cancelPrePublishOrAcknowledgeMetadataItem(i, contributor) ==
    i \in Metadata /\ cancelPrePublishOrAcknowledgeItem(i, contributor)
preAcknowledgeMetadataItem(i, contributor) ==
    i \in Metadata /\ preAcknowledgeItem(i, contributor)
cancelPreAcknowledgeMetadataItem(i, contributor) ==
    i \in Metadata /\ cancelPreAcknowledgeItem(i, contributor)

\* The target of a link is another LOC of this back end: one that was deleted
\* cannot be linked, so a link may be refused, or not, at any time.
addLink(i)                      == i \in Links /\ addItem(i, FALSE)
deleteLink(i)                   == i \in Links /\ removeItem(i)
requestLinkReview(i)            == i \in Links /\ requestItemReview(i)
reviewLink(i, decision)         == i \in Links /\ reviewItem(i, decision)
prePublishOrAcknowledgeLink(i, contributor) ==
    i \in Links /\ prePublishOrAcknowledgeItem(i, contributor)
cancelPrePublishOrAcknowledgeLink(i, contributor) ==
    i \in Links /\ cancelPrePublishOrAcknowledgeItem(i, contributor)
preAcknowledgeLink(i, contributor) ==
    i \in Links /\ preAcknowledgeItem(i, contributor)
cancelPreAcknowledgeLink(i, contributor) ==
    i \in Links /\ cancelPreAcknowledgeItem(i, contributor)

-----------------------------------------------------------------------------
(***************************************************************************)
(* Closing and voiding.                                                    *)
(***************************************************************************)

ackedOnChain(it) == isAcknowledgedOnChain(it, isVerifiedIssuer(it.submitter))

\* Seeded fault: an announced publication is taken for a finalized one.
ensureAllItemsAckedOrPublished ==
    \A i \in Present : ackedOnChain(items[i]) \/ items[i].status = "PUBLISHED"

ensureAllItemsAckedOrPublishedOnChain ==
    \A i \in Present : ackedOnChain(items[i]) \/ isPublishedOnChain(items[i])

ensureAllItemsAckedByVerifiedIssuerOnChain ==
    \A i \in Present : isVerifiedIssuer(items[i].submitter)
                            => items[i].acknowledgedByVerifiedIssuerOn

ensureAllItemsAckedOnChain == \A i \in Present : ackedOnChain(items[i])

\* every item, the confirmed ones too
ackAllItemsByOwner == mutateAllItems(Present, LAMBDA it : acknowledge(it, "OWNER", FALSE))

\* The status is checked last: on a LOC that is not OPEN the items change and it
\* does not.
preClose(autoAck) ==
    /\ IF autoAck
       THEN /\ ensureAllItemsAckedOrPublishedOnChain
            /\ ensureAllItemsAckedByVerifiedIssuerOnChain
            /\ items' = ackAllItemsByOwner
       ELSE /\ ensureAllItemsAckedOnChain
            /\ items' = items
    /\ loc' = [loc EXCEPT !.status = IF @ = "OPEN" THEN "CLOSED" ELSE @]

closeLoc(autoAck) == Exists /\ preClose(autoAck) /\ UNCHANGED restVars

toUnacknowledge == { i \in Having({ "ACKNOWLEDGED" }) : ~items[i].acknowledgedByOwnerOn }

cancelPreClose(autoAck) ==
    /\ loc.status = "CLOSED"
    /\ autoAck => \A i \in toUnacknowledge : canCancelPreAcknowledge(items[i])
    /\ items' = IF autoAck THEN mutateAllItems(toUnacknowledge,
                                    LAMBDA it : cancelPreAcknowledge(it, FALSE))
                           ELSE items
    /\ loc' = [loc EXCEPT !.status = "OPEN"]

cancelCloseLoc(autoAck) == cancelPreClose(autoAck) /\ UNCHANGED restVars

\* A row's embedded void info is always hydrated, so it is void iff it has a reason.
isVoid == loc.voidReason

\* The new void info has no voidedOn: saving the root leaves the column alone.
preVoid ==
    /\ ~isVoid
    /\ loc' = [loc EXCEPT !.voidReason = TRUE]
    /\ items' = items

cancelPreVoid ==
    /\ isVoid
    /\ ~loc.voidedOn
    /\ loc' = [loc EXCEPT !.voidReason = FALSE]
    /\ items' = items

voidLoc       == Exists /\ preVoid /\ UNCHANGED restVars
cancelVoidLoc == Exists /\ cancelPreVoid /\ UNCHANGED restVars

-----------------------------------------------------------------------------
(***************************************************************************)
(* The chain (external): what the pallet accepts, as far as the back end   *)
(* relies on it.  The accounts sign extrinsics whether or not they         *)
(* announced them; the back end sees them finalized, in order, later.      *)
(***************************************************************************)

finalize(call, S, signer) ==
    /\ Len(feed) < MaxFeed
    /\ feed' = Append(feed, [call |-> call, items |-> S, signer |-> signer])
    /\ UNCHANGED chainVars

\* Only a Polkadot requester creates its own LOC, and may include items in it.
\* The id of the LOC comes from the back end, so the request was there before.
chainCreateLoc(S) ==
    /\ loc.status # "NONE"
    /\ chain.loc = "NONE"
    /\ S # {} => polkadot
    /\ \A i \in S : submitter[i] = "REQUESTER"
    /\ chain' = [chain EXCEPT !.loc = "OPEN", !.items = S]
    /\ finalize("createLoc", S, IF polkadot THEN "REQUESTER" ELSE "OWNER")

chainAddItem(i) ==
    /\ chain.loc = "OPEN" /\ ~chain.void
    /\ i \notin chain.items
    /\ chain' = [chain EXCEPT !.items = @ \union { i },
                              !.acks[i] = @ \union ({ submitter[i] } \intersect { "OWNER" })]
    /\ finalize("addItem", { i }, submitter[i])

chainAcknowledgeItem(i, by) ==
    /\ chain.loc = "OPEN" /\ ~chain.void
    /\ i \in chain.items
    /\ by \notin chain.acks[i]
    /\ by = "OWNER" \/ (isVerifiedIssuer(by) /\ by = submitter[i])
    /\ chain' = [chain EXCEPT !.acks[i] = @ \union { by }]
    /\ finalize("acknowledgeItem", { i }, by)

\* Closing needs every issuer's acknowledgement and brings the owner's along.
chainClose ==
    /\ chain.loc = "OPEN" /\ ~chain.void
    /\ \A i \in chain.items : isVerifiedIssuer(submitter[i]) => submitter[i] \in chain.acks[i]
    /\ chain' = [chain EXCEPT !.loc = "CLOSED",
                    !.acks = [i \in Items |-> IF i \in chain.items
                                              THEN @[i] \union { "OWNER" } ELSE @[i]]]
    /\ finalize("close", {}, "OWNER")

chainMakeVoid ==
    /\ chain.loc # "NONE" /\ ~chain.void
    /\ chain' = [chain EXCEPT !.void = TRUE]
    /\ finalize("makeVoid", {}, "OWNER")

-----------------------------------------------------------------------------
(***************************************************************************)
(* Synchronization: LocSynchronizer.updateLocRequests on one extrinsic.    *)
(***************************************************************************)

\* LocRequestAggregateRoot.open
syncCreateLoc(S) ==
    IF loc.status \in { "REVIEW_ACCEPTED", "OPEN" }
    THEN /\ S \subseteq Present
         /\ \A i \in S : canPrePublishOrAcknowledge(items[i], isPublishAcknowledge(items[i]))
         /\ items' = mutateAllItems(S, LAMBDA it :
                         prePublishOrAcknowledge(it, isPublishAcknowledge(it), TRUE))
         /\ loc' = [loc EXCEPT !.locCreatedOn = TRUE, !.status = "OPEN"]
    ELSE /\ items' = items
         /\ loc' = [loc EXCEPT !.locCreatedOn = TRUE]

\* Setting the fees of a missing file throws; a missing metadata item or link
\* is only logged.
canSetFees(S) == S \intersect Files \subseteq Present

syncAddItem(S) ==
    /\ canSetFees(S)
    /\ items' = mutateAllItems(S \intersect Present, setAddedOn)
    /\ loc' = loc

syncAcknowledgeItem(S, signer) ==
    /\ S \subseteq Present
    /\ \A i \in S : mayPreAcknowledge(items[i], signer) /\ canPreAcknowledge(items[i])
    /\ items' = mutateAllItems(S, LAMBDA it : acknowledge(it, signer, TRUE))
    /\ loc' = loc

syncClose ==
    /\ items' = items
    /\ loc' = [loc EXCEPT !.closedOn = TRUE, !.status = "CLOSED"]

syncMakeVoid ==
    /\ items' = items
    /\ loc' = [loc EXCEPT !.voidedOn = TRUE]

updateLocRequests(e) ==
    CASE e.call = "createLoc"       -> syncCreateLoc(e.items)
      [] e.call = "addItem"         -> syncAddItem(e.items)
      [] e.call = "acknowledgeItem" -> syncAcknowledgeItem(e.items, e.signer)
      [] e.call = "close"           -> syncClose
      [] e.call = "makeVoid"        -> syncMakeVoid

\* updateIfExists: an extrinsic about a LOC that is not (or no longer) here is skipped
syncExtrinsic ==
    /\ pos < Len(feed)
    /\ IF Exists THEN updateLocRequests(feed[pos + 1]) ELSE UNCHANGED << loc, items >>
    /\ pos' = pos + 1
    /\ UNCHANGED << polkadot, submitter, chain, feed >>

\* Seeded fault: the position in the batch survives the batch.
moveSyncPointOnly ==
    /\ pos > 0
    /\ feed' = SubSeq(feed, pos + 1, Len(feed))
    /\ UNCHANGED << polkadot, submitter, loc, items, chain, pos >>

\* the end of a batch: BlockConsumer.sync
moveSyncPoint ==
    /\ pos > 0
    /\ feed' = SubSeq(feed, pos + 1, Len(feed))
    /\ pos' = 0
    /\ UNCHANGED << polkadot, submitter, loc, items, chain >>

\* a crash, or an extrinsic that throws: the next run restarts at the sync point
restartFromSyncPoint ==
    /\ pos > 0
    /\ pos' = 0
    /\ UNCHANGED << polkadot, submitter, loc, items, chain, feed >>

-----------------------------------------------------------------------------
Creation == createLocRequest \/ createOpenLoc \/ createSofRequest
Deletion == cancelLocRequest \/ cancelCreateOpenLoc

Review ==
    \/ submitLocRequest \/ rejectLocRequest \/ reworkLocRequest
    \/ \E auto \in BOOLEAN : acceptLocRequest(auto) \/ openLoc(auto) \/ cancelOpenLoc(auto)

FileHandler(i) ==
    \/ \E direct \in BOOLEAN : addFile(i, direct)
    \/ deleteFile(i)
    \/ requestFileReview(i)
    \/ \E decision \in { "ACCEPT", "REJECT" } : reviewFile(i, decision)
    \/ \E contributor \in Role :
          \/ prePublishOrAcknowledgeFile(i, contributor)
          \/ cancelPrePublishOrAcknowledgeFile(i, contributor)
          \/ preAcknowledgeFile(i, contributor)
          \/ cancelPreAcknowledgeFile(i, contributor)

MetadataHandler(i) ==
    \/ addMetadata(i)
    \/ deleteMetadata(i)
    \/ requestMetadataReview(i)
    \/ \E decision \in { "ACCEPT", "REJECT" } : reviewMetadata(i, decision)
    \/ \E contributor \in Role :
          \/ prePublishOrAcknowledgeMetadataItem(i, contributor)
          \/ cancelPrePublishOrAcknowledgeMetadataItem(i, contributor)
          \/ preAcknowledgeMetadataItem(i, contributor)
          \/ cancelPreAcknowledgeMetadataItem(i, contributor)

LinkHandler(i) ==
    \/ addLink(i)
    \/ deleteLink(i)
    \/ requestLinkReview(i)
    \/ \E decision \in { "ACCEPT", "REJECT" } : reviewLink(i, decision)
    \/ \E contributor \in Role :
          \/ prePublishOrAcknowledgeLink(i, contributor)
          \/ cancelPrePublishOrAcknowledgeLink(i, contributor)
          \/ preAcknowledgeLink(i, contributor)
          \/ cancelPreAcknowledgeLink(i, contributor)

ItemHandler(i) == FileHandler(i) \/ MetadataHandler(i) \/ LinkHandler(i)

Ending ==
    \/ \E auto \in BOOLEAN : closeLoc(auto) \/ cancelCloseLoc(auto)
    \/ voidLoc \/ cancelVoidLoc

ChainStep ==
    \/ \E S \in SUBSET Items : chainCreateLoc(S)
    \/ \E i \in Items : chainAddItem(i) \/ \E by \in Role : chainAcknowledgeItem(i, by)
    \/ chainClose \/ chainMakeVoid

SyncStep == syncExtrinsic \/ moveSyncPoint \/ restartFromSyncPoint

Next ==
    \/ Creation \/ Deletion \/ Review \/ Ending
    \/ \E i \in Items : ItemHandler(i)
    \/ ChainStep \/ SyncStep

Spec == Init /\ [][Next]_vars

-----------------------------------------------------------------------------
(***************************************************************************)
(* Properties.                                                             *)
(***************************************************************************)

\* Every variable has its type, and the chain only holds what it can hold.
TypeOK ==
    /\ polkadot \in BOOLEAN
    /\ submitter \in [Items -> Role]
    /\ loc \in Loc
    /\ items \in [Items -> Item \union { Absent }]
    /\ chain \in Chain
    /\ feed \in Seq(Extrinsic)
    /\ pos \in 0 .. Len(feed)

\* Submitting a request sends all its draft items to review with it
\* (updateAllDraftItemsStatus), and nothing adds one while the legal officer
\* reviews it (ensureEditable): a request under review has no draft item.
PendingHasNoDraft == loc.status = "REVIEW_PENDING" => Having({ "DRAFT" }) = {}

\* An item a user submits for review is never accepted, published or public
\* unless the legal officer reviewed it, whichever way an extrinsic that
\* publishes it (setAddedOn, open) interleaves with the review.
UserItemsReviewed ==
    \A i \in Having({ "REVIEW_ACCEPTED", "PUBLISHED", "ACKNOWLEDGED" }) :
        items[i].type = "MANUAL_BY_USER" => items[i].reviewedOn

\* ACKNOWLEDGED items are public.  An item of a Polkadot account becomes so
\* only with the owner's acknowledgement, and an issuer's item only with the
\* issuer's too, in whatever order REST calls and extrinsics bring them and
\* cancel them.
AcknowledgedByAllRequired ==
    \A i \in Having({ "ACKNOWLEDGED" }) :
        /\ isPolkadot(items[i].submitter) => items[i].acknowledgedByOwner
        /\ isVerifiedIssuer(items[i].submitter) => items[i].acknowledgedByVerifiedIssuer

\* The dates mean what the API says they mean: addedOn that the item is on
\* chain, an acknowledgement's date that the acknowledgement is.  (The owner's
\* own items are dated when they are added: see OwnerItemsClosedOnChain.)
ConfirmationsAreChainFacts ==
    \A i \in Present :
        /\ items[i].addedOn => i \in chain.items
        /\ items[i].acknowledgedByOwnerOn /\ items[i].submitter # "OWNER"
                => "OWNER" \in chain.acks[i]
        /\ items[i].acknowledgedByVerifiedIssuerOn => "ISSUER" \in chain.acks[i]

\* A review is never undone, and what was accepted or published can no longer
\* be removed: a rejected item can only disappear, and an accepted one stays
\* accepted, published or acknowledged as long as the LOC exists.
ReviewsAreKept ==
    [][Exists' => \A i \in Items :
         /\ items[i].status = "REVIEW_REJECTED"
                => items'[i].status \in { "REVIEW_REJECTED", "ABSENT" }
         /\ items[i].status \in { "REVIEW_ACCEPTED", "PUBLISHED", "ACKNOWLEDGED" }
                => items'[i].status \in { "REVIEW_ACCEPTED", "PUBLISHED", "ACKNOWLEDGED" }]_vars

\* preClose closes an open LOC only over contents of the requester and of the
\* issuers that really are on chain, and issuers' items only with the issuer's
\* acknowledgement there, whatever the back end still has to synchronize.
ClosesOnlyOverPublished ==
    [][(\E auto \in BOOLEAN : closeLoc(auto)) => \A i \in Present :
         /\ items[i].submitter # "OWNER" => i \in chain.items
         /\ items[i].submitter = "ISSUER" => "ISSUER" \in chain.acks[i]]_vars

-----------------------------------------------------------------------------
(***************************************************************************)
(* Stated by the code or its tests, and not so.  See also                  *)
(* LocRequestHistory.                                                      *)
(***************************************************************************)

\* "fails pre-close with metadata not acknowledged on-chain": the owner's
\* items count as acknowledged on chain from the moment they are added.
OwnerItemsClosedOnChain ==
    [][(\E auto \in BOOLEAN : closeLoc(auto)) => Present \subseteq chain.items]_vars
=============================================================================

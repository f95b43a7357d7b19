-------------------------- MODULE LocRequestProofs --------------------------
(***************************************************************************)
(* Proofs that LocRequest has its safety properties, for any contents, any *)
(* cast of accounts and any bound on the feed.                             *)
(*                                                                         *)
(* The handlers are many and what they do to an item is little, so the     *)
(* proof goes through ItemMove(i): whatever the step, it adds the item,    *)
(* removes it, reviews it, publishes it or acknowledges it (or undoes the  *)
(* latter two), and a date it writes is that of a finalized extrinsic      *)
(* (lemma StepMoves, from one lemma per family of actions).  Each property *)
(* of the items is then proved against the five moves, not against the     *)
(* thirty actions.                                                         *)
(*                                                                         *)
(* The invariant `Inv` adds to the properties what they lean on: what the  *)
(* feed says did happen on chain (FeedIsFinalized), the chain and the rows *)
(* hold nothing without a LOC (ChainIsConsistent, NothingWithoutLoc), and  *)
(* the owner's items carry its acknowledgement (OwnerItemsAccepted).       *)
(***************************************************************************)
EXTENDS LocRequest, SequenceTheorems, TLAPS

-----------------------------------------------------------------------------
(***************************************************************************)
(* Facts about the mutators of an item.                                    *)
(***************************************************************************)

\* A new item is well typed, whoever submits it and however.
LEMMA NewItemType ==
    ASSUME NEW by \in Role, NEW type \in SubmissionType
    PROVE  fromSubmissionType(by, type) \in Item
  BY DEF fromSubmissionType, Item, ItemStatus, SubmissionType

\* Its status and acknowledgements depend on how it is submitted.
LEMMA NewItemFields ==
    ASSUME NEW by, NEW type \in SubmissionType
    PROVE  LET it == fromSubmissionType(by, type)
           IN  /\ it.submitter = by /\ it.type = type
               /\ it.status \in { "PUBLISHED", "REVIEW_ACCEPTED", "DRAFT" }
               /\ it.status = "REVIEW_ACCEPTED" <=> type = "MANUAL_BY_OWNER"
               /\ ~it.addedOn /\ ~it.acknowledgedByVerifiedIssuerOn
               /\ type = "MANUAL_BY_OWNER" => it.acknowledgedByOwner
               /\ type # "MANUAL_BY_OWNER" => ~it.acknowledgedByOwnerOn
<1>1. CASE type = "MANUAL_BY_OWNER"
  BY <1>1 DEF fromSubmissionType
<1>2. CASE type = "MANUAL_BY_USER"
  BY <1>2 DEF fromSubmissionType
<1>3. CASE type = "DIRECT_BY_REQUESTER"
  BY <1>3 DEF fromSubmissionType
<1> QED BY <1>1, <1>2, <1>3 DEF SubmissionType

\* Every mutator keeps an item well typed, and keeps its submitter and type.
LEMMA MutatorsType ==
    ASSUME NEW it \in Item
    PROVE  /\ requestReview(it) \in Item
           /\ acceptItem(it) \in Item
           /\ rejectItem(it) \in Item
           /\ cancelPrePublishOrAcknowledge(it) \in Item
           /\ setAddedOn(it) \in Item
           /\ \A isAcknowledged, on \in BOOLEAN :
                 prePublishOrAcknowledge(it, isAcknowledged, on) \in Item
           /\ \A byIssuer \in BOOLEAN : cancelPreAcknowledge(it, byIssuer) \in Item
           /\ \A expectIssuer, byIssuer, on \in BOOLEAN :
                 preAcknowledge(it, expectIssuer, byIssuer, on) \in Item
<1>1. requestReview(it) \in Item /\ acceptItem(it) \in Item /\ rejectItem(it) \in Item
  BY DEF Item, ItemStatus, requestReview, acceptItem, rejectItem
<1>2. cancelPrePublishOrAcknowledge(it) \in Item /\ setAddedOn(it) \in Item
  BY DEF Item, ItemStatus, Target, cancelPrePublishOrAcknowledge, setAddedOn
<1>3. \A isAcknowledged, on \in BOOLEAN :
         prePublishOrAcknowledge(it, isAcknowledged, on) \in Item
  BY DEF Item, ItemStatus, Target, prePublishOrAcknowledge
<1>4. \A byIssuer \in BOOLEAN : cancelPreAcknowledge(it, byIssuer) \in Item
  BY DEF Item, ItemStatus, cancelPreAcknowledge
<1>5. \A expectIssuer, byIssuer, on \in BOOLEAN :
         preAcknowledge(it, expectIssuer, byIssuer, on) \in Item
  BY DEF Item, ItemStatus, preAcknowledge
<1> QED
  BY <1>1, <1>2, <1>3, <1>4, <1>5

-----------------------------------------------------------------------------
(***************************************************************************)
(* The invariant.                                                          *)
(***************************************************************************)

\* An extrinsic that waits to be synchronized did happen on chain.
FeedIsFinalized ==
    \A k \in 1 .. Len(feed) :
        /\ feed[k].call \in { "createLoc", "addItem" } => feed[k].items \subseteq chain.items
        /\ feed[k].call = "acknowledgeItem"
              => \A i \in feed[k].items : feed[k].signer \in chain.acks[i]

\* On chain too, there is nothing before the LOC is created, and nothing but
\* its items is acknowledged.
ChainIsConsistent ==
    /\ chain.loc = "NONE" => chain.items = {}
    /\ \A i \in Items : chain.acks[i] # {} => i \in chain.items

\* A LOC that does not exist has no items.
NothingWithoutLoc == ~Exists => Present = {}

\* How an item comes into being: never as a draft of a LOC under review.
Added(i) ==
    /\ items[i] = Absent
    /\ \E type \in SubmissionType :
          /\ submitter[i] = "OWNER" <=> type = "MANUAL_BY_OWNER"
          /\ \/ /\ loc'.status # "REVIEW_PENDING"
                /\ items'[i] = fromSubmissionType(submitter[i], type)
             \/ /\ type = "MANUAL_BY_USER"
                /\ items'[i] = requestReview(fromSubmissionType(submitter[i], type))

\* How it disappears.
Removed(i) ==
    /\ Exists' => items[i].status \in { "DRAFT", "REVIEW_REJECTED" }
    /\ items'[i] = Absent

Reviewed(i) ==
    \/ canRequestReview(items[i]) /\ items'[i] = requestReview(items[i])
    \/ canAcceptItem(items[i]) /\ items'[i] = acceptItem(items[i])
    \/ canRejectItem(items[i]) /\ items'[i] = rejectItem(items[i])

\* A date stands for an extrinsic that is finalized.
Published(i) ==
    LET isAcknowledged == isPublishAcknowledge(items[i])
    IN  \/ \E on \in BOOLEAN :
              /\ on => i \in chain.items
              /\ canPrePublishOrAcknowledge(items[i], isAcknowledged)
              /\ items'[i] = prePublishOrAcknowledge(items[i], isAcknowledged, on)
        \/ /\ i \in chain.items
           /\ items'[i] = setAddedOn(items[i])
        \/ /\ canCancelPrePublishOrAcknowledge(items[i], isAcknowledged)
           /\ items'[i] = cancelPrePublishOrAcknowledge(items[i])

Acknowledged(i) ==
    \/ \E by \in { "OWNER", "ISSUER" }, on \in BOOLEAN :
          /\ on => by \in chain.acks[i]
          /\ canPreAcknowledge(items[i])
          /\ items'[i] = acknowledge(items[i], by, on)
    \/ \E byIssuer \in BOOLEAN :
          /\ canCancelPreAcknowledge(items[i])
          /\ items'[i] = cancelPreAcknowledge(items[i], byIssuer)

\* What a step does to one item.
ItemMove(i) ==
    \/ items'[i] = items[i]
    \/ Added(i)
    \/ Removed(i)
    \/ i \in Present /\ (Reviewed(i) \/ Published(i) \/ Acknowledged(i))

ItemMoves ==
    /\ items' = [i \in Items |-> items'[i]]
    /\ \A i \in Items : ItemMove(i)

\* What the handlers of any kind of item have the aggregate do.
ItemOperation(i) ==
    \/ \E direct \in BOOLEAN : addItem(i, direct)
    \/ removeItem(i)
    \/ requestItemReview(i)
    \/ \E decision \in { "ACCEPT", "REJECT" } : reviewItem(i, decision)
    \/ \E contributor \in Role :
          \/ prePublishOrAcknowledgeItem(i, contributor)
          \/ cancelPrePublishOrAcknowledgeItem(i, contributor)
          \/ preAcknowledgeItem(i, contributor)
          \/ cancelPreAcknowledgeItem(i, contributor)

-----------------------------------------------------------------------------
\* The handlers of files, metadata and links differ by their route only.
LEMMA ItemHandlerOperates ==
    ASSUME NEW i \in Items, ItemHandler(i)
    PROVE  ItemOperation(i)
<1>1. CASE FileHandler(i)
  BY <1>1 DEF FileHandler, ItemOperation, addFile, deleteFile, requestFileReview,
              reviewFile,
              prePublishOrAcknowledgeFile, cancelPrePublishOrAcknowledgeFile,
              preAcknowledgeFile, cancelPreAcknowledgeFile
<1>2. CASE MetadataHandler(i)
  BY <1>2 DEF MetadataHandler, ItemOperation, addMetadata, deleteMetadata,
              requestMetadataReview, reviewMetadata, prePublishOrAcknowledgeMetadataItem,
              cancelPrePublishOrAcknowledgeMetadataItem, preAcknowledgeMetadataItem,
              cancelPreAcknowledgeMetadataItem
<1>3. CASE LinkHandler(i)
  BY <1>3 DEF LinkHandler, ItemOperation, addLink, deleteLink, requestLinkReview,
              reviewLink,
              prePublishOrAcknowledgeLink, cancelPrePublishOrAcknowledgeLink,
              preAcknowledgeLink, cancelPreAcknowledgeLink
<1> QED BY <1>1, <1>2, <1>3 DEF ItemHandler

\* An item that is there is a well-formed item.
LEMMA PresentItems ==
    ASSUME TypeOK
    PROVE  \A i \in Present : i \in Items /\ items[i] \in Item
  BY DEF TypeOK, Present, Absent

\* A content that is not an item of the LOC is Absent.
LEMMA AbsentItems ==
    ASSUME TypeOK, NEW i \in Items, i \notin Present
    PROVE  items[i] = Absent
  BY DEF TypeOK, Present, Absent, Item, ItemStatus

\* A handler of one item.
LEMMA OneItemMoves ==
    ASSUME TypeOK, NEW i \in Items, NEW it, updateItem(i, it), items'[i] = it => ItemMove(i)
    PROVE  ItemMoves
  BY DEF TypeOK, ItemMoves, ItemMove, updateItem

\* Adding an item that a LOC does not have yet.
LEMMA AddedItem ==
    ASSUME TypeOK, NEW i \in Items, i \notin Present, NEW type \in SubmissionType,
           submitter[i] = "OWNER" <=> type = "MANUAL_BY_OWNER",
           loc'.status # "REVIEW_PENDING",
           items'[i] = fromSubmissionType(submitter[i], type)
    PROVE  ItemMove(i)
  BY AbsentItems DEF ItemMove, Added

\* Creating a LOC only adds items, and none was there before: createOpenLoc
\* its metadata and links, createSofRequest a link that is submitted at once.
LEMMA CreationMoves == ASSUME TypeOK, NothingWithoutLoc, Creation PROVE ItemMoves
<1>1. CASE createLocRequest
  BY <1>1 DEF createLocRequest, TypeOK, ItemMoves, ItemMove
<1>2. ASSUME loc.status = "NONE" PROVE \A i \in Items : i \notin Present
  BY <1>2 DEF NothingWithoutLoc, Exists
<1>3. CASE createOpenLoc
  <2>1. PICK S \in SUBSET { i \in Items \ Files : submitter[i] = "REQUESTER" } :
           items' = [i \in Items |-> IF i \in S
                       THEN fromSubmissionType("REQUESTER", "DIRECT_BY_REQUESTER")
                       ELSE items[i]]
    BY <1>3 DEF createOpenLoc, mutateAllItems
  <2>2. ASSUME NEW i \in Items PROVE ItemMove(i)
    <3>1. CASE i \in S
      <4>1. loc'.status # "REVIEW_PENDING"
        BY <1>3 DEF createOpenLoc, TypeOK, Loc
      <4> QED BY <1>2, <1>3, <2>1, <3>1, <4>1, AddedItem DEF createOpenLoc, SubmissionType
    <3>2. CASE i \notin S
      BY <2>1, <3>2 DEF ItemMove
    <3> QED BY <3>1, <3>2
  <2> QED BY <2>1, <2>2 DEF ItemMoves
<1>4. CASE createSofRequest
  <2>1. PICK i \in Links :
           /\ submitter[i] = "REQUESTER"
           /\ items' = [items EXCEPT ![i] =
                           requestReview(fromSubmissionType("REQUESTER", "MANUAL_BY_USER"))]
    BY <1>4 DEF newSofRequest, createSofRequest
  <2>3. i \in Items
    BY <2>1, ConstantsAssumption
  <2>4. items[i] = Absent /\ items'[i] = requestReview(
                                fromSubmissionType(submitter[i], "MANUAL_BY_USER"))
    BY <1>2, <1>4, <2>1, <2>3, AbsentItems DEF newSofRequest, createSofRequest, TypeOK
  <2>2. ItemMove(i)
    BY <2>1, <2>4 DEF ItemMove, Added, SubmissionType
  <2> QED BY <2>1, <2>3, <2>2 DEF ItemMoves, ItemMove, TypeOK
<1> QED
  BY <1>1, <1>3, <1>4 DEF Creation

\* Deleting a LOC removes its items, which is allowed because the LOC goes too.
LEMMA DeletionMoves == ASSUME Deletion PROVE ItemMoves
<1>1. ~Exists'
  BY DEF Deletion, cancelLocRequest, cancelCreateOpenLoc, deleteRequest, NoLoc, Exists
<1> QED
  BY <1>1 DEF Deletion, cancelLocRequest, cancelCreateOpenLoc, deleteRequest, ItemMoves,
              ItemMove, Removed

\* publishAllAcceptedItems, and its caller that may skip it
LEMMA PublishAllMoves ==
    ASSUME TypeOK, items' \in { items, publishAllAcceptedItems }
    PROVE  ItemMoves
<1>1. CASE items' = items
  BY <1>1 DEF TypeOK, ItemMoves, ItemMove
<1>2. CASE items' = publishAllAcceptedItems
  <2>1. items' = [i \in Items |-> IF i \in Having({ "REVIEW_ACCEPTED" })
           THEN prePublishOrAcknowledge(items[i], isPublishAcknowledge(items[i]), FALSE)
           ELSE items[i]]
    BY <1>2 DEF publishAllAcceptedItems, mutateAllItems
  <2>2. ASSUME NEW i \in Having({ "REVIEW_ACCEPTED" }) PROVE Published(i) /\ i \in Present
    BY <2>1 DEF Having, Present, Published, canPrePublishOrAcknowledge
  <2> QED BY <2>1, <2>2 DEF ItemMoves, ItemMove
<1> QED BY <1>1, <1>2

\* The review of a request submits its drafts, publishes what was accepted or
\* cancels that publication.
LEMMA ReviewMoves == ASSUME TypeOK, Review PROVE ItemMoves
<1>1. CASE submitLocRequest
  <2>1. items' = [i \in Items |-> IF i \in Having({ "DRAFT" }) THEN requestReview(items[i])
                                                              ELSE items[i]]
    BY <1>1 DEF submitLocRequest, submit, updateAllDraftItemsStatus, mutateAllItems,
                requestReview
  <2>2. \A i \in Having({ "DRAFT" }) : Reviewed(i) /\ i \in Present
    BY <2>1 DEF Having, Present, Reviewed, canRequestReview
  <2> QED BY <2>1, <2>2 DEF ItemMoves, ItemMove
<1>2. CASE rejectLocRequest \/ reworkLocRequest
  BY <1>2 DEF rejectLocRequest, reject, reworkLocRequest, rework, TypeOK, ItemMoves,
              ItemMove
<1>3. ASSUME NEW auto \in BOOLEAN, acceptLocRequest(auto) \/ openLoc(auto) PROVE ItemMoves
  BY <1>3, PublishAllMoves DEF canAccept, accept, preOpen, acceptLocRequest, openLoc
<1>4. ASSUME NEW auto \in BOOLEAN, cancelOpenLoc(auto) PROVE ItemMoves
  <2>1. CASE auto
    <3>1. items' = [i \in Items |-> IF i \in toUnpublish
             THEN cancelPrePublishOrAcknowledge(items[i]) ELSE items[i]]
      BY <1>4, <2>1 DEF cancelPreOpen, cancelOpenLoc, mutateAllItems
    <3>2. \A i \in toUnpublish : Published(i) /\ i \in Present
      BY <1>4, <2>1, <3>1 DEF cancelPreOpen, cancelOpenLoc, toUnpublish, Having, Present,
                              Published
    <3> QED BY <3>1, <3>2 DEF ItemMoves, ItemMove
  <2>2. CASE ~auto
    BY <1>4, <2>2 DEF cancelPreOpen, cancelOpenLoc, TypeOK, ItemMoves, ItemMove
  <2> QED BY <2>1, <2>2
<1> QED BY <1>1, <1>2, <1>3, <1>4 DEF Review

\* A handler of one item adds, removes, reviews, publishes or acknowledges it.
LEMMA ItemHandlerMoves ==
    ASSUME TypeOK, NEW i \in Items, ItemHandler(i)
    PROVE  ItemMoves
<1>1. i \in Present => items[i] \in Item
  BY PresentItems
<1>2. ASSUME NEW direct \in BOOLEAN, addItem(i, direct) PROVE ItemMoves
  <2> DEFINE type == submissionTypeOf(i, direct)
  <2>1. type \in SubmissionType /\ (submitter[i] = "OWNER" <=> type = "MANUAL_BY_OWNER")
    BY DEF submissionTypeOf, SubmissionType
  <2>2. /\ i \notin Present
        /\ updateItem(i, fromSubmissionType(submitter[i], type))
        /\ loc'.status # "REVIEW_PENDING"
    BY <1>2 DEF addItem, ensureEditable, updateItem
  <2> QED
    BY <2>1, <2>2, AddedItem, OneItemMoves
<1>3. CASE removeItem(i)
  BY <1>3, OneItemMoves DEF removeItem, Having, ItemMove, Removed
<1>4. CASE requestItemReview(i)
  BY <1>4, OneItemMoves DEF requestItemReview, ItemMove, Reviewed
<1>5. ASSUME NEW decision \in { "ACCEPT", "REJECT" }, reviewItem(i,
decision) PROVE ItemMoves
  BY <1>5, OneItemMoves DEF reviewItem, ItemMove, Reviewed
<1>6. ASSUME NEW contributor \in Role, prePublishOrAcknowledgeItem(i, contributor)
      PROVE  ItemMoves
  BY <1>6, OneItemMoves DEF prePublishOrAcknowledgeItem, ItemMove, Published
<1>7. ASSUME NEW contributor \in Role, cancelPrePublishOrAcknowledgeItem(i, contributor)
      PROVE  ItemMoves
  BY <1>7, OneItemMoves DEF cancelPrePublishOrAcknowledgeItem, ItemMove, Published
<1>8. ASSUME NEW contributor \in Role, preAcknowledgeItem(i, contributor)
      PROVE  ItemMoves
  <2>1. contributor \in { "OWNER", "ISSUER" }
    BY <1>1, <1>8 DEF preAcknowledgeItem, mayPreAcknowledge, isVerifiedIssuer, Item, Role
  <2> QED
    BY <1>8, <2>1, OneItemMoves DEF preAcknowledgeItem, ItemMove, Acknowledged
<1>9. ASSUME NEW contributor \in Role, cancelPreAcknowledgeItem(i, contributor)
      PROVE  ItemMoves
  <2>1. isVerifiedIssuer(contributor) \in BOOLEAN
    BY DEF isVerifiedIssuer
  <2> QED
    BY <1>9, <2>1, OneItemMoves DEF cancelPreAcknowledgeItem, ItemMove, Acknowledged
<1> QED
  BY <1>2, <1>3, <1>4, <1>5, <1>6, <1>7, <1>8, <1>9, ItemHandlerOperates DEF ItemOperation

\* Closing acknowledges items for the owner, cancelling takes that back; voiding
\* leaves them alone.
LEMMA EndingMoves == ASSUME TypeOK, Ending PROVE ItemMoves
<1>1. ASSUME NEW auto \in BOOLEAN, closeLoc(auto) PROVE ItemMoves
  <2>1. CASE auto
    <3>1. items' = [i \in Items |-> IF i \in Present THEN acknowledge(items[i], "OWNER",
    FALSE)
                                                     ELSE items[i]]
      BY <1>1, <2>1 DEF ackAllItemsByOwner, closeLoc, preClose, mutateAllItems
    <3>2. \A i \in Present : canPreAcknowledge(items[i])
      BY <1>1, <2>1 DEF ackAllItemsByOwner, closeLoc, preClose,
                        ensureAllItemsAckedOrPublishedOnChain,
                        ackedOnChain,
                        isAcknowledgedOnChain, isPublishedOnChain, canPreAcknowledge
    <3>3. \A i \in Present : Acknowledged(i)
      BY <3>1, <3>2 DEF Acknowledged, Present
    <3> QED BY <3>1, <3>3 DEF ItemMoves, ItemMove
  <2>2. CASE ~auto
    BY <1>1, <2>2 DEF ackAllItemsByOwner, closeLoc, preClose, TypeOK, ItemMoves, ItemMove
  <2> QED BY <2>1, <2>2
<1>2. ASSUME NEW auto \in BOOLEAN, cancelCloseLoc(auto) PROVE ItemMoves
  <2>1. CASE auto
    <3>1. items' = [i \in Items |-> IF i \in toUnacknowledge
             THEN cancelPreAcknowledge(items[i], FALSE) ELSE items[i]]
      BY <1>2, <2>1 DEF cancelCloseLoc, cancelPreClose, mutateAllItems
    <3>2. \A i \in toUnacknowledge : Acknowledged(i) /\ i \in Present
      BY <1>2, <2>1, <3>1 DEF cancelCloseLoc, cancelPreClose, toUnacknowledge, Having,
                              Present, Acknowledged
    <3> QED BY <3>1, <3>2 DEF ItemMoves, ItemMove
  <2>2. CASE ~auto
    BY <1>2, <2>2 DEF cancelCloseLoc, cancelPreClose, TypeOK, ItemMoves, ItemMove
  <2> QED BY <2>1, <2>2
<1>3. CASE voidLoc \/ cancelVoidLoc
  BY <1>3 DEF voidLoc, preVoid, cancelVoidLoc, cancelPreVoid, TypeOK, ItemMoves, ItemMove
<1> QED BY <1>1, <1>2, <1>3 DEF Ending

\* Synchronizing an extrinsic publishes or acknowledges items with a date, and
\* the extrinsic is finalized.
LEMMA ExtrinsicMoves ==
    ASSUME TypeOK, FeedIsFinalized, syncExtrinsic
    PROVE  ItemMoves
<1> DEFINE e == feed[pos + 1]
<1>1. /\ pos + 1 \in 1 .. Len(feed)
      /\ e \in Extrinsic
  BY DEF syncExtrinsic, TypeOK
<1>2. /\ e.call \in { "createLoc", "addItem" } => e.items \subseteq chain.items
      /\ e.call = "acknowledgeItem" => \A i \in e.items : e.signer \in chain.acks[i]
  BY <1>1 DEF FeedIsFinalized
<1>3. CASE items' = items
  BY <1>3 DEF TypeOK, ItemMoves, ItemMove
<1>4. CASE e.call = "createLoc" /\ syncCreateLoc(e.items)
  <2>1. CASE loc.status \in { "REVIEW_ACCEPTED", "OPEN" }
    <3>1. items' = [i \in Items |-> IF i \in e.items
             THEN prePublishOrAcknowledge(items[i], isPublishAcknowledge(items[i]), TRUE)
             ELSE items[i]]
      BY <1>4, <2>1 DEF syncCreateLoc, mutateAllItems
    <3>2. \A i \in e.items : Published(i) /\ i \in Present
      BY <1>2, <1>4, <2>1, <3>1 DEF syncCreateLoc, Published, Present
    <3> QED BY <3>1, <3>2 DEF ItemMoves, ItemMove
  <2>2. CASE loc.status \notin { "REVIEW_ACCEPTED", "OPEN" }
    BY <1>3, <1>4, <2>2 DEF syncCreateLoc
  <2> QED BY <2>1, <2>2
<1>5. CASE e.call = "addItem" /\ syncAddItem(e.items)
  <2>1. items' = [i \in Items |-> IF i \in e.items \intersect Present
           THEN setAddedOn(items[i]) ELSE items[i]]
    BY <1>5 DEF canSetFees, syncAddItem, mutateAllItems
  <2>2. \A i \in e.items \intersect Present : Published(i)
    BY <1>2, <1>5, <2>1 DEF Published, Present
  <2> QED BY <2>1, <2>2 DEF ItemMoves, ItemMove
<1>6. CASE e.call = "acknowledgeItem" /\ syncAcknowledgeItem(e.items, e.signer)
  <2>1. items' = [i \in Items |-> IF i \in e.items
           THEN acknowledge(items[i], e.signer, TRUE) ELSE items[i]]
    BY <1>6 DEF syncAcknowledgeItem, mutateAllItems
  <2>2. ASSUME NEW i \in e.items PROVE Acknowledged(i) /\ i \in Present
    <3>1. i \in Present /\ mayPreAcknowledge(items[i],
    e.signer) /\ canPreAcknowledge(items[i])
      BY <1>6 DEF syncAcknowledgeItem
    <3>2. e.signer \in { "OWNER", "ISSUER" }
      BY <3>1, PresentItems DEF mayPreAcknowledge, isVerifiedIssuer, Item, Role
    <3> QED BY <1>2, <1>6, <2>1, <3>1, <3>2 DEF Acknowledged, Present
  <2> QED BY <2>1, <2>2 DEF ItemMoves, ItemMove
<1> QED
  BY <1>1, <1>3, <1>4, <1>5, <1>6
     DEF syncExtrinsic, updateLocRequests, syncClose, syncMakeVoid, Extrinsic

\* Whatever the step, this is all that happens to an item.
LEMMA StepMoves ==
    ASSUME TypeOK, NothingWithoutLoc, FeedIsFinalized, [Next]_vars
    PROVE  ItemMoves
<1>1. CASE UNCHANGED items
  BY <1>1 DEF TypeOK, ItemMoves, ItemMove
<1>2. ChainStep \/ moveSyncPoint \/ restartFromSyncPoint => UNCHANGED items
  BY DEF ChainStep, chainCreateLoc, chainAddItem, chainAcknowledgeItem, chainClose,
         chainMakeVoid, finalize, chainVars, moveSyncPoint, restartFromSyncPoint
<1> QED
  BY <1>1, <1>2, CreationMoves, DeletionMoves, ReviewMoves, ItemHandlerMoves, EndingMoves,
     ExtrinsicMoves DEF Next, SyncStep, vars

-----------------------------------------------------------------------------
(***************************************************************************)
(* The variables other than the items.                                     *)
(***************************************************************************)

\* What the pallet did is what the extrinsic says it did.
BackedBy(e) ==
    /\ e.call \in { "createLoc", "addItem" } => e.items \subseteq chain'.items
    /\ e.call = "acknowledgeItem" => \A i \in e.items : e.signer \in chain'.acks[i]

\* The chain only grows.
ChainGrows ==
    /\ chain.items \subseteq chain'.items
    /\ \A i \in Items : chain.acks[i] \subseteq chain'.acks[i]

\* finalize appends one extrinsic and leaves the back end alone.
LEMMA Finalized ==
    ASSUME NEW call, NEW S, NEW signer, finalize(call, S, signer),
           [call |-> call, items |-> S, signer |-> signer] \in Extrinsic,
           BackedBy([call |-> call, items |-> S, signer |-> signer])
    PROVE  /\ UNCHANGED chainVars
           /\ \E e \in Extrinsic : feed' = Append(feed, e) /\ BackedBy(e)
  BY DEF finalize

\* A step of the pallet keeps its storage well-formed and growing, and appends
\* an extrinsic that says what it did.
LEMMA PalletStep ==
    ASSUME TypeOK, ChainIsConsistent, ChainStep
    PROVE  /\ UNCHANGED chainVars
           /\ chain' \in Chain
           /\ ChainIsConsistent' /\ ChainGrows
           /\ \E e \in Extrinsic : feed' = Append(feed, e) /\ BackedBy(e)
<1>1. /\ chain \in Chain /\ chain.items \subseteq Items
      /\ chain.acks \in [Items -> SUBSET { "OWNER", "ISSUER" }]
  BY DEF TypeOK, Chain
<1> DEFINE Goal == /\ UNCHANGED chainVars
                   /\ chain' \in Chain
                   /\ ChainIsConsistent' /\ ChainGrows
                   /\ \E e \in Extrinsic : feed' = Append(feed, e) /\ BackedBy(e)
<1>2. ASSUME NEW S \in SUBSET Items, chainCreateLoc(S) PROVE Goal
  <2>1. /\ chain.loc = "NONE" /\ chain.items = {}
        /\ chain' = [chain EXCEPT !.loc = "OPEN", !.items = S]
    BY <1>2 DEF chainCreateLoc, ChainIsConsistent
  <2>2. chain'.loc = "OPEN" /\ chain'.items = S /\ chain'.acks = chain.acks /\ chain' \in Chain
    BY <1>1, <2>1 DEF Chain
  <2>3. ChainIsConsistent' /\ ChainGrows
    BY <2>1, <2>2 DEF ChainIsConsistent, ChainGrows
  <2>4. PICK signer \in Role : finalize("createLoc", S, signer)
    BY <1>2 DEF chainCreateLoc, Role
  <2>5. /\ [call |-> "createLoc", items |-> S, signer |-> signer] \in Extrinsic
        /\ BackedBy([call |-> "createLoc", items |-> S, signer |-> signer])
    BY <2>2 DEF Extrinsic, BackedBy
  <2> QED BY <2>2, <2>3, <2>4, <2>5, Finalized
<1>3. ASSUME NEW i \in Items, chainAddItem(i) PROVE Goal
  <2>1. /\ chain.loc = "OPEN"
        /\ chain' = [chain EXCEPT !.items = @ \union { i },
                         !.acks[i] = @ \union ({ submitter[i] } \intersect { "OWNER" })]
        /\ finalize("addItem", { i }, submitter[i])
    BY <1>3 DEF chainAddItem
  <2>2. /\ chain'.loc = "OPEN" /\ chain'.items = chain.items \union { i }
        /\ chain'.acks = [chain.acks EXCEPT
                              ![i] = @ \union ({ submitter[i] } \intersect { "OWNER" })]
        /\ chain' \in Chain
    BY <1>1, <2>1 DEF Chain
  <2>3. ChainIsConsistent' /\ ChainGrows
    BY <1>1, <2>1, <2>2 DEF ChainIsConsistent, ChainGrows
  <2>4. /\ [call |-> "addItem", items |-> { i }, signer |-> submitter[i]] \in Extrinsic
        /\ BackedBy([call |-> "addItem", items |-> { i }, signer |-> submitter[i]])
    BY <2>2 DEF Extrinsic, BackedBy, TypeOK
  <2> QED BY <2>1, <2>2, <2>3, <2>4, Finalized
<1>4. ASSUME NEW i \in Items, NEW by \in Role, chainAcknowledgeItem(i, by) PROVE Goal
  <2>1. /\ chain.loc = "OPEN" /\ i \in chain.items
        /\ chain' = [chain EXCEPT !.acks[i] = @ \union { by }]
        /\ finalize("acknowledgeItem", { i }, by)
    BY <1>4 DEF chainAcknowledgeItem
  <2>2. by \in { "OWNER", "ISSUER" }
    BY <1>4 DEF chainAcknowledgeItem, isVerifiedIssuer, Role
  <2>3. /\ chain'.loc = "OPEN" /\ chain'.items = chain.items
        /\ chain'.acks = [chain.acks EXCEPT ![i] = @ \union { by }]
        /\ chain' \in Chain
    BY <1>1, <2>1, <2>2 DEF Chain
  <2>4. ChainIsConsistent' /\ ChainGrows
    BY <1>1, <2>1, <2>3 DEF ChainIsConsistent, ChainGrows
  <2>5. /\ [call |-> "acknowledgeItem", items |-> { i }, signer |-> by] \in Extrinsic
        /\ BackedBy([call |-> "acknowledgeItem", items |-> { i }, signer |-> by])
    BY <1>1, <2>3 DEF Extrinsic, BackedBy
  <2> QED BY <2>1, <2>3, <2>4, <2>5, Finalized
<1>5. ASSUME chainClose PROVE Goal
  <2>1. /\ chain.loc = "OPEN"
        /\ chain' = [chain EXCEPT !.loc = "CLOSED",
                        !.acks = [i \in Items |-> IF i \in chain.items
                                      THEN chain.acks[i] \union { "OWNER" } ELSE chain.acks[i]]]
        /\ finalize("close", {}, "OWNER")
    BY <1>5 DEF chainClose
  <2>2. /\ chain'.loc = "CLOSED" /\ chain'.items = chain.items
        /\ chain'.acks = [i \in Items |-> IF i \in chain.items
                              THEN chain.acks[i] \union { "OWNER" } ELSE chain.acks[i]]
        /\ chain' \in Chain
    BY <1>1, <2>1 DEF Chain
  <2>3. ChainIsConsistent' /\ ChainGrows
    BY <1>1, <2>1, <2>2 DEF ChainIsConsistent, ChainGrows
  <2>4. /\ [call |-> "close", items |-> {}, signer |-> "OWNER"] \in Extrinsic
        /\ BackedBy([call |-> "close", items |-> {}, signer |-> "OWNER"])
    BY DEF Extrinsic, BackedBy, Role
  <2> QED BY <2>1, <2>2, <2>3, <2>4, Finalized
<1>6. ASSUME chainMakeVoid PROVE Goal
  <2>1. /\ chain' = [chain EXCEPT !.void = TRUE]
        /\ finalize("makeVoid", {}, "OWNER")
    BY <1>6 DEF chainMakeVoid
  <2>2. /\ chain'.loc = chain.loc /\ chain'.items = chain.items /\ chain'.acks = chain.acks
        /\ chain' \in Chain
    BY <1>1, <2>1 DEF Chain
  <2>3. ChainIsConsistent' /\ ChainGrows
    BY <2>2 DEF ChainIsConsistent, ChainGrows
  <2>4. /\ [call |-> "makeVoid", items |-> {}, signer |-> "OWNER"] \in Extrinsic
        /\ BackedBy([call |-> "makeVoid", items |-> {}, signer |-> "OWNER"])
    BY DEF Extrinsic, BackedBy, Role
  <2> QED BY <2>1, <2>2, <2>3, <2>4, Finalized
<1> QED
  BY <1>2, <1>3, <1>4, <1>5, <1>6 DEF ChainStep

\* The handlers and the synchronizer leave the chain alone.
LEMMA OffChainStep ==
    ASSUME [Next]_vars, ~ChainStep
    PROVE  /\ UNCHANGED << polkadot, submitter, chain >>
           /\ UNCHANGED << feed, pos >> \/ SyncStep
  BY ItemHandlerOperates
     DEF canAccept, accept, preOpen, cancelPreOpen, ackAllItemsByOwner, newSofRequest,
         Next, vars, restVars, updateItem, deleteRequest,
         Creation, createLocRequest, createOpenLoc, createSofRequest,
         Deletion, cancelLocRequest, cancelCreateOpenLoc,
         Review, submitLocRequest, submit, rejectLocRequest, reject, reworkLocRequest,
         rework,
         acceptLocRequest, openLoc, cancelOpenLoc,
         ItemOperation, addItem, removeItem, requestItemReview, reviewItem,
         prePublishOrAcknowledgeItem, cancelPrePublishOrAcknowledgeItem,
         preAcknowledgeItem, cancelPreAcknowledgeItem,
         Ending, closeLoc, preClose, cancelCloseLoc, cancelPreClose, voidLoc, preVoid,
         cancelVoidLoc, cancelPreVoid,
         SyncStep, syncExtrinsic, moveSyncPoint, restartFromSyncPoint

\* What an extrinsic does to the row of the LOC, if there is one.
LEMMA ExtrinsicOnLoc ==
    ASSUME TypeOK, syncExtrinsic
    PROVE  \/ UNCHANGED << loc, items >>
           \/ /\ Exists
              /\ loc' \in { loc,
                            [loc EXCEPT !.locCreatedOn = TRUE],
                            [loc EXCEPT !.locCreatedOn = TRUE, !.status = "OPEN"],
                            [loc EXCEPT !.closedOn = TRUE, !.status = "CLOSED"],
                            [loc EXCEPT !.voidedOn = TRUE] }
<1> DEFINE e == feed[pos + 1]
<1>1. e \in Extrinsic
  BY DEF TypeOK, syncExtrinsic
<1>2. \/ UNCHANGED << loc, items >>
      \/ /\ Exists
         /\ \/ syncCreateLoc(e.items)
            \/ syncAddItem(e.items)
            \/ syncAcknowledgeItem(e.items, e.signer)
            \/ syncClose \/ syncMakeVoid
  BY <1>1 DEF syncExtrinsic, updateLocRequests, Extrinsic
<1> QED
  BY <1>2 DEF canSetFees, syncCreateLoc, syncAddItem, syncAcknowledgeItem, syncClose,
              syncMakeVoid

\* The row of the LOC keeps its type.
LEMMA LocType ==
    ASSUME TypeOK, [Next]_vars
    PROVE  loc' \in Loc
<1> USE DEF TypeOK, Loc, LocStatus
<1>1. CASE Creation
  BY <1>1 DEF newSofRequest, Creation, createLocRequest, createOpenLoc, createSofRequest
<1>2. CASE Deletion
  BY <1>2 DEF Deletion, cancelLocRequest, cancelCreateOpenLoc, deleteRequest, NoLoc
<1>3. CASE Review
  BY <1>3 DEF canAccept, accept, preOpen, cancelPreOpen, Review, submitLocRequest, submit,
              rejectLocRequest, reject, reworkLocRequest,
              rework,
              acceptLocRequest, openLoc, cancelOpenLoc
<1>4. CASE \E i \in Items : ItemHandler(i)
  BY <1>4, ItemHandlerOperates
          DEF ItemOperation, addItem, removeItem, requestItemReview, reviewItem,
              prePublishOrAcknowledgeItem, cancelPrePublishOrAcknowledgeItem,
              preAcknowledgeItem, cancelPreAcknowledgeItem, updateItem
<1>5. CASE Ending
  BY <1>5 DEF ackAllItemsByOwner, Ending, closeLoc, preClose, cancelCloseLoc,
              cancelPreClose, voidLoc, preVoid,
              cancelVoidLoc, cancelPreVoid
<1>6. CASE ChainStep
  BY <1>6 DEF ChainStep, chainCreateLoc, chainAddItem, chainAcknowledgeItem, chainClose,
              chainMakeVoid, finalize, chainVars
<1>7. CASE SyncStep
  BY <1>7, ExtrinsicOnLoc DEF SyncStep, moveSyncPoint, restartFromSyncPoint
<1> QED
  BY <1>1, <1>2, <1>3, <1>4, <1>5, <1>6, <1>7 DEF Next, vars

\* The rows of the items keep their type.
LEMMA ItemsType ==
    ASSUME TypeOK, ItemMoves
    PROVE  items' \in [Items -> Item \union { Absent }]
<1>1. ASSUME NEW i \in Items PROVE items'[i] \in Item \union { Absent }
  <2>1. CASE Added(i)
    BY <2>1, NewItemType, MutatorsType DEF Added, TypeOK
  <2>2. ASSUME i \in Present, Reviewed(i) \/ Published(i) \/ Acknowledged(i)
        PROVE  items'[i] \in Item
    <3>1. items[i] \in Item
      BY <2>2, PresentItems
    <3>2. /\ isPublishAcknowledge(items[i]) \in BOOLEAN
          /\ \A role : isVerifiedIssuer(role) \in BOOLEAN
      BY DEF isPublishAcknowledge, isVerifiedIssuer
    <3>3. CASE Reviewed(i)
      BY <3>1, <3>3, MutatorsType DEF Reviewed
    <3>4. CASE Published(i)
      BY <3>1, <3>2, <3>4, MutatorsType DEF Published
    <3>5. CASE Acknowledged(i)
      BY <3>1, <3>2, <3>5, MutatorsType DEF Acknowledged, acknowledge
    <3> QED BY <2>2, <3>3, <3>4, <3>5
  <2>3. CASE items'[i] = items[i] \/ items'[i] = Absent
    BY <2>3 DEF TypeOK
  <2> QED BY <2>1, <2>2, <2>3 DEF ItemMoves, ItemMove, Removed
<1> QED BY <1>1 DEF ItemMoves

\* The feed keeps its type, and the position stays within it.
LEMMA FeedType ==
    ASSUME TypeOK, ChainIsConsistent, [Next]_vars
    PROVE  feed' \in Seq(Extrinsic) /\ pos' \in 0 .. Len(feed')
<1> USE DEF TypeOK
<1>1. CASE ChainStep
  <2>1. PICK e \in Extrinsic : feed' = Append(feed, e)
    BY <1>1, PalletStep
  <2>2. pos' = pos
    BY <1>1, PalletStep DEF chainVars
  <2> QED BY <2>1, <2>2
<1>2. CASE SyncStep
  <2>1. CASE syncExtrinsic \/ restartFromSyncPoint
    BY <2>1 DEF syncExtrinsic, restartFromSyncPoint
  <2>2. CASE moveSyncPoint
    BY <2>2, SubSeqProperties DEF moveSyncPoint
  <2> QED BY <1>2, <2>1, <2>2 DEF SyncStep
<1> QED BY <1>1, <1>2, OffChainStep

-----------------------------------------------------------------------------
(***************************************************************************)
(* The inductive invariant.                                                *)
(***************************************************************************)

\* The items of the owner need no review: they are accepted as it adds them,
\* with its acknowledgement.
OwnerItemsAccepted ==
    \A i \in Present : items[i].submitter = "OWNER" =>
        /\ items[i].status \in { "REVIEW_ACCEPTED", "PUBLISHED", "ACKNOWLEDGED" }
        /\ items[i].status = "REVIEW_ACCEPTED" => items[i].acknowledgedByOwner

\* The part of the invariant that every other part needs.
World == TypeOK /\ NothingWithoutLoc /\ ChainIsConsistent /\ FeedIsFinalized

\* The inductive invariant.
Inv ==
    /\ World
    /\ PendingHasNoDraft
    /\ UserItemsReviewed
    /\ OwnerItemsAccepted /\ AcknowledgedByAllRequired
    /\ ConfirmationsAreChainFacts

\* The invariant holds before anything happened.
LEMMA InitInv == Init => Inv
<1> SUFFICES ASSUME Init PROVE Inv
  OBVIOUS
<1>1. Present = {} /\ feed = <<>>
  BY DEF Init, Present, Absent
<1>2. TypeOK
  BY <1>1 DEF Init, TypeOK, NoLoc, Loc, LocStatus, Chain
<1>3. NothingWithoutLoc /\ ChainIsConsistent /\ FeedIsFinalized
  BY <1>1 DEF Init, NothingWithoutLoc, ChainIsConsistent, FeedIsFinalized
<1> QED
  BY <1>1, <1>2, <1>3 DEF Inv, World, PendingHasNoDraft, Having, UserItemsReviewed,
     OwnerItemsAccepted, AcknowledgedByAllRequired, ConfirmationsAreChainFacts

\* Every step keeps the types.
LEMMA TypeStep == ASSUME World, [Next]_vars PROVE TypeOK'
<1>1. items' \in [Items -> Item \union { Absent }]
  BY StepMoves, ItemsType DEF World
<1>2. loc' \in Loc
  BY LocType DEF World
<1>3. feed' \in Seq(Extrinsic) /\ pos' \in 0 .. Len(feed')
  BY FeedType DEF World
<1>4. polkadot' = polkadot /\ submitter' = submitter /\ chain' \in Chain
  BY PalletStep, OffChainStep DEF World, TypeOK, chainVars
<1> QED
  BY <1>1, <1>2, <1>3, <1>4 DEF World, TypeOK

\* Every step keeps the chain consistent and takes nothing off it.
LEMMA GrowsStep == ASSUME World, [Next]_vars PROVE ChainIsConsistent' /\ ChainGrows
<1>1. CASE ChainStep
  BY <1>1, PalletStep DEF World
<1>2. CASE ~ChainStep
  BY <1>2, OffChainStep DEF World, ChainIsConsistent, ChainGrows
<1> QED BY <1>1, <1>2

\* An extrinsic stays true to the chain because the chain only grows.
LEMMA FeedStep == ASSUME World, [Next]_vars PROVE FeedIsFinalized'
<1>1. ChainGrows
  BY GrowsStep
<1>2. feed \in Seq(Extrinsic)
  BY DEF World, TypeOK
<1>3. ASSUME NEW k \in 1 .. Len(feed) PROVE BackedBy(feed[k])
  <2> feed[k] \in Extrinsic
    BY <1>2
  <2>1. feed[k].items \subseteq Items
    BY DEF Extrinsic
  <2>2. /\ feed[k].call \in { "createLoc", "addItem" } => feed[k].items \subseteq chain.items
        /\ feed[k].call = "acknowledgeItem"
              => \A i \in feed[k].items : feed[k].signer \in chain.acks[i]
    BY DEF World, FeedIsFinalized
  <2>3. feed[k].call \in { "createLoc", "addItem" } => feed[k].items \subseteq chain'.items
    BY <1>1, <2>2 DEF ChainGrows
  <2>4. ASSUME feed[k].call = "acknowledgeItem", NEW i \in feed[k].items
        PROVE  feed[k].signer \in chain'.acks[i]
    BY <1>1, <2>1, <2>2, <2>4 DEF ChainGrows
  <2> QED BY <2>3, <2>4 DEF BackedBy
<1>4. CASE ChainStep
  <2>1. PICK e \in Extrinsic : feed' = Append(feed, e) /\ BackedBy(e)
    BY <1>4, PalletStep DEF World
  <2>2. \A k \in 1 .. Len(feed') : BackedBy(feed'[k])
    BY <1>2, <1>3, <2>1
  <2> QED BY <2>2 DEF BackedBy, FeedIsFinalized
<1>5. CASE moveSyncPoint
  <2>1. /\ Len(feed') = Len(feed) - pos
        /\ \A k \in 1 .. Len(feed') : pos + k \in 1 .. Len(feed) /\ feed'[k] = feed[pos + k]
    BY <1>2, <1>5, SubSeqProperties DEF moveSyncPoint, World, TypeOK
  <2>2. \A k \in 1 .. Len(feed') : BackedBy(feed'[k])
    BY <1>3, <2>1
  <2> QED BY <2>2 DEF BackedBy, FeedIsFinalized
<1>6. CASE UNCHANGED feed
  BY <1>3, <1>6 DEF BackedBy, FeedIsFinalized
<1> QED
  BY <1>4, <1>5, <1>6, OffChainStep DEF SyncStep, syncExtrinsic, restartFromSyncPoint

\* No step leaves items behind a LOC that does not exist.
LEMMA NothingStep == ASSUME World, [Next]_vars PROVE NothingWithoutLoc'
<1> USE DEF Exists
<1>1. CASE ~Exists'
  <2>1. CASE Deletion
    BY <2>1 DEF Deletion, cancelLocRequest, cancelCreateOpenLoc, deleteRequest,
                NothingWithoutLoc, Present, Absent
  <2>2. CASE ~Deletion
    <3>1. UNCHANGED << loc, items >>
      <4>1. CASE Creation
        BY <1>1, <4>1 DEF newSofRequest, World, TypeOK, Loc, Creation, createLocRequest,
                          createOpenLoc,
                          createSofRequest
      <4>2. CASE Review
        BY <1>1, <4>2 DEF canAccept, accept, preOpen, cancelPreOpen, World, TypeOK, Loc,
                          Review, submitLocRequest, submit,
                          rejectLocRequest, reject,
                          reworkLocRequest, rework, acceptLocRequest, openLoc, cancelOpenLoc
      <4>3. ASSUME NEW i \in Items, ItemHandler(i) PROVE FALSE
        <5>1. Present = {} /\ loc.status \in { "NONE", "DELETED" }
          BY <1>1, <4>3, ItemHandlerOperates
             DEF World, NothingWithoutLoc, ItemOperation, addItem, removeItem,
                requestItemReview, reviewItem, prePublishOrAcknowledgeItem,
                cancelPrePublishOrAcknowledgeItem, preAcknowledgeItem,
                cancelPreAcknowledgeItem, updateItem
        <5> QED
          BY <4>3, <5>1, ItemHandlerOperates
             DEF ItemOperation, addItem, ensureEditable, removeItem, Having,
                requestItemReview, reviewItem, prePublishOrAcknowledgeItem,
                cancelPrePublishOrAcknowledgeItem, preAcknowledgeItem,
                cancelPreAcknowledgeItem
      <4>4. CASE Ending
        BY <1>1, <4>4 DEF ackAllItemsByOwner, World, TypeOK, Loc, Ending, closeLoc,
                          preClose, cancelCloseLoc,
                          cancelPreClose, voidLoc, preVoid,
                          cancelVoidLoc, cancelPreVoid
      <4>5. CASE ChainStep
        BY <4>5, PalletStep DEF World, chainVars
      <4>6. CASE SyncStep
        BY <1>1, <4>6, ExtrinsicOnLoc DEF World, TypeOK, Loc, SyncStep, moveSyncPoint,
                          restartFromSyncPoint
      <4> QED
        BY <2>2, <4>1, <4>2, <4>3, <4>4, <4>5, <4>6 DEF Next, vars
    <3> QED BY <1>1, <3>1 DEF World, NothingWithoutLoc, Present
  <2> QED BY <2>1, <2>2
<1> QED BY <1>1 DEF NothingWithoutLoc

\* Only its creation and its submission put a LOC under review.
LEMMA EnteringReview ==
    ASSUME World, [Next]_vars, loc'.status = "REVIEW_PENDING"
    PROVE  loc.status = "REVIEW_PENDING" \/ Creation \/ submitLocRequest
<1> USE DEF World, TypeOK, Loc
<1>1. CASE Deletion
  BY <1>1 DEF Deletion, cancelLocRequest, cancelCreateOpenLoc, deleteRequest, NoLoc
<1>2. CASE Review
  BY <1>2 DEF canAccept, accept, preOpen, cancelPreOpen, Review, rejectLocRequest, reject,
              reworkLocRequest, rework, acceptLocRequest,
              openLoc,
              cancelOpenLoc
<1>3. CASE \E i \in Items : ItemHandler(i)
  BY <1>3, ItemHandlerOperates
          DEF ItemOperation, addItem, removeItem, requestItemReview, reviewItem,
              prePublishOrAcknowledgeItem, cancelPrePublishOrAcknowledgeItem,
              preAcknowledgeItem, cancelPreAcknowledgeItem, updateItem
<1>4. CASE Ending
  BY <1>4 DEF ackAllItemsByOwner, Ending, closeLoc, preClose, cancelCloseLoc,
              cancelPreClose, voidLoc, preVoid,
              cancelVoidLoc, cancelPreVoid
<1>5. CASE ChainStep
  BY <1>5, PalletStep DEF chainVars
<1>6. CASE SyncStep
  BY <1>6, ExtrinsicOnLoc DEF SyncStep, moveSyncPoint, restartFromSyncPoint
<1> QED
  BY <1>1, <1>2, <1>3, <1>4, <1>5, <1>6 DEF Next, vars

\* No step puts or leaves a draft item in a LOC under review.
LEMMA PendingStep ==
    ASSUME World, PendingHasNoDraft, [Next]_vars
    PROVE  PendingHasNoDraft'
<1> SUFFICES ASSUME loc'.status = "REVIEW_PENDING", NEW i \in Items,
                    items'[i].status = "DRAFT"
             PROVE  FALSE
  BY DEF PendingHasNoDraft, Having, Present
<1>1. ItemMove(i)
  BY StepMoves DEF World, ItemMoves
<1>2. ~Added(i)
  BY DEF Added, fromSubmissionType, requestReview
<1>3. i \in Present /\ items[i].status = "DRAFT"
  <2>1. ~Removed(i)
    BY DEF Removed, Absent
  <2>2. CASE items'[i] = items[i]
    BY <2>2 DEF Present
  <2>3. ASSUME i \in Present, Reviewed(i) \/ Published(i) \/ Acknowledged(i)
        PROVE  items[i].status = "DRAFT"
    <3>1. items[i] \in Item
      BY <2>3, PresentItems DEF World
    <3>2. ~Reviewed(i)
      BY <3>1 DEF Reviewed, requestReview, acceptItem, rejectItem, Item
    <3>3. CASE Published(i)
      BY <3>1, <3>3 DEF Published, prePublishOrAcknowledge, Target, setAddedOn,
                        cancelPrePublishOrAcknowledge, Item
    <3>4. CASE Acknowledged(i)
      BY <3>1, <3>4 DEF Acknowledged, acknowledge, preAcknowledge, canPreAcknowledge,
                        cancelPreAcknowledge, Item
    <3> QED BY <2>3, <3>2, <3>3, <3>4
  <2> QED BY <1>1, <1>2, <2>1, <2>2, <2>3 DEF ItemMove
<1>4. loc.status # "REVIEW_PENDING"
  BY <1>3 DEF PendingHasNoDraft, Having
<1>5. CASE Creation
  BY <1>3, <1>5 DEF newSofRequest, World, NothingWithoutLoc, Exists, Creation,
                    createLocRequest,
                    createOpenLoc, createSofRequest
<1>6. CASE submitLocRequest
  BY <1>3, <1>6 DEF submitLocRequest, submit, updateAllDraftItemsStatus, mutateAllItems,
                    Having,
                    World, TypeOK, Item, ItemStatus, Absent
<1> QED BY <1>4, <1>5, <1>6, EnteringReview

\* Reviewed once, an item stays reviewed.
LEMMA ReviewedStep ==
    ASSUME World, UserItemsReviewed, [Next]_vars
    PROVE  UserItemsReviewed'
<1> DEFINE Final == { "REVIEW_ACCEPTED", "PUBLISHED", "ACKNOWLEDGED" }
<1> SUFFICES ASSUME NEW i \in Items, items'[i].status \in Final,
                    items'[i].type = "MANUAL_BY_USER"
             PROVE  items'[i].reviewedOn
  BY DEF UserItemsReviewed, Having, Present
<1>1. i \in Present /\ items[i].status \in Final /\ items[i].type = "MANUAL_BY_USER"
         => items[i].reviewedOn
  BY DEF UserItemsReviewed, Having
<1>2. ItemMove(i)
  BY StepMoves DEF World, ItemMoves
<1>3. CASE items'[i] = items[i]
  BY <1>1, <1>3 DEF Present
<1>4. CASE Added(i)
  BY <1>4 DEF Added, fromSubmissionType, requestReview, SubmissionType
<1>5. ~Removed(i)
  BY DEF Removed, Absent
<1>6. ASSUME i \in Present, Reviewed(i) \/ Published(i) \/ Acknowledged(i)
      PROVE  items'[i].reviewedOn
  <2>1. items[i] \in Item
    BY <1>6, PresentItems DEF World
  <2>2. CASE Reviewed(i)
    BY <2>1, <2>2 DEF Reviewed, requestReview, acceptItem, rejectItem, Item
  <2>3. CASE Published(i)
    BY <1>1, <1>6, <2>1, <2>3 DEF Published, canPrePublishOrAcknowledge,
       prePublishOrAcknowledge, Target, setAddedOn, canCancelPrePublishOrAcknowledge,
       cancelPrePublishOrAcknowledge, Item
  <2>4. CASE Acknowledged(i)
    BY <1>1, <1>6, <2>1, <2>4 DEF Acknowledged, canPreAcknowledge, acknowledge,
       preAcknowledge, canCancelPreAcknowledge, cancelPreAcknowledge, Item
  <2> QED BY <1>6, <2>2, <2>3, <2>4
<1> QED BY <1>2, <1>3, <1>4, <1>5, <1>6 DEF ItemMove

\* What a new item looks like.
LEMMA AddedFields ==
    ASSUME NEW i \in Items, Added(i)
    PROVE  /\ items'[i].status # "ACKNOWLEDGED"
           /\ items'[i].submitter = "OWNER" =>
                 items'[i].status = "REVIEW_ACCEPTED" /\ items'[i].acknowledgedByOwner
           /\ ~items'[i].addedOn /\ ~items'[i].acknowledgedByVerifiedIssuerOn
           /\ items'[i].submitter # "OWNER" => ~items'[i].acknowledgedByOwnerOn
<1>1. PICK type \in SubmissionType :
         /\ submitter[i] = "OWNER" <=> type = "MANUAL_BY_OWNER"
         /\ \/ items'[i] = fromSubmissionType(submitter[i], type)
            \/ /\ type = "MANUAL_BY_USER"
               /\ items'[i] = requestReview(fromSubmissionType(submitter[i], type))
  BY DEF Added
<1> DEFINE new == fromSubmissionType(submitter[i], type)
<1>2. /\ new.status \in { "PUBLISHED", "REVIEW_ACCEPTED", "DRAFT" }
      /\ new.submitter = "OWNER" <=> type = "MANUAL_BY_OWNER"
      /\ type = "MANUAL_BY_OWNER" => new.status = "REVIEW_ACCEPTED" /\ new.acknowledgedByOwner
      /\ ~new.addedOn /\ ~new.acknowledgedByVerifiedIssuerOn
      /\ type # "MANUAL_BY_OWNER" => ~new.acknowledgedByOwnerOn
  BY <1>1, NewItemFields
<1>3. CASE type = "MANUAL_BY_USER" /\ items'[i] = requestReview(new)
  BY <1>2, <1>3 DEF fromSubmissionType, requestReview
<1> QED BY <1>1, <1>2, <1>3

\* What has to hold of an item for its acknowledgements to be complete.
Complete(it) ==
    /\ it.submitter = "OWNER" =>
          /\ it.status \in { "REVIEW_ACCEPTED", "PUBLISHED", "ACKNOWLEDGED" }
          /\ it.status = "REVIEW_ACCEPTED" => it.acknowledgedByOwner
    /\ it.status = "ACKNOWLEDGED" =>
          /\ isPolkadot(it.submitter) => it.acknowledgedByOwner
          /\ isVerifiedIssuer(it.submitter) => it.acknowledgedByVerifiedIssuer

\* Complete is what the two parts of the invariant say, item by item.
LEMMA CompleteItems ==
    (\A i \in Present : Complete(items[i])) <=> OwnerItemsAccepted /\ AcknowledgedByAllRequired
  BY DEF Complete, OwnerItemsAccepted, AcknowledgedByAllRequired, Having

\* No step makes an item public that lacks an acknowledgement.
LEMMA CompleteStep ==
    ASSUME World, OwnerItemsAccepted, AcknowledgedByAllRequired, [Next]_vars
    PROVE  OwnerItemsAccepted' /\ AcknowledgedByAllRequired'
<1> USE DEF isPolkadot, isVerifiedIssuer
<1>1. \A i \in Present : Complete(items[i])
  BY CompleteItems
<1>2. polkadot' = polkadot
  BY PalletStep, OffChainStep DEF World, chainVars
<1>3. ASSUME NEW i \in Items, items'[i].status # "ABSENT" PROVE Complete(items'[i])
  <2>1. ItemMove(i)
    BY StepMoves DEF World, ItemMoves
  <2>2. CASE items'[i] = items[i]
    BY <1>1, <1>3, <2>2 DEF Present
  <2>3. CASE Added(i)
    BY <2>3, AddedFields DEF Complete
  <2>4. ~Removed(i)
    BY <1>3 DEF Removed, Absent
  <2>5. ASSUME i \in Present, Reviewed(i) \/ Published(i) \/ Acknowledged(i)
        PROVE  Complete(items'[i])
    <3>1. items[i] \in Item /\ Complete(items[i])
      BY <1>1, <2>5, PresentItems DEF World
    <3>2. CASE Reviewed(i)
      BY <3>1, <3>2 DEF Reviewed, canRequestReview, requestReview, canAcceptItem,
                        acceptItem,
         canRejectItem, rejectItem, Item, Complete
    <3>3. CASE Published(i)
      BY <3>1, <3>3 DEF Published, isPublishAcknowledge, canPrePublishOrAcknowledge,
         prePublishOrAcknowledge, Target, setAddedOn, canCancelPrePublishOrAcknowledge,
         cancelPrePublishOrAcknowledge, Item, Role, Complete
    <3>4. CASE Acknowledged(i)
      BY <3>1, <3>4 DEF Acknowledged, canPreAcknowledge, acknowledge, preAcknowledge,
         canCancelPreAcknowledge, cancelPreAcknowledge, Item, Role, Complete
    <3> QED BY <2>5, <3>2, <3>3, <3>4
  <2> QED BY <2>1, <2>2, <2>3, <2>4, <2>5 DEF ItemMove
<1> QED
  BY <1>2, <1>3 DEF Present, Having, OwnerItemsAccepted, AcknowledgedByAllRequired, Complete

\* No step dates what is not on chain.
LEMMA ConfirmationsStep ==
    ASSUME World, ConfirmationsAreChainFacts, [Next]_vars
    PROVE  ConfirmationsAreChainFacts'
<1> DEFINE Fact(i, it, c) ==
      /\ it.addedOn => i \in c.items
      /\ it.acknowledgedByOwnerOn /\ it.submitter # "OWNER" => "OWNER" \in c.acks[i]
      /\ it.acknowledgedByVerifiedIssuerOn => "ISSUER" \in c.acks[i]
<1> SUFFICES ASSUME NEW i \in Items, items'[i].status # "ABSENT"
             PROVE  Fact(i, items'[i], chain')
  BY DEF ConfirmationsAreChainFacts, Present
<1>1. i \in Present => Fact(i, items[i], chain)
  BY DEF ConfirmationsAreChainFacts
<1>2. chain.items \subseteq chain'.items /\ chain.acks[i] \subseteq chain'.acks[i]
  BY GrowsStep DEF ChainGrows
<1>3. SUFFICES Fact(i, items'[i], chain)
  BY <1>2
<1>4. ItemMove(i)
  BY StepMoves DEF World, ItemMoves
<1>5. CASE items'[i] = items[i]
  BY <1>1, <1>5 DEF Present
<1>6. CASE Added(i)
  BY <1>6, AddedFields
<1>7. ~Removed(i)
  BY DEF Removed, Absent
<1>8. ASSUME i \in Present, Reviewed(i) \/ Published(i) \/ Acknowledged(i)
      PROVE  Fact(i, items'[i], chain)
  <2>1. items[i] \in Item
    BY <1>8, PresentItems DEF World
  <2>2. CASE Reviewed(i)
    BY <1>1, <1>8, <2>1, <2>2 DEF Reviewed, requestReview, acceptItem, rejectItem, Item
  <2>3. CASE Published(i)
    BY <1>1, <1>8, <2>1, <2>3 DEF Published, prePublishOrAcknowledge, setAddedOn,
       cancelPrePublishOrAcknowledge, Item
  <2>4. CASE Acknowledged(i)
    BY <1>1, <1>8, <2>1, <2>4 DEF Acknowledged, acknowledge, preAcknowledge,
       cancelPreAcknowledge, isVerifiedIssuer, Item
  <2> QED BY <1>8, <2>2, <2>3, <2>4
<1> QED BY <1>4, <1>5, <1>6, <1>7, <1>8 DEF ItemMove

\* Every step keeps the invariant.
LEMMA InvStep == Inv /\ [Next]_vars => Inv'
<1> SUFFICES ASSUME Inv, [Next]_vars PROVE Inv'
  OBVIOUS
<1>1. World'
  BY TypeStep, GrowsStep, FeedStep, NothingStep DEF Inv, World
<1> QED
  BY <1>1, PendingStep, ReviewedStep, CompleteStep, ConfirmationsStep DEF Inv

-----------------------------------------------------------------------------
(***************************************************************************)
(* The theorems.                                                           *)
(***************************************************************************)

\* All the invariants, for any number of contents and any feed.
THEOREM Invariance == Spec => []Inv
<1>1. Init => Inv
  BY InitInv
<1>2. Inv /\ [Next]_vars => Inv'
  BY InvStep
<1> QED BY <1>1, <1>2, PTL DEF Spec

\* Every variable keeps its type, whatever the handlers, the chain and the
\* synchronizer do.
THEOREM TypeCorrect == Spec => []TypeOK
<1>1. Inv => TypeOK
  BY DEF Inv, World
<1> QED BY <1>1, Invariance, PTL

\* A LOC under review has no draft item (submit, ensureEditable).
THEOREM NoDraftUnderReview == Spec => []PendingHasNoDraft
<1>1. Inv => PendingHasNoDraft
  BY DEF Inv
<1> QED BY <1>1, Invariance, PTL

\* Nothing submitted for review is published without review.
THEOREM ReviewBeforePublication == Spec => []UserItemsReviewed
<1>1. Inv => UserItemsReviewed
  BY DEF Inv
<1> QED BY <1>1, Invariance, PTL

\* An acknowledged item has every acknowledgement it needs.
THEOREM AcknowledgementsComplete == Spec => []AcknowledgedByAllRequired
<1>1. Inv => AcknowledgedByAllRequired
  BY DEF Inv
<1> QED BY <1>1, Invariance, PTL

\* What the API dates did happen on chain.
THEOREM ConfirmationsTrue == Spec => []ConfirmationsAreChainFacts
<1>1. Inv => ConfirmationsAreChainFacts
  BY DEF Inv
<1> QED BY <1>1, Invariance, PTL

\* Reviews are never undone, and what was accepted does not disappear.
THEOREM ReviewsKept == Spec => ReviewsAreKept
<1> DEFINE Accepted == { "REVIEW_ACCEPTED", "PUBLISHED", "ACKNOWLEDGED" }
           Kept == Exists' => \A i \in Items :
              /\ items[i].status = "REVIEW_REJECTED"
                     => items'[i].status \in { "REVIEW_REJECTED", "ABSENT" }
              /\ items[i].status \in Accepted => items'[i].status \in Accepted
<1>1. Inv /\ [Next]_vars => Kept
  <2> SUFFICES ASSUME Inv, [Next]_vars, Exists', NEW i \in Items
               PROVE  /\ items[i].status = "REVIEW_REJECTED"
                             => items'[i].status \in { "REVIEW_REJECTED", "ABSENT" }
                      /\ items[i].status \in Accepted => items'[i].status \in Accepted
    OBVIOUS
  <2>1. ItemMove(i)
    BY StepMoves DEF Inv, World, ItemMoves
  <2>2. CASE Added(i)
    BY <2>2 DEF Added, Absent
  <2>3. CASE Removed(i)
    BY <2>3 DEF Removed, Absent
  <2>4. ASSUME i \in Present, Reviewed(i) \/ Published(i) \/ Acknowledged(i)
        PROVE  /\ items[i].status = "REVIEW_REJECTED" => items'[i].status = "REVIEW_REJECTED"
               /\ items[i].status \in Accepted => items'[i].status \in Accepted
    <3>1. items[i] \in Item
      BY <2>4, PresentItems DEF Inv, World
    <3>2. CASE Reviewed(i)
      BY <3>1, <3>2 DEF Reviewed, canRequestReview, canAcceptItem, canRejectItem
    <3>3. CASE Published(i)
      BY <3>1, <3>3 DEF Published, canPrePublishOrAcknowledge, prePublishOrAcknowledge,
                        Target,
         setAddedOn, canCancelPrePublishOrAcknowledge, cancelPrePublishOrAcknowledge, Item
    <3>4. CASE Acknowledged(i)
      BY <3>1, <3>4 DEF Acknowledged, canPreAcknowledge, acknowledge, preAcknowledge,
         canCancelPreAcknowledge, cancelPreAcknowledge, Item
    <3> QED BY <2>4, <3>2, <3>3, <3>4
  <2> QED BY <2>1, <2>2, <2>3, <2>4 DEF ItemMove
<1>2. Kept => [Kept]_vars
  OBVIOUS
<1> QED BY <1>1, Invariance, PTL DEF Spec, ReviewsAreKept

\* Closing a LOC is announced only over contents that are on chain, and
\* acknowledged there, although the back end only knows what it synchronized.
THEOREM ClosesOverPublished == Spec => ClosesOnlyOverPublished
<1> DEFINE Closing == (\E auto \in BOOLEAN : closeLoc(auto)) => \A i \in Present :
              /\ items[i].submitter # "OWNER" => i \in chain.items
              /\ items[i].submitter = "ISSUER" => "ISSUER" \in chain.acks[i]
<1>1. Inv => Closing
  <2> SUFFICES ASSUME Inv, NEW auto \in BOOLEAN, closeLoc(auto), NEW i \in Present,
                      items[i].submitter # "OWNER"
               PROVE  /\ i \in chain.items
                      /\ items[i].submitter = "ISSUER" => "ISSUER" \in chain.acks[i]
    BY DEF Inv, World
  <2>1. i \in Items /\ items[i] \in Item
    BY PresentItems DEF Inv, World
  <2>2. /\ items[i].acknowledgedByOwnerOn \/ items[i].addedOn
        /\ isVerifiedIssuer(items[i].submitter) => items[i].acknowledgedByVerifiedIssuerOn
    BY <2>1 DEF ackAllItemsByOwner, closeLoc, preClose,
                ensureAllItemsAckedOrPublishedOnChain, ackedOnChain,
       ensureAllItemsAckedByVerifiedIssuerOnChain, ensureAllItemsAckedOnChain,
       isAcknowledgedOnChain, isPublishedOnChain
  <2>3. /\ items[i].addedOn => i \in chain.items
        /\ items[i].acknowledgedByOwnerOn => chain.acks[i] # {}
        /\ items[i].acknowledgedByVerifiedIssuerOn => "ISSUER" \in chain.acks[i]
    BY DEF Inv, ConfirmationsAreChainFacts
  <2> QED
    BY <2>1, <2>2, <2>3 DEF Inv, World, ChainIsConsistent, isVerifiedIssuer, Item, Role
<1> QED BY <1>1, Invariance, PTL DEF Spec, ClosesOnlyOverPublished
=============================================================================

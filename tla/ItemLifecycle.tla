--------------------------- MODULE ItemLifecycle ---------------------------
(***************************************************************************)
(* The lifecycle embedded in every file, metadata item and link of a LOC   *)
(* (class EmbeddableLifecycle).  Only the control of the three kinds of    *)
(* item is kept, so the three are one: an `Item` is any of them.           *)
(*                                                                         *)
(* The four dates of the class are abstracted to "set or not", which is    *)
(* all the code ever asks of them.  Who submitted an item is part of the   *)
(* item, not of its lifecycle; it is a field of the record here because    *)
(* every caller passes it along with the lifecycle (isPublishAcknowledge,  *)
(* isVerifiedIssuer(submitter)).                                           *)
(***************************************************************************)

ItemStatus == { "DRAFT", "REVIEW_PENDING", "REVIEW_ACCEPTED",
                "REVIEW_REJECTED", "PUBLISHED", "ACKNOWLEDGED" }

SubmissionType == { "MANUAL_BY_USER", "MANUAL_BY_OWNER", "DIRECT_BY_REQUESTER" }

\* The three ways an account relates to a LOC: its legal officer, the account
\* that requested it, a verified issuer selected on it.
Role == { "OWNER", "REQUESTER", "ISSUER" }

Item ==
    [ submitter : Role,
      type      : SubmissionType,  \* history: the argument of fromSubmissionType
      status    : ItemStatus,
      reviewedOn : BOOLEAN, addedOn : BOOLEAN,
      acknowledgedByOwner          : BOOLEAN, acknowledgedByOwnerOn          : BOOLEAN,
      acknowledgedByVerifiedIssuer : BOOLEAN, acknowledgedByVerifiedIssuerOn : BOOLEAN ]

fromSubmissionType(submitter, type) ==
    [ submitter |-> submitter,
      type      |-> type,
      status    |-> CASE type = "DIRECT_BY_REQUESTER" -> "PUBLISHED"
                      [] type = "MANUAL_BY_OWNER"     -> "REVIEW_ACCEPTED"
                      [] type = "MANUAL_BY_USER"      -> "DRAFT",
      reviewedOn                     |-> FALSE,
      addedOn                        |-> FALSE,
      acknowledgedByOwner            |-> type = "MANUAL_BY_OWNER",
      acknowledgedByOwnerOn          |-> type = "MANUAL_BY_OWNER",
      acknowledgedByVerifiedIssuer   |-> FALSE,
      acknowledgedByVerifiedIssuerOn |-> FALSE ]

-----------------------------------------------------------------------------
(***************************************************************************)
(* Each mutator is a pair: the condition under which it does not throw and *)
(* the record it leaves.                                                   *)
(***************************************************************************)

canRequestReview(it) == it.status = "DRAFT"
requestReview(it)    == [it EXCEPT !.status = "REVIEW_PENDING"]

\* Seeded fault: a rejected item can be accepted after all.
canAcceptUnaccepted(it) == it.status \in { "REVIEW_PENDING", "REVIEW_REJECTED" }

canAcceptItem(it) == it.status = "REVIEW_PENDING"
acceptItem(it)    == [it EXCEPT !.status = "REVIEW_ACCEPTED", !.reviewedOn = TRUE]

canRejectItem(it) == it.status = "REVIEW_PENDING"
rejectItem(it)    == [it EXCEPT !.status = "REVIEW_REJECTED", !.reviewedOn = TRUE]

Target(isAcknowledged) == IF isAcknowledged THEN "ACKNOWLEDGED" ELSE "PUBLISHED"

canPrePublishOrAcknowledge(it, isAcknowledged) ==
    it.status \in { "REVIEW_ACCEPTED", Target(isAcknowledged) }

\* `on` says whether the call carries a block timestamp; without one the
\* date is assigned undefined, which the children's update writes as NULL.
prePublishOrAcknowledge(it, isAcknowledged, on) ==
    [it EXCEPT !.status = Target(isAcknowledged), !.addedOn = on]

canCancelPrePublishOrAcknowledge(it, isAcknowledged) ==
    /\ it.status = Target(isAcknowledged)
    /\ ~it.addedOn

cancelPrePublishOrAcknowledge(it) == [it EXCEPT !.status = "REVIEW_ACCEPTED"]

canPreAcknowledge(it) == it.status \in { "PUBLISHED", "ACKNOWLEDGED" }

\* Seeded fault: the first acknowledgement completes the item.
preAcknowledgeByAny(it, expectVerifiedIssuer, byVerifiedIssuer, on) ==
    IF byVerifiedIssuer
    THEN [it EXCEPT !.acknowledgedByVerifiedIssuer = TRUE,
                    !.acknowledgedByVerifiedIssuerOn = on, !.status = "ACKNOWLEDGED"]
    ELSE [it EXCEPT !.acknowledgedByOwner = TRUE,
                    !.acknowledgedByOwnerOn = on, !.status = "ACKNOWLEDGED"]

preAcknowledge(it, expectVerifiedIssuer, byVerifiedIssuer, on) ==
    LET acked == IF byVerifiedIssuer
                 THEN [it EXCEPT !.acknowledgedByVerifiedIssuer = TRUE,
                                 !.acknowledgedByVerifiedIssuerOn = on]
                 ELSE [it EXCEPT !.acknowledgedByOwner = TRUE,
                                 !.acknowledgedByOwnerOn = on]
        complete == /\ acked.acknowledgedByOwner
                    /\ expectVerifiedIssuer => acked.acknowledgedByVerifiedIssuer
    IN  [acked EXCEPT !.status = IF complete THEN "ACKNOWLEDGED" ELSE @]

canCancelPreAcknowledge(it) ==
    /\ it.status = "ACKNOWLEDGED"
    /\ ~it.acknowledgedByVerifiedIssuerOn
    /\ ~it.acknowledgedByOwnerOn

cancelPreAcknowledge(it, byVerifiedIssuer) ==
    [it EXCEPT
        !.acknowledgedByVerifiedIssuer = @ /\ ~byVerifiedIssuer,
        !.acknowledgedByOwner          = @ /\ byVerifiedIssuer,
        !.status                       = "PUBLISHED"]

isAcknowledgedOnChain(it, expectVerifiedIssuer) ==
    /\ it.status = "ACKNOWLEDGED"
    /\ it.acknowledgedByOwnerOn
    /\ expectVerifiedIssuer => it.acknowledgedByVerifiedIssuerOn

isPublishedOnChain(it) == it.status = "PUBLISHED" /\ it.addedOn

\* Seeded fault: the extrinsic publishes the item whatever its review.
setAddedOnAndPublish(it) ==
    [it EXCEPT !.addedOn = TRUE,
               !.status  = IF @ = "ACKNOWLEDGED" THEN @ ELSE "PUBLISHED"]

setAddedOn(it) ==
    [it EXCEPT !.addedOn = TRUE,
               !.status  = IF @ = "REVIEW_ACCEPTED" THEN "PUBLISHED" ELSE @]
=============================================================================

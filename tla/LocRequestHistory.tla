------------------------- MODULE LocRequestHistory -------------------------
(***************************************************************************)
(* LocRequest with one history variable: the items whose publication was   *)
(* confirmed, i.e. whose addedOn an extrinsic set since they were added.   *)
(***************************************************************************)
EXTENDS LocRequest

VARIABLE confirmed

HInit == Init /\ confirmed = {}

HNext ==
    /\ Next
    /\ confirmed' = { i \in Items : /\ items'[i].status # "ABSENT"
                                    /\ i \in confirmed \/ items'[i].addedOn }

HSpec == HInit /\ [][HNext]_<< vars, confirmed >>

\* "Cannot cancel, published/acknowledged": the code refuses to cancel the
\* publication of a confirmed item.  It is the date that tells, and a late or
\* repeated announcement (prePublishOrAcknowledge without a date) clears it.
ConfirmedNotCancelled ==
    [][\A i \in confirmed :
         items[i].status \in { "PUBLISHED", "ACKNOWLEDGED" }
            => items'[i].status # "REVIEW_ACCEPTED"]_<< vars, confirmed >>
=============================================================================

---------------------------- MODULE MCLocRequest ----------------------------
(***************************************************************************)
(* Instances of LocRequest for TLC.                                        *)
(***************************************************************************)
EXTENDS LocRequest

\* The contents are a file, a metadata item and a link.  An instance has two of
\* them, the file and the one that another account holds, in these casts: a
\* Polkadot and a non-Polkadot requester, every role on the file with either,
\* and on the other content.
Cast(p, ofFile, Other, ofOther) ==
    /\ polkadot = p
    /\ submitter = [i \in Items |-> IF i \in Other THEN ofOther ELSE ofFile]

TwoItemsInit ==
    /\ Init
    /\ \/ Cast(TRUE,  "REQUESTER", Links, "ISSUER")
       \/ Cast(TRUE,  "ISSUER", Links, "REQUESTER")
       \/ Cast(TRUE,  "OWNER", Metadata, "ISSUER")
       \/ Cast(FALSE, "OWNER", Metadata, "ISSUER")
       \/ Cast(FALSE, "REQUESTER", Links, "OWNER")
       \/ Cast(FALSE, "ISSUER", Metadata, "REQUESTER")

TwoItemsSpec == TwoItemsInit /\ [][Next]_vars

Unused(i) == items[i] = Absent /\ i \notin chain.items

\* The content that nobody else holds is never used.
TwoContents ==
    \A i \in Items \ Files : (\E f \in Files : submitter[i] = submitter[f]) => Unused(i)

\* The whole feed for one content, one extrinsic at a time once there are two.
FeedBound == Len(feed) > 1 => \A i \in Items \ Files : Unused(i)
=============================================================================

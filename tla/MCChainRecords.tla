--------------------------- MODULE MCChainRecords ---------------------------
(***************************************************************************)
(* Instance of ChainRecords for TLC.                                       *)
(***************************************************************************)
EXTENDS ChainRecords, TLC

Symmetry == Permutations(Officers) \union Permutations(Accounts \ Officers)

Calls(e) == { e.call } \union (IF e.call.section = "utility" /\ e.call.method = "batchAll"
                               THEN ToSet(e.call.calls) ELSE {})

About(section) == \A b \in DOMAIN blocks : \A c \in Calls(blocks[b]) : c.section \in { section, "utility" }

Special == { b \in DOMAIN blocks : blocks[b].call.section = "utility" \/ blocks[b].failure # "none" }

\* The behaviours that are not about charges are about votes or about issuers,
\* with one batch or failure.
Bound ==
    /\ Cardinality(Special) <= 1
    /\ \/ Len(blocks) <= 1
       \/ About("vote")
       \/ About("logionLoc")
=============================================================================

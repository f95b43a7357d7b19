-------------------------- MODULE MCSecretRecovery --------------------------
(***************************************************************************)
(* Instance of SecretRecovery for TLC.                                     *)
(***************************************************************************)
EXTENDS SecretRecovery, TLC

Symmetry ==
    Permutations(Sessions) \union Permutations(Clients)

\* Several or void LOCs, verification and secrets are not mixed in a behaviour:
\* the last two are about one LOC that is not void, and do not meet.  Once it
\* has had a secret, the LOC is closed, open again, or deleted.
Several  == \/ Cardinality({ l \in Locs : loc[l].status # "NONE" }) > 1
            \/ \E l \in Locs : loc[l].reason \/ loc[l].voidedOn
Verified == \/ \E s \in Sessions : session[s].loc # None
            \/ \E c \in Clients : client[c].at = "token"

Bound ==
    /\ ~(Several /\ Verified)
    /\ values > 0 =>
          /\ ~Several /\ ~Verified
          /\ \A c \in Clients : client[c].at # "insert"
          /\ \A l \in Locs : loc[l].status \in { "NONE", "OPEN", "CLOSED", "DELETED" }
    /\ Verified => \A c \in Clients : client[c].at # "insert"
=============================================================================

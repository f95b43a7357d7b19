---------------------------- MODULE MCCollection ----------------------------
(***************************************************************************)
(* Instances of Collection for TLC.                                        *)
(***************************************************************************)
EXTENDS Collection

CONSTANT Record

\* Two items, which compete for the last place; or an item and a tokens record.
ItemsOrBothInit == Init /\ records \in { {}, { Record } }

ItemsOrBothSpec == ItemsOrBothInit /\ [][Next]_vars /\ WF_vars(SyncStep)
=============================================================================

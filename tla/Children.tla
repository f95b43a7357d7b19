------------------------------ MODULE Children ------------------------------
(***************************************************************************)
(* The indexed children of one LOC (its files, its metadata or its links): *)
(* the array of a loaded root, and the rows that saving it leaves.         *)
(*                                                                         *)
(* A transaction loads the root, changes its array and flags the children  *)
(* that have to be written, then writes them one statement after another.  *)
(* The table has a unique constraint on the index, which the database      *)
(* checks at every statement: while indexes are shifted, no two rows may   *)
(* have the same one.  A transaction that throws leaves nothing: a root is *)
(* loaded again by the next one, from rows that are those of the array.    *)
(***************************************************************************)
EXTENDS Integers, FiniteSets

CONSTANT Keys  \* what may identify a child: the hash, name or target

VARIABLES
    children,  \* the keys in the array
    index,     \* the index of a key, in the array
    toAdd, toUpdate, toDelete,
    stored,    \* the keys of the rows
    row,       \* the index of a key, in its row
    saving     \* are statements being executed?

vars == << children, index, toAdd, toUpdate, toDelete, stored, row, saving >>

Init ==
    /\ children = {} /\ stored = {}
    /\ index = [k \in Keys |-> 0] /\ row = [k \in Keys |-> 0]
    /\ toAdd = {} /\ toUpdate = {} /\ toDelete = {}
    /\ saving = FALSE

-----------------------------------------------------------------------------
(***************************************************************************)
(* Changes of the array.                                                   *)
(***************************************************************************)

\* addFile, addMetadataItem, addLink: the length of the array is the index
addChild(k) ==
    /\ ~saving
    /\ k \notin children
    /\ children' = children \union { k }
    /\ index' = [index EXCEPT ![k] = Cardinality(children)]
    /\ toAdd' = toAdd \union { k }
    /\ UNCHANGED << toUpdate, toDelete, stored, row, saving >>

\* whatever changes a column of a child
updateChild(k) ==
    /\ ~saving
    /\ k \in children
    /\ toUpdate' = toUpdate \union { k }
    /\ UNCHANGED << children, index, toAdd, toDelete, stored, row, saving >>

\* the children that were behind the deleted one
reindexed(dbIndex) == { k \in children : index[k] > dbIndex }

reindexChildren(dbIndex) ==
    index' = [k \in Keys |-> IF k \in reindexed(dbIndex) THEN index[k] - 1 ELSE index[k]]

\* Flags are those of the object: they leave the array with it.
deleteChild(k) ==
    /\ toDelete' = toDelete \union { k }
    /\ children' = children \ { k }
    /\ toAdd' = toAdd \ { k }

deleteIndexedChild(k) ==
    /\ ~saving
    /\ k \in children
    /\ deleteChild(k)
    /\ reindexChildren(index[k])
    /\ toUpdate' = (toUpdate \union reindexed(index[k])) \ { k }
    /\ UNCHANGED << stored, row, saving >>

-----------------------------------------------------------------------------
(***************************************************************************)
(* Saving.                                                                 *)
(***************************************************************************)

toWrite == toAdd \union toUpdate

save ==
    /\ ~saving
    /\ saving' = TRUE
    /\ UNCHANGED << children, index, toAdd, toUpdate, toDelete, stored, row >>

\* deletions first
deleteRow(k) ==
    /\ saving
    /\ k \in toDelete
    /\ toDelete' = toDelete \ { k }
    /\ stored' = stored \ { k }
    /\ UNCHANGED << children, index, toAdd, toUpdate, row, saving >>

\* saveIndexedChildren: the children in the order of their indexes
isNext(k) == k \in toWrite /\ \A other \in toWrite : index[k] <= index[other]

\* an INSERT, or an UPDATE
writeRow(k) ==
    /\ saving
    /\ toDelete = {}
    /\ isNext(k)
    /\ row' = [row EXCEPT ![k] = index[k]]
    /\ stored' = stored \union { k }
    /\ toAdd' = toAdd \ { k }
    /\ toUpdate' = toUpdate \ { k }
    /\ UNCHANGED << children, index, toDelete, saving >>

commit ==
    /\ saving
    /\ toDelete = {} /\ toWrite = {}
    /\ saving' = FALSE
    /\ UNCHANGED << children, index, toAdd, toUpdate, toDelete, stored, row >>

Next ==
    \/ \E k \in Keys :
          \/ addChild(k) \/ updateChild(k) \/ deleteIndexedChild(k)
          \/ deleteRow(k) \/ writeRow(k)
    \/ save \/ commit

Spec == Init /\ [][Next]_vars

-----------------------------------------------------------------------------
(***************************************************************************)
(* Properties                                                              *)
(***************************************************************************)

\* No statement breaks @Unique(["requestId", "index"]): whatever was added and
\* deleted, no two rows have the same index, between any two statements.
RowsAreUnique ==
    \A k, other \in stored : row[k] = row[other] => k = other

\* Indexes are the positions in the array: 0, 1, ... without a hole, so that
\* its length is a free index.
IndexesArePositions ==
    /\ \A k \in children : index[k] \in 0 .. Cardinality(children) - 1
    /\ \A k, other \in children : index[k] = index[other] => k = other

\* What a transaction leaves: the rows are the children, with their indexes.
SavedAsLeft ==
    ~saving /\ toWrite = {} /\ toDelete = {} =>
        stored = children /\ \A k \in children : row[k] = index[k]
=============================================================================

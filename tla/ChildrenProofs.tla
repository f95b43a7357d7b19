--------------------------- MODULE ChildrenProofs ---------------------------
(***************************************************************************)
(* No statement of a transaction breaks the unique constraint on indexes,  *)
(* for any keys and any sequence of additions and deletions.  While rows   *)
(* are written, those still to be written have an index that is at least   *)
(* that of their child: since the first child is written first, the index  *)
(* that it takes is free.                                                  *)
(***************************************************************************)
EXTENDS Children, FiniteSetTheorems, TLAPS

Typed ==
    /\ children \subseteq Keys /\ IsFiniteSet(children)
    /\ index \in [Keys -> Int] /\ row \in [Keys -> Int]
    /\ toAdd \subseteq children /\ toUpdate \subseteq children
    /\ toDelete \subseteq Keys /\ stored \subseteq Keys
    /\ saving \in BOOLEAN

\* the rows that stay are those of the children that are not to be added
RowsOfChildren == stored \ toDelete = children \ toAdd

\* a row has the index of its child, or a greater one that is to be written
RowsBehind ==
    /\ \A k \in children \ toAdd : index[k] <= row[k]
    /\ \A k \in children \ toWrite : index[k] = row[k]

Inv == Typed /\ RowsOfChildren /\ RowsBehind /\ IndexesArePositions /\ RowsAreUnique

LEMMA InitInv == Init => Inv
<1> SUFFICES ASSUME Init PROVE Inv
  OBVIOUS
<1>1. Typed
  <2>1. IsFiniteSet(children)
    BY FS_EmptySet DEF Init
  <2>2. index \in [Keys -> Int] /\ row \in [Keys -> Int]
    BY DEF Init
  <2>3. /\ children \subseteq Keys /\ toAdd \subseteq children /\ toUpdate \subseteq children
        /\ toDelete \subseteq Keys /\ stored \subseteq Keys
        /\ saving \in BOOLEAN
    BY DEF Init
  <2> QED
    BY <2>1, <2>2, <2>3 DEF Typed
<1> QED
  BY <1>1 DEF Init, Inv, RowsOfChildren, RowsBehind, IndexesArePositions, RowsAreUnique,
              toWrite

\* The new child is the last one, and has no row that stays.
LEMMA AddKeepsInv ==
    ASSUME Inv, NEW k \in Keys, addChild(k)
    PROVE  Inv'
<1> DEFINE n == Cardinality(children)
<1>1. /\ IsFiniteSet(children')
      /\ Cardinality(children') = n + 1
      /\ n \in Nat
  BY FS_AddElement, FS_CardinalityType DEF Inv, Typed, addChild
<1>2. \A other \in children : index[other] \in 0 .. n - 1
  BY DEF Inv, IndexesArePositions
<1> HIDE DEF n
<1>3. index' = [index EXCEPT ![k] = n]
  BY DEF addChild, n
<1>4. Typed'
  BY <1>1, <1>3 DEF Inv, Typed, addChild
<1>5. RowsOfChildren'
  BY DEF Inv, RowsOfChildren, Typed, addChild
<1>6. RowsBehind'
  BY <1>3 DEF Inv, RowsBehind, Typed, addChild, toWrite
<1>7. IndexesArePositions'
  <2>1. \A other \in children : index'[other] = index[other] /\ index'[other] # n
    BY <1>1, <1>2, <1>3 DEF Inv, Typed, addChild
  <2>2. index'[k] = n
    BY <1>3 DEF Inv, Typed
  <2>3. \A other \in children' : index'[other] \in 0 .. (n + 1) - 1
    BY <1>1, <1>2, <2>1, <2>2 DEF addChild
  <2>4. \A x, y \in children' : index'[x] = index'[y] => x = y
    BY <2>1, <2>2 DEF Inv, IndexesArePositions, addChild
  <2> QED
    BY <1>1, <2>3, <2>4 DEF IndexesArePositions
<1>8. RowsAreUnique'
  BY DEF Inv, RowsAreUnique, addChild
<1> QED
  BY <1>4, <1>5, <1>6, <1>7, <1>8 DEF Inv

\* The children behind the deleted one move by one, and are to be written.
LEMMA DeleteKeepsInv ==
    ASSUME Inv, NEW k \in Keys, deleteIndexedChild(k)
    PROVE  Inv'
<1> DEFINE n == Cardinality(children)
<1>1. /\ IsFiniteSet(children')
      /\ Cardinality(children') = n - 1
      /\ n \in Nat
      /\ k \in children
  BY FS_RemoveElement, FS_CardinalityType
     DEF Inv, Typed, deleteIndexedChild, deleteChild
<1>2. \A other \in children : index[other] \in 0 .. n - 1
  BY DEF Inv, IndexesArePositions
<1>3. children' = children \ {k}
  BY DEF deleteIndexedChild, deleteChild
<1>4. \A other \in children' :
         index'[other] = IF index[other] > index[k] THEN index[other] - 1 ELSE index[other]
  BY <1>3 DEF Inv, Typed, deleteIndexedChild, reindexChildren, reindexed
<1> HIDE DEF n
<1>5. Typed'
  <2>1. index' \in [Keys -> Int]
    BY DEF Inv, Typed, deleteIndexedChild, reindexChildren, reindexed
  <2> QED
    BY <1>1, <2>1 DEF Inv, Typed, deleteIndexedChild, deleteChild, reindexed
<1>6. RowsOfChildren'
  BY <1>1 DEF Inv, RowsOfChildren, deleteIndexedChild, deleteChild
<1>7. RowsBehind'
  <2>1. ASSUME NEW other \in (children \ toAdd)'
        PROVE  index'[other] <= row'[other]
    <3>1. other \in children' /\ other \in children \ toAdd
      BY <1>1 DEF deleteIndexedChild, deleteChild
    <3>2. index[other] <= row[other] /\ index[other] \in Int /\ row[other] \in Int
      BY <3>1 DEF Inv, RowsBehind, Typed
    <3>3. index'[other] <= index[other] /\ index'[other] \in Int
      BY <1>4, <3>1, <3>2
    <3> QED
      BY <3>2, <3>3 DEF deleteIndexedChild
  <2>2. ASSUME NEW other \in (children \ toWrite)'
        PROVE  index'[other] = row'[other]
    <3>1. other \in children' /\ other \in children \ toWrite /\ other \notin reindexed(index[k])
      BY DEF toWrite, deleteIndexedChild, deleteChild
    <3>2. index'[other] = index[other]
      BY <1>4, <3>1 DEF reindexed
    <3> QED
      BY <3>1, <3>2 DEF Inv, RowsBehind, deleteIndexedChild
  <2> QED
    BY <2>1, <2>2 DEF RowsBehind
<1>8. IndexesArePositions'
  <2>1. \A other \in children' : index[other] \in 0 .. n - 1 /\ index[other] # index[k]
    BY <1>1, <1>2, <1>3 DEF Inv, IndexesArePositions
  <2>2. index[k] \in 0 .. n - 1
    BY <1>1, <1>2
  <2>3. \A other \in children' : index'[other] \in 0 .. (n - 1) - 1
    BY <1>1, <1>4, <2>1, <2>2
  <2>4. \A x, y \in children' : index'[x] = index'[y] => index[x] = index[y]
    BY <1>1, <1>4, <2>1, <2>2
  <2>5. \A x, y \in children' : index'[x] = index'[y] => x = y
    BY <1>3, <2>4 DEF Inv, IndexesArePositions
  <2> QED
    BY <1>1, <2>3, <2>5 DEF IndexesArePositions
<1>9. RowsAreUnique'
  BY DEF Inv, RowsAreUnique, deleteIndexedChild
<1> QED
  BY <1>5, <1>6, <1>7, <1>8, <1>9 DEF Inv

\* The index of the first child to write is that of no other row: a row that
\* is right has another index, one that is not has a greater one.
LEMMA WriteKeepsInv ==
    ASSUME Inv, NEW k \in Keys, writeRow(k)
    PROVE  Inv'
<1>1. k \in children /\ k \in toWrite
  BY DEF Inv, Typed, writeRow, isNext, toWrite
<1>2. row' = [row EXCEPT ![k] = index[k]]
  BY DEF writeRow
<1>3. Typed'
  BY <1>1 DEF Inv, Typed, writeRow
<1>4. RowsOfChildren'
  BY <1>1 DEF Inv, RowsOfChildren, writeRow
<1>5. RowsBehind'
  BY <1>1, <1>2 DEF Inv, RowsBehind, Typed, writeRow, toWrite
<1>6. IndexesArePositions'
  BY DEF Inv, IndexesArePositions, writeRow
<1>7. ASSUME NEW other \in stored, other # k
      PROVE  row[other] # index[k]
  <2>1. other \in children \ toAdd
    BY DEF Inv, RowsOfChildren, writeRow
  <2>2. index[other] # index[k] /\ index[other] <= row[other]
    BY <1>1, <1>7, <2>1 DEF Inv, IndexesArePositions, RowsBehind
  <2>3. index[other] \in Int /\ row[other] \in Int /\ index[k] \in Int
    BY DEF Inv, Typed
  <2>4. CASE other \in toWrite
    <3>1. index[k] <= index[other]
      BY <2>4 DEF writeRow, isNext
    <3> QED
      BY <2>2, <2>3, <3>1
  <2>5. CASE other \notin toWrite
    BY <2>1, <2>2, <2>5 DEF Inv, RowsBehind, toWrite
  <2> QED
    BY <2>4, <2>5
<1>8. RowsAreUnique'
  <2>1. /\ stored' = stored \union {k}
        /\ \A other \in stored : other # k => row'[other] = row[other]
        /\ row'[k] = index[k]
    BY <1>2 DEF Inv, Typed, writeRow
  <2> QED
    BY <1>7, <2>1 DEF Inv, RowsAreUnique
<1> QED
  BY <1>3, <1>4, <1>5, <1>6, <1>8 DEF Inv

LEMMA StepKeepsInv == Inv /\ [Next]_vars => Inv'
<1> SUFFICES ASSUME Inv, [Next]_vars PROVE Inv'
  OBVIOUS
<1>1. ASSUME NEW k \in Keys, addChild(k) PROVE Inv'
  BY <1>1, AddKeepsInv
<1>2. ASSUME NEW k \in Keys, updateChild(k) PROVE Inv'
  BY <1>2 DEF Inv, updateChild, Typed, RowsOfChildren, RowsBehind, IndexesArePositions,
     RowsAreUnique, toWrite
<1>3. ASSUME NEW k \in Keys, deleteIndexedChild(k) PROVE Inv'
  BY <1>3, DeleteKeepsInv
<1>4. ASSUME NEW k \in Keys, deleteRow(k) PROVE Inv'
  BY <1>4 DEF Inv, deleteRow, Typed, RowsOfChildren, RowsBehind, IndexesArePositions,
     RowsAreUnique, toWrite
<1>5. ASSUME NEW k \in Keys, writeRow(k) PROVE Inv'
  BY <1>5, WriteKeepsInv
<1>6. CASE save \/ commit \/ UNCHANGED vars
  BY <1>6 DEF Inv, save, commit, vars, Typed, RowsOfChildren, RowsBehind,
              IndexesArePositions,
     RowsAreUnique, toWrite
<1> QED
  BY <1>1, <1>2, <1>3, <1>4, <1>5, <1>6 DEF Next

\* The inductive invariant: rows are behind their children at most.
THEOREM Invariance == Spec => []Inv
<1> QED
  BY InitInv, StepKeepsInv, PTL DEF Spec

\* No two rows ever have the same index, between any two statements
\* (saveChildren, deleteIndexedChild).
THEOREM RowsUnique == Spec => []RowsAreUnique
<1>1. Inv => RowsAreUnique
  BY DEF Inv
<1> QED
  BY Invariance, <1>1, PTL

\* The indexes of the array have no hole (addFile, reindexChildren).
THEOREM Positions == Spec => []IndexesArePositions
<1>1. Inv => IndexesArePositions
  BY DEF Inv
<1> QED
  BY Invariance, <1>1, PTL

\* Between two transactions the rows are the children, with their indexes
\* (LocRequestRepository.save).
THEOREM Saved == Spec => []SavedAsLeft
<1>1. Inv => SavedAsLeft
  BY DEF Inv, Typed, RowsOfChildren, RowsBehind, SavedAsLeft, toWrite
<1> QED
  BY Invariance, <1>1, PTL
=============================================================================

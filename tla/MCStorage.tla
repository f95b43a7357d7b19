------------------------------ MODULE MCStorage ------------------------------
(***************************************************************************)
(* Instances of Storage for TLC.                                           *)
(***************************************************************************)
EXTENDS Storage, TLC

Symmetry == Permutations(Clients)

\* States that differ only in what will be overwritten before it is read count
\* as one: what an ended request was about, the writer and the reader when no
\* request is using them, the temporary files of no request (but the clear one
\* of a legal officer, which a download that exports nothing sends).
at(steps, c) == pc[c] \in steps
downloads    == { c \in Clients : at(Downloading, c) }

View ==
    << size, pc, row, stored, delivered,
       [c \in Clients |-> IF pc[c] = "idle" THEN NoJob ELSE job[c]],
       [c \in Clients |-> IF pc[c] = "idle" THEN {} ELSE met[c]],
       IF \E c \in Clients : at(Writing \union { "pin" }, c) THEN << writer, enc >> ELSE <<>>,
       IF \E c \in Clients : at(Reading, c) THEN dec ELSE <<>>,
       [c \in downloads |-> << fetched[pathOf(c)], clear[pathOf(c)] >>],
       [f \in LoFiles |-> clear[tempFilePath(f, "SOURCE")]] >>

\* All contents of one size.
OneSizeInit == Init /\ \A f, g \in Files : size[f] = size[g]

OneSizeSpec == OneSizeInit /\ [][Next]_vars

\* One recorded delivery, and none once a second content was stored.  Uploads
\* and removals of different files overlap; downloads overlap downloads on their
\* own path and removals of their own file, and do not meet the writer, with
\* which the reader shares nothing.  Files of legal officers are by themselves,
\* and those of records, which are handled like those of items, are the matter
\* of one request at a time.
Touched ==
    { stored[id].of : id \in { i \in DOMAIN stored : stored[i] # Gone } } \union
    { job[c].file : c \in { d \in Clients : pc[d] # "idle" } }

Bound ==
    /\ Cardinality(delivered) <= (IF Len(stored) > 1 THEN 0 ELSE 1)
    /\ downloads # {} =>
          \/ Touched \subseteq LoFiles
          \/ /\ Cardinality(Touched) = 1 /\ Len(stored) = 1
             /\ ~\E c \in Clients : at(Writing \union { "pin" }, c)
    /\ Cardinality({ pathOf(c) : c \in downloads }) <= 1
    /\ Cardinality(Touched) > 1 \/ Cardinality(downloads) > 1 =>
          \A f \in Files : size[f] = MaxBlocks
    /\ Touched \intersect RecordFiles # {} =>
          /\ Cardinality(Touched) = 1
          /\ Cardinality({ c \in Clients : pc[c] # "idle" }) <= 1
    /\ Touched \subseteq LoFiles \/ Touched \intersect LoFiles = {}
=============================================================================

----------------------------- MODULE Collection -----------------------------
(***************************************************************************)
(* The entries of one collection LOC: its collection items and its tokens  *)
(* records, which share one lifecycle.  An entry is submitted to the back  *)
(* end, published on chain, then confirmed by the synchronizer; its files  *)
(* are uploaded once it is on chain, and copies of them are delivered.     *)
(*                                                                         *)
(* The handlers of the REST API are not transactions here: they ask the    *)
(* database and the node, await the answers, perhaps move a file, and only *)
(* then open a transaction.  A request is therefore a process of its own,  *)
(* and what it read may be stale by the time it writes.  Transactions      *)
(* themselves serialise.                                                   *)
(***************************************************************************)
EXTENDS Integers, FiniteSets, Sequences

CONSTANTS
    Entries,     \* the identifiers (hashes) of entries
    Files,       \* the hashes of files
    Clients,     \* the requests that may be served at the same time
    NoCid,       \* the cid of a file that is not uploaded
    MaxSize,     \* the limit of a collection that has one
    MaxCrashes   \* bound on the interruptions of the synchronizer

ASSUME ConstantsAssumption ==
    /\ IsFiniteSet(Entries)
    /\ IsFiniteSet(Clients) /\ Clients # {}
    /\ NoCid \notin Clients
    /\ MaxSize \in Nat
    /\ MaxCrashes \in Nat

VARIABLES
    limited, canUpload,  \* has the collection a limit, do its items have files?
    records,     \* the entries that are tokens records, the others being items
    row,         \* the rows of the entries, or Absent
    chain,       \* the files of the entries in the pallet's storage, or Unpublished
    client,      \* what every request is about to write, or Idle
    feed, pos,   \* the entries published ahead of the sync point; how many were applied
    crashes

vars == << limited, canUpload, records, row, chain, client, feed, pos, crashes >>
\* what never changes
columns  == << limited, canUpload, records >>
syncVars == << feed, pos, crashes >>

Absent      == [present |-> FALSE]
Unpublished == [published |-> FALSE]
Idle        == [doing |-> "NOTHING"]

\* The cid of an uploaded file stands for the content that was moved to IPFS:
\* it differs for every request, since files are encrypted with a fresh salt.
File == [cid : Clients \union { NoCid }, delivered : BOOLEAN]
NewFile == [cid |-> NoCid, delivered |-> FALSE]

Row == [ present : { TRUE },
         addedOn : BOOLEAN,
         files   : UNION { [S -> File] : S \in SUBSET Files } ]

Init ==
    /\ limited \in BOOLEAN
    /\ canUpload \in BOOLEAN
    /\ records \in SUBSET Entries
    /\ row = [e \in Entries |-> Absent]
    /\ chain = [e \in Entries |-> Unpublished]
    /\ client = [c \in Clients |-> Idle]
    /\ feed = <<>>
    /\ pos = 0
    /\ crashes = 0

Submitted  == { e \in Entries : row[e] # Absent }
Published  == { e \in Entries : chain[e] # Unpublished }
filesOf(e) == DOMAIN row[e].files

-----------------------------------------------------------------------------
(***************************************************************************)
(* Requests.  `awaits` ends the part of a handler that only reads; what it *)
(* read and will use afterwards is all that is kept of it.                 *)
(***************************************************************************)

awaits(c, from, to) ==
    /\ client[c] = from
    /\ client' = [client EXCEPT ![c] = to]
    /\ UNCHANGED << columns, row, chain, syncVars >>

\* the transaction that ends a request
writes(c, e, newRow) ==
    /\ client' = [client EXCEPT ![c] = Idle]
    /\ row' = [row EXCEPT ![e] = newRow]
    /\ UNCHANGED << columns, chain, syncVars >>

\* An exception, a connection or the process that dies: nothing is written.
fails(c) ==
    /\ client[c] # Idle
    /\ client' = [client EXCEPT ![c] = Idle]
    /\ UNCHANGED << columns, row, chain, syncVars >>

countBy == Cardinality(Submitted \ records)

\* A collection without a limit has null in the column, not undefined, and
\* null compares as zero.
limit == IF limited THEN MaxSize ELSE 0

\* Seeded fault: off by one.
tooManyItemsAfter == countBy > limit

tooManyItems == countBy >= limit

\* submitItemPublicData: its checks
submit(c, e, files) ==
    /\ e \notin Submitted
    /\ e \notin records => /\ files = {} \/ canUpload
                           /\ ~tooManyItems
    /\ awaits(c, Idle, [doing |-> "SUBMIT", entry |-> e, files |-> files])

\* addCollectionItem, addTokensRecord
addEntry(c) ==
    /\ client[c].doing = "SUBMIT"
    /\ client[c].entry \notin Submitted
    /\ writes(c, client[c].entry,
              [ present |-> TRUE, addedOn |-> FALSE,
                files |-> [f \in client[c].files |-> NewFile] ])

\* cancelItem, cancelRecord: the node is asked first,
cancel(c, e) ==
    /\ e \notin Published
    /\ awaits(c, Idle, [doing |-> "CANCEL", entry |-> e])

\* then the row is read,
findEntry(c) ==
    /\ client[c].doing = "CANCEL"
    /\ client[c].entry \in Submitted
    /\ awaits(c, client[c], [ doing   |-> "DELETE", entry |-> client[c].entry,
                              addedOn |-> row[client[c].entry].addedOn ])

\* and whatever row the entry has by then is deleted.
deleteEntry(c) ==
    /\ client[c].doing = "DELETE"
    /\ ~client[c].addedOn
    /\ writes(c, client[c].entry, Absent)

uploaded(e, f) == row[e].files[f].cid # NoCid

publishedFile(e, f) ==
    /\ e \in Published /\ f \in chain[e].files
    /\ e \in Submitted /\ f \in filesOf(e)

\* Seeded fault: a file may be uploaded before its entry is published.
uploadUnpublished(c, e, f) ==
    /\ e \in Submitted /\ f \in filesOf(e)
    /\ ~uploaded(e, f)
    /\ awaits(c, Idle, [doing |-> "UPLOAD", entry |-> e, file |-> f])

\* uploadFile up to the end of importFile
upload(c, e, f) ==
    /\ publishedFile(e, f)
    /\ ~uploaded(e, f)
    /\ awaits(c, Idle, [doing |-> "UPLOAD", entry |-> e, file |-> f])

\* Seeded fault: a second upload replaces the first one.
setFileCidAgain(c) ==
    LET e == client[c].entry  f == client[c].file
    IN  /\ client[c].doing = "UPLOAD"
        /\ e \in Submitted /\ filesOf(e) = { f }
        /\ writes(c, e, [row[e] EXCEPT !.files[f].cid = c])

\* The where-clause of the update names the entry, not the file, and its values
\* include the hash: with a second file the primary key is violated.
setFileCid(c) ==
    LET e == client[c].entry  f == client[c].file
    IN  /\ client[c].doing = "UPLOAD"
        /\ e \in Submitted /\ filesOf(e) = { f }
        /\ ~uploaded(e, f)
        /\ writes(c, e, [row[e] EXCEPT !.files[f].cid = c])

\* downloadItemFile up to the hash of the copy; restricted delivery and the
\* ownership of the token are left to the requester.
download(c, e, f) ==
    /\ publishedFile(e, f)
    /\ uploaded(e, f)
    /\ awaits(c, Idle, [doing |-> "DOWNLOAD", entry |-> e, file |-> f])

addDeliveredFile(c) ==
    LET e == client[c].entry  f == client[c].file
    IN  /\ client[c].doing = "DOWNLOAD"
        /\ e \in Submitted /\ f \in filesOf(e)
        /\ writes(c, e, [row[e] EXCEPT !.files[f].delivered = TRUE])

-----------------------------------------------------------------------------
(***************************************************************************)
(* The chain (external), and the synchronizer.                             *)
(***************************************************************************)

\* addCollectionItem and addTokensRecord, submitted here before or not
publish(e, files) ==
    /\ e \notin Published
    /\ chain' = [chain EXCEPT ![e] = [published |-> TRUE, files |-> files]]
    /\ feed' = Append(feed, e)
    /\ UNCHANGED << columns, row, client, pos, crashes >>

unapplied == pos < Len(feed)
next      == feed[pos + 1]

\* Seeded fault: an entry is only confirmed with its files.
confirmUploaded ==
    /\ unapplied
    /\ next \in Submitted
    /\ ~row[next].addedOn
    /\ \A f \in filesOf(next) : uploaded(next, f)
    /\ row' = [row EXCEPT ![next].addedOn = TRUE]
    /\ pos' = pos + 1
    /\ UNCHANGED << columns, chain, client, feed, crashes >>

\* LocSynchronizer.addCollectionItem, addTokensRecord
confirm ==
    /\ unapplied
    /\ next \in Submitted
    /\ ~row[next].addedOn
    /\ row' = [row EXCEPT ![next].addedOn = TRUE]
    /\ pos' = pos + 1
    /\ UNCHANGED << columns, chain, client, feed, crashes >>

\* The next extrinsic throws: its entry is not there, or "Already confirmed".
Blocked == unapplied /\ (next \in Submitted => row[next].addedOn)

\* Seeded fault: the position in the batch survives the batch.
moveSyncPointOnly ==
    /\ pos > 0
    /\ feed' = SubSeq(feed, pos + 1, Len(feed))
    /\ UNCHANGED << columns, row, chain, client, pos, crashes >>

\* A batch ends: BlockConsumer.sync.
moveSyncPoint ==
    /\ pos > 0
    /\ feed' = SubSeq(feed, pos + 1, Len(feed))
    /\ pos' = 0
    /\ UNCHANGED << columns, row, chain, client, crashes >>

\* An exception drops the job: the next one starts over from the sync point.
startOver ==
    /\ pos > 0
    /\ Blocked
    /\ pos' = 0
    /\ UNCHANGED << columns, row, chain, client, feed, crashes >>

\* So does an interruption.
crash ==
    /\ pos > 0
    /\ crashes < MaxCrashes
    /\ crashes' = crashes + 1
    /\ pos' = 0
    /\ UNCHANGED << columns, row, chain, client, feed >>

-----------------------------------------------------------------------------
Request(c) ==
    \/ \E e \in Entries :
          \/ \E files \in SUBSET Files : submit(c, e, files)
          \/ cancel(c, e)
          \/ \E f \in Files : upload(c, e, f) \/ download(c, e, f)
    \/ addEntry(c) \/ findEntry(c) \/ deleteEntry(c)
    \/ setFileCid(c) \/ addDeliveredFile(c) \/ fails(c)

SyncStep == confirm \/ moveSyncPoint

Next ==
    \/ \E c \in Clients : Request(c)
    \/ \E e \in Entries, files \in SUBSET Files : publish(e, files)
    \/ SyncStep \/ startOver \/ crash

\* The block consumer retries until it succeeds (module BlockConsumer).
Spec == Init /\ [][Next]_vars /\ WF_vars(SyncStep)

-----------------------------------------------------------------------------
(***************************************************************************)
(* Properties.                                                             *)
(***************************************************************************)

Pending == [doing : { "SUBMIT" }, entry : Entries, files : SUBSET Files]
    \union [doing : { "CANCEL" }, entry : Entries]
    \union [doing : { "DELETE" }, entry : Entries, addedOn : BOOLEAN]
    \union [doing : { "UPLOAD", "DOWNLOAD" }, entry : Entries, file : Files]

\* Every variable has its type.
TypeOK ==
    /\ limited \in BOOLEAN
    /\ canUpload \in BOOLEAN
    /\ records \in SUBSET Entries
    /\ row \in [Entries -> Row \union { Absent }]
    /\ chain \in [Entries -> [published : { TRUE }, files : SUBSET Files] \union { Unpublished }]
    /\ client \in [Clients -> Pending \union { Idle }]
    /\ feed \in Seq(Entries)
    /\ pos \in 0 .. Len(feed)
    /\ crashes \in 0 .. MaxCrashes

Admitted == { c \in Clients : client[c].doing = "SUBMIT" /\ client[c].entry \notin records }

\* The size of the collection is counted before the transaction that adds an
\* item, so the limit can be passed; but never by more than the requests that
\* may be served besides the one that finds the last free place.
SizeBounded ==
    countBy + Cardinality(Admitted) <= limit + Cardinality(Clients) - 1

\* Whatever uploads, cancellations and new submissions overlap, a file has a
\* content, and copies are delivered, only of what is published on chain.
ContentOfPublishedFiles ==
    \A e \in Submitted : \A f \in filesOf(e) :
        uploaded(e, f) \/ row[e].files[f].delivered
            => e \in Published /\ f \in chain[e].files

\* Of several uploads of a file at the same time one wins: its content is never
\* replaced by another as long as the entry is there.
UploadedOnce ==
    [][\A e \in Submitted : \A f \in filesOf(e) :
          uploaded(e, f) /\ row'[e] # Absent => row'[e].files[f].cid = row[e].files[f].cid]_vars

\* The synchronizer gets to the end of what was published, unless it is stopped
\* for good by an entry that was never submitted here or that it confirmed
\* before it was interrupted.
EventuallySynchronized == <>[](feed = <<>> \/ Blocked)

-----------------------------------------------------------------------------
\* "Cannot delete already published item": a confirmed entry is not deleted.
\* It is when it was read before it was published.
ConfirmedNotDeleted ==
    [][\A e \in Submitted : row[e].addedOn => row'[e] # Absent]_vars
=============================================================================

------------------------------- MODULE Storage -------------------------------
(***************************************************************************)
(* The contents of files, from the upload to the copies sent to clients.   *)
(*                                                                         *)
(* Files of LOCs and of collection entries are encrypted and pinned in     *)
(* IPFS, those of legal officers are large objects of the database.  A row *)
(* keeps the identifier of the content.  A download writes the content to  *)
(* a temporary path that does not depend on the request, marks it with its *)
(* new owner and records its hash when it is a restricted delivery, sends  *)
(* the path, and removes it.  Transactions on rows are atomic, everything  *)
(* else is not: requests interleave, and the process may stop anywhere.    *)
(*                                                                         *)
(* An item or a record has one file here: Collection tells what becomes of *)
(* the others.                                                             *)
(***************************************************************************)
EXTENDS EncryptedFile

CONSTANTS
    ItemFiles,   \* files of collection items
    RecordFiles, \* files of tokens records
    LocFiles,    \* files of LOCs
    LoFiles,     \* files of legal officers
    Absent,      \* the row that does not exist
    Exif,        \* those of a type that can be marked with its owner
    MaxImports   \* bound on the contents ever stored

\* None stands for a path without a file, which is told from every file on a path.
ASSUME StorageAssumption ==
    /\ ItemFiles \union RecordFiles \union LocFiles \union LoFiles = Files
    /\ ItemFiles \intersect RecordFiles = {}
    /\ LocFiles \intersect (ItemFiles \union RecordFiles) = {}
    /\ LoFiles \intersect (ItemFiles \union RecordFiles \union LocFiles) = {}
    /\ MaxImports \in Nat
    /\ None \notin Nat /\ Absent \notin Nat
    /\ None \notin [ blocks : Seq([ part : { "body", "last" }, by : { None }, of : Files ]),
                     owner : Clients \union { None } ]

VARIABLES
    row,       \* the cid or oid of every file, None, or Absent without a row
    stored,    \* what IPFS and the database keep under the identifiers used so far
    job,       \* what every request is about
    fetched,   \* the encrypted temporary files of downloads, by path, or None
    clear,     \* the temporary files that are sent, by path, or None
    delivered  \* the recorded deliveries

vars == << size, pc, writer, enc, dec, met,
           row, stored, job, fetched, clear, delivered >>
rest == << size, row, stored, job, fetched, clear, delivered >>

Gone   == [pinned |-> FALSE]
Ids    == 1 .. MaxImports

\* the cid or oid column, of a row that is there without content, or not there
FileRow == Ids \union { None, Absent }

NoJob  == [kind |-> "NONE", file |-> None, id |-> None, copy |-> None]

EntryFiles == ItemFiles \union RecordFiles
Kinds      == { "DELIVERY", "SOURCE" }
Paths      == Files \X Kinds

\* A file of an item or of a record has one path; one of a LOC has another one
\* for the owners of the token of an item (there is one item).
tempFilePath(f, kind) == << f, IF f \in EntryFiles THEN "DELIVERY" ELSE kind >>
pathOf(c) == tempFilePath(job[c].file, job[c].kind)

\* what is on a path: a clear content, and the owner it is marked with
Copy(blocks, owner) == [blocks |-> blocks, owner |-> owner]

Init ==
    /\ FileInit
    /\ row = [f \in Files |-> IF f \in EntryFiles THEN None ELSE Absent]
    /\ stored = <<>>
    /\ job = [c \in Clients |-> NoJob]
    /\ fetched = [p \in Paths |-> None]
    /\ clear = [p \in Paths |-> None]
    /\ delivered = {}

IsStored(id) == id \in DOMAIN stored /\ stored[id] # Gone

-----------------------------------------------------------------------------
(***************************************************************************)
(* Steps of requests.                                                      *)
(***************************************************************************)

starts(c, step, kind, f, id) ==
    /\ goto(c, "idle", step)
    /\ job' = [job EXCEPT ![c] = [kind |-> kind, file |-> f, id |-> id, copy |-> None]]
    /\ UNCHANGED << fileVars, size, row, stored, fetched, clear, delivered >>

\* An exception ends a request, without any cleaning.
fails(c) ==
    /\ \/ writerThrows(c)
       \/ readerThrows(c)
       \/ pc[c] = "readOpen" /\ fetched[pathOf(c)] = None
       \/ pc[c] \in { "mark", "hash" } /\ clear[pathOf(c)] = None
       \/ pc[c] = "fetch" /\ ~IsStored(job[c].id) /\ job[c].file \notin LoFiles
       \/ pc[c] = "record" /\ job[c].file \in LocFiles
    /\ pc' = [pc EXCEPT ![c] = "idle"]
    /\ UNCHANGED << fileVars, met, rest >>

\* The process stops and is started again: only the temporary files remain.
crash ==
    /\ \E c \in Clients : pc[c] # "idle"
    /\ pc' = [c \in Clients |-> "idle"]
    /\ writer' = [file |-> None, cipher |-> None]
    /\ enc' = [c \in Clients |-> NotWriting]
    /\ dec' = [c \in Clients |-> NotReading]
    /\ met' = [c \in Clients |-> {}]
    /\ job' = [c \in Clients |-> NoJob]
    /\ UNCHANGED << size, row, stored, fetched, clear, delivered >>

keepsFiles == UNCHANGED << fileVars, met >>

\* a transaction on the row of the file, then the next step
commits(c, from, to, f, value) ==
    /\ goto(c, from, to)
    /\ row' = [row EXCEPT ![f] = value]
    /\ keepsFiles
    /\ UNCHANGED << size, stored, job, fetched, clear, delivered >>

skips(c, from, to) == goto(c, from, to) /\ keepsFiles /\ UNCHANGED rest

-----------------------------------------------------------------------------
(***************************************************************************)
(* Uploads                                                                 *)
(***************************************************************************)

\* importFile, of a file that was not there when the request checked
importFile(c, f) ==
    /\ starts(c, "open", "UPLOAD", f, None)
    /\ UNCHANGED met

uploadLocFile(c, f)    == f \in LocFiles /\ row[f] = Absent /\ importFile(c, f)
uploadItemFile(c, f)   == f \in ItemFiles /\ row[f] = None /\ importFile(c, f)
uploadRecordFile(c, f) == f \in RecordFiles /\ row[f] = None /\ importFile(c, f)

encrypt(c) ==
    /\ \/ writerOpen(c) \/ writerKey(c) \/ writerIv(c)
       \/ writeFromFile(c, job[c].file)
       \/ writerFinal(c) \/ writerClose(c)
    /\ UNCHANGED rest

\* the content gets an identifier that is new, since encryption is salted
import(c, from, to, content) ==
    /\ Len(stored) < MaxImports
    /\ goto(c, from, to)
    /\ stored' = Append(stored, content)
    /\ job' = [job EXCEPT ![c].copy = Len(stored) + 1]
    /\ UNCHANGED << size, row, fetched, clear, delivered >>

moveToIpfs(c) ==
    /\ import(c, "pin", "commit",
              [ pinned |-> TRUE, of |-> job[c].file,
                blocks |-> orGarbled(enc[c].blocks, IsEncrypted(enc[c].blocks, job[c].file)),
                alone |-> "writer" \notin met[c] ])
    /\ enc' = [enc EXCEPT ![c] = NotWriting]
    /\ UNCHANGED << writer, dec, met >>

\* LocRequestController.addFile: the transaction may also fail because the
\* LOC is not editable any more.
addFile(c) ==
    LET f == job[c].file
    IN  /\ pc[c] = "commit"
        /\ f \in LocFiles
        /\ \/ row[f] = Absent /\ commits(c, "commit", "idle", f, job[c].copy)
           \/ skips(c, "commit", "undo")

\* When setCid throws, the content is left behind.
setCid(c, f) ==
    /\ pc[c] = "commit"
    /\ IF row[f] = None
       THEN commits(c, "commit", "idle", f, job[c].copy)
       ELSE skips(c, "commit", "idle")

setItemFileCid(c)   == job[c].file \in ItemFiles /\ setCid(c, job[c].file)
setRecordFileCid(c) == job[c].file \in RecordFiles /\ setCid(c, job[c].file)

\* LocRequestController.deleteFile, cancelLocRequest: the row, then the content
deleteFile(c, f) ==
    /\ f \in LocFiles
    /\ row[f] \in Ids
    /\ pc[c] = "idle"
    /\ job' = [job EXCEPT ![c] = [kind |-> "DELETE", file |-> f, id |-> None, copy |-> row[f]]]
    /\ pc' = [pc EXCEPT ![c] = "undo"]
    /\ row' = [row EXCEPT ![f] = Absent]
    /\ keepsFiles
    /\ UNCHANGED << size, stored, fetched, clear, delivered >>

\* FileStorageService.deleteFile
removeContent(c) ==
    /\ goto(c, "undo", "idle")
    /\ stored' = [stored EXCEPT ![job[c].copy] = Gone]
    /\ keepsFiles
    /\ UNCHANGED << size, row, job, fetched, clear, delivered >>

\* LoFileController.uploadFile reads the oid that it will remove at the end.
uploadLoFile(c, f) ==
    /\ f \in LoFiles
    /\ starts(c, "lo_import", "UPLOAD", f, row[f])
    /\ UNCHANGED met

importFileInDB(c) ==
    /\ import(c, "lo_import", "lo_commit",
              [pinned |-> TRUE, of |-> job[c].file, blocks |-> <<>>, alone |-> TRUE])
    /\ keepsFiles

\* updateLoFile, or addLoFile, which saves over a row added meanwhile
updateLoFile(c) ==
    commits(c, "lo_commit", "lo_remove", job[c].file, job[c].copy)

\* Seeded fault: what is removed is what the row has now.
removeCurrentLoFile(c) ==
    /\ goto(c, "lo_remove", "idle")
    /\ stored' = IF job[c].id \in Ids
                 THEN [stored EXCEPT ![row[job[c].file]] = Gone] ELSE stored
    /\ keepsFiles
    /\ UNCHANGED << size, row, job, fetched, clear, delivered >>

removeOldLoFile(c) ==
    /\ goto(c, "lo_remove", "idle")
    /\ stored' = IF job[c].id \in Ids
                 THEN [stored EXCEPT ![job[c].id] = Gone] ELSE stored
    /\ keepsFiles
    /\ UNCHANGED << size, row, job, fetched, clear, delivered >>

-----------------------------------------------------------------------------
(***************************************************************************)
(* Downloads                                                               *)
(***************************************************************************)

Downloading ==
    { "fetch", "readOpen", "mark", "hash", "record", "send", "clean" } \union Reading

\* Those whose file is on the same path are met.
exportTo(c, f, kind) ==
    /\ row[f] \in Ids
    /\ starts(c, "fetch", kind, f, row[f])
    /\ meets(c, { d \in Clients : pc[d] \in Downloading /\ pathOf(d) = tempFilePath(f, kind) },
             "path")

\* Restricted deliveries are copies for the owner of a token; sources, files
\* of LOCs for their contributors, and those of legal officers are sent as
\* they are.
downloadItemFile(c, f)         == f \in ItemFiles /\ exportTo(c, f, "DELIVERY")
downloadRecordFile(c, f)       == f \in RecordFiles /\ exportTo(c, f, "DELIVERY")
downloadCollectionFile(c, f)   == f \in LocFiles /\ exportTo(c, f, "DELIVERY")
downloadItemFileSource(c, f)   == f \in ItemFiles /\ exportTo(c, f, "SOURCE")
downloadRecordFileSource(c, f) == f \in RecordFiles /\ exportTo(c, f, "SOURCE")
downloadFile(c, f)             == f \in LocFiles /\ exportTo(c, f, "SOURCE")
downloadLoFile(c, f)           == f \in LoFiles /\ exportTo(c, f, "SOURCE")

onPath(c, from, to, newFetched, newClear) ==
    LET p == pathOf(c)
    IN  /\ goto(c, from, to)
        /\ fetched' = [fetched EXCEPT ![p] = newFetched]
        /\ clear' = [clear EXCEPT ![p] = newClear]
        /\ UNCHANGED << size, row, stored, job, delivered >>

Whole(f) == Append(Body(None, f), Block("last", None, f))

\* what comes back of a content: all of it, or all but the last block
Kept(f) ==
    IF Len(Whole(f)) % BUFFER = 0 THEN First(Whole(f), size[f]) ELSE Whole(f)

toSend(c) == IF job[c].kind = "DELIVERY" THEN "mark" ELSE "send"

\* FileStorageService.exportFile of a cid: to a path next to the clear one
downloadFromIpfs(c) ==
    /\ pc[c] = "fetch"
    /\ job[c].file \notin LoFiles
    /\ IsStored(job[c].id)
    /\ onPath(c, "fetch", "readOpen", stored[job[c].id].blocks, clear[pathOf(c)])
    /\ keepsFiles

\* ... of an oid: when the object is gone nothing is written, and nothing thrown
exportFile(c) ==
    /\ pc[c] = "fetch"
    /\ job[c].file \in LoFiles
    /\ onPath(c, "fetch", "send", None,
              IF IsStored(job[c].id) THEN Copy(<<>>, None) ELSE clear[pathOf(c)])
    /\ keepsFiles

decrypt(c) ==
    \/ /\ pc[c] = "readOpen"
       /\ fetched[pathOf(c)] # None
       /\ readerOpen(c, fetched[pathOf(c)])
       /\ UNCHANGED rest
    \/ (readerIv(c) \/ readerRead(c) \/ readerEnd(c)) /\ UNCHANGED rest
    \/ /\ readerKey(c)  \* then readToFile truncates the clear file
       /\ clear' = [clear EXCEPT ![pathOf(c)] = Copy(<<>>, None)]
       /\ UNCHANGED << size, row, stored, job, fetched, delivered >>

\* Closes the reader and removes the encrypted file; what was written is lost
\* when the path was removed by another request meanwhile.
closeAndRemove(c) ==
    LET f == job[c].file
        read == IF isMixed(c) THEN { << Garbled >>, Kept(f) }
                ELSE { orGarbled(deciphered(c), deciphered(c) \in { Whole(f), Kept(f) }) }
    IN  /\ pc[c] = "readClose"
        /\ closeReader(c)
        /\ \E blocks \in read :
              onPath(c, "readClose", IF fetched[pathOf(c)] = None THEN "idle" ELSE toSend(c), None,
                     IF clear[pathOf(c)] = None THEN None ELSE Copy(blocks, None))
        /\ UNCHANGED << writer, enc, met >>

\* RestrictedDeliveryService.setMetadata
setMetadata(c) ==
    LET p == pathOf(c)
    IN  /\ pc[c] = "mark"
        /\ clear[p] # None
        /\ onPath(c, "mark", "hash", fetched[p],
                  IF job[c].file \in Exif THEN [clear[p] EXCEPT !.owner = c] ELSE clear[p])
        /\ keepsFiles

\* sha256File
hash(c) ==
    /\ goto(c, "hash", "record")
    /\ clear[pathOf(c)] # None
    /\ job' = [job EXCEPT ![c].copy = clear[pathOf(c)]]
    /\ keepsFiles
    /\ UNCHANGED << size, row, stored, fetched, clear, delivered >>

\* what is recorded of a copy: its hash stands for its content
deliveredFile(f, copy, owner) == [file |-> f, copy |-> copy, owner |-> owner]

\* addDeliveredFile, in a transaction
delivers(c, f) ==
    /\ goto(c, "record", "send")
    /\ delivered' = delivered \union { deliveredFile(f, job[c].copy, c) }
    /\ keepsFiles
    /\ UNCHANGED << size, row, stored, job, fetched, clear >>

addDeliveredItemFile(c)   == job[c].file \in ItemFiles /\ delivers(c, job[c].file)
addDeliveredRecordFile(c) == job[c].file \in RecordFiles /\ delivers(c, job[c].file)

\* The collection may have been opened again, or its file removed, meanwhile.
addDeliveredFile(c) ==
    /\ job[c].file \in LocFiles
    /\ row[job[c].file] \in Ids
    /\ delivers(c, job[c].file)

\* Seeded fault: the copy is sent before it is recorded.
sendFirst(c) ==
    /\ pc[c] \in { "record", "send" }
    /\ pc' = [pc EXCEPT ![c] = "clean"]
    /\ job' = [job EXCEPT ![c].copy = clear[pathOf(c)]]
    /\ keepsFiles
    /\ UNCHANGED << size, row, stored, fetched, clear, delivered >>

\* downloadAndClean: what is on the path now is what is sent
send(c) ==
    /\ goto(c, "send", "clean")
    /\ job' = [job EXCEPT ![c].copy = clear[pathOf(c)]]
    /\ keepsFiles
    /\ UNCHANGED << size, row, stored, fetched, clear, delivered >>

\* Removing a path that another request removed throws in a callback.
clean(c) ==
    /\ pc[c] = "clean"
    /\ \/ /\ clear[pathOf(c)] # None
          /\ onPath(c, "clean", "idle", fetched[pathOf(c)], None)
          /\ keepsFiles
       \/ /\ clear[pathOf(c)] = None
          /\ skips(c, "clean", "idle")

Next ==
    \/ \E c \in Clients :
        \/ encrypt(c) \/ moveToIpfs(c) \/ addFile(c) \/ removeContent(c)
        \/ setItemFileCid(c) \/ setRecordFileCid(c)
        \/ importFileInDB(c) \/ updateLoFile(c) \/ removeOldLoFile(c)
        \/ downloadFromIpfs(c) \/ exportFile(c) \/ decrypt(c) \/ closeAndRemove(c)
        \/ setMetadata(c) \/ hash(c)
        \/ addDeliveredItemFile(c) \/ addDeliveredRecordFile(c) \/ addDeliveredFile(c)
        \/ send(c) \/ clean(c)
        \/ fails(c)
        \/ \E f \in Files :
            \/ uploadLocFile(c, f) \/ uploadItemFile(c, f) \/ uploadRecordFile(c, f)
            \/ uploadLoFile(c, f) \/ deleteFile(c, f)
            \/ downloadItemFile(c, f) \/ downloadRecordFile(c, f) \/ downloadCollectionFile(c, f)
            \/ downloadItemFileSource(c, f) \/ downloadRecordFileSource(c, f)
            \/ downloadFile(c, f) \/ downloadLoFile(c, f)
    \/ crash

Spec == Init /\ [][Next]_vars

-----------------------------------------------------------------------------
(***************************************************************************)
(* Properties                                                              *)
(***************************************************************************)

\* Columns and control have the values the code gives them: a row names a
\* content that was stored, and a request in a step has what the step needs.
TypeOK ==
    /\ row \in [Files -> FileRow]
    /\ \A d \in delivered : d.file \in Files \ LoFiles /\ d.owner \in Clients
    /\ Len(stored) <= MaxImports
    /\ \A f \in Files : row[f] \in Ids => row[f] <= Len(stored)
    /\ \A c \in Clients : pc[c] # "idle" => job[c].file \in Files
    /\ \A c \in Clients :
          pc[c] \in { "commit", "lo_commit", "undo" } => job[c].copy \in DOMAIN stored

\* Whatever row has an identifier, its content is stored: contents are stored
\* before they are written to the row, and removed after they were, whatever
\* uploads, failures and removals overlap.
RowsHaveContent ==
    \A f \in Files : row[f] \in Ids => IsStored(row[f]) /\ stored[row[f]].of = f

\* A content that no other request encrypted at the same time as is stored is
\* whole: salt, vector, every block and the last one, under a single key.
StoredWhole ==
    \A id \in DOMAIN stored :
        IsStored(id) /\ stored[id].of \notin LoFiles /\ stored[id].alone =>
            IsEncrypted(stored[id].blocks, stored[id].of)

\* A request that is alone with the reader and on its path gets back what was
\* stored whole, to the last block, except that it loses the last block, the
\* end of the content, exactly when the encrypted content fills the read
\* buffer a whole number of times.
ReadBack ==
    \A c \in Clients :
        LET f == job[c].file
        IN  /\ pc[c] \in { "mark", "send" } /\ job[c].file \notin LoFiles
            /\ met[c] \intersect { "reader", "path" } = {}
            /\ stored[job[c].id] # Gone /\ stored[job[c].id].alone
            => clear[pathOf(c)] # None /\ clear[pathOf(c)].blocks = Kept(f)

\* what the owner of a copy finds out about it: to whom it was delivered
findDelivery(f, copy) == { owner \in Clients : deliveredFile(f, copy, owner) \in delivered }

\* The copy sent to the owner of a token is one that is recorded as delivered
\* to that owner, unless another request for the same path was served meanwhile.
CopiesAreRecorded ==
    \A c \in Clients :
        pc[c] = "clean" /\ job[c].kind = "DELIVERY" /\ "path" \notin met[c] =>
            c \in findDelivery(job[c].file, job[c].copy)
=============================================================================

-------------------------- MODULE CollectionProofs --------------------------
(***************************************************************************)
(* Theorems about Collection, for any entries, files, requests and bounds. *)
(*                                                                         *)
(* ContentOfPublishedFiles is not inductive: it says nothing of a request  *)
(* that is about to write a content or a copy.  What such a request        *)
(* checked before its awaits is still true when it writes, since nothing   *)
(* that is on chain goes away: that is FilesInFlight.                      *)
(***************************************************************************)
EXTENDS Collection, FiniteSetTheorems, SequenceTheorems, TLAPS

\* The contents and the copies that requests are about to write are of files
\* on chain.
FilesInFlight ==
    \A c \in Clients : client[c].doing \in { "UPLOAD", "DOWNLOAD" } =>
        /\ client[c].entry \in Published
        /\ client[c].file \in chain[client[c].entry].files

Inv == TypeOK /\ FilesInFlight /\ ContentOfPublishedFiles

-----------------------------------------------------------------------------
(***************************************************************************)
(* Rows and what is done to them.                                          *)
(***************************************************************************)

\* The row of an entry that is there has files, and says whether it is confirmed.
LEMMA RowFields ==
    ASSUME NEW r \in Row
    PROVE  /\ r # Absent
           /\ r.present = TRUE
           /\ r.addedOn \in BOOLEAN
           /\ DOMAIN r.files \subseteq Files
           /\ r.files \in [DOMAIN r.files -> File]
  <1>1. r.present = TRUE /\ r.addedOn \in BOOLEAN
    BY DEF Row
  <1>2. r # Absent
    BY <1>1 DEF Absent
  <1>3. PICK S \in SUBSET Files : r.files \in [S -> File]
    BY DEF Row
  <1>4. DOMAIN r.files = S
    BY <1>3
  <1> QED BY <1>1, <1>2, <1>3, <1>4

\* Changing one file of a row leaves its other files and its other columns.
LEMMA FileChanged ==
    ASSUME NEW r \in Row, NEW f \in DOMAIN r.files, NEW file \in File
    PROVE  LET s == [r EXCEPT !.files[f] = file]
           IN  /\ s \in Row
               /\ s.addedOn = r.addedOn
               /\ DOMAIN s.files = DOMAIN r.files
               /\ s.files[f] = file
               /\ \A g \in DOMAIN r.files : g # f => s.files[g] = r.files[g]
  <1> DEFINE s == [r EXCEPT !.files[f] = file]
  <1>1. r.files \in [DOMAIN r.files -> File] /\ DOMAIN r.files \in SUBSET Files
    BY RowFields
  <1>2. s.files = [r.files EXCEPT ![f] = file] /\ s.addedOn = r.addedOn /\ s.present = r.present
    BY DEF Row
  <1>3. s.files \in [DOMAIN r.files -> File]
    BY <1>1, <1>2
  <1>4. s.files \in UNION { [S -> File] : S \in SUBSET Files }
    BY <1>1, <1>3
  <1>5. s = [present |-> r.present, addedOn |-> r.addedOn, files |-> s.files]
    BY <1>2 DEF Row
  <1>6. s \in Row
    BY <1>4, <1>5 DEF Row
  <1> QED BY <1>1, <1>2, <1>3, <1>6

\* The rows the requests write.
LEMMA RowsWritten ==
    /\ \A S \in SUBSET Files :
         LET r == [present |-> TRUE, addedOn |-> FALSE, files |-> [f \in S |-> NewFile]]
         IN  r \in Row /\ DOMAIN r.files = S /\ \A f \in S : r.files[f] = NewFile
    /\ \A r \in Row : [r EXCEPT !.addedOn = TRUE] \in Row
                      /\ [r EXCEPT !.addedOn = TRUE].files = r.files
  <1>1. ASSUME NEW S \in SUBSET Files
        PROVE  [f \in S |-> NewFile] \in UNION { [T -> File] : T \in SUBSET Files }
    <2>1. [f \in S |-> NewFile] \in [S -> File]
      BY DEF NewFile, File
    <2> QED BY <2>1
  <1>2. ASSUME NEW r \in Row
        PROVE  [r EXCEPT !.addedOn = TRUE] \in Row
               /\ [r EXCEPT !.addedOn = TRUE].files = r.files
    BY DEF Row
  <1> QED BY <1>1, <1>2 DEF Row

-----------------------------------------------------------------------------
(***************************************************************************)
(* The two ways a request goes on.                                         *)
(***************************************************************************)

\* What a request remembers is of the type of what requests remember.
LEMMA PendingFields ==
    ASSUME NEW p \in Pending
    PROVE  /\ p.doing \in { "SUBMIT", "CANCEL", "DELETE", "UPLOAD", "DOWNLOAD" }
           /\ p.entry \in Entries
           /\ p.doing = "SUBMIT" => p.files \in SUBSET Files
           /\ p.doing \in { "UPLOAD", "DOWNLOAD" } => p.file \in Files
  BY DEF Pending

\* A request that awaits keeps the invariant if the file it is going to write
\* a content or a copy of is on chain.
LEMMA Awaiting ==
    ASSUME Inv,
           NEW c \in Clients, NEW from, NEW to \in Pending \union { Idle },
           awaits(c, from, to),
           to.doing \in { "UPLOAD", "DOWNLOAD" } =>
               to.entry \in Published /\ to.file \in chain[to.entry].files
    PROVE  Inv'
  <1>1. /\ client' = [client EXCEPT ![c] = to]
        /\ UNCHANGED << limited, canUpload, records, row, chain, feed, pos, crashes >>
    BY DEF awaits, columns, syncVars
  <1>2. TypeOK'
    BY <1>1 DEF Inv, TypeOK
  <1>3. Published' = Published
    BY <1>1 DEF Published
  <1>4. FilesInFlight'
    BY <1>1, <1>3 DEF Inv, TypeOK, FilesInFlight
  <1>5. ContentOfPublishedFiles'
    BY <1>1, <1>3 DEF Inv, ContentOfPublishedFiles, Submitted, filesOf, uploaded
  <1> QED BY <1>2, <1>4, <1>5 DEF Inv

\* A request that writes a row keeps the invariant if the files of the row that
\* have a content or copies are on chain.
LEMMA Writing ==
    ASSUME Inv,
           NEW c \in Clients, NEW e \in Entries, NEW newRow \in Row \union { Absent },
           writes(c, e, newRow),
           newRow # Absent =>
               \A f \in DOMAIN newRow.files :
                   newRow.files[f].cid # NoCid \/ newRow.files[f].delivered
                       => e \in Published /\ f \in chain[e].files
    PROVE  Inv'
  <1>1. /\ client' = [client EXCEPT ![c] = Idle]
        /\ row' = [row EXCEPT ![e] = newRow]
        /\ UNCHANGED << limited, canUpload, records, chain, feed, pos, crashes >>
    BY DEF writes, columns, syncVars
  <1>2. TypeOK'
    BY <1>1 DEF Inv, TypeOK
  <1>3. Published' = Published
    BY <1>1 DEF Published
  <1>4. FilesInFlight'
    BY <1>1, <1>3 DEF Inv, TypeOK, FilesInFlight, Idle
  <1>5. ContentOfPublishedFiles'
    <2> SUFFICES ASSUME NEW d \in Submitted', NEW f \in DOMAIN row'[d].files,
                        row'[d].files[f].cid # NoCid \/ row'[d].files[f].delivered
                 PROVE  d \in Published /\ f \in chain[d].files
      BY <1>1, <1>3 DEF ContentOfPublishedFiles, filesOf, uploaded
    <2>0. d \in Entries /\ row'[d] # Absent
      BY DEF Submitted
    <2>1. CASE d = e
      <3>1. row'[d] = newRow
        BY <1>1, <2>1 DEF Inv, TypeOK
      <3> QED BY <2>0, <2>1, <3>1
    <2>2. CASE d # e
      <3>1. row'[d] = row[d]
        BY <1>1, <2>0, <2>2 DEF Inv, TypeOK
      <3> QED BY <2>0, <3>1 DEF Inv, ContentOfPublishedFiles, Submitted, filesOf, uploaded
    <2> QED BY <2>1, <2>2
  <1> QED BY <1>2, <1>4, <1>5 DEF Inv

-----------------------------------------------------------------------------
(***************************************************************************)
(* Every step keeps the invariant.                                         *)
(***************************************************************************)

LEMMA Initially == Init => Inv
  BY ConstantsAssumption DEF Init, Inv, TypeOK, FilesInFlight, ContentOfPublishedFiles,
                             Submitted, Absent, Idle

\* What is asked for in the first place: the checks before the first write.
LEMMA RequestStarts ==
    ASSUME Inv, NEW c \in Clients, NEW e \in Entries,
           \/ \E files \in SUBSET Files : submit(c, e, files)
           \/ cancel(c, e)
           \/ \E f \in Files : upload(c, e, f) \/ download(c, e, f)
    PROVE  Inv'
  <1>1. CASE \E files \in SUBSET Files : submit(c, e, files)
    <2>1. PICK files \in SUBSET Files : submit(c, e, files)
      BY <1>1
    <2> DEFINE to == [doing |-> "SUBMIT", entry |-> e, files |-> files]
    <2>2. to \in Pending /\ to.doing = "SUBMIT" /\ awaits(c, Idle, to)
      BY <2>1 DEF submit, Pending
    <2> HIDE DEF to
    <2> QED BY <2>2, Awaiting
  <1>2. CASE cancel(c, e)
    <2> DEFINE to == [doing |-> "CANCEL", entry |-> e]
    <2>1. to \in Pending /\ to.doing = "CANCEL" /\ awaits(c, Idle, to)
      BY <1>2 DEF cancel, Pending
    <2> HIDE DEF to
    <2> QED BY <2>1, Awaiting
  <1>3. CASE \E f \in Files : upload(c, e, f) \/ download(c, e, f)
    <2>1. PICK f \in Files : upload(c, e, f) \/ download(c, e, f)
      BY <1>3
    <2>2. PICK doing \in { "UPLOAD", "DOWNLOAD" } :
             awaits(c, Idle, [doing |-> doing, entry |-> e, file |-> f])
      BY <2>1 DEF upload, download
    <2> DEFINE to == [doing |-> doing, entry |-> e, file |-> f]
    <2>3. to \in Pending /\ to.entry = e /\ to.file = f /\ awaits(c, Idle, to)
      BY <2>2 DEF Pending
    <2>4. e \in Published /\ f \in chain[e].files
      BY <2>1 DEF upload, download, publishedFile
    <2> HIDE DEF to
    <2> QED BY <2>3, <2>4, Awaiting
  <1> QED BY <1>1, <1>2, <1>3

\* A request that does something remembers what.
LEMMA InFlight ==
    ASSUME TypeOK, NEW c \in Clients, client[c] # Idle
    PROVE  client[c] \in Pending
  BY DEF TypeOK

LEMMA SubmitOrCancel ==
    ASSUME Inv, NEW c \in Clients,
           addEntry(c) \/ findEntry(c) \/ deleteEntry(c) \/ fails(c)
    PROVE  Inv'
  <1>1. CASE addEntry(c)
    <2>1. client[c].doing = "SUBMIT" /\ client[c] # Idle
      BY <1>1 DEF addEntry, Idle
    <2> DEFINE r == [ present |-> TRUE, addedOn |-> FALSE,
                      files |-> [f \in client[c].files |-> NewFile] ]
    <2>2. client[c].entry \in Entries /\ client[c].files \in SUBSET Files
      BY <2>1, InFlight, PendingFields DEF Inv
    <2>3. r \in Row /\ \A f \in DOMAIN r.files : r.files[f] = NewFile
      BY <2>2, RowsWritten
    <2>4. writes(c, client[c].entry, r)
      BY <1>1 DEF addEntry
    <2> HIDE DEF r
    <2> QED BY <2>2, <2>3, <2>4, Writing DEF NewFile
  <1>2. CASE findEntry(c)
    <2>1. client[c].doing = "CANCEL" /\ client[c] # Idle /\ client[c].entry \in Submitted
      BY <1>2 DEF findEntry, Idle
    <2>2. client[c].entry \in Entries
      BY <2>1, InFlight, PendingFields DEF Inv
    <2>3. row[client[c].entry].addedOn \in BOOLEAN
      BY <2>1, <2>2, RowFields DEF Inv, TypeOK, Submitted
    <2> DEFINE to == [ doing |-> "DELETE", entry |-> client[c].entry,
                       addedOn |-> row[client[c].entry].addedOn ]
    <2>4. to \in Pending /\ to.doing = "DELETE" /\ awaits(c, client[c], to)
      BY <1>2, <2>2, <2>3 DEF findEntry, Pending
    <2> HIDE DEF to
    <2> QED BY <2>4, Awaiting
  <1>3. CASE deleteEntry(c)
    <2>1. client[c].doing = "DELETE" /\ client[c] # Idle
      BY <1>3 DEF deleteEntry, Idle
    <2>2. client[c].entry \in Entries /\ writes(c, client[c].entry, Absent)
      BY <1>3, <2>1, InFlight, PendingFields DEF Inv, deleteEntry
    <2> QED BY <2>2, Writing
  <1>4. CASE fails(c)
    <2>1. awaits(c, client[c], Idle)
      BY <1>4 DEF fails, awaits
    <2> QED BY <2>1, Awaiting DEF Idle
  <1> QED BY <1>1, <1>2, <1>3, <1>4

\* The row a request writes at the end of an upload or of a download.
LEMMA FileWritten ==
    ASSUME Inv, NEW c \in Clients, client[c].doing \in { "UPLOAD", "DOWNLOAD" },
           client[c].entry \in Submitted,
           client[c].file \in filesOf(client[c].entry),
           NEW file \in File,
           writes(c, client[c].entry, [row[client[c].entry] EXCEPT !.files[client[c].file] = file])
    PROVE  Inv'
  <1> DEFINE e == client[c].entry
             f == client[c].file
             s == [row[e] EXCEPT !.files[f] = file]
  <1>1. client[c] # Idle
    BY DEF Idle
  <1>2. e \in Entries /\ f \in Files
    BY <1>1, InFlight, PendingFields DEF Inv
  <1>3. row[e] \in Row /\ f \in DOMAIN row[e].files
    BY <1>2 DEF Inv, TypeOK, Submitted, filesOf
  <1>4. /\ s \in Row
        /\ DOMAIN s.files = DOMAIN row[e].files
        /\ \A g \in DOMAIN row[e].files : g # f => s.files[g] = row[e].files[g]
    BY <1>3, FileChanged
  <1>5. e \in Published /\ f \in chain[e].files
    BY DEF Inv, FilesInFlight
  <1>6. \A g \in DOMAIN row[e].files :
           row[e].files[g].cid # NoCid \/ row[e].files[g].delivered
               => e \in Published /\ g \in chain[e].files
    BY DEF Inv, ContentOfPublishedFiles, filesOf, uploaded
  <1>7. writes(c, e, s)
    OBVIOUS
  <1> HIDE DEF s
  <1>8. \A g \in DOMAIN s.files :
           s.files[g].cid # NoCid \/ s.files[g].delivered
               => e \in Published /\ g \in chain[e].files
    BY <1>4, <1>5, <1>6
  <1> QED BY <1>2, <1>4, <1>7, <1>8, Writing

LEMMA FileSteps ==
    ASSUME Inv, NEW c \in Clients, setFileCid(c) \/ addDeliveredFile(c)
    PROVE  Inv'
  <1> DEFINE e == client[c].entry
             f == client[c].file
  <1>1. /\ client[c].doing \in { "UPLOAD", "DOWNLOAD" }
        /\ e \in Submitted
        /\ f \in filesOf(e)
    BY DEF setFileCid, addDeliveredFile
  <1>2. row[e] \in Row /\ f \in DOMAIN row[e].files
    BY <1>1 DEF Inv, TypeOK, Submitted, filesOf
  <1>3. row[e].files[f] \in File
    BY <1>2, RowFields
  <1>4. PICK file \in File : writes(c, e, [row[e] EXCEPT !.files[f] = file])
    <2>1. CASE setFileCid(c)
      <3>1. [row[e].files[f] EXCEPT !.cid = c] \in File
        BY <1>3 DEF File
      <3> QED BY <2>1, <3>1 DEF setFileCid
    <2>2. CASE addDeliveredFile(c)
      <3>1. [row[e].files[f] EXCEPT !.delivered = TRUE] \in File
        BY <1>3 DEF File
      <3> QED BY <2>2, <3>1 DEF addDeliveredFile
    <2> QED BY <2>1, <2>2
  <1> QED BY <1>1, <1>4, FileWritten

\* What is on chain stays there.
LEMMA Publishing ==
    ASSUME Inv, NEW e \in Entries, NEW files \in SUBSET Files, publish(e, files)
    PROVE  Inv'
  <1>1. /\ e \notin Published
        /\ chain' = [chain EXCEPT ![e] = [published |-> TRUE, files |-> files]]
        /\ feed' = Append(feed, e)
        /\ UNCHANGED << limited, canUpload, records, row, client, pos, crashes >>
    BY DEF publish, columns
  <1>2. feed' \in Seq(Entries) /\ pos' \in 0 .. Len(feed')
    <2>1. feed \in Seq(Entries) /\ pos \in 0 .. Len(feed)
      BY DEF Inv, TypeOK
    <2>2. feed' \in Seq(Entries) /\ Len(feed') = Len(feed) + 1
      BY <1>1, <2>1
    <2> QED BY <1>1, <2>1, <2>2
  <1>3. TypeOK'
    <2>1. chain' \in [Entries -> [published : { TRUE }, files : SUBSET Files] \union { Unpublished }]
      BY <1>1 DEF Inv, TypeOK
    <2> QED BY <1>1, <1>2, <2>1 DEF Inv, TypeOK
  <1>4. \A d \in Published : d \in Published' /\ chain'[d] = chain[d]
    BY <1>1 DEF Inv, TypeOK, Published
  <1>5. FilesInFlight'
    BY <1>1, <1>4 DEF Inv, FilesInFlight
  <1>6. ContentOfPublishedFiles'
    BY <1>1, <1>4 DEF Inv, ContentOfPublishedFiles, Submitted, filesOf, uploaded
  <1> QED BY <1>3, <1>5, <1>6 DEF Inv

\* The synchronizer leaves the files alone.
LEMMA Synchronizing ==
    ASSUME Inv, SyncStep \/ startOver \/ crash
    PROVE  Inv'
  <1>1. UNCHANGED << limited, canUpload, records, chain, client >>
    BY DEF SyncStep, confirm, moveSyncPoint, startOver, crash, columns
  <1>2. Published' = Published
    BY <1>1 DEF Published
  <1>3. FilesInFlight'
    BY <1>1, <1>2 DEF Inv, FilesInFlight
  <1>4. CASE confirm
    <2>1. /\ pos < Len(feed)
          /\ next \in Submitted
          /\ row' = [row EXCEPT ![next] = [row[next] EXCEPT !.addedOn = TRUE]]
          /\ pos' = pos + 1
          /\ UNCHANGED << feed, crashes >>
      BY <1>4 DEF confirm, unapplied
    <2>2. next \in Entries /\ row[next] \in Row
      BY <2>1 DEF Inv, TypeOK, Submitted
    <2>3. /\ [row[next] EXCEPT !.addedOn = TRUE] \in Row
          /\ [row[next] EXCEPT !.addedOn = TRUE].files = row[next].files
      BY <2>2, RowsWritten
    <2>4. TypeOK'
      <3>1. row' \in [Entries -> Row \union { Absent }]
        BY <2>1, <2>2, <2>3 DEF Inv, TypeOK
      <3>2. feed \in Seq(Entries) /\ pos' \in 0 .. Len(feed)
        <4>1. feed \in Seq(Entries) /\ Len(feed) \in Nat /\ pos \in 0 .. Len(feed)
          BY DEF Inv, TypeOK
        <4> QED BY <2>1, <4>1
      <3> QED BY <1>1, <2>1, <3>1, <3>2 DEF Inv, TypeOK
    <2>5. \A d \in Submitted' : d \in Submitted /\ row'[d].files = row[d].files
      BY <2>1, <2>2, <2>3 DEF Inv, TypeOK, Submitted
    <2>6. ContentOfPublishedFiles'
      BY <1>1, <1>2, <2>5 DEF Inv, ContentOfPublishedFiles, filesOf, uploaded
    <2> QED BY <1>3, <2>4, <2>6 DEF Inv
  <1>5. CASE moveSyncPoint \/ startOver \/ crash
    <2>1. UNCHANGED row
      BY <1>5 DEF moveSyncPoint, startOver, crash
    <2>2. feed' \in Seq(Entries)
      <3>1. feed \in Seq(Entries) /\ Len(feed) \in Nat /\ pos \in 0 .. Len(feed)
        BY DEF Inv, TypeOK
      <3>2. SubSeq(feed, pos + 1, Len(feed)) \in Seq(Entries)
        BY <3>1, SubSeqProperties
      <3> QED BY <1>5, <3>1, <3>2 DEF moveSyncPoint, startOver, crash
    <2>3. pos' = 0 /\ 0 \in 0 .. Len(feed')
      BY <1>5, <2>2 DEF moveSyncPoint, startOver, crash
    <2>4. crashes' \in 0 .. MaxCrashes
      BY <1>5, ConstantsAssumption DEF moveSyncPoint, startOver, crash, Inv, TypeOK
    <2>5. TypeOK'
      BY <1>1, <2>1, <2>2, <2>3, <2>4 DEF Inv, TypeOK
    <2>6. ContentOfPublishedFiles'
      BY <1>1, <1>2, <2>1 DEF Inv, ContentOfPublishedFiles, Submitted, filesOf, uploaded
    <2> QED BY <1>3, <2>5, <2>6 DEF Inv
  <1> QED BY <1>4, <1>5 DEF SyncStep

LEMMA Stuttering == Inv /\ UNCHANGED vars => Inv'
  BY DEF Inv, TypeOK, FilesInFlight, ContentOfPublishedFiles, Submitted, Published,
         filesOf, uploaded, vars

LEMMA Inductive == Inv /\ [Next]_vars => Inv'
  <1> SUFFICES ASSUME Inv, [Next]_vars PROVE Inv'
    OBVIOUS
  <1>1. ASSUME NEW c \in Clients, Request(c) PROVE Inv'
    BY <1>1, RequestStarts, SubmitOrCancel, FileSteps DEF Request
  <1>2. ASSUME NEW e \in Entries, NEW files \in SUBSET Files, publish(e, files) PROVE Inv'
    BY <1>2, Publishing
  <1>3. CASE SyncStep \/ startOver \/ crash
    BY <1>3, Synchronizing
  <1>4. CASE UNCHANGED vars
    BY <1>4, Stuttering
  <1> QED BY <1>1, <1>2, <1>3, <1>4 DEF Next

\* Inv holds in every reachable state.
THEOREM Invariance == Spec => []Inv
  <1>1. Init => Inv
    BY Initially
  <1>2. Inv /\ [Next]_vars => Inv'
    BY Inductive
  <1> QED BY <1>1, <1>2, PTL DEF Spec

\* Every variable keeps its type, whatever overlaps.
THEOREM TypeCorrect == Spec => []TypeOK
  <1>1. Inv => TypeOK
    BY DEF Inv
  <1> QED BY <1>1, Invariance, PTL

\* However many requests overlap, a file has a content or copies only when it is
\* a file of an entry that is on chain: uploadFile and downloadItemFile.
THEOREM PublishedContent == Spec => []ContentOfPublishedFiles
  <1>1. Inv => ContentOfPublishedFiles
    BY DEF Inv
  <1> QED BY <1>1, Invariance, PTL

-----------------------------------------------------------------------------
\* How a step changes the row of an entry that is there.
LEMMA RowMoves ==
    ASSUME TypeOK, [Next]_vars, NEW e \in Submitted
    PROVE  \/ row'[e] = row[e]
           \/ row'[e] = Absent
           \/ row'[e] = [row[e] EXCEPT !.addedOn = TRUE]
           \/ \E c \in Clients, f \in filesOf(e) :
                 /\ ~uploaded(e, f)
                 /\ row'[e] = [row[e] EXCEPT !.files[f].cid = c]
           \/ \E f \in filesOf(e) : row'[e] = [row[e] EXCEPT !.files[f].delivered = TRUE]
  <1>0. e \in Entries /\ row \in [Entries -> Row \union { Absent }]
    BY DEF Submitted, TypeOK
  <1>1. ASSUME NEW c \in Clients, NEW d, NEW newRow, writes(c, d, newRow), d # e
        PROVE  row'[e] = row[e]
    BY <1>0, <1>1 DEF writes
  <1>2. ASSUME NEW c \in Clients, NEW newRow, writes(c, e, newRow)
        PROVE  row'[e] = newRow
    BY <1>0, <1>2 DEF writes
  <1>3. ASSUME NEW c \in Clients, addEntry(c) PROVE row'[e] = row[e]
    <2>1. client[c].entry # e
      BY <1>3 DEF addEntry
    <2> QED BY <1>1, <1>3, <2>1 DEF addEntry
  <1>4. ASSUME NEW c \in Clients, deleteEntry(c) PROVE row'[e] \in { row[e], Absent }
    BY <1>1, <1>2, <1>4 DEF deleteEntry
  <1>5. ASSUME NEW c \in Clients, setFileCid(c), row'[e] # row[e]
        PROVE  \E f \in filesOf(e) : /\ ~uploaded(e, f)
                                     /\ row'[e] = [row[e] EXCEPT !.files[f].cid = c]
    <2>1. client[c].entry = e
      BY <1>1, <1>5 DEF setFileCid
    <2>2. /\ client[c].file \in filesOf(e)
          /\ ~uploaded(e, client[c].file)
          /\ row'[e] = [row[e] EXCEPT !.files[client[c].file].cid = c]
      BY <1>2, <1>5, <2>1 DEF setFileCid
    <2> QED BY <2>2
  <1>6. ASSUME NEW c \in Clients, addDeliveredFile(c), row'[e] # row[e]
        PROVE  \E f \in filesOf(e) : row'[e] = [row[e] EXCEPT !.files[f].delivered = TRUE]
    <2>1. client[c].entry = e
      BY <1>1, <1>6 DEF addDeliveredFile
    <2>2. /\ client[c].file \in filesOf(e)
          /\ row'[e] = [row[e] EXCEPT !.files[client[c].file].delivered = TRUE]
      BY <1>2, <1>6, <2>1 DEF addDeliveredFile
    <2> QED BY <2>2
  <1>7. ASSUME NEW c \in Clients, NEW d, NEW files, NEW f,
               submit(c, d, files) \/ cancel(c, d) \/ upload(c, d, f) \/ download(c, d, f)
        PROVE  row' = row
    BY <1>7 DEF submit, cancel, upload, download, awaits
  <1>8. ASSUME NEW c \in Clients, findEntry(c) \/ fails(c) PROVE row' = row
    BY <1>8 DEF findEntry, fails, awaits
  <1>9. CASE confirm
    BY <1>0, <1>9 DEF confirm
  <1>10. CASE \/ \E d \in Entries, files \in SUBSET Files : publish(d, files)
              \/ moveSyncPoint \/ startOver \/ crash \/ UNCHANGED vars
    BY <1>10 DEF publish, moveSyncPoint, startOver, crash, vars
  <1>11. CASE \E c \in Clients : Request(c)
    <2>1. PICK c \in Clients : Request(c)
      BY <1>11
    <2> QED BY <1>3, <1>4, <1>5, <1>6, <1>7, <1>8, <2>1 DEF Request
  <1> QED BY <1>9, <1>10, <1>11 DEF Next, SyncStep

\* The content of a file is never replaced while its entry is there, whatever
\* uploads overlap: the second check of setCid, in the transaction.
THEOREM ContentIsKept == Spec => UploadedOnce
  <1> DEFINE Kept == \A e \in Submitted : \A f \in filesOf(e) :
                uploaded(e, f) /\ row'[e] # Absent => row'[e].files[f].cid = row[e].files[f].cid
  <1>1. TypeOK /\ [Next]_vars => Kept
    <2> SUFFICES ASSUME TypeOK, [Next]_vars,
                        NEW e \in Submitted, NEW f \in filesOf(e),
                        uploaded(e, f), row'[e] # Absent
                 PROVE  row'[e].files[f].cid = row[e].files[f].cid
      OBVIOUS
    <2>1. row[e] \in Row /\ f \in DOMAIN row[e].files
      BY DEF TypeOK, Submitted, filesOf
    <2>2. \A g \in DOMAIN row[e].files : row[e].files[g] \in File
      BY <2>1, RowFields
    <2>3. CASE row'[e] = row[e]
      BY <2>3
    <2>4. CASE row'[e] = [row[e] EXCEPT !.addedOn = TRUE]
      BY <2>1, <2>4, RowsWritten
    <2>5. ASSUME NEW g \in DOMAIN row[e].files, NEW file \in File,
                 row'[e] = [row[e] EXCEPT !.files[g] = file],
                 g = f => file.cid = row[e].files[f].cid
          PROVE  row'[e].files[f].cid = row[e].files[f].cid
      <3>1. row'[e].files[g] = file /\ (g # f => row'[e].files[f] = row[e].files[f])
        BY <2>1, <2>5, FileChanged
      <3> QED BY <2>5, <3>1
    <2>6. ASSUME NEW c \in Clients, NEW g \in filesOf(e), ~uploaded(e, g),
                 row'[e] = [row[e] EXCEPT !.files[g].cid = c]
          PROVE  row'[e].files[f].cid = row[e].files[f].cid
      <3>1. g # f /\ g \in DOMAIN row[e].files
        BY <2>6 DEF filesOf
      <3>2. [row[e].files[g] EXCEPT !.cid = c] \in File
        BY <2>2, <3>1 DEF File
      <3> QED BY <2>5, <2>6, <3>1, <3>2
    <2>7. ASSUME NEW g \in filesOf(e), row'[e] = [row[e] EXCEPT !.files[g].delivered = TRUE]
          PROVE  row'[e].files[f].cid = row[e].files[f].cid
      <3>1. g \in DOMAIN row[e].files
        BY DEF filesOf
      <3>2. /\ [row[e].files[g] EXCEPT !.delivered = TRUE] \in File
            /\ [row[e].files[g] EXCEPT !.delivered = TRUE].cid = row[e].files[g].cid
        BY <2>2, <3>1 DEF File
      <3> QED BY <2>5, <2>7, <3>1, <3>2
    <2> QED BY <2>3, <2>4, <2>6, <2>7, RowMoves
  <1>2. TypeOK /\ [Next]_vars => [Kept]_vars
    BY <1>1
  <1> QED BY <1>2, TypeCorrect, PTL DEF Spec, UploadedOnce

-----------------------------------------------------------------------------
(***************************************************************************)
(* The size of the collection.                                             *)
(***************************************************************************)

\* the items counted by countBy
Items == Submitted \ records

LEMMA Sizes ==
    ASSUME TypeOK
    PROVE  /\ IsFiniteSet(Items) /\ IsFiniteSet(Admitted)
           /\ countBy = Cardinality(Items) /\ countBy \in Nat
           /\ Cardinality(Admitted) \in Nat
           /\ Cardinality(Admitted) <= Cardinality(Clients)
           /\ Cardinality(Clients) \in Nat /\ Cardinality(Clients) >= 1
           /\ limit \in Nat
  <1>1. Items \subseteq Entries /\ Admitted \subseteq Clients
    BY DEF Items, Submitted, Admitted
  <1>2. IsFiniteSet(Items) /\ IsFiniteSet(Admitted)
    BY <1>1, ConstantsAssumption, FS_Subset
  <1>3. Cardinality(Admitted) <= Cardinality(Clients)
    BY <1>1, ConstantsAssumption, FS_Subset
  <1>4. Cardinality(Clients) \in Nat /\ Cardinality(Clients) # 0
    BY ConstantsAssumption, FS_CardinalityType, FS_EmptySet
  <1>5. Cardinality(Items) \in Nat /\ Cardinality(Admitted) \in Nat
    BY <1>2, FS_CardinalityType
  <1>6. limit \in Nat
    BY ConstantsAssumption DEF limit
  <1> QED BY <1>2, <1>3, <1>4, <1>5, <1>6 DEF countBy, Items

\* A step adds nothing to the items and the submissions under way, or finds a free
\* place for a submission, or turns a submission into an item.
LEMMA SizeMoves ==
    ASSUME TypeOK, [Next]_vars
    PROVE  /\ UNCHANGED << limited, records >>
           /\ \/ Items' \subseteq Items /\ Admitted' \subseteq Admitted
              \/ Items' = Items /\ ~tooManyItems
              \/ \E e \in Entries, c \in Admitted :
                    Items' = Items \union { e } /\ Admitted' = Admitted \ { c }
  <1> DEFINE Shrinks == Items' \subseteq Items /\ Admitted' \subseteq Admitted
  <1>1. UNCHANGED << limited, records >>
    BY DEF Next, Request, submit, addEntry, cancel, findEntry, deleteEntry, upload, setFileCid,
           download, addDeliveredFile, fails, awaits, writes, publish, SyncStep, confirm,
           moveSyncPoint, startOver, crash, columns, vars
  <1>2. ASSUME NEW c \in Clients, NEW from, NEW to, awaits(c, from, to), to.doing # "SUBMIT"
        PROVE  Shrinks
    BY <1>1, <1>2 DEF awaits, TypeOK, Items, Submitted, Admitted
  <1>3. ASSUME NEW c \in Clients, NEW e \in Entries, NEW newRow, writes(c, e, newRow),
               e \in Submitted \/ newRow = Absent
        PROVE  Shrinks
    BY <1>1, <1>3 DEF writes, TypeOK, Items, Submitted, Admitted, Idle
  <1>4. ASSUME NEW c \in Clients, NEW e \in Entries, NEW files, submit(c, e, files)
        PROVE  Shrinks \/ (Items' = Items /\ ~tooManyItems)
    <2>1. row' = row /\ client' = [client EXCEPT ![c] = [doing |-> "SUBMIT", entry |-> e, files |-> files]]
      BY <1>4 DEF submit, awaits
    <2>2. Items' = Items
      BY <1>1, <2>1 DEF Items, Submitted
    <2>3. CASE e \in records
      BY <1>1, <2>1, <2>2, <2>3 DEF TypeOK, Admitted
    <2>4. CASE e \notin records
      BY <1>4, <2>2, <2>4 DEF submit
    <2> QED BY <2>3, <2>4
  <1>5. ASSUME NEW c \in Clients, addEntry(c)
        PROVE  \/ Shrinks
               \/ \E e \in Entries, d \in Admitted :
                    Items' = Items \union { e } /\ Admitted' = Admitted \ { d }
    <2> DEFINE e == client[c].entry
    <2>1. client[c].doing = "SUBMIT" /\ client[c] # Idle
      BY <1>5 DEF addEntry, Idle
    <2>2. e \in Entries
      BY <2>1, InFlight, PendingFields
    <2>3. PICK newRow : newRow # Absent /\ writes(c, e, newRow)
      BY <1>5 DEF addEntry, Absent
    <2>4. /\ client' = [client EXCEPT ![c] = Idle]
          /\ row' = [row EXCEPT ![e] = newRow]
      BY <2>3 DEF writes
    <2>5. Submitted' = Submitted \union { e }
      BY <2>2, <2>3, <2>4 DEF Submitted, TypeOK
    <2>6. Admitted' = Admitted \ { c }
      BY <1>1, <2>4 DEF TypeOK, Admitted, Idle
    <2>7. CASE e \in records
      BY <1>1, <2>5, <2>6, <2>7 DEF Items
    <2>8. CASE e \notin records
      <3>1. c \in Admitted /\ Items' = Items \union { e }
        BY <1>1, <2>1, <2>5, <2>8 DEF Admitted, Items
      <3> QED BY <2>2, <2>6, <3>1
    <2> QED BY <2>7, <2>8
  <1>6. ASSUME NEW c \in Clients, deleteEntry(c) \/ setFileCid(c) \/ addDeliveredFile(c)
        PROVE  Shrinks
    <2>1. client[c].doing \in { "DELETE", "UPLOAD", "DOWNLOAD" }
      BY <1>6 DEF deleteEntry, setFileCid, addDeliveredFile
    <2>2. client[c] # Idle
      BY <2>1 DEF Idle
    <2>3. client[c].entry \in Entries
      BY <2>2, InFlight, PendingFields
    <2> QED BY <1>3, <1>6, <2>3 DEF deleteEntry, setFileCid, addDeliveredFile
  <1>7. ASSUME NEW c \in Clients, NEW e \in Entries, NEW f,
               cancel(c, e) \/ upload(c, e, f) \/ download(c, e, f)
        PROVE  Shrinks
    BY <1>2, <1>7 DEF cancel, upload, download
  <1>8. ASSUME NEW c \in Clients, findEntry(c) PROVE Shrinks
    BY <1>2, <1>8 DEF findEntry
  <1>9. ASSUME NEW c \in Clients, fails(c) PROVE Shrinks
    <2>1. awaits(c, client[c], Idle) /\ Idle.doing # "SUBMIT"
      BY <1>9 DEF fails, awaits, Idle
    <2> QED BY <1>2, <2>1
  <1>10. CASE confirm
    <2>1. Submitted' \subseteq Submitted /\ client' = client
      BY <1>10 DEF confirm, Submitted, TypeOK
    <2> QED BY <1>1, <2>1 DEF Items, Admitted
  <1>11. CASE \/ \E d \in Entries, files \in SUBSET Files : publish(d, files)
              \/ moveSyncPoint \/ startOver \/ crash \/ UNCHANGED vars
    <2>1. row' = row /\ client' = client
      BY <1>11 DEF publish, moveSyncPoint, startOver, crash, vars
    <2> QED BY <1>1, <2>1 DEF Items, Submitted, Admitted
  <1>12. CASE \E c \in Clients : Request(c)
    <2>1. PICK c \in Clients : Request(c)
      BY <1>12
    <2> HIDE DEF Shrinks
    <2> QED BY <1>1, <1>4, <1>5, <1>6, <1>7, <1>8, <1>9, <2>1 DEF Request, Shrinks
  <1> QED BY <1>1, <1>10, <1>11, <1>12 DEF Next, SyncStep

\* The limit of a collection is passed by no more items than requests are
\* served at the same time, less one, however they overlap: the count of
\* submitItemPublicData and the transaction of addCollectionItem.
THEOREM LimitHolds == Spec => []SizeBounded
  <1>1. Init => SizeBounded
    <2> SUFFICES ASSUME Init PROVE SizeBounded
      OBVIOUS
    <2>1. Items = {} /\ Admitted = {}
      BY DEF Init, Items, Submitted, Admitted, Idle, Absent
    <2>2. countBy = 0 /\ Cardinality(Admitted) = 0
      BY <2>1, FS_EmptySet DEF countBy, Items
    <2>3. TypeOK
      BY Initially DEF Inv
    <2> QED BY <2>2, <2>3, Sizes DEF SizeBounded
  <1> DEFINE Sized == /\ countBy = Cardinality(Items) /\ countBy \in Nat
                     /\ Cardinality(Admitted) \in Nat
                     /\ Cardinality(Admitted) <= Cardinality(Clients)
  <1>2. TypeOK => Sized
    BY Sizes
  <1>3. TypeOK' => Sized'
    BY <1>2, PTL
  <1>4. TypeOK /\ TypeOK' /\ SizeBounded /\ [Next]_vars => SizeBounded'
    <2> SUFFICES ASSUME TypeOK, TypeOK', SizeBounded, [Next]_vars PROVE SizeBounded'
      OBVIOUS
    <2> DEFINE n == Cardinality(Clients)
    <2>1. /\ countBy = Cardinality(Items) /\ countBy \in Nat /\ limit \in Nat
          /\ Cardinality(Admitted) \in Nat /\ n \in Nat
          /\ IsFiniteSet(Items) /\ IsFiniteSet(Admitted)
      BY Sizes
    <2>2. /\ countBy' = Cardinality(Items') /\ countBy' \in Nat
          /\ Cardinality(Admitted') \in Nat /\ Cardinality(Admitted') <= n
      BY <1>3
    <2>3. limit' = limit
      BY SizeMoves DEF limit
    <2>4. countBy + Cardinality(Admitted) <= limit + n - 1
      BY DEF SizeBounded
    <2>5. countBy' + Cardinality(Admitted') <= limit + n - 1
      <3>1. CASE Items' \subseteq Items /\ Admitted' \subseteq Admitted
        <4>1. Cardinality(Items') <= Cardinality(Items)
          BY <2>1, <3>1, FS_Subset
        <4>2. Cardinality(Admitted') <= Cardinality(Admitted)
          BY <2>1, <3>1, FS_Subset
        <4> QED BY <2>1, <2>2, <2>4, <4>1, <4>2
      <3>2. CASE Items' = Items /\ ~tooManyItems
        <4>1. countBy' = countBy /\ countBy < limit
          BY <2>1, <2>2, <3>2 DEF tooManyItems
        <4> QED BY <2>1, <2>2, <4>1
      <3>3. ASSUME NEW e \in Entries, NEW c \in Admitted,
                   Items' = Items \union { e }, Admitted' = Admitted \ { c }
            PROVE  countBy' + Cardinality(Admitted') <= limit + n - 1
        <4>1. Cardinality(Items') <= Cardinality(Items) + 1
          <5> DEFINE m == Cardinality(Items)
          <5>1. Cardinality(Items \union { e }) = IF e \in Items THEN m ELSE m + 1
            BY <2>1, FS_AddElement
          <5>2. m \in Nat /\ m <= m + 1
            BY <2>1
          <5>3. Cardinality(Items') = Cardinality(Items \union { e })
            BY <3>3
          <5> QED BY <5>1, <5>2, <5>3
        <4>2. Cardinality(Admitted') = Cardinality(Admitted) - 1
          BY <2>1, <3>3, FS_RemoveElement
        <4> QED BY <2>1, <2>2, <2>4, <4>1, <4>2
      <3> QED BY <3>1, <3>2, <3>3, SizeMoves
    <2> QED BY <2>3, <2>5 DEF SizeBounded
  <1> QED BY <1>1, <1>4, TypeCorrect, PTL DEF Spec
=============================================================================

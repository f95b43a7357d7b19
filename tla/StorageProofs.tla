---------------------------- MODULE StorageProofs ----------------------------
(***************************************************************************)
(* The safety of stored contents and of delivered copies, for any number   *)
(* of files, requests and imports, any size of the contents and of the     *)
(* read buffer.                                                            *)
(*                                                                         *)
(* The invariant has four parts.  Typed gives the shape of the variables.  *)
(* Contents is about the identifiers that requests carry between a change  *)
(* of a row and one of what is stored.  Written is about a request that    *)
(* has the writer for itself, and Copied about one that has its temporary  *)
(* path for itself: both say what was done up to the step it is in.        *)
(*                                                                         *)
(* What comes back of a content is a second invariant, ReadInv, that is    *)
(* inductive together with the first one: a request that has the reader    *)
(* and its path for itself has read a number of whole buffers of what is   *)
(* stored, or all of it.                                                   *)
(***************************************************************************)
EXTENDS Storage, SequenceTheorems, TLAPS

Steps ==
    { "idle", "open", "pin", "commit", "undo", "lo_import", "lo_commit", "lo_remove" }
      \union Writing \union Downloading

JobShape ==
    job = [c \in Clients |-> [ kind |-> job[c].kind, file |-> job[c].file,
                               id |-> job[c].id, copy |-> job[c].copy ]]

Opened(r) == r = [blocks |-> r.blocks, closed |-> r.closed, final |-> r.final, of |-> r.of]
Shaped(e) == e = [c \in Clients |-> e[c]] /\ \A c \in Clients : Opened(e[c])
EncShape  == Shaped(enc)

Typed ==
    /\ size \in [Files -> Nat]
    /\ pc \in [Clients -> Steps]
    /\ row \in [Files -> FileRow]
    /\ stored \in Seq(ToSet(stored)) /\ Len(stored) <= MaxImports
    /\ JobShape
    /\ \A c \in Clients : pc[c] # "idle" => job[c].file \in Files
    /\ \A c \in Clients : pc[c] = "lo_import" => job[c].file \in LoFiles
    /\ \A c \in Clients : pc[c] = "fetch" /\ job[c].file \in LoFiles => job[c].kind # "DELIVERY"
    /\ \A c \in Clients : pc[c] \in Downloading => job[c].kind \in Kinds
    /\ EncShape
    /\ writer = [file |-> writer.file, cipher |-> writer.cipher]
    /\ met \in [Clients -> SUBSET { "writer", "reader", "path" }]
    /\ fetched = [p \in Paths |-> fetched[p]]
    /\ clear = [p \in Paths |-> clear[p]]
    /\ \A d \in delivered : d.file \in Files \ LoFiles /\ d.owner \in Clients

-----------------------------------------------------------------------------
(***************************************************************************)
(* Contents: the identifiers of rows and requests.                         *)
(***************************************************************************)

CommitAt == { "commit", "lo_commit" }
LoAt     == { "lo_import", "lo_commit", "lo_remove" }

\* The content to commit is stored, of its file, and nobody else's.
Committing ==
    \A c \in Clients : pc[c] \in CommitAt =>
        /\ IsStored(job[c].copy)
        /\ stored[job[c].copy].of = job[c].file
        /\ \A f \in Files : row[f] # job[c].copy
        /\ \A d \in Clients \ { c } : pc[d] \in CommitAt \union { "undo" } => job[d].copy # job[c].copy
        /\ \A d \in Clients : pc[d] \in LoAt => job[d].id # job[c].copy

\* A content to remove is in no row, and will be in none.
Removing ==
    \A c \in Clients : pc[c] = "undo" =>
        /\ job[c].copy \in DOMAIN stored
        /\ \A f \in Files : row[f] # job[c].copy

\* The content that the upload of a legal officer's file replaces is of that
\* file, unless another upload removed it.
Replacing ==
    \A c \in Clients : pc[c] \in LoAt /\ job[c].id \in Ids =>
        /\ job[c].id \in DOMAIN stored
        /\ stored[job[c].id] # Gone => stored[job[c].id].of = job[c].file
        /\ pc[c] = "lo_remove" => \A f \in Files : row[f] # job[c].id

Contents == RowsHaveContent /\ Committing /\ Removing /\ Replacing

-----------------------------------------------------------------------------
(***************************************************************************)
(* Written: the writer of one request.                                     *)
(***************************************************************************)

SaltOf(c) == << Block("salt", c, None) >>

\* what c has written when it alone writes f and is about to do a step
WrittenAt(step, c, f) ==
    CASE step = "key"   -> <<>>
      [] step = "iv"    -> SaltOf(c)
      [] step = "data"  -> Opening(c)
      [] step = "final" -> Opening(c) \o Body(c, f)
      [] OTHER          -> Encrypted(c, f)

Written ==
    \A c \in Clients : "writer" \notin met[c] =>
        /\ pc[c] \in Writing =>
              /\ \A d \in Clients \ { c } : pc[d] \notin Writing
              /\ writer.file = c
              /\ pc[c] # "key" => writer.cipher = c
              /\ pc[c] = "final" => enc[c].of = job[c].file
        /\ pc[c] = "pin" /\ writer.file = c => \A d \in Clients : pc[d] \notin Writing
        /\ pc[c] \in Writing \union { "pin" } => enc[c].blocks = WrittenAt(pc[c], c, job[c].file)

-----------------------------------------------------------------------------
(***************************************************************************)
(* Copied: the path of one request.                                        *)
(***************************************************************************)

Copied ==
    \A c \in Clients : pc[c] \in Downloading /\ "path" \notin met[c] =>
        /\ \A d \in Clients \ { c } : pc[d] \in Downloading => pathOf(d) # pathOf(c)
        /\ pc[c] = "record" => job[c].copy = clear[pathOf(c)]
        /\ pc[c] = "send" /\ job[c].kind = "DELIVERY" =>
              deliveredFile(job[c].file, clear[pathOf(c)], c) \in delivered
        /\ pc[c] = "clean" /\ job[c].kind = "DELIVERY" =>
              deliveredFile(job[c].file, job[c].copy, c) \in delivered

Inv == Typed /\ Contents /\ Written /\ StoredWhole /\ Copied

-----------------------------------------------------------------------------
(***************************************************************************)
(* Sequences of contents, and requests that move on.                       *)
(***************************************************************************)

LEMMA Appended ==
    ASSUME NEW s, s \in Seq(ToSet(s)), NEW x
    PROVE  LET t == Append(s, x)
           IN  /\ t \in Seq(ToSet(t))
               /\ Len(t) = Len(s) + 1 /\ Len(s) \in Nat
               /\ DOMAIN s = 1 .. Len(s) /\ DOMAIN t = 1 .. Len(s) + 1
               /\ \A i \in DOMAIN s : t[i] = s[i]
               /\ t[Len(s) + 1] = x
<1> DEFINE t == Append(s, x)
<1> DEFINE S == ToSet(s) \union { x }
<1>1. s \in Seq(S) /\ x \in S
  BY DEF ToSet
<1>2. /\ t \in Seq(S) /\ Len(t) = Len(s) + 1 /\ Len(s) \in Nat
      /\ DOMAIN s = 1 .. Len(s) /\ DOMAIN t = 1 .. Len(s) + 1
      /\ \A i \in DOMAIN s : t[i] = s[i]
      /\ t[Len(s) + 1] = x
  BY <1>1
<1>3. t \in Seq(ToSet(t))
  BY <1>2 DEF ToSet
<1> QED
  BY <1>2, <1>3

LEMMA Replaced ==
    ASSUME NEW s, s \in Seq(ToSet(s)), NEW i, NEW x
    PROVE  LET t == [s EXCEPT ![i] = x]
           IN  /\ t \in Seq(ToSet(t))
               /\ Len(t) = Len(s) /\ DOMAIN t = DOMAIN s
               /\ \A j \in DOMAIN s : t[j] = IF j = i THEN x ELSE s[j]
<1> DEFINE t == [s EXCEPT ![i] = x]
<1>1. Len(s) \in Nat /\ DOMAIN s = 1 .. Len(s) /\ s = [j \in 1 .. Len(s) |-> s[j]]
  OBVIOUS
<1>2. DOMAIN t = DOMAIN s /\ \A j \in DOMAIN s : t[j] = IF j = i THEN x ELSE s[j]
  BY <1>1
<1>3. t = [j \in 1 .. Len(s) |-> t[j]]
  BY <1>1, <1>2
<1>4. \A j \in 1 .. Len(s) : t[j] \in ToSet(t)
  BY <1>1, <1>2 DEF ToSet
<1> DEFINE T == ToSet(t)
<1>5. t \in [1 .. Len(s) -> T]
  BY <1>3, <1>4
<1>6. \A U, n : n \in Nat => \A u \in [1 .. n -> U] : u \in Seq(U) /\ Len(u) = n
  OBVIOUS
<1>7. t \in Seq(T) /\ Len(t) = Len(s)
  <2> HIDE DEF T, t
  <2> QED  BY <1>1, <1>5, <1>6
<1> QED
  BY <1>2, <1>7

\* what is opened for writing keeps its fields
LEMMA OpenedKept ==
    ASSUME NEW r, Opened(r), NEW b
    PROVE  /\ Opened([r EXCEPT !.blocks = b])
           /\ Opened([r EXCEPT !.closed = b])
           /\ Opened([r EXCEPT !.final = b])
           /\ Opened([r EXCEPT !.of = b])
<1>1. \A x, y, z, u : Opened([blocks |-> x, closed |-> y, final |-> z, of |-> u])
  BY DEF Opened
<1> DEFINE x == r.blocks
<1> DEFINE y == r.closed
<1> DEFINE z == r.final
<1> DEFINE u == r.of
<1>2. r = [blocks |-> x, closed |-> y, final |-> z, of |-> u]
  BY DEF Opened
<1> HIDE DEF x, y, z, u
<1>3. /\ [r EXCEPT !.blocks = b] = [blocks |-> b, closed |-> y, final |-> z, of |-> u]
      /\ [r EXCEPT !.closed = b] = [blocks |-> x, closed |-> b, final |-> z, of |-> u]
      /\ [r EXCEPT !.final = b] = [blocks |-> x, closed |-> y, final |-> b, of |-> u]
      /\ [r EXCEPT !.of = b] = [blocks |-> x, closed |-> y, final |-> z, of |-> b]
  BY <1>2
<1> QED
  BY <1>1, <1>3

LEMMA ShapeKept ==
    ASSUME NEW e, Shaped(e), NEW w, NEW b
    PROVE  /\ Shaped([e EXCEPT ![w].blocks = b])
           /\ Shaped([e EXCEPT ![w].closed = b])
           /\ Shaped([e EXCEPT ![w].final = b])
           /\ Shaped([e EXCEPT ![w].of = b])
<1>1. CASE w \in Clients
  <2>1. /\ Opened([e[w] EXCEPT !.blocks = b]) /\ Opened([e[w] EXCEPT !.closed = b])
        /\ Opened([e[w] EXCEPT !.final = b]) /\ Opened([e[w] EXCEPT !.of = b])
    BY <1>1, OpenedKept DEF Shaped
  <2>2. Shaped([e EXCEPT ![w].blocks = b])
    BY <1>1, <2>1 DEF Shaped
  <2>3. Shaped([e EXCEPT ![w].closed = b])
    BY <1>1, <2>1 DEF Shaped
  <2>4. Shaped([e EXCEPT ![w].final = b])
    BY <1>1, <2>1 DEF Shaped
  <2>5. Shaped([e EXCEPT ![w].of = b])
    BY <1>1, <2>1 DEF Shaped
  <2> QED
    BY <2>2, <2>3, <2>4, <2>5
<1>2. CASE w \notin Clients
  <2>1. /\ [e EXCEPT ![w].blocks = b] = e /\ [e EXCEPT ![w].closed = b] = e
        /\ [e EXCEPT ![w].final = b] = e /\ [e EXCEPT ![w].of = b] = e
    BY <1>2 DEF Shaped
  <2> QED
    BY <2>1
<1> QED
  BY <1>1, <1>2

\* c moves from a step to another, the others stay where they are.
LEMMA Going ==
    ASSUME pc \in [Clients -> Steps], NEW c \in Clients, NEW from, NEW to \in Steps, goto(c, from, to)
    PROVE  /\ pc[c] = from /\ pc'[c] = to
           /\ \A d \in Clients \ { c } : pc'[d] = pc[d]
           /\ pc' \in [Clients -> Steps]
BY DEF goto

LEMMA CopyKept ==
    ASSUME JobShape, NEW c \in Clients, NEW copy, job' = [job EXCEPT ![c].copy = copy]
    PROVE  /\ JobShape'
           /\ job'[c].copy = copy
           /\ \A d \in Clients : /\ job'[d].kind = job[d].kind /\ job'[d].file = job[d].file
                                 /\ job'[d].id = job[d].id
           /\ \A d \in Clients \ { c } : job'[d] = job[d]
BY DEF JobShape

-----------------------------------------------------------------------------
(***************************************************************************)
(* The steps that touch rows or what is stored.                            *)
(***************************************************************************)

HasIds == CommitAt \union LoAt \union { "undo" }

Same(c) ==
    /\ pc'[c] = pc[c]
    /\ job'[c].kind = job[c].kind /\ job'[c].file = job[c].file
    /\ job'[c].id = job[c].id /\ job'[c].copy = job[c].copy

LEMMA ContentsQuiet ==
    ASSUME Contents, row' = row, stored' = stored,
           \A c \in Clients : Same(c) \/ pc'[c] \notin HasIds
    PROVE  Contents'
<1>1. RowsHaveContent'
  BY DEF Contents, RowsHaveContent, IsStored
<1>2. Committing'
  BY DEF Contents, Committing, IsStored, Same, HasIds
<1>3. Removing'
  BY DEF Contents, Removing, Same, HasIds
<1>4. Replacing'
  BY DEF Contents, Replacing, Same, HasIds, LoAt
<1> QED
  BY <1>1, <1>2, <1>3, <1>4 DEF Contents

\* A new content is nobody's, but of the request that stored it.
LEMMA ContentsImport ==
    ASSUME Typed, Contents, NEW c \in Clients, NEW content,
           row' = row, stored' = Append(stored, content), Len(stored) < MaxImports,
           content # Gone, content.of = job[c].file,
           pc[c] \in { "pin", "lo_import" },
           pc'[c] \in CommitAt, pc[c] # "lo_import" => pc'[c] = "commit",
           job'[c].file = job[c].file, job'[c].id = job[c].id, job'[c].copy = Len(stored) + 1,
           \A d \in Clients \ { c } : Same(d)
    PROVE  Contents'
<1> DEFINE new == Len(stored) + 1
<1>0. /\ DOMAIN stored = 1 .. Len(stored) /\ DOMAIN stored' = 1 .. Len(stored) + 1
      /\ Len(stored) \in Nat
      /\ \A i \in DOMAIN stored : stored'[i] = stored[i]
      /\ stored'[new] = content
  BY Appended DEF Typed
<1>1. new \in Ids /\ new \notin DOMAIN stored /\ new \in DOMAIN stored'
  BY <1>0, StorageAssumption DEF Ids
<1>2. \A i \in DOMAIN stored : i \in DOMAIN stored' /\ i # new
  BY <1>0
<1> HIDE DEF new
<1>3. \A f \in Files : row[f] # new
  BY <1>1 DEF Contents, RowsHaveContent, IsStored
<1>4. \A d \in Clients : pc[d] \in LoAt => job[d].id # new
  BY <1>1 DEF Contents, Replacing
<1>5. \A d \in Clients : pc[d] \in CommitAt \union { "undo" } => job[d].copy # new
  BY <1>1 DEF Contents, Committing, Removing, IsStored
<1>6. RowsHaveContent'
  BY <1>0, <1>2 DEF Contents, RowsHaveContent, IsStored
<1>7. job'[c].copy = new
  BY DEF new
<1>8. Committing'
  <2> SUFFICES ASSUME NEW d \in Clients, pc'[d] \in CommitAt
               PROVE  /\ IsStored(job[d].copy)'
                      /\ (stored[job[d].copy].of = job[d].file)'
                      /\ \A f \in Files : row[f] # job'[d].copy
                      /\ \A e \in Clients \ { d } :
                            pc'[e] \in CommitAt \union { "undo" } => job'[e].copy # job'[d].copy
                      /\ \A e \in Clients : pc'[e] \in LoAt => job'[e].id # job'[d].copy
    BY DEF Committing
  <2>1. CASE d = c
    <3>1. IsStored(job[d].copy)' /\ (stored[job[d].copy].of = job[d].file)'
      BY <2>1, <1>0, <1>1, <1>7 DEF IsStored
    <3>2. \A e \in Clients \ { d } :
             pc'[e] \in CommitAt \union { "undo" } => job'[e].copy # job'[d].copy
      BY <2>1, <1>5, <1>7 DEF Same
    <3>3. pc'[c] \in LoAt => pc[c] \in LoAt
      BY DEF CommitAt, LoAt
    <3>4. \A e \in Clients : pc'[e] \in LoAt => job'[e].id # job'[d].copy
      BY <2>1, <1>4, <1>7, <3>3 DEF Same
    <3> QED
      BY <3>1, <3>2, <3>4, <1>3, <1>7, <2>1
  <2>2. CASE d # c
    <3>1. /\ pc[d] \in CommitAt /\ job'[d].copy = job[d].copy /\ job'[d].file = job[d].file
      BY <2>2 DEF Same
    <3>2. /\ job[d].copy \in DOMAIN stored /\ stored[job[d].copy] # Gone
          /\ stored[job[d].copy].of = job[d].file
          /\ \A f \in Files : row[f] # job[d].copy
          /\ \A e \in Clients \ { d } : pc[e] \in CommitAt \union { "undo" } => job[e].copy # job[d].copy
          /\ \A e \in Clients : pc[e] \in LoAt => job[e].id # job[d].copy
      BY <3>1 DEF Contents, Committing, IsStored
    <3>3. IsStored(job[d].copy)' /\ (stored[job[d].copy].of = job[d].file)'
      BY <3>1, <3>2, <1>0, <1>2 DEF IsStored
    <3>4. \A e \in Clients \ { d } :
             pc'[e] \in CommitAt \union { "undo" } => job'[e].copy # job'[d].copy
      BY <3>1, <3>2, <1>2, <1>7 DEF Same
    <3>5. pc'[c] \in LoAt => pc[c] \in LoAt
      BY DEF CommitAt, LoAt
    <3>6. \A e \in Clients : pc'[e] \in LoAt => job'[e].id # job'[d].copy
      BY <3>1, <3>2, <3>5 DEF Same
    <3> QED
      BY <3>1, <3>2, <3>3, <3>4, <3>6
  <2> QED
    BY <2>1, <2>2
<1>9. Removing'
  <2> SUFFICES ASSUME NEW d \in Clients, pc'[d] = "undo"
               PROVE  /\ job'[d].copy \in DOMAIN stored'
                      /\ \A f \in Files : row[f] # job'[d].copy
    BY DEF Removing
  <2>1. d # c
    BY DEF CommitAt
  <2> QED
    BY <2>1, <1>2 DEF Same, Contents, Removing
<1>10. Replacing'
  <2> SUFFICES ASSUME NEW d \in Clients, pc'[d] \in LoAt, job'[d].id \in Ids
               PROVE  /\ job'[d].id \in DOMAIN stored'
                      /\ stored'[job'[d].id] # Gone => stored'[job'[d].id].of = job'[d].file
                      /\ pc'[d] = "lo_remove" => \A f \in Files : row[f] # job'[d].id
    BY DEF Replacing
  <2>1. /\ pc[d] \in LoAt /\ job'[d].id = job[d].id /\ job'[d].file = job[d].file
        /\ pc'[d] = "lo_remove" => pc[d] = "lo_remove"
    BY DEF Same, LoAt, CommitAt
  <2> QED
    BY <2>1, <1>0, <1>2 DEF Contents, Replacing
<1> QED
  BY <1>6, <1>8, <1>9, <1>10 DEF Contents

\* A row gets the content that its request committed.
LEMMA ContentsCommit ==
    ASSUME Typed, Contents, NEW c \in Clients, pc[c] \in CommitAt, job[c].file \in Files,
           stored' = stored, job' = job, row' = [row EXCEPT ![job[c].file] = job[c].copy],
           pc'[c] = IF pc[c] = "commit" THEN "idle" ELSE "lo_remove",
           \A d \in Clients \ { c } : pc'[d] = pc[d]
    PROVE  Contents'
<1> DEFINE f0 == job[c].file
<1>0. /\ IsStored(job[c].copy) /\ stored[job[c].copy].of = f0
      /\ \A f \in Files : row[f] # job[c].copy
      /\ \A d \in Clients \ { c } : pc[d] \in CommitAt \union { "undo" } => job[d].copy # job[c].copy
      /\ \A d \in Clients : pc[d] \in LoAt => job[d].id # job[c].copy
  BY DEF Contents, Committing
<1>1. \A f \in Files : row'[f] = IF f = f0 THEN job[c].copy ELSE row[f]
  BY DEF Typed
<1>2. pc'[c] \notin CommitAt \union { "undo" }
  BY DEF CommitAt
<1>3. RowsHaveContent'
  BY <1>0, <1>1 DEF Contents, RowsHaveContent, IsStored
<1>4. Committing'
  <2>1. pc'[c] \in LoAt => pc[c] \in LoAt
    BY DEF CommitAt, LoAt
  <2> QED
    BY <1>0, <1>1, <1>2, <2>1 DEF Contents, Committing, IsStored
<1>5. Removing'
  BY <1>0, <1>1, <1>2 DEF Contents, Removing
<1>6. Replacing'
  <2> SUFFICES ASSUME NEW d \in Clients, pc'[d] \in LoAt, job[d].id \in Ids
               PROVE  /\ job[d].id \in DOMAIN stored
                      /\ stored[job[d].id] # Gone => stored[job[d].id].of = job[d].file
                      /\ pc'[d] = "lo_remove" => \A f \in Files : row'[f] # job[d].id
    BY DEF Replacing
  <2>1. pc[d] \in LoAt
    BY DEF CommitAt, LoAt
  <2>2. /\ job[d].id \in DOMAIN stored
        /\ stored[job[d].id] # Gone => stored[job[d].id].of = job[d].file
    BY <2>1 DEF Contents, Replacing
  <2>3. ASSUME pc'[d] = "lo_remove", NEW f \in Files
        PROVE  row'[f] # job[d].id
    <3>1. job[d].id # job[c].copy
      BY <2>1, <1>0
    <3>2. CASE f # f0 /\ d = c
      <4>1. row[f] = job[d].id => IsStored(row[f]) /\ stored[row[f]].of = f
        BY DEF Contents, RowsHaveContent
      <4> QED
        BY <3>2, <4>1, <2>2, <1>1 DEF IsStored
    <3>3. CASE f # f0 /\ d # c
      <4>1. pc[d] = "lo_remove"
        BY <2>3, <3>3
      <4> QED
        BY <4>1, <2>1, <3>3, <1>1 DEF Contents, Replacing
    <3> QED
      BY <3>1, <3>2, <3>3, <1>1
  <2> QED
    BY <2>2, <2>3
<1> QED
  BY <1>3, <1>4, <1>5, <1>6 DEF Contents

\* A row loses its content, which its request is now to remove.
LEMMA ContentsDelete ==
    ASSUME Typed, Contents, NEW c \in Clients, NEW f \in Files, row[f] \in Ids,
           pc[c] = "idle", pc'[c] = "undo", job'[c].copy = row[f],
           stored' = stored, row' = [row EXCEPT ![f] = Absent],
           \A d \in Clients \ { c } : Same(d)
    PROVE  Contents'
<1>1. \A g \in Files : row'[g] = IF g = f THEN Absent ELSE row[g]
  BY DEF Typed
<1>2. Absent \notin Nat /\ Ids \subseteq Nat
  BY StorageAssumption DEF Ids
<1>3. pc'[c] \notin CommitAt \union LoAt
  BY DEF CommitAt, LoAt
<1>4. \A d \in Clients : pc'[d] \in CommitAt \union LoAt => d # c /\ Same(d)
  BY <1>3
<1>5. IsStored(row[f]) /\ stored[row[f]].of = f
  BY DEF Contents, RowsHaveContent
<1>6. RowsHaveContent'
  <2> SUFFICES ASSUME NEW g \in Files, row'[g] \in Ids
               PROVE  IsStored(row'[g]) /\ stored[row'[g]].of = g
    BY DEF RowsHaveContent, IsStored
  <2>1. row'[g] = row[g]
    BY <1>1, <1>2
  <2> QED
    BY <2>1 DEF Contents, RowsHaveContent
<1>7. \A d \in Clients : pc[d] \in CommitAt => DOMAIN stored \subseteq Nat /\ job[d].copy \in Nat
  <2>1. DOMAIN stored \subseteq Nat
    BY DEF Typed
  <2> QED
    BY <2>1 DEF Contents, Committing, IsStored
<1>8. Committing'
  <2> SUFFICES ASSUME NEW d \in Clients, pc'[d] \in CommitAt
               PROVE  /\ IsStored(job'[d].copy)
                      /\ stored[job'[d].copy].of = job'[d].file
                      /\ \A g \in Files : row'[g] # job'[d].copy
                      /\ \A e \in Clients \ { d } :
                            pc'[e] \in CommitAt \union { "undo" } => job'[e].copy # job'[d].copy
                      /\ \A e \in Clients : pc'[e] \in LoAt => job'[e].id # job'[d].copy
    BY DEF Committing, IsStored
  <2>1. d # c /\ pc[d] \in CommitAt /\ job'[d].copy = job[d].copy /\ job'[d].file = job[d].file
    BY <1>4 DEF Same
  <2>2. /\ IsStored(job[d].copy) /\ stored[job[d].copy].of = job[d].file
        /\ \A g \in Files : row[g] # job[d].copy
        /\ \A e \in Clients \ { d } : pc[e] \in CommitAt \union { "undo" } => job[e].copy # job[d].copy
        /\ \A e \in Clients : pc[e] \in LoAt => job[e].id # job[d].copy
    BY <2>1 DEF Contents, Committing
  <2>3. \A g \in Files : row'[g] # job'[d].copy
    BY <2>1, <2>2, <1>1, <1>2, <1>7
  <2>4. \A e \in Clients \ { d } :
           pc'[e] \in CommitAt \union { "undo" } => job'[e].copy # job'[d].copy
    BY <2>1, <2>2 DEF Same
  <2>5. \A e \in Clients : pc'[e] \in LoAt => job'[e].id # job'[d].copy
    BY <2>1, <2>2, <1>4 DEF Same
  <2> QED
    BY <2>1, <2>2, <2>3, <2>4, <2>5
<1>9. Removing'
  <2> SUFFICES ASSUME NEW d \in Clients, pc'[d] = "undo"
               PROVE  /\ job'[d].copy \in DOMAIN stored
                      /\ \A g \in Files : row'[g] # job'[d].copy
    BY DEF Removing
  <2>1. DOMAIN stored \subseteq Nat
    BY DEF Typed
  <2>2. CASE d = c
    <3>1. \A g \in Files \ { f } : row[g] # row[f]
      BY <1>5 DEF Contents, RowsHaveContent
    <3> QED
      BY <2>2, <3>1, <1>1, <1>2, <1>5 DEF IsStored
  <2>3. CASE d # c
    BY <2>1, <2>3, <1>1, <1>2 DEF Same, Contents, Removing
  <2> QED
    BY <2>2, <2>3
<1>10. Replacing'
  <2> SUFFICES ASSUME NEW d \in Clients, pc'[d] \in LoAt, job'[d].id \in Ids
               PROVE  /\ job'[d].id \in DOMAIN stored
                      /\ stored[job'[d].id] # Gone => stored[job'[d].id].of = job'[d].file
                      /\ pc'[d] = "lo_remove" => \A g \in Files : row'[g] # job'[d].id
    BY DEF Replacing
  <2>1. Same(d) /\ pc[d] \in LoAt /\ job[d].id \in Ids
    BY <1>4 DEF Same
  <2>2. /\ job[d].id \in DOMAIN stored
        /\ stored[job[d].id] # Gone => stored[job[d].id].of = job[d].file
        /\ pc[d] = "lo_remove" => \A g \in Files : row[g] # job[d].id
    BY <2>1 DEF Contents, Replacing
  <2>3. job[d].id # Absent
    BY <2>1, <1>2
  <2> QED
    BY <2>1, <2>2, <2>3, <1>1 DEF Same
<1> QED
  BY <1>6, <1>8, <1>9, <1>10 DEF Contents

\* A content that is in no row, and that nobody is to commit, is removed.
LEMMA ContentsRemove ==
    ASSUME Typed, Contents, NEW c \in Clients, NEW id, id \in Ids => id \in DOMAIN stored,
           \A f \in Files : row[f] \in Ids => row[f] # id,
           \A d \in Clients : pc[d] \in CommitAt => job[d].copy # id,
           stored' = [stored EXCEPT ![id] = Gone], row' = row, job' = job,
           pc'[c] = "idle", \A d \in Clients \ { c } : pc'[d] = pc[d]
    PROVE  Contents'
<1>1. /\ DOMAIN stored' = DOMAIN stored
      /\ \A i \in DOMAIN stored : stored'[i] = IF i = id THEN Gone ELSE stored[i]
  BY Replaced DEF Typed
<1>2. pc'[c] \notin CommitAt \union LoAt \union { "undo" }
  BY DEF CommitAt, LoAt
<1>3. RowsHaveContent'
  BY <1>1 DEF Contents, RowsHaveContent, IsStored
<1>4. Committing'
  BY <1>1, <1>2 DEF Contents, Committing, IsStored
<1>5. Removing'
  BY <1>1, <1>2 DEF Contents, Removing
<1>6. Replacing'
  BY <1>1, <1>2 DEF Contents, Replacing
<1> QED
  BY <1>3, <1>4, <1>5, <1>6 DEF Contents

\* The upload of a legal officer's file reads what it will replace.
LEMMA ContentsRead ==
    ASSUME Typed, Contents, NEW c \in Clients, NEW f \in Files,
           pc'[c] = "lo_import", job'[c].id = row[f], job'[c].file = f,
           stored' = stored, row' = row,
           \A d \in Clients \ { c } : Same(d)
    PROVE  Contents'
<1>1. pc'[c] \notin CommitAt \union { "undo", "lo_remove" }
  BY DEF CommitAt
<1>2. RowsHaveContent' /\ Removing'
  BY <1>1 DEF Contents, RowsHaveContent, Removing, IsStored, Same
<1>3. Committing'
  BY <1>1 DEF Contents, Committing, IsStored, Same
<1>4. Replacing'
  BY <1>1 DEF Contents, Replacing, RowsHaveContent, IsStored, Same
<1> QED
  BY <1>2, <1>3, <1>4 DEF Contents

-----------------------------------------------------------------------------
(***************************************************************************)
(* The steps of the writer.                                                *)
(***************************************************************************)

Blocks == [part : { "salt", "iv", "body", "last" }, by : Clients, of : Files \union { None }]

LEMMA PrefixOfConcat ==
    ASSUME NEW S, NEW s \in Seq(S), NEW u \in Seq(S)
    PROVE  IsPrefix(s, s \o u)
<1>1. /\ s \o u \in Seq(S) /\ Len(s \o u) = Len(s) + Len(u)
      /\ Len(s) \in Nat /\ Len(u) \in Nat
      /\ \A i \in 1 .. Len(s) : (s \o u)[i] = s[i]
  OBVIOUS
<1> DEFINE t == s \o u
<1>2. t \in Seq(S) /\ Len(s) <= Len(t) /\ \A i \in 1 .. Len(s) : t[i] = s[i]
  BY <1>1
<1> HIDE DEF t
<1>3. SubSeq(s, 1, Len(s)) = SubSeq(t, 1, Len(s))
  <2>1. SubSeq(s, 1, Len(s)) = [i \in 1 .. Len(s) |-> s[i]]
    BY <1>1
  <2>2. SubSeq(t, 1, Len(s)) = [i \in 1 .. Len(s) |-> t[i]]
    BY <1>1, <1>2
  <2> QED
    BY <2>1, <2>2, <1>2
<1>4. IsPrefix(s, t)
  BY <1>2, <1>3 DEF IsPrefix
<1> QED
  BY <1>4 DEF t

LEMMA TwoBlocks ==
    ASSUME NEW S, NEW x \in S, NEW y \in S
    PROVE  << x >> \o << y >> = << x, y >>
<1> DEFINE t == << x >> \o << y >>
<1>1. /\ << x >> \in Seq(S) /\ << y >> \in Seq(S) /\ Len(<< x >>) = 1 /\ Len(<< y >>) = 1
      /\ << x >>[1] = x /\ << y >>[1] = y
  OBVIOUS
<1>2. /\ t \in Seq(S) /\ Len(t) = Len(<< x >>) + Len(<< y >>)
      /\ \A i \in 1 .. Len(<< x >>) + Len(<< y >>) :
            t[i] = IF i <= Len(<< x >>) THEN << x >>[i] ELSE << y >>[i - Len(<< x >>)]
  BY <1>1, ConcatProperties
<1> HIDE DEF t
<1>3. t \in Seq(S) /\ Len(t) = 2 /\ t[1] = x /\ t[2] = y
  BY <1>2, <1>1
<1>4. t = [i \in 1 .. 2 |-> t[i]] /\ << x, y >> = [i \in 1 .. 2 |-> IF i = 1 THEN x ELSE y]
  BY <1>3
<1>5. t = << x, y >>
  BY <1>3, <1>4
<1> QED
  BY <1>5 DEF t

LEMMA WrittenParts ==
    ASSUME Typed, NEW c \in Clients, NEW f \in Files
    PROVE  /\ SaltOf(c) \in Seq(Blocks) /\ Opening(c) \in Seq(Blocks)
           /\ Body(c, f) \in Seq(Blocks)
           /\ << Block("iv", c, None) >> \in Seq(Blocks)
           /\ << Block("last", c, f) >> \in Seq(Blocks)
           /\ SaltOf(c) \o << Block("iv", c, None) >> = Opening(c)
<1>1. \A p \in { "salt", "iv", "body", "last" }, g \in Files \union { None } : Block(p, c, g) \in Blocks
  BY DEF Block, Blocks
<1>2. size[f] \in Nat
  BY DEF Typed
<1>3. Body(c, f) \in [1 .. size[f] -> Blocks]
  BY <1>1 DEF Body
<1>4. Body(c, f) \in Seq(Blocks)
  BY <1>2, <1>3
<1> DEFINE x == Block("salt", c, None)
<1> DEFINE y == Block("iv", c, None)
<1> DEFINE z == Block("last", c, f)
<1>5. x \in Blocks /\ y \in Blocks /\ z \in Blocks
  BY <1>1
<1>6. SaltOf(c) = << x >> /\ Opening(c) = << x, y >>
  BY DEF SaltOf, Opening
<1> HIDE DEF x, y, z
<1>7. << x >> \in Seq(Blocks) /\ << y >> \in Seq(Blocks) /\ << x, y >> \in Seq(Blocks)
      /\ << z >> \in Seq(Blocks)
  BY <1>5
<1>8. << x >> \o << y >> = << x, y >>
  BY <1>5, TwoBlocks
<1>9. << y >> = << Block("iv", c, None) >> /\ << z >> = << Block("last", c, f) >>
  BY DEF y, z
<1> QED
  BY <1>4, <1>6, <1>7, <1>8, <1>9

LEMMA WrittenIsPrefix ==
    ASSUME Typed, NEW c \in Clients, NEW f \in Files,
           NEW step \in { "iv", "data", "final", "close" }
    PROVE  IsPrefix(WrittenAt(step, c, f), Encrypted(c, f))
<1> DEFINE iv == << Block("iv", c, None) >>
<1> DEFINE last == << Block("last", c, f) >>
<1> DEFINE body == Body(c, f)
<1> DEFINE salt == SaltOf(c)
<1>1. /\ salt \in Seq(Blocks) /\ iv \in Seq(Blocks) /\ body \in Seq(Blocks) /\ last \in Seq(Blocks)
      /\ Opening(c) = salt \o iv /\ Opening(c) \in Seq(Blocks)
  BY WrittenParts
<1>2. Encrypted(c, f) = (Opening(c) \o body) \o last
  BY DEF Encrypted
<1> HIDE DEF iv, last, body, salt
<1>3. (Opening(c) \o body) \o last = Opening(c) \o (body \o last)
  BY <1>1
<1>4. Opening(c) \o (body \o last) = salt \o (iv \o (body \o last))
  BY <1>1
<1>5. /\ body \o last \in Seq(Blocks) /\ iv \o (body \o last) \in Seq(Blocks)
      /\ Opening(c) \o body \in Seq(Blocks) /\ Encrypted(c, f) \in Seq(Blocks)
      /\ <<>> \in Seq(Blocks) /\ Encrypted(c, f) \o <<>> = Encrypted(c, f)
  BY <1>1, <1>2
<1>6. CASE step = "iv"
  <2>1. WrittenAt(step, c, f) = salt
    BY <1>6 DEF WrittenAt, salt
  <2>2. IsPrefix(salt, salt \o (iv \o (body \o last)))
    BY <1>1, <1>5, PrefixOfConcat
  <2> QED
    BY <2>1, <2>2, <1>2, <1>3, <1>4
<1>7. CASE step = "data"
  <2>1. WrittenAt(step, c, f) = Opening(c)
    BY <1>7 DEF WrittenAt
  <2>2. IsPrefix(Opening(c), Opening(c) \o (body \o last))
    BY <1>1, <1>5, PrefixOfConcat
  <2> QED
    BY <2>1, <2>2, <1>2, <1>3
<1>8. CASE step = "final"
  <2>1. WrittenAt(step, c, f) = Opening(c) \o body
    BY <1>8 DEF WrittenAt, body
  <2>2. IsPrefix(Opening(c) \o body, (Opening(c) \o body) \o last)
    BY <1>1, <1>5, PrefixOfConcat
  <2> QED
    BY <2>1, <2>2, <1>2
<1>9. CASE step = "close"
  <2>1. WrittenAt(step, c, f) = Encrypted(c, f)
    BY <1>9 DEF WrittenAt
  <2>2. IsPrefix(Encrypted(c, f), Encrypted(c, f) \o <<>>)
    BY <1>5, PrefixOfConcat
  <2> QED
    BY <2>1, <2>2, <1>5
<1> QED
  BY <1>6, <1>7, <1>8, <1>9

\* A request that has the writer for itself extends what it wrote.
LEMMA Extending ==
    ASSUME Typed, NEW c \in Clients, NEW f \in Files, NEW more,
           NEW from, NEW to \in { "iv", "data", "final", "close" },
           WrittenAt(from, c, f) \o more = WrittenAt(to, c, f)
    PROVE  extended(WrittenAt(from, c, f), more) = WrittenAt(to, c, f)
<1>1. IsPrefix(WrittenAt(to, c, f), Encrypted(c, f))
  BY WrittenIsPrefix
<1> DEFINE all == WrittenAt(from, c, f) \o more
<1>2. \E d \in Clients, g \in Files : IsPrefix(all, Encrypted(d, g))
  BY <1>1
<1>3. extended(WrittenAt(from, c, f), more) = orGarbled(all, TRUE)
  BY <1>2 DEF extended, orGarbled
<1> QED
  BY <1>3 DEF orGarbled

LEMMA WrittenQuiet ==
    ASSUME Written, size' = size, writer' = writer,
           \A c \in Clients : pc'[c] \in Writing \union { "pin" } =>
              /\ Same(c) /\ enc'[c] = enc[c]
              /\ "writer" \in met[c] => "writer" \in met'[c]
    PROVE  Written'
<1>1. \A c \in Clients : WrittenAt(pc[c], c, job[c].file)' = WrittenAt(pc'[c], c, job'[c].file)
  BY DEF WrittenAt, Encrypted, Body
<1> SUFFICES ASSUME NEW c \in Clients, "writer" \notin met'[c]
             PROVE  /\ pc'[c] \in Writing =>
                          /\ \A d \in Clients \ { c } : pc'[d] \notin Writing
                          /\ writer'.file = c
                          /\ pc'[c] # "key" => writer'.cipher = c
                          /\ pc'[c] = "final" => enc'[c].of = job'[c].file
                    /\ pc'[c] = "pin" /\ writer'.file = c => \A d \in Clients : pc'[d] \notin Writing
                    /\ pc'[c] \in Writing \union { "pin" } =>
                          enc'[c].blocks = WrittenAt(pc[c], c, job[c].file)'
  BY DEF Written
<1>2. CASE pc'[c] \in Writing \union { "pin" }
  <2>1. /\ "writer" \notin met[c] /\ pc[c] = pc'[c] /\ job'[c].file = job[c].file /\ enc'[c] = enc[c]
    BY <1>2 DEF Same
  <2>2. \A d \in Clients : pc'[d] \in Writing => pc[d] \in Writing
    BY DEF Same
  <2>3. WrittenAt(pc[c], c, job[c].file)' = WrittenAt(pc[c], c, job[c].file)
    BY <2>1, <1>1
  <2> QED
    BY <2>1, <2>2, <2>3 DEF Written
<1>3. CASE pc'[c] \notin Writing \union { "pin" }
  BY <1>3
<1> QED
  BY <1>2, <1>3

LEMMA WriterMoves ==
    ASSUME Written, NEW c \in Clients, NEW to \in Steps,
           pc[c] \in Writing, pc'[c] = to, to \in { "iv", "data", "final", "close", "pin" },
           \A d \in Clients \ { c } : pc'[d] = pc[d],
           size' = size, job' = job, met' = met,
           writer'.file = writer.file,
           writer'.cipher = IF pc[c] = "key" THEN c ELSE writer.cipher,
           \A d \in Clients : d # writer.file => enc'[d].blocks = enc[d].blocks,
           "writer" \notin met[c] =>
              /\ enc'[c].blocks = WrittenAt(to, c, job[c].file)
              /\ to = "final" => enc'[c].of = job[c].file
    PROVE  Written'
<1>1. \A d \in Clients : WrittenAt(pc[d], d, job[d].file)' = WrittenAt(pc'[d], d, job'[d].file)
  BY DEF WrittenAt, Encrypted, Body
<1>2. \A d \in Clients \ { c } : "writer" \notin met[d] => pc[d] \notin Writing
  BY DEF Written
<1> SUFFICES ASSUME NEW d \in Clients, "writer" \notin met[d]
             PROVE  /\ pc'[d] \in Writing =>
                          /\ \A e \in Clients \ { d } : pc'[e] \notin Writing
                          /\ writer'.file = d
                          /\ pc'[d] # "key" => writer'.cipher = d
                          /\ pc'[d] = "final" => enc'[d].of = job[d].file
                    /\ pc'[d] = "pin" /\ writer'.file = d => \A e \in Clients : pc'[e] \notin Writing
                    /\ pc'[d] \in Writing \union { "pin" } =>
                          enc'[d].blocks = WrittenAt(pc[d], d, job[d].file)'
  BY DEF Written
<1>3. CASE d = c
  <2>1. /\ \A e \in Clients \ { c } : pc[e] \notin Writing
        /\ writer.file = c
        /\ pc[c] # "key" => writer.cipher = c
    BY <1>3 DEF Written
  <2>2. to = "pin" => to \notin Writing
    BY DEF Writing
  <2>3. WrittenAt(pc[d], d, job[d].file)' = WrittenAt(to, c, job[c].file)
    BY <1>1, <1>3
  <2> QED
    BY <2>1, <2>2, <2>3, <1>3
<1>4. CASE d # c
  <2>1. pc'[d] = pc[d] /\ pc[d] \notin Writing
    BY <1>4, <1>2
  <2>2. pc[d] = "pin" => writer.file # d
    BY <1>4 DEF Written
  <2>3. WrittenAt(pc[d], d, job[d].file)' = WrittenAt(pc[d], d, job[d].file)
    BY <2>1, <1>1
  <2> QED
    BY <2>1, <2>2, <2>3 DEF Written
<1> QED
  BY <1>3, <1>4

LEMMA Met ==
    ASSUME Typed, NEW c \in Clients, NEW others \in SUBSET Clients,
           NEW where \in { "writer", "reader", "path" }, meets(c, others, where)
    PROVE  /\ met' \in [Clients -> SUBSET { "writer", "reader", "path" }]
           /\ where \in met'[c] <=> others # {}
           /\ \A d \in Clients \ { c } : where \in met'[d] <=> where \in met[d] \/ d \in others
           /\ \A d \in Clients, w \in { "writer", "reader", "path" } \ { where } :
                 w \in met'[d] <=> w \in met[d]
BY DEF meets, Typed

LEMMA WriterOpens ==
    ASSUME Typed, Written, NEW c \in Clients, writerOpen(c), size' = size, job' = job
    PROVE  Written'
<1> DEFINE others == { d \in Clients \ { c } : pc[d] \in Writing }
<1>1. /\ "writer" \in met'[c] <=> others # {}
      /\ \A d \in Clients \ { c } : "writer" \in met'[d] <=> "writer" \in met[d] \/ d \in others
  BY Met DEF writerOpen
<1>2. /\ pc[c] = "open" /\ pc'[c] = "key"
      /\ \A d \in Clients \ { c } : pc'[d] = pc[d]
  BY Going DEF writerOpen, Typed, Steps, Writing
<1>3. /\ writer'.file = c
      /\ enc'[c].blocks = <<>>
      /\ \A d \in Clients \ { c } : enc'[d] = enc[d]
  BY DEF writerOpen, Typed, EncShape, Shaped, NotWriting
<1>4. \A d \in Clients : WrittenAt(pc[d], d, job[d].file)' = WrittenAt(pc'[d], d, job[d].file)
  BY DEF WrittenAt, Encrypted, Body
<1> SUFFICES ASSUME NEW d \in Clients, "writer" \notin met'[d]
             PROVE  /\ pc'[d] \in Writing =>
                          /\ \A e \in Clients \ { d } : pc'[e] \notin Writing
                          /\ writer'.file = d
                          /\ pc'[d] # "key" => writer'.cipher = d
                          /\ pc'[d] = "final" => enc'[d].of = job[d].file
                    /\ pc'[d] = "pin" /\ writer'.file = d => \A e \in Clients : pc'[e] \notin Writing
                    /\ pc'[d] \in Writing \union { "pin" } =>
                          enc'[d].blocks = WrittenAt(pc[d], d, job[d].file)'
  BY DEF Written
<1>5. CASE d = c
  <2>1. WrittenAt("key", c, job[c].file) = <<>>
    BY DEF WrittenAt
  <2>2. \A e \in Clients \ { c } : pc'[e] \notin Writing
    BY <1>1, <1>2, <1>5
  <2> QED
    BY <1>2, <1>3, <1>4, <1>5, <2>1, <2>2
<1>6. CASE d # c
  <2>1. "writer" \notin met[d] /\ pc'[d] = pc[d] /\ pc[d] \notin Writing
    BY <1>1, <1>2, <1>6
  <2> QED
    BY <2>1, <1>3, <1>4, <1>6 DEF Written
<1> QED
  BY <1>5, <1>6

\* what a request that has the writer for itself writes at each step
LEMMA NextWritten ==
    ASSUME Typed, NEW c \in Clients, NEW f \in Files
    PROVE  /\ extended(WrittenAt("key", c, f), SaltOf(c)) = WrittenAt("iv", c, f)
           /\ extended(WrittenAt("iv", c, f), << Block("iv", c, None) >>) = WrittenAt("data", c, f)
           /\ extended(WrittenAt("data", c, f), Body(c, f)) = WrittenAt("final", c, f)
           /\ extended(WrittenAt("final", c, f), << Block("last", c, f) >>) = WrittenAt("close", c, f)
<1>1. /\ WrittenAt("key", c, f) = <<>> /\ WrittenAt("iv", c, f) = SaltOf(c)
      /\ WrittenAt("data", c, f) = Opening(c) /\ WrittenAt("final", c, f) = Opening(c) \o Body(c, f)
      /\ WrittenAt("close", c, f) = Encrypted(c, f)
  BY DEF WrittenAt
<1>2. <<>> \o SaltOf(c) = SaltOf(c)
  BY WrittenParts, ConcatEmptySeq
<1>3. SaltOf(c) \o << Block("iv", c, None) >> = Opening(c)
  BY WrittenParts
<1>4. (Opening(c) \o Body(c, f)) \o << Block("last", c, f) >> = Encrypted(c, f)
  BY DEF Encrypted
<1>5. WrittenAt("key", c, f) \o SaltOf(c) = WrittenAt("iv", c, f)
  BY <1>1, <1>2
<1>6. WrittenAt("iv", c, f) \o << Block("iv", c, None) >> = WrittenAt("data", c, f)
  BY <1>1, <1>3
<1>7. WrittenAt("data", c, f) \o Body(c, f) = WrittenAt("final", c, f)
  BY <1>1
<1>8. WrittenAt("final", c, f) \o << Block("last", c, f) >> = WrittenAt("close", c, f)
  BY <1>1, <1>4
<1> QED
  BY <1>5, <1>6, <1>7, <1>8, Extending

LEMMA WriterSteps ==
    ASSUME Typed, Written, NEW c \in Clients, size' = size, job' = job,
           \/ writerKey(c) \/ writerIv(c) \/ writeFromFile(c, job[c].file)
           \/ writerFinal(c) \/ writerClose(c)
    PROVE  Written'
<1> DEFINE f == job[c].file
<1>0. pc[c] \in Writing /\ f \in Files /\ met' = met
  BY DEF writerKey, writerIv, writeFromFile, writerFinal, writerClose, goto, Writing, Typed
<1>1. "writer" \notin met[c] =>
         /\ writer.file = c
         /\ pc[c] # "key" => writer.cipher = c
         /\ pc[c] = "final" => enc[c].of = f
         /\ enc[c].blocks = WrittenAt(pc[c], c, f)
  BY <1>0 DEF Written
<1>2. EncShape
  BY DEF Typed
<1>3. CASE writerKey(c)
  <2>1. pc[c] = "key" /\ pc'[c] = "iv" /\ \A d \in Clients \ { c } : pc'[d] = pc[d]
    BY <1>3, Going DEF writerKey, Typed, Steps, Writing
  <2>2. /\ writer'.file = writer.file /\ writer'.cipher = c
        /\ enc' = [enc EXCEPT ![writer.file].blocks = extended(@, SaltOf(c))]
    BY <1>3 DEF writerKey, append, Typed, SaltOf
  <2>3. \A d \in Clients : d # writer.file => enc'[d].blocks = enc[d].blocks
    BY <2>2, <1>2 DEF EncShape, Shaped, Opened
  <2>4. "writer" \notin met[c] => enc'[c].blocks = WrittenAt("iv", c, f)
    <3>1. "writer" \notin met[c] => enc'[c].blocks = extended(WrittenAt("key", c, f), SaltOf(c))
      BY <2>1, <2>2, <1>1, <1>2 DEF EncShape, Shaped, Opened
    <3> QED
      BY <3>1, <1>0, NextWritten
  <2> QED
    BY <1>0, <2>1, <2>2, <2>3, <2>4, WriterMoves DEF Steps, Writing
<1>4. CASE writerIv(c)
  <2>1. pc[c] = "iv" /\ pc'[c] = "data" /\ \A d \in Clients \ { c } : pc'[d] = pc[d]
    BY <1>4, Going DEF writerIv, Typed, Steps, Writing
  <2>2. /\ writer' = writer
        /\ enc' = [enc EXCEPT ![writer.file].blocks = extended(@, << Block("iv", c, None) >>)]
    BY <1>4 DEF writerIv, append
  <2>3. \A d \in Clients : d # writer.file => enc'[d].blocks = enc[d].blocks
    BY <2>2, <1>2 DEF EncShape, Shaped, Opened
  <2>4. "writer" \notin met[c] => enc'[c].blocks = WrittenAt("data", c, f)
    <3>1. "writer" \notin met[c] =>
             enc'[c].blocks = extended(WrittenAt("iv", c, f), << Block("iv", c, None) >>)
      BY <2>1, <2>2, <1>1, <1>2 DEF EncShape, Shaped, Opened
    <3> QED
      BY <3>1, <1>0, NextWritten
  <2> QED
    BY <1>0, <2>1, <2>2, <2>3, <2>4, WriterMoves DEF Steps, Writing
<1>5. CASE writeFromFile(c, f)
  <2>1. pc[c] = "data" /\ pc'[c] = "final" /\ \A d \in Clients \ { c } : pc'[d] = pc[d]
    BY <1>5, Going DEF writeFromFile, Typed, Steps, Writing
  <2>2. /\ writer' = writer
        /\ enc' = [enc EXCEPT ![writer.file].blocks = extended(@, Body(writer.cipher, f)),
                              ![writer.cipher].of = f]
    BY <1>5 DEF writeFromFile
  <2>3. \A d \in Clients : d # writer.file => enc'[d].blocks = enc[d].blocks
    BY <2>2, <1>2 DEF EncShape, Shaped, Opened
  <2>4. "writer" \notin met[c] => enc'[c].blocks = WrittenAt("final", c, f) /\ enc'[c].of = f
    <3>1. "writer" \notin met[c] => enc'[c].blocks = extended(WrittenAt("data", c, f), Body(c, f))
      BY <2>1, <2>2, <1>1, <1>2 DEF EncShape, Shaped, Opened
    <3>2. "writer" \notin met[c] => enc'[c].of = f
      BY <2>1, <2>2, <1>1, <1>2 DEF EncShape, Shaped, Opened
    <3> QED
      BY <3>1, <3>2, <1>0, NextWritten
  <2> QED
    BY <1>0, <2>1, <2>2, <2>3, <2>4, WriterMoves DEF Steps, Writing
<1>6. CASE writerFinal(c)
  <2>1. pc[c] = "final" /\ pc'[c] = "close" /\ \A d \in Clients \ { c } : pc'[d] = pc[d]
    BY <1>6, Going DEF writerFinal, Typed, Steps, Writing
  <2>2. /\ writer' = writer
        /\ enc' = [enc EXCEPT ![writer.file].blocks = extended(@, << lastBlock >>),
                              ![writer.cipher].final = TRUE]
    BY <1>6 DEF writerFinal
  <2>3. \A d \in Clients : d # writer.file => enc'[d].blocks = enc[d].blocks
    BY <2>2, <1>2 DEF EncShape, Shaped, Opened
  <2>4. "writer" \notin met[c] => enc'[c].blocks = WrittenAt("close", c, f)
    <3>1. "writer" \notin met[c] => lastBlock = Block("last", c, f)
      BY <2>1, <1>1 DEF lastBlock
    <3>2. "writer" \notin met[c] => enc'[c].blocks = extended(WrittenAt("final", c, f), << lastBlock >>)
      BY <2>1, <2>2, <1>1, <1>2 DEF EncShape, Shaped, Opened
    <3> QED
      BY <3>1, <3>2, <1>0, NextWritten
  <2> QED
    BY <1>0, <2>1, <2>2, <2>3, <2>4, WriterMoves DEF Steps, Writing
<1>7. CASE writerClose(c)
  <2>1. pc[c] = "close" /\ pc'[c] = "pin" /\ \A d \in Clients \ { c } : pc'[d] = pc[d]
    BY <1>7, Going DEF writerClose, Typed, Steps, Writing
  <2>2. writer' = writer /\ enc' = [enc EXCEPT ![writer.file].closed = TRUE]
    BY <1>7 DEF writerClose
  <2>3. \A d \in Clients : enc'[d].blocks = enc[d].blocks
    BY <2>2, <1>2 DEF EncShape, Shaped, Opened
  <2>4. "writer" \notin met[c] => enc'[c].blocks = WrittenAt("pin", c, f)
    <3>1. WrittenAt("pin", c, f) = WrittenAt("close", c, f)
      BY DEF WrittenAt
    <3> QED
      BY <3>1, <2>1, <2>3, <1>1
  <2> QED
    BY <1>0, <2>1, <2>2, <2>3, <2>4, WriterMoves DEF Steps, Writing
<1> QED
  BY <1>3, <1>4, <1>5, <1>6, <1>7

-----------------------------------------------------------------------------
(***************************************************************************)
(* What is stored whole.                                                   *)
(***************************************************************************)

LEMMA WholeQuiet ==
    ASSUME StoredWhole, stored' = stored, size' = size
    PROVE  StoredWhole'
BY DEF StoredWhole, IsStored, IsEncrypted, Encrypted, Body

LEMMA WholeImport ==
    ASSUME Typed, StoredWhole, NEW content, stored' = Append(stored, content), size' = size,
           content # Gone,
           content.of \notin LoFiles /\ content.alone => IsEncrypted(content.blocks, content.of)
    PROVE  StoredWhole'
<1>1. /\ DOMAIN stored = 1 .. Len(stored) /\ DOMAIN stored' = 1 .. Len(stored) + 1
      /\ Len(stored) \in Nat
      /\ \A i \in DOMAIN stored : stored'[i] = stored[i]
      /\ stored'[Len(stored) + 1] = content
  BY Appended DEF Typed
<1>2. \A b, f : IsEncrypted(b, f)' <=> IsEncrypted(b, f)
  BY DEF IsEncrypted, Encrypted, Body
<1> SUFFICES ASSUME NEW id \in DOMAIN stored', stored'[id] # Gone,
                    stored'[id].of \notin LoFiles, stored'[id].alone
             PROVE  IsEncrypted(stored[id].blocks, stored[id].of)'
  BY DEF StoredWhole, IsStored
<1>3. IsEncrypted(stored'[id].blocks, stored'[id].of)
  <2>1. CASE id \in DOMAIN stored
    BY <2>1, <1>1 DEF StoredWhole, IsStored
  <2>2. CASE id = Len(stored) + 1
    BY <2>2, <1>1
  <2> QED
    BY <2>1, <2>2, <1>1
<1> QED
  BY <1>3 DEF IsEncrypted, Encrypted, Body

LEMMA WholeRemove ==
    ASSUME Typed, StoredWhole, NEW id, stored' = [stored EXCEPT ![id] = Gone], size' = size
    PROVE  StoredWhole'
<1>1. /\ DOMAIN stored' = DOMAIN stored
      /\ \A i \in DOMAIN stored : stored'[i] = IF i = id THEN Gone ELSE stored[i]
  BY Replaced DEF Typed
<1> SUFFICES ASSUME NEW i \in DOMAIN stored', stored'[i] # Gone,
                    stored'[i].of \notin LoFiles, stored'[i].alone
             PROVE  IsEncrypted(stored[i].blocks, stored[i].of)'
  BY DEF StoredWhole, IsStored
<1>2. stored'[i] = stored[i] /\ IsEncrypted(stored[i].blocks, stored[i].of)
  BY <1>1 DEF StoredWhole, IsStored
<1> QED
  BY <1>2 DEF IsEncrypted, Encrypted, Body

-----------------------------------------------------------------------------
(***************************************************************************)
(* The steps of downloads.                                                 *)
(***************************************************************************)

\* the path of a request, from what it is about
LEMMA SamePath ==
    ASSUME NEW c, job'[c].file = job[c].file, job'[c].kind = job[c].kind
    PROVE  pathOf(c)' = pathOf(c)
BY DEF pathOf, tempFilePath

LEMMA CopiedQuiet ==
    ASSUME Copied, clear' = clear, delivered' = delivered,
           \A c \in Clients : pc'[c] \in Downloading =>
              Same(c) /\ ("path" \in met[c] => "path" \in met'[c])
    PROVE  Copied'
<1> SUFFICES ASSUME NEW c \in Clients, pc'[c] \in Downloading, "path" \notin met'[c]
             PROVE  /\ \A d \in Clients \ { c } : pc'[d] \in Downloading => pathOf(d)' # pathOf(c)'
                    /\ pc'[c] = "record" => job'[c].copy = clear'[pathOf(c)']
                    /\ pc'[c] = "send" /\ job'[c].kind = "DELIVERY" =>
                          deliveredFile(job'[c].file, clear'[pathOf(c)'], c) \in delivered'
                    /\ pc'[c] = "clean" /\ job'[c].kind = "DELIVERY" =>
                          deliveredFile(job'[c].file, job'[c].copy, c) \in delivered'
  BY DEF Copied, deliveredFile
<1>1. \A d \in Clients : pc'[d] \in Downloading => Same(d) /\ pathOf(d)' = pathOf(d)
  BY SamePath DEF Same
<1> QED
  BY <1>1 DEF Copied, Same

\* A request does a step of its download, which changes its own path only.
LEMMA PathStep ==
    ASSUME Copied, NEW c \in Clients, pc[c] \in Downloading,
           job'[c].file = job[c].file, job'[c].kind = job[c].kind,
           \A d \in Clients \ { c } : Same(d),
           \A p \in Paths : p # pathOf(c) => clear'[p] = clear[p],
           \A d \in Clients : pathOf(d) \in Paths \/ pc[d] \notin Downloading,
           delivered \subseteq delivered',
           \A d \in Clients : "path" \in met'[d] <=> "path" \in met[d],
           "path" \notin met[c] =>
              /\ pc'[c] = "record" => job'[c].copy = clear'[pathOf(c)]
              /\ pc'[c] = "send" /\ job[c].kind = "DELIVERY" =>
                    deliveredFile(job[c].file, clear'[pathOf(c)], c) \in delivered'
              /\ pc'[c] = "clean" /\ job[c].kind = "DELIVERY" =>
                    deliveredFile(job[c].file, job'[c].copy, c) \in delivered'
    PROVE  Copied'
<1>1. \A d \in Clients : pathOf(d)' = pathOf(d)
  BY SamePath DEF Same
<1> SUFFICES ASSUME NEW d \in Clients, pc'[d] \in Downloading, "path" \notin met'[d]
             PROVE  /\ \A e \in Clients \ { d } : pc'[e] \in Downloading => pathOf(e)' # pathOf(d)'
                    /\ pc'[d] = "record" => job'[d].copy = clear'[pathOf(d)']
                    /\ pc'[d] = "send" /\ job'[d].kind = "DELIVERY" =>
                          deliveredFile(job'[d].file, clear'[pathOf(d)'], d) \in delivered'
                    /\ pc'[d] = "clean" /\ job'[d].kind = "DELIVERY" =>
                          deliveredFile(job'[d].file, job'[d].copy, d) \in delivered'
  BY DEF Copied, deliveredFile
<1>2. \A e \in Clients : pc'[e] \in Downloading => pc[e] \in Downloading
  BY DEF Same
<1>3. \A e \in Clients \ { d } : pc[e] \in Downloading => pathOf(e) # pathOf(d)
  BY <1>2 DEF Copied
<1>4. \A e \in Clients \ { d } : pc'[e] \in Downloading => pathOf(e)' # pathOf(d)'
  BY <1>1, <1>2, <1>3
<1>5. CASE d = c
  BY <1>1, <1>4, <1>5
<1>6. CASE d # c
  <2>1. Same(d) /\ pc[d] \in Downloading /\ pathOf(c) # pathOf(d)
    BY <1>2, <1>3, <1>6
  <2>2. clear'[pathOf(d)] = clear[pathOf(d)]
    BY <2>1
  <2>3. /\ pc[d] = "record" => job[d].copy = clear[pathOf(d)]
        /\ pc[d] = "send" /\ job[d].kind = "DELIVERY" =>
              deliveredFile(job[d].file, clear[pathOf(d)], d) \in delivered
        /\ pc[d] = "clean" /\ job[d].kind = "DELIVERY" =>
              deliveredFile(job[d].file, job[d].copy, d) \in delivered
    BY <2>1 DEF Copied
  <2> QED
    BY <1>1, <1>4, <2>1, <2>2, <2>3 DEF Same
<1> QED
  BY <1>5, <1>6

\* A request begins a download: it meets those that are on its path.
LEMMA PathBegins ==
    ASSUME Typed, Copied, NEW c \in Clients, NEW f \in Files, NEW kind,
           pc[c] = "idle", pc'[c] = "fetch", job'[c].file = f, job'[c].kind = kind,
           \A d \in Clients \ { c } : Same(d),
           clear' = clear, delivered' = delivered,
           meets(c, { d \in Clients : pc[d] \in Downloading /\ pathOf(d) = tempFilePath(f, kind) }, "path")
    PROVE  Copied'
<1> DEFINE others == { d \in Clients : pc[d] \in Downloading /\ pathOf(d) = tempFilePath(f, kind) }
<1>1. /\ "path" \in met'[c] <=> others # {}
      /\ \A d \in Clients \ { c } : "path" \in met'[d] <=> "path" \in met[d] \/ d \in others
  BY Met
<1>2. pathOf(c)' = tempFilePath(f, kind)
  BY DEF pathOf, tempFilePath
<1>3. \A d \in Clients \ { c } : pathOf(d)' = pathOf(d)
  BY SamePath DEF Same
<1> SUFFICES ASSUME NEW d \in Clients, pc'[d] \in Downloading, "path" \notin met'[d]
             PROVE  /\ \A e \in Clients \ { d } : pc'[e] \in Downloading => pathOf(e)' # pathOf(d)'
                    /\ pc'[d] = "record" => job'[d].copy = clear'[pathOf(d)']
                    /\ pc'[d] = "send" /\ job'[d].kind = "DELIVERY" =>
                          deliveredFile(job'[d].file, clear'[pathOf(d)'], d) \in delivered'
                    /\ pc'[d] = "clean" /\ job'[d].kind = "DELIVERY" =>
                          deliveredFile(job'[d].file, job'[d].copy, d) \in delivered'
  BY DEF Copied, deliveredFile
<1>4. CASE d = c
  BY <1>1, <1>2, <1>3, <1>4 DEF Same
<1>5. CASE d # c
  <2>1. /\ "path" \notin met[d] /\ Same(d) /\ pc[d] \in Downloading
        /\ pathOf(d) # tempFilePath(f, kind)
    BY <1>1, <1>5 DEF Same
  <2>2. \A e \in Clients \ { d } : pc'[e] \in Downloading => pathOf(e)' # pathOf(d)'
    BY <2>1, <1>2, <1>3, <1>5 DEF Copied, Same
  <2> QED
    BY <2>1, <2>2, <1>3, <1>5 DEF Copied, Same
<1> QED
  BY <1>4, <1>5

-----------------------------------------------------------------------------
(***************************************************************************)
(* Every step.                                                             *)
(***************************************************************************)

LEMMA Started ==
    ASSUME Typed, NEW c \in Clients, NEW step \in Steps, NEW kind, NEW f \in Files, NEW id,
           starts(c, step, kind, f, id),
           met' \in [Clients -> SUBSET { "writer", "reader", "path" }],
           step = "lo_import" => f \in LoFiles,
           step = "fetch" /\ f \in LoFiles => kind # "DELIVERY",
           step \in Downloading => kind \in Kinds
    PROVE  /\ pc[c] = "idle" /\ pc'[c] = step
           /\ job'[c].kind = kind /\ job'[c].file = f /\ job'[c].id = id
           /\ \A d \in Clients \ { c } : Same(d)
           /\ row' = row /\ stored' = stored /\ size' = size /\ writer' = writer /\ enc' = enc
           /\ clear' = clear /\ delivered' = delivered
           /\ Typed'
<1>1. /\ pc[c] = "idle" /\ pc'[c] = step /\ pc' \in [Clients -> Steps]
      /\ \A d \in Clients \ { c } : pc'[d] = pc[d]
  BY Going DEF starts, Typed
<1>3. job' = [job EXCEPT ![c] = [kind |-> kind, file |-> f, id |-> id, copy |-> None]]
  BY DEF starts
<1>4. /\ JobShape'
      /\ job'[c].kind = kind /\ job'[c].file = f /\ job'[c].id = id
      /\ \A d \in Clients \ { c } : job'[d] = job[d]
  <2>1. JobShape
    BY DEF Typed
  <2> QED
    BY <2>1, <1>3 DEF JobShape
<1>5. /\ row' = row /\ stored' = stored /\ size' = size /\ writer' = writer /\ enc' = enc
      /\ fetched' = fetched /\ clear' = clear /\ delivered' = delivered
  BY DEF starts, fileVars
<1>6. \A d \in Clients : d = c \/ (pc'[d] = pc[d] /\ job'[d] = job[d])
  BY <1>1, <1>4
<1>7. /\ \A d \in Clients : pc'[d] # "idle" => job'[d].file \in Files
      /\ \A d \in Clients : pc'[d] = "lo_import" => job'[d].file \in LoFiles
      /\ \A d \in Clients : pc'[d] = "fetch" /\ job'[d].file \in LoFiles => job'[d].kind # "DELIVERY"
      /\ \A d \in Clients : pc'[d] \in Downloading => job'[d].kind \in Kinds
  BY <1>1, <1>4, <1>6 DEF Typed
<1>8. EncShape'
  BY <1>5 DEF Typed, EncShape
<1>9. Typed'
  BY <1>1, <1>4, <1>5, <1>7, <1>8 DEF Typed
<1> QED
  BY <1>1, <1>4, <1>5, <1>9 DEF Same

\* A request goes on, with what it is about.
LEMMA TypedGoes ==
    ASSUME Typed, NEW c \in Clients, NEW to \in Steps \ { "lo_import", "fetch" },
           pc[c] # "idle", pc'[c] = to, to \in Downloading => pc[c] \in Downloading,
           \A d \in Clients \ { c } : pc'[d] = pc[d],
           pc' \in [Clients -> Steps],
           JobShape', \A d \in Clients : job'[d].file = job[d].file /\ job'[d].kind = job[d].kind,
           size' = size, row' \in [Files -> FileRow],
           stored' \in Seq(ToSet(stored')), Len(stored') <= MaxImports,
           EncShape', writer' = [file |-> writer'.file, cipher |-> writer'.cipher],
           met' \in [Clients -> SUBSET { "writer", "reader", "path" }],
           fetched' = [p \in Paths |-> fetched'[p]], clear' = [p \in Paths |-> clear'[p]],
           \A d \in delivered' : d.file \in Files \ LoFiles /\ d.owner \in Clients
    PROVE  Typed'
<1>1. \A d \in Clients : pc'[d] # "idle" => job'[d].file \in Files
  BY DEF Typed
<1>2. \A d \in Clients : pc'[d] \in { "lo_import", "fetch" } => pc'[d] = pc[d]
  OBVIOUS
<1>3. /\ \A d \in Clients : pc'[d] = "lo_import" => job'[d].file \in LoFiles
      /\ \A d \in Clients : pc'[d] = "fetch" /\ job'[d].file \in LoFiles => job'[d].kind # "DELIVERY"
  BY <1>2 DEF Typed
<1>4. \A d \in Clients : pc'[d] \in Downloading => job'[d].kind \in Kinds
  BY DEF Typed
<1> QED
  BY <1>1, <1>3, <1>4 DEF Typed

LEMMA Locations ==
    /\ HasIds \intersect (Writing \union { "pin" } \union Downloading \union { "idle", "open" }) = {}
    /\ (Writing \union { "pin" }) \intersect (Downloading \union { "idle", "open" }) = {}
    /\ Downloading \intersect { "idle", "open" } = {}
    /\ HasIds \union Writing \union Downloading \union { "pin", "idle", "open" } = Steps
    /\ Reading \subseteq Downloading
BY DEF HasIds, CommitAt, LoAt, Writing, Downloading, Reading, Steps

LEMMA UploadBegins ==
    ASSUME Inv, NEW c \in Clients, NEW f \in Files, importFile(c, f)
    PROVE  Inv'
<1>1. Typed /\ met' = met /\ met \in [Clients -> SUBSET { "writer", "reader", "path" }]
  BY DEF Inv, Typed, importFile
<1>2. starts(c, "open", "UPLOAD", f, None) /\ "open" \in Steps /\ "open" \notin Downloading
  BY DEF importFile, Steps, Downloading, Reading
<1>3. /\ pc'[c] = "open" /\ \A d \in Clients \ { c } : Same(d)
      /\ row' = row /\ stored' = stored /\ size' = size /\ writer' = writer /\ enc' = enc
      /\ clear' = clear /\ delivered' = delivered /\ Typed'
  BY <1>1, <1>2, Started
<1>4. Contents'
  BY <1>3, Locations, ContentsQuiet DEF Inv
<1>5. Written'
  BY <1>1, <1>3, Locations, WrittenQuiet DEF Inv
<1>6. StoredWhole' /\ Copied'
  BY <1>1, <1>3, Locations, WholeQuiet, CopiedQuiet DEF Inv
<1> QED
  BY <1>3, <1>4, <1>5, <1>6 DEF Inv

LEMMA LoUploadBegins ==
    ASSUME Inv, NEW c \in Clients, NEW f \in Files, uploadLoFile(c, f)
    PROVE  Inv'
<1>1. Typed /\ met' = met /\ met \in [Clients -> SUBSET { "writer", "reader", "path" }]
  BY DEF Inv, Typed, uploadLoFile
<1>2. starts(c, "lo_import", "UPLOAD", f, row[f]) /\ f \in LoFiles
  BY DEF uploadLoFile
<1>3. /\ pc'[c] = "lo_import" /\ job'[c].id = row[f] /\ job'[c].file = f
      /\ \A d \in Clients \ { c } : Same(d)
      /\ row' = row /\ stored' = stored /\ size' = size /\ writer' = writer /\ enc' = enc
      /\ clear' = clear /\ delivered' = delivered /\ Typed'
  <2>1. "lo_import" \in Steps /\ "lo_import" # "fetch" /\ "lo_import" \notin Downloading
    BY DEF Steps, Downloading, Reading
  <2> QED
    BY <1>1, <1>2, <2>1, Started
<1>4. pc'[c] \in HasIds
  BY <1>3 DEF HasIds, LoAt
<1>5. Contents'
  BY <1>3, ContentsRead DEF Inv
<1>6. Written'
  BY <1>1, <1>3, <1>4, Locations, WrittenQuiet DEF Inv
<1>7. StoredWhole' /\ Copied'
  BY <1>1, <1>3, <1>4, Locations, WholeQuiet, CopiedQuiet DEF Inv
<1> QED
  BY <1>3, <1>5, <1>6, <1>7 DEF Inv

LEMMA DownloadBegins ==
    ASSUME Inv, NEW c \in Clients, NEW f \in Files, NEW kind \in Kinds, exportTo(c, f, kind),
           f \in LoFiles => kind # "DELIVERY"
    PROVE  Inv'
<1> DEFINE others == { d \in Clients : pc[d] \in Downloading /\ pathOf(d) = tempFilePath(f, kind) }
<1>0. starts(c, "fetch", kind, f, row[f]) /\ Typed
  BY DEF exportTo, Inv
<1>1. meets(c, others, "path") /\ others \in SUBSET Clients
  BY DEF exportTo
<1>2. /\ met' \in [Clients -> SUBSET { "writer", "reader", "path" }]
      /\ \A d \in Clients : "writer" \in met'[d] <=> "writer" \in met[d]
  BY <1>0, <1>1, Met
<1>3. "fetch" \in Steps /\ "fetch" \in Downloading /\ "fetch" # "lo_import"
  BY DEF Steps, Downloading
<1>4. /\ pc[c] = "idle" /\ pc'[c] = "fetch" /\ job'[c].file = f /\ job'[c].kind = kind
      /\ \A d \in Clients \ { c } : Same(d)
      /\ row' = row /\ stored' = stored /\ size' = size /\ writer' = writer /\ enc' = enc
      /\ clear' = clear /\ delivered' = delivered /\ Typed'
  <2>1. /\ "fetch" = "lo_import" => f \in LoFiles
        /\ "fetch" = "fetch" /\ f \in LoFiles => kind # "DELIVERY"
        /\ "fetch" \in Downloading => kind \in Kinds
    OBVIOUS
  <2>2. met' \in [Clients -> SUBSET { "writer", "reader", "path" }]
    BY <1>2
  <2> HIDE DEF others
  <2> QED
    BY <1>0, <2>1, <2>2, <1>3, Started
<1>5. Contents'
  BY <1>3, <1>4, Locations, ContentsQuiet DEF Inv
<1>6. Written'
  BY <1>2, <1>3, <1>4, Locations, WrittenQuiet DEF Inv
<1>7. StoredWhole'
  BY <1>4, WholeQuiet DEF Inv
<1>8. Copied'
  BY <1>0, <1>1, <1>4, PathBegins DEF Inv
<1> QED
  BY <1>4, <1>5, <1>6, <1>7, <1>8 DEF Inv

LEMMA Encrypts ==
    ASSUME Inv, NEW c \in Clients, encrypt(c)
    PROVE  Inv'
<1> DEFINE Step ==
      \/ writerOpen(c) \/ writerKey(c) \/ writerIv(c)
      \/ writeFromFile(c, job[c].file)
      \/ writerFinal(c) \/ writerClose(c)
<1>1. Step /\ Typed
  BY DEF encrypt, Inv
<1>2. /\ row' = row /\ stored' = stored /\ size' = size /\ job' = job
      /\ fetched' = fetched /\ clear' = clear /\ delivered' = delivered
  BY DEF encrypt, rest
<1>3. \E to \in Writing \union { "pin" } : /\ pc[c] \in Writing \union { "open" }
                                           /\ pc' = [pc EXCEPT ![c] = to]
  BY <1>1 DEF writerOpen, writerKey, writerIv, writeFromFile, writerFinal, writerClose, goto, Writing
<1>4. /\ pc'[c] \in Writing \union { "pin" } /\ pc[c] \in Writing \union { "open" }
      /\ pc' \in [Clients -> Steps]
      /\ \A d \in Clients \ { c } : pc'[d] = pc[d]
  BY <1>1, <1>3 DEF Typed, Steps
<1>5. /\ EncShape'
      /\ writer' = [file |-> writer'.file, cipher |-> writer'.cipher]
  <2> SUFFICES /\ Shaped(enc')
               /\ writer' = [file |-> writer'.file, cipher |-> writer'.cipher]
    BY DEF EncShape, Shaped
  <2>1. Shaped(enc) /\ writer = [file |-> writer.file, cipher |-> writer.cipher]
    BY <1>1 DEF Typed, EncShape
  <2>2. CASE writerOpen(c)
    <3> DEFINE r == [NotWriting EXCEPT !.closed = FALSE]
    <3> DEFINE q == [r EXCEPT !.final = FALSE]
    <3>1. Opened(NotWriting)
      BY DEF Opened, NotWriting
    <3>2. Opened(r)
      BY <3>1, OpenedKept
    <3> HIDE DEF r
    <3>3. Opened(q)
      BY <3>2, OpenedKept
    <3> HIDE DEF q
    <3>4. enc' = [enc EXCEPT ![c] = q]
      BY <2>2 DEF writerOpen, q, r
    <3>5. Shaped(enc')
      BY <3>3, <3>4, <2>1 DEF Shaped
    <3>6. writer' = [writer EXCEPT !.file = c]
      BY <2>2 DEF writerOpen
    <3> QED
      BY <3>5, <3>6, <2>1
  <2>3. CASE writerKey(c) \/ writerIv(c)
    <3>1. PICK b : enc' = [enc EXCEPT ![writer.file].blocks = b]
      BY <2>3 DEF writerKey, writerIv, append
    <3>2. Shaped(enc')
      BY <3>1, <2>1, ShapeKept
    <3>3. writer' = writer \/ writer' = [writer EXCEPT !.cipher = c]
      BY <2>3 DEF writerKey, writerIv
    <3> QED
      BY <3>2, <3>3, <2>1
  <2>4. CASE writeFromFile(c, job[c].file)
    <3>1. PICK b, f : enc' = [[enc EXCEPT ![writer.file].blocks = b] EXCEPT ![writer.cipher].of = f]
      BY <2>4 DEF writeFromFile
    <3>2. Shaped([enc EXCEPT ![writer.file].blocks = b])
      BY <2>1, ShapeKept
    <3>3. Shaped(enc')
      BY <3>1, <3>2, ShapeKept
    <3> QED
      BY <3>3, <2>1, <2>4 DEF writeFromFile
  <2>5. CASE writerFinal(c)
    <3>1. PICK b : enc' = [[enc EXCEPT ![writer.file].blocks = b] EXCEPT ![writer.cipher].final = TRUE]
      BY <2>5 DEF writerFinal
    <3>2. Shaped([enc EXCEPT ![writer.file].blocks = b])
      BY <2>1, ShapeKept
    <3>3. Shaped(enc')
      BY <3>1, <3>2, ShapeKept
    <3> QED
      BY <3>3, <2>1, <2>5 DEF writerFinal
  <2>6. CASE writerClose(c)
    BY <2>1, <2>6, ShapeKept DEF writerClose
  <2> QED
    BY <1>1, <2>2, <2>3, <2>4, <2>5, <2>6
<1>6. /\ met' \in [Clients -> SUBSET { "writer", "reader", "path" }]
      /\ \A d \in Clients : "path" \in met'[d] <=> "path" \in met[d]
  <2>1. CASE writerOpen(c)
    BY <1>1, <2>1, Met DEF writerOpen
  <2>2. CASE met' = met
    BY <1>1, <2>2 DEF Typed
  <2> QED
    BY <1>1, <2>1, <2>2 DEF writerKey, writerIv, writeFromFile, writerFinal, writerClose
<1>7. \A d \in Clients : d = c \/ Same(d)
  BY <1>2, <1>4 DEF Same
<1>8. Typed'
  <2>1. pc[c] # "idle" /\ pc'[c] \in Steps \ { "lo_import", "fetch" } /\ pc'[c] \notin Downloading
    BY <1>4 DEF Writing, Steps, Downloading, Reading
  <2>2. JobShape'
    BY <1>1, <1>2 DEF Typed, JobShape
  <2>3. /\ row' \in [Files -> FileRow]
        /\ stored' \in Seq(ToSet(stored')) /\ Len(stored') <= MaxImports
        /\ fetched' = [p \in Paths |-> fetched'[p]] /\ clear' = [p \in Paths |-> clear'[p]]
        /\ \A d \in delivered' : d.file \in Files \ LoFiles /\ d.owner \in Clients
    BY <1>1, <1>2 DEF Typed
  <2> QED
    BY <1>1, <1>2, <1>4, <1>5, <1>6, <2>1, <2>2, <2>3, TypedGoes
<1>9. Contents'
  BY <1>2, <1>4, <1>7, Locations, ContentsQuiet DEF Inv
<1>10. Written'
  <2>1. CASE writerOpen(c)
    BY <1>1, <1>2, <2>1, WriterOpens DEF Inv
  <2>2. CASE ~writerOpen(c)
    BY <1>1, <1>2, <2>2, WriterSteps DEF Inv
  <2> QED
    BY <2>1, <2>2
<1>11. StoredWhole'
  BY <1>2, WholeQuiet DEF Inv
<1>12. Copied'
  BY <1>2, <1>4, <1>6, <1>7, Locations, CopiedQuiet DEF Inv
<1> QED
  BY <1>8, <1>9, <1>10, <1>11, <1>12 DEF Inv

\* A request that stores a content keeps it as what it is to commit.
LEMMA Imports ==
    ASSUME Inv, NEW c \in Clients, NEW from \in { "pin", "lo_import" }, NEW to, NEW content,
           to = IF from = "pin" THEN "commit" ELSE "lo_commit",
           import(c, from, to, content), content # Gone, content.of = job[c].file,
           content.of \notin LoFiles /\ content.alone => IsEncrypted(content.blocks, content.of),
           EncShape', \A d \in Clients \ { c } : enc'[d] = enc[d],
           writer' = writer, met' = met
    PROVE  Inv'
<1>1. Typed /\ to \in CommitAt /\ to \in Steps /\ to \in HasIds
  BY DEF Inv, CommitAt, Steps, HasIds
<1>2. /\ Len(stored) < MaxImports /\ stored' = Append(stored, content)
      /\ job' = [job EXCEPT ![c].copy = Len(stored) + 1]
      /\ row' = row /\ size' = size /\ fetched' = fetched /\ clear' = clear /\ delivered' = delivered
  BY DEF import
<1>3. /\ pc[c] = from /\ pc'[c] = to /\ pc' \in [Clients -> Steps]
      /\ \A d \in Clients \ { c } : pc'[d] = pc[d]
  BY <1>1, Going DEF import, Typed
<1>4. /\ JobShape' /\ job'[c].copy = Len(stored) + 1
      /\ \A d \in Clients : /\ job'[d].kind = job[d].kind /\ job'[d].file = job[d].file
                            /\ job'[d].id = job[d].id
      /\ \A d \in Clients \ { c } : job'[d] = job[d]
  BY <1>1, <1>2, CopyKept DEF Typed
<1>5. \A d \in Clients \ { c } : Same(d)
  BY <1>3, <1>4 DEF Same
<1>6. Typed'
  <2>1. pc[c] # "idle" /\ to \in Steps \ { "lo_import", "fetch" } /\ to \notin Downloading
    BY <1>3, <1>1 DEF CommitAt, Downloading, Reading
  <2>2. stored' \in Seq(ToSet(stored')) /\ Len(stored') <= MaxImports
    <3>1. stored' \in Seq(ToSet(stored')) /\ Len(stored') = Len(stored) + 1 /\ Len(stored) \in Nat
      BY <1>1, <1>2, Appended DEF Typed
    <3> QED
      BY <3>1, <1>2, StorageAssumption
  <2>3. /\ row' \in [Files -> FileRow]
        /\ writer' = [file |-> writer'.file, cipher |-> writer'.cipher]
        /\ met' \in [Clients -> SUBSET { "writer", "reader", "path" }]
        /\ fetched' = [p \in Paths |-> fetched'[p]] /\ clear' = [p \in Paths |-> clear'[p]]
        /\ \A d \in delivered' : d.file \in Files \ LoFiles /\ d.owner \in Clients
    BY <1>1, <1>2 DEF Typed
  <2> QED
    BY <1>1, <1>2, <1>3, <1>4, <2>1, <2>2, <2>3, TypedGoes
<1>7. Contents'
  <2>1. pc[c] # "lo_import" => pc'[c] = "commit"
    BY <1>3
  <2> QED
    BY <1>1, <1>2, <1>3, <1>4, <1>5, <2>1, ContentsImport DEF Inv
<1>8. Written'
  BY <1>1, <1>2, <1>3, <1>5, Locations, WrittenQuiet DEF Inv
<1>9. StoredWhole'
  BY <1>1, <1>2, WholeImport DEF Inv
<1>10. Copied'
  BY <1>1, <1>2, <1>3, <1>5, Locations, CopiedQuiet DEF Inv
<1> QED
  BY <1>6, <1>7, <1>8, <1>9, <1>10 DEF Inv

LEMMA MovesToIpfs ==
    ASSUME Inv, NEW c \in Clients, moveToIpfs(c)
    PROVE  Inv'
<1> DEFINE f == job[c].file
<1> DEFINE blocks == orGarbled(enc[c].blocks, IsEncrypted(enc[c].blocks, f))
<1> DEFINE content == [ pinned |-> TRUE, of |-> f, blocks |-> blocks, alone |-> "writer" \notin met[c] ]
<1>1. Typed /\ pc[c] = "pin" /\ f \in Files
  BY DEF Inv, moveToIpfs, import, goto, Typed
<1>2. import(c, "pin", "commit", content) /\ writer' = writer /\ met' = met
  BY DEF moveToIpfs
<1>3. EncShape' /\ \A d \in Clients \ { c } : enc'[d] = enc[d]
  BY <1>1 DEF moveToIpfs, Typed, EncShape, Shaped, Opened, NotWriting
<1>4. content # Gone /\ content.of = f /\ content.blocks = blocks
  <2>1. "of" \in DOMAIN content /\ "of" \notin DOMAIN Gone
    BY DEF Gone
  <2> QED
    BY <2>1
<1>5. content.alone => IsEncrypted(blocks, f)
  <2> SUFFICES ASSUME "writer" \notin met[c]
               PROVE  IsEncrypted(blocks, f)
    OBVIOUS
  <2>1. enc[c].blocks = WrittenAt("pin", c, f)
    BY <1>1 DEF Inv, Written
  <2>2. enc[c].blocks = Encrypted(c, f)
    BY <2>1 DEF WrittenAt
  <2>3. IsEncrypted(enc[c].blocks, f)
    BY <2>2 DEF IsEncrypted
  <2> QED
    BY <2>3 DEF orGarbled
<1> HIDE DEF content, blocks
<1>6. /\ "pin" \in { "pin", "lo_import" } /\ "commit" = IF "pin" = "pin" THEN "commit" ELSE "lo_commit"
  OBVIOUS
<1> QED
  BY <1>2, <1>3, <1>4, <1>5, <1>6, Imports

LEMMA ImportsInDB ==
    ASSUME Inv, NEW c \in Clients, importFileInDB(c)
    PROVE  Inv'
<1> DEFINE content == [pinned |-> TRUE, of |-> job[c].file, blocks |-> <<>>, alone |-> TRUE]
<1>1. Typed /\ pc[c] = "lo_import" /\ job[c].file \in LoFiles
  BY DEF Inv, importFileInDB, import, goto, Typed
<1>2. import(c, "lo_import", "lo_commit", content) /\ writer' = writer /\ met' = met /\ enc' = enc
  BY DEF importFileInDB, keepsFiles, fileVars
<1>3. EncShape' /\ \A d \in Clients \ { c } : enc'[d] = enc[d]
  BY <1>1, <1>2 DEF Typed, EncShape
<1>4. content # Gone /\ content.of = job[c].file /\ content.of \in LoFiles
  <2>1. "of" \in DOMAIN content /\ "of" \notin DOMAIN Gone
    BY DEF Gone
  <2> QED
    BY <2>1, <1>1
<1> HIDE DEF content
<1>5. /\ "lo_import" \in { "pin", "lo_import" }
      /\ "lo_commit" = IF "lo_import" = "pin" THEN "commit" ELSE "lo_commit"
  OBVIOUS
<1> QED
  BY <1>2, <1>3, <1>4, <1>5, Imports

\* A request that only changes rows or what is stored leaves the writer and the
\* temporary files alone.
LEMMA RowSteps ==
    ASSUME Inv, NEW c \in Clients, pc'[c] \in HasIds \union { "idle", "open" },
           \A d \in Clients \ { c } : Same(d),
           size' = size, writer' = writer, enc' = enc, met' = met,
           clear' = clear, delivered' = delivered,
           Typed', Contents', StoredWhole'
    PROVE  Inv'
<1>1. Written'
  BY Locations, WrittenQuiet DEF Inv
<1>2. Copied'
  BY Locations, CopiedQuiet DEF Inv
<1> QED
  BY <1>1, <1>2 DEF Inv

\* a step that changes neither the subject of a request nor the columns
LEMMA TypedRowStep ==
    ASSUME Typed, NEW c \in Clients, NEW to \in Steps \ { "lo_import", "fetch" },
           to \in HasIds \union { "idle", "open" }, goto(c, pc[c], to), pc[c] # "idle", job' = job, size' = size,
           row' \in [Files -> FileRow],
           stored' \in Seq(ToSet(stored')), Len(stored') <= MaxImports,
           enc' = enc, writer' = writer, met' = met,
           fetched' = fetched, clear' = clear, delivered' = delivered
    PROVE  /\ pc'[c] = to /\ \A d \in Clients \ { c } : Same(d)
           /\ Typed'
<1>1. /\ pc'[c] = to /\ pc' \in [Clients -> Steps]
      /\ \A d \in Clients \ { c } : pc'[d] = pc[d]
  BY Going DEF Typed
<1>2. JobShape' /\ EncShape'
  BY DEF Typed, JobShape, EncShape, Shaped, Opened
<1>3. /\ writer' = [file |-> writer'.file, cipher |-> writer'.cipher]
      /\ met' \in [Clients -> SUBSET { "writer", "reader", "path" }]
      /\ fetched' = [p \in Paths |-> fetched'[p]] /\ clear' = [p \in Paths |-> clear'[p]]
      /\ \A d \in delivered' : d.file \in Files \ LoFiles /\ d.owner \in Clients
  BY DEF Typed
<1>4. Typed'
  BY <1>1, <1>2, <1>3, TypedGoes, Locations
<1> QED
  BY <1>1, <1>4 DEF Same

LEMMA Commits ==
    ASSUME Inv, NEW c \in Clients, pc[c] \in CommitAt,
           commits(c, pc[c], IF pc[c] = "commit" THEN "idle" ELSE "lo_remove", job[c].file, job[c].copy)
    PROVE  Inv'
<1> DEFINE to == IF pc[c] = "commit" THEN "idle" ELSE "lo_remove"
<1>1. /\ goto(c, pc[c], to) /\ row' = [row EXCEPT ![job[c].file] = job[c].copy]
      /\ job' = job /\ size' = size /\ stored' = stored /\ enc' = enc /\ writer' = writer /\ met' = met
      /\ fetched' = fetched /\ clear' = clear /\ delivered' = delivered
  BY DEF commits, keepsFiles, fileVars
<1>2. /\ Typed /\ Contents /\ StoredWhole
      /\ pc[c] # "idle" /\ job[c].file \in Files
      /\ to \in Steps \ { "lo_import", "fetch" } /\ to \in HasIds \union { "idle", "open" }
  BY DEF Inv, Typed, CommitAt, Steps, HasIds, LoAt
<1>3. row' \in [Files -> FileRow]
  <2>1. job[c].copy \in Ids
    <3>1. IsStored(job[c].copy) /\ stored \in Seq(ToSet(stored)) /\ Len(stored) <= MaxImports
      BY <1>2 DEF Contents, Committing, Typed
    <3> QED
      BY <3>1, StorageAssumption DEF IsStored, Ids
  <2> QED
    BY <1>1, <1>2, <2>1 DEF Typed, FileRow
<1>4. stored' \in Seq(ToSet(stored')) /\ Len(stored') <= MaxImports
  BY <1>1, <1>2 DEF Typed
<1> HIDE DEF to
<1>5. pc'[c] = to /\ Typed' /\ \A d \in Clients \ { c } : Same(d)
  BY <1>1, <1>2, <1>3, <1>4, TypedRowStep
<1>6. Contents'
  BY <1>1, <1>2, <1>5, ContentsCommit DEF to, Same
<1>7. StoredWhole'
  BY <1>1, <1>2, WholeQuiet
<1> QED
  BY <1>1, <1>2, <1>5, <1>6, <1>7, RowSteps

\* A request gives up what it was to commit; a file that was being added to a
\* LOC is removed.
LEMMA GivesUp ==
    ASSUME Inv, NEW c \in Clients, NEW to \in { "idle", "undo" }, skips(c, "commit", to)
    PROVE  Inv'
<1>1. /\ pc[c] = "commit" /\ goto(c, pc[c], to) /\ row' = row
      /\ job' = job /\ size' = size /\ stored' = stored /\ enc' = enc /\ writer' = writer /\ met' = met
      /\ fetched' = fetched /\ clear' = clear /\ delivered' = delivered
  BY DEF skips, keepsFiles, fileVars, rest, goto
<1>2. /\ Typed /\ Contents /\ StoredWhole
      /\ to \in Steps \ { "lo_import", "fetch" } /\ to \in HasIds \union { "idle", "open" }
  BY DEF Inv, Steps, HasIds
<1>3. /\ row' \in [Files -> FileRow]
      /\ stored' \in Seq(ToSet(stored')) /\ Len(stored') <= MaxImports
  BY <1>1, <1>2 DEF Typed
<1>4. pc'[c] = to /\ Typed' /\ \A d \in Clients \ { c } : Same(d)
  BY <1>1, <1>2, <1>3, TypedRowStep
<1>5. Contents'
  <2>1. /\ IsStored(job[c].copy) /\ \A f \in Files : row[f] # job[c].copy
        /\ \A d \in Clients \ { c } : pc[d] \in CommitAt \union { "undo" } => job[d].copy # job[c].copy
    BY <1>1, <1>2 DEF Contents, Committing, CommitAt
  <2>2. pc'[c] \notin CommitAt \union LoAt
    BY <1>4 DEF CommitAt, LoAt
  <2>3. RowsHaveContent'
    BY <1>1, <1>2 DEF Contents, RowsHaveContent, IsStored
  <2>4. Committing'
    <3> SUFFICES ASSUME NEW d \in Clients, pc'[d] \in CommitAt
                 PROVE  /\ IsStored(job[d].copy) /\ stored[job[d].copy].of = job[d].file
                        /\ \A f \in Files : row[f] # job[d].copy
                        /\ \A e \in Clients \ { d } :
                              pc'[e] \in CommitAt \union { "undo" } => job[e].copy # job[d].copy
                        /\ \A e \in Clients : pc'[e] \in LoAt => job[e].id # job[d].copy
      BY <1>1 DEF Committing, IsStored
    <3>1. d # c /\ pc[d] \in CommitAt
      BY <1>4, <2>2 DEF Same
    <3>2. /\ IsStored(job[d].copy) /\ stored[job[d].copy].of = job[d].file
          /\ \A f \in Files : row[f] # job[d].copy
          /\ \A e \in Clients \ { d } : pc[e] \in CommitAt \union { "undo" } => job[e].copy # job[d].copy
          /\ \A e \in Clients : pc[e] \in LoAt => job[e].id # job[d].copy
      BY <1>2, <3>1 DEF Contents, Committing
    <3>3. job[c].copy # job[d].copy
      BY <2>1, <3>1
    <3>4. \A e \in Clients \ { d } :
             pc'[e] \in CommitAt \union { "undo" } => job[e].copy # job[d].copy
      BY <1>4, <3>2, <3>3 DEF Same
    <3>5. \A e \in Clients : pc'[e] \in LoAt => job[e].id # job[d].copy
      BY <1>4, <2>2, <3>2 DEF Same
    <3> QED
      BY <3>2, <3>4, <3>5
  <2>5. Removing'
    BY <1>1, <1>2, <1>4, <2>1 DEF Contents, Removing, IsStored, Same
  <2>6. Replacing'
    BY <1>1, <1>2, <1>4, <2>2 DEF Contents, Replacing, Same
  <2> QED
    BY <2>3, <2>4, <2>5, <2>6 DEF Contents
<1>6. StoredWhole'
  BY <1>1, <1>2, WholeQuiet
<1> QED
  BY <1>1, <1>2, <1>4, <1>5, <1>6, RowSteps

LEMMA Deletes ==
    ASSUME Inv, NEW c \in Clients, NEW f \in Files, deleteFile(c, f)
    PROVE  Inv'
<1>1. /\ row[f] \in Ids /\ pc[c] = "idle"
      /\ job' = [job EXCEPT ![c] = [kind |-> "DELETE", file |-> f, id |-> None, copy |-> row[f]]]
      /\ pc' = [pc EXCEPT ![c] = "undo"] /\ row' = [row EXCEPT ![f] = Absent]
      /\ size' = size /\ stored' = stored /\ enc' = enc /\ writer' = writer /\ met' = met
      /\ fetched' = fetched /\ clear' = clear /\ delivered' = delivered
  BY DEF deleteFile, keepsFiles, fileVars
<1>2. Typed /\ Contents /\ StoredWhole /\ JobShape
  BY DEF Inv, Typed
<1>3. /\ pc'[c] = "undo" /\ pc' \in [Clients -> Steps]
      /\ \A d \in Clients \ { c } : pc'[d] = pc[d]
  BY <1>1, <1>2 DEF Typed, Steps
<1>4. /\ JobShape' /\ job'[c].file = f /\ job'[c].copy = row[f]
      /\ \A d \in Clients \ { c } : job'[d] = job[d]
  BY <1>1, <1>2 DEF JobShape
<1>5. \A d \in Clients : d = c \/ (pc'[d] = pc[d] /\ job'[d] = job[d])
  BY <1>3, <1>4
<1>6. Typed'
  <2>1. /\ \A d \in Clients : pc'[d] # "idle" => job'[d].file \in Files
        /\ \A d \in Clients : pc'[d] = "lo_import" => job'[d].file \in LoFiles
        /\ \A d \in Clients : pc'[d] = "fetch" /\ job'[d].file \in LoFiles => job'[d].kind # "DELIVERY"
        /\ \A d \in Clients : pc'[d] \in Downloading => job'[d].kind \in Kinds
    BY <1>2, <1>3, <1>4, <1>5 DEF Typed, Downloading, Reading
  <2>2. row' \in [Files -> FileRow]
    BY <1>1, <1>2 DEF Typed, FileRow
  <2>3. EncShape'
    BY <1>1, <1>2 DEF Typed, EncShape, Shaped, Opened
  <2> QED
    BY <1>1, <1>2, <1>3, <1>4, <2>1, <2>2, <2>3 DEF Typed
<1>7. \A d \in Clients \ { c } : Same(d)
  BY <1>3, <1>4 DEF Same
<1>8. Contents'
  BY <1>1, <1>2, <1>3, <1>4, <1>7, ContentsDelete
<1>9. StoredWhole'
  BY <1>1, <1>2, WholeQuiet
<1>10. pc'[c] \in HasIds
  BY <1>3 DEF HasIds
<1> QED
  BY <1>1, <1>6, <1>7, <1>8, <1>9, <1>10, RowSteps

LEMMA Removes ==
    ASSUME Inv, NEW c \in Clients, NEW id, goto(c, pc[c], "idle"), pc[c] # "idle",
           stored' = [stored EXCEPT ![id] = Gone],
           id \in Ids => id \in DOMAIN stored,
           \A f \in Files : row[f] \in Ids => row[f] # id,
           \A d \in Clients : pc[d] \in CommitAt => job[d].copy # id,
           keepsFiles, UNCHANGED << size, row, job, fetched, clear, delivered >>
    PROVE  Inv'
<1>1. /\ row' = row /\ job' = job /\ size' = size /\ enc' = enc /\ writer' = writer /\ met' = met
      /\ fetched' = fetched /\ clear' = clear /\ delivered' = delivered
  BY DEF keepsFiles, fileVars
<1>2. /\ Typed /\ Contents /\ StoredWhole
      /\ "idle" \in Steps \ { "lo_import", "fetch" } /\ "idle" \in HasIds \union { "idle", "open" }
  BY DEF Inv, Steps
<1>3. /\ row' \in [Files -> FileRow]
      /\ stored' \in Seq(ToSet(stored')) /\ Len(stored') <= MaxImports
  <2>1. stored' \in Seq(ToSet(stored')) /\ Len(stored') = Len(stored)
    BY <1>2, Replaced DEF Typed
  <2> QED
    BY <1>1, <1>2, <2>1 DEF Typed
<1>4. pc'[c] = "idle" /\ Typed' /\ \A d \in Clients \ { c } : Same(d)
  BY <1>1, <1>2, <1>3, TypedRowStep
<1>5. Contents'
  BY <1>1, <1>2, <1>4, ContentsRemove DEF Same
<1>6. StoredWhole'
  BY <1>1, <1>2, WholeRemove
<1> QED
  BY <1>1, <1>4, <1>5, <1>6, RowSteps

LEMMA RemovesContent ==
    ASSUME Inv, NEW c \in Clients, removeContent(c)
    PROVE  Inv'
<1>1. /\ pc[c] = "undo" /\ goto(c, pc[c], "idle") /\ keepsFiles
      /\ stored' = [stored EXCEPT ![job[c].copy] = Gone]
      /\ UNCHANGED << size, row, job, fetched, clear, delivered >>
  BY DEF removeContent, goto
<1>2. /\ job[c].copy \in DOMAIN stored
      /\ \A f \in Files : row[f] # job[c].copy
  BY <1>1 DEF Inv, Contents, Removing
<1>3. \A d \in Clients : pc[d] \in CommitAt => job[d].copy # job[c].copy
  BY <1>1 DEF Inv, Contents, Committing, CommitAt
<1> QED
  BY <1>1, <1>2, <1>3, Removes

LEMMA RemovesOldLoFile ==
    ASSUME Inv, NEW c \in Clients, removeOldLoFile(c)
    PROVE  Inv'
<1>1. /\ pc[c] = "lo_remove" /\ goto(c, pc[c], "idle") /\ keepsFiles
      /\ stored' = IF job[c].id \in Ids THEN [stored EXCEPT ![job[c].id] = Gone] ELSE stored
      /\ UNCHANGED << size, row, job, fetched, clear, delivered >>
  BY DEF removeOldLoFile, goto
<1>2. \A d \in Clients : pc[d] \in CommitAt => job[d].copy # job[c].id
  BY <1>1 DEF Inv, Contents, Committing, LoAt
<1>3. CASE job[c].id \in Ids
  <2>1. job[c].id \in DOMAIN stored /\ \A f \in Files : row[f] # job[c].id
    BY <1>1, <1>3 DEF Inv, Contents, Replacing, LoAt
  <2> QED
    BY <1>1, <1>2, <1>3, <2>1, Removes
<1>4. CASE job[c].id \notin Ids
  <2>1. Len(stored) \in Nat /\ DOMAIN stored = 1 .. Len(stored) /\ Len(stored) <= MaxImports
    BY DEF Inv, Typed
  <2>2. job[c].id \notin DOMAIN stored
    BY <1>4, <2>1, StorageAssumption DEF Ids
  <2>3. stored' = [stored EXCEPT ![job[c].id] = Gone]
    <3>1. stored' = stored /\ stored = [i \in DOMAIN stored |-> stored[i]]
      BY <1>1, <1>4 DEF Inv, Typed
    <3> QED
      BY <2>2, <3>1
  <2>4. \A f \in Files : row[f] \in Ids => row[f] # job[c].id
    BY <1>4
  <2> QED
    BY <1>1, <1>2, <1>4, <2>3, <2>4, Removes
<1> QED
  BY <1>3, <1>4

\* A step of a download: what it does to its own path, to its copy and to the
\* deliveries has to be what Copied tells of the next step.
LEMMA Downloads ==
    ASSUME Inv, NEW c \in Clients, NEW to \in (Downloading \ { "fetch" }) \union { "idle" },
           pc[c] \in Downloading, pc'[c] = to, pc' \in [Clients -> Steps],
           \A d \in Clients \ { c } : pc'[d] = pc[d],
           row' = row, stored' = stored, size' = size, writer' = writer, enc' = enc,
           JobShape', \A d \in Clients \ { c } : job'[d] = job[d],
           job'[c].file = job[c].file, job'[c].kind = job[c].kind,
           \A d \in Clients : "path" \in met'[d] <=> "path" \in met[d],
           \A d \in Clients : "writer" \in met'[d] <=> "writer" \in met[d],
           met' \in [Clients -> SUBSET { "writer", "reader", "path" }],
           fetched' = [p \in Paths |-> fetched'[p]], clear' = [p \in Paths |-> clear'[p]],
           \A p \in Paths : p # pathOf(c) => clear'[p] = clear[p],
           delivered \subseteq delivered',
           \A d \in delivered' : d.file \in Files \ LoFiles /\ d.owner \in Clients,
           "path" \notin met[c] =>
              /\ to = "record" => job'[c].copy = clear'[pathOf(c)]
              /\ to = "send" /\ job[c].kind = "DELIVERY" =>
                    deliveredFile(job[c].file, clear'[pathOf(c)], c) \in delivered'
              /\ to = "clean" /\ job[c].kind = "DELIVERY" =>
                    deliveredFile(job[c].file, job'[c].copy, c) \in delivered'
    PROVE  Inv'
<1>1. Typed /\ pc[c] # "idle" /\ pc[c] \notin HasIds
  BY Locations DEF Inv
<1>2. \A d \in Clients \ { c } : Same(d)
  BY DEF Same
<1>3. to \in Steps \ { "lo_import", "fetch" }
  BY DEF Steps, Downloading, Reading
<1>4. EncShape'
  BY <1>1 DEF Typed, EncShape, Shaped, Opened
<1>5. Typed'
  <2>1. /\ row' \in [Files -> FileRow]
        /\ stored' \in Seq(ToSet(stored')) /\ Len(stored') <= MaxImports
        /\ writer' = [file |-> writer'.file, cipher |-> writer'.cipher]
    BY <1>1 DEF Typed
  <2>2. \A d \in Clients : job'[d].file = job[d].file /\ job'[d].kind = job[d].kind
    OBVIOUS
  <2> QED
    BY <1>1, <1>3, <1>4, <2>1, <2>2, TypedGoes
<1>6. Contents'
  BY <1>2, Locations, ContentsQuiet DEF Inv
<1>7. Written'
  BY <1>2, Locations, WrittenQuiet DEF Inv
<1>8. StoredWhole'
  BY WholeQuiet DEF Inv
<1>9. Copied'
  <2>1. \A d \in Clients : pathOf(d) \in Paths \/ pc[d] \notin Downloading
    <3> SUFFICES ASSUME NEW d \in Clients, pc[d] \in Downloading
                 PROVE  pathOf(d) \in Paths
      OBVIOUS
    <3>1. pc[d] # "idle"
      BY Locations
    <3>2. job[d].file \in Files /\ job[d].kind \in Kinds
      BY <1>1, <3>1 DEF Typed
    <3> QED
      BY <3>2 DEF pathOf, tempFilePath, Paths, Kinds
  <2> QED
    BY <1>2, <2>1, PathStep DEF Inv
<1> QED
  BY <1>5, <1>6, <1>7, <1>8, <1>9 DEF Inv

\* what a step of a download leaves alone, mostly
Leaves(c) ==
    /\ row' = row /\ stored' = stored /\ size' = size /\ writer' = writer /\ enc' = enc
    /\ \A d \in Clients : "path" \in met'[d] <=> "path" \in met[d]
    /\ \A d \in Clients : "writer" \in met'[d] <=> "writer" \in met[d]
    /\ met' \in [Clients -> SUBSET { "writer", "reader", "path" }]
    /\ fetched' = [p \in Paths |-> fetched'[p]] /\ clear' = [p \in Paths |-> clear'[p]]
    /\ \A p \in Paths : p # pathOf(c) => clear'[p] = clear[p]

\* one that neither takes a copy nor records a delivery
LEMMA PlainDownloads ==
    ASSUME Inv, NEW c \in Clients, NEW to \in (Downloading \ { "fetch" }) \union { "idle" },
           pc[c] \in Downloading, pc' = [pc EXCEPT ![c] = to],
           Leaves(c), job' = job, delivered' = delivered,
           to \notin { "record", "clean" }, to = "send" => job[c].kind # "DELIVERY"
    PROVE  Inv'
<1>1. Typed /\ to \in Steps
  BY DEF Inv, Steps, Downloading, Reading
<1>2. /\ pc'[c] = to /\ pc' \in [Clients -> Steps]
      /\ \A d \in Clients \ { c } : pc'[d] = pc[d]
  BY <1>1 DEF Typed
<1>3. JobShape' /\ \A d \in delivered' : d.file \in Files \ LoFiles /\ d.owner \in Clients
  BY <1>1 DEF Typed, JobShape
<1> QED
  BY <1>2, <1>3, Downloads DEF Leaves

LEMMA ReadsAndMarks ==
    ASSUME Inv, NEW c \in Clients,
           \/ downloadFromIpfs(c) \/ exportFile(c) \/ decrypt(c) \/ closeAndRemove(c)
           \/ setMetadata(c) \/ clean(c)
    PROVE  Inv'
<1>1. /\ Typed /\ met \in [Clients -> SUBSET { "writer", "reader", "path" }]
      /\ fetched = [p \in Paths |-> fetched[p]] /\ clear = [p \in Paths |-> clear[p]]
      /\ pc \in [Clients -> Steps]
  BY DEF Inv, Typed
<1> DEFINE p0 == pathOf(c)
<1>2. ASSUME NEW from, NEW to, NEW x, NEW y, onPath(c, from, to, x, y)
      PROVE  /\ pc[c] = from /\ pc' = [pc EXCEPT ![c] = to]
             /\ job' = job /\ delivered' = delivered
             /\ row' = row /\ stored' = stored /\ size' = size
             /\ fetched' = [p \in Paths |-> fetched'[p]] /\ clear' = [p \in Paths |-> clear'[p]]
             /\ \A p \in Paths : p # p0 => clear'[p] = clear[p]
  <2>1. fetched' = [fetched EXCEPT ![p0] = x] /\ clear' = [clear EXCEPT ![p0] = y]
    BY <1>2 DEF onPath
  <2> HIDE DEF p0
  <2>2. /\ fetched' = [p \in Paths |-> fetched'[p]] /\ clear' = [p \in Paths |-> clear'[p]]
        /\ \A p \in Paths : p # p0 => clear'[p] = clear[p]
    BY <1>1, <2>1
  <2> QED
    BY <1>2, <2>2 DEF onPath, goto
<1> HIDE DEF p0
<1>3. keepsFiles => /\ writer' = writer /\ enc' = enc /\ met' = met
                    /\ met' \in [Clients -> SUBSET { "writer", "reader", "path" }]
  BY <1>1 DEF keepsFiles, fileVars
<1>4. /\ { "fetch", "readOpen", "mark", "clean" } \union Reading \subseteq Downloading
      /\ { "readOpen", "readIv", "readKey", "read", "readClose", "mark", "hash", "send", "idle" }
           \subseteq (Downloading \ { "fetch" }) \union { "idle" }
  BY DEF Downloading, Reading
<1>5. CASE downloadFromIpfs(c)
  <2>1. onPath(c, "fetch", "readOpen", stored[job[c].id].blocks, clear[pathOf(c)]) /\ keepsFiles
    BY <1>5 DEF downloadFromIpfs
  <2>2. Leaves(c) /\ pc[c] = "fetch" /\ pc' = [pc EXCEPT ![c] = "readOpen"]
        /\ job' = job /\ delivered' = delivered
    BY <2>1, <1>2, <1>3 DEF Leaves, p0
  <2> QED
    BY <2>2, <1>4, PlainDownloads
<1>6. CASE exportFile(c)
  <2>1. /\ job[c].file \in LoFiles /\ keepsFiles
        /\ onPath(c, "fetch", "send", None,
                  IF IsStored(job[c].id) THEN Copy(<<>>, None) ELSE clear[pathOf(c)])
    BY <1>6 DEF exportFile
  <2>2. Leaves(c) /\ pc[c] = "fetch" /\ pc' = [pc EXCEPT ![c] = "send"]
        /\ job' = job /\ delivered' = delivered
    BY <2>1, <1>2, <1>3 DEF Leaves, p0
  <2>3. job[c].kind # "DELIVERY"
    BY <1>1, <2>1, <2>2 DEF Typed
  <2> QED
    BY <2>2, <2>3, <1>4, PlainDownloads
<1>7. CASE decrypt(c)
  <2>1. CASE pc[c] = "readOpen" /\ readerOpen(c, fetched[pathOf(c)]) /\ UNCHANGED rest
    <3>1. met' \in [Clients -> SUBSET { "writer", "reader", "path" }]
          /\ \A d \in Clients : /\ "path" \in met'[d] <=> "path" \in met[d]
                                /\ "writer" \in met'[d] <=> "writer" \in met[d]
      BY <1>1, <2>1, Met DEF readerOpen
    <3>2. /\ pc' = [pc EXCEPT ![c] = "readIv"] /\ writer' = writer /\ enc' = enc
          /\ row' = row /\ stored' = stored /\ size' = size /\ job' = job
          /\ fetched' = fetched /\ clear' = clear /\ delivered' = delivered
      BY <2>1 DEF readerOpen, goto, rest
    <3>3. Leaves(c)
      BY <1>1, <3>1, <3>2 DEF Leaves
    <3> QED
      BY <2>1, <3>2, <3>3, <1>4, PlainDownloads
  <2>2. CASE (readerIv(c) \/ readerRead(c) \/ readerEnd(c)) /\ UNCHANGED rest
    <3>1. /\ writer' = writer /\ enc' = enc /\ met' = met
          /\ row' = row /\ stored' = stored /\ size' = size /\ job' = job
          /\ fetched' = fetched /\ clear' = clear /\ delivered' = delivered
      BY <2>2 DEF readerIv, readerRead, readerEnd, rest
    <3>2. Leaves(c)
      BY <1>1, <3>1 DEF Leaves
    <3>3. \E to \in { "readKey", "read", "readClose" } :
             pc[c] \in Reading /\ pc' = [pc EXCEPT ![c] = to]
      <4>1. CASE readerRead(c)
        <5>1. pc[c] = "read" /\ pc' = pc
          BY <4>1 DEF readerRead
        <5>2. pc' = [pc EXCEPT ![c] = "read"]
          BY <1>1, <5>1
        <5> QED
          BY <5>1, <5>2 DEF Reading
      <4>2. CASE readerIv(c) \/ readerEnd(c)
        BY <4>2 DEF readerIv, readerEnd, goto, Reading
      <4> QED
        BY <2>2, <4>1, <4>2
    <3> QED
      BY <3>1, <3>2, <3>3, <1>4, PlainDownloads
  <2>3. CASE /\ readerKey(c)
             /\ clear' = [clear EXCEPT ![pathOf(c)] = Copy(<<>>, None)]
             /\ UNCHANGED << size, row, stored, job, fetched, delivered >>
    <3>1. clear' = [p \in Paths |-> clear'[p]] /\ \A p \in Paths : p # p0 => clear'[p] = clear[p]
      <4>1. clear' = [clear EXCEPT ![p0] = Copy(<<>>, None)]
        BY <2>3 DEF p0
      <4> QED
        BY <1>1, <4>1
    <3>2. /\ pc[c] = "readKey" /\ pc' = [pc EXCEPT ![c] = "read"]
          /\ writer' = writer /\ enc' = enc /\ met' = met
      BY <2>3 DEF readerKey, goto
    <3>3. Leaves(c)
      BY <1>1, <2>3, <3>1, <3>2 DEF Leaves, p0
    <3> QED
      BY <2>3, <3>2, <3>3, <1>4, PlainDownloads DEF Reading
  <2> QED
    BY <1>7, <2>1, <2>2, <2>3 DEF decrypt
<1>8. CASE closeAndRemove(c)
  <2> DEFINE to == IF fetched[pathOf(c)] = None THEN "idle" ELSE toSend(c)
  <2>1. PICK blocks : onPath(c, "readClose", to, None,
                             IF clear[pathOf(c)] = None THEN None ELSE Copy(blocks, None))
    BY <1>8 DEF closeAndRemove
  <2>2. writer' = writer /\ enc' = enc /\ met' = met
    BY <1>8 DEF closeAndRemove
  <2>3. to \in { "idle", "mark", "send" } /\ (to = "send" => job[c].kind # "DELIVERY")
    BY DEF toSend
  <2> HIDE DEF to
  <2>4. Leaves(c) /\ pc[c] = "readClose" /\ pc' = [pc EXCEPT ![c] = to]
        /\ job' = job /\ delivered' = delivered
    BY <2>1, <2>2, <1>1, <1>2 DEF Leaves, p0
  <2>5. pc[c] \in Downloading /\ to \in (Downloading \ { "fetch" }) \union { "idle" }
        /\ to \notin { "record", "clean" }
    BY <2>3, <2>4, <1>4 DEF Reading
  <2> QED
    BY <2>3, <2>4, <2>5, PlainDownloads
<1>9. CASE setMetadata(c)
  <2>1. /\ keepsFiles
        /\ \E y : onPath(c, "mark", "hash", fetched[pathOf(c)], y)
    BY <1>9 DEF setMetadata
  <2>2. Leaves(c) /\ pc[c] = "mark" /\ pc' = [pc EXCEPT ![c] = "hash"]
        /\ job' = job /\ delivered' = delivered
    BY <2>1, <1>2, <1>3 DEF Leaves, p0
  <2> QED
    BY <2>2, <1>4, PlainDownloads
<1>10. CASE clean(c)
  <2>1. Leaves(c) /\ pc[c] = "clean" /\ pc' = [pc EXCEPT ![c] = "idle"]
        /\ job' = job /\ delivered' = delivered
    <3>1. CASE onPath(c, "clean", "idle", fetched[pathOf(c)], None) /\ keepsFiles
      BY <3>1, <1>2, <1>3 DEF Leaves, p0
    <3>2. CASE skips(c, "clean", "idle")
      BY <3>2, <1>1, <1>3 DEF Leaves, skips, goto, rest, keepsFiles, fileVars
    <3> QED
      BY <1>10, <3>1, <3>2 DEF clean
  <2> QED
    BY <2>1, <1>4, PlainDownloads
<1> QED
  BY <1>5, <1>6, <1>7, <1>8, <1>9, <1>10

\* A request takes its copy, records it or sends it.
LEMMA TakesCopy ==
    ASSUME Inv, NEW c \in Clients, hash(c) \/ send(c)
    PROVE  Inv'
<1> DEFINE to == IF pc[c] = "hash" THEN "record" ELSE "clean"
<1>1. /\ Typed /\ JobShape /\ met \in [Clients -> SUBSET { "writer", "reader", "path" }]
      /\ fetched = [p \in Paths |-> fetched[p]] /\ clear = [p \in Paths |-> clear[p]]
      /\ \A d \in delivered : d.file \in Files \ LoFiles /\ d.owner \in Clients
  BY DEF Inv, Typed
<1>2. /\ pc[c] \in { "hash", "send" } /\ pc' = [pc EXCEPT ![c] = to]
      /\ job' = [job EXCEPT ![c].copy = clear[pathOf(c)]]
      /\ row' = row /\ stored' = stored /\ size' = size /\ writer' = writer /\ enc' = enc
      /\ met' = met /\ fetched' = fetched /\ clear' = clear /\ delivered' = delivered
  BY DEF hash, send, goto, keepsFiles, fileVars
<1>3. /\ to \in (Downloading \ { "fetch" }) \union { "idle" } /\ to \in Steps
      /\ pc[c] \in Downloading
      /\ to # "send" /\ (to = "clean" => pc[c] = "send")
  BY <1>2 DEF Downloading, Reading, Steps
<1>4. /\ pc'[c] = to /\ pc' \in [Clients -> Steps]
      /\ \A d \in Clients \ { c } : pc'[d] = pc[d]
  BY <1>1, <1>2, <1>3 DEF Typed
<1>5. /\ JobShape' /\ job'[c].copy = clear[pathOf(c)]
      /\ job'[c].file = job[c].file /\ job'[c].kind = job[c].kind
      /\ \A d \in Clients \ { c } : job'[d] = job[d]
  BY <1>1, <1>2, CopyKept
<1>6. "path" \notin met[c] =>
         /\ to = "record" => job'[c].copy = clear'[pathOf(c)]
         /\ to = "send" /\ job[c].kind = "DELIVERY" =>
               deliveredFile(job[c].file, clear'[pathOf(c)], c) \in delivered'
         /\ to = "clean" /\ job[c].kind = "DELIVERY" =>
               deliveredFile(job[c].file, job'[c].copy, c) \in delivered'
  BY <1>2, <1>3, <1>5 DEF Inv, Copied
<1> HIDE DEF to
<1> QED
  BY <1>1, <1>2, <1>3, <1>4, <1>5, <1>6, Downloads

LEMMA Records ==
    ASSUME Inv, NEW c \in Clients, NEW f, f = job[c].file, f \notin LoFiles, delivers(c, f)
    PROVE  Inv'
<1>1. /\ Typed /\ JobShape /\ met \in [Clients -> SUBSET { "writer", "reader", "path" }]
      /\ fetched = [p \in Paths |-> fetched[p]] /\ clear = [p \in Paths |-> clear[p]]
      /\ \A d \in delivered : d.file \in Files \ LoFiles /\ d.owner \in Clients
  BY DEF Inv, Typed
<1>2. /\ pc[c] = "record" /\ pc' = [pc EXCEPT ![c] = "send"]
      /\ delivered' = delivered \union { deliveredFile(f, job[c].copy, c) }
      /\ row' = row /\ stored' = stored /\ size' = size /\ writer' = writer /\ enc' = enc
      /\ met' = met /\ fetched' = fetched /\ clear' = clear /\ job' = job
  BY DEF delivers, goto, keepsFiles, fileVars
<1>3. /\ "send" \in (Downloading \ { "fetch" }) \union { "idle" } /\ "send" \in Steps
      /\ pc[c] \in Downloading
  BY <1>2 DEF Downloading, Reading, Steps
<1>4. /\ pc'[c] = "send" /\ pc' \in [Clients -> Steps]
      /\ \A d \in Clients \ { c } : pc'[d] = pc[d]
  BY <1>1, <1>2, <1>3 DEF Typed
<1>5. JobShape'
  BY <1>1, <1>2 DEF JobShape
<1>6. \A d \in delivered' : d.file \in Files \ LoFiles /\ d.owner \in Clients
  <2>1. f \in Files
    BY <1>1, <1>2 DEF Typed
  <2> QED
    BY <1>1, <1>2, <2>1 DEF deliveredFile
<1>7. "path" \notin met[c] =>
         deliveredFile(job[c].file, clear'[pathOf(c)], c) \in delivered'
  BY <1>2, <1>3 DEF Inv, Copied
<1> QED
  BY <1>1, <1>2, <1>3, <1>4, <1>5, <1>6, <1>7, Downloads

\* Requests that end, or that are interrupted, leave everything as it is.
LEMMA Ends ==
    ASSUME Inv, \A c \in Clients : pc'[c] = "idle" \/ (Same(c) /\ met'[c] = met[c]),
           pc' \in [Clients -> Steps], JobShape',
           row' = row, stored' = stored, size' = size, clear' = clear, fetched' = fetched,
           delivered' = delivered,
           \/ enc' = enc /\ writer' = writer
           \/ /\ \A c \in Clients : pc'[c] = "idle"
              /\ EncShape' /\ writer' = [file |-> writer'.file, cipher |-> writer'.cipher],
           met' \in [Clients -> SUBSET { "writer", "reader", "path" }]
    PROVE  Inv'
<1>1. Typed
  BY DEF Inv
<1>2. Typed'
  <2>1. EncShape' /\ writer' = [file |-> writer'.file, cipher |-> writer'.cipher]
    BY <1>1 DEF Typed, EncShape, Shaped, Opened
  <2>2. /\ \A c \in Clients : pc'[c] # "idle" => job'[c].file \in Files
        /\ \A c \in Clients : pc'[c] = "lo_import" => job'[c].file \in LoFiles
        /\ \A c \in Clients : pc'[c] = "fetch" /\ job'[c].file \in LoFiles => job'[c].kind # "DELIVERY"
        /\ \A c \in Clients : pc'[c] \in Downloading => job'[c].kind \in Kinds
    BY <1>1, Locations DEF Typed, Same
  <2> QED
    BY <1>1, <2>1, <2>2 DEF Typed
<1>3. Contents'
  BY Locations, ContentsQuiet DEF Inv
<1>4. Written'
  <2>1. CASE enc' = enc /\ writer' = writer
    BY <2>1, Locations, WrittenQuiet DEF Inv
  <2>2. CASE \A c \in Clients : pc'[c] = "idle"
    BY <2>2, Locations DEF Written
  <2> QED
    BY <2>1, <2>2
<1>5. StoredWhole'
  BY WholeQuiet DEF Inv
<1>6. Copied'
  BY Locations, CopiedQuiet DEF Inv
<1> QED
  BY <1>2, <1>3, <1>4, <1>5, <1>6 DEF Inv

LEMMA Fails ==
    ASSUME Inv, NEW c \in Clients, fails(c)
    PROVE  Inv'
<1>1. Typed
  BY DEF Inv
<1>2. /\ pc' = [pc EXCEPT ![c] = "idle"]
      /\ row' = row /\ stored' = stored /\ size' = size /\ clear' = clear /\ fetched' = fetched
      /\ delivered' = delivered /\ job' = job /\ enc' = enc /\ writer' = writer /\ met' = met
  BY DEF fails, fileVars, rest
<1>3. /\ \A d \in Clients : pc'[d] = "idle" \/ (Same(d) /\ met'[d] = met[d])
      /\ pc' \in [Clients -> Steps]
  BY <1>1, <1>2 DEF Typed, Same, Steps
<1>4. JobShape' /\ met' \in [Clients -> SUBSET { "writer", "reader", "path" }]
  BY <1>1, <1>2 DEF Typed, JobShape
<1> QED
  BY <1>2, <1>3, <1>4, Ends

LEMMA Crashes ==
    ASSUME Inv, crash
    PROVE  Inv'
<1>1. /\ pc' = [c \in Clients |-> "idle"]
      /\ writer' = [file |-> None, cipher |-> None]
      /\ enc' = [c \in Clients |-> NotWriting]
      /\ met' = [c \in Clients |-> {}]
      /\ job' = [c \in Clients |-> NoJob]
      /\ row' = row /\ stored' = stored /\ size' = size /\ clear' = clear /\ fetched' = fetched
      /\ delivered' = delivered
  BY DEF crash
<1>2. /\ \A c \in Clients : pc'[c] = "idle"
      /\ pc' \in [Clients -> Steps]
      /\ met' \in [Clients -> SUBSET { "writer", "reader", "path" }]
      /\ writer' = [file |-> writer'.file, cipher |-> writer'.cipher]
  BY <1>1 DEF Steps
<1>3. JobShape'
  BY <1>1 DEF JobShape, NoJob
<1>4. EncShape'
  BY <1>1 DEF EncShape, Shaped, Opened, NotWriting
<1> QED
  BY <1>1, <1>2, <1>3, <1>4, Ends

LEMMA Initially == Init => Inv
<1> SUFFICES ASSUME Init
             PROVE  Inv
  OBVIOUS
<1>1. /\ size \in [Files -> 0 .. MaxBlocks]
      /\ pc = [c \in Clients |-> "idle"]
      /\ writer = [file |-> None, cipher |-> None]
      /\ enc = [c \in Clients |-> NotWriting]
      /\ met = [c \in Clients |-> {}]
      /\ row = [f \in Files |-> IF f \in EntryFiles THEN None ELSE Absent]
      /\ stored = <<>> /\ job = [c \in Clients |-> NoJob]
      /\ fetched = [p \in Paths |-> None] /\ clear = [p \in Paths |-> None]
      /\ delivered = {}
  BY DEF Init, FileInit
<1>2. /\ \A c \in Clients : pc[c] = "idle"
      /\ DOMAIN stored = {} /\ stored \in Seq(ToSet(stored)) /\ Len(stored) = 0
  BY <1>1 DEF ToSet
<1>3. None \notin Ids /\ Absent \notin Ids /\ 0 <= MaxImports
  BY StorageAssumption DEF Ids
<1>4. Typed
  <2>1. size \in [Files -> Nat]
    BY <1>1
  <2>2. row \in [Files -> FileRow]
    BY <1>1 DEF FileRow
  <2>3. JobShape
    BY <1>1 DEF JobShape, NoJob
  <2>4. EncShape
    BY <1>1 DEF EncShape, Shaped, Opened, NotWriting
  <2>5. pc \in [Clients -> Steps]
    BY <1>1 DEF Steps
  <2>6. "idle" \notin { "lo_import", "fetch" } \union Downloading
    BY DEF Downloading, Reading
  <2> QED
    BY <1>1, <1>2, <1>3, <2>1, <2>2, <2>3, <2>4, <2>5, <2>6 DEF Typed
<1>5. Contents
  BY <1>1, <1>2, <1>3
     DEF Contents, RowsHaveContent, Committing, Removing, Replacing, CommitAt, LoAt
<1>6. Written /\ Copied
  BY <1>2 DEF Written, Copied, Writing, Downloading, Reading
<1>7. StoredWhole
  BY <1>2 DEF StoredWhole
<1> QED
  BY <1>4, <1>5, <1>6, <1>7 DEF Inv

LEMMA Preserved == Inv /\ [Next]_vars => Inv'
<1> SUFFICES ASSUME Inv, [Next]_vars
             PROVE  Inv'
  OBVIOUS
<1>1. ASSUME NEW c \in Clients, encrypt(c) \/ moveToIpfs(c) \/ importFileInDB(c)
      PROVE  Inv'
  BY <1>1, Encrypts, MovesToIpfs, ImportsInDB
<1>2. ASSUME NEW c \in Clients, addFile(c) \/ setItemFileCid(c) \/ setRecordFileCid(c)
      PROVE  Inv'
  <2>1. pc[c] = "commit" /\ pc[c] \in CommitAt
    BY <1>2 DEF addFile, setItemFileCid, setRecordFileCid, setCid, CommitAt
  <2>2. CASE commits(c, "commit", "idle", job[c].file, job[c].copy)
    BY <2>1, <2>2, Commits
  <2>3. CASE \E to \in { "idle", "undo" } : skips(c, "commit", to)
    BY <2>3, GivesUp
  <2> QED
    BY <1>2, <2>2, <2>3 DEF addFile, setItemFileCid, setRecordFileCid, setCid
<1>3. ASSUME NEW c \in Clients, updateLoFile(c)
      PROVE  Inv'
  <2>1. pc[c] = "lo_commit" /\ pc[c] \in CommitAt
    BY <1>3 DEF updateLoFile, commits, goto, CommitAt
  <2> QED
    BY <1>3, <2>1, Commits DEF updateLoFile
<1>4. ASSUME NEW c \in Clients, removeContent(c) \/ removeOldLoFile(c)
      PROVE  Inv'
  BY <1>4, RemovesContent, RemovesOldLoFile
<1>5. ASSUME NEW c \in Clients,
             \/ downloadFromIpfs(c) \/ exportFile(c) \/ decrypt(c) \/ closeAndRemove(c)
             \/ setMetadata(c) \/ hash(c) \/ send(c) \/ clean(c)
      PROVE  Inv'
  BY <1>5, ReadsAndMarks, TakesCopy
<1>6. ASSUME NEW c \in Clients,
             addDeliveredItemFile(c) \/ addDeliveredRecordFile(c) \/ addDeliveredFile(c)
      PROVE  Inv'
  <2>1. job[c].file \notin LoFiles /\ delivers(c, job[c].file)
    BY <1>6, StorageAssumption DEF addDeliveredItemFile, addDeliveredRecordFile, addDeliveredFile
  <2> QED
    BY <2>1, Records
<1>7. ASSUME NEW c \in Clients, fails(c)
      PROVE  Inv'
  BY <1>7, Fails
<1>8. ASSUME NEW c \in Clients, NEW f \in Files,
             \/ uploadLocFile(c, f) \/ uploadItemFile(c, f) \/ uploadRecordFile(c, f)
             \/ uploadLoFile(c, f) \/ deleteFile(c, f)
      PROVE  Inv'
  BY <1>8, UploadBegins, LoUploadBegins, Deletes DEF uploadLocFile, uploadItemFile, uploadRecordFile
<1>9. ASSUME NEW c \in Clients, NEW f \in Files,
             \/ downloadItemFile(c, f) \/ downloadRecordFile(c, f) \/ downloadCollectionFile(c, f)
             \/ downloadItemFileSource(c, f) \/ downloadRecordFileSource(c, f)
             \/ downloadFile(c, f) \/ downloadLoFile(c, f)
      PROVE  Inv'
  <2>1. \E kind \in Kinds : exportTo(c, f, kind) /\ (f \in LoFiles => kind # "DELIVERY")
    BY <1>9, StorageAssumption
       DEF downloadItemFile, downloadRecordFile, downloadCollectionFile, downloadItemFileSource,
           downloadRecordFileSource, downloadFile, downloadLoFile, Kinds
  <2> QED
    BY <2>1, DownloadBegins
<1>10. CASE crash
  BY <1>10, Crashes
<1>11. CASE UNCHANGED vars
  <2>1. /\ size' = size /\ pc' = pc /\ writer' = writer /\ enc' = enc /\ met' = met
        /\ row' = row /\ stored' = stored /\ job' = job /\ fetched' = fetched /\ clear' = clear
        /\ delivered' = delivered
    BY <1>11 DEF vars
  <2>2. /\ pc' \in [Clients -> Steps] /\ JobShape'
        /\ met' \in [Clients -> SUBSET { "writer", "reader", "path" }]
    BY <2>1 DEF Inv, Typed, JobShape
  <2>3. \A c \in Clients : Same(c) /\ met'[c] = met[c]
    BY <2>1 DEF Same
  <2> QED
    BY <2>1, <2>2, <2>3, Ends
<1> QED
  BY <1>1, <1>2, <1>3, <1>4, <1>5, <1>6, <1>7, <1>8, <1>9, <1>10, <1>11 DEF Next

-----------------------------------------------------------------------------
(***************************************************************************)
(* Reading back: what is cut from a content, and how often.                *)
(***************************************************************************)

\* Division by the size of the buffer.
LEMMA Division ==
    ASSUME NEW n \in Nat, NEW b \in Nat, b > 0
    PROVE  n = b * (n \div b) + (n % b) /\ n % b \in 0 .. b - 1 /\ n \div b \in Nat
OBVIOUS

LEMMA AtLeastOne ==
    ASSUME NEW b \in Nat, b > 0, NEW i \in Int, i >= 1
    PROVE  b <= b * i
OBVIOUS

LEMMA OneRemainder ==
    ASSUME NEW b \in Nat, b > 0, NEW q \in Int, NEW p \in Int,
           NEW r \in 0 .. b - 1, NEW s \in 0 .. b - 1, b * q + r = b * p + s
    PROVE  r = s
<1>1. b * (q - p) = s - r
  OBVIOUS
<1>2. CASE q - p >= 1
  BY <1>1, <1>2, AtLeastOne
<1>3. CASE p - q >= 1
  <2>1. b * (p - q) = r - s
    OBVIOUS
  <2> QED
    BY <2>1, <1>3, AtLeastOne
<1>4. CASE p = q
  BY <1>4
<1> QED
  BY <1>2, <1>3, <1>4

LEMMA Remainder ==
    ASSUME NEW b \in Nat, b > 0, NEW q \in Nat, NEW r \in 0 .. b - 1, NEW n, n = b * q + r
    PROVE  n % b = r
<1>1. n \in Nat
  OBVIOUS
<1>2. n = b * (n \div b) + (n % b) /\ n % b \in 0 .. b - 1 /\ n \div b \in Nat
  BY <1>1, Division
<1> QED
  BY <1>2, OneRemainder

\* what is cut from the front of a sequence, and what is left
LEMMA Cut ==
    ASSUME NEW S, NEW s \in Seq(S), NEW n \in 0 .. Len(s)
    PROVE  /\ First(s, n) \in Seq(S) /\ Len(First(s, n)) = n
           /\ \A i \in 1 .. n : First(s, n)[i] = s[i]
           /\ Rest(s, n) \in Seq(S) /\ Len(Rest(s, n)) = Len(s) - n
           /\ \A i \in 1 .. Len(s) - n : Rest(s, n)[i] = s[n + i]
<1>1. Len(s) \in Nat /\ \A i \in 1 .. Len(s) : s[i] \in S
  OBVIOUS
<1>2. /\ SubSeq(s, 1, n) \in Seq(S) /\ Len(SubSeq(s, 1, n)) = IF 1 <= n THEN n - 1 + 1 ELSE 0
      /\ \A i \in 1 .. n - 1 + 1 : SubSeq(s, 1, n)[i] = s[1 + i - 1]
  BY <1>1, SubSeqProperties
<1>3. /\ SubSeq(s, n + 1, Len(s)) \in Seq(S)
      /\ Len(SubSeq(s, n + 1, Len(s))) = IF n + 1 <= Len(s) THEN Len(s) - (n + 1) + 1 ELSE 0
      /\ \A i \in 1 .. Len(s) - (n + 1) + 1 : SubSeq(s, n + 1, Len(s))[i] = s[n + 1 + i - 1]
  BY <1>1, SubSeqProperties
<1> QED
  BY <1>1, <1>2, <1>3 DEF First, Rest

LEMMA SameSequence ==
    ASSUME NEW S, NEW s \in Seq(S), NEW T, NEW t \in Seq(T), Len(s) = Len(t),
           \A i \in 1 .. Len(s) : s[i] = t[i]
    PROVE  s = t
<1>1. s = [i \in 1 .. Len(s) |-> s[i]] /\ t = [i \in 1 .. Len(t) |-> t[i]]
  OBVIOUS
<1> QED
  BY <1>1

\* cutting what is left once more
LEMMA CutAgain ==
    ASSUME NEW S, NEW s \in Seq(S), NEW m \in 0 .. Len(s), NEW k \in Nat
    PROVE  /\ m + k <= Len(s) => Rest(Rest(s, m), k) = Rest(s, m + k)
           /\ m + k >= Len(s) => Rest(Rest(s, m), k) = Rest(s, Len(s))
<1> DEFINE t == Rest(s, m)
<1>1. Len(s) \in Nat /\ t \in Seq(S) /\ Len(t) = Len(s) - m /\ \A i \in 1 .. Len(s) - m : t[i] = s[m + i]
  <2>1. Rest(s, m) \in Seq(S) /\ Len(Rest(s, m)) = Len(s) - m
    BY Cut
  <2>2. \A i \in 1 .. Len(s) - m : Rest(s, m)[i] = s[m + i]
    BY Cut
  <2> QED
    BY <2>1, <2>2
<1> HIDE DEF t
<1>2. CASE m + k <= Len(s)
  <2>1. m + k \in 0 .. Len(s) /\ k \in 0 .. Len(t)
    BY <1>1, <1>2
  <2>2. /\ Rest(t, k) \in Seq(S) /\ Len(Rest(t, k)) = Len(t) - k
        /\ \A i \in 1 .. Len(t) - k : Rest(t, k)[i] = t[k + i]
    BY <1>1, <2>1, Cut
  <2>3. /\ Rest(s, m + k) \in Seq(S) /\ Len(Rest(s, m + k)) = Len(s) - (m + k)
        /\ \A i \in 1 .. Len(s) - (m + k) : Rest(s, m + k)[i] = s[m + k + i]
    BY <2>1, Cut
  <2>4. \A i \in 1 .. Len(s) - (m + k) : Rest(t, k)[i] = Rest(s, m + k)[i]
    BY <1>1, <2>1, <2>2, <2>3
  <2>5. Rest(t, k) = Rest(s, m + k)
    BY <1>1, <2>2, <2>3, <2>4, SameSequence
  <2> QED
    BY <1>2, <2>5 DEF t
<1>3. CASE m + k > Len(s)
  <2>1. Rest(t, k) = <<>>
    BY <1>1, <1>3, SubSeqEmpty DEF Rest
  <2>2. Rest(s, Len(s)) = <<>>
    BY <1>1, SubSeqEmpty DEF Rest
  <2> QED
    BY <1>1, <1>3, <2>1, <2>2 DEF t
<1> QED
  BY <1>1, <1>2, <1>3 DEF t

LEMMA Joined ==
    ASSUME NEW S, NEW s \in Seq(S), NEW n \in 0 .. Len(s), NEW m \in 0 .. Len(s) - n,
           NEW u \in Seq(S), Len(u) = m, \A i \in 1 .. m : u[i] = s[n + i]
    PROVE  First(s, n) \o u = First(s, n + m)
<1> DEFINE t == First(s, n)
<1>1. Len(s) \in Nat /\ t \in Seq(S) /\ Len(t) = n /\ \A i \in 1 .. n : t[i] = s[i]
  BY Cut
<1>2. /\ First(s, n + m) \in Seq(S) /\ Len(First(s, n + m)) = n + m
      /\ \A i \in 1 .. n + m : First(s, n + m)[i] = s[i]
  BY <1>1, Cut
<1> HIDE DEF t
<1>3. /\ t \o u \in Seq(S) /\ Len(t \o u) = n + m
      /\ \A i \in 1 .. n + m : (t \o u)[i] = IF i <= n THEN t[i] ELSE u[i - n]
  BY <1>1, ConcatProperties
<1>4. \A i \in 1 .. n + m : (t \o u)[i] = s[i]
  <2> SUFFICES ASSUME NEW i \in 1 .. n + m
               PROVE  (t \o u)[i] = s[i]
    OBVIOUS
  <2>1. CASE i <= n
    BY <1>1, <1>3, <2>1
  <2>2. CASE i > n
    <3>1. i - n \in 1 .. m /\ n + (i - n) = i
      BY <1>1, <2>2
    <3>2. u[i - n] = s[n + (i - n)]
      BY <3>1
    <3> QED
      BY <1>1, <1>3, <2>2, <3>1, <3>2
  <2> QED
    BY <1>1, <2>1, <2>2
<1>5. t \o u = First(s, n + m)
  BY <1>2, <1>3, <1>4, SameSequence
<1> QED
  BY <1>5 DEF t

\* the blocks of the whole content, as they are stored and as they come back
PartAt(f, i) == IF i <= size[f] THEN "body" ELSE "last"
ClearBlocks  == [part : { "body", "last" }, by : { None }, of : Files]

LEMMA EncryptedParts ==
    ASSUME Typed, NEW e \in Clients, NEW f \in Files
    PROVE  /\ size[f] \in Nat
           /\ Encrypted(e, f) \in Seq(Blocks) /\ Len(Encrypted(e, f)) = size[f] + 3
           /\ First(Encrypted(e, f), 2) = Opening(e)
           /\ \A i \in 1 .. size[f] + 1 : Encrypted(e, f)[i + 2] = Block(PartAt(f, i), e, f)
<1> DEFINE o == Opening(e)
<1> DEFINE b == Body(e, f)
<1> DEFINE l == << Block("last", e, f) >>
<1>1. /\ size[f] \in Nat
      /\ o \in Seq(Blocks) /\ b \in Seq(Blocks) /\ l \in Seq(Blocks)
  BY WrittenParts DEF Typed
<1>2. Len(o) = 2 /\ Len(b) = size[f] /\ Len(l) = 1
  BY <1>1 DEF Opening, Body
<1>3. l[1] = Block("last", e, f) /\ \A i \in 1 .. size[f] : b[i] = Block("body", e, f)
  BY DEF Body
<1>4. Encrypted(e, f) = (o \o b) \o l
  BY DEF Encrypted
<1> HIDE DEF o, b, l
<1> DEFINE h == o \o b
<1>5. /\ h \in Seq(Blocks) /\ Len(h) = size[f] + 2
      /\ \A i \in 1 .. size[f] + 2 : h[i] = IF i <= 2 THEN o[i] ELSE b[i - 2]
  <2>1. /\ o \o b \in Seq(Blocks) /\ Len(o \o b) = Len(o) + Len(b)
        /\ \A i \in 1 .. Len(o) + Len(b) :
              (o \o b)[i] = IF i <= Len(o) THEN o[i] ELSE b[i - Len(o)]
    BY <1>1, ConcatProperties
  <2>2. Len(o) + Len(b) = size[f] + 2
    BY <1>1, <1>2
  <2> QED
    BY <1>2, <2>1, <2>2
<1> HIDE DEF h
<1> DEFINE E == h \o l
<1>6. /\ E \in Seq(Blocks) /\ Len(E) = size[f] + 3
      /\ \A i \in 1 .. size[f] + 3 : E[i] = IF i <= size[f] + 2 THEN h[i] ELSE l[i - (size[f] + 2)]
  <2>1. /\ h \o l \in Seq(Blocks) /\ Len(h \o l) = Len(h) + Len(l)
        /\ \A i \in 1 .. Len(h) + Len(l) :
              (h \o l)[i] = IF i <= Len(h) THEN h[i] ELSE l[i - Len(h)]
    BY <1>1, <1>5, ConcatProperties
  <2>2. Len(h) + Len(l) = size[f] + 3 /\ Len(h) = size[f] + 2
    BY <1>1, <1>2, <1>5
  <2> QED
    BY <2>1, <2>2
<1> HIDE DEF E
<1>7. /\ E \in Seq(Blocks) /\ Len(E) = size[f] + 3
      /\ \A i \in 1 .. 2 : E[i] = o[i]
      /\ \A i \in 3 .. size[f] + 2 : E[i] = b[i - 2]
      /\ E[size[f] + 3] = l[1]
  <2>1. \A i \in 1 .. 2 : i \in 1 .. size[f] + 2 /\ i \in 1 .. size[f] + 3
    BY <1>1
  <2>2. \A i \in 1 .. 2 : E[i] = o[i]
    BY <1>1, <1>5, <1>6, <2>1
  <2>3. ASSUME NEW i \in 3 .. size[f] + 2
        PROVE  E[i] = b[i - 2]
    <3>1. i \in 1 .. size[f] + 2 /\ i \in 1 .. size[f] + 3 /\ ~(i <= 2)
      BY <1>1
    <3> QED
      BY <1>1, <1>5, <1>6, <3>1
  <2>4. E[size[f] + 3] = l[1]
    <3> DEFINE k == size[f] + 3
    <3>1. k \in 1 .. size[f] + 3 /\ ~(k <= size[f] + 2) /\ k - (size[f] + 2) = 1
      BY <1>1
    <3> HIDE DEF k
    <3>2. E[k] = l[1]
      BY <1>6, <3>1
    <3> QED
      BY <3>2 DEF k
  <2> QED
    BY <1>6, <2>2, <2>3, <2>4
<1>8. First(E, 2) = o
  <2>1. /\ First(E, 2) \in Seq(Blocks) /\ Len(First(E, 2)) = 2
        /\ \A i \in 1 .. 2 : First(E, 2)[i] = E[i]
    <3>1. 2 \in 0 .. Len(E) /\ E \in Seq(Blocks)
      BY <1>1, <1>7
    <3> QED
      BY <3>1, Cut
  <2> DEFINE t == First(E, 2)
  <2>2. \A i \in 1 .. 2 : t[i] = o[i]
    BY <1>7, <2>1
  <2>3. t \in Seq(Blocks) /\ Len(t) = 2
    BY <2>1
  <2> HIDE DEF t
  <2>4. t = o
    BY <1>1, <1>2, <2>2, <2>3, SameSequence
  <2> QED
    BY <2>4 DEF t
<1>9. ASSUME NEW i \in 1 .. size[f] + 1
      PROVE  E[i + 2] = Block(PartAt(f, i), e, f)
  <2>1. CASE i <= size[f]
    <3>1. i + 2 \in 3 .. size[f] + 2 /\ i + 2 - 2 = i /\ i \in 1 .. size[f]
      BY <1>1, <2>1
    <3>2. E[i + 2] = b[i]
      BY <1>7, <3>1
    <3> QED
      BY <1>3, <2>1, <3>1, <3>2 DEF PartAt
  <2>2. CASE i = size[f] + 1
    BY <1>1, <1>3, <1>7, <2>2 DEF PartAt
  <2> QED
    BY <1>1, <2>1, <2>2
<1>10. Encrypted(e, f) = E
  BY <1>4 DEF E, h
<1> QED
  BY <1>1, <1>7, <1>8, <1>9, <1>10 DEF o

LEMMA WholeParts ==
    ASSUME Typed, NEW f \in Files
    PROVE  /\ Whole(f) \in Seq(ClearBlocks) /\ Len(Whole(f)) = size[f] + 1
           /\ \A i \in 1 .. size[f] + 1 : Whole(f)[i] = Block(PartAt(f, i), None, f)
<1> DEFINE b == Body(None, f)
<1> DEFINE x == Block("last", None, f)
<1>1. size[f] \in Nat
  BY DEF Typed
<1>2. x \in ClearBlocks /\ Block("body", None, f) \in ClearBlocks
  BY DEF Block, ClearBlocks
<1>3. b = [i \in 1 .. size[f] |-> Block("body", None, f)]
  BY DEF Body
<1>4. Whole(f) = Append(b, x)
  BY DEF Whole
<1> HIDE DEF b, x
<1>5. b \in Seq(ClearBlocks) /\ Len(b) = size[f]
  BY <1>1, <1>2, <1>3
<1>6. /\ Append(b, x) \in Seq(ClearBlocks) /\ Len(Append(b, x)) = size[f] + 1
      /\ \A i \in 1 .. size[f] : Append(b, x)[i] = b[i]
      /\ Append(b, x)[size[f] + 1] = x
  BY <1>1, <1>2, <1>5
<1>7. ASSUME NEW i \in 1 .. size[f] + 1
      PROVE  Append(b, x)[i] = Block(PartAt(f, i), None, f)
  <2>1. CASE i <= size[f]
    <3>1. i \in 1 .. size[f] /\ PartAt(f, i) = "body"
      BY <1>1, <2>1 DEF PartAt
    <3>2. Append(b, x)[i] = b[i] /\ b[i] = Block("body", None, f)
      BY <1>3, <1>6, <3>1
    <3> QED
      BY <3>1, <3>2
  <2>2. CASE i = size[f] + 1
    <3>1. PartAt(f, i) = "last"
      BY <1>1, <2>2 DEF PartAt
    <3> QED
      BY <1>6, <2>2, <3>1 DEF x
  <2>3. i <= size[f] \/ i = size[f] + 1
    BY <1>1
  <2> QED
    BY <2>1, <2>2, <2>3
<1> QED
  BY <1>4, <1>6, <1>7

\* The key of the content deciphers what follows the n blocks that were read.
LEMMA ReadsOn ==
    ASSUME Typed, NEW e \in Clients, NEW f \in Files, NEW c, dec[c].key = Opening(e),
           NEW n \in 0 .. size[f] + 1, NEW m \in 0 .. size[f] + 1 - n,
           NEW s \in Seq(Blocks), Len(s) = m,
           \A i \in 1 .. m : s[i] = Encrypted(e, f)[n + i + 2]
    PROVE  First(Whole(f), n) \o Deciphered(c, s) = First(Whole(f), n + m)
<1>1. /\ size[f] \in Nat
      /\ \A i \in 1 .. size[f] + 1 : Encrypted(e, f)[i + 2] = Block(PartAt(f, i), e, f)
  BY EncryptedParts
<1>2. /\ Whole(f) \in Seq(ClearBlocks) /\ Len(Whole(f)) = size[f] + 1
      /\ \A i \in 1 .. size[f] + 1 : Whole(f)[i] = Block(PartAt(f, i), None, f)
  BY WholeParts
<1>3. \A i \in 1 .. m : s[i] = Block(PartAt(f, n + i), e, f)
  <2> TAKE i \in 1 .. m
  <2>1. n + i \in 1 .. size[f] + 1
    BY <1>1
  <2> QED
    BY <1>1, <2>1
<1>4. \A i \in 1 .. m : s[i].part \in { "body", "last" } /\ s[i].by = e
  BY <1>3 DEF Block, PartAt
<1> DEFINE u == [i \in 1 .. Len(s) |-> [s[i] EXCEPT !.by = None]]
<1>5. Deciphered(c, s) = u
  BY <1>4 DEF Deciphered, orGarbled
<1>6. \A i \in 1 .. m : u[i] = Block(PartAt(f, n + i), None, f)
  BY <1>3 DEF Block
<1>7. \A i \in 1 .. m : u[i] = Whole(f)[n + i]
  <2> TAKE i \in 1 .. m
  <2>1. n + i \in 1 .. size[f] + 1
    BY <1>1
  <2> QED
    BY <1>2, <1>6, <2>1
<1>8. u \in Seq(ClearBlocks) /\ Len(u) = m
  <2>1. \A i \in 1 .. m : u[i] \in ClearBlocks
    <3>1. Block("body", None, f) \in ClearBlocks /\ Block("last", None, f) \in ClearBlocks
      BY DEF Block, ClearBlocks
    <3>2. \A i \in 1 .. m : PartAt(f, n + i) = "body" \/ PartAt(f, n + i) = "last"
      BY DEF PartAt
    <3> QED
      BY <1>6, <3>1, <3>2
  <2>2. u = [i \in 1 .. m |-> u[i]]
    OBVIOUS
  <2> HIDE DEF u
  <2> QED
    BY <1>1, <2>1, <2>2
<1> HIDE DEF u
<1>9. n \in 0 .. Len(Whole(f)) /\ m \in 0 .. Len(Whole(f)) - n
  BY <1>1, <1>2
<1>10. First(Whole(f), n) \o u = First(Whole(f), n + m)
  BY <1>2, <1>7, <1>8, <1>9, Joined
<1> QED
  BY <1>5, <1>10

-----------------------------------------------------------------------------
(***************************************************************************)
(* ReadAt: the reader of one request.                                      *)
(***************************************************************************)

Held(r)  == r = [left |-> r.left, key |-> r.key, final |-> r.final, out |-> r.out]
DecShape == dec = [c \in Clients |-> dec[c]] /\ \A c \in Clients : Held(dec[c])

Source(c) == stored[job[c].id]

\* what a download reads was stored for its file, and may be removed meanwhile
Fetching(c) ==
    pc[c] \in Downloading =>
        /\ job[c].id \in DOMAIN stored
        /\ Source(c) # Gone => Source(c).of = job[c].file

\* The request reads a whole content, and nobody is on its path, nor in the
\* reader with it.  Until it opens the file, "reader" is from an earlier request.
Alone(c) ==
    /\ pc[c] \in Downloading /\ job[c].file \notin LoFiles
    /\ "path" \notin met[c]
    /\ "reader" \in met[c] => pc[c] \in { "fetch", "readOpen" }
    /\ Source(c) # Gone /\ Source(c).alone

\* The reader r deciphered n of the blocks of f, a number of whole buffers
\* unless it is all of them, and finalized if the last buffer was not filled.
HasRead(r, blocks, f, n) ==
    /\ r.left = Rest(blocks, n + 2)
    /\ r.key = First(blocks, 2)
    /\ r.out = First(Whole(f), n)
    /\ r.final <=> (n = size[f] + 1 /\ (size[f] + 1) % BUFFER # 0)
    /\ n # size[f] + 1 => \E k \in Nat : n = BUFFER * k

\* what is done when c alone reads and is about to do its next step
ReadAt(c) ==
    LET p == pathOf(c)
        f == job[c].file
        blocks == Source(c).blocks
        r == dec[c]
    IN  /\ pc[c] = "readOpen" => fetched[p] = blocks
        /\ pc[c] = "readIv" =>
              r.left = Rest(blocks, 1) /\ r.key = First(blocks, 1) /\ ~r.final /\ r.out = <<>>
        /\ pc[c] = "readKey" =>
              r.left = Rest(blocks, 2) /\ r.key = First(blocks, 2) /\ ~r.final /\ r.out = <<>>
        /\ pc[c] = "read" =>
              clear[p] = Copy(<<>>, None) /\ \E n \in 0 .. size[f] + 1 : HasRead(r, blocks, f, n)
        /\ pc[c] = "readClose" =>
              clear[p] = Copy(<<>>, None) /\ HasRead(r, blocks, f, size[f] + 1)
        /\ pc[c] \in { "mark", "hash", "record", "send" } =>
              \E owner \in Clients \union { None } : clear[p] = Copy(Kept(f), owner)

ReadInv == DecShape /\ \A c \in Clients : Fetching(c) /\ (Alone(c) => ReadAt(c))

\* a reader that has the key and the vector, and one that has read a buffer
Opens(r, key, left)        == [r EXCEPT !.key = key, !.left = left]
Reads(r, left, out, final) == [r EXCEPT !.left = left, !.out = out, !.final = final]

LEMMA HeldKept ==
    ASSUME NEW r, Held(r), NEW x, NEW y, NEW z
    PROVE  /\ Held(Opens(r, x, y)) /\ Held(Reads(r, x, y, z))
           /\ Opens(r, x, y).key = x /\ Opens(r, x, y).left = y
           /\ Opens(r, x, y).final = r.final /\ Opens(r, x, y).out = r.out
           /\ Reads(r, x, y, z).left = x /\ Reads(r, x, y, z).out = y
           /\ Reads(r, x, y, z).final = z /\ Reads(r, x, y, z).key = r.key
<1> DEFINE l == r.left
<1> DEFINE k == r.key
<1> DEFINE g == r.final
<1> DEFINE o == r.out
<1>1. r = [left |-> l, key |-> k, final |-> g, out |-> o]
  BY DEF Held
<1> HIDE DEF l, k, g, o
<1>2. [r EXCEPT !.key = x, !.left = y] = [left |-> y, key |-> x, final |-> g, out |-> o]
  <2> DEFINE m == [r EXCEPT !.key = x]
  <2>1. [r EXCEPT !.key = x, !.left = y] = [m EXCEPT !.left = y]
    OBVIOUS
  <2>2. m = [left |-> l, key |-> x, final |-> g, out |-> o]
    BY <1>1
  <2> HIDE DEF m
  <2>3. [m EXCEPT !.left = y] = [left |-> y, key |-> x, final |-> g, out |-> o]
    BY <2>2
  <2> QED
    BY <2>1, <2>3
<1>3. [r EXCEPT !.left = x, !.out = y, !.final = z] = [left |-> x, key |-> k, final |-> z, out |-> y]
  <2> DEFINE m == [r EXCEPT !.left = x]
  <2>1. [r EXCEPT !.left = x, !.out = y, !.final = z] = [m EXCEPT !.out = y, !.final = z]
    OBVIOUS
  <2>2. m = [left |-> x, key |-> k, final |-> g, out |-> o]
    BY <1>1
  <2> HIDE DEF m
  <2> DEFINE q == [m EXCEPT !.out = y]
  <2>3. [m EXCEPT !.out = y, !.final = z] = [q EXCEPT !.final = z]
    OBVIOUS
  <2>4. q = [left |-> x, key |-> k, final |-> g, out |-> y]
    BY <2>2
  <2> HIDE DEF q
  <2>5. [q EXCEPT !.final = z] = [left |-> x, key |-> k, final |-> z, out |-> y]
    BY <2>4
  <2> QED
    BY <2>1, <2>3, <2>5
<1>4. /\ r.left = l /\ r.key = k /\ r.final = g /\ r.out = o
  BY DEF l, k, g, o
<1>5. \A a, b, c, d : /\ Held([left |-> a, key |-> b, final |-> c, out |-> d])
                      /\ [left |-> a, key |-> b, final |-> c, out |-> d].left = a
                      /\ [left |-> a, key |-> b, final |-> c, out |-> d].key = b
                      /\ [left |-> a, key |-> b, final |-> c, out |-> d].final = c
                      /\ [left |-> a, key |-> b, final |-> c, out |-> d].out = d
  BY DEF Held
<1> QED
  BY <1>2, <1>3, <1>4, <1>5 DEF Opens, Reads

\* What is read alone is the encrypted content.
LEMMA Sourced ==
    ASSUME Inv, NEW c \in Clients, Fetching(c), Alone(c)
    PROVE  job[c].file \in Files /\ IsEncrypted(Source(c).blocks, job[c].file)
<1>1. job[c].file \in Files
  BY Locations DEF Inv, Typed, Alone
<1>2. IsStored(job[c].id) /\ Source(c).of = job[c].file
  BY DEF Fetching, Alone, IsStored, Source
<1>3. IsEncrypted(Source(c).blocks, Source(c).of)
  BY <1>2 DEF Inv, StoredWhole, Alone, Source, IsStored
<1> QED
  BY <1>1, <1>2, <1>3

-----------------------------------------------------------------------------
(***************************************************************************)
(* The steps of a reader that nobody shares.                               *)
(***************************************************************************)

LEMMA ReadsIv ==
    ASSUME Inv, DecShape, NEW c \in Clients, Fetching(c), Alone(c), ReadAt(c),
           readerIv(c), pc[c] = "readIv"
    PROVE  LET r == dec'[c]
               blocks == Source(c).blocks
           IN  r.left = Rest(blocks, 2) /\ r.key = First(blocks, 2) /\ ~r.final /\ r.out = <<>>
<1> DEFINE f == job[c].file
<1> DEFINE blocks == Source(c).blocks
<1> DEFINE l == dec[c].left
<1> DEFINE k == dec[c].key
<1>1. PICK e \in Clients : blocks = Encrypted(e, f)
  BY Sourced DEF IsEncrypted
<1>2. f \in Files /\ Typed
  BY Sourced DEF Inv
<1>3. blocks \in Seq(Blocks) /\ Len(blocks) = size[f] + 3 /\ size[f] \in Nat
  BY <1>1, <1>2, EncryptedParts
<1>4. l = Rest(blocks, 1) /\ k = First(blocks, 1) /\ ~dec[c].final /\ dec[c].out = <<>>
  BY DEF ReadAt
<1>5. ~isMixed(c)
  BY DEF Alone, isMixed
<1> DEFINE t == take(c, 1)
<1>6. dec' = [dec EXCEPT ![c].key = @ \o t, ![c].left = Rest(@, 1)]
  BY <1>5 DEF readerIv
<1> HIDE DEF blocks, f
<1>7. 1 \in 0 .. Len(blocks)
  BY <1>3
<1>8. l \in Seq(Blocks) /\ Len(l) = size[f] + 2 /\ \A i \in 1 .. size[f] + 2 : l[i] = blocks[1 + i]
  <2>1. /\ Rest(blocks, 1) \in Seq(Blocks) /\ Len(Rest(blocks, 1)) = Len(blocks) - 1
        /\ \A i \in 1 .. Len(blocks) - 1 : Rest(blocks, 1)[i] = blocks[1 + i]
    BY <1>3, <1>7, Cut
  <2>2. Len(blocks) - 1 = size[f] + 2
    BY <1>3
  <2> QED
    BY <1>4, <2>1, <2>2
<1>9. t = First(l, 1)
  <2>1. ~(Len(l) < 1)
    BY <1>3, <1>8
  <2> QED
    BY <2>1 DEF take
<1> HIDE DEF l, k, t
<1>10. t \in Seq(Blocks) /\ Len(t) = 1 /\ \A i \in 1 .. 1 : t[i] = blocks[1 + i]
  <2>1. 1 \in 0 .. Len(l)
    BY <1>3, <1>8
  <2>2. First(l, 1) \in Seq(Blocks) /\ Len(First(l, 1)) = 1 /\ \A i \in 1 .. 1 : First(l, 1)[i] = l[i]
    BY <1>8, <2>1, Cut
  <2> QED
    BY <1>3, <1>8, <1>9, <2>2
<1>11. k \o t = First(blocks, 2)
  <2>1. 1 \in 0 .. Len(blocks) - 1
    BY <1>3
  <2>2. First(blocks, 1) \o t = First(blocks, 1 + 1)
    BY <1>3, <1>7, <1>10, <2>1, Joined
  <2> QED
    BY <1>4, <2>2
<1>12. Rest(l, 1) = Rest(blocks, 2)
  <2>1. 1 + 1 <= Len(blocks)
    BY <1>3
  <2>2. Rest(Rest(blocks, 1), 1) = Rest(blocks, 1 + 1)
    BY <1>3, <1>7, <2>1, CutAgain
  <2> QED
    BY <1>4, <2>2
<1>13. dec'[c] = [dec[c] EXCEPT !.key = k \o t, !.left = Rest(l, 1)]
  BY <1>6 DEF DecShape, k, l
<1> DEFINE x == k \o t
<1> DEFINE y == Rest(l, 1)
<1>14. /\ dec'[c].key = k \o t /\ dec'[c].left = Rest(l, 1)
       /\ dec'[c].final = dec[c].final /\ dec'[c].out = dec[c].out
  <2>1. dec'[c] = Opens(dec[c], x, y) /\ Held(dec[c])
    BY <1>13 DEF DecShape, Opens
  <2> HIDE DEF x, y
  <2>2. dec'[c].key = x /\ dec'[c].left = y /\ dec'[c].final = dec[c].final /\ dec'[c].out = dec[c].out
    BY <2>1, HeldKept
  <2> QED
    BY <2>2 DEF x, y
<1> QED
  BY <1>4, <1>11, <1>12, <1>14 DEF blocks

\* the first read of the content comes after the salt and the vector
LEMMA ReadsNothingYet ==
    ASSUME Inv, NEW f \in Files, NEW e \in Clients, NEW r,
           r.left = Rest(Encrypted(e, f), 2), r.key = First(Encrypted(e, f), 2),
           ~r.final, r.out = <<>>
    PROVE  0 \in 0 .. size[f] + 1 /\ HasRead(r, Encrypted(e, f), f, 0)
<1>1. size[f] \in Nat /\ BUFFER \in Nat
  BY EncryptedFileAssumption DEF Inv, Typed
<1>2. First(Whole(f), 0) = <<>>
  BY SubSeqEmpty DEF First
<1>3. 0 = BUFFER * 0 /\ 0 # size[f] + 1
  BY <1>1
<1>4. \E k \in Nat : 0 = BUFFER * k
  BY <1>3
<1> QED
  BY <1>1, <1>2, <1>3, <1>4 DEF HasRead

\* A read that does not fill the buffer is the last one, and the last one does
\* not fill it unless the buffer was filled every time.
LEMMA LastRead ==
    ASSUME NEW b \in Nat, b > 1, NEW all \in Nat, NEW k \in Nat, NEW n, n = b * k, n < all
    PROVE  /\ all - n < b => all % b # 0
           /\ n + b = all => all % b = 0
<1>1. CASE all - n < b
  <2>1. all - n \in 0 .. b - 1 /\ all = b * k + (all - n)
    BY <1>1
  <2> DEFINE m == all - n
  <2>2. all % b = m
    <3>1. m \in 0 .. b - 1 /\ all = b * k + m
      BY <2>1
    <3> HIDE DEF m
    <3> QED
      BY <3>1, Remainder
  <2>3. n + b # all
    BY <1>1
  <2> QED
    BY <2>2, <2>3
<1>2. CASE n + b = all
  <2>1. k + 1 \in Nat /\ 0 \in 0 .. b - 1 /\ all = b * (k + 1) + 0
    BY <1>2
  <2>2. all % b = 0
    BY <2>1, Remainder
  <2>3. ~(all - n < b)
    BY <1>2
  <2> QED
    BY <2>2, <2>3
<1> QED
  BY <1>1, <1>2

LEMMA ReadsBuffer ==
    ASSUME Inv, DecShape, NEW c \in Clients, NEW e \in Clients, NEW f \in Files,
           NEW n \in 0 .. size[f] + 1, HasRead(dec[c], Encrypted(e, f), f, n),
           readerRead(c)
    PROVE  \E m \in 0 .. size[f] + 1 : HasRead(dec'[c], Encrypted(e, f), f, m)
<1> DEFINE all == size[f] + 1
<1> DEFINE E == Encrypted(e, f)
<1> DEFINE l == dec[c].left
<1> DEFINE s == take(c, BUFFER)
<1>1. /\ Typed /\ size[f] \in Nat /\ E \in Seq(Blocks) /\ Len(E) = size[f] + 3
      /\ First(E, 2) = Opening(e)
  BY EncryptedParts DEF Inv
<1>2. /\ l = Rest(E, n + 2) /\ dec[c].key = First(E, 2) /\ dec[c].out = First(Whole(f), n)
      /\ n # all => \E k \in Nat : n = BUFFER * k
  BY DEF HasRead
<1>3. BUFFER \in Nat /\ BUFFER > 1 /\ all \in Nat /\ Len(E) = all + 2
  BY <1>1, EncryptedFileAssumption
<1> DEFINE x == Rest(l, BUFFER)
<1> DEFINE y == dec[c].out \o Deciphered(c, s)
<1> DEFINE z == Len(s) < BUFFER
<1>4. s # <<>> /\ dec'[c] = Reads(dec[c], x, y, z)
  BY DEF readerRead, Reads, DecShape
<1> HIDE DEF all, E, l, x, y, z
<1>5. /\ l \in Seq(Blocks) /\ Len(l) = all - n
      /\ \A i \in 1 .. all - n : l[i] = E[n + i + 2]
  <2> DEFINE j == n + 2
  <2>1. j \in 0 .. Len(E) /\ Len(E) - j = all - n
    BY <1>3 DEF all
  <2> HIDE DEF j
  <2>2. /\ Rest(E, j) \in Seq(Blocks) /\ Len(Rest(E, j)) = Len(E) - j
        /\ \A i \in 1 .. Len(E) - j : Rest(E, j)[i] = E[j + i]
    BY <1>1, <2>1, Cut
  <2>3. l = Rest(E, j)
    BY <1>2 DEF j
  <2>4. \A i \in 1 .. all - n : j + i = n + i + 2
    BY <1>3 DEF j
  <2> QED
    BY <2>1, <2>2, <2>3, <2>4
<1> DEFINE m == IF all - n < BUFFER THEN all - n ELSE BUFFER
<1>6. m \in 0 .. all - n /\ m \in Nat
  BY <1>3 DEF all
<1>7. s = First(l, m)
  <2>1. s = First(l, IF Len(l) < BUFFER THEN Len(l) ELSE BUFFER)
    BY DEF take, l
  <2> QED
    BY <1>5, <2>1
<1> HIDE DEF s, m
<1>8. s \in Seq(Blocks) /\ Len(s) = m /\ \A i \in 1 .. m : s[i] = E[n + i + 2]
  <2>1. m \in 0 .. Len(l)
    BY <1>5, <1>6
  <2>2. First(l, m) \in Seq(Blocks) /\ Len(First(l, m)) = m /\ \A i \in 1 .. m : First(l, m)[i] = l[i]
    BY <1>5, <2>1, Cut
  <2>3. \A i \in 1 .. m : i \in 1 .. all - n
    BY <1>3, <1>6 DEF all
  <2> QED
    BY <1>5, <1>7, <2>2, <2>3
<1>9. n < all /\ n \in Nat
  <2>1. n # all
    <3>1. n = all => m = 0
      BY <1>3, <1>6 DEF all
    <3>2. m = 0 => s = <<>>
      BY <1>7, SubSeqEmpty DEF First
    <3> QED
      BY <1>4, <3>1, <3>2
  <2> QED
    BY <1>3, <2>1 DEF all
<1>10. /\ dec'[c].left = x /\ dec'[c].out = y /\ dec'[c].final = z /\ dec'[c].key = dec[c].key
  <2>1. dec'[c] = Reads(dec[c], x, y, z) /\ Held(dec[c])
    BY <1>4 DEF DecShape
  <2> QED
    BY <2>1, HeldKept
<1>11. y = First(Whole(f), n + m)
  <2>1. m \in 0 .. size[f] + 1 - n /\ dec[c].key = Opening(e)
    BY <1>1, <1>2, <1>6 DEF all
  <2>2. First(Whole(f), n) \o Deciphered(c, s) = First(Whole(f), n + m)
    <3>1. \A i \in 1 .. m : s[i] = Encrypted(e, f)[n + i + 2]
      BY <1>8 DEF E
    <3>2. Typed /\ s \in Seq(Blocks) /\ Len(s) = m
      BY <1>1, <1>8
    <3> QED
      BY <2>1, <3>1, <3>2, ReadsOn
  <2> QED
    BY <1>2, <2>2 DEF y
<1>12. n + m \in 0 .. all
  BY <1>3, <1>6, <1>9
<1>13. x = Rest(E, n + m + 2)
  <2> DEFINE j == n + 2
  <2>1. j \in 0 .. Len(E) /\ x = Rest(Rest(E, j), BUFFER)
    BY <1>2, <1>3, <1>9 DEF x
  <2>2. /\ j + BUFFER <= Len(E) => x = Rest(E, j + BUFFER)
        /\ j + BUFFER >= Len(E) => x = Rest(E, Len(E))
    <3> HIDE DEF j
    <3> QED
      BY <1>1, <1>3, <2>1, CutAgain
  <2>3. CASE all - n < BUFFER
    <3>1. m = all - n /\ j + BUFFER >= Len(E) /\ n + m + 2 = Len(E)
      BY <1>3, <1>9, <2>3 DEF m
    <3> QED
      BY <2>2, <3>1
  <2>4. CASE ~(all - n < BUFFER)
    <3>1. m = BUFFER /\ j + BUFFER <= Len(E) /\ n + m + 2 = j + BUFFER
      BY <1>3, <1>9, <2>4 DEF m
    <3> QED
      BY <2>2, <3>1
  <2> QED
    BY <2>3, <2>4
<1>14. PICK k \in Nat : n = BUFFER * k
  BY <1>2, <1>9
<1>15. z <=> (n + m = all /\ all % BUFFER # 0)
  <2>1. /\ all - n < BUFFER => all % BUFFER # 0
        /\ n + BUFFER = all => all % BUFFER = 0
    BY <1>3, <1>9, <1>14, LastRead
  <2>2. z <=> all - n < BUFFER
    BY <1>3, <1>8, <1>9 DEF m, z
  <2>3. CASE all - n < BUFFER
    <3>1. n + m = all
      BY <1>3, <1>9, <2>3 DEF m
    <3> QED
      BY <2>1, <2>2, <2>3, <3>1
  <2>4. CASE ~(all - n < BUFFER)
    <3>1. m = BUFFER
      BY <2>4 DEF m
    <3> QED
      BY <2>1, <2>2, <2>4, <3>1
  <2> QED
    BY <2>3, <2>4
<1>16. n + m # all => \E j \in Nat : n + m = BUFFER * j
  <2>1. n + m # all => m = BUFFER
    BY <1>3, <1>9 DEF m
  <2>2. k + 1 \in Nat /\ BUFFER * k + BUFFER = BUFFER * (k + 1)
    BY <1>3, <1>14
  <2> QED
    BY <1>14, <2>1, <2>2
<1> DEFINE q == n + m
<1>17. HasRead(dec'[c], E, f, q)
  <2>1. dec'[c].left = Rest(E, q + 2) /\ dec'[c].out = First(Whole(f), q) /\ dec'[c].key = First(E, 2)
    BY <1>2, <1>10, <1>11, <1>13
  <2>2. dec'[c].final <=> (q = all /\ all % BUFFER # 0)
    BY <1>10, <1>15
  <2>3. q # all => \E j \in Nat : q = BUFFER * j
    BY <1>16
  <2> HIDE DEF q
  <2> QED
    BY <2>1, <2>2, <2>3 DEF HasRead, all
<1> QED
  BY <1>12, <1>17 DEF E, all

\* There is nothing left when the content was read to its end, and then only.
LEMMA ReadsAll ==
    ASSUME Inv, NEW c \in Clients, NEW e \in Clients, NEW f \in Files,
           NEW n \in 0 .. size[f] + 1, HasRead(dec[c], Encrypted(e, f), f, n),
           take(c, BUFFER) = <<>>
    PROVE  n = size[f] + 1
<1> DEFINE E == Encrypted(e, f)
<1> DEFINE l == dec[c].left
<1>1. Typed /\ size[f] \in Nat /\ E \in Seq(Blocks) /\ Len(E) = size[f] + 3
  BY EncryptedParts DEF Inv
<1>2. l = Rest(E, n + 2)
  BY DEF HasRead
<1>3. take(c, BUFFER) = First(l, IF Len(l) < BUFFER THEN Len(l) ELSE BUFFER)
  BY DEF take
<1> HIDE DEF E, l
<1>4. l \in Seq(Blocks) /\ Len(l) = size[f] + 1 - n
  <2> DEFINE j == n + 2
  <2>1. j \in 0 .. Len(E) /\ Len(E) - j = size[f] + 1 - n
    BY <1>1
  <2> HIDE DEF j
  <2>2. Rest(E, j) \in Seq(Blocks) /\ Len(Rest(E, j)) = Len(E) - j
    BY <1>1, <2>1, Cut
  <2> QED
    BY <1>2, <2>1, <2>2 DEF j
<1> DEFINE m == IF Len(l) < BUFFER THEN Len(l) ELSE BUFFER
<1>5. m \in 0 .. Len(l) /\ (m = 0 => Len(l) = 0)
  BY <1>1, <1>4, EncryptedFileAssumption
<1>6. First(l, m) = <<>>
  BY <1>3
<1> HIDE DEF m
<1>7. Len(First(l, m)) = m
  BY <1>4, <1>5, Cut
<1> QED
  BY <1>1, <1>4, <1>5, <1>6, <1>7

\* What was deciphered at the end is what comes back, which is a clear content.
LEMMA ReadsKept ==
    ASSUME Inv, NEW c \in Clients, NEW f \in Files, NEW blocks,
           HasRead(dec[c], blocks, f, size[f] + 1)
    PROVE  deciphered(c) = Kept(f)
<1> DEFINE all == size[f] + 1
<1>1. /\ Typed /\ size[f] \in Nat /\ Whole(f) \in Seq(ClearBlocks) /\ Len(Whole(f)) = all
  BY WholeParts DEF Inv, Typed
<1>2. First(Whole(f), all) = Whole(f)
  BY <1>1, SubSeqFull DEF First
<1>3. dec[c].out = Whole(f) /\ (dec[c].final <=> all % BUFFER # 0)
  BY <1>2 DEF HasRead
<1>4. Len(dec[c].out) - 1 = size[f]
  BY <1>1, <1>3
<1> QED
  BY <1>1, <1>3, <1>4 DEF deciphered, Kept

LEMMA KeptIsClear ==
    ASSUME Inv, NEW f \in Files
    PROVE  Kept(f) \in Seq(ClearBlocks)
<1>1. size[f] \in Nat /\ Whole(f) \in Seq(ClearBlocks) /\ Len(Whole(f)) = size[f] + 1
  BY WholeParts DEF Inv, Typed
<1>2. First(Whole(f), size[f]) \in Seq(ClearBlocks)
  BY <1>1, Cut
<1> QED
  BY <1>1, <1>2 DEF Kept

LEMMA CopyIsFile ==
    ASSUME NEW blocks \in Seq(ClearBlocks), NEW owner \in Clients \union { None }
    PROVE  Copy(blocks, owner) # None
BY StorageAssumption DEF Copy, ClearBlocks

-----------------------------------------------------------------------------
(***************************************************************************)
(* Requests that read, and those that leave them alone.                    *)
(***************************************************************************)

LEMMA SizeKept ==
    ASSUME size' = size
    PROVE  /\ \A f : Whole(f)' = Whole(f) /\ Kept(f)' = Kept(f)
           /\ \A r, blocks, f, n : HasRead(r, blocks, f, n)' <=> HasRead(r, blocks, f, n)
<1>1. \A f : Whole(f)' = Whole(f)
  BY DEF Whole, Body
<1>2. \A f : Kept(f)' = Kept(f)
  BY <1>1 DEF Kept
<1>3. \A r, blocks, f, n : HasRead(r, blocks, f, n)' <=> HasRead(r, blocks, f, n)
  BY <1>1 DEF HasRead
<1> QED
  BY <1>1, <1>2, <1>3

\* contents are added, and may be removed
StoredKept ==
    \A id \in DOMAIN stored :
        id \in DOMAIN stored' /\ (stored'[id] = stored[id] \/ stored'[id] = Gone)

\* A step of others leaves c where it is, and what is on its path and in its
\* reader, unless they meet there.
Undisturbed(c) ==
    /\ Same(c)
    /\ "path" \in met[c] => "path" \in met'[c]
    /\ "reader" \in met[c] => "reader" \in met'[c]
    /\ "path" \notin met'[c] =>
          fetched'[pathOf(c)] = fetched[pathOf(c)] /\ clear'[pathOf(c)] = clear[pathOf(c)]
    /\ "reader" \notin met'[c] /\ pc[c] \in Reading => dec'[c] = dec[c]

LEMMA Unread ==
    ASSUME size' = size, StoredKept, NEW c \in Clients,
           Fetching(c), Alone(c) => ReadAt(c), pc'[c] \in Downloading => Undisturbed(c)
    PROVE  Fetching(c)' /\ (Alone(c)' => ReadAt(c)')
<1>1. CASE pc'[c] \notin Downloading
  BY <1>1 DEF Fetching, Alone
<1>2. CASE pc'[c] \in Downloading
  <2>1. Same(c) /\ Undisturbed(c) /\ job'[c].id = job[c].id /\ pc[c] \in Downloading
    BY <1>2 DEF Undisturbed, Same
  <2>2. job[c].id \in DOMAIN stored' /\ (Source(c)' = Source(c) \/ Source(c)' = Gone)
    BY <2>1 DEF StoredKept, Fetching, Source
  <2>3. Fetching(c)'
    BY <2>1, <2>2 DEF Fetching, Same
  <2>4. ASSUME Alone(c)'
        PROVE  ReadAt(c)'
    <3>1. Source(c)' = Source(c)
      BY <2>2, <2>4 DEF Alone
    <3>2. "path" \notin met'[c] /\ ("reader" \in met'[c] => pc[c] \in { "fetch", "readOpen" })
      BY <2>1, <2>4 DEF Alone, Same
    <3>3. Alone(c)
      BY <2>1, <2>4, <3>1, <3>2 DEF Alone, Same, Undisturbed
    <3>4. ReadAt(c)
      BY <3>3
    <3>5. pathOf(c)' = pathOf(c)
      BY <2>1, SamePath DEF Same
    <3>6. fetched'[pathOf(c)] = fetched[pathOf(c)] /\ clear'[pathOf(c)] = clear[pathOf(c)]
      BY <2>1, <3>2 DEF Undisturbed
    <3>7. pc[c] \in Reading => dec'[c] = dec[c]
      BY <2>1, <3>2 DEF Undisturbed, Reading
    <3>8. pc'[c] = pc[c] /\ job'[c].file = job[c].file
      BY <2>1 DEF Same
    <3>9. CASE pc[c] \notin Reading
      <4>1. pc'[c] = "readOpen" => fetched'[pathOf(c)'] = Source(c).blocks'
        BY <3>1, <3>4, <3>5, <3>6, <3>8 DEF ReadAt
      <4>2. pc'[c] \in { "mark", "hash", "record", "send" } =>
               \E owner \in Clients \union { None } : clear'[pathOf(c)'] = Copy(Kept(job[c].file)', owner)
        <5>1. Kept(job[c].file)' = Kept(job[c].file)
          BY <3>8 DEF Kept, Whole, Body
        <5> QED
          BY <3>4, <3>5, <3>6, <3>8, <5>1 DEF ReadAt
      <4>3. pc'[c] \notin Reading
        BY <3>8, <3>9
      <4> QED
        BY <4>1, <4>2, <4>3 DEF ReadAt, Reading, Copy
    <3>10. CASE pc[c] \in Reading
      <4>1. dec'[c] = dec[c]
        BY <3>7, <3>10
      <4>2. pc'[c] \notin { "readOpen", "mark", "hash", "record", "send" }
        BY <3>8, <3>10 DEF Reading
      <4>3. /\ pc[c] = "readIv" => /\ dec'[c].left = Rest(Source(c).blocks', 1)
                                   /\ dec'[c].key = First(Source(c).blocks', 1)
                                   /\ ~dec'[c].final /\ dec'[c].out = <<>>
            /\ pc[c] = "readKey" => /\ dec'[c].left = Rest(Source(c).blocks', 2)
                                    /\ dec'[c].key = First(Source(c).blocks', 2)
                                    /\ ~dec'[c].final /\ dec'[c].out = <<>>
        BY <3>1, <3>4, <4>1 DEF ReadAt
      <4>4. pc[c] \in { "read", "readClose" } => clear'[pathOf(c)'] = Copy(<<>>, None)
        BY <3>4, <3>5, <3>6 DEF ReadAt
      <4>5. pc[c] = "read" => \E n \in 0 .. size'[job'[c].file] + 1 :
                                 HasRead(dec[c], Source(c).blocks, job[c].file, n)
        BY <3>4, <3>8 DEF ReadAt
      <4>6. pc[c] = "readClose" => HasRead(dec[c], Source(c).blocks, job[c].file, size'[job'[c].file] + 1)
        BY <3>4, <3>8 DEF ReadAt
      <4>7. \A n : HasRead(dec[c], Source(c).blocks, job[c].file, n)' <=>
                      HasRead(dec[c], Source(c).blocks, job[c].file, n)
        BY <3>1, <3>8, <4>1, SizeKept DEF HasRead
      <4> QED
        BY <3>8, <4>2, <4>3, <4>4, <4>5, <4>6, <4>7 DEF ReadAt, Copy
    <3> QED
      BY <3>9, <3>10
  <2> QED
    BY <2>3, <2>4
<1> QED
  BY <1>1, <1>2

\* A step that reads nothing and disturbs nobody.
LEMMA ReadQuiet ==
    ASSUME ReadInv, size' = size, StoredKept, DecShape',
           \A c \in Clients : pc'[c] \in Downloading => Undisturbed(c)
    PROVE  ReadInv'
BY Unread DEF ReadInv

\* What a step of the download of c leaves alone: what c reads, and the others,
\* but for those that it meets in the reader.
ReadStep(c) ==
    /\ pc[c] \in Downloading
    /\ \A d \in Clients : /\ job'[d].file = job[d].file /\ job'[d].kind = job[d].kind
                          /\ job'[d].id = job[d].id
                          /\ "path" \in met'[d] <=> "path" \in met[d]
    /\ \A d \in Clients \ { c } :
          /\ pc'[d] = pc[d] /\ job'[d].copy = job[d].copy
          /\ "reader" \in met[d] => "reader" \in met'[d]
          /\ "reader" \notin met'[d] /\ pc[d] \in Reading => dec'[d] = dec[d]
    /\ size' = size /\ stored' = stored
    /\ \A p \in Paths : p # pathOf(c) => fetched'[p] = fetched[p] /\ clear'[p] = clear[p]

LEMMA OnPath ==
    ASSUME Typed, NEW c \in Clients, pc[c] \in Downloading
    PROVE  pathOf(c) \in Paths
<1>1. pc[c] # "idle"
  BY Locations
<1>2. job[c].file \in Files /\ job[c].kind \in Kinds
  BY <1>1 DEF Typed
<1> QED
  BY <1>2 DEF pathOf, tempFilePath, Paths, Kinds

LEMMA OneReads ==
    ASSUME Inv, ReadInv, NEW c \in Clients, ReadStep(c), DecShape',
           Alone(c)' => ReadAt(c)'
    PROVE  ReadInv'
<1>1. StoredKept
  BY DEF StoredKept, ReadStep
<1>2. ASSUME NEW d \in Clients \ { c }, pc'[d] \in Downloading
      PROVE  Undisturbed(d)
  <2>1. pc'[d] = pc[d] /\ pc[d] \in Downloading /\ pc[c] \in Downloading
    BY <1>2 DEF ReadStep
  <2>2. pathOf(d) \in Paths
    BY <2>1, OnPath DEF Inv
  <2>3. "path" \notin met'[d] => pathOf(c) # pathOf(d)
    BY <2>1 DEF ReadStep, Inv, Copied
  <2>4. Same(d)
    <3>1. d \in Clients
      OBVIOUS
    <3>2. /\ job'[d].file = job[d].file /\ job'[d].kind = job[d].kind
          /\ job'[d].id = job[d].id /\ job'[d].copy = job[d].copy
      BY <3>1 DEF ReadStep
    <3> QED
      BY <2>1, <3>2 DEF Same
  <2>5. /\ "path" \in met[d] => "path" \in met'[d]
        /\ "reader" \in met[d] => "reader" \in met'[d]
        /\ "reader" \notin met'[d] /\ pc[d] \in Reading => dec'[d] = dec[d]
    BY DEF ReadStep
  <2>6. pathOf(c) # pathOf(d) =>
           fetched'[pathOf(d)] = fetched[pathOf(d)] /\ clear'[pathOf(d)] = clear[pathOf(d)]
    BY <2>2 DEF ReadStep
  <2> QED
    BY <2>3, <2>4, <2>5, <2>6 DEF Undisturbed
<1>3. \A d \in Clients \ { c } : Fetching(d)' /\ (Alone(d)' => ReadAt(d)')
  BY <1>1, <1>2, Unread DEF ReadInv, ReadStep
<1>4. Fetching(c)'
  BY DEF ReadInv, Fetching, ReadStep, Source
<1> QED
  BY <1>3, <1>4 DEF ReadInv

\* before a step of its download, what c is alone with afterwards
LEMMA StillAlone ==
    ASSUME NEW c \in Clients, ReadStep(c), Alone(c)',
           "reader" \in met[c] => "reader" \in met'[c] \/ pc[c] \in { "fetch", "readOpen" },
           pc'[c] \notin { "fetch", "readOpen" } \/ pc[c] = "fetch"
    PROVE  Alone(c) /\ Source(c)' = Source(c) /\ pathOf(c)' = pathOf(c)
                    /\ Kept(job[c].file)' = Kept(job[c].file)
<1>1. Source(c)' = Source(c)
  BY DEF ReadStep, Source
<1>2. pathOf(c)' = pathOf(c)
  BY SamePath DEF ReadStep
<1>3. Kept(job[c].file)' = Kept(job[c].file)
  BY DEF ReadStep, Kept, Whole, Body
<1> QED
  BY <1>1, <1>2, <1>3 DEF Alone, ReadStep

\* The content is fetched to the path of the request.
LEMMA ReadsFetched ==
    ASSUME Inv, ReadInv, NEW c \in Clients, downloadFromIpfs(c) \/ exportFile(c)
    PROVE  ReadInv'
<1> DEFINE p == pathOf(c)
<1>1. /\ pc[c] = "fetch" /\ keepsFiles
      /\ \E to, x, y : onPath(c, "fetch", to, x, y)
  BY DEF downloadFromIpfs, exportFile
<1>2. /\ Typed /\ p \in Paths /\ pc \in [Clients -> Steps]
      /\ fetched = [q \in Paths |-> fetched[q]] /\ clear = [q \in Paths |-> clear[q]]
  BY <1>1, OnPath DEF Inv, Typed, Downloading
<1>3. ReadStep(c) /\ dec' = dec /\ met' = met
  <2>1. PICK to, x, y : /\ pc' = [pc EXCEPT ![c] = to]
                        /\ fetched' = [fetched EXCEPT ![p] = x] /\ clear' = [clear EXCEPT ![p] = y]
                        /\ size' = size /\ stored' = stored /\ job' = job
    BY <1>1 DEF onPath, goto
  <2>2. dec' = dec /\ met' = met
    BY <1>1 DEF keepsFiles, fileVars
  <2>3. \A q \in Paths : q # p => fetched'[q] = fetched[q] /\ clear'[q] = clear[q]
    <3> HIDE DEF p
    <3> QED  BY <1>2, <2>1
  <2> QED
    BY <1>1, <1>2, <2>1, <2>2, <2>3 DEF ReadStep, Downloading
<1>4. DecShape'
  BY <1>3 DEF ReadInv, DecShape, Held
<1>5. ASSUME Alone(c)'
      PROVE  ReadAt(c)'
  <2>1. downloadFromIpfs(c)
    <3>1. job[c].file \notin LoFiles
      BY <1>3, <1>5 DEF Alone, ReadStep
    <3> QED
      BY <3>1 DEF exportFile
  <2>2. /\ pc' = [pc EXCEPT ![c] = "readOpen"]
        /\ fetched' = [fetched EXCEPT ![p] = Source(c).blocks]
    BY <2>1 DEF downloadFromIpfs, onPath, goto, Source
  <2>3. pc'[c] = "readOpen" /\ fetched'[p] = Source(c).blocks
    <3> HIDE DEF p
    <3> QED  BY <1>2, <2>2
  <2>4. Source(c)' = Source(c) /\ pathOf(c)' = p
    BY <1>1, <1>3, <1>5, StillAlone
  <2> QED
    BY <2>3, <2>4 DEF ReadAt
<1> QED
  BY <1>3, <1>4, <1>5, OneReads

\* The reader opens what was fetched.
LEMMA ReadsOpen ==
    ASSUME Inv, ReadInv, NEW c \in Clients, pc[c] = "readOpen",
           readerOpen(c, fetched[pathOf(c)]), UNCHANGED rest
    PROVE  ReadInv'
<1> DEFINE others == { d \in Clients \ { c } : pc[d] \in Reading }
<1> DEFINE blocks == fetched[pathOf(c)]
<1>1. /\ Typed /\ pc \in [Clients -> Steps]
      /\ size' = size /\ stored' = stored /\ job' = job /\ fetched' = fetched /\ clear' = clear
  BY DEF Inv, Typed, rest
<1>2. /\ pc'[c] = "readIv" /\ \A d \in Clients \ { c } : pc'[d] = pc[d]
  BY <1>1 DEF readerOpen, goto
<1>3. /\ \A d \in Clients : "path" \in met'[d] <=> "path" \in met[d]
      /\ "reader" \in met'[c] <=> others # {}
      /\ \A d \in Clients \ { c } : "reader" \in met'[d] <=> "reader" \in met[d] \/ d \in others
  <2>1. meets(c, others, "reader") /\ others \in SUBSET Clients
    BY DEF readerOpen
  <2> HIDE DEF others
  <2> QED
    BY <1>1, <2>1, Met
<1>4. dec' = [d \in Clients |->
                 IF d \in others \/ (d = c /\ others # {}) THEN Mixed
                 ELSE IF d = c THEN [ left |-> Rest(blocks, 1), key |-> First(blocks, 1),
                                      final |-> FALSE, out |-> <<>> ]
                 ELSE dec[d]]
  BY DEF readerOpen
<1>5. /\ DecShape
      /\ Held(Mixed) /\ Held([ left |-> Rest(blocks, 1), key |-> First(blocks, 1),
                               final |-> FALSE, out |-> <<>> ])
  BY DEF ReadInv, Mixed, Held
<1>6. DecShape'
  BY <1>4, <1>5 DEF DecShape
<1>7. ReadStep(c)
  <2>1. \A d \in Clients \ { c } : "reader" \notin met'[d] /\ pc[d] \in Reading => dec'[d] = dec[d]
    BY <1>3, <1>4
  <2> QED
    BY <1>1, <1>2, <1>3, <2>1 DEF ReadStep, Downloading
<1>8. ASSUME Alone(c)'
      PROVE  ReadAt(c)'
  <2>1. others = {}
    BY <1>2, <1>3, <1>8 DEF Alone
  <2>2. /\ dec'[c].left = Rest(blocks, 1) /\ dec'[c].key = First(blocks, 1)
        /\ ~dec'[c].final /\ dec'[c].out = <<>>
    BY <1>4, <2>1
  <2>3. Alone(c) /\ Source(c)' = Source(c)
    <3>1. pc'[c] \notin { "fetch", "readOpen" }
      BY <1>2
    <3> QED
      BY <1>7, <1>8, <3>1, StillAlone
  <2>4. blocks = Source(c).blocks
    BY <2>3 DEF ReadInv, ReadAt
  <2> QED
    BY <1>2, <2>2, <2>3, <2>4 DEF ReadAt
<1> QED
  BY <1>6, <1>7, <1>8, OneReads

\* The steps of an open reader.
LEMMA ReadsContent ==
    ASSUME Inv, ReadInv, NEW c \in Clients,
           \/ (readerIv(c) \/ readerRead(c) \/ readerEnd(c)) /\ UNCHANGED rest
           \/ /\ readerKey(c)
              /\ clear' = [clear EXCEPT ![pathOf(c)] = Copy(<<>>, None)]
              /\ UNCHANGED << size, row, stored, job, fetched, delivered >>
    PROVE  ReadInv'
<1> DEFINE p == pathOf(c)
<1> DEFINE f == job[c].file
<1>1. /\ size' = size /\ stored' = stored /\ job' = job /\ fetched' = fetched /\ met' = met
      /\ pc[c] \in { "readIv", "readKey", "read" }
  BY DEF readerIv, readerRead, readerEnd, readerKey, rest, goto
<1>2. /\ Typed /\ p \in Paths /\ pc \in [Clients -> Steps] /\ DecShape /\ Fetching(c)
      /\ clear = [q \in Paths |-> clear[q]]
  <2>1. pc[c] \in Downloading
    BY <1>1 DEF Downloading, Reading
  <2> QED
    BY <2>1, OnPath DEF Inv, Typed, ReadInv
<1>3. /\ pc'[c] \in { "readKey", "read", "readClose" }
      /\ \A d \in Clients \ { c } : pc'[d] = pc[d]
      /\ \A q \in Paths : q # p => clear'[q] = clear[q]
  <2> HIDE DEF p
  <2>1. CASE readerIv(c) /\ UNCHANGED rest
    BY <1>2, <2>1 DEF readerIv, goto, rest
  <2>2. CASE readerRead(c) /\ UNCHANGED rest
    BY <1>2, <2>2 DEF readerRead, rest
  <2>3. CASE readerEnd(c) /\ UNCHANGED rest
    BY <1>2, <2>3 DEF readerEnd, goto, rest
  <2>4. CASE readerKey(c) /\ clear' = [clear EXCEPT ![p] = Copy(<<>>, None)]
    BY <1>2, <2>4 DEF readerKey, goto
  <2> QED
    BY <2>1, <2>2, <2>3, <2>4 DEF p
<1>4. DecShape' /\ \A d \in Clients \ { c } : dec'[d] = dec[d]
  <2>1. CASE dec' = dec
    BY <1>2, <2>1 DEF DecShape, Held
  <2>2. CASE readerIv(c) /\ ~isMixed(c)
    <3>1. PICK x, y : dec' = [dec EXCEPT ![c].key = x, ![c].left = y]
      BY <2>2 DEF readerIv
    <3>2. dec' = [dec EXCEPT ![c] = Opens(dec[c], x, y)] /\ Held(Opens(dec[c], x, y))
      BY <1>2, <3>1, HeldKept DEF DecShape, Opens
    <3> QED
      BY <1>2, <3>2 DEF DecShape
  <2>3. CASE readerRead(c)
    <3>1. PICK x, y, z : dec' = [dec EXCEPT ![c].left = x, ![c].out = y, ![c].final = z]
      BY <2>3 DEF readerRead
    <3>2. dec' = [dec EXCEPT ![c] = Reads(dec[c], x, y, z)] /\ Held(Reads(dec[c], x, y, z))
      BY <1>2, <3>1, HeldKept DEF DecShape, Reads
    <3> QED
      BY <1>2, <3>2 DEF DecShape
  <2> QED
    BY <2>1, <2>2, <2>3 DEF readerIv, readerEnd, readerKey
<1>5. ReadStep(c)
  BY <1>1, <1>3, <1>4 DEF ReadStep, Downloading, Reading
<1>6. ASSUME Alone(c)'
      PROVE  ReadAt(c)'
  <2>1. /\ Alone(c) /\ Source(c)' = Source(c) /\ pathOf(c)' = p
    <3>1. pc'[c] \notin { "fetch", "readOpen" }
      BY <1>3
    <3> QED
      BY <1>1, <1>5, <1>6, <3>1, StillAlone
  <2>2. ReadAt(c)
    BY <2>1 DEF ReadInv
  <2>3. PICK e \in Clients : Source(c).blocks = Encrypted(e, f)
    BY <1>2, <2>1, Sourced DEF IsEncrypted
  <2>4. f \in Files /\ f' = f
    BY <1>1, <1>2, <2>1, Sourced
  <2>5. \A r, blocks, n : HasRead(r, blocks, f, n)' <=> HasRead(r, blocks, f, n)
    BY <1>1, <2>4, SizeKept DEF HasRead
  <2> DEFINE blocks == Source(c).blocks
  <2>6. CASE readerIv(c)
    <3>1. pc[c] = "readIv" /\ pc'[c] = "readKey"
      BY <1>2, <2>6 DEF readerIv, goto
    <3>2. /\ dec'[c].left = Rest(blocks, 2) /\ dec'[c].key = First(blocks, 2)
          /\ ~dec'[c].final /\ dec'[c].out = <<>>
      BY <1>2, <2>1, <2>2, <2>6, <3>1, ReadsIv
    <3> QED
      BY <2>1, <3>1, <3>2 DEF ReadAt
  <2>7. CASE /\ readerKey(c)
             /\ clear' = [clear EXCEPT ![p] = Copy(<<>>, None)]
    <3>1. pc[c] = "readKey" /\ pc'[c] = "read" /\ dec' = dec
      BY <1>2, <2>7 DEF readerKey, goto
    <3>2. clear'[p] = Copy(<<>>, None)
      <4> HIDE DEF p
      <4> QED  BY <1>2, <2>7
    <3>3. /\ dec[c].left = Rest(blocks, 2) /\ dec[c].key = First(blocks, 2)
          /\ ~dec[c].final /\ dec[c].out = <<>>
      BY <2>2, <3>1 DEF ReadAt
    <3>4. 0 \in 0 .. size[f] + 1 /\ HasRead(dec[c], blocks, f, 0)
      BY <2>3, <2>4, <3>3, ReadsNothingYet
    <3>5. HasRead(dec[c], Source(c).blocks, job[c].file, 0)'
      BY <1>1, <2>1, <2>4, <2>5, <3>1, <3>4 DEF HasRead
    <3>6. 0 \in 0 .. size'[job'[c].file] + 1
      BY <1>1, <3>4
    <3>7. \E m \in 0 .. size'[job'[c].file] + 1 : HasRead(dec[c], Source(c).blocks, job[c].file, m)'
      BY <3>5, <3>6
    <3> QED
      BY <2>1, <3>1, <3>2, <3>7 DEF ReadAt, Copy
  <2>8. CASE readerRead(c) /\ UNCHANGED rest
    <3>1. pc[c] = "read" /\ pc'[c] = "read" /\ clear' = clear
      BY <2>8 DEF readerRead, rest
    <3>2. clear[p] = Copy(<<>>, None) /\ \E n \in 0 .. size[f] + 1 : HasRead(dec[c], blocks, f, n)
      BY <2>2, <3>1 DEF ReadAt
    <3>3. PICK n \in 0 .. size[f] + 1 : HasRead(dec'[c], blocks, f, n)
      BY <1>2, <2>3, <2>4, <2>8, <3>2, ReadsBuffer
    <3>4. HasRead(dec[c], Source(c).blocks, job[c].file, n)'
      BY <1>1, <2>1, <2>4, <2>5, <3>3 DEF HasRead
    <3>5. n \in 0 .. size'[job'[c].file] + 1
      BY <1>1
    <3>6. \E m \in 0 .. size'[job'[c].file] + 1 : HasRead(dec[c], Source(c).blocks, job[c].file, m)'
      BY <3>4, <3>5
    <3> QED
      BY <2>1, <3>1, <3>2, <3>6 DEF ReadAt, Copy
  <2>9. CASE readerEnd(c) /\ UNCHANGED rest
    <3>1. pc[c] = "read" /\ pc'[c] = "readClose" /\ clear' = clear /\ dec' = dec
      BY <1>2, <2>9 DEF readerEnd, goto, rest
    <3>2. take(c, BUFFER) = <<>>
      BY <2>1, <2>9, <3>1 DEF readerEnd, isMixed, Alone
    <3>3. PICK n \in 0 .. size[f] + 1 : HasRead(dec[c], blocks, f, n)
      BY <2>2, <3>1 DEF ReadAt
    <3>4. HasRead(dec[c], blocks, f, size[f] + 1)
      BY <2>3, <2>4, <3>2, <3>3, ReadsAll
    <3>5. HasRead(dec[c], Source(c).blocks, job[c].file, size[job[c].file] + 1)'
      BY <1>1, <2>1, <2>4, <2>5, <3>1, <3>4 DEF HasRead
    <3>6. clear[p] = Copy(<<>>, None)
      BY <2>2, <3>1 DEF ReadAt
    <3> QED
      BY <2>1, <3>1, <3>5, <3>6 DEF ReadAt, Copy
  <2> QED
    BY <2>6, <2>7, <2>8, <2>9
<1> QED
  BY <1>4, <1>5, <1>6, OneReads

\* The reader is closed: what it deciphered is on the path.
LEMMA ReadsClosed ==
    ASSUME Inv, ReadInv, NEW c \in Clients, closeAndRemove(c)
    PROVE  ReadInv'
<1> DEFINE p == pathOf(c)
<1> DEFINE f == job[c].file
<1> DEFINE to == IF fetched[p] = None THEN "idle" ELSE toSend(c)
<1> DEFINE what == IF isMixed(c) THEN { << Garbled >>, Kept(f) }
                   ELSE { orGarbled(deciphered(c), deciphered(c) \in { Whole(f), Kept(f) }) }
<1>1. /\ pc[c] = "readClose" /\ closeReader(c) /\ met' = met
      /\ to \in { "idle", "mark", "send" }
  BY DEF closeAndRemove, toSend
<1>2. PICK blocks \in what :
         onPath(c, "readClose", to, None, IF clear[p] = None THEN None ELSE Copy(blocks, None))
  BY DEF closeAndRemove
<1>3. /\ Typed /\ p \in Paths /\ pc \in [Clients -> Steps] /\ DecShape /\ Fetching(c)
      /\ fetched = [q \in Paths |-> fetched[q]] /\ clear = [q \in Paths |-> clear[q]]
  <2>1. pc[c] \in Downloading
    BY <1>1 DEF Downloading, Reading
  <2> QED
    BY <2>1, OnPath DEF Inv, Typed, ReadInv
<1> HIDE DEF to, what
<1>4. /\ pc'[c] = to /\ \A d \in Clients \ { c } : pc'[d] = pc[d]
      /\ size' = size /\ stored' = stored /\ job' = job
      /\ \A q \in Paths : q # p => fetched'[q] = fetched[q] /\ clear'[q] = clear[q]
      /\ clear[p] # None => clear'[p] = Copy(blocks, None)
  <2>1. /\ pc' = [pc EXCEPT ![c] = to] /\ size' = size /\ stored' = stored /\ job' = job
        /\ fetched' = [fetched EXCEPT ![p] = None]
        /\ clear' = [clear EXCEPT ![p] = IF clear[p] = None THEN None ELSE Copy(blocks, None)]
    BY <1>2 DEF onPath, goto
  <2> HIDE DEF p
  <2> QED
    BY <1>3, <2>1
<1>5. DecShape' /\ \A d \in Clients \ { c } : dec'[d] = dec[d]
  <2>1. dec' = [dec EXCEPT ![c] = NotReading]
    BY <1>1 DEF closeReader
  <2>2. Held(NotReading)
    BY DEF Held, NotReading
  <2> QED
    BY <1>3, <2>1, <2>2 DEF DecShape
<1>6. ReadStep(c)
  BY <1>1, <1>4, <1>5 DEF ReadStep, Downloading, Reading
<1>7. ASSUME Alone(c)'
      PROVE  ReadAt(c)'
  <2>1. Alone(c) /\ pathOf(c)' = p /\ Kept(job[c].file)' = Kept(f)
    <3>1. pc'[c] \notin { "fetch", "readOpen" }
      BY <1>1, <1>4
    <3> QED
      BY <1>1, <1>6, <1>7, <3>1, StillAlone
  <2>2. clear[p] = Copy(<<>>, None) /\ HasRead(dec[c], Source(c).blocks, f, size[f] + 1)
    BY <1>1, <2>1 DEF ReadInv, ReadAt
  <2>3. f \in Files
    BY <1>3, <2>1, Sourced
  <2>4. deciphered(c) = Kept(f)
    BY <2>2, <2>3, ReadsKept
  <2>5. ~isMixed(c)
    BY <1>1, <2>1 DEF Alone, isMixed
  <2>6. blocks = Kept(f)
    BY <2>4, <2>5 DEF what, orGarbled
  <2>7. clear[p] # None
    <3>1. <<>> \in Seq(ClearBlocks) /\ None \in Clients \union { None }
      OBVIOUS
    <3> QED
      BY <2>2, <3>1, CopyIsFile
  <2>8. clear'[p] = Copy(Kept(f), None)
    BY <1>4, <2>6, <2>7
  <2>9. pc'[c] \in { "idle", "mark", "send" }
    BY <1>1, <1>4
  <2> QED
    BY <2>1, <2>8, <2>9 DEF ReadAt, Copy
<1> QED
  BY <1>5, <1>6, <1>7, OneReads

\* Then the file is marked, hashed, recorded, sent and removed.
LEMMA ReadsSent ==
    ASSUME Inv, ReadInv, NEW c \in Clients,
           setMetadata(c) \/ hash(c) \/ delivers(c, job[c].file) \/ send(c) \/ clean(c)
    PROVE  ReadInv'
<1> DEFINE p == pathOf(c)
<1> DEFINE f == job[c].file
<1>1. /\ pc[c] \in { "mark", "hash", "record", "send", "clean" } /\ keepsFiles
      /\ pc' = [pc EXCEPT ![c] = CASE pc[c] = "mark" -> "hash" [] pc[c] = "hash" -> "record"
                                   [] pc[c] = "record" -> "send" [] pc[c] = "send" -> "clean"
                                   [] pc[c] = "clean" -> "idle"]
  BY DEF setMetadata, hash, delivers, send, clean, onPath, skips, goto
<1>2. /\ Typed /\ p \in Paths /\ pc \in [Clients -> Steps] /\ DecShape /\ JobShape
      /\ fetched = [q \in Paths |-> fetched[q]] /\ clear = [q \in Paths |-> clear[q]]
  <2>1. pc[c] \in Downloading
    BY <1>1 DEF Downloading
  <2> QED
    BY <2>1, OnPath DEF Inv, Typed, ReadInv
<1>3. /\ dec' = dec /\ met' = met
      /\ \A d \in Clients \ { c } : pc'[d] = pc[d]
      /\ pc'[c] \in { "hash", "record", "send", "clean", "idle" }
      /\ pc[c] \in { "mark", "hash", "record" } <=> pc'[c] \in { "hash", "record", "send" }
      /\ pc'[c] = "hash" <=> pc[c] = "mark"
  BY <1>1, <1>2 DEF keepsFiles, fileVars
<1>4. /\ size' = size /\ stored' = stored
      /\ \A d \in Clients : /\ job'[d].kind = job[d].kind /\ job'[d].file = job[d].file
                            /\ job'[d].id = job[d].id
      /\ \A d \in Clients \ { c } : job'[d].copy = job[d].copy
  <2>1. size' = size /\ stored' = stored
    BY DEF setMetadata, hash, delivers, send, clean, onPath, skips, rest
  <2>2. job' = job \/ job' = [job EXCEPT ![c].copy = clear[pathOf(c)]]
    BY DEF setMetadata, hash, delivers, send, clean, onPath, skips, rest
  <2> QED
    BY <1>2, <2>1, <2>2, CopyKept
<1>5. /\ \A q \in Paths : q # p => fetched'[q] = fetched[q] /\ clear'[q] = clear[q]
      /\ pc[c] \in { "hash", "record" } => clear' = clear
      /\ pc[c] = "mark" => clear'[p] = clear[p] \/ clear'[p] = [clear[p] EXCEPT !.owner = c]
  <2>1. CASE setMetadata(c)
    <3>1. PICK y : /\ onPath(c, "mark", "hash", fetched[p], y)
                   /\ y = clear[p] \/ y = [clear[p] EXCEPT !.owner = c]
      BY <2>1 DEF setMetadata
    <3>2. fetched' = [fetched EXCEPT ![p] = fetched[p]] /\ clear' = [clear EXCEPT ![p] = y] /\ pc[c] = "mark"
      BY <3>1 DEF onPath, goto
    <3> HIDE DEF p
    <3> QED
      BY <1>2, <3>1, <3>2
  <2>2. CASE hash(c) \/ delivers(c, job[c].file) \/ send(c)
    BY <2>2 DEF hash, delivers, send, goto
  <2>3. CASE clean(c)
    <3>1. \E x, y : fetched' = [fetched EXCEPT ![p] = x] /\ clear' = [clear EXCEPT ![p] = y]
      <4>1. CASE onPath(c, "clean", "idle", fetched[p], None)
        BY <4>1 DEF onPath
      <4>2. CASE skips(c, "clean", "idle")
        <5>1. fetched' = fetched /\ clear' = clear
          BY <4>2 DEF skips, rest
        <5> DEFINE x == fetched[p]
        <5> DEFINE y == clear[p]
        <5>2. fetched = [fetched EXCEPT ![p] = x] /\ clear = [clear EXCEPT ![p] = y]
          <6> HIDE DEF p
          <6> QED  BY <1>2
        <5> QED
          BY <5>1, <5>2
      <4> QED
        BY <2>3, <4>1, <4>2 DEF clean
    <3>2. pc[c] = "clean"
      BY <2>3 DEF clean
    <3> HIDE DEF p
    <3> QED
      BY <1>2, <3>1, <3>2
  <2> QED
    BY <2>1, <2>2, <2>3
<1>6. DecShape'
  BY <1>2, <1>3 DEF DecShape, Held
<1>7. ReadStep(c)
  BY <1>1, <1>3, <1>4, <1>5 DEF ReadStep, Downloading
<1>8. ASSUME Alone(c)'
      PROVE  ReadAt(c)'
  <2>1. Alone(c) /\ pathOf(c)' = p /\ Kept(job[c].file)' = Kept(f)
    BY <1>3, <1>7, <1>8, StillAlone
  <2>2. CASE pc'[c] \in { "hash", "record", "send" }
    <3>1. PICK owner \in Clients \union { None } : clear[p] = Copy(Kept(f), owner)
      BY <1>3, <2>1, <2>2 DEF ReadInv, ReadAt
    <3>2. \E o \in Clients \union { None } : clear'[p] = Copy(Kept(f), o)
      <4>1. [Copy(Kept(f), owner) EXCEPT !.owner = c] = Copy(Kept(f), c)
        BY DEF Copy
      <4> QED
        BY <1>3, <1>5, <2>2, <3>1, <4>1
    <3> QED
      BY <2>1, <2>2, <3>2 DEF ReadAt, Copy
  <2>3. CASE pc'[c] \in { "clean", "idle" }
    BY <2>3 DEF ReadAt
  <2> QED
    BY <1>3, <2>2, <2>3
<1> QED
  BY <1>6, <1>7, <1>8, OneReads

\* A step of c outside of downloads reads nothing.
LEMMA Elsewhere ==
    ASSUME ReadInv, NEW c \in Clients, pc'[c] \notin Downloading,
           \A d \in Clients \ { c } : pc'[d] = pc[d] /\ job'[d] = job[d],
           \A d \in Clients \ { c } : /\ "path" \in met[d] => "path" \in met'[d]
                                      /\ "reader" \in met[d] => "reader" \in met'[d],
           dec' = dec, size' = size, fetched' = fetched, clear' = clear, StoredKept
    PROVE  ReadInv'
<1>1. DecShape'
  BY DEF ReadInv, DecShape, Held
<1>2. \A d \in Clients : pc'[d] \in Downloading => Undisturbed(d)
  BY DEF Undisturbed, Same
<1> QED
  BY <1>1, <1>2, ReadQuiet

LEMMA StoredAppended ==
    ASSUME Typed, NEW x, stored' = Append(stored, x)
    PROVE  StoredKept
<1>1. stored \in Seq(ToSet(stored))
  BY DEF Typed
<1>2. /\ DOMAIN stored = 1 .. Len(stored) /\ DOMAIN stored' = 1 .. Len(stored) + 1
      /\ Len(stored) \in Nat
      /\ \A i \in DOMAIN stored : stored'[i] = stored[i]
  BY <1>1, Appended
<1> QED
  BY <1>2 DEF StoredKept

LEMMA StoredRemoved ==
    ASSUME Typed, NEW i, stored' = [stored EXCEPT ![i] = Gone]
    PROVE  StoredKept
<1>1. stored \in Seq(ToSet(stored))
  BY DEF Typed
<1>2. /\ DOMAIN stored' = DOMAIN stored
      /\ \A j \in DOMAIN stored : stored'[j] = IF j = i THEN Gone ELSE stored[j]
  BY <1>1, Replaced
<1> QED
  BY <1>2 DEF StoredKept

LEMMA WritesUnread ==
    ASSUME Inv, ReadInv, NEW c \in Clients, encrypt(c)
    PROVE  ReadInv'
<1>1. Typed /\ pc \in [Clients -> Steps] /\ UNCHANGED rest
  BY DEF Inv, Typed, encrypt
<1>2. /\ dec' = dec
      /\ \E to \in Writing \union { "pin" } : pc' = [pc EXCEPT ![c] = to]
  BY DEF encrypt, writerOpen, writerKey, writerIv, writeFromFile, writerFinal, writerClose, goto, Writing
<1>3. \A d \in Clients \ { c } : /\ "path" \in met[d] => "path" \in met'[d]
                                 /\ "reader" \in met[d] => "reader" \in met'[d]
  <2>1. CASE writerOpen(c)
    <3> DEFINE others == { d \in Clients \ { c } : pc[d] \in Writing }
    <3>1. meets(c, others, "writer") /\ others \in SUBSET Clients
      BY <2>1 DEF writerOpen
    <3> HIDE DEF others
    <3> QED
      BY <1>1, <3>1, Met
  <2>2. CASE met' = met
    BY <2>2
  <2> QED
    BY <2>1, <2>2 DEF encrypt, writerKey, writerIv, writeFromFile, writerFinal, writerClose
<1>4. pc'[c] \notin Downloading /\ \A d \in Clients \ { c } : pc'[d] = pc[d]
  BY <1>1, <1>2, Locations
<1>5. size' = size /\ fetched' = fetched /\ clear' = clear /\ job' = job /\ StoredKept
  BY <1>1 DEF rest, StoredKept
<1> QED
  BY <1>2, <1>3, <1>4, <1>5, Elsewhere

LEMMA ImportsUnread ==
    ASSUME Inv, ReadInv, NEW c \in Clients, moveToIpfs(c) \/ importFileInDB(c)
    PROVE  ReadInv'
<1>1. Typed /\ pc \in [Clients -> Steps] /\ JobShape
  BY DEF Inv, Typed
<1>2. PICK to \in CommitAt : \E from, content : import(c, from, to, content)
  BY DEF moveToIpfs, importFileInDB, CommitAt
<1>3. dec' = dec /\ met' = met
  BY DEF moveToIpfs, importFileInDB, keepsFiles, fileVars
<1>4. /\ pc' = [pc EXCEPT ![c] = to] /\ \E content : stored' = Append(stored, content)
      /\ job' = [job EXCEPT ![c].copy = Len(stored) + 1]
      /\ size' = size /\ fetched' = fetched /\ clear' = clear
  BY <1>2 DEF import, goto
<1>5. pc'[c] \notin Downloading /\ \A d \in Clients \ { c } : pc'[d] = pc[d]
  BY <1>1, <1>4, Locations DEF HasIds
<1>6. \A d \in Clients \ { c } : job'[d] = job[d]
  BY <1>1, <1>4, CopyKept
<1>7. StoredKept
  BY <1>1, <1>4, StoredAppended
<1> QED
  BY <1>3, <1>4, <1>5, <1>6, <1>7, Elsewhere

\* Rows are written, and contents removed.
LEMMA RowsUnread ==
    ASSUME Inv, ReadInv, NEW c \in Clients,
           \/ addFile(c) \/ setItemFileCid(c) \/ setRecordFileCid(c) \/ updateLoFile(c)
           \/ removeContent(c) \/ removeOldLoFile(c)
    PROVE  ReadInv'
<1>1. Typed /\ pc \in [Clients -> Steps]
  BY DEF Inv, Typed
<1>2. /\ dec' = dec /\ met' = met
      /\ size' = size /\ fetched' = fetched /\ clear' = clear /\ job' = job
      /\ \E to \in { "idle", "undo", "lo_remove" } : pc' = [pc EXCEPT ![c] = to]
      /\ stored' = stored \/ \E i : stored' = [stored EXCEPT ![i] = Gone]
  <2>1. CASE removeContent(c)
    BY <2>1 DEF removeContent, goto, keepsFiles, fileVars
  <2>2. CASE removeOldLoFile(c)
    <3>1. stored' = stored \/ stored' = [stored EXCEPT ![job[c].id] = Gone]
      BY <2>2 DEF removeOldLoFile
    <3> QED
      BY <2>2, <3>1 DEF removeOldLoFile, goto, keepsFiles, fileVars
  <2>3. ASSUME NEW from, NEW to \in { "idle", "undo", "lo_remove" }, NEW f, NEW value,
               commits(c, from, to, f, value) \/ skips(c, from, to)
        PROVE  /\ dec' = dec /\ met' = met
               /\ size' = size /\ fetched' = fetched /\ clear' = clear /\ job' = job
               /\ pc' = [pc EXCEPT ![c] = to] /\ stored' = stored
    BY <2>3 DEF commits, skips, goto, keepsFiles, fileVars, rest
  <2>4. CASE addFile(c) \/ setItemFileCid(c) \/ setRecordFileCid(c) \/ updateLoFile(c)
    <3>1. \E to \in { "idle", "undo", "lo_remove" } : \E from, f, value :
             commits(c, from, to, f, value) \/ skips(c, from, to)
      BY <2>4 DEF addFile, setItemFileCid, setRecordFileCid, setCid, updateLoFile
    <3> QED
      BY <2>3, <3>1
  <2> QED
    BY <2>1, <2>2, <2>4
<1>3. pc'[c] \notin Downloading /\ \A d \in Clients \ { c } : pc'[d] = pc[d]
  BY <1>1, <1>2, Locations DEF HasIds, LoAt
<1>4. StoredKept
  <2>1. CASE stored' = stored
    BY <2>1 DEF StoredKept
  <2> QED
    BY <1>1, <1>2, <2>1, StoredRemoved
<1> QED
  BY <1>2, <1>3, <1>4, Elsewhere

\* Uploads and removals begin.
LEMMA OthersBegin ==
    ASSUME Inv, ReadInv, NEW c \in Clients, NEW f \in Files,
           importFile(c, f) \/ uploadLoFile(c, f) \/ deleteFile(c, f)
    PROVE  ReadInv'
<1>1. Typed /\ pc \in [Clients -> Steps] /\ job = [d \in Clients |-> job[d]]
  BY DEF Inv, Typed, JobShape
<1>2. /\ dec' = dec /\ met' = met /\ stored' = stored
      /\ size' = size /\ fetched' = fetched /\ clear' = clear
      /\ \E j : job' = [job EXCEPT ![c] = j]
      /\ \E to \in { "open", "undo", "lo_import" } : pc' = [pc EXCEPT ![c] = to]
  <2>1. CASE importFile(c, f)
    BY <2>1 DEF importFile, starts, goto, fileVars
  <2>2. CASE uploadLoFile(c, f)
    BY <2>2 DEF uploadLoFile, starts, goto, fileVars
  <2>3. CASE deleteFile(c, f)
    BY <2>3 DEF deleteFile, keepsFiles, fileVars
  <2> QED
    BY <2>1, <2>2, <2>3
<1>3. pc'[c] \notin Downloading
  BY <1>1, <1>2, Locations DEF HasIds, LoAt
<1>4. \A d \in Clients \ { c } : pc'[d] = pc[d] /\ job'[d] = job[d]
  BY <1>1, <1>2
<1>5. StoredKept
  BY <1>2 DEF StoredKept
<1> QED
  BY <1>2, <1>3, <1>4, <1>5, Elsewhere

\* A download begins with a content that is stored for its file.
LEMMA ReadingBegins ==
    ASSUME Inv, ReadInv, NEW c \in Clients, NEW f \in Files, NEW kind \in Kinds, exportTo(c, f, kind)
    PROVE  ReadInv'
<1> DEFINE others == { d \in Clients : pc[d] \in Downloading /\ pathOf(d) = tempFilePath(f, kind) }
<1>1. Typed /\ pc \in [Clients -> Steps] /\ job = [d \in Clients |-> job[d]]
  BY DEF Inv, Typed, JobShape
<1>2. /\ row[f] \in Ids /\ starts(c, "fetch", kind, f, row[f])
      /\ meets(c, others, "path") /\ others \in SUBSET Clients
  BY DEF exportTo
<1>3. /\ dec' = dec /\ stored' = stored /\ size' = size /\ fetched' = fetched /\ clear' = clear
      /\ pc' = [pc EXCEPT ![c] = "fetch"]
      /\ job' = [job EXCEPT ![c] = [kind |-> kind, file |-> f, id |-> row[f], copy |-> None]]
  BY <1>2 DEF starts, goto, fileVars
<1>4. \A d \in Clients \ { c } : /\ "path" \in met[d] => "path" \in met'[d]
                                 /\ "reader" \in met[d] => "reader" \in met'[d]
  <2> HIDE DEF others
  <2> QED
    BY <1>1, <1>2, Met
<1>5. StoredKept /\ DecShape'
  BY <1>3 DEF StoredKept, ReadInv, DecShape, Held
<1>6. pc'[c] = "fetch" /\ job'[c].id = row[f] /\ job'[c].file = f
  BY <1>1, <1>3
<1>7. \A d \in Clients \ { c } : Undisturbed(d)
  BY <1>1, <1>3, <1>4 DEF Undisturbed, Same
<1>8. \A d \in Clients \ { c } : Fetching(d)' /\ (Alone(d)' => ReadAt(d)')
  BY <1>3, <1>5, <1>7, Unread DEF ReadInv
<1>9. Fetching(c)'
  <2>1. IsStored(row[f]) /\ stored[row[f]].of = f
    BY <1>2 DEF Inv, Contents, RowsHaveContent
  <2> QED
    BY <1>3, <1>6, <2>1 DEF Fetching, Source, IsStored
<1>10. ReadAt(c)'
  BY <1>6 DEF ReadAt
<1> QED
  BY <1>5, <1>8, <1>9, <1>10 DEF ReadInv

LEMMA ReadInitially == Init => ReadInv
<1> SUFFICES ASSUME Init
             PROVE  ReadInv
  OBVIOUS
<1>1. /\ pc = [c \in Clients |-> "idle"] /\ dec = [c \in Clients |-> NotReading]
  BY DEF Init, FileInit
<1>2. DecShape
  BY <1>1 DEF DecShape, Held, NotReading
<1>3. \A c \in Clients : pc[c] \notin Downloading
  BY <1>1, Locations
<1> QED
  BY <1>2, <1>3 DEF ReadInv, Fetching, Alone

LEMMA ReadPreserved == Inv /\ ReadInv /\ [Next]_vars => ReadInv'
<1> SUFFICES ASSUME Inv, ReadInv, [Next]_vars
             PROVE  ReadInv'
  OBVIOUS
<1>1. ASSUME NEW c \in Clients,
             \/ encrypt(c) \/ moveToIpfs(c) \/ importFileInDB(c)
             \/ addFile(c) \/ setItemFileCid(c) \/ setRecordFileCid(c) \/ updateLoFile(c)
             \/ removeContent(c) \/ removeOldLoFile(c)
      PROVE  ReadInv'
  BY <1>1, WritesUnread, ImportsUnread, RowsUnread
<1>2. ASSUME NEW c \in Clients, downloadFromIpfs(c) \/ exportFile(c)
      PROVE  ReadInv'
  BY <1>2, ReadsFetched
<1>3. ASSUME NEW c \in Clients, decrypt(c)
      PROVE  ReadInv'
  BY <1>3, ReadsOpen, ReadsContent DEF decrypt
<1>4. ASSUME NEW c \in Clients, closeAndRemove(c)
      PROVE  ReadInv'
  BY <1>4, ReadsClosed
<1>5. ASSUME NEW c \in Clients,
             \/ setMetadata(c) \/ hash(c) \/ send(c) \/ clean(c)
             \/ addDeliveredItemFile(c) \/ addDeliveredRecordFile(c) \/ addDeliveredFile(c)
      PROVE  ReadInv'
  BY <1>5, ReadsSent DEF addDeliveredItemFile, addDeliveredRecordFile, addDeliveredFile
<1>6. ASSUME NEW c \in Clients, fails(c)
      PROVE  ReadInv'
  <2>1. pc \in [Clients -> Steps] /\ pc' = [pc EXCEPT ![c] = "idle"]
    BY <1>6 DEF fails, Inv, Typed
  <2>2. /\ dec' = dec /\ met' = met /\ size' = size /\ fetched' = fetched /\ clear' = clear
        /\ job' = job /\ StoredKept
    BY <1>6 DEF fails, fileVars, rest, StoredKept
  <2>3. pc'[c] \notin Downloading /\ \A d \in Clients \ { c } : pc'[d] = pc[d] /\ job'[d] = job[d]
    BY <2>1, <2>2, Locations
  <2> QED
    BY <2>2, <2>3, Elsewhere
<1>7. ASSUME NEW c \in Clients, NEW f \in Files,
             \/ uploadLocFile(c, f) \/ uploadItemFile(c, f) \/ uploadRecordFile(c, f)
             \/ uploadLoFile(c, f) \/ deleteFile(c, f)
      PROVE  ReadInv'
  BY <1>7, OthersBegin DEF uploadLocFile, uploadItemFile, uploadRecordFile
<1>8. ASSUME NEW c \in Clients, NEW f \in Files,
             \/ downloadItemFile(c, f) \/ downloadRecordFile(c, f) \/ downloadCollectionFile(c, f)
             \/ downloadItemFileSource(c, f) \/ downloadRecordFileSource(c, f)
             \/ downloadFile(c, f) \/ downloadLoFile(c, f)
      PROVE  ReadInv'
  <2>1. \E kind \in Kinds : exportTo(c, f, kind)
    BY <1>8 DEF downloadItemFile, downloadRecordFile, downloadCollectionFile, downloadItemFileSource,
                downloadRecordFileSource, downloadFile, downloadLoFile, Kinds
  <2> QED
    BY <2>1, ReadingBegins
<1>9. CASE crash
  <2>1. /\ pc' = [c \in Clients |-> "idle"] /\ dec' = [c \in Clients |-> NotReading]
    BY <1>9 DEF crash
  <2>2. DecShape' /\ \A c \in Clients : pc'[c] \notin Downloading
    BY <2>1, Locations DEF DecShape, Held, NotReading
  <2> QED
    BY <2>2 DEF ReadInv, Fetching, Alone
<1>10. CASE UNCHANGED vars
  <2>1. /\ size' = size /\ pc' = pc /\ dec' = dec /\ met' = met /\ stored' = stored
        /\ job' = job /\ fetched' = fetched /\ clear' = clear
    BY <1>10 DEF vars
  <2>2. StoredKept /\ DecShape' /\ \A c \in Clients : Undisturbed(c)
    BY <2>1 DEF StoredKept, ReadInv, DecShape, Held, Undisturbed, Same
  <2> QED
    BY <2>1, <2>2, ReadQuiet
<1> QED
  BY <1>1, <1>2, <1>3, <1>4, <1>5, <1>6, <1>7, <1>8, <1>9, <1>10 DEF Next

-----------------------------------------------------------------------------
(***************************************************************************)
(* The theorems.                                                           *)
(***************************************************************************)

\* The invariant holds whatever uploads, removals, downloads, failures and
\* crashes overlap.
THEOREM Invariance == Spec => []Inv
BY Initially, Preserved, PTL DEF Spec

\* Rows name contents that were stored, and requests carry what their step needs.
THEOREM TypeCorrect == Spec => []TypeOK
<1>1. Inv => TypeOK
  <2> SUFFICES ASSUME Inv
               PROVE  TypeOK
    OBVIOUS
  <2>1. Typed /\ Contents /\ DOMAIN stored = 1 .. Len(stored)
    BY DEF Inv, Typed
  <2>2. \A f \in Files : row[f] \in Ids => row[f] <= Len(stored)
    BY <2>1 DEF Contents, RowsHaveContent, IsStored
  <2>3. \A c \in Clients : pc[c] \in { "commit", "lo_commit", "undo" } => job[c].copy \in DOMAIN stored
    BY <2>1 DEF Contents, Committing, Removing, CommitAt, IsStored
  <2> QED
    BY <2>1, <2>2, <2>3 DEF Typed, TypeOK
<1> QED
  BY <1>1, Invariance, PTL

\* The content that a row names is stored, and is that of the row's file.
THEOREM RowsKeepContent == Spec => []RowsHaveContent
<1>1. Inv => RowsHaveContent
  BY DEF Inv, Contents
<1> QED
  BY <1>1, Invariance, PTL

\* What a request that had the writer for itself stored is whole, for contents
\* of any size.
THEOREM WholeUnlessShared == Spec => []StoredWhole
<1>1. Inv => StoredWhole
  BY DEF Inv
<1> QED
  BY <1>1, Invariance, PTL

\* The owner of a token is only sent copies recorded as delivered to that owner,
\* as long as no other request is served on the same path.
THEOREM SentAsRecorded == Spec => []CopiesAreRecorded
<1>1. Inv => CopiesAreRecorded
  <2> SUFFICES ASSUME Inv, NEW c \in Clients,
                      pc[c] = "clean", job[c].kind = "DELIVERY", "path" \notin met[c]
               PROVE  c \in findDelivery(job[c].file, job[c].copy)
    BY DEF CopiesAreRecorded
  <2>1. deliveredFile(job[c].file, job[c].copy, c) \in delivered
    BY DEF Inv, Copied, Downloading
  <2> QED
    BY <2>1 DEF findDelivery
<1> QED
  BY <1>1, Invariance, PTL

\* What was stored whole comes back to a request that is alone with the reader
\* and on its path, all of it but for the last block of a content that fills the
\* read buffer a whole number of times: for contents and buffers of any size.
THEOREM WholeComesBack == Spec => []ReadBack
<1>1. Inv /\ ReadInv => ReadBack
  <2> SUFFICES ASSUME Inv, ReadInv, NEW c \in Clients,
                      pc[c] \in { "mark", "send" }, job[c].file \notin LoFiles,
                      met[c] \intersect { "reader", "path" } = {},
                      stored[job[c].id] # Gone, stored[job[c].id].alone
               PROVE  clear[pathOf(c)] # None /\ clear[pathOf(c)].blocks = Kept(job[c].file)
    BY DEF ReadBack
  <2>1. Alone(c)
    BY DEF Alone, Source, Downloading
  <2>2. PICK owner \in Clients \union { None } : clear[pathOf(c)] = Copy(Kept(job[c].file), owner)
    BY <2>1 DEF ReadInv, ReadAt
  <2>3. Kept(job[c].file) \in Seq(ClearBlocks)
    BY <2>1, Sourced, KeptIsClear DEF ReadInv
  <2>4. clear[pathOf(c)] # None
    BY <2>2, <2>3, CopyIsFile
  <2> QED
    BY <2>2, <2>4 DEF Copy
<1>2. Init => ReadInv
  BY ReadInitially
<1>3. Inv /\ ReadInv /\ [Next]_vars => ReadInv'
  BY ReadPreserved
<1> QED
  BY <1>1, <1>2, <1>3, Invariance, PTL DEF Spec
=============================================================================

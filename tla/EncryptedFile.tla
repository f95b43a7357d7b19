---------------------------- MODULE EncryptedFile ----------------------------
(***************************************************************************)
(* The writer and the reader of encrypted files.                           *)
(*                                                                         *)
(* A file is a sequence of blocks of the cipher: a salt, an initialization *)
(* vector, then the encrypted content, whose last block holds what does    *)
(* not fill a block and the padding.  FileStorageService is a singleton    *)
(* and has one writer and one reader, so that the requests of all clients  *)
(* go through the same `file`, `cipher` and `decipher`, with an await      *)
(* between any two steps.  The writer is followed step by step; requests   *)
(* that overlap in the reader, which share its buffer as well, may get     *)
(* anything.                                                               *)
(***************************************************************************)
EXTENDS Integers, FiniteSets, Sequences, SequencesExt

CONSTANTS
    Clients,   \* the requests that may be served at the same time
    Files,     \* the contents that are stored
    None,
    BUFFER,    \* READ_BUFFER_SIZE, in blocks
    MaxBlocks  \* bound on the whole blocks of a content

ASSUME EncryptedFileAssumption ==
    /\ None \notin Clients /\ None \notin Files
    /\ BUFFER \in Nat /\ BUFFER > 1
    /\ MaxBlocks \in Nat

VARIABLES
    size,    \* of the contents, in whole blocks.  Never changes.
    pc,      \* the next step of every request, or "idle"
    writer,  \* the writer's file and cipher: of which request are they?
    enc,     \* what every request opened for writing
    dec,     \* what every request opened for reading
    met      \* history: the requests that shared the writer, the reader, a path

fileVars == << writer, enc, dec >>

goto(c, from, to) == pc[c] = from /\ pc' = [pc EXCEPT ![c] = to]

Writing  == { "key", "iv", "data", "final", "close" }
Reading  == { "readIv", "readKey", "read", "readClose" }

Block(part, c, f) == [part |-> part, by |-> c, of |-> f]
Opening(c) == << Block("salt", c, None), Block("iv", c, None) >>
Body(c, f) == [i \in 1 .. size[f] |-> Block("body", c, f)]

\* what the whole content of f is, encrypted by c
Encrypted(c, f) == Opening(c) \o Body(c, f) \o << Block("last", c, f) >>
IsEncrypted(blocks, f) == \E c \in Clients : blocks = Encrypted(c, f)

\* Contents that are not what they should be are not told apart.
Garbled == Block("garbled", None, None)
orGarbled(blocks, ok) == IF ok THEN blocks ELSE << Garbled >>

\* The file is closed and the cipher finalized.
NotWriting == [blocks |-> <<>>, closed |-> TRUE, final |-> TRUE, of |-> None]
NotReading == [left |-> <<>>, key |-> <<>>, final |-> FALSE, out |-> <<>>]

FileInit ==
    /\ size \in [Files -> 0 .. MaxBlocks]
    /\ pc = [c \in Clients |-> "idle"]
    /\ writer = [file |-> None, cipher |-> None]
    /\ enc = [c \in Clients |-> NotWriting]
    /\ dec = [c \in Clients |-> NotReading]
    /\ met = [c \in Clients |-> {}]

\* c enters what the requests `others` are in, under the name `where`
meets(c, others, where) ==
    met' = [d \in Clients |->
               IF d = c
               THEN (met[c] \ { where }) \union { w \in { where } : others # {} }
               ELSE met[d] \union { w \in { where } : d \in others }]

-----------------------------------------------------------------------------
(***************************************************************************)
(* EncryptedFileWriter.encrypt                                             *)
(***************************************************************************)

\* what a file that has `blocks` becomes
extended(blocks, more) ==
    LET all == blocks \o more
    IN  orGarbled(all, \E c \in Clients, f \in Files : IsPrefix(all, Encrypted(c, f)))

\* `this.file` may have been closed, and `this.cipher` finalized, by another.
append(blocks) == enc' = [enc EXCEPT ![writer.file].blocks = extended(@, blocks)]
canWrite  == ~enc[writer.file].closed
canCipher == ~enc[writer.cipher].final

writerOpen(c) ==
    /\ goto(c, "open", "key")
    /\ writer' = [writer EXCEPT !.file = c]
    /\ enc' = [enc EXCEPT ![c] = [NotWriting EXCEPT !.closed = FALSE, !.final = FALSE]]
    /\ meets(c, { d \in Clients \ { c } : pc[d] \in Writing }, "writer")
    /\ UNCHANGED << dec >>

\* The callbacks of scrypt and randomFill: the cipher, then the salt, then the
\* vector.  On a closed file they throw what nobody handles: the process stops.
writerKey(c) ==
    /\ goto(c, "key", "iv")
    /\ canWrite
    /\ writer' = [writer EXCEPT !.cipher = c]
    /\ append(<< Block("salt", c, None) >>)
    /\ UNCHANGED << dec, met >>

writerIv(c) ==
    /\ goto(c, "iv", "data")
    /\ canWrite
    /\ append(<< Block("iv", c, None) >>)
    /\ UNCHANGED << writer, dec, met >>

writeFromFile(c, f) ==
    /\ goto(c, "data", "final")
    /\ canWrite /\ canCipher
    /\ enc' = [enc EXCEPT ![writer.file].blocks = extended(@, Body(writer.cipher, f)),
                          ![writer.cipher].of = f]
    /\ UNCHANGED << writer, dec, met >>

lastBlock == Block("last", writer.cipher, enc[writer.cipher].of)

\* Seeded fault: the padding is left out.
writerFinalDropped(c) ==
    /\ goto(c, "final", "close")
    /\ canWrite /\ canCipher
    /\ enc' = [enc EXCEPT ![writer.cipher].final = TRUE]
    /\ UNCHANGED << writer, dec, met >>

writerFinal(c) ==
    /\ goto(c, "final", "close")
    /\ canWrite /\ canCipher
    /\ enc' = [enc EXCEPT ![writer.file].blocks = extended(@, << lastBlock >>),
                          ![writer.cipher].final = TRUE]
    /\ UNCHANGED << writer, dec, met >>

writerThrows(c) ==
    /\ pc[c] \in { "data", "final" }
    /\ ~(canWrite /\ canCipher)

\* Seeded fault: the content is not pinned before the row is written.
writerCloseUnpinned(c) ==
    /\ goto(c, "close", "commit")
    /\ enc' = [enc EXCEPT ![writer.file].closed = TRUE]
    /\ UNCHANGED << writer, dec, met >>

\* Closing twice is harmless.
writerClose(c) ==
    /\ goto(c, "close", "pin")
    /\ enc' = [enc EXCEPT ![writer.file].closed = TRUE]
    /\ UNCHANGED << writer, dec, met >>

-----------------------------------------------------------------------------
(***************************************************************************)
(* EncryptedFileReader.decrypt                                             *)
(***************************************************************************)

First(blocks, n) == SubSeq(blocks, 1, n)
Rest(blocks, n)  == SubSeq(blocks, n + 1, Len(blocks))
take(c, n) == First(dec[c].left, IF Len(dec[c].left) < n THEN Len(dec[c].left) ELSE n)

\* Requests that overlap read through each other's file, decipher and buffer:
\* what each of them gets is not followed any further, and may be anything.
Mixed == [left |-> << Garbled >>, key |-> <<>>, final |-> FALSE, out |-> <<>>]
isMixed(c) == "reader" \in met[c]

\* opens the file and reads the salt
readerOpen(c, blocks) ==
    LET others == { d \in Clients \ { c } : pc[d] \in Reading }
    IN  /\ goto(c, "readOpen", "readIv")
        /\ dec' = [d \in Clients |->
                      IF d \in others \/ (d = c /\ others # {}) THEN Mixed
                      ELSE IF d = c THEN [ left |-> Rest(blocks, 1), key |-> First(blocks, 1),
                                           final |-> FALSE, out |-> <<>> ]
                      ELSE dec[d]]
        /\ meets(c, others, "reader")
        /\ UNCHANGED << writer, enc >>

readerIv(c) ==
    /\ goto(c, "readIv", "readKey")
    /\ dec' = IF isMixed(c) THEN dec
              ELSE [dec EXCEPT ![c].key = @ \o take(c, 1), ![c].left = Rest(@, 1)]
    /\ UNCHANGED << writer, enc, met >>

readerKey(c) ==
    /\ goto(c, "readKey", "read")
    /\ UNCHANGED << writer, enc, dec, met >>

Deciphered(c, blocks) ==
    orGarbled([i \in 1 .. Len(blocks) |-> [blocks[i] EXCEPT !.by = None]],
              \A i \in 1 .. Len(blocks) :
                  /\ blocks[i].part \in { "body", "last" }
                  /\ dec[c].key = Opening(blocks[i].by))

\* Seeded fault: the decipher is finalized at the end of the file only.
readerReadToEnd(c) ==
    LET blocks == take(c, BUFFER)
    IN  /\ pc[c] = "read"
        /\ ~isMixed(c)
        /\ blocks # <<>>
        /\ dec' = [dec EXCEPT ![c].left = Rest(@, BUFFER),
                              ![c].out = @ \o Deciphered(c, blocks)]
        /\ UNCHANGED << pc, writer, enc, met >>

\* The last read is the one that does not fill the buffer, and only that one
\* finalizes: when all reads fill it, the last block is held back for good.
readerRead(c) ==
    LET blocks == take(c, BUFFER)
    IN  /\ pc[c] = "read"
        /\ ~isMixed(c)
        /\ blocks # <<>>
        /\ dec' = [dec EXCEPT ![c].left = Rest(@, BUFFER),
                              ![c].out = @ \o Deciphered(c, blocks),
                              ![c].final = Len(blocks) < BUFFER]
        /\ UNCHANGED << pc, writer, enc, met >>

readerEnd(c) ==
    /\ goto(c, "read", "readClose")
    /\ isMixed(c) \/ take(c, BUFFER) = <<>>
    /\ UNCHANGED << writer, enc, dec, met >>

\* A file that is not encrypted as it should be may be refused at its end.
readerThrows(c) ==
    \/ pc[c] \in Reading /\ isMixed(c)
    \/ pc[c] = "read" /\ dec[c].final /\ Garbled \in { dec[c].out[i] : i \in DOMAIN dec[c].out }

\* what readToFile wrote when it ends: the last block only if it was finalized
deciphered(c) ==
    IF dec[c].final THEN dec[c].out ELSE First(dec[c].out, Len(dec[c].out) - 1)

closeReader(c) == dec' = [dec EXCEPT ![c] = NotReading]
=============================================================================

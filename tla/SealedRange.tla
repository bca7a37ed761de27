---------------------------- MODULE SealedRange ----------------------------
(***************************************************************************)
(* One stored object and one request for a part of it: the chunked         *)
(* envelope of core/storage.py, written chunk by chunk and read by         *)
(* computing the chunk that covers a byte, and the two endpoints that      *)
(* answer ranges, the Vault's player (vault/router.py, get_item_media) and *)
(* the stream of the libraries (core/responses.py, serve_media_stream).    *)
(*                                                                         *)
(* Bytes are their offsets in the plaintext.  A chunk opens when all of it *)
(* is there: each is authenticated with its index and, through the header, *)
(* with the length of the whole.  The header itself is there, and sizes    *)
(* do not count it.                                                        *)
(***************************************************************************)
EXTENDS Integers

CONSTANTS ChunkSize, \* SEEKABLE_CHUNK_SIZE
          TagSize,   \* what AES-GCM adds to a chunk
          MaxLength  \* bounds the plaintext and the numbers of a range

ASSUME SealedRangeAssumption ==
    ChunkSize \in Nat \ {0} /\ TagSize \in Nat \ {0} /\ MaxLength \in Nat \ {0}

VARIABLES object,  \* what is stored
          written, \* plaintext the writer has sealed
          answer,  \* the status and the bytes that the headers announce
          body,    \* the generator of the body
          served   \* the bytes the client was sent

rangeVars == <<object, written, answer, body, served>>

Lengths == 1..MaxLength
Least(a, b) == IF a < b THEN a ELSE b
Most(a, b) == IF a > b THEN a ELSE b

NoAnswer == [status |-> "none", start |-> 0, end |-> 0]
NotReading == [at |-> "idle", index |-> 0, position |-> 0]

SealedRangeInit ==
    /\ object \in [form : {"chunked", "whole"}, length : Lengths, kept : {0}, place : {"temporary"}]
    /\ written = 0 /\ answer = NoAnswer /\ body = NotReading /\ served = {}

-----------------------------------------------------------------------------
\* One turn of the writer's loop; the envelope is a temporary file until Stores.
_write_seekable_v2 ==
    LET piece == Least(ChunkSize, object.length - written) IN
    /\ object.place = "temporary" /\ object.form = "chunked" /\ written < object.length
    /\ object' = [object EXCEPT !.kept = @ + piece + TagSize]
    /\ written' = written + piece
    /\ UNCHANGED <<answer, body, served>>

\* The envelope of a small file: one tag over all of it.
_encrypt_payload ==
    /\ object.place = "temporary" /\ object.form = "whole" /\ written < object.length
    /\ object' = [object EXCEPT !.kept = object.length + TagSize]
    /\ written' = object.length
    /\ UNCHANGED <<answer, body, served>>

save_file_from_path ==
    /\ object.place = "temporary" /\ written = object.length
    /\ object' = [object EXCEPT !.place = "stored"]
    /\ UNCHANGED <<written, answer, body, served>>

\* The disk loses the end of the file; a card is deleted while it is played.
Damage ==
    /\ object.place = "stored" /\ body = NotReading
    /\ \/ object.kept > 0 /\ object' = [object EXCEPT !.kept = @ - 1]
       \/ object' = [object EXCEPT !.place = "deleted"]
    /\ UNCHANGED <<written, answer, body, served>>

-----------------------------------------------------------------------------
ChunkAt(i) == i * (ChunkSize + TagSize)
StoredChunk(i) == Most(0, Least(ChunkSize + TagSize, object.kept - ChunkAt(i)))
Opens(i) == StoredChunk(i) = TagSize + Least(ChunkSize, object.length - i * ChunkSize)

\* A Range header: none, its last bytes, from a byte on, or between two.
Ranges == [kind : {"none"}, first : {0}, last : {0}]
    \cup [kind : {"suffix"}, first : {0}, last : 0..MaxLength + 1]
    \cup [kind : {"from"}, first : 0..MaxLength, last : {0}]
    \cup [kind : {"between"}, first : 0..MaxLength, last : 0..MaxLength]

Partial(a, b) == [status |-> "partial", start |-> a, end |-> b]
Whole == [status |-> "whole", start |-> 0, end |-> object.length - 1]
Refused == [NoAnswer EXCEPT !.status = "refused"]

_parse_byte_range(r) ==
    LET size == object.length IN
    IF r.kind = "none" THEN Whole
    ELSE IF r.kind = "suffix"
         THEN IF r.last = 0 THEN Refused ELSE Partial(Most(0, size - r.last), size - 1)
    ELSE IF r.first >= size THEN Refused
    ELSE Partial(r.first, IF r.kind = "from" THEN size - 1 ELSE Least(r.last, size - 1))

Announces(a) ==
    /\ object.place = "stored" /\ answer = NoAnswer
    /\ answer' = a
    /\ UNCHANGED <<object, written, body, served>>

\* The size is the one in the row, which is that of the plaintext.
get_item_media == \E r \in Ranges : Announces(_parse_byte_range(r))

\* A range without a first byte is taken to start at byte 0.
StreamSpan(r) ==
    LET size == object.length  last == IF r.kind = "from" THEN size - 1 ELSE r.last IN
    IF r.kind = "none" THEN Whole
    ELSE IF r.first >= size THEN Refused
    ELSE Partial(r.first, Least(last, size - 1))

\* The first chunk, or all of a single blob, is opened before any header is sent.
serve_media_stream ==
    \E r \in Ranges :
       Announces(IF (object.form = "chunked" /\ Opens(0))
                    \/ (object.form = "whole" /\ object.kept = object.length + TagSize)
                 THEN StreamSpan(r) ELSE Refused)

Asked == answer.status \in {"partial", "whole"}
WantedEnd == answer.end + 1

\* The generator starts after the headers: a range of no bytes reads nothing.
read_seekable_range ==
    /\ Asked /\ body.at = "idle" /\ object.form = "chunked"
    /\ body' = IF WantedEnd <= answer.start THEN [body EXCEPT !.at = "ended"]
                 ELSE IF object.place = "deleted" THEN [body EXCEPT !.at = "broken"]
                 ELSE LET i == answer.start \div ChunkSize IN
                      [at |-> "reading", index |-> i, position |-> i * ChunkSize]
    /\ UNCHANGED <<object, written, answer, served>>

\* Mutant: a chunk that is not there ends the body like the end of the file.
EndsAtTheFile ==
    LET p == body.position  cipher == StoredChunk(body.index)
        chunkEnd == p + cipher - TagSize IN
    /\ body.at = "reading"
    /\ IF p >= WantedEnd \/ p >= object.length \/ cipher = 0
       THEN body' = [body EXCEPT !.at = "ended"] /\ UNCHANGED served
       ELSE IF chunkEnd > answer.start /\ ~Opens(body.index)
       THEN body' = [body EXCEPT !.at = "broken"] /\ UNCHANGED served
       ELSE /\ served' = served \cup (Most(p, answer.start)..Least(chunkEnd, WantedEnd) - 1)
            /\ body' = [body EXCEPT !.position = chunkEnd, !.index = @ + 1]
    /\ UNCHANGED <<object, written, answer>>

\* One turn of the loop.  What is left of a chunk cut off before the range is
\* not opened.
_read_seekable_chunks ==
    LET p == body.position  cipher == StoredChunk(body.index)
        chunkEnd == p + cipher - TagSize IN
    /\ body.at = "reading"
    /\ IF p >= WantedEnd \/ p >= object.length
       THEN body' = [body EXCEPT !.at = "ended"] /\ UNCHANGED served
       ELSE IF cipher = 0 \/ (chunkEnd > answer.start /\ ~Opens(body.index))
       THEN body' = [body EXCEPT !.at = "broken"] /\ UNCHANGED served
       ELSE /\ served' = served \cup (Most(p, answer.start)..Least(chunkEnd, WantedEnd) - 1)
            /\ body' = [body EXCEPT !.position = chunkEnd, !.index = @ + 1]
    /\ UNCHANGED <<object, written, answer>>

\* Decrypted whole and sliced.
_iter_media ==
    /\ Asked /\ body.at = "idle" /\ object.form = "whole"
    /\ IF object.place = "stored" /\ object.kept = object.length + TagSize
       THEN /\ served' = answer.start..Least(WantedEnd, object.length) - 1
            /\ body' = [body EXCEPT !.at = "ended"]
       ELSE body' = [body EXCEPT !.at = "broken"] /\ UNCHANGED served
    /\ UNCHANGED <<object, written, answer>>

SealedRangeNext ==
    \/ _write_seekable_v2 \/ _encrypt_payload \/ save_file_from_path \/ Damage
    \/ get_item_media \/ serve_media_stream
    \/ read_seekable_range \/ _read_seekable_chunks \/ _iter_media

SealedRangeSpec == SealedRangeInit /\ [][SealedRangeNext]_rangeVars

-----------------------------------------------------------------------------
SealedRangeTypeOK ==
    /\ object \in [form : {"chunked", "whole"}, length : Lengths, kept : Nat,
                  place : {"temporary", "stored", "deleted"}]
    /\ written \in Nat
    /\ answer \in [status : {"none", "partial", "whole", "refused"}, start : Nat, end : Int]
    /\ body \in [at : {"idle", "reading", "ended", "broken"}, index : Nat, position : Int]
    /\ served \subseteq Int

(* A body that ends without an error is the bytes its headers announced, each *)
(* of them and no other: wherever the range falls in the chunks, and whatever *)
(* the end of the stored file has lost.  What is lost breaks the body off.    *)
BodyIsWhatWasAnnounced ==
    body.at = "ended" => served = answer.start..answer.end
=============================================================================

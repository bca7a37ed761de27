------------------------- MODULE SealedRangeProofs -------------------------
(***************************************************************************)
(* A body that ends is what its headers announced, for any size of chunk   *)
(* and tag and any length.  The invariant says where the body stands:    *)
(* at the start of a chunk or at the end of the plaintext, having served   *)
(* the range up to there, or behind a chunk that was cut off, where        *)
(* nothing is left to read and the next turn fails.                        *)
(***************************************************************************)
EXTENDS SealedRange, TLAPS

Stands ==
    \/ /\ \/ body.position = body.index * ChunkSize
          \/ body.position = object.length
       /\ served = answer.start..Least(body.position, WantedEnd) - 1
    \/ body.position <= answer.start /\ StoredChunk(body.index) = 0

AnswerInv ==
    /\ answer # NoAnswer => object.place # "temporary"
    /\ Asked => answer.start < object.length /\ answer.end < object.length
    /\ answer = NoAnswer => body = NotReading

ReaderInv ==
    /\ body.at = "idle" => served = {}
    /\ body.at = "reading" =>
          /\ Asked /\ answer.start < WantedEnd /\ object.form = "chunked"
          /\ Stands

RangeInv == SealedRangeTypeOK /\ AnswerInv /\ ReaderInv /\ BodyIsWhatWasAnnounced

LEMMA InitIsUnasked == SealedRangeInit => RangeInv
PROOF
  BY SealedRangeAssumption
     DEF SealedRangeInit, RangeInv, SealedRangeTypeOK, AnswerInv, ReaderInv, Asked,
         BodyIsWhatWasAnnounced, NoAnswer, NotReading, Lengths

(* What a header asks for begins and ends inside the plaintext.               *)
LEMMA SpansAreInside ==
    ASSUME SealedRangeTypeOK, NEW r \in Ranges,
           NEW a \in {_parse_byte_range(r), StreamSpan(r), Refused}
    PROVE  /\ a \in [status : {"none", "partial", "whole", "refused"}, start : Nat, end : Int]
           /\ a # NoAnswer
           /\ a.status \in {"partial", "whole"} => a.start < object.length /\ a.end < object.length
PROOF
  <1>1. object.length \in Nat \ {0}
    BY SealedRangeAssumption DEF SealedRangeTypeOK, Lengths
  <1>2. /\ r.kind \in {"none", "suffix", "from", "between"}
        /\ r.first \in Nat /\ r.last \in Nat /\ (r.kind = "suffix" => r.first = 0)
    BY SealedRangeAssumption DEF Ranges
  <1>3. CASE a = _parse_byte_range(r)
    BY <1>1, <1>2, <1>3
       DEF _parse_byte_range, Whole, Partial, Refused, NoAnswer, Least, Most
  <1>4. CASE a = StreamSpan(r)
    BY <1>1, <1>2, <1>4 DEF StreamSpan, Whole, Partial, Refused, NoAnswer, Least
  <1>5. CASE a = Refused
    BY <1>5 DEF Refused, NoAnswer
  <1> QED
    BY <1>3, <1>4, <1>5

LEMMA AnnouncedInside ==
    ASSUME RangeInv, NEW r \in Ranges,
           NEW a \in {_parse_byte_range(r), StreamSpan(r), Refused}, Announces(a)
    PROVE  RangeInv'
PROOF
  <1>1. /\ a \in [status : {"none", "partial", "whole", "refused"}, start : Nat, end : Int]
        /\ a # NoAnswer
        /\ a.status \in {"partial", "whole"} => a.start < object.length /\ a.end < object.length
    BY SpansAreInside DEF RangeInv
  <1>2. body = NotReading
    BY DEF RangeInv, AnswerInv, Announces
  <1> QED
    BY <1>1, <1>2 DEF RangeInv, SealedRangeTypeOK, AnswerInv, ReaderInv, Asked, Announces,
       BodyIsWhatWasAnnounced, NotReading, Stands, StoredChunk, ChunkAt

(* A chunk that is read whole ends where the next one begins, or the          *)
(* plaintext does; behind one that is not, there is nothing.                  *)
LEMMA ChunksMeet ==
    ASSUME SealedRangeTypeOK, NEW i \in Nat, StoredChunk(i) # 0
    PROVE  /\ StoredChunk(i) \in Nat
           /\ Opens(i) => \/ i * ChunkSize + StoredChunk(i) - TagSize = (i + 1) * ChunkSize
                          \/ i * ChunkSize + StoredChunk(i) - TagSize = object.length
           /\ StoredChunk(i) - TagSize < ChunkSize => StoredChunk(i + 1) = 0
           /\ StoredChunk(i) - TagSize <= ChunkSize
PROOF
  <1> DEFINE at == i * (ChunkSize + TagSize)
             base == i * ChunkSize
  <1>1. ChunkSize \in Nat \ {0} /\ TagSize \in Nat \ {0} /\ object.kept \in Nat
        /\ object.length \in Nat \ {0}
    BY SealedRangeAssumption DEF SealedRangeTypeOK, Lengths
  <1>2. /\ at \in Nat /\ base \in Nat
        /\ (i + 1) * (ChunkSize + TagSize) = at + ChunkSize + TagSize
        /\ (i + 1) * ChunkSize = base + ChunkSize
    BY <1>1
  <1>3. /\ StoredChunk(i) = Most(0, Least(ChunkSize + TagSize, object.kept - at))
        /\ StoredChunk(i + 1)
             = Most(0, Least(ChunkSize + TagSize, object.kept - (at + ChunkSize + TagSize)))
        /\ Opens(i) <=> StoredChunk(i) = TagSize + Least(ChunkSize, object.length - base)
    BY <1>2 DEF StoredChunk, ChunkAt, Opens
  <1> HIDE DEF at, base
  <1> QED
    BY <1>1, <1>2, <1>3 DEF Least, Most

LEMMA StartsAtAChunk ==
    ASSUME RangeInv, read_seekable_range
    PROVE  RangeInv'
PROOF
  <1> DEFINE i == answer.start \div ChunkSize
  <1>1. /\ ChunkSize \in Nat \ {0} /\ answer.start \in Nat /\ answer.end \in Int
        /\ i \in Nat /\ i * ChunkSize \in Nat /\ i * ChunkSize <= answer.start
    BY SealedRangeAssumption DEF RangeInv, SealedRangeTypeOK
  <1>2. /\ UNCHANGED <<object, written, answer, served>> /\ served = {}
        /\ Asked /\ object.form = "chunked"
    BY DEF read_seekable_range, RangeInv, ReaderInv
  <1>3. CASE WantedEnd <= answer.start
    <2>1. body' = [body EXCEPT !.at = "ended"] /\ answer.start..answer.end = {}
      BY <1>1, <1>3 DEF read_seekable_range, WantedEnd
    <2> QED
      BY <1>2, <2>1 DEF RangeInv, SealedRangeTypeOK, AnswerInv, ReaderInv, Asked,
         BodyIsWhatWasAnnounced, NoAnswer
  <1>4. CASE ~(WantedEnd <= answer.start) /\ object.place = "deleted"
    <2>1. body' = [body EXCEPT !.at = "broken"]
      BY <1>4 DEF read_seekable_range
    <2> QED
      BY <1>2, <2>1 DEF RangeInv, SealedRangeTypeOK, AnswerInv, ReaderInv, Asked,
         BodyIsWhatWasAnnounced, NoAnswer
  <1>5. CASE ~(WantedEnd <= answer.start) /\ object.place # "deleted"
    <2>1. body' = [at |-> "reading", index |-> i, position |-> i * ChunkSize]
      BY <1>5 DEF read_seekable_range
    <2>2. answer.start..Least(i * ChunkSize, WantedEnd) - 1 = {} /\ answer.start < WantedEnd
      BY <1>1, <1>5 DEF Least, WantedEnd
    <2> HIDE DEF i
    <2> QED
      BY <1>1, <1>2, <2>1, <2>2 DEF RangeInv, SealedRangeTypeOK, AnswerInv, ReaderInv, Asked,
         BodyIsWhatWasAnnounced, NoAnswer, Stands, WantedEnd
  <1> QED
    BY <1>3, <1>4, <1>5

(* Where the next chunk begins, in plain numbers: c is what is stored of the  *)
(* chunk at p, left what the index after it finds.                            *)
LEMMA WhereItGoes ==
    ASSUME NEW p \in Int, NEW c \in Nat, NEW next \in Int, NEW start \in Nat,
           NEW length \in Nat, NEW left, NEW full \in BOOLEAN,
           next = p + ChunkSize,
           full => p + c - TagSize = next \/ p + c - TagSize = length,
           c - TagSize < ChunkSize => left = 0,
           c - TagSize <= ChunkSize,
           ~(p + c - TagSize > start /\ ~full),
           p < length
    PROVE  \/ /\ p + c - TagSize = next \/ p + c - TagSize = length
              /\ p <= p + c - TagSize
           \/ p + c - TagSize <= start /\ left = 0
PROOF
  <1>1. ChunkSize \in Nat \ {0} /\ TagSize \in Nat \ {0}
    BY SealedRangeAssumption
  <1>2. CASE full
    BY <1>1, <1>2
  <1>3. CASE ~full
    BY <1>1, <1>3
  <1> QED
    BY <1>2, <1>3

(* The bytes of a chunk extend what was served up to its start to its end.    *)
LEMMA Extends ==
    \A p, e, wanted \in Int, start \in Nat :
       p <= e /\ p < wanted =>
          (start..Least(p, wanted) - 1) \cup (Most(p, start)..Least(e, wanted) - 1)
             = start..Least(e, wanted) - 1
PROOF
  <1> SUFFICES ASSUME NEW p \in Int, NEW e \in Int, NEW wanted \in Int, NEW start \in Nat,
                      p <= e, p < wanted
               PROVE  (start..Least(p, wanted) - 1) \cup (Most(p, start)..Least(e, wanted) - 1)
                        = start..Least(e, wanted) - 1
    OBVIOUS
  <1>1. Least(p, wanted) = p /\ Least(e, wanted) \in Int /\ Least(e, wanted) >= p
    BY DEF Least
  <1>2. CASE p > start
    BY <1>1, <1>2 DEF Most
  <1>3. CASE p <= start
    BY <1>1, <1>3 DEF Most
  <1> QED
    BY <1>2, <1>3

LEMMA ReadsOn ==
    ASSUME RangeInv, _read_seekable_chunks
    PROVE  RangeInv'
PROOF
  <1> DEFINE p == body.position
             i == body.index
             cipher == StoredChunk(i)
             chunkEnd == p + cipher - TagSize
  <1>1. /\ ChunkSize \in Nat \ {0} /\ TagSize \in Nat \ {0}
        /\ object.length \in Nat \ {0} /\ answer.start \in Nat /\ answer.end \in Int
        /\ p \in Int /\ i \in Nat
    BY SealedRangeAssumption DEF RangeInv, SealedRangeTypeOK, Lengths
  <1>2. /\ UNCHANGED <<object, written, answer>>
        /\ body.at = "reading" /\ Asked /\ object.form = "chunked"
        /\ answer.start < WantedEnd /\ WantedEnd = answer.end + 1
        /\ answer.end < object.length
        /\ answer.start < object.length
        /\ Stands /\ SealedRangeTypeOK /\ AnswerInv /\ served \subseteq Int
        /\ \/ /\ p = i * ChunkSize \/ p = object.length
              /\ served = answer.start..Least(p, WantedEnd) - 1
           \/ p <= answer.start /\ cipher = 0
    BY DEF _read_seekable_chunks, RangeInv, ReaderInv, AnswerInv, WantedEnd, SealedRangeTypeOK,
       Stands
  <1>3. CASE p >= WantedEnd \/ p >= object.length
    <2>1. body' = [body EXCEPT !.at = "ended"] /\ served' = served
      BY <1>3 DEF _read_seekable_chunks
    <2>2. served = answer.start..answer.end
      BY <1>1, <1>2, <1>3 DEF Least
    <2> QED
      BY <1>2, <2>1, <2>2 DEF RangeInv, SealedRangeTypeOK, AnswerInv, ReaderInv, Asked,
         BodyIsWhatWasAnnounced, NoAnswer
  <1>4. CASE /\ ~(p >= WantedEnd \/ p >= object.length)
             /\ cipher = 0 \/ (chunkEnd > answer.start /\ ~Opens(i))
    <2>1. body' = [body EXCEPT !.at = "broken"] /\ served' = served
      BY <1>4 DEF _read_seekable_chunks
    <2> QED
      BY <1>2, <2>1 DEF RangeInv, SealedRangeTypeOK, AnswerInv, ReaderInv, Asked,
         BodyIsWhatWasAnnounced, NoAnswer
  <1>5. CASE /\ ~(p >= WantedEnd \/ p >= object.length)
             /\ ~(cipher = 0 \/ (chunkEnd > answer.start /\ ~Opens(i)))
    <2>1. /\ body' = [body EXCEPT !.position = chunkEnd, !.index = i + 1]
          /\ served' = served \cup (Most(p, answer.start)..Least(chunkEnd, WantedEnd) - 1)
      BY <1>5 DEF _read_seekable_chunks
    <2>2. p = i * ChunkSize /\ served = answer.start..Least(p, WantedEnd) - 1
      BY <1>1, <1>2, <1>5
    <2>3. /\ cipher \in Nat
          /\ Opens(i) => \/ i * ChunkSize + cipher - TagSize = (i + 1) * ChunkSize
                         \/ i * ChunkSize + cipher - TagSize = object.length
          /\ cipher - TagSize < ChunkSize => StoredChunk(i + 1) = 0
          /\ cipher - TagSize <= ChunkSize
      BY <1>1, <1>2, <1>5, ChunksMeet
    <2>4. (i + 1) * ChunkSize = i * ChunkSize + ChunkSize
      BY <1>1
    <2>5. \/ /\ chunkEnd = (i + 1) * ChunkSize \/ chunkEnd = object.length
             /\ p <= chunkEnd
          \/ chunkEnd <= answer.start /\ StoredChunk(i + 1) = 0
      <3>1. Opens(i) \in BOOLEAN
        BY DEF Opens
      <3>2. (i + 1) * ChunkSize \in Int /\ p < object.length
        BY <1>1, <1>5
      <3> HIDE DEF cipher
      <3>3. /\ Opens(i) => \/ p + cipher - TagSize = (i + 1) * ChunkSize
                           \/ p + cipher - TagSize = object.length
            /\ (i + 1) * ChunkSize = p + ChunkSize
            /\ ~(p + cipher - TagSize > answer.start /\ ~Opens(i))
        BY <1>5, <2>2, <2>3, <2>4
      <3> HIDE DEF p, i
      <3> QED
        BY <1>1, <2>3, <3>1, <3>2, <3>3, WhereItGoes
    <2>6. chunkEnd \in Int
      BY <1>1, <2>3
    <2>8. p <= chunkEnd => served' = answer.start..Least(chunkEnd, WantedEnd) - 1
      <3>1. p < WantedEnd /\ WantedEnd \in Int /\ p \in Int /\ answer.start \in Nat
        BY <1>1, <1>2, <1>5
      <3> SUFFICES ASSUME p <= chunkEnd
                   PROVE  served' = answer.start..Least(chunkEnd, WantedEnd) - 1
        OBVIOUS
      <3> DEFINE from == answer.start
                 wanted == WantedEnd
      <3>2. from \in Nat /\ wanted \in Int /\ p < wanted /\ p \in Int /\ chunkEnd \in Int
            /\ p <= chunkEnd
        BY <2>6, <3>1
      <3> HIDE DEF p, chunkEnd, from, wanted
      <3>3. (from..Least(p, wanted) - 1) \cup (Most(p, from)..Least(chunkEnd, wanted) - 1)
              = from..Least(chunkEnd, wanted) - 1
        BY <3>2, Extends
      <3> QED
        BY <2>1, <2>2, <3>3 DEF from, wanted
    <2>9. /\ body'.position = chunkEnd /\ body'.index = i + 1 /\ body'.at = "reading"
          /\ body' \in [at : {"idle", "reading", "ended", "broken"}, index : Nat, position : Int]
      <3>1. body \in [at : {"idle", "reading", "ended", "broken"}, index : Nat, position : Int]
        BY <1>2 DEF SealedRangeTypeOK
      <3>2. i + 1 \in Nat
        BY <1>1
      <3> HIDE DEF p, i, cipher, chunkEnd
      <3>3. body'.position = chunkEnd /\ body'.index = i + 1 /\ body'.at = body.at
        BY <2>1, <3>1
      <3> QED
        BY <1>2, <2>1, <2>6, <3>1, <3>2, <3>3
    <2>10. Stands'
      <3>1. StoredChunk(body.index)' = StoredChunk(i + 1)
        BY <1>2, <2>9 DEF StoredChunk, ChunkAt
      <3>2. body.position' = chunkEnd /\ body.index' = i + 1
        BY <2>9
      <3>3. object' = object /\ answer' = answer /\ WantedEnd' = WantedEnd
        BY <1>2 DEF WantedEnd
      <3> HIDE DEF p, i, cipher, chunkEnd
      <3> QED
        BY <2>5, <2>8, <3>1, <3>2, <3>3 DEF Stands
    <2>11. served' \subseteq Int
      BY <1>2, <2>1
    <2> HIDE DEF p, i, cipher, chunkEnd
    <2> QED
      BY <1>2, <2>8, <2>9, <2>10, <2>11 DEF RangeInv, SealedRangeTypeOK, AnswerInv, ReaderInv,
         Asked, BodyIsWhatWasAnnounced, NoAnswer, WantedEnd
  <1> QED
    BY <1>3, <1>4, <1>5

LEMMA RangeStep == RangeInv /\ [SealedRangeNext]_rangeVars => RangeInv'
PROOF
  <1> SUFFICES ASSUME RangeInv, [SealedRangeNext]_rangeVars
               PROVE  RangeInv'
    OBVIOUS
  <1>1. CASE _write_seekable_v2
    <2>1. object.kept' \in Nat /\ written' \in Nat
      BY <1>1, SealedRangeAssumption
         DEF _write_seekable_v2, RangeInv, SealedRangeTypeOK, Lengths, Least
    <2> QED
      BY <1>1, <2>1 DEF _write_seekable_v2, RangeInv, SealedRangeTypeOK, AnswerInv, ReaderInv,
         Asked, BodyIsWhatWasAnnounced, NotReading, NoAnswer
  <1>2. CASE _encrypt_payload
    <2>1. object.kept' \in Nat /\ written' \in Nat
      BY <1>2, SealedRangeAssumption
         DEF _encrypt_payload, RangeInv, SealedRangeTypeOK, Lengths
    <2> QED
      BY <1>2, <2>1 DEF _encrypt_payload, RangeInv, SealedRangeTypeOK, AnswerInv, ReaderInv,
         Asked, BodyIsWhatWasAnnounced, NotReading, NoAnswer
  <1>3. CASE save_file_from_path
    BY <1>3 DEF save_file_from_path, RangeInv, SealedRangeTypeOK, AnswerInv, ReaderInv,
       Asked, BodyIsWhatWasAnnounced, NotReading, NoAnswer
  <1>4. CASE Damage
    BY <1>4 DEF Damage, RangeInv, SealedRangeTypeOK, AnswerInv, ReaderInv,
       Asked, BodyIsWhatWasAnnounced, NotReading, NoAnswer
  <1>5. CASE get_item_media
    BY <1>5, AnnouncedInside DEF get_item_media
  <1>6. CASE serve_media_stream
    <2>1. PICK r \in Ranges : \E a \in {StreamSpan(r), Refused} : Announces(a)
      BY <1>6 DEF serve_media_stream
    <2> QED
      BY <2>1, AnnouncedInside
  <1>7. CASE read_seekable_range
    BY <1>7, StartsAtAChunk
  <1>8. CASE _read_seekable_chunks
    BY <1>8, ReadsOn
  <1>9. CASE _iter_media
    <2>1. Least(WantedEnd, object.length) - 1 = answer.end
      BY <1>9, SealedRangeAssumption
         DEF _iter_media, RangeInv, AnswerInv, SealedRangeTypeOK, Lengths, WantedEnd, Least
    <2> QED
      BY <1>9, <2>1 DEF _iter_media, RangeInv, SealedRangeTypeOK, AnswerInv, ReaderInv,
         Asked, BodyIsWhatWasAnnounced, NotReading, NoAnswer
  <1>10. CASE UNCHANGED rangeVars
    BY <1>10 DEF rangeVars, RangeInv, SealedRangeTypeOK, AnswerInv, ReaderInv, Asked,
       BodyIsWhatWasAnnounced, Stands, StoredChunk, ChunkAt, WantedEnd
  <1> QED
    BY <1>1, <1>2, <1>3, <1>4, <1>5, <1>6, <1>7, <1>8, <1>9, <1>10 DEF SealedRangeNext

(* Ranges come out exact: a body of either endpoint that ends without an      *)
(* error holds every byte of the range its headers announced, and no other.   *)
THEOREM RangesAreExact == SealedRangeSpec => []BodyIsWhatWasAnnounced
PROOF
  <1>1. RangeInv => BodyIsWhatWasAnnounced
    BY DEF RangeInv
  <1> QED
    BY InitIsUnasked, RangeStep, <1>1, PTL DEF SealedRangeSpec
=============================================================================

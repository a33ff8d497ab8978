--------------------------- MODULE ChunkerProofs ---------------------------
(* Theorems about Chunker, for all streams, gear tables and sizes.            *)
EXTENDS Chunker, SequenceTheorems, WellFoundedInduction, TLAPS

-----------------------------------------------------------------------------
(* The inductive invariant                                                   *)

\* The chunks end where the next begins, and hold that part of the stream.
End(c) == c.offset + Len(c.data)

Tiles ==
    /\ \A i \in 1..Len(chunks) :
          /\ chunks[i].data = SubSeq(stream, chunks[i].offset + 1, End(chunks[i]))
          /\ End(chunks[i]) = IF i = Len(chunks) THEN offset ELSE chunks[i + 1].offset
          /\ End(chunks[i]) <= offset
    /\ IF chunks = <<>> THEN offset = 0 ELSE chunks[1].offset = 0

\* The buffer is what has been read since the last chunk.
BufferIsNext ==
    /\ offset + Len(buf) = taken
    /\ buf = SubSeq(stream, offset + 1, taken)
    /\ err = "eof" => taken = Len(stream)
    /\ ended # "no" => buf = <<>> /\ ended = err

\* Before the stream ended every chunk was cut from a whole window.
CutFromWindow ==
    err = "none" => \A i \in 1..Len(chunks) : chunks[i].offset + MaxSize <= taken

\* A short chunk was cut when nothing was left to read, and is the last.
ShortIsLast ==
    \A i \in 1..Len(chunks) :
        /\ Len(chunks[i].data) \in 1..MaxSize
        /\ Len(chunks[i].data) <= MinSize => i = Len(chunks) /\ buf = <<>> /\ err # "none"

ChunkInv ==
    ChunkerTypeOK /\ Tiles /\ BufferIsNext /\ CutFromWindow /\ ShortIsLast /\ ContentDefined

-----------------------------------------------------------------------------
(* Parts of a sequence                                                       *)

LEMMA PartOf ==
    ASSUME NEW s \in Seq(Byte), NEW m \in Nat, NEW n \in 0..Len(s), m <= n
    PROVE  /\ SubSeq(s, m + 1, n) \in Seq(Byte)
           /\ Len(SubSeq(s, m + 1, n)) = n - m
           /\ \A i \in 1..(n - m) : SubSeq(s, m + 1, n)[i] = s[m + i]
BY SubSeqProperties

LEMMA FromPart ==
    ASSUME NEW s \in Seq(Byte), NEW m \in 0..Len(s)
    PROVE  /\ From(s, m) \in Seq(Byte) /\ Len(From(s, m)) = Len(s) - m
           /\ \A i \in 1..(Len(s) - m) : From(s, m)[i] = s[m + i]
BY PartOf DEF From

LEMMA SameSeq ==
    ASSUME NEW s \in Seq(Byte), NEW t \in Seq(Byte), Len(s) = Len(t),
           \A i \in 1..Len(s) : s[i] = t[i]
    PROVE  s = t
OBVIOUS

\* A read adds to the buffer what comes next in the stream.
LEMMA ReadAppends ==
    ASSUME NEW s \in Seq(Byte), NEW m \in Nat, NEW n \in 0..Len(s), NEW k \in n..Len(s), m <= n
    PROVE  SubSeq(s, m + 1, n) \o SubSeq(s, n + 1, k) = SubSeq(s, m + 1, k)
BY ConcatAdjacentSubSeq

\* A part of a part of a sequence is a part of the sequence.
LEMMA PartOfPart ==
    ASSUME NEW s \in Seq(Byte), NEW t \in Seq(Byte), NEW m \in Nat, NEW n \in 0..Len(s), m <= n,
           t = SubSeq(s, m + 1, n),
           NEW a \in 0..Len(t), NEW b \in a..Len(t)
    PROVE  SubSeq(t, a + 1, b) = SubSeq(s, (m + a) + 1, m + b)
<1>1. Len(t) = n - m /\ \A i \in 1..(n - m) : t[i] = s[m + i]
  BY PartOf
<1>2. a \in Nat /\ b \in 0..Len(t) /\ a <= b /\ m + a \in Nat /\ m + b \in 0..Len(s) /\ m + a <= m + b
  BY <1>1
<1> DEFINE u == SubSeq(t, a + 1, b)
           v == SubSeq(s, (m + a) + 1, m + b)
<1>3. u \in Seq(Byte) /\ Len(u) = b - a /\ \A i \in 1..(b - a) : u[i] = t[a + i]
  BY <1>2, PartOf
<1>4. v \in Seq(Byte) /\ Len(v) = (m + b) - (m + a)
      /\ \A i \in 1..((m + b) - (m + a)) : v[i] = s[(m + a) + i]
  BY <1>2, PartOf
<1>5. (m + b) - (m + a) = b - a
  BY <1>2
<1>6. ASSUME NEW i \in 1..(b - a) PROVE u[i] = v[i]
  <2>1. a + i \in 1..(n - m) /\ (m + a) + i = m + (a + i)
    BY <1>1, <1>2
  <2>2. u[i] = s[m + (a + i)]
    BY <1>1, <1>3, <2>1
  <2>3. v[i] = s[m + (a + i)]
    BY <1>4, <1>5, <2>1
  <2> QED
    BY <2>2, <2>3
<1> QED
  BY <1>3, <1>4, <1>5, <1>6, SameSeq

-----------------------------------------------------------------------------
(* Where to cut                                                              *)

LEMMA LeastOfTwo ==
    ASSUME NEW a \in Nat, NEW b \in Nat
    PROVE  /\ Least({a, b}) \in {a, b}
           /\ Least({a, b}) <= a /\ Least({a, b}) <= b
<1>1. \E x \in {a, b} : \A y \in {a, b} : x <= y
  OBVIOUS
<1> QED
  BY <1>1 DEF Least

LEMMA LeastOfMany ==
    ASSUME NEW S \in SUBSET Nat, S # {}
    PROVE  Least(S) \in S
<1>1. PICK x \in S : \A y \in S : <<y, x>> \notin OpToRel(<, Nat)
  BY NatLessThanWellFounded, WFMin
<1>2. \A y \in S : ~(y < x)
  BY <1>1 DEF OpToRel
<1>3. \E m \in S : \A y \in S : m <= y
  BY <1>2
<1> QED
  BY <1>3 DEF Least

\* A chunk has a byte and at most MaxSize, and a short one is all there is.
LEMMA BoundaryRange ==
    ASSUME NEW data \in Seq(Byte), data # <<>>
    PROVE  /\ Boundary(data) \in 1..Len(data)
           /\ Boundary(data) <= MaxSize
           /\ Boundary(data) <= MinSize => Boundary(data) = Len(data)
<1> DEFINE n == Least({Len(data), MaxSize})
           cuts == {l \in (MinSize + 1)..n : CutsAt(data, l)}
<1>1. Len(data) \in Nat \ {0} /\ MinSize \in Nat /\ MaxSize \in Nat /\ 0 < MinSize /\ MinSize < MaxSize
  BY ConfigAssumption
<1>2. n \in {Len(data), MaxSize} /\ n <= Len(data) /\ n <= MaxSize
  BY <1>1, LeastOfTwo
<1>3. n \in Nat
  BY <1>1, <1>2
<1>4. CASE cuts = {}
  <2>1. Boundary(data) = n
    BY <1>4 DEF Boundary
  <2> QED
    BY <1>1, <1>2, <1>3, <2>1
<1>5. CASE cuts # {}
  <2>1. Boundary(data) = Least(cuts)
    BY <1>5 DEF Boundary
  <2>2. cuts \in SUBSET Nat
    BY <1>1, <1>3
  <2>3. Least(cuts) \in cuts
    BY <1>5, <2>2, LeastOfMany
  <2>4. Boundary(data) \in (MinSize + 1)..n
    BY <2>1, <2>3
  <2> QED
    BY <1>1, <1>2, <1>3, <2>4
<1> QED
  BY <1>4, <1>5

\* Only the first MaxSize bytes matter.
LEMMA BoundaryIsLocal ==
    ASSUME NEW s \in Seq(Byte), NEW t \in Seq(Byte), Len(s) >= MaxSize, Len(t) >= MaxSize,
           \A i \in 1..MaxSize : s[i] = t[i]
    PROVE  Boundary(s) = Boundary(t)
<1>1. MinSize \in Nat /\ MaxSize \in Nat /\ Len(s) \in Nat /\ Len(t) \in Nat
  BY ConfigAssumption
<1>2. Least({Len(s), MaxSize}) = MaxSize /\ Least({Len(t), MaxSize}) = MaxSize
  <2>1. Least({Len(s), MaxSize}) \in {Len(s), MaxSize} /\ Least({Len(s), MaxSize}) <= MaxSize
    BY <1>1, LeastOfTwo
  <2>2. Least({Len(t), MaxSize}) \in {Len(t), MaxSize} /\ Least({Len(t), MaxSize}) <= MaxSize
    BY <1>1, LeastOfTwo
  <2> QED
    BY <1>1, <2>1, <2>2
<1>3. ASSUME NEW l \in (MinSize + 1)..MaxSize PROVE CutsAt(s, l) = CutsAt(t, l)
  <2>1. SubSeq(s, MinSize + 1, l) \in Seq(Byte) /\ Len(SubSeq(s, MinSize + 1, l)) = l - MinSize
        /\ \A i \in 1..(l - MinSize) : SubSeq(s, MinSize + 1, l)[i] = s[MinSize + i]
    BY <1>1, PartOf
  <2>2. SubSeq(t, MinSize + 1, l) \in Seq(Byte) /\ Len(SubSeq(t, MinSize + 1, l)) = l - MinSize
        /\ \A i \in 1..(l - MinSize) : SubSeq(t, MinSize + 1, l)[i] = t[MinSize + i]
    BY <1>1, PartOf
  <2>3. SubSeq(s, MinSize + 1, l) = SubSeq(t, MinSize + 1, l)
    <3>1. \A i \in 1..(l - MinSize) : s[MinSize + i] = t[MinSize + i]
      BY <1>1
    <3>2. \A i \in 1..(l - MinSize) : SubSeq(s, MinSize + 1, l)[i] = SubSeq(t, MinSize + 1, l)[i]
      BY <2>1, <2>2, <3>1
    <3> QED
      BY <2>1, <2>2, <3>2, SameSeq
  <2> QED
    BY <2>3 DEF CutsAt
<1> DEFINE cuts(data) == {l \in (MinSize + 1)..MaxSize : CutsAt(data, l)}
<1>4. cuts(s) = cuts(t)
  BY <1>3
<1> QED
  BY <1>2, <1>4 DEF Boundary

-----------------------------------------------------------------------------
(* The steps                                                                 *)

LEMMA ChunkInit == Init => ChunkInv
<1> SUFFICES ASSUME Init PROVE ChunkInv
  OBVIOUS
<1>1. stream \in Seq(Byte) /\ Len(stream) \in Nat
  BY StreamsAssumption DEF Init
<1>2. Len(buf) = 0 /\ Len(chunks) = 0 /\ taken = 0 /\ offset = 0 /\ err = "none" /\ ended = "no"
  BY DEF Init
<1>3. buf = SubSeq(stream, 1, 0)
  BY SubSeqEmpty DEF Init
<1>4. 1..Len(chunks) = {}
  BY <1>2
<1>5. ChunkerTypeOK
  BY <1>1, <1>2, ConfigAssumption DEF Init, ChunkerTypeOK
<1> QED
  BY <1>2, <1>3, <1>4, <1>5
  DEF Init, ChunkInv, Tiles, BufferIsNext, CutFromWindow, ShortIsLast, ContentDefined

\* What the types give for arithmetic.
LEMMA Sizes ==
    ASSUME ChunkerTypeOK
    PROVE  /\ MinSize \in Nat /\ MaxSize \in Nat /\ 0 < MinSize /\ MinSize < MaxSize
           /\ Len(stream) \in Nat /\ Len(buf) \in Nat /\ Len(chunks) \in Nat
           /\ taken \in Nat /\ taken <= Len(stream) /\ offset \in Nat
           /\ \A i \in 1..Len(chunks) :
                 /\ chunks[i].offset \in Nat /\ chunks[i].data \in Seq(Byte)
                 /\ Len(chunks[i].data) \in Nat
<1>1. MinSize \in Nat /\ MaxSize \in Nat /\ 0 < MinSize /\ MinSize < MaxSize
  BY ConfigAssumption
<1>2. stream \in Seq(Byte) /\ buf \in Seq(Byte) /\ chunks \in Seq([offset : Nat, data : Seq(Byte)])
      /\ taken \in 0..Len(stream) /\ offset \in Nat
  BY DEF ChunkerTypeOK
<1>3. Len(stream) \in Nat /\ Len(buf) \in Nat /\ Len(chunks) \in Nat
  BY <1>2
<1>4. ASSUME NEW i \in 1..Len(chunks)
      PROVE  chunks[i].offset \in Nat /\ chunks[i].data \in Seq(Byte) /\ Len(chunks[i].data) \in Nat
  <2>1. chunks[i] \in [offset : Nat, data : Seq(Byte)]
    BY <1>2, ElementOfSeq
  <2>2. chunks[i].offset \in Nat /\ chunks[i].data \in Seq(Byte)
    BY <2>1
  <2> QED
    BY <2>2
<1> QED
  BY <1>1, <1>2, <1>3, <1>4

\* A window of what is read is cut like the stream, whatever comes behind it.
LEMMA WindowSuffices ==
    ASSUME NEW s \in Seq(Byte), NEW t \in Seq(Byte), Len(t) <= Len(s),
           \A i \in 1..Len(t) : t[i] = s[i],
           NEW o \in Nat, o + MaxSize <= Len(t)
    PROVE  Boundary(From(t, o)) = Boundary(From(s, o))
<1>1. MaxSize \in Nat /\ Len(s) \in Nat /\ Len(t) \in Nat
  BY ConfigAssumption
<1>2. o \in 0..Len(t) /\ o \in 0..Len(s)
  BY <1>1
<1>3. From(t, o) \in Seq(Byte) /\ Len(From(t, o)) = Len(t) - o
      /\ \A i \in 1..(Len(t) - o) : From(t, o)[i] = t[o + i]
  BY <1>2, FromPart
<1>4. From(s, o) \in Seq(Byte) /\ Len(From(s, o)) = Len(s) - o
      /\ \A i \in 1..(Len(s) - o) : From(s, o)[i] = s[o + i]
  BY <1>2, FromPart
<1>5. ASSUME NEW i \in 1..MaxSize PROVE From(t, o)[i] = From(s, o)[i]
  <2>1. i \in 1..(Len(t) - o) /\ i \in 1..(Len(s) - o) /\ o + i \in 1..Len(t)
    BY <1>1
  <2> QED
    BY <1>3, <1>4, <2>1
<1>6. Len(From(t, o)) >= MaxSize /\ Len(From(s, o)) >= MaxSize
  BY <1>1, <1>3, <1>4
<1> QED
  BY <1>3, <1>4, <1>5, <1>6, BoundaryIsLocal

\* What is left of a stream whose reader has failed.
LEMMA PrefixOf ==
    ASSUME NEW s \in Seq(Byte), NEW n \in 0..Len(s)
    PROVE  /\ SubSeq(s, 1, n) \in Seq(Byte) /\ Len(SubSeq(s, 1, n)) = n
           /\ \A i \in 1..n : SubSeq(s, 1, n)[i] = s[i]
BY SubSeqProperties

LEMMA ReadStep ==
    ASSUME ChunkInv, Read
    PROVE  ChunkInv'
<1>0. PICK n \in 0..Least({Room, Len(stream) - taken}) :
         err' \in Outcomes(n) /\ taken' = taken + n
         /\ buf' = buf \o SubSeq(stream, taken + 1, taken + n)
  BY DEF Read
<1>1. /\ stream' = stream /\ offset' = offset /\ chunks' = chunks /\ ended' = ended
      /\ ended = "no" /\ err = "none" /\ Len(buf) < MaxSize
  BY DEF Read, Filling
<1>2. ChunkerTypeOK
  BY DEF ChunkInv
<1>3. /\ MaxSize \in Nat /\ Len(stream) \in Nat /\ Len(buf) \in Nat /\ Len(chunks) \in Nat
      /\ taken \in Nat /\ taken <= Len(stream) /\ offset \in Nat
      /\ \A i \in 1..Len(chunks) : chunks[i].offset \in Nat
  BY <1>2, Sizes
<1>4. stream \in Seq(Byte) /\ buf \in Seq(Byte)
  BY <1>2 DEF ChunkerTypeOK
<1>5. Room \in Nat /\ Room = 2 * MaxSize - Len(buf) /\ Len(stream) - taken \in Nat
  BY <1>1, <1>3 DEF Room
<1>6. n \in Nat /\ n <= Room /\ n <= Len(stream) - taken
  BY <1>0, <1>5, LeastOfTwo
<1>7. taken + n \in 0..Len(stream)
  BY <1>3, <1>6
<1>8. SubSeq(stream, taken + 1, taken + n) \in Seq(Byte)
      /\ Len(SubSeq(stream, taken + 1, taken + n)) = n
  <2>1. taken <= taken + n
    BY <1>3, <1>6
  <2>2. (taken + n) - taken = n
    BY <1>3, <1>6
  <2> QED
    BY <1>3, <1>4, <1>7, <2>1, <2>2, PartOf
<1>9. buf' \in Seq(Byte) /\ Len(buf') = Len(buf) + n
  BY <1>0, <1>4, <1>8
<1>10. err' \in {"none", "eof", "failed"} /\ (err' = "eof" => taken' = Len(stream))
  BY <1>0 DEF Outcomes
<1>11. ChunkerTypeOK'
  <2>1. Len(buf') <= 2 * MaxSize
    BY <1>3, <1>5, <1>6, <1>9
  <2> QED
    BY <1>0, <1>1, <1>2, <1>7, <1>9, <1>10, <2>1 DEF ChunkerTypeOK
<1>12. BufferIsNext'
  <2>1. offset + Len(buf) = taken /\ buf = SubSeq(stream, offset + 1, taken)
    BY DEF ChunkInv, BufferIsNext
  <2>2. taken \in 0..Len(stream) /\ taken + n \in taken..Len(stream) /\ offset <= taken
    BY <1>3, <1>6, <2>1
  <2>3. buf \o SubSeq(stream, taken + 1, taken + n) = SubSeq(stream, offset + 1, taken + n)
    BY <1>3, <1>4, <2>1, <2>2, ReadAppends
  <2>4. buf' = SubSeq(stream', offset' + 1, taken')
    BY <1>0, <1>1, <2>3
  <2>5. offset' + Len(buf') = taken'
    BY <1>0, <1>1, <1>3, <1>6, <1>9, <2>1
  <2> QED
    BY <1>1, <1>10, <2>4, <2>5 DEF BufferIsNext
<1>13. Tiles'
  BY <1>1 DEF ChunkInv, Tiles, End
<1>14. \A i \in 1..Len(chunks) : chunks[i].offset + MaxSize <= taken + n
  <2>1. \A i \in 1..Len(chunks) : chunks[i].offset + MaxSize <= taken
    BY <1>1 DEF ChunkInv, CutFromWindow
  <2> QED
    BY <1>3, <1>6, <2>1
<1>15. CutFromWindow'
  BY <1>0, <1>1, <1>14 DEF CutFromWindow
<1>16. ShortIsLast'
  BY <1>1, ConfigAssumption DEF ChunkInv, ShortIsLast
<1>17. ContentDefined'
  <2> SUFFICES ASSUME NEW i \in 1..Len(chunks)
               PROVE  Len(chunks[i].data) = Boundary(From(Input', chunks[i].offset))
    BY <1>1 DEF ContentDefined
  <2>1. Len(chunks[i].data) = Boundary(From(stream, chunks[i].offset))
    BY <1>1 DEF ChunkInv, ContentDefined, Input
  <2>2. CASE err' # "failed"
    BY <1>1, <2>1, <2>2 DEF Input
  <2>3. CASE err' = "failed"
    <3> DEFINE t == SubSeq(stream, 1, taken + n)
    <3>1. Input' = t
      BY <1>0, <1>1, <2>3 DEF Input
    <3>2. chunks[i].offset \in Nat /\ chunks[i].offset + MaxSize <= taken + n
      BY <1>3, <1>14
    <3>3. t \in Seq(Byte) /\ Len(t) = taken + n /\ \A j \in 1..(taken + n) : t[j] = stream[j]
      BY <1>4, <1>7, PrefixOf
    <3>4. Len(t) <= Len(stream)
      BY <1>7, <3>3
    <3> HIDE DEF t
    <3>5. Boundary(From(t, chunks[i].offset)) = Boundary(From(stream, chunks[i].offset))
      BY <1>4, <3>2, <3>3, <3>4, WindowSuffices
    <3> QED
      BY <2>1, <3>1, <3>5
  <2> QED
    BY <2>2, <2>3
<1> QED
  BY <1>11, <1>12, <1>13, <1>15, <1>16, <1>17 DEF ChunkInv

\* The buffer is cut where the stream is.
LEMMA CutIsContentDefined ==
    ASSUME ChunkInv, ~Filling, buf # <<>>
    PROVE  Boundary(buf) = Boundary(From(Input, offset))
<1>1. ChunkerTypeOK /\ offset + Len(buf) = taken /\ buf = SubSeq(stream, offset + 1, taken)
      /\ (err = "eof" => taken = Len(stream))
  BY DEF ChunkInv, BufferIsNext
<1>2. /\ MaxSize \in Nat /\ Len(stream) \in Nat /\ Len(buf) \in Nat
      /\ taken \in Nat /\ taken <= Len(stream) /\ offset \in Nat
  BY <1>1, Sizes
<1>3. stream \in Seq(Byte) /\ buf \in Seq(Byte) /\ err \in {"none", "eof", "failed"}
  BY <1>1 DEF ChunkerTypeOK
<1>4. taken \in 0..Len(stream) /\ offset <= taken /\ taken - offset = Len(buf)
  BY <1>1, <1>2
<1>5. \A i \in 1..Len(buf) : buf[i] = stream[offset + i]
  BY <1>1, <1>2, <1>3, <1>4, PartOf
<1>6. CASE err = "none"
  <2>1. Len(buf) >= MaxSize
    BY <1>2, <1>6 DEF Filling
  <2>2. offset \in 0..Len(stream)
    BY <1>2, <1>4
  <2>3. From(stream, offset) \in Seq(Byte) /\ Len(From(stream, offset)) = Len(stream) - offset
        /\ \A i \in 1..(Len(stream) - offset) : From(stream, offset)[i] = stream[offset + i]
    BY <1>3, <2>2, FromPart
  <2>4. Len(From(stream, offset)) >= MaxSize
    BY <1>2, <1>4, <2>1, <2>3
  <2>5. ASSUME NEW i \in 1..MaxSize PROVE buf[i] = From(stream, offset)[i]
    <3>1. i \in 1..Len(buf) /\ i \in 1..(Len(stream) - offset)
      BY <1>2, <1>4, <2>1
    <3> QED
      BY <1>5, <2>3, <3>1
  <2>6. Boundary(buf) = Boundary(From(stream, offset))
    BY <1>3, <2>1, <2>3, <2>4, <2>5, BoundaryIsLocal
  <2> QED
    BY <1>6, <2>6 DEF Input
<1>7. CASE err = "eof"
  BY <1>1, <1>7 DEF Input, From
<1>8. CASE err = "failed"
  <2> DEFINE t == SubSeq(stream, 1, taken)
  <2>1. Input = t
    BY <1>8 DEF Input
  <2>2. t \in Seq(Byte) /\ Len(t) = taken /\ \A i \in 1..taken : t[i] = stream[i]
    BY <1>3, <1>4, PrefixOf
  <2> HIDE DEF t
  <2>3. offset \in 0..Len(t)
    BY <1>2, <1>4, <2>2
  <2>4. From(t, offset) \in Seq(Byte) /\ Len(From(t, offset)) = Len(t) - offset
        /\ \A i \in 1..(Len(t) - offset) : From(t, offset)[i] = t[offset + i]
    BY <2>2, <2>3, FromPart
  <2>5. Len(From(t, offset)) = Len(buf)
    BY <1>4, <2>2, <2>4
  <2>6. ASSUME NEW i \in 1..Len(buf) PROVE buf[i] = From(t, offset)[i]
    <3>1. i \in 1..(Len(t) - offset) /\ offset + i \in 1..taken
      BY <1>2, <1>4, <2>2
    <3> QED
      BY <1>5, <2>2, <2>4, <3>1
  <2>7. buf = From(t, offset)
    BY <1>3, <2>4, <2>5, <2>6, SameSeq
  <2> QED
    BY <2>1, <2>7
<1> QED
  BY <1>3, <1>6, <1>7, <1>8

LEMMA ChunkStep ==
    ASSUME ChunkInv, ReturnChunk
    PROVE  ChunkInv'
<1> DEFINE m == Boundary(buf)
           c == [offset |-> offset, data |-> SubSeq(buf, 1, m)]
           k == Len(chunks)
<1>1. /\ chunks' = Append(chunks, c) /\ buf' = SubSeq(buf, m + 1, Len(buf)) /\ offset' = offset + m
      /\ stream' = stream /\ taken' = taken /\ err' = err /\ ended' = ended
      /\ ended = "no" /\ ~Filling /\ buf # <<>>
  BY DEF ReturnChunk, reader
<1>2. ChunkerTypeOK /\ offset + Len(buf) = taken /\ buf = SubSeq(stream, offset + 1, taken)
  BY DEF ChunkInv, BufferIsNext
<1>3. /\ MinSize \in Nat /\ MaxSize \in Nat /\ 0 < MinSize /\ MinSize < MaxSize
      /\ Len(stream) \in Nat /\ Len(buf) \in Nat /\ Len(chunks) \in Nat
      /\ taken \in Nat /\ taken <= Len(stream) /\ offset \in Nat
      /\ \A i \in 1..Len(chunks) :
            chunks[i].offset \in Nat /\ chunks[i].data \in Seq(Byte) /\ Len(chunks[i].data) \in Nat
  BY <1>2, Sizes
<1>4. stream \in Seq(Byte) /\ buf \in Seq(Byte) /\ chunks \in Seq([offset : Nat, data : Seq(Byte)])
  BY <1>2 DEF ChunkerTypeOK
<1>5. m \in 1..Len(buf) /\ m <= MaxSize /\ (m <= MinSize => m = Len(buf))
  BY <1>1, <1>4, BoundaryRange
<1>6. m = Boundary(From(Input, offset))
  BY <1>1, CutIsContentDefined
<1> HIDE DEF m
<1>7. m \in Nat /\ 0 < m /\ m <= Len(buf)
  BY <1>3, <1>5
<1>8. SubSeq(buf, 1, m) \in Seq(Byte) /\ Len(SubSeq(buf, 1, m)) = m
  BY <1>3, <1>4, <1>7, PrefixOf
<1>9. c \in [offset : Nat, data : Seq(Byte)] /\ c.offset = offset /\ c.data = SubSeq(buf, 1, m)
      /\ Len(c.data) = m /\ End(c) = offset + m
  BY <1>3, <1>8 DEF End
<1>10. SubSeq(buf, 1, m) = SubSeq(stream, offset + 1, offset + m)
  <2>1. SubSeq(buf, 0 + 1, m) = SubSeq(stream, (offset + 0) + 1, offset + m)
    <3>1. taken \in 0..Len(stream) /\ offset <= taken /\ 0 \in 0..Len(buf) /\ m \in 0..Len(buf)
      BY <1>2, <1>3, <1>7
    <3> QED
      BY <1>2, <1>3, <1>4, <3>1, PartOfPart
  <2>2. 0 + 1 = 1 /\ (offset + 0) + 1 = offset + 1
    BY <1>3
  <2> QED
    BY <2>1, <2>2
<1>11. buf' = SubSeq(stream, (offset + m) + 1, taken)
  <2>1. taken \in 0..Len(stream) /\ offset <= taken /\ m \in 0..Len(buf) /\ Len(buf) \in m..Len(buf)
    BY <1>2, <1>3, <1>7
  <2>2. SubSeq(buf, m + 1, Len(buf)) = SubSeq(stream, (offset + m) + 1, offset + Len(buf))
    BY <1>2, <1>3, <1>4, <2>1, PartOfPart
  <2> QED
    BY <1>1, <1>2, <2>2
<1>12. buf' \in Seq(Byte) /\ Len(buf') = Len(buf) - m
  <2>1. Len(buf) \in 0..Len(buf)
    BY <1>3
  <2> QED
    BY <1>1, <1>4, <1>7, <2>1, PartOf
<1> HIDE DEF c
<1>13. chunks' \in Seq([offset : Nat, data : Seq(Byte)]) /\ Len(chunks') = k + 1
       /\ chunks'[k + 1] = c /\ \A i \in 1..k : chunks'[i] = chunks[i]
  BY <1>1, <1>4, <1>9, AppendProperties
<1>14. \A i \in 1..Len(chunks') : i \in 1..k \/ i = k + 1
  BY <1>3, <1>13
<1>15. ChunkerTypeOK'
  <2>1. offset' \in Nat /\ Len(buf') <= 2 * MaxSize
    <3>1. Len(buf) <= 2 * MaxSize
      BY <1>2 DEF ChunkerTypeOK
    <3> QED
      BY <1>1, <1>3, <1>7, <1>12, <3>1
  <2> QED
    BY <1>1, <1>2, <1>12, <1>13, <2>1 DEF ChunkerTypeOK
<1>16. Tiles'
  <2>1. \A i \in 1..k :
           /\ chunks[i].data = SubSeq(stream, chunks[i].offset + 1, End(chunks[i]))
           /\ End(chunks[i]) = IF i = k THEN offset ELSE chunks[i + 1].offset
           /\ End(chunks[i]) <= offset
    BY DEF ChunkInv, Tiles
  <2>2. ASSUME NEW i \in 1..k
        PROVE  /\ chunks'[i].data = SubSeq(stream', chunks'[i].offset + 1, End(chunks'[i]))
               /\ End(chunks'[i]) = IF i = Len(chunks') THEN offset' ELSE chunks'[i + 1].offset
               /\ End(chunks'[i]) <= offset'
    <3>1. chunks'[i] = chunks[i] /\ i # Len(chunks') /\ (i # k => i + 1 \in 1..k)
      BY <1>3, <1>13
    <3>2. chunks'[i + 1].offset = IF i = k THEN offset ELSE chunks[i + 1].offset
      BY <1>9, <1>13, <3>1
    <3>3. End(chunks[i]) \in Nat
      BY <1>3 DEF End
    <3>4. End(chunks[i]) <= offset + m
      BY <1>3, <1>7, <2>1, <3>3
    <3> QED
      BY <1>1, <2>1, <3>1, <3>2, <3>4
  <2>3. /\ c.data = SubSeq(stream', c.offset + 1, End(c))
        /\ End(c) = offset' /\ End(c) <= offset'
    BY <1>1, <1>3, <1>7, <1>9, <1>10
  <2>4. ASSUME NEW i \in 1..Len(chunks')
        PROVE  /\ chunks'[i].data = SubSeq(stream', chunks'[i].offset + 1, End(chunks'[i]))
               /\ End(chunks'[i]) = IF i = Len(chunks') THEN offset' ELSE chunks'[i + 1].offset
               /\ End(chunks'[i]) <= offset'
    <3>1. CASE i \in 1..k
      BY <2>2, <3>1
    <3>2. CASE i = k + 1
      BY <1>13, <2>3, <3>2
    <3> QED
      BY <1>14, <3>1, <3>2
  <2>5. chunks'[1].offset = 0
    <3>1. CASE k = 0
      <4>1. offset = 0
        BY <3>1 DEF ChunkInv, Tiles
      <4> QED
        BY <1>9, <1>13, <3>1, <4>1
    <3>2. CASE k # 0
      <4>1. 1 \in 1..k /\ chunks # <<>>
        BY <1>3, <3>2
      <4> QED
        BY <1>13, <4>1 DEF ChunkInv, Tiles
    <3> QED
      BY <3>1, <3>2
  <2>6. chunks' # <<>>
    BY <1>3, <1>13, EmptySeq
  <2> QED
    BY <2>4, <2>5, <2>6 DEF Tiles, End
<1>17. BufferIsNext'
  <2>1. offset' + Len(buf') = taken'
    BY <1>1, <1>2, <1>3, <1>7, <1>12
  <2> QED
    BY <1>1, <1>11, <2>1 DEF ChunkInv, BufferIsNext
<1>18. CutFromWindow'
  <2> SUFFICES ASSUME err = "none", NEW i \in 1..Len(chunks')
               PROVE  chunks'[i].offset + MaxSize <= taken
    BY <1>1 DEF CutFromWindow
  <2>1. offset + MaxSize <= taken
    BY <1>1, <1>2, <1>3 DEF Filling
  <2>2. \A j \in 1..k : chunks[j].offset + MaxSize <= taken
    BY DEF ChunkInv, CutFromWindow
  <2> QED
    BY <1>9, <1>13, <1>14, <2>1, <2>2
<1>19. ShortIsLast'
  <2> SUFFICES ASSUME NEW i \in 1..Len(chunks')
               PROVE  /\ Len(chunks'[i].data) \in 1..MaxSize
                      /\ Len(chunks'[i].data) <= MinSize =>
                            i = Len(chunks') /\ buf' = <<>> /\ err' # "none"
    BY DEF ShortIsLast
  <2>1. CASE i \in 1..k
    BY <1>1, <1>13, <2>1 DEF ChunkInv, ShortIsLast
  <2>2. CASE i = k + 1
    <3>1. Len(c.data) \in 1..MaxSize
      BY <1>3, <1>5, <1>9
    <3>2. m <= MinSize => Len(buf') = 0
      BY <1>3, <1>5, <1>7, <1>12
    <3>3. m <= MinSize => buf' = <<>>
      BY <1>12, <3>2, EmptySeq
    <3>4. m <= MinSize => err # "none"
      BY <1>1, <1>3, <1>5 DEF Filling
    <3> QED
      BY <1>1, <1>9, <1>13, <2>2, <3>1, <3>3, <3>4
  <2> QED
    BY <1>14, <2>1, <2>2
<1>20. ContentDefined'
  <2>1. Input' = Input
    BY <1>1 DEF Input
  <2>2. ASSUME NEW i \in 1..Len(chunks')
        PROVE  Len(chunks'[i].data) = Boundary(From(Input, chunks'[i].offset))
    <3>1. CASE i \in 1..k
      BY <1>13, <3>1 DEF ChunkInv, ContentDefined
    <3>2. CASE i = k + 1
      BY <1>6, <1>9, <1>13, <3>2
    <3> QED
      BY <1>14, <3>1, <3>2
  <2> QED
    BY <2>1, <2>2 DEF ContentDefined
<1> QED
  BY <1>15, <1>16, <1>17, <1>18, <1>19, <1>20 DEF ChunkInv

LEMMA EndStep ==
    ASSUME ChunkInv, ReturnEnd
    PROVE  ChunkInv'
<1>1. UNCHANGED <<stream, taken, buf, err, offset, chunks>>
      /\ buf = <<>> /\ ended' = err /\ (Len(buf) >= MaxSize \/ err # "none")
  BY ConfigAssumption DEF ReturnEnd, reader, Filling, ChunkInv, ChunkerTypeOK
<1>2. err # "none"
  BY <1>1, ConfigAssumption
<1>3. ChunkerTypeOK'
  BY <1>1, <1>2 DEF ChunkInv, ChunkerTypeOK
<1> QED
  BY <1>1, <1>3
  DEF ChunkInv, Tiles, End, BufferIsNext, CutFromWindow, ShortIsLast, ContentDefined, Input

-----------------------------------------------------------------------------
(* The theorems                                                              *)

LEMMA ChunkKept ==
    ASSUME ChunkInv, [Next]_chunker
    PROVE  ChunkInv'
<1>1. CASE Read
  BY <1>1, ReadStep
<1>2. CASE ReturnChunk
  BY <1>2, ChunkStep
<1>3. CASE ReturnEnd
  BY <1>3, EndStep
<1>4. CASE UNCHANGED chunker
  BY <1>4 DEF chunker, reader, ChunkInv, ChunkerTypeOK, Tiles, End, BufferIsNext,
              CutFromWindow, ShortIsLast, ContentDefined, Input
<1> QED
  BY <1>1, <1>2, <1>3, <1>4 DEF Next

LEMMA ChunkAlways == Spec => []ChunkInv
<1>1. ChunkInv /\ [Next]_chunker => ChunkInv'
  BY ChunkKept
<1> QED
  BY <1>1, ChunkInit, PTL DEF Spec

LEMMA ChunksAre == ChunkInv => ChunkerTypeOK /\ EveryByteOnce /\ SizesBounded /\ ContentDefined
<1> SUFFICES ASSUME ChunkInv PROVE EveryByteOnce /\ SizesBounded
  BY DEF ChunkInv
<1>1. EveryByteOnce
  <2>1. ended = "eof" => offset = Len(stream)
    <3> SUFFICES ASSUME ended = "eof" PROVE offset = Len(stream)
      OBVIOUS
    <3>1. buf = <<>> /\ taken = Len(stream) /\ offset + Len(buf) = taken
      BY DEF ChunkInv, BufferIsNext
    <3>2. Len(buf) = 0 /\ offset \in Nat
      BY <3>1, EmptySeq DEF ChunkInv, ChunkerTypeOK
    <3> QED
      BY <3>1, <3>2
  <2> QED
    BY <2>1 DEF ChunkInv, Tiles, End, EveryByteOnce
<1>2. SizesBounded
  <2> SUFFICES ASSUME NEW i \in 1..Len(chunks)
               PROVE  /\ Len(chunks[i].data) \in 1..MaxSize
                      /\ i < Len(chunks) => Len(chunks[i].data) > MinSize
    BY DEF SizesBounded
  <2>1. /\ Len(chunks[i].data) \in 1..MaxSize
        /\ Len(chunks[i].data) <= MinSize => i = Len(chunks)
    BY DEF ChunkInv, ShortIsLast
  <2>2. MinSize \in Nat /\ Len(chunks) \in Nat /\ Len(chunks[i].data) \in Nat
    BY Sizes DEF ChunkInv
  <2> QED
    BY <2>1, <2>2
<1> QED
  BY <1>1, <1>2

\* Every variable of a chunker keeps its type; its buffer never overflows
\* (the slices of chunker.go's fill and Next stay within the array).
THEOREM TypeCorrect == Spec => []ChunkerTypeOK
BY ChunksAre, ChunkAlways, PTL

\* However the reader divides the stream and wherever it ends or fails, the
\* chunks that Next returns are the stream, each byte once and in order.
THEOREM NoByteLostOrRepeated == Spec => []EveryByteOnce
BY ChunksAre, ChunkAlways, PTL

\* Next returns no empty chunk and none above MaxSize, and none of MinSize or
\* less but the last.
THEOREM ChunkSizes == Spec => []SizesBounded
BY ChunksAre, ChunkAlways, PTL

\* Next cuts the same content at the same place, whatever the reads returned and
\* wherever the content is in its stream.
THEOREM CutsByContent == Spec => []ContentDefined
BY ChunksAre, ChunkAlways, PTL
=============================================================================

------------------------------ MODULE Chunker ------------------------------
(***************************************************************************)
(* One chunker.Chunker: a reader is cut into chunks where a rolling hash   *)
(* of the content says so (internal/chunker).  A read may return any part  *)
(* of what is left, with or without the end of the stream or an error.     *)
(***************************************************************************)
EXTENDS Integers, Sequences

CONSTANTS
    Byte,           \* the bytes
    Streams,        \* what may be read: sequences of bytes
    Gear,           \* gearTable
    MaskLo, MaskHi, \* the first and last bit of the hash that a mask may test
    MinSize, AvgSize, MaxSize, Normalization,   \* Config
    ReadFails       \* may a read fail?

ASSUME StreamsAssumption == Streams \subseteq Seq(Byte)
ASSUME GearAssumption == Gear \in [Byte -> Nat]
ASSUME MaskAssumption == MaskLo \in Nat /\ MaskHi \in Nat /\ MaskLo < MaskHi

\* Config.Validate.
ASSUME ConfigAssumption ==
    /\ MinSize \in Nat /\ AvgSize \in Nat /\ MaxSize \in Nat
    /\ 0 < MinSize /\ MinSize < AvgSize /\ AvgSize <= MaxSize
    /\ Normalization \in 0..3
    /\ \E k \in 0..AvgSize : 2^k = AvgSize
ASSUME ReadFailsAssumption == ReadFails \in BOOLEAN

VARIABLES
    stream,     \* what the reader has to give
    taken,      \* how much of it has been read
    buf,        \* buf[pos:end], what is read and not yet in a chunk
    err,        \* c.err: "none", "eof" or "failed"
    offset,     \* c.offset
    chunks,     \* the chunks Next has returned
    ended       \* what Next has returned last: "no", "eof" or "failed"

reader == <<stream, taken>>
chunker == <<reader, buf, err, offset, chunks, ended>>

Init ==
    /\ stream \in Streams /\ taken = 0
    /\ buf = <<>> /\ err = "none" /\ offset = 0
    /\ chunks = <<>> /\ ended = "no"

-----------------------------------------------------------------------------
(* Where to cut                                                            *)

Least(S) == CHOOSE x \in S : \A y \in S : x <= y

TargetBits == CHOOSE k \in 0..AvgSize : 2^k = AvgSize
StrictBits == Least({TargetBits + Normalization, MaskHi - MaskLo + 1})
LooseBits == IF TargetBits - Normalization < 1 THEN 1 ELSE TargetBits - Normalization

\* spreadMask: the bits a mask tests, for at least one bit.
SpreadMask(nbits) ==
    IF nbits = 1 THEN {MaskLo}
    ELSE {MaskLo + (i * (MaskHi - MaskLo)) \div (nbits - 1) : i \in 0..(nbits - 1)}

Hash(data) ==
    LET h[i \in 0..Len(data)] ==
            IF i = 0 THEN 0 ELSE (2 * h[i - 1] + Gear[data[i]]) % 2^(MaskHi + 1)
    IN  h[Len(data)]

\* h & mask == 0
Hits(data, mask) == \A bit \in mask : (Hash(data) \div 2^bit) % 2 = 0

\* The first MinSize bytes are not hashed.  The mask is strict up to AvgSize.
CutsAt(data, l) ==
    Hits(SubSeq(data, MinSize + 1, l), SpreadMask(IF l <= AvgSize THEN StrictBits ELSE LooseBits))

\* Mutant: the hard cap is forgotten.
BoundaryUncapped(data) ==
    LET cuts == {l \in (MinSize + 1)..Len(data) : CutsAt(data, l)}
    IN  IF cuts = {} THEN Len(data) ELSE Least(cuts)

Boundary(data) ==
    LET n == Least({Len(data), MaxSize})
        cuts == {l \in (MinSize + 1)..n : CutsAt(data, l)}
    IN  IF cuts = {} THEN n ELSE Least(cuts)

-----------------------------------------------------------------------------
(* Next                                                                    *)

\* Mutant: one read is enough, however little it gives.
FillingOnce == buf = <<>> /\ err = "none"

\* fill goes on until there is a whole window to scan, or nothing more to read.
Filling == Len(buf) < MaxSize /\ err = "none"

\* Mutant: what is left in the buffer is not moved to its front.
RoomForAll == 2 * MaxSize

\* The room in the buffer behind what is left in it.
Room == 2 * MaxSize - Len(buf)

\* What a read of n bytes may say: the end of the stream comes with the last
\* bytes or after them, an error with any, and nothing at all does not happen.
Outcomes(n) ==
    (IF n > 0 THEN {"none"} ELSE {})
    \cup (IF taken + n = Len(stream) THEN {"eof"} ELSE {})
    \cup (IF ReadFails THEN {"failed"} ELSE {})

\* Mutant: what is returned beside an error is dropped.
ReadDroppingTail ==
    /\ ended = "no" /\ Filling
    /\ \E n \in 0..Least({Room, Len(stream) - taken}) :
          /\ err' \in Outcomes(n)
          /\ taken' = taken + n
          /\ buf' = IF err' = "none" THEN buf \o SubSeq(stream, taken + 1, taken + n) ELSE buf
    /\ UNCHANGED <<stream, offset, chunks, ended>>

Read ==
    /\ ended = "no" /\ Filling
    /\ \E n \in 0..Least({Room, Len(stream) - taken}) :
          /\ err' \in Outcomes(n)
          /\ taken' = taken + n
          /\ buf' = buf \o SubSeq(stream, taken + 1, taken + n)
    /\ UNCHANGED <<stream, offset, chunks, ended>>

ReturnChunk ==
    /\ ended = "no" /\ ~Filling /\ buf # <<>>
    /\ LET n == Boundary(buf)
       IN  /\ chunks' = Append(chunks, [offset |-> offset, data |-> SubSeq(buf, 1, n)])
           /\ buf' = SubSeq(buf, n + 1, Len(buf))
           /\ offset' = offset + n
    /\ UNCHANGED <<reader, err, ended>>

\* io.EOF or the reader's error, once the buffer is empty.
ReturnEnd ==
    /\ ended = "no" /\ ~Filling /\ buf = <<>>
    /\ ended' = err
    /\ UNCHANGED <<reader, buf, err, offset, chunks>>

Next == Read \/ ReturnChunk \/ ReturnEnd

Spec == Init /\ [][Next]_chunker

-----------------------------------------------------------------------------
(* Properties                                                              *)

ChunkerTypeOK ==
    /\ stream \in Seq(Byte) /\ taken \in 0..Len(stream)
    /\ buf \in Seq(Byte) /\ Len(buf) <= 2 * MaxSize
    /\ err \in {"none", "eof", "failed"} /\ ended \in {"no", "eof", "failed"}
    /\ offset \in Nat
    /\ chunks \in Seq([offset : Nat, data : Seq(Byte)])

\* The part of the stream that will ever be read.
Input == IF err = "failed" THEN SubSeq(stream, 1, taken) ELSE stream

From(s, n) == SubSeq(s, n + 1, Len(s))

\* The chunks are the bytes of the stream, each once and in order; and Next
\* says io.EOF only when they are all of it, so that a reader that fails is
\* never taken for a file that ends.
EveryByteOnce ==
    /\ \A i \in 1..Len(chunks) :
          LET c == chunks[i]
              end == c.offset + Len(c.data)
          IN  /\ c.data = SubSeq(stream, c.offset + 1, end)
              /\ end = IF i = Len(chunks) THEN offset ELSE chunks[i + 1].offset
    /\ chunks # <<>> => chunks[1].offset = 0
    /\ ended = "eof" => offset = Len(stream)

\* Every chunk is within the bounds; only the last may be short.
SizesBounded ==
    \A i \in 1..Len(chunks) :
        /\ Len(chunks[i].data) \in 1..MaxSize
        /\ i < Len(chunks) => Len(chunks[i].data) > MinSize

\* Where a chunk ends depends on the content that follows its start and on
\* nothing else: not on what each read returned, nor on where in the stream it
\* is.  Deduplication rests on this.
ContentDefined ==
    \A i \in 1..Len(chunks) :
        Len(chunks[i].data) = Boundary(From(Input, chunks[i].offset))
=============================================================================

------------------------------ MODULE PackFile ------------------------------
(***************************************************************************)
(* The pack format (internal/pack): blobs, then a header that locates      *)
(* them, then a trailer with the length of the header and a magic.         *)
(* A pack is a sequence of cells <<kind, value>>.  A cell stands for one   *)
(* byte of a blob; an entry of the header, JSON in the code, takes         *)
(* EntryCells of them; the length and the magic take one each.             *)
(* A blob's ID is the blob: the hash has no collisions.                    *)
(***************************************************************************)
EXTENDS Naturals, Sequences

CONSTANTS
    EntryCells,         \* how long an entry of the header is
    MaxHeaderSize,
    SuggestedTailSize   \* how much of a pack is read at first

ASSUME PackAssumption ==
    EntryCells \in Nat \ {0} /\ MaxHeaderSize \in Nat /\ SuggestedTailSize \in Nat

FormatVersion == 1
TrailerSize == 2

\* The first read of a pack takes in the trailer.
ASSUME TailAssumption == SuggestedTailSize >= TrailerSize

BlobCells(blob) == [i \in 1..Len(blob) |-> <<"byte", blob[i]>>]

\* The last n cells of a pack.
LastCells(cells, n) == SubSeq(cells, Len(cells) - n + 1, Len(cells))

-----------------------------------------------------------------------------
(* Writer                                                                  *)

NewWriter == [entries |-> <<>>, out |-> <<>>, offset |-> 0]

\* A blob that is in the pack already is not added again.
Add(w, blob) ==
    IF \E i \in DOMAIN w.entries : w.entries[i].id = blob THEN w
    ELSE [entries |-> Append(w.entries,
              [id |-> blob, offset |-> w.offset, length |-> Len(blob)]),
          out |-> w.out \o BlobCells(blob),
          offset |-> w.offset + Len(blob)]

IsFull(w, target) == w.offset >= target

\* The header: its version, then the entries.
Encode(entries) ==
    <<<<"version", FormatVersion>>>> \o
    [i \in 1..(Len(entries) * EntryCells) |->
        IF (i - 1) % EntryCells = 0
        THEN <<"entry", entries[1 + (i - 1) \div EntryCells]>> ELSE <<"pad", 0>>]

\* Does Finish refuse the pack?  (It also refuses an empty one, which flush
\* never gives it.)
HeaderTooLong(w) == Len(Encode(w.entries)) > MaxHeaderSize

Finish(w) ==
    LET header == Encode(w.entries)
    IN  w.out \o header \o <<<<"length", Len(header)>>, <<"magic", 0>>>>

-----------------------------------------------------------------------------
(* ParseTail                                                               *)

Bad(kind) == [kind |-> kind, need |-> 0, entries |-> <<>>]
\* Mutant: the second read leaves the trailer out.
ShortOfTrailer(n) == [kind |-> "short", need |-> IF n > TrailerSize THEN n - TrailerSize ELSE n, entries |-> <<>>]

\* ErrShortTail: a tail of n cells is needed.
Short(n) == [kind |-> "short", need |-> n, entries |-> <<>>]

\* json.Unmarshal, of something that was a header once.
Decodes(cells) ==
    /\ cells[1][1] = "version"
    /\ (Len(cells) - 1) % EntryCells = 0
    /\ \A i \in 2..Len(cells) :
          cells[i][1] = IF (i - 2) % EntryCells = 0 THEN "entry" ELSE "pad"

EntriesOf(cells) ==
    [i \in 1..((Len(cells) - 1) \div EntryCells) |-> cells[2 + (i - 1) * EntryCells][2]]

\* The trailer is good: is the header?
ParseHeader(tail, size, headerLen) ==
    LET need == headerLen + TrailerSize
        encoded == SubSeq(tail, Len(tail) - need + 1, Len(tail) - TrailerSize)
        entries == EntriesOf(encoded)
    IN  IF Len(tail) < need THEN Short(need)
        ELSE IF ~Decodes(encoded) THEN Bad("corrupt")
        ELSE IF encoded[1][2] # FormatVersion THEN Bad("unsupported")
        ELSE IF entries = <<>>
                \/ \E i \in DOMAIN entries : entries[i].offset + entries[i].length > size - need
             THEN Bad("corrupt")
        ELSE [kind |-> "header", need |-> need, entries |-> entries]

\* tail is the end of a pack of the given size.
ParseTail(tail, size) ==
    LET magic == tail[Len(tail)]
        length == tail[Len(tail) - 1]
    IN  IF Len(tail) > size THEN Bad("invalid")
        ELSE IF Len(tail) < TrailerSize THEN Short(TrailerSize)
        ELSE IF magic[1] # "magic" \/ length[1] # "length" THEN Bad("corrupt")
        ELSE IF length[2] = 0 \/ length[2] > MaxHeaderSize \/ length[2] + TrailerSize > size
             THEN Bad("corrupt")
        ELSE ParseHeader(tail, size, length[2])

\* repo.readPackHeader: one read of the suggested size, and one more of the
\* size that the first has shown to be needed.
ReadPackHeader(cells) ==
    LET size == Len(cells)
        first == ParseTail(LastCells(cells, IF SuggestedTailSize > size THEN size ELSE SuggestedTailSize), size)
    IN  IF first.kind = "short" /\ first.need <= size
        THEN ParseTail(LastCells(cells, first.need), size)
        ELSE first

-----------------------------------------------------------------------------
(* Damage                                                                  *)

\* What may become of a cell on a failing disk.  (A changed length or magic
\* that is not one is junk.)
Flipped(cell) ==
    CASE cell[1] = "byte" -> {<<"byte", 1 - cell[2]>>}
      [] cell[1] = "entry" -> {<<"junk", 0>>, <<"entry", [cell[2] EXCEPT !.offset = @ + 1]>>}
      [] cell[1] = "version" -> {<<"junk", 0>>, <<"version", FormatVersion + 1>>}
      [] cell[1] = "length" -> {<<"length", n>> : n \in {0, cell[2] - 1, cell[2] + 1, cell[2] + EntryCells}}
      [] OTHER -> {<<"junk", 0>>}
=============================================================================

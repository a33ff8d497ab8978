--------------------------- MODULE DataPathProofs ---------------------------
(* Theorems about DataPath, and about the PackFile and IndexFile that it is   *)
(* built from: what is read back is what was backed up.                       *)
EXTENDS DataPath, ChunkerProofs, FiniteSetTheorems, TLAPS

-----------------------------------------------------------------------------
(* Arithmetic                                                                *)

LEMMA MultiplesGrow ==
    ASSUME NEW e \in Nat \ {0}, NEW i \in Nat, NEW k \in Nat, i <= k
    PROVE  i * e \in Nat /\ i * e <= k * e
BY Z3

\* Every e-th place of a header starts an entry.
LEMMA DivideMultiple ==
    ASSUME NEW e \in Nat \ {0}, NEW k \in Nat
    PROVE  (k * e) % e = 0 /\ (k * e) \div e = k
<1> DEFINE q == (k * e) \div e
<1> DEFINE r == (k * e) % e
<1>1. k * e \in Nat
  BY MultiplesGrow
<1>2. q \in Int /\ r \in 0..(e - 1) /\ k * e = e * q + r
  BY <1>1
<1>3. q >= 0
  <2> SUFFICES ASSUME q <= -1 PROVE FALSE
    BY <1>2
  <2>1. e * q <= -e
    BY <1>2
  <2> QED
    BY <1>1, <1>2, <2>1
<1> HIDE DEF q, r
<1>4. CASE q <= k - 1
  <2>1. (q + 1) * e <= k * e
    BY <1>2, <1>3, <1>4, MultiplesGrow
  <2>2. (q + 1) * e = e * q + e
    BY <1>2
  <2> QED
    BY <1>1, <1>2, <2>1, <2>2
<1>5. CASE q >= k + 1
  <2>1. (k + 1) * e <= q * e
    BY <1>2, <1>5, MultiplesGrow
  <2>2. (k + 1) * e = k * e + e /\ q * e = e * q
    BY <1>2
  <2> QED
    BY <1>1, <1>2, <2>1, <2>2
<1>6. CASE q = k
  <2>1. k * e = e * q
    BY <1>6
  <2>2. r = 0
    BY <1>1, <1>2, <2>1
  <2> QED
    BY <1>6, <2>2 DEF q, r
<1> QED
  BY <1>2, <1>4, <1>5, <1>6

-----------------------------------------------------------------------------
(* The writer                                                                *)

Entry(B) == [id : Seq(B), offset : Nat, length : Nat]
Cell(B) == ({"byte"} \X B) \cup {<<"version", FormatVersion>>, <<"pad", 0>>, <<"magic", 0>>}
               \cup ({"entry"} \X Entry(B)) \cup ({"length"} \X Nat)

\* An entry names a blob that is in the cells where it says.
Locates(entry, cells) ==
    /\ entry.length = Len(entry.id)
    /\ entry.offset + entry.length <= Len(cells)
    /\ \A j \in 1..entry.length : cells[entry.offset + j] = <<"byte", entry.id[j]>>

\* What a Writer is at every moment.
WriterOK(w, B) ==
    /\ w \in [entries : Seq(Entry(B)), out : Seq(Cell(B)), offset : Nat]
    /\ w.offset = Len(w.out)
    /\ \A i \in 1..Len(w.entries) : Locates(w.entries[i], w.out)

LEMMA BlobCellsType ==
    ASSUME NEW B, NEW blob \in Seq(B)
    PROVE  /\ BlobCells(blob) \in Seq(Cell(B)) /\ Len(BlobCells(blob)) = Len(blob)
           /\ \A i \in 1..Len(blob) : BlobCells(blob)[i] = <<"byte", blob[i]>>
<1>1. Len(blob) \in Nat /\ \A i \in 1..Len(blob) : <<"byte", blob[i]>> \in Cell(B)
  BY LenProperties, ElementOfSeq DEF Cell
<1> QED
  BY <1>1 DEF BlobCells

\* A blob located in some cells is where it was when more cells follow.
LEMMA LocatesMore ==
    ASSUME NEW B, NEW e \in Entry(B), NEW s \in Seq(Cell(B)), NEW t \in Seq(Cell(B)),
           Locates(e, s)
    PROVE  Locates(e, s \o t)
<1>1. /\ Len(s \o t) = Len(s) + Len(t) /\ Len(s) \in Nat /\ Len(t) \in Nat
      /\ \A i \in 1..(Len(s) + Len(t)) :
            (s \o t)[i] = IF i <= Len(s) THEN s[i] ELSE t[i - Len(s)]
  BY ConcatProperties, LenProperties
<1>2. e.offset \in Nat /\ e.length \in Nat
  BY DEF Entry
<1>3. ASSUME NEW j \in 1..e.length PROVE (s \o t)[e.offset + j] = <<"byte", e.id[j]>>
  <2>1. e.offset + j \in 1..Len(s)
    BY <1>1, <1>2 DEF Locates
  <2> QED
    BY <1>1, <2>1 DEF Locates
<1> QED
  BY <1>1, <1>2, <1>3 DEF Locates

\* The writer keeps its entries true to what it has written: a new one starts
\* where the last blob ended (Writer.Add).
THEOREM AddKeepsEntries ==
    ASSUME NEW B
    PROVE  /\ WriterOK(NewWriter, B)
           /\ \A w, blob : WriterOK(w, B) /\ blob \in Seq(B) => WriterOK(Add(w, blob), B)
<1>1. WriterOK(NewWriter, B)
  BY EmptySeq DEF WriterOK, NewWriter
<1>2. ASSUME NEW w, NEW blob \in Seq(B), WriterOK(w, B),
             ~ \E i \in DOMAIN w.entries : w.entries[i].id = blob
      PROVE  WriterOK(Add(w, blob), B)
  <2> DEFINE e == [id |-> blob, offset |-> w.offset, length |-> Len(blob)]
  <2> DEFINE cells == BlobCells(blob)
  <2>1. /\ w.entries \in Seq(Entry(B)) /\ w.out \in Seq(Cell(B)) /\ w.offset = Len(w.out)
        /\ w.offset \in Nat /\ Len(blob) \in Nat
    BY <1>2, LenProperties DEF WriterOK
  <2>2. e \in Entry(B)
    BY <2>1 DEF Entry
  <2>3. /\ cells \in Seq(Cell(B)) /\ Len(cells) = Len(blob)
        /\ \A i \in 1..Len(blob) : cells[i] = <<"byte", blob[i]>>
    BY BlobCellsType
  <2> HIDE DEF cells
  <2>4. /\ w.out \o cells \in Seq(Cell(B)) /\ Len(w.out \o cells) = w.offset + Len(blob)
        /\ \A i \in 1..(w.offset + Len(blob)) :
              (w.out \o cells)[i] = IF i <= w.offset THEN w.out[i] ELSE cells[i - w.offset]
    <3>1. PICK out \in Seq(Cell(B)) : out = w.out /\ Len(out) = w.offset
      BY <2>1
    <3>2. /\ out \o cells \in Seq(Cell(B)) /\ Len(out \o cells) = Len(out) + Len(cells)
          /\ \A i \in 1..(Len(out) + Len(cells)) :
                (out \o cells)[i] = IF i <= Len(out) THEN out[i] ELSE cells[i - Len(out)]
      BY <2>3, ConcatProperties
    <3> QED
      BY <2>3, <3>1, <3>2
  <2>5. Locates(e, w.out \o cells)
    <3>1. ASSUME NEW j \in 1..Len(blob)
          PROVE  (w.out \o cells)[w.offset + j] = <<"byte", blob[j]>>
      <4>1. w.offset + j \in 1..(w.offset + Len(blob)) /\ ~(w.offset + j <= w.offset)
            /\ (w.offset + j) - w.offset = j
        BY <2>1
      <4> QED
        BY <2>3, <2>4, <4>1
    <3> QED
      BY <2>1, <2>4, <3>1 DEF Locates
  <2> HIDE DEF e
  <2>6. /\ Append(w.entries, e) \in Seq(Entry(B))
        /\ Len(Append(w.entries, e)) = Len(w.entries) + 1
        /\ \A i \in 1..Len(w.entries) : Append(w.entries, e)[i] = w.entries[i]
        /\ Append(w.entries, e)[Len(w.entries) + 1] = e
        /\ Len(w.entries) \in Nat
    BY <2>1, <2>2, AppendProperties, LenProperties
  <2>7. ASSUME NEW i \in 1..(Len(w.entries) + 1)
        PROVE  Locates(Append(w.entries, e)[i], w.out \o cells)
    <3>1. CASE i = Len(w.entries) + 1
      BY <2>5, <2>6, <3>1
    <3>2. CASE i \in 1..Len(w.entries)
      <4>1. w.entries[i] \in Entry(B) /\ Locates(w.entries[i], w.out)
        BY <1>2, <2>1, <3>2, ElementOfSeq DEF WriterOK
      <4> QED
        BY <2>1, <2>3, <2>6, <3>2, <4>1, LocatesMore
    <3> QED
      BY <2>6, <3>1, <3>2
  <2>8. Add(w, blob) = [entries |-> Append(w.entries, e), out |-> w.out \o cells,
                        offset |-> w.offset + Len(blob)]
    BY <1>2 DEF Add, e, cells
  <2> QED
    BY <2>1, <2>4, <2>6, <2>7, <2>8 DEF WriterOK
<1>3. ASSUME NEW w, NEW blob \in Seq(B), WriterOK(w, B),
             \E i \in DOMAIN w.entries : w.entries[i].id = blob
      PROVE  WriterOK(Add(w, blob), B)
  BY <1>3 DEF Add
<1> QED
  BY <1>1, <1>2, <1>3

-----------------------------------------------------------------------------
(* The header                                                                *)

\* The length of the header of n entries.
HeaderLen(n) == 1 + n * EntryCells

LEMMA EncodeCells ==
    ASSUME NEW B, NEW entries \in Seq(Entry(B))
    PROVE  /\ Encode(entries) \in Seq(Cell(B))
           /\ Len(Encode(entries)) = HeaderLen(Len(entries))
           /\ Encode(entries)[1] = <<"version", FormatVersion>>
           /\ \A i \in 1..(Len(entries) * EntryCells) :
                 Encode(entries)[i + 1] =
                     IF (i - 1) % EntryCells = 0
                     THEN <<"entry", entries[1 + (i - 1) \div EntryCells]>> ELSE <<"pad", 0>>
<1> DEFINE n == Len(entries)
<1> DEFINE at(i) == IF (i - 1) % EntryCells = 0
                    THEN <<"entry", entries[1 + (i - 1) \div EntryCells]>> ELSE <<"pad", 0>>
<1> DEFINE rest == [i \in 1..(n * EntryCells) |-> at(i)]
<1> DEFINE first == <<<<"version", FormatVersion>>>>
<1>1. n \in Nat /\ n * EntryCells \in Nat /\ EntryCells \in Nat \ {0}
  BY LenProperties, PackAssumption, MultiplesGrow
<1>2. ASSUME NEW i \in 1..(n * EntryCells) PROVE at(i) \in Cell(B)
  <2>1. CASE (i - 1) % EntryCells = 0
    <3> DEFINE q == (i - 1) \div EntryCells
    <3>1. q \in Int /\ i - 1 = EntryCells * q /\ i - 1 \in 0..(n * EntryCells - 1)
      BY <1>1, <2>1
    <3> HIDE DEF q
    <3>2. q >= 0
      <4> SUFFICES ASSUME q <= -1 PROVE FALSE
        BY <3>1
      <4>1. EntryCells * q <= -EntryCells
        BY <1>1, <3>1
      <4> QED
        BY <1>1, <3>1, <4>1
    <3>3. q < n
      <4> SUFFICES ASSUME q >= n PROVE FALSE
        BY <1>1, <3>1
      <4>1. n * EntryCells <= q * EntryCells
        BY <1>1, <3>1, <3>2, MultiplesGrow
      <4>2. q * EntryCells = EntryCells * q
        BY <1>1, <3>1
      <4> QED
        BY <1>1, <3>1, <4>1, <4>2
    <3>4. 1 + q \in 1..n
      BY <1>1, <3>1, <3>2, <3>3
    <3>5. entries[1 + q] \in Entry(B)
      BY <3>4, ElementOfSeq
    <3> QED
      BY <2>1, <3>5 DEF Cell, q
  <2>2. CASE (i - 1) % EntryCells # 0
    BY <2>2 DEF Cell
  <2> QED
    BY <2>1, <2>2
<1> HIDE DEF at
<1>3. rest \in Seq(Cell(B)) /\ Len(rest) = n * EntryCells
      /\ \A i \in 1..(n * EntryCells) : rest[i] = at(i)
  BY <1>1, <1>2
<1>4. first \in Seq(Cell(B)) /\ Len(first) = 1 /\ first[1] = <<"version", FormatVersion>>
  <2>1. <<"version", FormatVersion>> \in Cell(B)
    BY DEF Cell
  <2> QED
    BY <2>1
<1>5. Encode(entries) = first \o rest
  BY DEF Encode, at
<1> HIDE DEF rest, first
<1>6. /\ first \o rest \in Seq(Cell(B)) /\ Len(first \o rest) = 1 + n * EntryCells
      /\ \A i \in 1..(1 + n * EntryCells) :
            (first \o rest)[i] = IF i <= 1 THEN first[i] ELSE rest[i - 1]
  <2>1. /\ first \o rest \in Seq(Cell(B)) /\ Len(first \o rest) = Len(first) + Len(rest)
        /\ \A i \in 1..(Len(first) + Len(rest)) :
              (first \o rest)[i] = IF i <= Len(first) THEN first[i] ELSE rest[i - Len(first)]
    BY <1>3, <1>4, ConcatProperties
  <2> QED
    BY <1>3, <1>4, <2>1
<1>7. ASSUME NEW i \in 1..(n * EntryCells) PROVE (first \o rest)[i + 1] = at(i)
  <2>1. i + 1 \in 1..(1 + n * EntryCells) /\ ~(i + 1 <= 1) /\ (i + 1) - 1 = i
    BY <1>1
  <2> QED
    BY <1>3, <1>6, <2>1
<1>8. (first \o rest)[1] = <<"version", FormatVersion>>
  BY <1>1, <1>4, <1>6
<1> QED
  BY <1>5, <1>6, <1>7, <1>8 DEF at, HeaderLen

\* A header decodes, to its entries.
LEMMA DecodeEncoded ==
    ASSUME NEW B, NEW entries \in Seq(Entry(B))
    PROVE  Decodes(Encode(entries)) /\ EntriesOf(Encode(entries)) = entries
<1> DEFINE n == Len(entries)
<1> DEFINE H == Encode(entries)
<1>1. n \in Nat /\ n * EntryCells \in Nat /\ EntryCells \in Nat \ {0}
  BY LenProperties, PackAssumption, MultiplesGrow
<1>2. /\ Len(H) = 1 + n * EntryCells /\ H[1] = <<"version", FormatVersion>>
      /\ \A i \in 1..(n * EntryCells) :
            H[i + 1] = IF (i - 1) % EntryCells = 0
                       THEN <<"entry", entries[1 + (i - 1) \div EntryCells]>> ELSE <<"pad", 0>>
  BY EncodeCells DEF HeaderLen
<1> HIDE DEF H, n
<1>3. Len(H) - 1 = n * EntryCells
  <2> DEFINE m == n * EntryCells
  <2>1. m \in Nat /\ Len(H) = 1 + m
    BY <1>1, <1>2
  <2> HIDE DEF m
  <2>2. Len(H) - 1 = m
    BY <2>1
  <2> QED
    BY <2>2 DEF m
<1>4. Decodes(H)
  <2>1. (Len(H) - 1) % EntryCells = 0
    BY <1>1, <1>3, DivideMultiple
  <2>2. ASSUME NEW i \in 2..Len(H)
        PROVE  H[i][1] = IF (i - 2) % EntryCells = 0 THEN "entry" ELSE "pad"
    <3>1. i - 1 \in 1..(n * EntryCells) /\ (i - 1) + 1 = i /\ (i - 1) - 1 = i - 2
      <4> DEFINE m == n * EntryCells
      <4>1. m \in Nat /\ Len(H) = 1 + m
        BY <1>1, <1>2
      <4> HIDE DEF m
      <4>2. i - 1 \in 1..m /\ (i - 1) + 1 = i /\ (i - 1) - 1 = i - 2
        BY <4>1
      <4> QED
        BY <4>2 DEF m
    <3>2. H[i] = IF (i - 2) % EntryCells = 0
                 THEN <<"entry", entries[1 + (i - 2) \div EntryCells]>> ELSE <<"pad", 0>>
      BY <1>2, <3>1
    <3> QED
      BY <3>2
  <2>3. H[1][1] = "version"
    <3>1. <<"version", FormatVersion>>[1] = "version"
      OBVIOUS
    <3> QED
      BY <1>2, <3>1, Zenon
  <2> QED
    BY <2>1, <2>2, <2>3 DEF Decodes
<1>5. ASSUME NEW i \in 1..n PROVE H[2 + (i - 1) * EntryCells][2] = entries[i]
  <2> DEFINE k == i - 1
  <2>1. k \in Nat /\ k + 1 \in Nat /\ k + 1 <= n /\ 1 + k = i
    BY <1>1
  <2>2. /\ k * EntryCells \in Nat /\ (k + 1) * EntryCells <= n * EntryCells
        /\ (k + 1) * EntryCells = k * EntryCells + EntryCells
    BY <1>1, <2>1, MultiplesGrow
  <2>3. (k * EntryCells) % EntryCells = 0 /\ (k * EntryCells) \div EntryCells = k
    BY <1>1, <2>1, DivideMultiple
  <2> DEFINE m == k * EntryCells
  <2> HIDE DEF k
  <2>4. m \in Nat /\ m + EntryCells <= n * EntryCells
    BY <1>1, <2>2
  <2>5. m % EntryCells = 0 /\ m \div EntryCells = k
    BY <2>3
  <2> HIDE DEF m
  <2>6. m + 1 \in 1..(n * EntryCells) /\ (m + 1) - 1 = m /\ (m + 1) + 1 = 2 + m
    BY <1>1, <2>4
  <2>7. H[2 + m] = <<"entry", entries[1 + k]>>
    BY <1>2, <2>5, <2>6
  <2> QED
    BY <2>1, <2>7 DEF k, m
<1>6. EntriesOf(H) = [i \in 1..n |-> entries[i]]
  <2>1. (Len(H) - 1) \div EntryCells = n
    BY <1>1, <1>3, DivideMultiple
  <2> QED
    BY <1>5, <2>1 DEF EntriesOf
<1>7. [i \in 1..n |-> entries[i]] = entries
  BY LenProperties DEF n
<1> QED
  BY <1>4, <1>6, <1>7 DEF H, n

-----------------------------------------------------------------------------
(* The pack                                                                  *)

\* After n cells of blobs and a header of h cells, the cells F end in a trailer.
HasTrailer(F, n, h) == F[n + h + 1] = <<"length", h>> /\ F[n + h + 2] = <<"magic", 0>>

\* The cells of a pack: the blobs, the header, its length and the magic.
LEMMA FinishCells ==
    ASSUME NEW B, NEW w, WriterOK(w, B), NEW h, h = HeaderLen(Len(w.entries))
    PROVE  /\ h \in Nat \ {0} /\ w.offset \in Nat /\ w.entries \in Seq(Entry(B))
           /\ Finish(w) \in Seq(Cell(B)) /\ Len(Finish(w)) = w.offset + h + 2
           /\ \A i \in 1..h : Finish(w)[w.offset + i] = Encode(w.entries)[i]
           /\ HasTrailer(Finish(w), w.offset, h)
           /\ \A i \in 1..Len(w.entries) : Locates(w.entries[i], Finish(w))
<1>1. PICK out \in Seq(Cell(B)), entries \in Seq(Entry(B)), n \in Nat :
          out = w.out /\ entries = w.entries /\ n = w.offset /\ Len(out) = n
  BY DEF WriterOK
<1>2. PICK H \in Seq(Cell(B)) : H = Encode(entries) /\ Len(H) = h
  BY <1>1, EncodeCells
<1>3. h \in Nat \ {0}
  <2>1. Len(entries) \in Nat /\ EntryCells \in Nat \ {0}
    BY LenProperties, PackAssumption
  <2>2. Len(entries) * EntryCells \in Nat
    BY <2>1, MultiplesGrow
  <2> QED
    BY <1>1, <2>2 DEF HeaderLen
<1> DEFINE T == <<<<"length", h>>, <<"magic", 0>>>>
<1>4. /\ T \in Seq(Cell(B)) /\ Len(T) = 2
      /\ T[1] = <<"length", h>> /\ T[2] = <<"magic", 0>>
  <2>1. <<"length", h>> \in Cell(B) /\ <<"magic", 0>> \in Cell(B)
    BY <1>3 DEF Cell
  <2> QED
    BY <2>1
<1> HIDE DEF T
<1>5. /\ out \o H \in Seq(Cell(B)) /\ Len(out \o H) = Len(out) + Len(H)
      /\ \A i \in 1..(Len(out) + Len(H)) :
            (out \o H)[i] = IF i <= Len(out) THEN out[i] ELSE H[i - Len(out)]
  BY ConcatProperties
<1>6. PICK D \in Seq(Cell(B)) :
          /\ D = out \o H /\ Len(D) = n + h
          /\ \A i \in 1..h : D[n + i] = H[i]
  <2>1. ASSUME NEW i \in 1..h PROVE (out \o H)[n + i] = H[i]
    <3>1. n + i \in 1..(Len(out) + Len(H)) /\ ~(n + i <= Len(out)) /\ (n + i) - Len(out) = i
      BY <1>1, <1>2, <1>3
    <3> QED
      BY <1>5, <3>1
  <2> QED
    BY <1>1, <1>2, <1>5, <2>1
<1>7. /\ D \o T \in Seq(Cell(B)) /\ Len(D \o T) = Len(D) + Len(T)
      /\ \A i \in 1..(Len(D) + Len(T)) :
            (D \o T)[i] = IF i <= Len(D) THEN D[i] ELSE T[i - Len(D)]
  BY <1>4, ConcatProperties
<1>8. PICK F \in Seq(Cell(B)) :
          /\ F = D \o T /\ Len(F) = n + h + 2
          /\ \A i \in 1..h : F[n + i] = H[i]
          /\ F[n + h + 1] = <<"length", h>> /\ F[n + h + 2] = <<"magic", 0>>
  <2>1. ASSUME NEW i \in 1..h PROVE (D \o T)[n + i] = H[i]
    <3>1. n + i \in 1..(Len(D) + Len(T)) /\ n + i <= Len(D)
      BY <1>3, <1>4, <1>6
    <3> QED
      BY <1>6, <1>7, <3>1
  <2>2. PICK k \in Nat : k = n + h /\ Len(D) = k
    BY <1>3, <1>6
  <2>3. ASSUME NEW i \in 1..2 PROVE (D \o T)[k + i] = T[i]
    <3>1. k + i \in 1..(k + 2) /\ ~(k + i <= k) /\ (k + i) - k = i
      BY <2>2
    <3> QED
      BY <1>4, <1>7, <2>2, <3>1
  <2>4. (D \o T)[k + 1] = <<"length", h>> /\ (D \o T)[k + 2] = <<"magic", 0>>
    <3>1. 1 \in 1..2 /\ 2 \in 1..2
      OBVIOUS
    <3>2. (D \o T)[k + 1] = T[1] /\ (D \o T)[k + 2] = T[2]
      BY <2>3, <3>1, Zenon
    <3> QED
      BY <1>4, <3>2, Zenon
  <2>5. Len(D \o T) = n + h + 2
    BY <1>4, <1>7, <2>2
  <2> QED
    BY <1>6, <1>7, <2>1, <2>2, <2>4, <2>5
<1>9. Finish(w) = F
  BY <1>1, <1>2, <1>6, <1>8 DEF Finish, T
<1>10. ASSUME NEW i \in 1..Len(entries) PROVE Locates(entries[i], F)
  <2>1. entries[i] \in Entry(B) /\ Locates(entries[i], out)
    BY <1>1, ElementOfSeq DEF WriterOK
  <2>2. Locates(entries[i], D)
    BY <1>6, <2>1, LocatesMore
  <2> QED
    BY <1>4, <1>8, <2>1, <2>2, LocatesMore
<1>11. HasTrailer(F, n, h)
  BY <1>8, Zenon DEF HasTrailer
<1> QED
  BY <1>1, <1>2, <1>3, <1>8, <1>9, <1>10, <1>11

LEMMA LastCellsOf ==
    ASSUME NEW S, NEW s \in Seq(S), NEW t \in 0..Len(s)
    PROVE  /\ LastCells(s, t) \in Seq(S) /\ Len(LastCells(s, t)) = t
           /\ \A i \in 1..t : LastCells(s, t)[i] = s[(Len(s) - t) + i]
<1> DEFINE m == Len(s) - t + 1
<1>1. Len(s) \in Nat /\ m \in 1..(Len(s) + 1)
  BY LenProperties
<1>2. \A i \in m..Len(s) : s[i] \in S
  BY <1>1, ElementOfSeq
<1>3. /\ SubSeq(s, m, Len(s)) \in Seq(S)
      /\ Len(SubSeq(s, m, Len(s))) = IF m <= Len(s) THEN Len(s) - m + 1 ELSE 0
      /\ \A i \in 1..(Len(s) - m + 1) : SubSeq(s, m, Len(s))[i] = s[m + i - 1]
  BY <1>1, <1>2, SubSeqProperties
<1>4. Len(s) - m + 1 = t /\ \A i \in 1..t : m + i - 1 = (Len(s) - t) + i
  BY <1>1
<1> QED
  BY <1>1, <1>3, <1>4 DEF LastCells

\* F is n cells of blobs, the header H of the entries, of h cells, and a trailer.
IsPack(B, F, n, h, entries, H) ==
    /\ F \in Seq(Cell(B)) /\ n \in Nat /\ h \in Nat \ {0} /\ h <= MaxHeaderSize
    /\ entries \in Seq(Entry(B)) /\ entries # <<>>
    /\ H \in Seq(Cell(B)) /\ H = Encode(entries) /\ Len(H) = h
    /\ Len(F) = n + h + 2
    /\ \A i \in 1..h : F[n + i] = H[i]
    /\ HasTrailer(F, n, h)
    /\ \A i \in 1..Len(entries) : entries[i].offset + entries[i].length <= n

\* What a read of the last t cells of a pack shows: the header, or how much of
\* the pack it takes to see it.
LEMMA ParseEnd ==
    ASSUME NEW B, NEW F, NEW n, NEW h, NEW entries, NEW H, IsPack(B, F, n, h, entries, H),
           NEW t \in 2..(n + h + 2)
    PROVE  ParseTail(LastCells(F, t), Len(F)) =
               IF t < h + 2 THEN Short(h + 2)
               ELSE [kind |-> "header", need |-> h + 2, entries |-> entries]
<1>0. /\ F \in Seq(Cell(B)) /\ n \in Nat /\ h \in Nat \ {0} /\ h <= MaxHeaderSize
      /\ entries \in Seq(Entry(B)) /\ entries # <<>>
      /\ H \in Seq(Cell(B)) /\ H = Encode(entries) /\ Len(H) = h
      /\ Len(F) = n + h + 2 /\ t \in Nat /\ t >= 2 /\ t <= n + h + 2
  BY DEF IsPack
<1>1. PICK size \in Nat : size = Len(F) /\ size = n + h + 2 /\ t \in 0..size
  BY <1>0
<1> DEFINE tail == LastCells(F, t)
<1>2. /\ tail \in Seq(Cell(B)) /\ Len(tail) = t
      /\ \A i \in 1..t : tail[i] = F[(size - t) + i]
  <2>1. t \in 0..Len(F)
    BY <1>1
  <2>2. /\ tail \in Seq(Cell(B)) /\ Len(tail) = t
        /\ \A i \in 1..t : tail[i] = F[(Len(F) - t) + i]
    BY <1>0, <2>1, LastCellsOf
  <2> QED
    BY <1>1, <2>2
<1> HIDE DEF tail
<1>3. tail[t] = <<"magic", 0>> /\ tail[t - 1] = <<"length", h>>
  <2>1. t \in 1..t /\ t - 1 \in 1..t
        /\ (size - t) + t = n + h + 2 /\ (size - t) + (t - 1) = n + h + 1
    BY <1>0, <1>1
  <2>2. tail[t] = F[(size - t) + t] /\ tail[t - 1] = F[(size - t) + (t - 1)]
    BY <1>2, <2>1
  <2>3. F[n + h + 1] = <<"length", h>> /\ F[n + h + 2] = <<"magic", 0>>
    BY DEF IsPack, HasTrailer
  <2>4. tail[t] = F[n + h + 2] /\ tail[t - 1] = F[n + h + 1]
    BY <2>1, <2>2
  <2> QED
    BY <2>3, <2>4, Zenon
<1>4. ParseTail(tail, size) = ParseHeader(tail, size, h)
  <2>1. <<"magic", 0>>[1] = "magic" /\ <<"length", h>>[1] = "length" /\ <<"length", h>>[2] = h
    OBVIOUS
  <2>2. tail[t][1] = "magic" /\ tail[t - 1][1] = "length" /\ tail[t - 1][2] = h
    BY <1>3, <2>1, Zenon
  <2>3. ~(t > size) /\ ~(t < TrailerSize)
        /\ ~(h = 0 \/ h > MaxHeaderSize \/ h + TrailerSize > size)
    BY <1>0, <1>1, PackAssumption DEF TrailerSize
  <2> QED
    BY <1>2, <2>2, <2>3 DEF ParseTail
<1>5. CASE t < h + 2
  <2>1. ParseHeader(tail, size, h) = Short(h + 2)
    BY <1>2, <1>5 DEF ParseHeader, TrailerSize
  <2> QED
    BY <1>1, <1>4, <1>5, <2>1 DEF tail
<1>6. CASE ~(t < h + 2)
  <2> DEFINE m == t - (h + 2) + 1
  <2>1. m \in Nat /\ m >= 1 /\ t - 2 \in Nat /\ m <= t - 2 /\ (t - 2) - m + 1 = h
        /\ t - (h + 2) + 1 = m
    BY <1>0, <1>6
  <2> HIDE DEF m
  <2>2. \A i \in m..(t - 2) : tail[i] \in Cell(B)
    <3>0. Len(tail) = t /\ t \in Nat /\ m \in Nat /\ m >= 1
      BY <1>0, <1>2, <2>1
    <3>1. \A i \in m..(t - 2) : i \in 1..Len(tail)
      BY <3>0
    <3> QED
      BY <1>2, <3>1, ElementOfSeq
  <2> DEFINE encoded == SubSeq(tail, m, t - 2)
  <2>3. /\ encoded \in Seq(Cell(B)) /\ Len(encoded) = h
        /\ \A i \in 1..h : encoded[i] = tail[m + i - 1]
    <3>1. m \in Int /\ t - 2 \in Int
      BY <2>1
    <3>2. /\ encoded \in Seq(Cell(B))
          /\ Len(encoded) = IF m <= t - 2 THEN (t - 2) - m + 1 ELSE 0
          /\ \A i \in 1..((t - 2) - m + 1) : encoded[i] = tail[m + i - 1]
      BY <2>2, <3>1, SubSeqProperties
    <3> QED
      BY <2>1, <3>2
  <2> HIDE DEF encoded
  <2>4. ASSUME NEW i \in 1..h PROVE encoded[i] = H[i]
    <3>1. m + i - 1 \in 1..t /\ (size - t) + (m + i - 1) = n + i
      BY <1>0, <1>1, <2>1 DEF m
    <3>2. encoded[i] = tail[m + i - 1] /\ tail[m + i - 1] = F[(size - t) + (m + i - 1)]
      BY <1>2, <2>3, <3>1
    <3>3. F[n + i] = H[i]
      BY DEF IsPack
    <3> QED
      BY <3>1, <3>2, <3>3
  <2>5. encoded = H
    <3>1. Len(encoded) = Len(H) /\ \A i \in 1..Len(encoded) : encoded[i] = H[i]
      BY <1>0, <2>3, <2>4
    <3> QED
      BY <1>0, <2>3, <3>1, SeqEqual
  <2>6. Decodes(encoded) /\ EntriesOf(encoded) = entries
    BY <1>0, <2>5, DecodeEncoded
  <2>7. ~ \E i \in DOMAIN entries : entries[i].offset + entries[i].length > size - (h + 2)
    <3>1. DOMAIN entries = 1..Len(entries) /\ size - (h + 2) = n
      BY <1>0, <1>1, LenProperties
    <3>2. ASSUME NEW i \in 1..Len(entries)
          PROVE  ~(entries[i].offset + entries[i].length > n)
      <4>1. entries[i] \in Entry(B)
        BY <1>0, ElementOfSeq
      <4>2. PICK off \in Nat, len \in Nat : off = entries[i].offset /\ len = entries[i].length
        BY <4>1 DEF Entry
      <4>3. off + len <= n
        BY <4>2 DEF IsPack
      <4> QED
        BY <1>0, <4>2, <4>3
    <3> QED
      BY <3>1, <3>2
  <2>8. encoded[1][2] = FormatVersion
    <3>1. <<"version", FormatVersion>>[2] = FormatVersion
      OBVIOUS
    <3>2. encoded[1] = <<"version", FormatVersion>>
      BY <1>0, <2>5, EncodeCells
    <3> QED
      BY <3>1, <3>2, Zenon
  <2>9. encoded = SubSeq(tail, Len(tail) - (h + TrailerSize) + 1, Len(tail) - TrailerSize)
    <3>1. Len(tail) - (h + TrailerSize) + 1 = m /\ Len(tail) - TrailerSize = t - 2
      BY <1>2, <2>1 DEF TrailerSize
    <3> QED
      BY <3>1 DEF encoded
  <2>10. /\ ~(Len(tail) < h + TrailerSize) /\ h + TrailerSize = h + 2
    BY <1>0, <1>2, <1>6 DEF TrailerSize
  <2>11. ParseHeader(tail, size, h) =
             [kind |-> "header", need |-> h + 2, entries |-> entries]
    <3> DEFINE need == h + TrailerSize
    <3>1. /\ ~(Len(tail) < need) /\ need = h + 2
          /\ encoded = SubSeq(tail, Len(tail) - need + 1, Len(tail) - TrailerSize)
          /\ ~ \E i \in DOMAIN entries : entries[i].offset + entries[i].length > size - need
      BY <2>7, <2>9, <2>10
    <3>2. ParseHeader(tail, size, h) =
             IF Len(tail) < need THEN Short(need)
             ELSE IF ~Decodes(encoded) THEN Bad("corrupt")
             ELSE IF encoded[1][2] # FormatVersion THEN Bad("unsupported")
             ELSE IF EntriesOf(encoded) = <<>>
                     \/ \E i \in DOMAIN EntriesOf(encoded) :
                           EntriesOf(encoded)[i].offset + EntriesOf(encoded)[i].length > size - need
                  THEN Bad("corrupt")
             ELSE [kind |-> "header", need |-> need, entries |-> EntriesOf(encoded)]
      BY <3>1, Zenon DEF ParseHeader
    <3> HIDE DEF need
    <3> QED
      BY <1>0, <2>6, <2>8, <3>1, <3>2, Zenon
  <2> QED
    BY <1>1, <1>4, <1>6, <2>11 DEF tail
<1> QED
  BY <1>5, <1>6

\* Two reads of the end of a pack are enough to find its header, whatever the
\* first one's size, if that is at least a trailer's (repo.readPackHeader).
THEOREM HeaderFoundAgain ==
    ASSUME NEW B, NEW w, WriterOK(w, B), w.entries # <<>>, ~HeaderTooLong(w)
    PROVE  /\ ReadPackHeader(Finish(w)).kind = "header"
           /\ ReadPackHeader(Finish(w)).entries = w.entries
<1> DEFINE entries == w.entries
<1> DEFINE n == w.offset
<1> DEFINE h == HeaderLen(Len(entries))
<1> DEFINE F == Finish(w)
<1> DEFINE H == Encode(entries)
<1>1. IsPack(B, F, n, h, entries, H)
  <2> HIDE DEF h
  <2>0. h = HeaderLen(Len(w.entries))
    BY DEF h
  <2>1. /\ h \in Nat \ {0} /\ n \in Nat /\ entries \in Seq(Entry(B))
        /\ F \in Seq(Cell(B)) /\ Len(F) = n + h + 2
        /\ \A i \in 1..h : F[n + i] = H[i]
        /\ HasTrailer(F, n, h)
    BY <2>0, FinishCells
  <2>2. H \in Seq(Cell(B)) /\ Len(H) = h
    BY <2>0, <2>1, EncodeCells
  <2>3. h <= MaxHeaderSize
    <3>1. ~(Len(H) > MaxHeaderSize)
      BY DEF HeaderTooLong
    <3> HIDE DEF h, H
    <3> QED
      BY <2>1, <2>2, <3>1, PackAssumption
  <2>4. \A i \in 1..Len(entries) : entries[i].offset + entries[i].length <= n
    BY DEF WriterOK, Locates
  <2> HIDE DEF n, h, F, H
  <2> QED
    BY <2>1, <2>2, <2>3, <2>4 DEF IsPack, H
<1>2. entries = w.entries /\ F = Finish(w)
  OBVIOUS
<1> HIDE DEF entries, n, h, F, H
<1>3. n \in Nat /\ h \in Nat \ {0} /\ Len(F) = n + h + 2
  BY <1>1 DEF IsPack
<1> DEFINE header == [kind |-> "header", need |-> h + 2, entries |-> entries]
<1>5. ASSUME NEW t \in 2..(n + h + 2)
      PROVE  ParseTail(LastCells(F, t), Len(F)) = IF t < h + 2 THEN Short(h + 2) ELSE header
  BY <1>1, ParseEnd
<1> HIDE DEF header
<1>6. PICK t \in 2..(n + h + 2) :
          t = IF SuggestedTailSize > Len(F) THEN Len(F) ELSE SuggestedTailSize
  BY <1>3, PackAssumption, TailAssumption DEF TrailerSize
<1>7. ParseTail(LastCells(F, h + 2), Len(F)) = header
  <2>1. h + 2 \in 2..(n + h + 2) /\ ~(h + 2 < h + 2)
    BY <1>3
  <2> QED
    BY <1>5, <2>1
<1>8. header.kind = "header" /\ header.entries = entries
  BY DEF header
<1>9. ReadPackHeader(F) = header
  <2>1. CASE t < h + 2
    <3>1. Short(h + 2).kind = "short" /\ Short(h + 2).need = h + 2 /\ h + 2 <= Len(F)
      BY <1>3 DEF Short
    <3>2. ParseTail(LastCells(F, t), Len(F)) = Short(h + 2)
      BY <1>5, <2>1
    <3> QED
      BY <1>6, <1>7, <3>1, <3>2 DEF ReadPackHeader
  <2>2. CASE ~(t < h + 2)
    <3>1. ParseTail(LastCells(F, t), Len(F)) = header /\ header.kind # "short"
      BY <1>5, <1>8, <2>2
    <3> QED
      BY <1>6, <3>1 DEF ReadPackHeader
  <2> QED
    BY <2>1, <2>2
<1> QED
  BY <1>2, <1>8, <1>9

\* Each blob of a finished pack is where its entry says (repo.GetBlob reads
\* just that range).
THEOREM BlobsFoundAgain ==
    ASSUME NEW B, NEW w, WriterOK(w, B), NEW i \in 1..Len(w.entries),
           NEW e, e = w.entries[i]
    PROVE  SubSeq(Finish(w), e.offset + 1, e.offset + e.length) = BlobCells(e.id)
<1>1. PICK F \in Seq(Cell(B)) : F = Finish(w) /\ Locates(e, F)
  BY FinishCells
<1>2. e \in Entry(B)
  <2>1. w.entries \in Seq(Entry(B))
    BY FinishCells
  <2> QED
    BY <2>1, ElementOfSeq
<1>3. PICK id \in Seq(B), off \in Nat, len \in Nat :
          /\ id = e.id /\ off = e.offset /\ len = e.length
          /\ len = Len(id) /\ off + len <= Len(F)
          /\ \A j \in 1..len : F[off + j] = <<"byte", id[j]>>
  BY <1>1, <1>2 DEF Entry, Locates
<1>4. PICK blob \in Seq(Cell(B)) :
          /\ blob = BlobCells(id) /\ Len(blob) = len
          /\ \A j \in 1..len : blob[j] = <<"byte", id[j]>>
  BY <1>3, BlobCellsType
<1> DEFINE a == off + 1
<1> DEFINE z == off + len
<1> DEFINE s == SubSeq(F, a, z)
<1>5. /\ s \in Seq(Cell(B)) /\ Len(s) = len
      /\ \A j \in 1..len : s[j] = F[off + j]
  <2>1. /\ a \in Int /\ z \in Int /\ z - a + 1 = len
        /\ len = IF a <= z THEN z - a + 1 ELSE 0
        /\ \A j \in 1..len : a + j - 1 = off + j
    <3>1. a \in Int /\ z \in Int /\ z - a + 1 = len
      OBVIOUS
    <3>2. len = IF a <= z THEN z - a + 1 ELSE 0
      OBVIOUS
    <3>3. \A j \in 1..len : a + j - 1 = off + j
      OBVIOUS
    <3> QED
      BY <3>1, <3>2, <3>3
  <2>2. \A j \in a..z : j \in 1..Len(F)
    <3>1. Len(F) \in Nat
      BY LenProperties
    <3> QED
      BY <1>3, <3>1
  <2> HIDE DEF a, z
  <2>3. \A j \in a..z : F[j] \in Cell(B)
    BY <2>2, ElementOfSeq
  <2>4. /\ s \in Seq(Cell(B))
        /\ Len(s) = IF a <= z THEN z - a + 1 ELSE 0
        /\ \A j \in 1..(z - a + 1) : s[j] = F[a + j - 1]
    BY <2>1, <2>3, SubSeqProperties
  <2> HIDE DEF s
  <2>5. Len(s) = len
    BY <2>1, <2>4
  <2> QED
    BY <2>1, <2>4, <2>5
<1> HIDE DEF s
<1>6. s = blob
  <2>1. Len(s) = len /\ Len(blob) = len
    BY <1>4, <1>5
  <2>2. ASSUME NEW j \in 1..len PROVE s[j] = blob[j]
    <3>1. s[j] = F[off + j] /\ F[off + j] = <<"byte", id[j]>> /\ blob[j] = <<"byte", id[j]>>
      BY <1>3, <1>4, <1>5
    <3> QED
      BY <3>1, Zenon
  <2> QED
    BY <1>5, <2>1, <2>2, SeqEqual
<1> QED
  BY <1>1, <1>3, <1>4, <1>6 DEF s

-----------------------------------------------------------------------------
(* The bytes of a file                                                       *)

\* The function that Bytes chooses is the only one that satisfies its equation.
LEMMA BytesAre ==
    ASSUME NEW S, NEW r \in Seq(S), NEW g, g = [i \in 0..Len(r) |-> g[i]],
           g[0] = <<>>, \A i \in 1..Len(r) : g[i] = g[i - 1] \o r[i]
    PROVE  Bytes(r) = g[Len(r)]
<1> DEFINE Satisfies(b) == b = [i \in 0..Len(r) |-> IF i = 0 THEN <<>> ELSE b[i - 1] \o r[i]]
<1> DEFINE c == CHOOSE b : Satisfies(b)
<1>0. Len(r) \in Nat
  OBVIOUS
<1>1. Satisfies(g)
  <2>1. \A i \in 0..Len(r) : i # 0 => i \in 1..Len(r)
    BY <1>0
  <2>2. \A i \in 0..Len(r) : g[i] = IF i = 0 THEN <<>> ELSE g[i - 1] \o r[i]
    BY <2>1
  <2> QED
    BY <2>2, Zenon
<1>2. Satisfies(c)
  BY <1>1, Zenon
<1>3. Bytes(r) = c[Len(r)]
  BY Zenon DEF Bytes
<1> HIDE DEF c
<1>4. \A i \in 0..Len(r) : c[i] = IF i = 0 THEN <<>> ELSE c[i - 1] \o r[i]
  BY <1>2
<1> DEFINE wrong == {i \in 0..Len(r) : c[i] # g[i]}
<1>5. wrong = {}
  <2> SUFFICES ASSUME wrong # {} PROVE FALSE
    OBVIOUS
  <2>1. wrong \in SUBSET Nat
    BY <1>0
  <2>2. PICK x \in wrong : \A y \in wrong : <<y, x>> \notin OpToRel(<, Nat)
    BY <2>1, NatLessThanWellFounded, WFMin
  <2>3. \A y \in wrong : ~(y < x)
    BY <2>1, <2>2 DEF OpToRel
  <2>4. x # 0 /\ x \in 0..Len(r)
    BY <1>4, <2>2
  <2>5. x - 1 \in 0..Len(r) /\ x - 1 < x /\ x \in 1..Len(r)
    BY <1>0, <2>4
  <2>6. c[x - 1] = g[x - 1]
    BY <2>3, <2>5
  <2> QED
    BY <1>4, <2>2, <2>5, <2>6
<1>6. Len(r) \in 0..Len(r)
  BY <1>0
<1>7. c[Len(r)] = g[Len(r)]
  BY <1>5, <1>6
<1> QED
  BY <1>3, <1>7, Zenon

-----------------------------------------------------------------------------
(* The invariant: what is read                                               *)

\* A chunk, which is a blob.
Blob == {b \in Seq(Byte) : Len(b) \in 1..MaxSize}

\* All of the last file has gone to the assembler.
InputDone == current = Len(tree) /\ ended = "eof" /\ sent = Len(chunks)

\* The recipes are the chunks: all of the files before, and what has been sent
\* of the one in the chunker.
InputInv ==
    /\ ChunkInv
    /\ phase \in {"backup", "saved", "open", "failed"}
    /\ tree \in Trees /\ current \in 1..Len(tree) /\ stream = tree[current]
    /\ sent \in 0..Len(chunks)
    /\ recipes \in [1..Len(tree) -> Seq(Blob)]
    /\ Len(recipes[current]) = sent
    /\ \A j \in 1..sent : recipes[current][j] = chunks[j].data
    /\ \A i \in 1..(current - 1) : Bytes(recipes[i]) = tree[i]
    /\ \A i \in (current + 1)..Len(tree) : recipes[i] = <<>>
    /\ saving.at # "no" => phase = "backup" /\ InputDone /\ writer.entries = <<>>
    /\ phase \in {"saved", "open"} => InputDone

\* What has been read back.
OutputInv ==
    /\ restored \in Seq(Seq(Seq(Byte))) /\ Len(restored) <= Len(tree)
    /\ \A i \in 1..Len(restored) : Bytes(restored[i]) = tree[i]

-----------------------------------------------------------------------------
(* The invariant: what is stored                                             *)

\* Where an entry of a pack says that its blob is.
Place(e, p) ==
    [id |-> e.id, location |-> [pack |-> p, offset |-> e.offset, length |-> e.length]]
Places(p, entries) == {Place(entries[i], p) : i \in DOMAIN entries}
EntriesIn(p) == ReadPackHeader(p).entries
Found(P) == UNION {Places(p, EntriesIn(p)) : p \in P}

\* A pack whose header can be read and is true.
Sound(p) ==
    /\ ReadPackHeader(p).kind = "header"
    /\ EntriesIn(p) \in Seq(Entry(Byte)) \ {<<>>}
    /\ \A i \in 1..Len(EntriesIn(p)) :
          LET e == EntriesIn(p)[i]
          IN  e.id \in Blob /\ GetRange(p, e.offset, e.length) = BlobCells(e.id)

\* The packs, stored or waiting to be, and the entries not yet inserted.
AllPacks == DOMAIN packs \cup {x.cells : x \in packCh}
Pending == UNION {Places(u.pack, u.entries) : u \in uploads}

PackInv ==
    /\ \A x \in packCh : Sound(x.cells) /\ x.entries = EntriesIn(x.cells)
    /\ \A p \in DOMAIN packs : Sound(p) /\ packs[p] = p
    /\ uploads \subseteq [pack : DOMAIN packs, entries : Seq(Entry(Byte)) \ {<<>>}]
    /\ Pending \subseteq Found(DOMAIN packs)

\* Each of a set of blobs is in one of the packs P, at one place, or else in the
\* writer w, once.
Held(w) == {w.entries[i].id : i \in 1..Len(w.entries)}
OnePlace(w, P, blobs) ==
    /\ WriterOK(w, Byte) /\ Held(w) \subseteq Blob
    /\ \A i, j \in 1..Len(w.entries) : w.entries[i].id = w.entries[j].id => i = j
    /\ \A r, s \in Found(P) : r.id = s.id => r = s
    /\ \A r \in Found(P) : r.id \notin Held(w)
    /\ blobs = {r.id : r \in Found(P)} \cup Held(w)

\* So is each blob of the run, and those are the blobs of the recipes.
BlobInv ==
    /\ OnePlace(writer, AllPacks, inFlight)
    /\ \A i \in 1..Len(tree) : \A j \in 1..Len(recipes[i]) : recipes[i][j] \in inFlight

\* The index is true, and lacks only what is not yet inserted.
IndexInv ==
    /\ idx = [b \in DOMAIN idx |-> idx[b]] /\ IsFiniteSet(DOMAIN idx)
    /\ \A b \in DOMAIN idx : [id |-> b, location |-> idx[b]] \in Found(DOMAIN packs)
    /\ \A r \in Found(DOMAIN packs) : r.id \in DOMAIN idx \/ r \in Pending

-----------------------------------------------------------------------------
(* The invariant: what is saved                                              *)

\* Nothing is left to pack, to store or to insert.
Settled == writer.entries = <<>> /\ packCh = {} /\ uploads = {}

\* The blobs of the shards before s, and their records.
Below(s) == {b \in DOMAIN idx : ShardOf(b) < s}
Record(b) == <<"record", [id |-> b, location |-> idx[b]]>>
IndexCell ==
    {<<"magic", 0>>, <<"count", Cardinality(DOMAIN idx)>>} \cup {Record(b) : b \in DOMAIN idx}

\* The cells are the index object up to the records of shard s.
Written(cells, s) ==
    /\ cells \in Seq(IndexCell) /\ Len(cells) = 2 + Cardinality(Below(s))
    /\ cells[1] = <<"magic", 0>> /\ cells[2] = <<"count", Cardinality(DOMAIN idx)>>
    /\ {cells[i] : i \in 3..Len(cells)} = {Record(b) : b \in Below(s)}

SaveInv ==
    /\ phase = "backup" => damaged = {}
    /\ saving.at # "no" => phase = "backup" /\ Settled
    /\ phase \in {"saved", "open"} => Settled
    /\ \/ saving = NotSaving
       \/ /\ saving \in [at : {"count", "write"}, shard : 1..NumShards, count : Nat,
                         cells : Seq(IndexCell)]
          /\ saving.at = "count" => saving.count = Cardinality(Below(saving.shard))
          /\ saving.at = "write" => Written(saving.cells, saving.shard)
    /\ phase = "saved" => IF damaged = {} THEN Written(indexObject, NumShards + 1)
                          ELSE ~IndexDecodes(indexObject)

\* The run has not failed, and every pack is what it was.
Intact == phase # "failed" /\ damaged \subseteq {"index"}

StoreInv == Intact => PackInv /\ BlobInv /\ IndexInv /\ SaveInv

-----------------------------------------------------------------------------
(* What is read                                                              *)

\* Put together, the chunks of a file that has been read to its end are the file.
LEMMA WholeFile ==
    ASSUME ChunkInv, ended = "eof", NEW r \in Seq(Blob), Len(r) = Len(chunks),
           \A j \in 1..Len(chunks) : r[j] = chunks[j].data
    PROVE  Bytes(r) = stream
<1> DEFINE k == Len(chunks)
<1> DEFINE upTo(i) == IF i = 0 THEN 0 ELSE End(chunks[i])
<1>1. /\ ChunkerTypeOK /\ stream \in Seq(Byte) /\ Len(stream) \in Nat /\ k \in Nat
      /\ \A i \in 1..k : chunks[i].offset \in Nat /\ Len(chunks[i].data) \in Nat
  BY Sizes DEF ChunkInv, ChunkerTypeOK
<1>2. offset = Len(stream)
  <2>1. buf = <<>> /\ taken = Len(stream) /\ offset + Len(buf) = taken
    BY DEF ChunkInv, BufferIsNext
  <2>2. Len(buf) = 0 /\ offset \in Nat
    BY <2>1, EmptySeq DEF ChunkInv, ChunkerTypeOK
  <2> QED
    BY <2>1, <2>2
<1>3. ASSUME NEW i \in 1..k
      PROVE  /\ chunks[i].offset = upTo(i - 1)
             /\ r[i] = SubSeq(stream, upTo(i - 1) + 1, upTo(i))
             /\ upTo(i - 1) \in 0..Len(stream) /\ upTo(i) \in upTo(i - 1)..Len(stream)
  <2>1. i # 0 /\ (i # 1 => i - 1 \in 1..k /\ i - 1 # 0 /\ i - 1 # k /\ (i - 1) + 1 = i)
    BY <1>1
  <2>2. chunks[i].offset = upTo(i - 1)
    <3>1. CASE i = 1
      <4>1. chunks # <<>>
        BY <3>1
      <4> QED
        BY <3>1, <4>1 DEF ChunkInv, Tiles
    <3>2. CASE i # 1
      BY <2>1, <3>2 DEF ChunkInv, Tiles
    <3> QED
      BY <3>1, <3>2
  <2>3. /\ chunks[i].data = SubSeq(stream, chunks[i].offset + 1, End(chunks[i]))
        /\ End(chunks[i]) <= offset
    BY DEF ChunkInv, Tiles
  <2>4. End(chunks[i]) \in chunks[i].offset..Len(stream)
    BY <1>1, <1>2, <2>3 DEF End
  <2>5. upTo(i) = End(chunks[i])
    BY <2>1
  <2>6. chunks[i].offset \in 0..Len(stream)
    BY <1>1, <2>4
  <2> HIDE DEF upTo
  <2> QED
    BY <2>2, <2>3, <2>4, <2>5, <2>6
<1>4. upTo(k) = Len(stream) /\ upTo(0) = 0
  <2>1. CASE k = 0
    <3>1. chunks = <<>>
      BY <1>1, <2>1, EmptySeq DEF ChunkerTypeOK
    <3> QED
      BY <1>2, <2>1, <3>1 DEF ChunkInv, Tiles
  <2>2. CASE k # 0
    <3>1. k \in 1..k
      BY <1>1, <2>2
    <3> QED
      BY <1>2, <2>2, <3>1 DEF ChunkInv, Tiles
  <2> QED
    BY <2>1, <2>2
<1> HIDE DEF upTo
<1> DEFINE g == [i \in 0..k |-> SubSeq(stream, 1, upTo(i))]
<1>5. g[0] = <<>>
  <2>1. SubSeq(stream, 1, 0) = <<>>
    BY <1>1, SubSeqEmpty
  <2> QED
    BY <1>1, <1>4, <2>1
<1>6. ASSUME NEW i \in 1..k PROVE g[i] = g[i - 1] \o r[i]
  <2>1. i \in 0..k /\ i - 1 \in 0..k
    BY <1>1
  <2>2. g[i] = SubSeq(stream, 1, upTo(i)) /\ g[i - 1] = SubSeq(stream, 1, upTo(i - 1))
    BY <2>1
  <2>3. PICK m \in 0..Len(stream), n \in Nat :
            m = upTo(i - 1) /\ n = upTo(i) /\ n \in m..Len(stream)
    BY <1>1, <1>3
  <2>4. SubSeq(stream, 0 + 1, m) \o SubSeq(stream, m + 1, n) = SubSeq(stream, 0 + 1, n)
    <3>1. 0 \in Nat /\ 0 <= m
      BY <1>1, <2>3
    <3> QED
      BY <1>1, <2>3, <3>1, ReadAppends
  <2>5. 0 + 1 = 1
    OBVIOUS
  <2> QED
    BY <1>3, <2>2, <2>3, <2>4, <2>5
<1>7. g[k] = stream
  <2>1. SubSeq(stream, 1, Len(stream)) = stream
    BY <1>1, SubSeqFull
  <2> QED
    BY <1>1, <1>4, <2>1
<1>8. g = [i \in 0..Len(r) |-> g[i]] /\ Len(r) = k
  OBVIOUS
<1> HIDE DEF g
<1>9. Bytes(r) = g[Len(r)]
  BY <1>5, <1>6, <1>8, BytesAre
<1> QED
  BY <1>7, <1>8, <1>9

\* A step that is not one of the chunker's, the assembler's or to the next file.
Others ==
    /\ UNCHANGED <<chunker, input>>
    /\ phase' \in {"backup", "saved", "open", "failed"}
    /\ saving'.at # "no" => phase' = "backup" /\ InputDone /\ writer'.entries = <<>>
    /\ phase' \in {"saved", "open"} => InputDone

LEMMA InputCases ==
    ASSUME InputInv, [PathNext]_pathVars
    PROVE  Chunk \/ Assemble \/ NextFile \/ Others
<1>0. /\ phase \in {"backup", "saved", "open", "failed"}
      /\ saving.at # "no" => phase = "backup" /\ InputDone /\ writer.entries = <<>>
      /\ phase \in {"saved", "open"} => InputDone
  BY DEF InputInv
<1>1. CASE ReadFailed
  <2>1. phase' = "failed" /\ saving' = saving /\ ended = "failed" /\ UNCHANGED <<chunker, input>>
    BY <1>1 DEF ReadFailed, uploaders
  <2> QED
    BY <1>0, <2>1 DEF Others, InputDone
<1>2. CASE LastFlush
  <2>1. /\ writer.entries # <<>> /\ saving' = saving /\ phase' \in {phase, "failed"}
        /\ phase = "backup" /\ UNCHANGED <<chunker, input>>
    BY <1>2 DEF LastFlush, Flush, FileEnds
  <2> QED
    BY <1>0, <2>1 DEF Others
<1>3. CASE PutPack
  <2>1. UNCHANGED <<chunker, input, assembler, saving, phase>>
    BY <1>3 DEF PutPack, StorePack, InsertEntry
  <2> QED
    BY <1>0, <2>1 DEF Others, assembler
<1>4. CASE StartSave
  <2>1. /\ phase = "backup" /\ InputDone /\ writer.entries = <<>>
        /\ UNCHANGED <<chunker, input, assembler, phase>>
    BY <1>4 DEF StartSave, AllPacked, FileEnds, InputDone
  <2> QED
    BY <2>1 DEF Others, assembler
<1>5. CASE CountShard
  <2>1. saving.at # "no" /\ UNCHANGED <<chunker, input, assembler, phase>>
    BY <1>5 DEF CountShard
  <2> QED
    BY <1>0, <2>1 DEF Others, assembler
<1>6. CASE WriteShard
  <2>1. /\ saving.at # "no" /\ UNCHANGED <<chunker, input, assembler>>
        /\ phase' = phase \/ (phase' = "saved" /\ saving' = NotSaving)
    BY <1>6, Zenon DEF WriteShard
  <2> QED
    BY <1>0, <2>1 DEF Others, assembler, NotSaving
<1>7. CASE DamageIndex \/ DamageRecord \/ DamagePack \/ Stop \/ UNCHANGED pathVars
  <2>1. UNCHANGED <<chunker, input, assembler, saving, phase>>
    BY <1>7 DEF DamageIndex, DamageRecord, DamagePack, Stop, pathVars, uploaders
  <2> QED
    BY <1>0, <2>1 DEF Others, assembler
<1>8. CASE LoadIndex \/ RebuildIndex \/ RestoreFile
  <2>1. /\ phase \in {"saved", "open"} /\ phase' \in {"saved", "open", "failed"}
        /\ UNCHANGED <<chunker, input, saving>>
    BY <1>8 DEF LoadIndex, RebuildIndex, RestoreFile, uploaders
  <2> QED
    BY <1>0, <2>1 DEF Others
<1> QED
  BY <1>1, <1>2, <1>3, <1>4, <1>5, <1>6, <1>7, <1>8 DEF PathNext, SaveIndex, WriteTo

\* Chunks are blobs.
LEMMA ChunksAreBlobs ==
    ASSUME ChunkInv
    PROVE  \A j \in 1..Len(chunks) : chunks[j].data \in Blob
<1> SUFFICES ASSUME NEW j \in 1..Len(chunks) PROVE chunks[j].data \in Blob
  OBVIOUS
<1>1. chunks[j].data \in Seq(Byte)
  BY Sizes DEF ChunkInv
<1>2. Len(chunks[j].data) \in 1..MaxSize
  BY DEF ChunkInv, ShortIsLast
<1> QED
  BY <1>1, <1>2 DEF Blob

LEMMA InputInit == PathInit => InputInv /\ OutputInv
<1> SUFFICES ASSUME PathInit PROVE InputInv /\ OutputInv
  OBVIOUS
<1>1. ChunkInv
  BY ChunkInit DEF PathInit
<1>2. tree \in Seq(Streams) /\ tree # <<>> /\ current = 1
  BY TreesAssumption DEF PathInit
<1>3. Len(tree) \in Nat /\ DOMAIN tree = 1..Len(tree) /\ 1 \in 1..Len(tree)
  BY <1>2
<1>4. /\ sent = 0 /\ recipes = [i \in 1..Len(tree) |-> <<>>] /\ chunks = <<>> /\ Len(chunks) = 0
      /\ stream = tree[1] /\ tree \in Trees /\ phase = "backup"
  BY <1>3 DEF PathInit, Init
<1>5. saving.at = "no"
  BY DEF PathInit, NotSaving
<1>6. recipes \in [1..Len(tree) -> Seq(Blob)] /\ Len(recipes[1]) = 0
  <2>1. <<>> \in Seq(Blob) /\ Len(<<>>) = 0
    OBVIOUS
  <2> QED
    BY <1>3, <1>4, <2>1
<1>7. \A i \in 2..Len(tree) : recipes[i] = <<>>
  BY <1>3, <1>4
<1>8. InputInv
  BY <1>1, <1>2, <1>3, <1>4, <1>5, <1>6, <1>7 DEF InputInv
<1>9. OutputInv
  <2>1. restored = <<>> /\ Len(restored) = 0
    BY DEF PathInit
  <2> QED
    BY <1>3, <2>1 DEF OutputInv
<1> QED
  BY <1>8, <1>9

LEMMA InitAgain == Init' => ChunkInv'
BY ChunkInit, PTL

LEMMA InputKept ==
    ASSUME InputInv, [PathNext]_pathVars
    PROVE  InputInv'
<1>1. /\ ChunkInv /\ phase \in {"backup", "saved", "open", "failed"}
      /\ tree \in Trees /\ current \in 1..Len(tree) /\ stream = tree[current]
      /\ sent \in 0..Len(chunks) /\ recipes \in [1..Len(tree) -> Seq(Blob)]
      /\ Len(recipes[current]) = sent
      /\ \A j \in 1..sent : recipes[current][j] = chunks[j].data
      /\ \A i \in 1..(current - 1) : Bytes(recipes[i]) = tree[i]
      /\ \A i \in (current + 1)..Len(tree) : recipes[i] = <<>>
      /\ saving.at # "no" => phase = "backup" /\ InputDone /\ writer.entries = <<>>
      /\ phase \in {"saved", "open"} => InputDone
  BY DEF InputInv
<1>2. tree \in Seq(Streams) /\ Len(tree) \in Nat
  BY <1>1, TreesAssumption
<1>3. chunks \in Seq([offset : Nat, data : Seq(Byte)]) /\ Len(chunks) \in Nat
  BY <1>1 DEF ChunkInv, ChunkerTypeOK
<1>4. CASE Chunk
  <2>1. Next /\ UNCHANGED <<tree, current, sent, recipes, saving, phase>>
    BY <1>4 DEF Chunk, input, uploaders
  <2>2. ChunkInv'
    BY <1>1, <2>1, ChunkKept
  <2>3. stream' = stream /\ ended = "no"
    BY <2>1 DEF Next, Read, ReturnChunk, ReturnEnd, reader
  <2>4. /\ Len(chunks') \in Nat /\ Len(chunks) <= Len(chunks')
        /\ \A j \in 1..Len(chunks) : chunks'[j] = chunks[j]
    <3>1. CASE chunks' = chunks
      BY <1>3, <3>1
    <3>2. CASE ReturnChunk
      <4>1. PICK c : chunks' = Append(chunks, c)
        BY <3>2 DEF ReturnChunk
      <4> QED
        BY <1>3, <4>1
    <3> QED
      BY <2>1, <3>1, <3>2 DEF Next, Read, ReturnEnd
  <2>5. sent' \in 0..Len(chunks') /\ \A j \in 1..sent' : j \in 1..Len(chunks)
    BY <1>1, <1>3, <2>1, <2>4
  <2>6. \A j \in 1..sent' : recipes'[current'][j] = chunks'[j].data
    BY <1>1, <2>1, <2>4, <2>5
  <2>7. ~InputDone
    BY <2>3 DEF InputDone
  <2> QED
    BY <1>1, <2>1, <2>2, <2>3, <2>5, <2>6, <2>7 DEF InputInv
<1>5. CASE Assemble
  <2> DEFINE blob == chunks[sent + 1].data
  <2>1. /\ sent < Len(chunks) /\ sent' = sent + 1 /\ phase = "backup"
        /\ recipes' = [recipes EXCEPT ![current] = Append(@, blob)]
        /\ UNCHANGED <<chunker, tree, current, saving>>
    BY <1>5 DEF Assemble
  <2>2. phase' \in {"backup", "failed"}
    BY <1>5 DEF Assemble, Flush
  <2>3. ChunkInv'
    BY <1>1, <2>1, ChunkKept
  <2>4. sent + 1 \in 1..Len(chunks) /\ blob \in Blob
    BY <1>1, <1>3, <2>1, ChunksAreBlobs
  <2>5. stream' = stream /\ chunks' = chunks /\ ended' = ended
    BY <2>1 DEF chunker, reader
  <2> HIDE DEF blob
  <2>6. PICK r \in Seq(Blob) : r = recipes[current] /\ Len(r) = sent
    BY <1>1
  <2>7. /\ Append(r, blob) \in Seq(Blob) /\ Len(Append(r, blob)) = sent + 1
        /\ \A j \in 1..sent : Append(r, blob)[j] = r[j]
        /\ Append(r, blob)[sent + 1] = blob
    BY <2>4, <2>6, AppendProperties
  <2>8. recipes' \in [1..Len(tree) -> Seq(Blob)] /\ recipes'[current] = Append(r, blob)
        /\ \A i \in 1..Len(tree) : i # current => recipes'[i] = recipes[i]
    BY <1>1, <2>1, <2>6, <2>7
  <2>9. ASSUME NEW j \in 1..(sent + 1) PROVE recipes'[current][j] = chunks[j].data
    <3>1. CASE j = sent + 1
      BY <2>7, <2>8, <3>1 DEF blob
    <3>2. CASE j \in 1..sent
      BY <1>1, <2>6, <2>7, <2>8, <3>2
    <3> QED
      BY <1>1, <1>3, <3>1, <3>2
  <2>10. \A i \in 1..(current - 1) : Bytes(recipes'[i]) = tree[i]
    <3>1. \A i \in 1..(current - 1) : i \in 1..Len(tree) /\ i # current
      BY <1>1, <1>2
    <3> QED
      BY <1>1, <2>8, <3>1
  <2>11. \A i \in (current + 1)..Len(tree) : recipes'[i] = <<>>
    <3>1. \A i \in (current + 1)..Len(tree) : i \in 1..Len(tree) /\ i # current
      BY <1>1, <1>2
    <3> QED
      BY <1>1, <2>8, <3>1
  <2>12. ~InputDone /\ sent + 1 \in 0..Len(chunks)
    BY <1>1, <1>3, <2>1 DEF InputDone
  <2>13. ~(saving'.at # "no" \/ phase' \in {"saved", "open"})
    BY <1>1, <2>1, <2>2, <2>12
  <2> QED
    BY <1>1, <2>1, <2>2, <2>3, <2>5, <2>7, <2>8, <2>9, <2>10, <2>11, <2>12, <2>13 DEF InputInv
<1>6. CASE NextFile
  <2>1. /\ ended = "eof" /\ sent = Len(chunks) /\ phase = "backup" /\ current < Len(tree)
        /\ current' = current + 1 /\ sent' = 0 /\ stream' = tree[current + 1] /\ taken' = 0
        /\ buf' = <<>> /\ err' = "none" /\ offset' = 0 /\ chunks' = <<>> /\ ended' = "no"
        /\ UNCHANGED <<tree, recipes, saving, phase>>
    BY <1>6 DEF NextFile, FileEnds, uploaders
  <2>2. current + 1 \in 1..Len(tree) /\ current + 1 \in (current + 1)..Len(tree)
    BY <1>1, <1>2, <2>1
  <2>3. ChunkInv'
    <3>1. stream' \in Streams
      BY <1>2, <2>1, <2>2, ElementOfSeq
    <3>2. Init'
      BY <2>1, <3>1 DEF Init
    <3> QED
      BY <3>2, InitAgain
  <2>4. recipes[current + 1] = <<>> /\ Len(recipes[current + 1]) = 0 /\ Len(chunks') = 0
    BY <1>1, <2>1, <2>2
  <2>5. Bytes(recipes[current]) = tree[current]
    <3>1. PICK r \in Seq(Blob) : r = recipes[current]
      BY <1>1
    <3> QED
      BY <1>1, <2>1, <3>1, WholeFile
  <2>6. \A i \in 1..((current + 1) - 1) : Bytes(recipes[i]) = tree[i]
    <3>1. \A i \in 1..((current + 1) - 1) : i = current \/ i \in 1..(current - 1)
      BY <1>1, <1>2
    <3> QED
      BY <1>1, <2>5, <3>1
  <2>7. \A i \in ((current + 1) + 1)..Len(tree) : recipes[i] = <<>>
    <3>1. \A i \in ((current + 1) + 1)..Len(tree) : i \in (current + 1)..Len(tree)
      BY <1>1, <1>2
    <3> QED
      BY <1>1, <3>1
  <2>8. ~InputDone
    BY <1>1, <1>2, <2>1 DEF InputDone
  <2>9. ~(saving'.at # "no" \/ phase' \in {"saved", "open"})
    BY <1>1, <2>1, <2>8
  <2> QED
    BY <1>1, <2>1, <2>2, <2>3, <2>4, <2>6, <2>7, <2>9 DEF InputInv
<1>7. CASE Others
  <2>1. UNCHANGED <<chunker, stream, chunks, ended, tree, current, sent, recipes>>
    BY <1>7 DEF Others, input, chunker, reader
  <2>2. ChunkInv'
    BY <1>1, <2>1, ChunkKept
  <2>3. phase' \in {"backup", "saved", "open", "failed"}
    BY <1>1, <1>7 DEF Others
  <2>4. /\ saving'.at # "no" => phase' = "backup" /\ InputDone' /\ writer'.entries = <<>>
        /\ phase' \in {"saved", "open"} => InputDone'
    BY <1>7, <2>1 DEF Others, InputDone
  <2> QED
    BY <1>1, <2>1, <2>2, <2>3, <2>4 DEF InputInv
<1> QED
  BY <1>4, <1>5, <1>6, <1>7, InputCases

\* What GetBlob returns, if it does, is the blob.
LEMMA BlobOfCells ==
    ASSUME NEW b \in Blob, Readable(b)
    PROVE  GetBlob(b) = b
<1> DEFINE cells == GetRange(packs[idx[b].pack], idx[b].offset, idx[b].length)
<1>1. cells = BlobCells(b)
  BY DEF Readable
<1> HIDE DEF cells
<1>2. b \in Seq(Byte)
  BY DEF Blob
<1>3. /\ cells \in Seq(Cell(Byte)) /\ Len(cells) = Len(b)
      /\ \A i \in 1..Len(b) : cells[i] = <<"byte", b[i]>>
  BY <1>1, <1>2, BlobCellsType
<1>4. \A i \in 1..Len(b) : cells[i][2] = b[i]
  <2> TAKE i \in 1..Len(b)
  <2>1. <<"byte", b[i]>>[2] = b[i]
    OBVIOUS
  <2> QED
    BY <1>3, <2>1, Zenon
<1>5. DOMAIN cells = 1..Len(b)
  BY <1>3
<1>6. [i \in DOMAIN cells |-> cells[i][2]] = [i \in 1..Len(b) |-> b[i]]
  BY <1>4, <1>5
<1>7. [i \in 1..Len(b) |-> b[i]] = b
  BY <1>2
<1> QED
  BY <1>6, <1>7 DEF GetBlob, cells

\* While a restore goes on the recipes are those of whole files.
LEMMA RecipesWhole ==
    ASSUME InputInv, phase = "open"
    PROVE  \A i \in 1..Len(tree) : recipes[i] \in Seq(Blob) /\ Bytes(recipes[i]) = tree[i]
<1> SUFFICES ASSUME NEW i \in 1..Len(tree)
             PROVE  recipes[i] \in Seq(Blob) /\ Bytes(recipes[i]) = tree[i]
  OBVIOUS
<1>1. /\ ChunkInv /\ stream = tree[current] /\ current \in 1..Len(tree)
      /\ recipes \in [1..Len(tree) -> Seq(Blob)] /\ Len(recipes[current]) = sent
      /\ \A j \in 1..sent : recipes[current][j] = chunks[j].data
      /\ \A n \in 1..(current - 1) : Bytes(recipes[n]) = tree[n]
      /\ current = Len(tree) /\ ended = "eof" /\ sent = Len(chunks)
  BY DEF InputInv, InputDone
<1>2. CASE i = current
  <2>1. PICK r \in Seq(Blob) : r = recipes[current]
    BY <1>1
  <2> QED
    BY <1>1, <1>2, <2>1, WholeFile
<1>3. CASE i # current
  <2>1. i \in 1..(current - 1)
    BY <1>1, <1>3
  <2> QED
    BY <1>1, <2>1
<1> QED
  BY <1>2, <1>3

LEMMA OutputKept ==
    ASSUME InputInv, OutputInv, [PathNext]_pathVars
    PROVE  OutputInv'
<1>1. /\ restored \in Seq(Seq(Seq(Byte))) /\ Len(restored) <= Len(tree)
      /\ \A i \in 1..Len(restored) : Bytes(restored[i]) = tree[i]
  BY DEF OutputInv
<1>2. tree' = tree
  BY InputCases DEF Chunk, Assemble, NextFile, Others, input
<1>3. CASE RestoreFile /\ restored' # restored
  <2> DEFINE n == Len(restored) + 1
  <2>1. Len(tree) \in Nat /\ Len(restored) \in Nat
    BY <1>1, TreesAssumption DEF InputInv
  <2>2. n \in 1..Len(tree) /\ phase = "open"
    BY <1>3, <2>1 DEF RestoreFile
  <2>3. PICK r \in Seq(Blob) : r = recipes[n] /\ Bytes(r) = tree[n]
    BY <2>2, RecipesWhole
  <2>4. /\ \A i \in DOMAIN r : Readable(r[i])
        /\ restored' = Append(restored, [i \in DOMAIN r |-> GetBlob(r[i])])
    BY <1>3, <2>3 DEF RestoreFile
  <2>5. [i \in DOMAIN r |-> GetBlob(r[i])] = r
    <3>1. \A i \in DOMAIN r : r[i] \in Blob
      BY <2>3
    <3>2. \A i \in DOMAIN r : GetBlob(r[i]) = r[i]
      BY <2>4, <3>1, BlobOfCells
    <3> QED
      BY <3>2
  <2>6. r \in Seq(Seq(Byte))
    BY <2>3 DEF Blob
  <2>7. /\ restored' \in Seq(Seq(Seq(Byte))) /\ Len(restored') = n
        /\ restored'[n] = r /\ \A i \in 1..Len(restored) : restored'[i] = restored[i]
    <3>1. restored' = Append(restored, r)
      BY <2>4, <2>5
    <3> QED
      BY <1>1, <2>6, <3>1, AppendProperties
  <2>8. \A i \in 1..n : Bytes(restored'[i]) = tree[i]
    <3>1. \A i \in 1..n : i = n \/ i \in 1..Len(restored)
      BY <2>1
    <3> QED
      BY <1>1, <2>3, <2>7, <3>1
  <2>9. n <= Len(tree)
    BY <2>1, <2>2
  <2> HIDE DEF n
  <2> QED
    BY <1>2, <2>7, <2>8, <2>9 DEF OutputInv
<1>4. CASE restored' = restored
  BY <1>1, <1>2, <1>4 DEF OutputInv
<1>5. RestoreFile \/ restored' = restored
  <2>1. CASE PathNext
    BY <2>1 DEF PathNext, Chunk, Assemble, ReadFailed, NextFile, LastFlush, PutPack, StorePack,
      InsertEntry, SaveIndex, StartSave, WriteTo, CountShard, WriteShard, DamageIndex,
      DamageRecord, DamagePack, LoadIndex, RebuildIndex, Stop, pathVars
  <2>2. CASE UNCHANGED pathVars
    BY <2>2 DEF pathVars
  <2> QED
    BY <2>1, <2>2
<1> QED
  BY <1>3, <1>4, <1>5

LEMMA InputAlways == PathSpec => [](InputInv /\ OutputInv)
<1>1. InputInv /\ OutputInv /\ [PathNext]_pathVars => (InputInv /\ OutputInv)'
  BY InputKept, OutputKept
<1> QED
  BY <1>1, InputInit, PTL DEF PathSpec

\* The chunker that a backup starts again for each file keeps what it promises
\* for one.
THEOREM ChunksOfEveryFile ==
    PathSpec => [](ChunkerTypeOK /\ EveryByteOnce /\ SizesBounded /\ ContentDefined)
<1>1. InputInv => ChunkInv
  BY DEF InputInv
<1> QED
  BY <1>1, ChunksAre, InputAlways, PTL

\* Whatever has happened to the index object, its records and the packs, a file
\* that a restore returns without an error is the file that the backup read
\* (GetBlob verifies what it has read against the blob's ID).
THEOREM RestoreIsExact == PathSpec => []RestoredExactly
<1>1. OutputInv => RestoredExactly
  <2> SUFFICES ASSUME OutputInv, NEW i \in DOMAIN restored PROVE Bytes(restored[i]) = tree[i]
    BY DEF RestoredExactly
  <2>1. DOMAIN restored = 1..Len(restored)
    BY DEF OutputInv
  <2> QED
    BY <2>1 DEF OutputInv
<1> QED
  BY <1>1, InputAlways, PTL

-----------------------------------------------------------------------------
(* Writers and packs                                                         *)

LEMMA FoundInMore ==
    /\ \A P, Q : Found(P \cup Q) = Found(P) \cup Found(Q)
    /\ \A p : Found({p}) = Places(p, EntriesIn(p))
    /\ Found({}) = {}
BY DEF Found

LEMMA EmptyWriter ==
    /\ WriterOK(NewWriter, Byte) /\ NewWriter.entries = <<>> /\ Len(NewWriter.entries) = 0
    /\ Held(NewWriter) = {}
<1>1. NewWriter.entries = <<>> /\ Len(<<>>) = 0
  BY DEF NewWriter
<1> QED
  BY <1>1, AddKeepsEntries DEF Held

\* A blob that is new goes to the end of the writer.
LEMMA AddsBlob ==
    ASSUME NEW w, NEW P, NEW blobs, OnePlace(w, P, blobs), NEW blob \in Blob, blob \notin blobs
    PROVE  OnePlace(Add(w, blob), P, blobs \cup {blob}) /\ Add(w, blob).entries # <<>>
<1>0. /\ WriterOK(w, Byte) /\ Held(w) \subseteq Blob
      /\ \A i, j \in 1..Len(w.entries) : w.entries[i].id = w.entries[j].id => i = j
      /\ \A r, s \in Found(P) : r.id = s.id => r = s
      /\ \A r \in Found(P) : r.id \notin Held(w)
      /\ blobs = {r.id : r \in Found(P)} \cup Held(w)
  BY DEF OnePlace
<1>1. blob \in Seq(Byte)
  BY DEF Blob
<1>2. WriterOK(Add(w, blob), Byte)
  BY <1>0, <1>1, AddKeepsEntries
<1> DEFINE e == [id |-> blob, offset |-> w.offset, length |-> Len(blob)]
<1>3. PICK entries \in Seq(Entry(Byte)) : entries = w.entries
  BY <1>0 DEF WriterOK
<1>4. DOMAIN entries = 1..Len(entries) /\ Len(entries) \in Nat
  BY <1>3
<1>5. \A i \in 1..Len(entries) : entries[i].id # blob
  BY <1>0, <1>3 DEF Held
<1>6. Add(w, blob).entries = Append(entries, e)
  BY <1>3, <1>4, <1>5 DEF Add
<1>7. e \in Entry(Byte) /\ e.id = blob
  <2>1. w.offset \in Nat /\ Len(blob) \in Nat
    BY <1>0, <1>1 DEF WriterOK
  <2> QED
    BY <1>1, <2>1 DEF Entry
<1> HIDE DEF e
<1> DEFINE more == Append(entries, e)
<1>8. /\ Len(more) = Len(entries) + 1 /\ more[Len(entries) + 1] = e
      /\ \A i \in 1..Len(entries) : more[i] = entries[i]
  BY <1>3, <1>7, AppendProperties
<1>9. more # <<>>
  BY <1>4, <1>8
<1> HIDE DEF more
<1>10. \A i \in 1..Len(more) : i = Len(entries) + 1 \/ i \in 1..Len(entries)
  BY <1>4, <1>8
<1>11. {more[i].id : i \in 1..Len(more)} = {entries[i].id : i \in 1..Len(entries)} \cup {blob}
  <2>1. Len(entries) + 1 \in 1..Len(more) /\ \A i \in 1..Len(entries) : i \in 1..Len(more)
    BY <1>4, <1>8
  <2> QED
    BY <1>7, <1>8, <1>10, <2>1
<1>12. Held(Add(w, blob)) = Held(w) \cup {blob}
  <2>1. Add(w, blob).entries = more
    BY <1>6 DEF more
  <2>2. Held(Add(w, blob)) = {more[i].id : i \in 1..Len(more)}
    BY <2>1, Zenon DEF Held
  <2>3. Held(w) = {entries[i].id : i \in 1..Len(entries)}
    BY <1>3, Zenon DEF Held
  <2> QED
    BY <1>11, <2>2, <2>3
<1>13. \A i, j \in 1..Len(more) : more[i].id = more[j].id => i = j
  <2> TAKE i, j \in 1..Len(more)
  <2>1. CASE i \in 1..Len(entries) /\ j \in 1..Len(entries)
    BY <1>0, <1>3, <1>8, <2>1
  <2>2. CASE ~(i \in 1..Len(entries) /\ j \in 1..Len(entries))
    BY <1>5, <1>7, <1>8, <1>10, <2>2
  <2> QED
    BY <2>1, <2>2
<1>14. \A r \in Found(P) : r.id # blob
  BY <1>0
<1> QED
  BY <1>0, <1>2, <1>6, <1>9, <1>12, <1>13, <1>14 DEF OnePlace, more

\* What Finish returns is a pack whose header says what the writer had.
LEMMA FinishIsSound ==
    ASSUME NEW w, WriterOK(w, Byte), Held(w) \subseteq Blob, w.entries # <<>>, ~HeaderTooLong(w)
    PROVE  Sound(Finish(w)) /\ EntriesIn(Finish(w)) = w.entries
<1>1. ReadPackHeader(Finish(w)).kind = "header" /\ EntriesIn(Finish(w)) = w.entries
  BY HeaderFoundAgain DEF EntriesIn
<1>2. PICK entries \in Seq(Entry(Byte)) : entries = w.entries
  BY DEF WriterOK
<1>3. ASSUME NEW i \in 1..Len(entries), NEW e, e = entries[i]
      PROVE  e.id \in Blob /\ GetRange(Finish(w), e.offset, e.length) = BlobCells(e.id)
  <2>1. e.id \in Blob
    BY <1>2, <1>3 DEF Held
  <2>2. SubSeq(Finish(w), e.offset + 1, e.offset + e.length) = BlobCells(e.id)
    BY <1>2, <1>3, BlobsFoundAgain
  <2>3. e.offset + e.length <= Len(Finish(w)) /\ Finish(w) \in Seq(Cell(Byte))
    BY <1>2, <1>3, FinishCells DEF Locates
  <2>4. e.offset \in Nat /\ e.length \in Nat
    <3>1. e \in Entry(Byte)
      BY <1>2, <1>3, ElementOfSeq
    <3> QED
      BY <3>1 DEF Entry
  <2>5. ~(e.offset + e.length > Len(Finish(w)))
    BY <2>3, <2>4, LenProperties
  <2> QED
    BY <2>1, <2>2, <2>5 DEF GetRange
<1> QED
  BY <1>1, <1>2, <1>3 DEF Sound

\* A pack that is finished holds what its writer held.
LEMMA FlushesBlobs ==
    ASSUME NEW w, NEW P, NEW blobs, OnePlace(w, P, blobs), w.entries # <<>>, ~HeaderTooLong(w)
    PROVE  /\ OnePlace(NewWriter, P \cup {Finish(w)}, blobs)
           /\ Sound(Finish(w)) /\ EntriesIn(Finish(w)) = w.entries
<1>0. /\ WriterOK(w, Byte) /\ Held(w) \subseteq Blob
      /\ \A i, j \in 1..Len(w.entries) : w.entries[i].id = w.entries[j].id => i = j
      /\ \A r, s \in Found(P) : r.id = s.id => r = s
      /\ \A r \in Found(P) : r.id \notin Held(w)
      /\ blobs = {r.id : r \in Found(P)} \cup Held(w)
  BY DEF OnePlace
<1>1. Sound(Finish(w)) /\ EntriesIn(Finish(w)) = w.entries
  BY <1>0, FinishIsSound
<1> DEFINE new == Found({Finish(w)})
<1>2. PICK entries \in Seq(Entry(Byte)) : entries = w.entries
  BY <1>0 DEF WriterOK
<1>3. new = {Place(entries[i], Finish(w)) : i \in 1..Len(entries)}
  <2>1. DOMAIN entries = 1..Len(entries)
    BY <1>2
  <2> QED
    BY <1>1, <1>2, <2>1, FoundInMore DEF Places
<1>4. Found(P \cup {Finish(w)}) = Found(P) \cup new
  BY FoundInMore
<1> HIDE DEF new
<1>5. \A e, p : Place(e, p).id = e.id
  BY DEF Place
<1>6. {r.id : r \in new} = Held(w)
  BY <1>2, <1>3, <1>5 DEF Held
<1>7. \A r, s \in new : r.id = s.id => r = s
  BY <1>0, <1>2, <1>3, <1>5
<1>8. \A r \in Found(P), s \in new : r.id # s.id
  BY <1>0, <1>6
<1>9. blobs = {r.id : r \in Found(P) \cup new} \cup Held(NewWriter)
  BY <1>0, <1>6, EmptyWriter
<1>10. \A r, s \in Found(P) \cup new : r.id = s.id => r = s
  BY <1>0, <1>7, <1>8
<1>11. \A i, j \in 1..Len(NewWriter.entries) : i = j
  BY EmptyWriter
<1> QED
  BY <1>1, <1>4, <1>9, <1>10, <1>11, EmptyWriter DEF OnePlace

\* What is found in sound packs is where it is found.
LEMMA FoundIsThere ==
    ASSUME NEW P, \A p \in P : Sound(p), NEW r \in Found(P)
    PROVE  /\ r.id \in Blob /\ r.location.pack \in P
           /\ GetRange(r.location.pack, r.location.offset, r.location.length) = BlobCells(r.id)
           /\ r = [id |-> r.id, location |-> r.location]
<1>1. PICK p \in P : r \in Places(p, EntriesIn(p))
  BY DEF Found
<1>2. PICK entries \in Seq(Entry(Byte)) : entries = EntriesIn(p)
  BY <1>1 DEF Sound
<1>3. PICK i \in 1..Len(entries) : r = Place(entries[i], p)
  <2>1. DOMAIN entries = 1..Len(entries)
    BY <1>2
  <2> QED
    BY <1>1, <1>2, <2>1 DEF Places
<1>4. entries[i].id \in Blob /\ GetRange(p, entries[i].offset, entries[i].length) = BlobCells(entries[i].id)
  BY <1>2, <1>3 DEF Sound
<1> QED
  BY <1>3, <1>4 DEF Place

-----------------------------------------------------------------------------
(* The index object                                                          *)

LEMMA SameCardinality == \A S : Seqs!Cardinality(S) = Cardinality(S)
BY DEF Seqs!Cardinality, Cardinality

\* SetToSeq lists a finite set.
LEMMA SetToSeqOf ==
    ASSUME NEW S, IsFiniteSet(S)
    PROVE  /\ Cardinality(S) \in Nat
           /\ Seqs!SetToSeq(S) \in [1..Cardinality(S) -> S]
           /\ \A x \in S : \E i \in 1..Cardinality(S) : Seqs!SetToSeq(S)[i] = x
<1> DEFINE n == Cardinality(S)
           s == Seqs!SetToSeq(S)
<1>1. n \in Nat /\ ExistsBijection(1..n, S)
  BY FS_CardinalityType
<1>2. PICK f \in Bijection(1..n, S) : TRUE
  BY <1>1 DEF ExistsBijection
<1>3. f \in [1..n -> S] /\ Seqs!IsInjective(f)
  BY <1>2 DEF Bijection, Injection, IsInjective, Seqs!IsInjective
<1>4. s \in [1..n -> S] /\ Seqs!IsInjective(s)
  BY <1>3, SameCardinality DEF Seqs!SetToSeq
<1> HIDE DEF s
<1>5. s \in Injection(1..n, S)
  BY <1>4 DEF Injection, IsInjective, Seqs!IsInjective
<1>6. IsFiniteSet(1..n) /\ Cardinality(1..n) = n
  BY <1>1, FS_Interval
<1> HIDE DEF n
<1>7. s \in Surjection(1..n, S)
  BY <1>5, <1>6, FS_Injection DEF n
<1> QED
  BY <1>1, <1>4, <1>7 DEF Surjection, n, s

\* Every blob of the index has one of the shards.
LEMMA ShardsAdd ==
    ASSUME DOMAIN idx \subseteq Blob, IsFiniteSet(DOMAIN idx)
    PROVE  /\ Below(1) = {} /\ Below(NumShards + 1) = DOMAIN idx
           /\ Cardinality(DOMAIN idx) \in Nat
           /\ \A s \in 1..NumShards :
                 /\ IsFiniteSet(Shard(idx, s)) /\ Cardinality(Shard(idx, s)) \in Nat
                 /\ Cardinality(Below(s)) \in Nat
                 /\ Below(s + 1) = Below(s) \cup Shard(idx, s)
                 /\ Cardinality(Below(s + 1)) = Cardinality(Below(s)) + Cardinality(Shard(idx, s))
<1>1. \A b \in DOMAIN idx : ShardOf(b) \in 1..NumShards
  <2> TAKE b \in DOMAIN idx
  <2>1. b \in Seq(Byte) /\ Len(b) \in 1..MaxSize
    BY DEF Blob
  <2>2. b \in [1..Len(b) -> Byte]
    BY <2>1
  <2> QED
    BY <2>1, <2>2, ShardOfAssumption
<1>2. NumShards \in Nat \ {0}
  BY NumShardsAssumption
<1>3. Below(1) = {} /\ Below(NumShards + 1) = DOMAIN idx
  BY <1>1, <1>2 DEF Below
<1>4. ASSUME NEW s \in 1..NumShards
      PROVE  /\ IsFiniteSet(Shard(idx, s)) /\ Cardinality(Shard(idx, s)) \in Nat
             /\ Cardinality(Below(s)) \in Nat
             /\ Below(s + 1) = Below(s) \cup Shard(idx, s)
             /\ Cardinality(Below(s + 1)) = Cardinality(Below(s)) + Cardinality(Shard(idx, s))
  <2>1. Shard(idx, s) \in SUBSET DOMAIN idx /\ Below(s) \in SUBSET DOMAIN idx
    BY DEF Shard, Below
  <2>2. IsFiniteSet(Shard(idx, s)) /\ IsFiniteSet(Below(s))
    BY <2>1, FS_Subset
  <2>3. Cardinality(Shard(idx, s)) \in Nat /\ Cardinality(Below(s)) \in Nat
    BY <2>2, FS_CardinalityType
  <2>4. Below(s + 1) = Below(s) \cup Shard(idx, s)
    BY <1>1, <1>2 DEF Below, Shard
  <2>5. Below(s) \cap Shard(idx, s) = {}
    BY <1>1, <1>2 DEF Below, Shard
  <2>6. Cardinality(Below(s) \cup Shard(idx, s)) =
            Cardinality(Below(s)) + Cardinality(Shard(idx, s)) - Cardinality(Below(s) \cap Shard(idx, s))
    BY <2>2, FS_Union
  <2>7. Cardinality({}) = 0
    BY FS_EmptySet
  <2>8. Cardinality(Below(s) \cup Shard(idx, s)) = Cardinality(Below(s)) + Cardinality(Shard(idx, s))
    <3>1. PICK m \in Nat, n \in Nat : m = Cardinality(Below(s)) /\ n = Cardinality(Shard(idx, s))
      BY <2>3
    <3>2. Cardinality(Below(s) \cup Shard(idx, s)) = m + n - Cardinality({})
      BY <2>5, <2>6, <3>1, Zenon
    <3>3. m + n - 0 = m + n
      OBVIOUS
    <3> QED
      BY <2>7, <3>1, <3>2, <3>3
  <2> QED
    BY <2>2, <2>3, <2>4, <2>8
<1>5. Cardinality(DOMAIN idx) \in Nat
  BY FS_CardinalityType
<1> QED
  BY <1>3, <1>4, <1>5

LEMMA RecordSays ==
    \A b : /\ Record(b)[2] = [id |-> b, location |-> idx[b]]
           /\ Record(b)[2].id = b /\ Record(b)[2].location = idx[b]
<1> TAKE b
<1> DEFINE r == [id |-> b, location |-> idx[b]]
<1>1. r.id = b /\ r.location = idx[b]
  OBVIOUS
<1> HIDE DEF r
<1>2. <<"record", r>>[2] = r
  OBVIOUS
<1>3. Record(b) = <<"record", r>>
  BY DEF Record, r
<1>4. Record(b)[2] = r
  BY <1>2, <1>3, Zenon
<1> QED
  BY <1>1, <1>4 DEF r

\* The records of a shard, in some order.
LEMMA RecordsOfShard ==
    ASSUME NEW s, IsFiniteSet(Shard(idx, s)), NEW n, n = Cardinality(Shard(idx, s))
    PROVE  /\ n \in Nat /\ Records(idx, s) \in [1..n -> {Record(b) : b \in Shard(idx, s)}]
           /\ \A b \in Shard(idx, s) : \E i \in 1..n : Records(idx, s)[i] = Record(b)
<1> DEFINE S == Shard(idx, s)
           T == {Record(b) : b \in S}
           f == [b \in S |-> Record(b)]
<1>1. f \in Bijection(S, T)
  <2>1. f \in [S -> T] /\ \A r \in T : \E b \in S : f[b] = r
    OBVIOUS
  <2>2. \A b, c \in S : f[b] = f[c] => b = c
    <3> TAKE b, c \in S
    <3> HAVE f[b] = f[c]
    <3>1. Record(b)[2].id = Record(c)[2].id
      OBVIOUS
    <3>2. Record(b)[2].id = b /\ Record(c)[2].id = c
      BY RecordSays
    <3> QED
      BY <3>1, <3>2
  <2> HIDE DEF f, S, T
  <2>3. DOMAIN f = S
    BY <2>1
  <2> QED
    BY <2>1, <2>2, <2>3 DEF Bijection, Injection, Surjection, IsInjective
<1>2. IsFiniteSet(T) /\ Cardinality(T) = n
  <2>1. ExistsBijection(S, T)
    BY <1>1 DEF ExistsBijection
  <2> HIDE DEF T
  <2> QED
    BY <2>1, FS_Bijection
<1>3. Records(idx, s) = Seqs!SetToSeq(T)
  BY DEF Records, Record
<1> HIDE DEF T
<1>4. /\ n \in Nat /\ Seqs!SetToSeq(T) \in [1..n -> T]
      /\ \A x \in T : \E i \in 1..n : Seqs!SetToSeq(T)[i] = x
  BY <1>2, SetToSeqOf
<1>5. \A b \in S : Record(b) \in T
  BY DEF T
<1> QED
  BY <1>3, <1>4, <1>5 DEF T

\* The cells of an index object so far, and those of one more shard.
LEMMA ShardWritten ==
    ASSUME DOMAIN idx \subseteq Blob, IsFiniteSet(DOMAIN idx), NEW s \in 1..NumShards,
           NEW cells, Written(cells, s)
    PROVE  Written(cells \o Records(idx, s), s + 1)
<1> DEFINE T == {Record(b) : b \in Shard(idx, s)}
<1>1. /\ IsFiniteSet(Shard(idx, s)) /\ Cardinality(Below(s)) \in Nat
      /\ Below(s + 1) = Below(s) \cup Shard(idx, s)
      /\ Cardinality(Below(s + 1)) = Cardinality(Below(s)) + Cardinality(Shard(idx, s))
  BY ShardsAdd
<1>2. PICK n \in Nat : n = Cardinality(Shard(idx, s))
  BY <1>1, RecordsOfShard
<1>3. PICK m \in Nat : m = Cardinality(Below(s))
  BY <1>1
<1>4. PICK new \in Seq(IndexCell) :
          /\ new = Records(idx, s) /\ Len(new) = n
          /\ \A i \in 1..n : new[i] \in T
          /\ \A b \in Shard(idx, s) : \E i \in 1..n : new[i] = Record(b)
  <2>1. /\ Records(idx, s) \in [1..n -> T]
        /\ \A b \in Shard(idx, s) : \E i \in 1..n : Records(idx, s)[i] = Record(b)
    BY <1>1, <1>2, RecordsOfShard
  <2>2. T \subseteq IndexCell
    BY DEF IndexCell, Shard
  <2> HIDE DEF T
  <2> QED
    BY <2>1, <2>2
<1>5. /\ cells \in Seq(IndexCell) /\ Len(cells) = 2 + m
      /\ cells[1] = <<"magic", 0>> /\ cells[2] = <<"count", Cardinality(DOMAIN idx)>>
      /\ {cells[i] : i \in 3..Len(cells)} = {Record(b) : b \in Below(s)}
  BY <1>3 DEF Written
<1> HIDE DEF T
<1> DEFINE all == cells \o new
<1>6. /\ all \in Seq(IndexCell) /\ Len(all) = 2 + m + n
      /\ \A i \in 1..(2 + m) : all[i] = cells[i]
      /\ \A i \in 1..n : all[2 + m + i] = new[i]
  <2>1. /\ all \in Seq(IndexCell) /\ Len(all) = Len(cells) + Len(new)
        /\ \A i \in 1..(Len(cells) + Len(new)) :
              all[i] = IF i <= Len(cells) THEN cells[i] ELSE new[i - Len(cells)]
    BY <1>4, <1>5, ConcatProperties
  <2> HIDE DEF all
  <2>2. \A i \in 1..(2 + m + n) : all[i] = IF i <= 2 + m THEN cells[i] ELSE new[i - (2 + m)]
    BY <1>4, <1>5, <2>1
  <2>3. ASSUME NEW i \in 1..n PROVE all[2 + m + i] = new[i]
    <3>1. 2 + m + i \in 1..(2 + m + n) /\ ~(2 + m + i <= 2 + m) /\ (2 + m + i) - (2 + m) = i
      OBVIOUS
    <3> QED
      BY <2>2, <3>1
  <2>4. \A i \in 1..(2 + m) : i \in 1..(2 + m + n) /\ i <= 2 + m
    OBVIOUS
  <2> QED
    BY <1>4, <1>5, <2>1, <2>2, <2>3, <2>4
<1> HIDE DEF all
<1>7. {all[i] : i \in 3..Len(all)} = {Record(b) : b \in Below(s)} \cup T
  <2>1. \A i \in 3..Len(all) : all[i] \in {Record(b) : b \in Below(s)} \cup T
    <3> TAKE i \in 3..Len(all)
    <3>1. CASE i <= 2 + m
      <4>1. i \in 1..(2 + m) /\ i \in 3..Len(cells)
        BY <1>5, <1>6, <3>1
      <4> QED
        BY <1>5, <1>6, <4>1
    <3>2. CASE ~(i <= 2 + m)
      <4>1. i - (2 + m) \in 1..n /\ 2 + m + (i - (2 + m)) = i
        BY <1>6, <3>2
      <4> QED
        BY <1>4, <1>6, <4>1
    <3> QED
      BY <3>1, <3>2
  <2>2. \A b \in Below(s) : \E i \in 3..Len(all) : all[i] = Record(b)
    <3> TAKE b \in Below(s)
    <3>1. PICK i \in 3..Len(cells) : cells[i] = Record(b)
      BY <1>5
    <3>2. i \in 1..(2 + m) /\ i \in 3..Len(all)
      BY <1>5, <1>6, <3>1
    <3> QED
      BY <1>6, <3>1, <3>2
  <2>3. \A b \in Shard(idx, s) : \E i \in 3..Len(all) : all[i] = Record(b)
    <3> TAKE b \in Shard(idx, s)
    <3>1. PICK i \in 1..n : new[i] = Record(b)
      BY <1>4
    <3>2. 2 + m + i \in 3..Len(all)
      BY <1>6, <3>1
    <3> QED
      BY <1>6, <3>1, <3>2
  <2> QED
    BY <2>1, <2>2, <2>3 DEF T
<1>8. {Record(b) : b \in Below(s + 1)} = {Record(b) : b \in Below(s)} \cup T
  BY <1>1 DEF T
<1>9. 1 \in 1..(2 + m) /\ 2 \in 1..(2 + m)
  OBVIOUS
<1>10. Written(all, s + 1)
  <2>1. Len(all) = 2 + Cardinality(Below(s + 1))
    BY <1>1, <1>2, <1>3, <1>6
  <2> QED
    BY <1>5, <1>6, <1>7, <1>8, <1>9, <2>1 DEF Written
<1> QED
  BY <1>4, <1>10 DEF all

LEMMA HeaderWritten ==
    ASSUME DOMAIN idx \subseteq Blob, IsFiniteSet(DOMAIN idx)
    PROVE  Written(Header(Cardinality(DOMAIN idx)), 1)
<1> DEFINE n == Cardinality(DOMAIN idx)
<1> DEFINE magic == <<"magic", 0>>
           count == <<"count", n>>
           cells == Header(n)
<1>1. Below(1) = {} /\ Cardinality({}) = 0
  BY ShardsAdd, FS_EmptySet
<1>2. magic \in IndexCell /\ count \in IndexCell
  BY DEF IndexCell
<1>3. cells = <<magic, count>>
  BY DEF Header
<1> HIDE DEF cells, magic, count
<1>4. cells \in Seq(IndexCell) /\ Len(cells) = 2 /\ cells[1] = magic /\ cells[2] = count
  BY <1>2, <1>3
<1>5. {cells[i] : i \in 3..Len(cells)} = {} /\ {Record(b) : b \in Below(1)} = {}
  <2>1. 3..Len(cells) = {}
    BY <1>4
  <2> QED
    BY <1>1, <2>1
<1>6. Len(cells) = 2 + Cardinality(Below(1))
  <2>1. Cardinality(Below(1)) = 0
    BY <1>1
  <2> QED
    BY <1>4, <2>1
<1> QED
  BY <1>4, <1>5, <1>6 DEF Written, cells, magic, count

LEMMA DecodesOrNot == \A cells : IndexDecodes(cells) \in BOOLEAN
BY Zenon DEF IndexDecodes

\* A reader that believes the count finds in the whole object the index that
\* was written.
LEMMA ReadsBack ==
    ASSUME DOMAIN idx \subseteq Blob, IsFiniteSet(DOMAIN idx), idx = [b \in DOMAIN idx |-> idx[b]],
           NEW cells, Written(cells, NumShards + 1)
    PROVE  /\ IndexDecodes(cells) = (Cardinality(DOMAIN idx) <= MaxEntries)
           /\ ReadFrom(cells) = idx
<1>1. PICK n \in Nat : n = Cardinality(DOMAIN idx)
  BY ShardsAdd
<1>2. /\ Len(cells) = 2 + n /\ cells[1] = <<"magic", 0>> /\ cells[2] = <<"count", n>>
      /\ {cells[i] : i \in 3..Len(cells)} = {Record(b) : b \in DOMAIN idx}
  <2>1. Below(NumShards + 1) = DOMAIN idx
    BY ShardsAdd
  <2> QED
    BY <1>1, <2>1 DEF Written
<1>3. IndexDecodes(cells) = (n <= MaxEntries)
  <2>1. <<"magic", 0>>[1] = "magic" /\ <<"count", n>>[2] = n
    OBVIOUS
  <2>2. cells[1][1] = "magic" /\ cells[2][2] = n
    BY <1>2, <2>1, Zenon
  <2>3. Len(cells) >= 2 /\ Len(cells) - 2 = n
    BY <1>2
  <2>4. IndexDecodes(cells) <=> cells[2][2] <= MaxEntries
    BY <2>2, <2>3, Zenon DEF IndexDecodes
  <2>5. (n <= MaxEntries) \in BOOLEAN
    BY MaxEntriesAssumption
  <2> QED
    BY <2>2, <2>4, <2>5, DecodesOrNot
<1> DEFINE records == {cells[i][2] : i \in 3..Len(cells)}
<1> DEFINE says(b) == [id |-> b, location |-> idx[b]]
<1>4. records = {says(b) : b \in DOMAIN idx}
  <2>1. \A b : Record(b)[2] = says(b)
    BY RecordSays
  <2> HIDE DEF says
  <2>2. \A i \in 3..Len(cells) : \E b \in DOMAIN idx : cells[i][2] = says(b)
    <3> TAKE i \in 3..Len(cells)
    <3>1. PICK b \in DOMAIN idx : cells[i] = Record(b)
      BY <1>2
    <3> QED
      BY <2>1, <3>1
  <2>3. \A b \in DOMAIN idx : \E i \in 3..Len(cells) : cells[i][2] = says(b)
    <3> TAKE b \in DOMAIN idx
    <3>1. PICK i \in 3..Len(cells) : cells[i] = Record(b)
      BY <1>2
    <3> QED
      BY <2>1, <3>1
  <2> QED
    BY <2>2, <2>3
<1>5. \A b : says(b).id = b /\ says(b).location = idx[b]
  OBVIOUS
<1> HIDE DEF says
<1>6. ReadFrom(cells) = [b \in {r.id : r \in records} |-> (CHOOSE r \in records : r.id = b).location]
  BY DEF ReadFrom
<1> HIDE DEF records
<1>7. {r.id : r \in records} = DOMAIN idx
  <2>1. \A r \in records : r.id \in DOMAIN idx
    BY <1>4, <1>5
  <2>2. \A b \in DOMAIN idx : \E r \in records : r.id = b
    BY <1>4, <1>5
  <2> QED
    BY <2>1, <2>2
<1>8. ASSUME NEW b \in DOMAIN idx PROVE (CHOOSE r \in records : r.id = b).location = idx[b]
  <2> DEFINE c == CHOOSE r \in records : r.id = b
  <2>1. \E r \in records : r.id = b
    BY <1>4, <1>5
  <2>2. c \in records /\ c.id = b
    BY <2>1
  <2> HIDE DEF c
  <2>3. c.location = idx[b]
    BY <1>4, <1>5, <2>2
  <2> QED
    BY <2>3 DEF c
<1>9. ReadFrom(cells) = [b \in DOMAIN idx |-> idx[b]]
  BY <1>6, <1>7, <1>8
<1> QED
  BY <1>1, <1>3, <1>9

-----------------------------------------------------------------------------
(* The steps on packs and blobs                                              *)

\* What is lost stays lost.
LEMMA IntactBefore ==
    ASSUME InputInv, [PathNext]_pathVars, Intact'
    PROVE  Intact
<1>1. phase = "failed" => phase' = "failed"
  <2> SUFFICES ASSUME phase = "failed" PROVE phase' = "failed"
    OBVIOUS
  <2>1. saving.at = "no"
    BY DEF InputInv
  <2>2. CASE PathNext
    BY <2>1, <2>2 DEF PathNext, Chunk, Assemble, ReadFailed, NextFile, LastFlush, FileEnds,
      PutPack, StorePack, InsertEntry, SaveIndex, StartSave, AllPacked, WriteTo, CountShard,
      WriteShard, DamageIndex, DamageRecord, DamagePack, LoadIndex, RebuildIndex, RestoreFile,
      Stop, pathVars
  <2>3. CASE UNCHANGED pathVars
    BY <2>3 DEF pathVars
  <2> QED
    BY <2>2, <2>3
<1>2. damaged \subseteq damaged'
  <2>1. CASE PathNext
    <3>1. CASE DamageIndex \/ DamageRecord \/ DamagePack
      BY <3>1 DEF DamageIndex, DamageRecord, DamagePack
    <3>2. CASE ~(DamageIndex \/ DamageRecord \/ DamagePack)
      <4>1. UNCHANGED damaged
        BY <2>1, <3>2 DEF PathNext, Chunk, Assemble, ReadFailed, NextFile, LastFlush,
          PutPack, StorePack, InsertEntry, SaveIndex, StartSave, WriteTo, CountShard,
          WriteShard, LoadIndex, RebuildIndex, RestoreFile, Stop, pathVars, store
      <4> QED
        BY <4>1
    <3> QED
      BY <3>1, <3>2
  <2>2. CASE UNCHANGED pathVars
    BY <2>2 DEF pathVars, store
  <2> QED
    BY <2>1, <2>2
<1> QED
  BY <1>1, <1>2 DEF Intact

LEMMA PacksStay ==
    ASSUME PackInv, UNCHANGED <<packCh, packs, uploads>>
    PROVE  PackInv' /\ AllPacks' = AllPacks
BY DEF PackInv, Pending, AllPacks

LEMMA BlobsStay ==
    ASSUME BlobInv, UNCHANGED <<writer, inFlight, packCh, packs, recipes, tree>>
    PROVE  BlobInv'
BY DEF BlobInv, AllPacks

LEMMA IndexStays ==
    ASSUME IndexInv, UNCHANGED <<idx, packs, uploads>>
    PROVE  IndexInv'
BY DEF IndexInv, Pending

LEMMA SaveStays ==
    ASSUME SaveInv,
           UNCHANGED <<phase, damaged, saving, indexObject, idx, writer, packCh, uploads>>
    PROVE  SaveInv'
BY DEF SaveInv, Settled, IndexCell, Written, Below, Record

\* Before the index is saved there is nothing to say of that.
LEMMA NotSavingYet ==
    ASSUME SaveInv, saving.at = "no", phase = "backup", UNCHANGED <<phase, damaged, saving>>
    PROVE  SaveInv'
<1>1. saving = NotSaving
  BY DEF SaveInv
<1>2. NotSaving.at = "no"
  BY DEF NotSaving
<1> QED
  BY <1>1, <1>2 DEF SaveInv

\* What the index has is in a pack, and so is no other place of its.
LEMMA IndexedInFlight ==
    ASSUME BlobInv, IndexInv, NEW b \in DOMAIN idx
    PROVE  b \in inFlight
<1> DEFINE r == [id |-> b, location |-> idx[b]]
<1>1. r \in Found(DOMAIN packs)
  BY DEF IndexInv
<1>2. r.id = b
  OBVIOUS
<1> HIDE DEF r
<1>3. r \in Found(AllPacks)
  BY <1>1, FoundInMore DEF AllPacks
<1> QED
  BY <1>2, <1>3 DEF BlobInv, OnePlace

\* A flush that succeeds puts the writer's blobs into a pack.
LEMMA FlushKeeps ==
    ASSUME PackInv, NEW w, NEW blobs, OnePlace(w, AllPacks, blobs), w.entries # <<>>,
           Flush(w), phase # "failed", phase' # "failed", UNCHANGED <<packs, uploads>>
    PROVE  /\ OnePlace(writer', AllPacks', blobs) /\ PackInv'
           /\ phase' = phase
<1> DEFINE x == [cells |-> Finish(w), entries |-> w.entries]
<1>1. /\ ~HeaderTooLong(w) /\ packCh' = packCh \cup {x} /\ writer' = NewWriter /\ phase' = phase
  BY DEF Flush
<1>2. /\ OnePlace(NewWriter, AllPacks \cup {Finish(w)}, blobs)
      /\ Sound(Finish(w)) /\ EntriesIn(Finish(w)) = w.entries
  BY <1>1, FlushesBlobs
<1>3. x.cells = Finish(w) /\ x.entries = w.entries
  OBVIOUS
<1> HIDE DEF x
<1>4. AllPacks' = AllPacks \cup {Finish(w)}
  <2>1. {y.cells : y \in packCh'} = {y.cells : y \in packCh} \cup {Finish(w)}
    BY <1>1, <1>3
  <2> QED
    BY <2>1 DEF AllPacks
<1>5. PackInv'
  <2>1. \A y \in packCh' : Sound(y.cells) /\ y.entries = EntriesIn(y.cells)
    BY <1>1, <1>2, <1>3 DEF PackInv
  <2> QED
    BY <2>1 DEF PackInv, Pending
<1> QED
  BY <1>1, <1>2, <1>4, <1>5

\* The blobs of a recipe that gets one more.
LEMMA RecipesInFlight ==
    ASSUME InputInv, InputInv', NEW blob, tree' = tree,
           recipes' = [recipes EXCEPT ![current] = Append(@, blob)],
           \A i \in 1..Len(tree) : \A j \in 1..Len(recipes[i]) : recipes[i][j] \in inFlight,
           inFlight \subseteq inFlight', blob \in inFlight'
    PROVE  \A i \in 1..Len(tree') : \A j \in 1..Len(recipes'[i]) : recipes'[i][j] \in inFlight'
<1> SUFFICES ASSUME NEW i \in 1..Len(tree), NEW j \in 1..Len(recipes'[i])
             PROVE  recipes'[i][j] \in inFlight'
  OBVIOUS
<1>1. recipes \in [1..Len(tree) -> Seq(Blob)] /\ current \in 1..Len(tree)
  BY DEF InputInv
<1>2. CASE i = current
  <2>1. PICK r \in Seq(Blob) : r = recipes[current]
    BY <1>1
  <2>2. recipes'[i] = Append(r, blob)
    BY <1>1, <1>2, <2>1
  <2>3. /\ Len(Append(r, blob)) = Len(r) + 1 /\ Append(r, blob)[Len(r) + 1] = blob
        /\ \A n \in 1..Len(r) : Append(r, blob)[n] = r[n]
    BY <2>1
  <2>4. j = Len(r) + 1 \/ j \in 1..Len(r)
    BY <2>1, <2>2, <2>3
  <2> QED
    BY <1>2, <2>1, <2>2, <2>3, <2>4
<1>3. CASE i # current
  <2>1. recipes'[i] = recipes[i]
    BY <1>1, <1>3
  <2> QED
    BY <2>1
<1> QED
  BY <1>2, <1>3

LEMMA AssembleKeeps ==
    ASSUME InputInv, InputInv', PackInv, BlobInv, IndexInv, SaveInv, Assemble, phase' # "failed"
    PROVE  PackInv' /\ BlobInv' /\ IndexInv' /\ SaveInv'
<1> DEFINE blob == chunks[sent + 1].data
           w == Add(writer, blob)
<1>1. /\ phase = "backup" /\ sent < Len(chunks) /\ tree' = tree
      /\ recipes' = [recipes EXCEPT ![current] = Append(@, blob)]
      /\ UNCHANGED <<packs, uploads, saving, indexObject, damaged, idx>>
  BY DEF Assemble, store
<1>2. saving.at = "no"
  <2>1. sent \in 0..Len(chunks) /\ Len(chunks) \in Nat
    BY DEF InputInv, ChunkInv, ChunkerTypeOK
  <2>2. ~InputDone
    BY <1>1, <2>1 DEF InputDone
  <2> QED
    BY <2>2 DEF InputInv
<1>3. blob \in Blob
  <2>1. sent + 1 \in 1..Len(chunks)
    BY <1>1 DEF InputInv, ChunkInv, ChunkerTypeOK
  <2> QED
    BY <2>1, ChunksAreBlobs DEF InputInv
<1>4. IndexInv'
  BY <1>1, IndexStays
<1>5. CASE blob \in inFlight \/ blob \in DOMAIN idx
  <2>1. UNCHANGED <<inFlight, writer, packCh, phase>>
    BY <1>5 DEF Assemble, assembler
  <2>2. blob \in inFlight
    BY <1>5, IndexedInFlight
  <2>3. PackInv' /\ AllPacks' = AllPacks
    BY <1>1, <2>1, PacksStay
  <2>4. SaveInv'
    BY <1>1, <1>2, <2>1, NotSavingYet
  <2> HIDE DEF blob
  <2>5. \A i \in 1..Len(tree') : \A j \in 1..Len(recipes'[i]) : recipes'[i][j] \in inFlight'
    BY <1>1, <2>1, <2>2, RecipesInFlight DEF BlobInv
  <2>6. BlobInv'
    BY <2>1, <2>3, <2>5 DEF BlobInv
  <2> QED
    BY <1>4, <2>3, <2>4, <2>6
<1>6. CASE ~(blob \in inFlight \/ blob \in DOMAIN idx)
  <2>1. /\ inFlight' = inFlight \cup {blob}
        /\ IF IsFull(w, PackTarget) THEN Flush(w)
           ELSE writer' = w /\ UNCHANGED <<packCh, phase>>
    BY <1>6 DEF Assemble
  <2> HIDE DEF blob
  <2>2. OnePlace(w, AllPacks, inFlight') /\ w.entries # <<>>
    BY <1>3, <1>6, <2>1, AddsBlob DEF BlobInv
  <2> HIDE DEF w
  <2>3. OnePlace(writer', AllPacks', inFlight') /\ PackInv' /\ phase' = phase
    <3>1. CASE IsFull(w, PackTarget)
      BY <1>1, <2>1, <2>2, <3>1, FlushKeeps
    <3>2. CASE ~IsFull(w, PackTarget)
      <4>1. writer' = w /\ UNCHANGED <<packCh, phase>>
        BY <2>1, <3>2
      <4> QED
        BY <1>1, <2>2, <4>1, PacksStay
    <3> QED
      BY <3>1, <3>2
  <2>4. SaveInv'
    BY <1>1, <1>2, <2>3, NotSavingYet
  <2>5. \A i \in 1..Len(tree') : \A j \in 1..Len(recipes'[i]) : recipes'[i][j] \in inFlight'
    BY <1>1, <2>1, RecipesInFlight DEF BlobInv
  <2>6. BlobInv'
    BY <2>3, <2>5 DEF BlobInv
  <2> QED
    BY <1>4, <2>3, <2>4, <2>6
<1> QED
  BY <1>5, <1>6

LEMMA LastFlushKeeps ==
    ASSUME InputInv, PackInv, BlobInv, IndexInv, SaveInv, LastFlush, phase' # "failed"
    PROVE  PackInv' /\ BlobInv' /\ IndexInv' /\ SaveInv'
<1>1. /\ phase = "backup" /\ writer.entries # <<>> /\ Flush(writer)
      /\ UNCHANGED <<tree, recipes, inFlight, packs, uploads, saving, indexObject, damaged, idx>>
  BY DEF LastFlush, FileEnds, input, store
<1>2. saving.at = "no"
  BY <1>1 DEF InputInv
<1>3. OnePlace(writer', AllPacks', inFlight) /\ PackInv' /\ phase' = phase
  BY <1>1, FlushKeeps DEF BlobInv
<1>4. BlobInv'
  BY <1>1, <1>3 DEF BlobInv
<1> QED
  BY <1>1, <1>2, <1>3, <1>4, IndexStays, NotSavingYet

\* The entries of a pack that is stored are all still to be inserted.
LEMMA StoreKeeps ==
    ASSUME PackInv, BlobInv, IndexInv, SaveInv, StorePack
    PROVE  PackInv' /\ BlobInv' /\ IndexInv' /\ SaveInv'
<1>1. PICK p \in packCh :
          /\ packs' = [q \in DOMAIN packs \cup {p.cells} |->
                          IF q \in DOMAIN packs THEN packs[q] ELSE p.cells]
          /\ uploads' = uploads \cup {[pack |-> p.cells, entries |-> p.entries]}
          /\ packCh' = packCh \ {p}
  BY DEF StorePack
<1>2. /\ phase = "backup"
      /\ UNCHANGED <<tree, recipes, inFlight, writer, saving, indexObject, damaged, idx, phase>>
  BY DEF StorePack, input, assembler
<1> DEFINE u == [pack |-> p.cells, entries |-> p.entries]
<1>3. Sound(p.cells) /\ p.entries = EntriesIn(p.cells)
  BY DEF PackInv
<1>4. u.pack = p.cells /\ u.entries = p.entries /\ u \in [pack : {p.cells}, entries : Seq(Entry(Byte)) \ {<<>>}]
  BY <1>3 DEF Sound
<1> HIDE DEF u
<1>5. DOMAIN packs' = DOMAIN packs \cup {p.cells} /\ uploads' = uploads \cup {u}
  BY <1>1 DEF u
<1>6. Found(DOMAIN packs') = Found(DOMAIN packs) \cup Places(p.cells, p.entries)
  <2>1. Found(DOMAIN packs') = Found(DOMAIN packs) \cup Found({p.cells})
    BY <1>5, FoundInMore
  <2>2. Found({p.cells}) = Places(p.cells, p.entries)
    BY <1>3, FoundInMore
  <2> QED
    BY <2>1, <2>2
<1>7. Pending' = Pending \cup Places(p.cells, p.entries)
  BY <1>4, <1>5 DEF Pending
<1>8. \A q \in DOMAIN packs' : Sound(q) /\ packs'[q] = q
  BY <1>1, <1>3, <1>5 DEF PackInv
<1>9. PackInv'
  <2>1. \A x \in packCh' : Sound(x.cells) /\ x.entries = EntriesIn(x.cells)
    BY <1>1 DEF PackInv
  <2>2. uploads' \subseteq [pack : DOMAIN packs', entries : Seq(Entry(Byte)) \ {<<>>}]
    BY <1>4, <1>5 DEF PackInv
  <2>3. Pending' \subseteq Found(DOMAIN packs')
    BY <1>6, <1>7 DEF PackInv
  <2> QED
    BY <1>8, <2>1, <2>2, <2>3 DEF PackInv
<1>10. BlobInv'
  <2>1. AllPacks' = AllPacks
    BY <1>1, <1>5 DEF AllPacks
  <2> QED
    BY <1>2, <2>1 DEF BlobInv
<1>11. IndexInv'
  BY <1>2, <1>6, <1>7 DEF IndexInv
<1>12. SaveInv'
  <2>1. packCh # {}
    BY <1>1
  <2>2. saving.at = "no"
    BY <2>1 DEF SaveInv, Settled
  <2> QED
    BY <1>2, <2>2, NotSavingYet
<1> QED
  BY <1>9, <1>10, <1>11, <1>12

\* An entry leaves what is pending when the index has it.
LEMMA InsertKeeps ==
    ASSUME InputInv, PackInv, BlobInv, IndexInv, SaveInv, InsertEntry, phase # "failed"
    PROVE  PackInv' /\ BlobInv' /\ IndexInv' /\ SaveInv'
<1>1. PICK u \in uploads :
          LET e == Head(u.entries)
              rest == [u EXCEPT !.entries = Tail(@)]
          IN  /\ idx' = Insert(idx, e.id, [pack |-> u.pack, offset |-> e.offset,
                                           length |-> e.length])
              /\ uploads' = (uploads \ {u}) \cup (IF rest.entries = <<>> THEN {} ELSE {rest})
  BY DEF InsertEntry
<1>2. UNCHANGED <<tree, recipes, inFlight, writer, packCh, saving, packs, indexObject, damaged, phase>>
  BY DEF InsertEntry, input, assembler, store
<1>3. PICK entries \in Seq(Entry(Byte)) \ {<<>>}, p \in DOMAIN packs :
          u = [pack |-> p, entries |-> entries] /\ u.pack = p /\ u.entries = entries
  BY DEF PackInv
<1> DEFINE e == Head(entries)
           rest == [pack |-> p, entries |-> Tail(entries)]
           r == Place(e, p)
<1>4. /\ idx' = Insert(idx, e.id, r.location)
      /\ uploads' = (uploads \ {u}) \cup (IF Tail(entries) = <<>> THEN {} ELSE {rest})
  <2>1. [u EXCEPT !.entries = Tail(@)] = rest /\ rest.entries = Tail(entries)
    <3>1. [[pack |-> p, entries |-> entries] EXCEPT !.entries = Tail(@)] = rest
      OBVIOUS
    <3>2. [u EXCEPT !.entries = Tail(@)] = rest
      BY <1>3, <3>1, Zenon
    <3> QED
      BY <3>2
  <2>2. r.location = [pack |-> p, offset |-> e.offset, length |-> e.length]
    BY DEF Place
  <2> QED
    BY <1>1, <1>3, <2>1, <2>2
<1>5. /\ Tail(entries) \in Seq(Entry(Byte)) /\ e = entries[1] /\ Len(entries) \in Nat \ {0}
      /\ Len(Tail(entries)) = Len(entries) - 1
      /\ \A i \in 1..(Len(entries) - 1) : Tail(entries)[i] = entries[i + 1]
  BY HeadTailProperties
<1>6. Places(p, entries) = {r} \cup Places(p, Tail(entries))
  <2>1. DOMAIN entries = 1..Len(entries) /\ DOMAIN Tail(entries) = 1..(Len(entries) - 1)
    BY <1>5
  <2>2. \A i \in 1..Len(entries) : i = 1 \/ (i - 1 \in 1..(Len(entries) - 1) /\ (i - 1) + 1 = i)
    BY <1>5
  <2>3. 1 \in 1..Len(entries) /\ \A i \in 1..(Len(entries) - 1) : i + 1 \in 1..Len(entries)
    BY <1>5
  <2>4. \A x \in Places(p, entries) : x \in {r} \cup Places(p, Tail(entries))
    <3> TAKE x \in Places(p, entries)
    <3>1. PICK i \in 1..Len(entries) : x = Place(entries[i], p)
      BY <2>1 DEF Places
    <3>2. CASE i = 1
      BY <1>5, <3>1, <3>2
    <3>3. CASE i # 1
      <4>1. x = Place(Tail(entries)[i - 1], p) /\ i - 1 \in 1..(Len(entries) - 1)
        BY <1>5, <2>2, <3>1, <3>3
      <4> QED
        BY <2>1, <4>1 DEF Places
    <3> QED
      BY <3>2, <3>3
  <2>5. \A x \in Places(p, Tail(entries)) : x \in Places(p, entries)
    <3> TAKE x \in Places(p, Tail(entries))
    <3>1. PICK i \in 1..(Len(entries) - 1) : x = Place(Tail(entries)[i], p)
      BY <2>1 DEF Places
    <3>2. x = Place(entries[i + 1], p) /\ i + 1 \in 1..Len(entries)
      BY <1>5, <2>3, <3>1
    <3> QED
      BY <2>1, <3>2 DEF Places
  <2>6. r \in Places(p, entries)
    BY <1>5, <2>1, <2>3 DEF Places
  <2> QED
    BY <2>4, <2>5, <2>6
<1>7. rest.pack = p /\ rest.entries = Tail(entries)
  OBVIOUS
<1>8. r.id = e.id /\ r = [id |-> e.id, location |-> r.location]
  BY DEF Place
<1> HIDE DEF e, rest, r
<1>9. Pending' \subseteq Pending /\ \A x \in Pending : x = r \/ x \in Pending'
  <2>1. Places(u.pack, u.entries) = {r} \cup Places(p, Tail(entries)) /\ u \in uploads
    BY <1>3, <1>6
  <2>2. Pending' = UNION {Places(v.pack, v.entries) : v \in uploads'}
    BY DEF Pending
  <2>3. CASE Tail(entries) = <<>>
    <3>1. uploads' = uploads \ {u}
      BY <1>4, <2>3
    <3>2. Places(p, Tail(entries)) = {}
      BY <2>3 DEF Places
    <3> QED
      BY <2>1, <2>2, <3>1, <3>2 DEF Pending
  <2>4. CASE Tail(entries) # <<>>
    <3>1. uploads' = (uploads \ {u}) \cup {rest}
      BY <1>4, <2>4
    <3>2. Places(rest.pack, rest.entries) = Places(p, Tail(entries))
      BY <1>7
    <3> QED
      BY <2>1, <2>2, <3>1, <3>2 DEF Pending
  <2> QED
    BY <2>3, <2>4
<1>10. r \in Found(DOMAIN packs)
  <2>1. r \in Pending
    BY <1>3, <1>6 DEF Pending
  <2> QED
    BY <2>1 DEF PackInv
<1>11. PackInv'
  <2>1. uploads' \subseteq [pack : DOMAIN packs, entries : Seq(Entry(Byte)) \ {<<>>}]
    <3>1. Tail(entries) # <<>> => rest \in [pack : DOMAIN packs, entries : Seq(Entry(Byte)) \ {<<>>}]
      BY <1>5 DEF rest
    <3> QED
      BY <1>4, <3>1 DEF PackInv
  <2> QED
    BY <1>2, <1>9, <2>1 DEF PackInv
<1>12. BlobInv'
  BY <1>2, BlobsStay
<1>13. IndexInv'
  <2>1. /\ DOMAIN idx' = DOMAIN idx \cup {e.id}
        /\ \A b \in DOMAIN idx : idx'[b] = idx[b]
        /\ e.id \notin DOMAIN idx => idx'[e.id] = r.location
        /\ idx' = [b \in DOMAIN idx' |-> idx'[b]]
    BY <1>4 DEF Insert
  <2>2. IsFiniteSet(DOMAIN idx')
    BY <2>1, FS_AddElement DEF IndexInv
  <2>3. \A b \in DOMAIN idx' : [id |-> b, location |-> idx'[b]] \in Found(DOMAIN packs)
    <3> TAKE b \in DOMAIN idx'
    <3>1. CASE b \in DOMAIN idx
      BY <2>1, <3>1 DEF IndexInv
    <3>2. CASE b \notin DOMAIN idx
      <4>1. b = e.id /\ idx'[b] = r.location
        BY <2>1, <3>2
      <4> QED
        BY <1>8, <1>10, <4>1
    <3> QED
      BY <3>1, <3>2
  <2>4. \A x \in Found(DOMAIN packs) : x.id \in DOMAIN idx' \/ x \in Pending'
    <3> TAKE x \in Found(DOMAIN packs)
    <3>1. x.id \in DOMAIN idx \/ x \in Pending
      BY DEF IndexInv
    <3> QED
      BY <1>8, <1>9, <2>1, <3>1
  <2> QED
    BY <1>2, <2>1, <2>2, <2>3, <2>4 DEF IndexInv
<1>14. SaveInv'
  <2>1. ~Settled
    BY <1>1 DEF Settled
  <2>2. saving.at = "no" /\ phase \notin {"saved", "open"}
    BY <2>1 DEF SaveInv
  <2>3. phase = "backup"
    BY <2>2 DEF InputInv
  <2> QED
    BY <1>2, <2>2, <2>3, NotSavingYet
<1> QED
  BY <1>11, <1>12, <1>13, <1>14

-----------------------------------------------------------------------------
(* Saving the index                                                          *)

LEMMA IndexOfBlobs ==
    ASSUME PackInv, IndexInv
    PROVE  /\ DOMAIN idx \subseteq Blob /\ IsFiniteSet(DOMAIN idx)
           /\ idx = [b \in DOMAIN idx |-> idx[b]]
<1>1. \A b \in DOMAIN idx : b \in Blob
  <2> TAKE b \in DOMAIN idx
  <2> DEFINE r == [id |-> b, location |-> idx[b]]
  <2>1. r \in Found(DOMAIN packs) /\ r.id = b
    BY DEF IndexInv
  <2>2. \A p \in DOMAIN packs : Sound(p)
    BY DEF PackInv
  <2> HIDE DEF r
  <2>3. r.id \in Blob
    BY <2>1, <2>2, FoundIsThere
  <2> QED
    BY <2>1, <2>3
<1> QED
  BY <1>1 DEF IndexInv

\* When nothing is pending the headers of the packs are the index.
LEMMA IndexIsRebuilt ==
    ASSUME PackInv, BlobInv, IndexInv, uploads = {}
    PROVE  PackIndex = idx
<1> DEFINE headers == [p \in DOMAIN packs |-> ReadPackHeader(packs[p])]
           found == UNION {{[id |-> headers[p].entries[i].id,
                             location |-> [pack |-> p, offset |-> headers[p].entries[i].offset,
                                           length |-> headers[p].entries[i].length]] :
                                i \in DOMAIN headers[p].entries} : p \in DOMAIN headers}
<1>1. PackIndex = [b \in {r.id : r \in found} |-> (CHOOSE r \in found : r.id = b).location]
  BY DEF PackIndex, Rebuilt
<1>2. \A p \in DOMAIN packs : headers[p].entries = EntriesIn(p)
  BY DEF PackInv, EntriesIn
<1>3. found = UNION {Places(p, headers[p].entries) : p \in DOMAIN packs}
  BY DEF Places, Place
<1> HIDE DEF found, headers
<1>4. found = Found(DOMAIN packs)
  BY <1>2, <1>3 DEF Found
<1>5. Pending = {}
  BY DEF Pending
<1>6. \A r \in found : r.id \in DOMAIN idx
  BY <1>4, <1>5 DEF IndexInv
<1>7. \A r, s \in found : r.id = s.id => r = s
  <2>1. \A r, s \in Found(AllPacks) : r.id = s.id => r = s
    BY DEF BlobInv, OnePlace
  <2>2. found \subseteq Found(AllPacks)
    BY <1>4, FoundInMore DEF AllPacks
  <2> QED
    BY <2>1, <2>2
<1>8. ASSUME NEW b \in DOMAIN idx
      PROVE  b \in {r.id : r \in found} /\ (CHOOSE r \in found : r.id = b).location = idx[b]
  <2> DEFINE t == [id |-> b, location |-> idx[b]]
             c == CHOOSE r \in found : r.id = b
  <2>1. t \in found /\ t.id = b /\ t.location = idx[b]
    BY <1>4 DEF IndexInv
  <2> HIDE DEF t
  <2>2. c \in found /\ c.id = b
    BY <2>1
  <2> HIDE DEF c
  <2>3. c = t
    BY <1>7, <2>1, <2>2
  <2> QED
    BY <2>1, <2>3 DEF c
<1>9. {r.id : r \in found} = DOMAIN idx
  BY <1>6, <1>8
<1>10. PackIndex = [b \in DOMAIN idx |-> idx[b]]
  BY <1>1, <1>8, <1>9
<1> QED
  BY <1>10 DEF IndexInv

\* What is written says the same in the next state while the index does.
LEMMA SameIndex ==
    ASSUME idx' = idx
    PROVE  /\ IndexCell' = IndexCell /\ \A s : Below(s)' = Below(s)
           /\ \A cells, s : Written(cells, s)' = Written(cells, s)
BY DEF IndexCell, Below, Record, Written

LEMMA StartKeeps ==
    ASSUME InputInv, PackInv, IndexInv, SaveInv, StartSave
    PROVE  SaveInv'
<1>1. /\ phase = "backup" /\ Settled
      /\ saving' = [NotSaving EXCEPT !.at = "count", !.shard = 1]
      /\ UNCHANGED <<phase, damaged, idx, writer, packCh, uploads>>
  BY DEF StartSave, AllPacked, FileEnds, Settled, assembler, store
<1>2. saving' = [at |-> "count", shard |-> 1, count |-> 0, cells |-> <<>>]
  BY <1>1 DEF NotSaving
<1>3. Cardinality(Below(1)') = 0
  <2>1. Below(1) = {} /\ Cardinality({}) = 0
    BY IndexOfBlobs, ShardsAdd, FS_EmptySet
  <2>2. Below(1)' = Below(1)
    BY <1>1 DEF Below
  <2> QED
    BY <2>1, <2>2
<1>4. saving' \in [at : {"count", "write"}, shard : 1..NumShards, count : Nat, cells : Seq(IndexCell')]
  <2>1. 1 \in 1..NumShards /\ <<>> \in Seq(IndexCell')
    BY NumShardsAssumption
  <2> QED
    BY <1>2, <2>1
<1>5. saving'.at = "count" /\ saving'.shard = 1 /\ saving'.count = 0
  BY <1>2
<1>6. Settled'
  BY <1>1 DEF Settled
<1>7. (saving.count = Cardinality(Below(saving.shard)))'
  BY <1>3, <1>5
<1> QED
  BY <1>1, <1>4, <1>5, <1>6, <1>7 DEF SaveInv

\* WriteTo's state, as a record of typed parts.
LEMMA SavingIs ==
    ASSUME SaveInv, saving.at # "no"
    PROVE  /\ phase = "backup" /\ Settled /\ damaged = {}
           /\ \E s \in 1..NumShards, n \in Nat, cells \in Seq(IndexCell) :
                 /\ saving = [at |-> saving.at, shard |-> s, count |-> n, cells |-> cells]
                 /\ saving.shard = s /\ saving.count = n /\ saving.cells = cells
                 /\ saving.at = "count" => n = Cardinality(Below(s))
                 /\ saving.at = "write" => Written(cells, s)
<1>1. phase = "backup" /\ Settled /\ damaged = {}
  BY DEF SaveInv
<1>2. saving # NotSaving
  BY DEF NotSaving
<1>3. /\ saving \in [at : {"count", "write"}, shard : 1..NumShards, count : Nat, cells : Seq(IndexCell)]
      /\ saving.at = "count" => saving.count = Cardinality(Below(saving.shard))
      /\ saving.at = "write" => Written(saving.cells, saving.shard)
  BY <1>2 DEF SaveInv
<1>4. /\ saving.shard \in 1..NumShards /\ saving.count \in Nat /\ saving.cells \in Seq(IndexCell)
      /\ saving = [at |-> saving.at, shard |-> saving.shard, count |-> saving.count,
                   cells |-> saving.cells]
  BY <1>3
<1> QED
  BY <1>1, <1>3, <1>4

LEMMA CountKeeps ==
    ASSUME PackInv, IndexInv, SaveInv, CountShard
    PROVE  SaveInv'
<1>1. /\ saving.at = "count"
      /\ UNCHANGED <<phase, damaged, idx, writer, packCh, uploads, indexObject>>
  BY DEF CountShard, assembler, store
<1>2. PICK s \in 1..NumShards, n \in Nat, cells \in Seq(IndexCell) :
          /\ saving = [at |-> "count", shard |-> s, count |-> n, cells |-> cells]
          /\ saving.shard = s /\ saving.count = n /\ n = Cardinality(Below(s))
  BY <1>1, SavingIs
<1>3. phase = "backup" /\ Settled /\ damaged = {}
  BY <1>1, SavingIs
<1>4. DOMAIN idx \subseteq Blob /\ IsFiniteSet(DOMAIN idx) /\ NumShards \in Nat \ {0}
  BY IndexOfBlobs, NumShardsAssumption
<1>5. PICK m \in Nat : m = n + ShardLen(idx, s) /\ m = Cardinality(Below(s + 1))
  BY <1>2, <1>4, ShardsAdd DEF ShardLen
<1>6. saving' = IF s < NumShards
                THEN [at |-> "count", shard |-> s + 1, count |-> m, cells |-> cells]
                ELSE [at |-> "write", shard |-> 1, count |-> m, cells |-> Header(m)]
  <2>1. saving' = IF saving.shard < NumShards
                  THEN [saving EXCEPT !.shard = @ + 1, !.count = m]
                  ELSE [at |-> "write", shard |-> 1, count |-> m, cells |-> Header(m)]
    <3>1. saving.count + ShardLen(idx, saving.shard) = m
      BY <1>2, <1>5
    <3> QED
      BY <3>1, Zenon DEF CountShard
  <2>2. [saving EXCEPT !.shard = @ + 1, !.count = m]
          = [at |-> "count", shard |-> s + 1, count |-> m, cells |-> cells]
    <3> DEFINE before == [at |-> "count", shard |-> s, count |-> n, cells |-> cells]
    <3>1. [before EXCEPT !.shard = @ + 1] = [at |-> "count", shard |-> s + 1, count |-> n, cells |-> cells]
      OBVIOUS
    <3>2. [[at |-> "count", shard |-> s + 1, count |-> n, cells |-> cells]
              EXCEPT !.count = m] = [at |-> "count", shard |-> s + 1, count |-> m, cells |-> cells]
      OBVIOUS
    <3>3. [before EXCEPT !.shard = @ + 1, !.count = m]
            = [[before EXCEPT !.shard = @ + 1] EXCEPT !.count = m]
      OBVIOUS
    <3>4. [before EXCEPT !.shard = @ + 1, !.count = m] = [at |-> "count", shard |-> s + 1, count |-> m, cells |-> cells]
      BY <3>1, <3>2, <3>3
    <3>5. saving = before
      BY <1>2
    <3> HIDE DEF before
    <3> QED
      BY <3>4, <3>5, Zenon
  <2> QED
    BY <1>2, <2>1, <2>2
<1>7. Settled' /\ \A t : Below(t)' = Below(t)
  BY <1>1, <1>3, SameIndex DEF Settled
<1>8. IndexCell' = IndexCell
  BY <1>1, SameIndex
<1>9. CASE s < NumShards
  <2>1. saving' = [at |-> "count", shard |-> s + 1, count |-> m, cells |-> cells]
    BY <1>6, <1>9
  <2>2. saving'.at = "count" /\ saving'.shard = s + 1 /\ saving'.count = m
    BY <2>1
  <2>3. s + 1 \in 1..NumShards
    BY <1>4, <1>9
  <2>4. saving' \in [at : {"count", "write"}, shard : 1..NumShards, count : Nat, cells : Seq(IndexCell')]
    BY <1>5, <1>8, <2>1, <2>3
  <2>5. (saving.count = Cardinality(Below(saving.shard)))'
    BY <1>5, <1>7, <2>2
  <2> QED
    BY <1>1, <1>3, <1>7, <2>2, <2>4, <2>5 DEF SaveInv
<1>10. CASE ~(s < NumShards)
  <2>1. saving' = [at |-> "write", shard |-> 1, count |-> m, cells |-> Header(m)]
    BY <1>6, <1>10
  <2>2. saving'.at = "write" /\ saving'.shard = 1 /\ saving'.cells = Header(m)
    BY <2>1
  <2>3. s = NumShards /\ 1 \in 1..NumShards
    BY <1>4, <1>10
  <2>4. m = Cardinality(DOMAIN idx)
    BY <1>4, <1>5, <2>3, ShardsAdd
  <2>5. Written(Header(m), 1)
    BY <1>4, <2>4, HeaderWritten
  <2>6. PICK written \in Seq(IndexCell) : written = Header(m) /\ Written(written, 1)
    BY <2>5 DEF Written
  <2>10. Written(written, 1)'
    BY <1>1, <2>6 DEF Written, Below, Record, IndexCell
  <2>7. Header(m) \in Seq(IndexCell')
    BY <1>8, <2>5 DEF Written
  <2>8. saving' \in [at : {"count", "write"}, shard : 1..NumShards, count : Nat, cells : Seq(IndexCell')]
    BY <1>5, <2>1, <2>3, <2>7
  <2>9. Written(saving.cells, saving.shard)'
    BY <2>2, <2>6, <2>10
  <2> QED
    BY <1>1, <1>3, <1>7, <2>2, <2>8, <2>9 DEF SaveInv
<1> QED
  BY <1>9, <1>10

LEMMA WriteKeeps ==
    ASSUME PackInv, IndexInv, SaveInv, WriteShard
    PROVE  SaveInv'
<1>1. saving.at = "write" /\ UNCHANGED <<damaged, idx, writer, packCh, uploads>>
  BY DEF WriteShard, assembler
<1>2. PICK s \in 1..NumShards, n \in Nat, cells \in Seq(IndexCell) :
          /\ saving = [at |-> "write", shard |-> s, count |-> n, cells |-> cells]
          /\ saving.shard = s /\ saving.cells = cells /\ Written(cells, s)
  BY <1>1, SavingIs
<1>3. phase = "backup" /\ Settled /\ damaged = {}
  BY <1>1, SavingIs
<1>4. DOMAIN idx \subseteq Blob /\ IsFiniteSet(DOMAIN idx) /\ NumShards \in Nat \ {0}
  BY IndexOfBlobs, NumShardsAssumption
<1>5. PICK all \in Seq(IndexCell) : all = cells \o Records(idx, s) /\ Written(all, s + 1)
  <2>1. Written(cells \o Records(idx, s), s + 1)
    BY <1>2, <1>4, ShardWritten
  <2> QED
    BY <2>1 DEF Written
<1>6. Written(all, s + 1)' /\ IndexCell' = IndexCell /\ Settled'
  <2>1. Written(all, s + 1)'
    BY <1>1, <1>5 DEF Written, Below, Record, IndexCell
  <2> QED
    BY <1>1, <1>3, <2>1, SameIndex DEF Settled
<1>7. IF s < NumShards
      THEN /\ saving' = [at |-> "write", shard |-> s + 1, count |-> n, cells |-> all]
           /\ UNCHANGED <<indexObject, phase>>
      ELSE saving' = NotSaving /\ indexObject' = all /\ phase' = "saved"
  <2>1. saving.cells \o Records(idx, saving.shard) = all
    BY <1>2, <1>5
  <2>2. IF saving.shard < NumShards
        THEN /\ saving' = [saving EXCEPT !.shard = @ + 1, !.cells = all]
             /\ UNCHANGED <<indexObject, phase>>
        ELSE saving' = NotSaving /\ indexObject' = all /\ phase' = "saved"
    BY <2>1, Zenon DEF WriteShard
  <2>3. [saving EXCEPT !.shard = @ + 1, !.cells = all]
          = [at |-> "write", shard |-> s + 1, count |-> n, cells |-> all]
    <3> DEFINE before == [at |-> "write", shard |-> s, count |-> n, cells |-> cells]
    <3>1. [before EXCEPT !.shard = @ + 1] = [at |-> "write", shard |-> s + 1, count |-> n, cells |-> cells]
      OBVIOUS
    <3>2. [[at |-> "write", shard |-> s + 1, count |-> n, cells |-> cells]
              EXCEPT !.cells = all] = [at |-> "write", shard |-> s + 1, count |-> n, cells |-> all]
      OBVIOUS
    <3>3. [before EXCEPT !.shard = @ + 1, !.cells = all]
            = [[before EXCEPT !.shard = @ + 1] EXCEPT !.cells = all]
      OBVIOUS
    <3>4. [before EXCEPT !.shard = @ + 1, !.cells = all] = [at |-> "write", shard |-> s + 1, count |-> n, cells |-> all]
      BY <3>1, <3>2, <3>3
    <3>5. saving = before
      BY <1>2
    <3> HIDE DEF before
    <3> QED
      BY <3>4, <3>5, Zenon
  <2> QED
    BY <1>2, <2>2, <2>3
<1>8. CASE s < NumShards
  <2>1. /\ saving' = [at |-> "write", shard |-> s + 1, count |-> n, cells |-> all]
        /\ phase' = "backup"
    BY <1>3, <1>7, <1>8
  <2>2. saving'.at = "write" /\ saving'.shard = s + 1 /\ saving'.cells = all
    BY <2>1
  <2>3. s + 1 \in 1..NumShards
    BY <1>4, <1>8
  <2>4. saving' \in [at : {"count", "write"}, shard : 1..NumShards, count : Nat, cells : Seq(IndexCell')]
    BY <1>5, <1>6, <2>1, <2>3
  <2>5. Written(saving.cells, saving.shard)'
    BY <1>6, <2>2
  <2> QED
    BY <1>1, <1>3, <1>6, <2>1, <2>2, <2>4, <2>5 DEF SaveInv
<1>9. CASE ~(s < NumShards)
  <2>1. saving' = NotSaving /\ indexObject' = all /\ phase' = "saved"
    BY <1>7, <1>9
  <2>2. s = NumShards /\ saving'.at = "no" /\ damaged' = {}
    BY <1>1, <1>3, <1>4, <1>9, <2>1 DEF NotSaving
  <2>3. Written(indexObject, NumShards + 1)'
    BY <1>6, <2>1, <2>2
  <2> QED
    BY <1>6, <2>1, <2>2, <2>3 DEF SaveInv
<1> QED
  BY <1>8, <1>9

-----------------------------------------------------------------------------
(* Damage, and the index that is opened                                      *)

\* A reader does not believe an index object that is cut off, or has another
\* magic or count.
LEMMA DamageShows ==
    ASSUME DOMAIN idx \subseteq Blob, IsFiniteSet(DOMAIN idx),
           NEW cells, Written(cells, NumShards + 1), NEW after,
           \/ \E n \in 0..(Len(cells) - 1) : after = SubSeq(cells, 1, n)
           \/ after = [cells EXCEPT ![1] = <<"junk", 0>>]
           \/ \E n \in 0..(MaxEntries + 1) :
                 n # cells[2][2] /\ after = [cells EXCEPT ![2] = <<"count", n>>]
    PROVE  ~IndexDecodes(after)
<1>1. PICK c \in Nat : c = Cardinality(DOMAIN idx)
  BY ShardsAdd
<1>2. /\ cells \in Seq(IndexCell) /\ Len(cells) = 2 + c
      /\ cells[1] = <<"magic", 0>> /\ cells[2] = <<"count", c>>
  BY <1>1, ShardsAdd DEF Written
<1>3. cells[2][2] = c /\ MaxEntries \in Nat
  BY <1>2, MaxEntriesAssumption
<1>4. CASE \E n \in 0..(Len(cells) - 1) : after = SubSeq(cells, 1, n)
  <2>1. PICK n \in 0..(Len(cells) - 1) : after = SubSeq(cells, 1, n)
    BY <1>4
  <2>2. n \in Nat /\ n < 2 + c /\ 1 \in 1..Len(cells) /\ n <= Len(cells)
    BY <1>1, <1>2
  <2>3. Len(after) = n /\ \A i \in 1..n : after[i] = cells[i]
    BY <1>2, <2>1, <2>2, SubSeqProperties
  <2>4. CASE n >= 2
    <3>1. after[2][2] = c
      BY <1>3, <2>2, <2>3, <2>4
    <3> QED
      BY <1>1, <2>2, <2>3, <3>1 DEF IndexDecodes
  <2>5. CASE ~(n >= 2)
    BY <2>3, <2>5 DEF IndexDecodes
  <2> QED
    BY <2>4, <2>5
<1>5. CASE after = [cells EXCEPT ![1] = <<"junk", 0>>]
  <2>1. 1 \in DOMAIN cells
    BY <1>1, <1>2
  <2>2. after[1] = <<"junk", 0>>
    BY <1>5, <2>1
  <2>3. after[1][1] = "junk"
    BY <2>2
  <2> QED
    BY <2>3 DEF IndexDecodes
<1>6. CASE \E n \in 0..(MaxEntries + 1) :
              n # cells[2][2] /\ after = [cells EXCEPT ![2] = <<"count", n>>]
  <2>1. PICK n \in 0..(MaxEntries + 1) : n # c /\ after = [cells EXCEPT ![2] = <<"count", n>>]
    BY <1>3, <1>6
  <2>2. 2 \in DOMAIN cells
    BY <1>1, <1>2
  <2>3. after[2] = <<"count", n>> /\ Len(after) = 2 + c
    BY <1>1, <1>2, <2>1, <2>2
  <2>4. after[2][2] = n /\ n \in Nat
    BY <1>3, <2>3
  <2> QED
    BY <1>1, <2>1, <2>3, <2>4 DEF IndexDecodes
<1> QED
  BY <1>4, <1>5, <1>6

LEMMA DamageKeeps ==
    ASSUME PackInv, IndexInv, SaveInv, DamageIndex
    PROVE  SaveInv'
<1>1. /\ phase = "saved" /\ phase' = "saved" /\ damaged = {} /\ damaged' = {"index"}
      /\ \/ \E n \in 0..(Len(indexObject) - 1) : indexObject' = SubSeq(indexObject, 1, n)
         \/ indexObject' = [indexObject EXCEPT ![1] = <<"junk", 0>>]
         \/ \E n \in 0..(MaxEntries + 1) :
               n # indexObject[2][2] /\ indexObject' = [indexObject EXCEPT ![2] = <<"count", n>>]
      /\ UNCHANGED <<saving, idx, writer, packCh, uploads>>
  BY DEF DamageIndex, uploaders, assembler
<1>2. Written(indexObject, NumShards + 1) /\ saving.at = "no" /\ Settled
  BY <1>1 DEF SaveInv
<1>3. saving = NotSaving
  BY <1>2 DEF SaveInv
<1>4. ~IndexDecodes(indexObject')
  BY <1>1, <1>2, IndexOfBlobs, DamageShows
<1>5. Settled' /\ saving' = NotSaving /\ saving'.at = "no"
  BY <1>1, <1>2, <1>3 DEF Settled
<1>6. damaged' # {}
  BY <1>1
<1> QED
  BY <1>1, <1>4, <1>5, <1>6 DEF SaveInv

\* Open comes to the index that was saved, either way.
LEMMA OpenKeeps ==
    ASSUME PackInv, BlobInv, IndexInv, SaveInv, LoadIndex \/ RebuildIndex, phase' # "failed"
    PROVE  idx' = idx /\ SaveInv'
<1>1. /\ phase = "saved" /\ phase' = "open"
      /\ UNCHANGED <<saving, damaged, writer, packCh, uploads>>
  BY DEF LoadIndex, RebuildIndex, uploaders, assembler, store
<1>2. saving.at = "no" /\ Settled
  BY <1>1 DEF SaveInv
<1>3. idx' = idx
  <2>1. CASE LoadIndex
    <3>1. IndexDecodes(indexObject) /\ idx' = ReadFrom(indexObject)
      BY <2>1 DEF LoadIndex
    <3>2. Written(indexObject, NumShards + 1)
      BY <1>1, <3>1 DEF SaveInv
    <3>3. ReadFrom(indexObject) = idx
      BY <3>2, IndexOfBlobs, ReadsBack
    <3> QED
      BY <3>1, <3>3
  <2>2. CASE RebuildIndex
    <3>1. idx' = PackIndex
      BY <2>2, Zenon DEF RebuildIndex, PackIndex
    <3>2. PackIndex = idx
      BY <1>2, IndexIsRebuilt DEF Settled
    <3> QED
      BY <3>1, <3>2
  <2> QED
    BY <2>1, <2>2
<1>4. saving = NotSaving
  BY <1>2 DEF SaveInv
<1>5. Settled' /\ saving' = NotSaving /\ saving'.at = "no"
  BY <1>1, <1>2, <1>4 DEF Settled
<1> QED
  BY <1>1, <1>3, <1>5 DEF SaveInv

-----------------------------------------------------------------------------
(* The invariant holds                                                       *)

LEMMA StoreInit == PathInit => StoreInv
<1> SUFFICES ASSUME PathInit PROVE StoreInv
  OBVIOUS
<1>1. /\ inFlight = {} /\ writer = NewWriter /\ packCh = {} /\ uploads = {} /\ saving = NotSaving
      /\ packs = [p \in {} |-> <<>>] /\ damaged = {} /\ idx = EmptyIndex /\ phase = "backup"
      /\ tree \in Trees /\ recipes = [i \in DOMAIN tree |-> <<>>]
  BY DEF PathInit
<1>2. DOMAIN packs = {} /\ AllPacks = {} /\ Pending = {} /\ DOMAIN idx = {}
  BY <1>1 DEF AllPacks, Pending, EmptyIndex
<1>3. Found({}) = {}
  BY FoundInMore
<1>4. PackInv
  BY <1>1, <1>2, <1>3 DEF PackInv
<1>5. BlobInv
  <2>1. OnePlace(writer, AllPacks, inFlight)
    BY <1>1, <1>2, <1>3, EmptyWriter DEF OnePlace
  <2>2. \A i \in 1..Len(tree) : Len(recipes[i]) = 0
    <3>1. DOMAIN tree = 1..Len(tree)
      BY <1>1, TreesAssumption
    <3> QED
      BY <1>1, <3>1
  <2> QED
    BY <2>1, <2>2 DEF BlobInv
<1>6. IndexInv
  <2>1. idx = [b \in DOMAIN idx |-> idx[b]]
    BY <1>1 DEF EmptyIndex
  <2> QED
    BY <1>2, <1>3, <2>1, FS_EmptySet DEF IndexInv
<1>7. SaveInv
  <2>1. NotSaving.at = "no"
    BY DEF NotSaving
  <2> QED
    BY <1>1, <2>1 DEF SaveInv
<1> QED
  BY <1>4, <1>5, <1>6, <1>7 DEF StoreInv

LEMMA StoreKept ==
    ASSUME InputInv, InputInv', StoreInv, [PathNext]_pathVars
    PROVE  StoreInv'
<1> SUFFICES ASSUME Intact' PROVE PackInv' /\ BlobInv' /\ IndexInv' /\ SaveInv'
  BY DEF StoreInv
<1>1. PackInv /\ BlobInv /\ IndexInv /\ SaveInv /\ phase # "failed" /\ phase' # "failed"
  BY IntactBefore DEF StoreInv, Intact
<1>2. CASE Chunk \/ NextFile \/ RestoreFile \/ Stop \/ UNCHANGED pathVars
  <2>1. UNCHANGED <<phase, damaged, saving, indexObject, idx, writer, packCh, uploads, inFlight,
                    packs, recipes, tree>>
    BY <1>1, <1>2 DEF Chunk, NextFile, RestoreFile, Stop, pathVars, input, assembler, uploaders, store
  <2> QED
    BY <1>1, <2>1, PacksStay, BlobsStay, IndexStays, SaveStays
<1>3. CASE Assemble
  BY <1>1, <1>3, AssembleKeeps
<1>4. CASE ReadFailed
  BY <1>1, <1>4 DEF ReadFailed
<1>5. CASE LastFlush
  BY <1>1, <1>5, LastFlushKeeps
<1>6. CASE StorePack
  BY <1>1, <1>6, StoreKeeps
<1>7. CASE InsertEntry
  BY <1>1, <1>7, InsertKeeps
<1>8. CASE StartSave \/ CountShard \/ WriteShard
  <2>1. UNCHANGED <<packCh, packs, uploads, idx, writer, inFlight, recipes, tree>>
    BY <1>8 DEF StartSave, CountShard, WriteShard, input, assembler, store
  <2>2. SaveInv'
    BY <1>1, <1>8, StartKeeps, CountKeeps, WriteKeeps
  <2> QED
    BY <1>1, <2>1, <2>2, PacksStay, BlobsStay, IndexStays
<1>9. CASE DamageIndex
  <2>1. UNCHANGED <<packCh, packs, uploads, idx, writer, inFlight, recipes, tree>>
    BY <1>9 DEF DamageIndex, input, assembler, uploaders
  <2> QED
    BY <1>1, <1>9, <2>1, DamageKeeps, PacksStay, BlobsStay, IndexStays
<1>10. CASE DamageRecord \/ DamagePack
  BY <1>10 DEF DamageRecord, DamagePack, Intact
<1>11. CASE LoadIndex \/ RebuildIndex
  <2>1. UNCHANGED <<packCh, packs, uploads, writer, inFlight, recipes, tree>>
    BY <1>11 DEF LoadIndex, RebuildIndex, input, assembler, uploaders, store
  <2>2. idx' = idx /\ SaveInv'
    BY <1>1, <1>11, OpenKeeps
  <2> QED
    BY <1>1, <2>1, <2>2, PacksStay, BlobsStay, IndexStays
<1> QED
  BY <1>2, <1>3, <1>4, <1>5, <1>6, <1>7, <1>8, <1>9, <1>10, <1>11
  DEF PathNext, PutPack, SaveIndex, WriteTo

LEMMA StoreAlways == PathSpec => []StoreInv
<1>1. InputInv /\ InputInv' /\ StoreInv /\ [PathNext]_pathVars => StoreInv'
  BY StoreKept
<1> QED
  BY <1>1, StoreInit, InputAlways, PTL DEF PathSpec

-----------------------------------------------------------------------------
(* What the packs and the index object promise                               *)

\* The index that WriteTo saves a shard at a time is the one that ReadFrom gives
\* back, for any number of shards and of blobs; an object that is cut off, or
\* has another magic or count, or holds more than a reader believes, is refused;
\* and the headers of the packs, found by two reads of each, say the same.
THEOREM SavedIndexRecovered == PathSpec => []IndexRecovered
<1>1. StoreInv => IndexRecovered
  <2> SUFFICES ASSUME StoreInv, phase = "saved", damaged \subseteq {"index"}
               PROVE  /\ IndexDecodes(indexObject)
                           = (damaged = {} /\ Cardinality(DOMAIN idx) <= MaxEntries)
                      /\ damaged = {} => ReadFrom(indexObject) = idx
                      /\ PackIndex = idx
    BY DEF IndexRecovered
  <2>1. PackInv /\ BlobInv /\ IndexInv /\ SaveInv
    BY DEF StoreInv, Intact
  <2>2. PackIndex = idx
    BY <2>1, IndexIsRebuilt DEF SaveInv, Settled
  <2>3. CASE damaged = {}
    <3>1. Written(indexObject, NumShards + 1)
      BY <2>1, <2>3 DEF SaveInv
    <3>2. /\ IndexDecodes(indexObject) = (Cardinality(DOMAIN idx) <= MaxEntries)
          /\ ReadFrom(indexObject) = idx
      BY <2>1, <3>1, IndexOfBlobs, ReadsBack
    <3>3. (damaged = {} /\ Cardinality(DOMAIN idx) <= MaxEntries)
            = (Cardinality(DOMAIN idx) <= MaxEntries)
      BY <2>3, <3>2, DecodesOrNot
    <3> QED
      BY <2>2, <3>2, <3>3, Zenon
  <2>4. CASE damaged # {}
    <3>1. IndexDecodes(indexObject) = FALSE
      BY <2>1, <2>4, DecodesOrNot DEF SaveInv
    <3> QED
      BY <2>2, <2>4, <3>1, Zenon
  <2> QED
    BY <2>3, <2>4
<1> QED
  BY <1>1, StoreAlways, PTL

\* Once nothing is left to pack, to store or to insert, GetBlob finds every blob
\* of the run.
LEMMA BlobsReadable ==
    ASSUME PackInv, BlobInv, IndexInv, Settled, NEW b \in inFlight
    PROVE  Readable(b)
<1>1. AllPacks = DOMAIN packs /\ Pending = {} /\ Held(writer) = {}
  <2>1. writer.entries = <<>> /\ packCh = {} /\ uploads = {}
    BY DEF Settled
  <2>2. Len(writer.entries) = 0
    BY <2>1
  <2>3. Held(writer) = {}
    BY <2>2 DEF Held
  <2> QED
    BY <2>1, <2>3 DEF AllPacks, Pending
<1>2. PICK r \in Found(DOMAIN packs) : r.id = b
  BY <1>1 DEF BlobInv, OnePlace
<1>3. b \in DOMAIN idx
  BY <1>1, <1>2 DEF IndexInv
<1> DEFINE t == [id |-> b, location |-> idx[b]]
<1>4. t \in Found(DOMAIN packs) /\ t.id = b /\ t.location = idx[b]
  BY <1>3 DEF IndexInv
<1> HIDE DEF t
<1>5. \A p \in DOMAIN packs : Sound(p) /\ packs[p] = p
  BY DEF PackInv
<1>6. /\ t.location.pack \in DOMAIN packs
      /\ GetRange(t.location.pack, t.location.offset, t.location.length) = BlobCells(t.id)
  BY <1>4, <1>5, FoundIsThere
<1> QED
  BY <1>3, <1>4, <1>5, <1>6 DEF Readable

\* A saved backup whose packs are whole is opened and restored, with an index
\* object that is good, damaged, too large or gone: RebuildIndex finds the header
\* of every pack, and GetBlob every blob of every file.
THEOREM PacksAreEnough == PathSpec => PacksSuffice
<1>1. ASSUME InputInv, OutputInv, StoreInv, [PathNext]_pathVars, phase \in {"saved", "open"},
             damaged \subseteq {"index"}
      PROVE  phase' # "failed"
  <2>1. PackInv /\ BlobInv /\ IndexInv /\ SaveInv /\ Settled
    BY <1>1 DEF StoreInv, Intact, SaveInv
  <2>2. CASE RebuildIndex
    <3>1. \A p \in DOMAIN packs : ReadPackHeader(packs[p]).kind = "header"
      BY <2>1 DEF PackInv, Sound
    <3>2. phase' = "failed" => \E p \in DOMAIN packs : ReadPackHeader(packs[p]).kind # "header"
      BY <2>2 DEF RebuildIndex
    <3> QED
      BY <3>1, <3>2
  <2>3. CASE RestoreFile
    <3>1. Len(restored) + 1 \in 1..Len(tree) /\ recipes \in [1..Len(tree) -> Seq(Blob)]
      <4>1. Len(restored) < Len(tree) /\ Len(restored) \in Nat /\ Len(tree) \in Nat
        <5>1. tree \in Seq(Streams) /\ restored \in Seq(Seq(Seq(Byte)))
          BY <1>1, TreesAssumption DEF InputInv, OutputInv
        <5> QED
          BY <2>3, <5>1 DEF RestoreFile
      <4> QED
        BY <1>1, <4>1 DEF InputInv
    <3>2. PICK r \in Seq(Blob) : r = recipes[Len(restored) + 1]
      BY <3>1
    <3>3. \A i \in 1..Len(r) : Readable(r[i])
      BY <2>1, <3>1, <3>2, BlobsReadable DEF BlobInv
    <3>4. \A i \in DOMAIN r : Readable(r[i])
      BY <3>2, <3>3
    <3>5. phase' = phase
      BY <2>3, <3>2, <3>4, Zenon DEF RestoreFile
    <3> QED
      BY <1>1, <3>5
  <2>4. CASE ~(RebuildIndex \/ RestoreFile)
    <3>1. phase # "backup" /\ phase # "failed"
      BY <1>1
    <3>2. phase' = phase \/ phase' \in {"saved", "open"}
      <4>1. CASE PathNext
        BY <2>4, <3>1, <4>1 DEF PathNext, Chunk, Assemble, ReadFailed, NextFile, LastFlush,
          FileEnds, PutPack, StorePack, InsertEntry, SaveIndex, StartSave, WriteTo, CountShard,
          WriteShard, DamageIndex, DamageRecord, DamagePack, LoadIndex, Stop, pathVars
      <4>2. CASE UNCHANGED pathVars
        BY <4>2 DEF pathVars
      <4> QED
        BY <1>1, <4>1, <4>2
    <3> QED
      BY <3>1, <3>2
  <2> QED
    BY <2>2, <2>3, <2>4
<1>2. InputInv /\ OutputInv /\ StoreInv /\ [PathNext]_pathVars =>
          [(phase \in {"saved", "open"} /\ damaged \subseteq {"index"}) => phase' # "failed"]_pathVars
  BY <1>1
<1> QED
  BY <1>2, InputAlways, StoreAlways, PTL DEF PathSpec, PacksSuffice

\* Nothing happens to the objects but what the constants say.
LEMMA DamageAlways == PathSpec => [](damaged \subseteq Damages)
<1>1. ASSUME damaged \subseteq Damages, [PathNext]_pathVars PROVE damaged' \subseteq Damages
  <2>1. CASE DamageIndex \/ DamageRecord \/ DamagePack
    BY <1>1, <2>1 DEF DamageIndex, DamageRecord, DamagePack
  <2>2. CASE ~(DamageIndex \/ DamageRecord \/ DamagePack)
    <3>1. UNCHANGED damaged
      BY <1>1, <2>2 DEF PathNext, Chunk, Assemble, ReadFailed, NextFile, LastFlush, PutPack,
        StorePack, InsertEntry, SaveIndex, StartSave, WriteTo, CountShard, WriteShard, LoadIndex,
        RebuildIndex, RestoreFile, Stop, pathVars, store
    <3> QED
      BY <1>1, <3>1
  <2> QED
    BY <2>1, <2>2
<1>2. PathInit => damaged \subseteq Damages
  BY DEF PathInit
<1>3. damaged \subseteq Damages /\ [PathNext]_pathVars => (damaged \subseteq Damages)'
  BY <1>1
<1> QED
  BY <1>2, <1>3, PTL DEF PathSpec

\* Open discards a corrupt index object, as its comment says, where what is
\* corrupt is not in a record: those have no checksum (repo.go:121, ReadFrom).
THEOREM OnlyRecordsDeceive ==
    ASSUME "record" \notin Damages
    PROVE  PathSpec => []CorruptIndexDiscarded
<1>1. StoreInv /\ damaged \subseteq Damages => CorruptIndexDiscarded
  <2> SUFFICES ASSUME StoreInv, damaged \subseteq Damages, phase = "open", "pack" \notin damaged
               PROVE  idx = PackIndex
    BY DEF CorruptIndexDiscarded
  <2>1. damaged \subseteq {"index"}
    BY DamagesAssumption
  <2>2. PackInv /\ BlobInv /\ IndexInv /\ SaveInv
    BY <2>1 DEF StoreInv, Intact
  <2> QED
    BY <2>2, IndexIsRebuilt DEF SaveInv, Settled
<1> QED
  BY <1>1, StoreAlways, DamageAlways, PTL
=============================================================================

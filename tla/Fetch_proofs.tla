---------------------------- MODULE Fetch_proofs -----------------------------
(***************************************************************************)
(* For every size of the list, every area and every file in CBFS: the late *)
(* tests of the fetch loop let it write one row and one character too far, *)
(* and never more; and a text whose lines have room is saved as it was     *)
(* read.                                                                   *)
(***************************************************************************)
EXTENDS Fetch, FiniteSetTheorems, TLAPS

\* While packing, the list so far is what j rows and k characters can hold.
PackInv ==
    /\ pc \in {"boot", "reset", "fetch", "fetched"} => packed = <<>> /\ j = 0 /\ k = 0
    /\ pc = "pack" => /\ row <= MaxDevices
                      /\ j <= row
                      /\ Len(packed) <= j * MaxLength + k
                      /\ j = row => k = 0

\* While fetching, the next round stays within the buffer.
FetchInv ==
    /\ pc = "boot" => row = 0 /\ col = 0 /\ offset = 0
    /\ pc = "fetch" => offset <= MaxLength * MaxDevices

IInv == TypeOK /\ FetchInv /\ PackInv /\ SpillBounded

\* The cells that the loops name are cells of the flat buffer.
LEMMA CellInBuffer ==
    ASSUME NEW r \in 0..MaxDevices, NEW c \in 0..MaxLength
    PROVE  /\ Cell(r, c) \in Cells
           /\ r * MaxLength \in Nat
           /\ r * MaxLength <= MaxDevices * MaxLength
           /\ (r + 1) * MaxLength = r * MaxLength + MaxLength
<1>1. MaxDevices \in Nat /\ MaxLength \in Nat /\ r \in Nat /\ c \in Nat
  BY FetchAssumption
<1>2. r * MaxLength \in Nat /\ MaxDevices * MaxLength \in Nat
  BY <1>1
<1>3. r * MaxLength <= MaxDevices * MaxLength
  BY <1>1, r <= MaxDevices
<1>4. /\ (MaxDevices + 1) * MaxLength = MaxDevices * MaxLength + MaxLength
      /\ (r + 1) * MaxLength = r * MaxLength + MaxLength
  BY <1>1
<1>5. Cell(r, c) \in Cells
  BY <1>1, <1>2, <1>3, <1>4 DEF Cell, Cells
<1> QED
  BY <1>2, <1>3, <1>4, <1>5

\* The bounds of the offset and of the packed text.
LEMMA Bounds ==
    /\ MaxDevices \in Nat \ {0} /\ MaxLength \in Nat \ {0}
    /\ MaxDevices * MaxLength \in Nat
    /\ MaxLength * MaxDevices \in Nat
  BY FetchAssumption

\* The inductive invariant holds at the start.
LEMMA InitIInv == Init => IInv
<1> SUFFICES ASSUME Init PROVE IInv
  OBVIOUS
<1> USE Bounds
<1>1. TypeOK
  BY DEF Init, TypeOK, Unwritten
<1>2. PackInv /\ FetchInv
  BY DEF Init, PackInv, FetchInv
<1>3. SpillBounded
  BY DEF Init, SpillBounded
<1> QED
  BY <1>1, <1>2, <1>3 DEF IInv

\* The choice of the text starts the loop at the first cell.
LEMMA StartStep == IInv /\ Start => IInv'
<1> SUFFICES ASSUME IInv, Start PROVE IInv'
  OBVIOUS
<1>1. text' \in Seq(Char)
  BY FetchAssumption DEF IInv, TypeOK, Start
<1>2. TypeOK'
  BY <1>1 DEF IInv, TypeOK, Start, files, packing
<1>3. PackInv'
  BY DEF IInv, PackInv, Start, packing
<1>4. FetchInv' /\ row' <= MaxDevices /\ col' <= MaxLength
  BY Bounds DEF IInv, FetchInv, Start
<1>5. SpillBounded'
  BY <1>4 DEF IInv, SpillBounded, Start, packing
<1> QED
  BY <1>2, <1>3, <1>4, <1>5 DEF IInv

\* A round ends the loop, or leaves row, column and offset in bounds.
LEMMA AdvanceBounds ==
    ASSUME NEW r \in 0..MaxDevices + 1, NEW c \in 0..MaxLength + 1,
           TypeOK, pc = "fetch", Advance(r, c)
    PROVE  /\ pc' \in {"fetch", "fetched"}
           /\ row' \in 0..MaxDevices + 1
           /\ col' \in 0..MaxLength + 1
           /\ pc' = "fetch" => /\ row' <= MaxDevices
                               /\ col' <= MaxLength
                               /\ offset + 1 <= MaxLength * MaxDevices
  BY Bounds DEF Advance, Excess, TypeOK

\* A round that goes on has passed the three tests.
LEMMA FetchCharStep ==
    ASSUME IInv, NEW tmp \in Char, FetchChar(tmp)
    PROVE  IInv'
<1>1. row \in 0..MaxDevices /\ col \in 0..MaxLength
  BY Bounds DEF IInv, TypeOK, SpillBounded, FetchChar
<1>2. /\ row + 1 \in 0..MaxDevices + 1 /\ col + 1 \in 0..MaxLength + 1
      /\ row \in 0..MaxDevices + 1 /\ 0 \in 0..MaxLength + 1
  BY <1>1, Bounds
<1>3. Cell(row, col) \in Cells
  BY <1>1, CellInBuffer
<1>4. dest' \in [Cells -> Char \cup {Unwritten}]
  BY <1>3 DEF FetchChar, IInv, TypeOK
<1>5. /\ pc' \in {"fetch", "fetched"}
      /\ row' \in 0..MaxDevices + 1
      /\ col' \in 0..MaxLength + 1
      /\ pc' = "fetch" => /\ row' <= MaxDevices
                          /\ col' <= MaxLength
                          /\ offset + 1 <= MaxLength * MaxDevices
  <2>1. CASE tmp = "n"
    <3>1. Advance(row + 1, 0)
      BY <2>1 DEF FetchChar
    <3> QED
      BY <3>1, <1>2, AdvanceBounds DEF IInv, FetchChar
  <2>2. CASE tmp # "n" /\ (tmp = "0" \/ offset + 1 > Len(text))
    <3>1. pc' = "fetched" /\ UNCHANGED <<row, col>>
      BY <2>2 DEF FetchChar
    <3> QED
      BY <3>1 DEF IInv, TypeOK
  <2>3. CASE tmp # "n" /\ ~(tmp = "0" \/ offset + 1 > Len(text))
    <3>1. Advance(row, col + 1)
      BY <2>3 DEF FetchChar
    <3> QED
      BY <3>1, <1>2, AdvanceBounds DEF IInv, FetchChar
  <2> QED
    BY <2>1, <2>2, <2>3
<1>6. offset' \in 0..MaxLength * MaxDevices + 1
  BY Bounds DEF IInv, TypeOK, FetchInv, FetchChar
<1>7. TypeOK'
  BY <1>4, <1>5, <1>6 DEF IInv, TypeOK, FetchChar, files, packing
<1>8. PackInv'
  BY <1>5 DEF IInv, PackInv, FetchChar, packing
<1>9. FetchInv'
  BY <1>5 DEF FetchInv, FetchChar
<1>10. SpillBounded'
  BY <1>5 DEF IInv, SpillBounded, FetchChar, packing
<1> QED
  BY <1>7, <1>8, <1>9, <1>10 DEF IInv

\* Packing begins with a list that fits.
LEMMA BeginPackStep == IInv /\ BeginPack => IInv'
<1> SUFFICES ASSUME IInv, BeginPack PROVE IInv'
  OBVIOUS
<1>1. TypeOK'
  BY DEF IInv, TypeOK, BeginPack, files, fetching, packing
<1>2. PackInv'
  <2>1. packed' = <<>> /\ j' = 0 /\ k' = 0 /\ row' = row /\ pc' = "pack"
    BY DEF IInv, PackInv, BeginPack, packing, fetching
  <2>2. row \in Nat /\ row <= MaxDevices
    BY Bounds DEF IInv, TypeOK, BeginPack
  <2> QED
    BY <2>1, <2>2, Bounds DEF PackInv
<1>3. FetchInv' /\ SpillBounded'
  BY DEF IInv, FetchInv, SpillBounded, BeginPack, fetching, packing
<1> QED
  BY <1>1, <1>2, <1>3 DEF IInv

\* Each character packed comes from a cell of its own.
LEMMA PackCharStep == IInv /\ PackChar => IInv'
<1> SUFFICES ASSUME IInv, PackChar PROVE IInv'
  OBVIOUS
<1> DEFINE ch == dest[Cell(j, k)]
<1>1. /\ j \in 0..MaxDevices - 1 /\ k \in 0..MaxLength - 1
      /\ row \in Nat /\ row <= MaxDevices /\ j < row
      /\ packed \in Seq(Char \cup {Unwritten})
      /\ Len(packed) <= j * MaxLength + k
  BY Bounds DEF IInv, TypeOK, PackInv, PackChar
<1>2. ch \in Char \cup {Unwritten}
  BY <1>1, CellInBuffer, Bounds DEF IInv, TypeOK
<1>3. /\ packed' \in Seq(Char \cup {Unwritten})
      /\ Len(packed') = Len(packed) + 1
  BY <1>1, <1>2 DEF PackChar
<1>4. \/ j' = j + 1 /\ k' = 0
      \/ j' = j /\ k' = k + 1 /\ k + 1 < MaxLength
  BY <1>1, Bounds DEF PackChar, NextCell
<1>5. j' \in 0..MaxDevices /\ j' <= row /\ k' \in 0..MaxLength - 1
  BY <1>1, <1>4, Bounds
<1>6. /\ j * MaxLength \in Nat
      /\ (j + 1) * MaxLength = j * MaxLength + MaxLength
      /\ (j + 1) * MaxLength <= MaxDevices * MaxLength
  BY <1>1, CellInBuffer, Bounds
<1>7. Len(packed') <= j' * MaxLength + k'
  <2>1. Len(packed) \in Nat
    BY <1>1
  <2>2. CASE j' = j + 1 /\ k' = 0
    BY <2>1, <2>2, <1>1, <1>3, <1>6, Bounds
  <2>3. CASE j' = j /\ k' = k + 1 /\ k + 1 < MaxLength
    BY <2>1, <2>3, <1>1, <1>3, <1>6, Bounds
  <2> QED
    BY <1>4, <2>2, <2>3
<1>8. Len(packed') <= MaxDevices * MaxLength + 1
  BY <1>1, <1>3, <1>6, Bounds
<1>9. pc' = "pack" /\ UNCHANGED <<files, fetching>> /\ pc = "pack"
  BY DEF IInv, PackChar
<1>10. TypeOK'
  BY <1>3, <1>5, <1>9 DEF IInv, TypeOK, files, fetching
<1>11. PackInv'
  BY <1>1, <1>4, <1>5, <1>7, <1>9, Bounds DEF IInv, PackInv, fetching
<1>12. FetchInv' /\ SpillBounded'
  BY <1>8, <1>9 DEF FetchInv, SpillBounded
<1> QED
  BY <1>10, <1>11, <1>12 DEF IInv

\* The NUL is one character more.
LEMMA PackEndsStep == IInv /\ PackEnds => IInv'
<1> SUFFICES ASSUME IInv, PackEnds PROVE IInv'
  OBVIOUS
<1>1. /\ pc = "pack" /\ j = row /\ k = 0
      /\ row \in 0..MaxDevices
      /\ packed \in Seq(Char \cup {Unwritten})
      /\ Len(packed) <= row * MaxLength + 0
  <2>1. pc = "pack" /\ j = row /\ row \in 0..MaxDevices
    BY Bounds DEF IInv, TypeOK, PackInv, PackEnds
  <2>2. k = 0 /\ Len(packed) <= j * MaxLength + k
    BY <2>1 DEF IInv, PackInv
  <2>3. packed \in Seq(Char \cup {Unwritten})
    BY DEF IInv, TypeOK
  <2> QED
    BY <2>1, <2>2, <2>3
<1>2. /\ packed' \in Seq(Char \cup {Unwritten})
      /\ Len(packed') = Len(packed) + 1
  BY <1>1 DEF PackEnds, Char
<1>3. row * MaxLength \in Nat /\ row * MaxLength <= MaxDevices * MaxLength
  BY <1>1, CellInBuffer, Bounds
<1>4. Len(packed') <= MaxDevices * MaxLength + 1
  BY <1>1, <1>2, <1>3, Bounds
<1>5. pc' = "packed" /\ UNCHANGED <<files, fetching, j, k>>
  BY DEF PackEnds
<1>6. TypeOK'
  BY <1>2, <1>5 DEF IInv, TypeOK, files, fetching
<1>7. PackInv' /\ FetchInv' /\ SpillBounded'
  BY <1>4, <1>5 DEF PackInv, FetchInv, SpillBounded
<1> QED
  BY <1>6, <1>7 DEF IInv

\* Stuttering.
LEMMA UnchangedStep == IInv /\ UNCHANGED vars => IInv'
  BY DEF IInv, TypeOK, FetchInv, PackInv, SpillBounded, vars, files, fetching,
         packing

\* Nothing to read, nothing written.
LEMMA CannotReadStep == IInv /\ CannotRead => IInv'
  BY DEF IInv, TypeOK, FetchInv, PackInv, SpillBounded, CannotRead, files,
         fetching, packing

\* The strengthened invariant holds in every state of every run.
LEMMA Inductive == Spec => []IInv
<1>1. Init => IInv
  BY InitIInv
<1>2. IInv /\ [Next]_vars => IInv'
  BY StartStep, CannotReadStep, FetchCharStep, BeginPackStep, PackCharStep,
     PackEndsStep, UnchangedStep DEF Next, Over
<1> QED
  BY <1>1, <1>2, PTL DEF Spec

\* The variables of both loops keep their ranges, for any text.
THEOREM TypeCorrect == Spec => []TypeOK
<1>1. IInv => TypeOK
  BY DEF IInv
<1> QED
  BY <1>1, Inductive, PTL

\* Fetching writes at most one row and one character behind bootlist, packing
\* one character behind cbfs_formatted_list, for any text and any size.
THEOREM SpillIsBounded == Spec => []SpillBounded
<1>1. IInv => SpillBounded
  BY DEF IInv
<1> QED
  BY <1>1, Inductive, PTL

-----------------------------------------------------------------------------
(* What the rows hold.  For a text that the theorem speaks of, the columns  *)
(* of the loop are those of the text, and every character lies in the cell  *)
(* that its line and column give.                                           *)

\* l is the end of the last line among the first i characters, or 0.
IsLastEnd(i, l) ==
    /\ l \in 0..i
    /\ l # 0 => text[l] = "n"
    /\ \A h \in l + 1..i : text[h] # "n"

\* The text ends, for the loop, at this character, and its lines have room.
Good(end) ==
    /\ Stops(end)
    /\ \A i \in 1..end - 1 : ~Stops(i)
    /\ Cardinality(Lines(end)) <= MaxDevices
    /\ \A e \in Lines(end) : ColOf(e) < MaxLength

\* The cell of the i-th character.
Pos(i) == Cell(Cardinality(Lines(i - 1)), ColOf(i))

EndsKnown(m) == \A i \in 0..m : IsLastEnd(i, LastEnd(i))
Stored(m)    == \A i \in 1..m : dest[Pos(i)] = text[i]

\* While fetching.
ReadInv(end) ==
    /\ offset < end
    /\ row = Cardinality(Lines(offset))
    /\ col = offset - LastEnd(offset)
    /\ offset <= Cell(row, col)
    /\ EndsKnown(offset)
    /\ Stored(offset)
    /\ \A i \in 1..offset : Pos(i) \in 0..Cell(row, col) - 1

\* Behind the fetch loop, which may stop a few characters before the end: the
\* complete lines are there.
HeldInv(end) ==
    /\ row = Cardinality(Lines(end))
    /\ IsLastEnd(end, LastEnd(end))
    /\ EndsKnown(LastEnd(end))
    /\ Stored(LastEnd(end))

\* While packing.
PackedInv(end) ==
    /\ Len(packed) <= LastEnd(end)
    /\ \A x \in 1..Len(packed) : packed[x] = text[x]
    /\ j = Cardinality(Lines(Len(packed)))
    /\ k = Len(packed) - LastEnd(Len(packed))

MeantInv ==
    \A end \in DOMAIN text :
        Good(end) => /\ pc = "fetch" => ReadInv(end)
                     /\ pc \in {"fetched", "pack"} => HeldInv(end)
                     /\ pc = "pack" => PackedInv(end)

\* Lines are counted with natural numbers.
LEMMA LinesFinite ==
    ASSUME NEW i \in Nat
    PROVE  IsFiniteSet(Lines(i)) /\ Cardinality(Lines(i)) \in Nat
<1>1. IsFiniteSet(1..i)
  BY FS_Interval
<1>2. Lines(i) \in SUBSET (1..i)
  BY DEF Lines
<1>3. IsFiniteSet(Lines(i))
  BY <1>1, <1>2, FS_Subset
<1> QED
  BY <1>3, FS_CardinalityType

\* One character more is one line more when it is a line end.
LEMMA LinesStep ==
    ASSUME NEW i \in Nat
    PROVE  /\ text[i + 1] = "n" => /\ i + 1 \in Lines(i + 1)
                                   /\ Cardinality(Lines(i + 1)) = Cardinality(Lines(i)) + 1
           /\ text[i + 1] # "n" => Lines(i + 1) = Lines(i)
<1>1. text[i + 1] # "n" => Lines(i + 1) = Lines(i)
  BY DEF Lines
<1>2. CASE text[i + 1] = "n"
  <2>1. Lines(i + 1) = Lines(i) \cup {i + 1} /\ i + 1 \notin Lines(i)
    BY <1>2 DEF Lines
  <2>2. Cardinality(Lines(i) \cup {i + 1}) = Cardinality(Lines(i)) + 1
    BY <2>1, LinesFinite, FS_AddElement
  <2> QED
    BY <1>2, <2>1, <2>2
<1> QED
  BY <1>1, <1>2

\* The lines of a longer text, and when there are no more of them.
LEMMA LinesGrow ==
    ASSUME NEW i \in Nat, NEW m \in Nat, i <= m
    PROVE  /\ Cardinality(Lines(i)) <= Cardinality(Lines(m))
           /\ Cardinality(Lines(m)) <= Cardinality(Lines(i)) => Lines(m) = Lines(i)
<1>1. Lines(i) \in SUBSET Lines(m)
  BY DEF Lines
<1>2. /\ Cardinality(Lines(i)) <= Cardinality(Lines(m))
      /\ Cardinality(Lines(m)) = Cardinality(Lines(i)) => Lines(m) = Lines(i)
  BY <1>1, LinesFinite, FS_Subset
<1> QED
  BY <1>2, LinesFinite

\* The description of the last line end determines it.
LEMMA LastEndIs ==
    ASSUME NEW i \in Nat, NEW l, IsLastEnd(i, l)
    PROVE  LastEnd(i) = l
<1>1. l \in 0..i /\ (l # 0 => text[l] = "n") /\ \A h \in l + 1..i : text[h] # "n"
  BY DEF IsLastEnd
<1>2. CASE l = 0
  <2>1. ~\E e \in 1..i : text[e] = "n"
    BY <1>1, <1>2
  <2> QED
    BY <2>1, <1>2 DEF LastEnd
<1>3. CASE l # 0
  <2> DEFINE Is(e) == text[e] = "n" /\ \A h \in e + 1..i : text[h] # "n"
  <2>1. l \in 1..i /\ Is(l)
    BY <1>1, <1>3
  <2>2. ASSUME NEW e \in 1..i, Is(e) PROVE e = l
    BY <2>1, <2>2
  <2>3. LastEnd(i) = CHOOSE e \in 1..i : Is(e)
    BY <2>1 DEF LastEnd
  <2>4. (CHOOSE e \in 1..i : Is(e)) \in 1..i /\ Is(CHOOSE e \in 1..i : Is(e))
    <3> HIDE DEF Is
    <3> QED
      BY <2>1
  <2> QED
    BY <2>2, <2>3, <2>4
<1> QED
  BY <1>2, <1>3

\* The last line end, one character further.
LEMMA LastEndStep ==
    ASSUME NEW i \in Nat, IsLastEnd(i, LastEnd(i))
    PROVE  /\ LastEnd(i) \in 0..i
           /\ IsLastEnd(i + 1, LastEnd(i + 1))
           /\ text[i + 1] = "n" => LastEnd(i + 1) = i + 1
           /\ text[i + 1] # "n" => LastEnd(i + 1) = LastEnd(i)
<1>1. LastEnd(i) \in 0..i
  BY DEF IsLastEnd
<1>2. CASE text[i + 1] = "n"
  <2>1. IsLastEnd(i + 1, i + 1)
    BY <1>2 DEF IsLastEnd
  <2> QED
    BY <1>1, <1>2, <2>1, LastEndIs
<1>3. CASE text[i + 1] # "n"
  <2>1. IsLastEnd(i + 1, LastEnd(i))
    BY <1>3 DEF IsLastEnd
  <2> QED
    BY <1>1, <1>3, <2>1, LastEndIs
<1> QED
  BY <1>2, <1>3

\* When no line ends between m and end, the last line end is the same.
LEMMA Settled ==
    ASSUME NEW m \in Nat, NEW end \in Nat, m <= end,
           IsLastEnd(m, LastEnd(m)), Cardinality(Lines(end)) <= Cardinality(Lines(m))
    PROVE  /\ Cardinality(Lines(end)) = Cardinality(Lines(m))
           /\ LastEnd(end) = LastEnd(m)
           /\ IsLastEnd(end, LastEnd(end))
<1>1. Lines(end) = Lines(m)
  BY LinesGrow
<1>2. \A h \in m + 1..end : text[h] # "n"
  BY <1>1 DEF Lines
<1>3. IsLastEnd(end, LastEnd(m))
  BY <1>2 DEF IsLastEnd
<1> QED
  BY <1>1, <1>3, LastEndIs

\* The arithmetic of the flat buffer.
LEMMA CellSteps ==
    ASSUME NEW r \in Nat, NEW c \in Nat
    PROVE  /\ Cell(r, c) \in Nat
           /\ Cell(r, c + 1) = Cell(r, c) + 1
           /\ c < MaxLength => Cell(r, c) + 1 <= Cell(r + 1, 0)
           /\ r < MaxDevices /\ c <= MaxLength => Cell(r, c) <= MaxLength * MaxDevices
<1>1. r * MaxLength \in Nat /\ (r + 1) * MaxLength = r * MaxLength + MaxLength
  BY Bounds
<1>2. r < MaxDevices => (r + 1) * MaxLength <= MaxLength * MaxDevices
  BY Bounds
<1> QED
  BY <1>1, <1>2, Bounds DEF Cell

\* The meaning of a text is kept with the text.
LEMMA MeaningKept ==
    ASSUME text' = text
    PROVE  /\ \A i : Lines(i)' = Lines(i)
           /\ \A i : LastEnd(i)' = LastEnd(i)
           /\ \A i : Pos(i)' = Pos(i)
           /\ \A i, l : IsLastEnd(i, l)' <=> IsLastEnd(i, l)
           /\ \A m : EndsKnown(m)' <=> EndsKnown(m)
           /\ \A end : Good(end)' <=> Good(end)
<1>1. \A i : Lines(i)' = Lines(i)
  BY DEF Lines
<1>2. \A i : LastEnd(i)' = LastEnd(i)
  BY DEF LastEnd
<1>3. \A i : ColOf(i)' = ColOf(i)
  BY <1>2 DEF ColOf
<1>4. \A i : Pos(i)' = Pos(i)
  BY <1>1, <1>3 DEF Pos, Cell
<1>5. \A i, l : IsLastEnd(i, l)' <=> IsLastEnd(i, l)
  BY DEF IsLastEnd
<1>6. \A m : EndsKnown(m)' <=> EndsKnown(m)
  BY <1>2, <1>5 DEF EndsKnown
<1>7. \A i : Stops(i)' <=> Stops(i)
  BY <1>3 DEF Stops
<1>8. \A end : Good(end)' <=> Good(end)
  BY <1>1, <1>3, <1>7 DEF Good
<1> QED
  BY <1>1, <1>2, <1>4, <1>5, <1>6, <1>8

\* What a text of this kind says of each character up to its end.
LEMMA GoodText ==
    ASSUME NEW end \in DOMAIN text, text \in Seq(Char), Good(end)
    PROVE  /\ end \in Nat \ {0} /\ end <= Len(text)
           /\ text[end] = "0" \/ (text[end] # "n" /\ ColOf(end) >= MaxLength)
           /\ \A i \in 1..end - 1 :
                 /\ text[i] # "0"
                 /\ text[i] = "n" => ColOf(i) < MaxLength
                 /\ text[i] # "n" => ~(ColOf(i) >= MaxLength)
<1>1. end \in Nat \ {0} /\ end <= Len(text)
  OBVIOUS
<1>2. text[end] = "0" \/ (text[end] # "n" /\ ColOf(end) >= MaxLength)
  BY DEF Good, Stops
<1>3. ASSUME NEW i \in 1..end - 1
      PROVE  /\ text[i] # "0"
             /\ text[i] = "n" => ColOf(i) < MaxLength
             /\ text[i] # "n" => ~(ColOf(i) >= MaxLength)
  <2>1. ~Stops(i)
    BY DEF Good
  <2>2. text[i] = "n" => i \in Lines(end)
    BY <1>1 DEF Lines
  <2>3. \A e \in Lines(end) : ColOf(e) < MaxLength
    BY DEF Good
  <2> QED
    BY <2>1, <2>2, <2>3 DEF Stops
<1> QED
  BY <1>1, <1>2, <1>3

\* One round of the loop puts the character where it belongs, and disturbs no
\* other.
LEMMA RoundFacts ==
    ASSUME IInv, NEW end \in DOMAIN text, Good(end), ReadInv(end),
           NEW tmp \in Char, FetchChar(tmp)
    PROVE  /\ text' = text /\ offset' = offset + 1 /\ tmp = text[offset + 1]
           /\ offset \in Nat /\ end \in Nat /\ offset + 1 <= end /\ end <= Len(text)
           /\ row \in Nat /\ row <= MaxDevices /\ col \in Nat
           /\ LastEnd(offset) \in 0..offset
           /\ ColOf(offset + 1) = col
           /\ EndsKnown(offset + 1)
           /\ \A i \in 1..offset + 1 : /\ Pos(i) \in 0..Cell(row, col)
                                       /\ dest'[Pos(i)] = text[i]
<1>1. /\ text' = text /\ offset' = offset + 1 /\ Read(tmp)
      /\ dest' = [dest EXCEPT ![Cell(row, col)] = tmp]
  BY DEF FetchChar
<1>2. /\ offset \in Nat /\ end \in Nat /\ offset + 1 <= end /\ end <= Len(text)
      /\ row \in Nat /\ row <= MaxDevices /\ col \in Nat /\ col <= MaxLength
      /\ dest \in [Cells -> Char \cup {Unwritten}]
  BY Bounds DEF IInv, TypeOK, SpillBounded, ReadInv, FetchChar
<1>3. tmp = text[offset + 1]
  BY <1>1, <1>2 DEF Read
<1>4. EndsKnown(offset) /\ Stored(offset)
      /\ row = Cardinality(Lines(offset)) /\ col = offset - LastEnd(offset)
      /\ \A i \in 1..offset : Pos(i) \in 0..Cell(row, col) - 1
  BY DEF ReadInv
<1>5. IsLastEnd(offset, LastEnd(offset))
  BY <1>2, <1>4 DEF EndsKnown
<1>6. LastEnd(offset) \in 0..offset /\ IsLastEnd(offset + 1, LastEnd(offset + 1))
  BY <1>2, <1>5, LastEndStep
<1>7. EndsKnown(offset + 1)
  <2> SUFFICES ASSUME NEW i \in 0..offset + 1 PROVE IsLastEnd(i, LastEnd(i))
    BY DEF EndsKnown
  <2>1. i \in 0..offset \/ i = offset + 1
    BY <1>2
  <2> QED
    BY <2>1, <1>4, <1>6 DEF EndsKnown
<1>8. (offset + 1) - 1 = offset
  BY <1>2
<1>9. ColOf(offset + 1) = col
  BY <1>2, <1>4, <1>6, <1>8 DEF ColOf
<1>10. Pos(offset + 1) = Cell(row, col)
  BY <1>4, <1>8, <1>9 DEF Pos
<1>11. Cell(row, col) \in Cells /\ Cell(row, col) \in Nat
  <2>1. row \in 0..MaxDevices /\ col \in 0..MaxLength
    BY <1>2, Bounds
  <2>2. Cell(row, col) \in Cells
    BY <2>1, CellInBuffer
  <2>3. Cell(row, col) \in Nat
    BY <1>2, CellSteps
  <2> QED
    BY <2>2, <2>3
<1>12. ASSUME NEW i \in 1..offset + 1
       PROVE  Pos(i) \in 0..Cell(row, col) /\ dest'[Pos(i)] = text[i]
  <2>1. CASE i = offset + 1
    <3>1. Pos(i) = Cell(row, col) /\ text[i] = tmp
      BY <2>1, <1>3, <1>10
    <3>2. dest'[Cell(row, col)] = tmp
      BY <1>1, <1>2, <1>11
    <3> QED
      BY <3>1, <3>2, <1>11
  <2>2. CASE i # offset + 1
    <3>1. i \in 1..offset
      BY <1>2, <2>2
    <3>2. Pos(i) \in 0..Cell(row, col) - 1 /\ dest[Pos(i)] = text[i]
      BY <1>4, <3>1 DEF Stored
    <3>3. Pos(i) \in Cells /\ Pos(i) # Cell(row, col) /\ Pos(i) \in 0..Cell(row, col)
      BY <3>2, <1>11, Bounds DEF Cells
    <3> QED
      BY <1>1, <1>2, <3>2, <3>3
  <2> QED
    BY <2>1, <2>2
<1> QED
  BY <1>1, <1>2, <1>3, <1>6, <1>7, <1>9, <1>12

\* When no line is to come, the loop may stop: the rows are complete.
LEMMA Held ==
    ASSUME IInv, NEW end \in DOMAIN text, Good(end), ReadInv(end),
           NEW tmp \in Char, FetchChar(tmp),
           row' = Cardinality(Lines(offset + 1)),
           Cardinality(Lines(end)) <= row'
    PROVE  HeldInv(end)'
<1>1. /\ text' = text /\ offset \in Nat /\ end \in Nat /\ offset + 1 <= end
      /\ EndsKnown(offset + 1)
      /\ \A i \in 1..offset + 1 : dest'[Pos(i)] = text[i]
  BY RoundFacts
<1>2. IsLastEnd(offset + 1, LastEnd(offset + 1))
  BY <1>1 DEF EndsKnown
<1>3. /\ Cardinality(Lines(end)) = Cardinality(Lines(offset + 1))
      /\ LastEnd(end) = LastEnd(offset + 1)
      /\ IsLastEnd(end, LastEnd(end))
  BY <1>1, <1>2, Settled
<1>4. LastEnd(end) \in 0..offset + 1
  BY <1>2, <1>3 DEF IsLastEnd
<1>5. EndsKnown(LastEnd(end))
  BY <1>1, <1>4 DEF EndsKnown
<1>6. \A i \in 1..LastEnd(end) : dest'[Pos(i)] = text[i]
  BY <1>1, <1>4
<1>7. /\ Lines(end)' = Lines(end) /\ LastEnd(end)' = LastEnd(end)
      /\ IsLastEnd(end, LastEnd(end))' /\ EndsKnown(LastEnd(end))'
  BY <1>1, <1>3, <1>5, MeaningKept
<1>8. Stored(LastEnd(end))'
  BY <1>1, <1>6, <1>7, MeaningKept DEF Stored
<1> QED
  BY <1>3, <1>7, <1>8 DEF HeldInv

\* The loop goes on: the next character has a cell behind all the others.
LEMMA ReadOn ==
    ASSUME IInv, NEW end \in DOMAIN text, Good(end), ReadInv(end),
           NEW tmp \in Char, FetchChar(tmp),
           offset + 1 < end,
           row' = Cardinality(Lines(offset + 1)),
           col' = (offset + 1) - LastEnd(offset + 1),
           Cell(row', col') \in Nat,
           Cell(row, col) + 1 <= Cell(row', col')
    PROVE  ReadInv(end)'
<1>1. /\ text' = text /\ offset \in Nat /\ offset' = offset + 1
      /\ row \in Nat /\ col \in Nat
      /\ EndsKnown(offset + 1)
      /\ \A i \in 1..offset + 1 : /\ Pos(i) \in 0..Cell(row, col)
                                  /\ dest'[Pos(i)] = text[i]
  BY RoundFacts
<1>2. Cell(row, col) \in Nat /\ offset <= Cell(row, col)
  BY <1>1, CellSteps DEF ReadInv
<1>3. Cell(row, col)' = Cell(row', col')
  BY DEF Cell
<1>4. offset' < end /\ offset' <= Cell(row, col)'
  BY <1>1, <1>2, <1>3
<1>5. /\ row' = Cardinality(Lines(offset))' /\ col' = offset' - LastEnd(offset)'
      /\ EndsKnown(offset)'
  <2>1. /\ Lines(offset)' = Lines(offset + 1) /\ LastEnd(offset)' = LastEnd(offset + 1)
        /\ EndsKnown(offset)' <=> EndsKnown(offset + 1)
    <3>1. Lines(offset)' = Lines(offset + 1)
      BY <1>1 DEF Lines
    <3>2. LastEnd(offset)' = LastEnd(offset + 1)
      BY <1>1 DEF LastEnd
    <3>3. EndsKnown(offset)' <=> EndsKnown(offset + 1)
      BY <1>1, MeaningKept DEF EndsKnown
    <3> QED
      BY <3>1, <3>2, <3>3
  <2> QED
    BY <1>1, <2>1
<1>6. Stored(offset)' /\ (\A i \in 1..offset : Pos(i) \in 0..Cell(row, col) - 1)'
  <2>1. \A i : Pos(i)' = Pos(i)
    BY <1>1, MeaningKept
  <2>2. \A i \in 1..offset' : dest'[Pos(i)'] = text'[i]
    BY <1>1, <2>1
  <2>3. \A i \in 1..offset' : Pos(i)' \in 0..Cell(row, col)' - 1
    BY <1>1, <1>2, <1>3, <2>1
  <2> QED
    BY <2>2, <2>3 DEF Stored
<1> QED
  BY <1>4, <1>5, <1>6 DEF ReadInv

\* A round of the fetch loop.
LEMMA RoundMeant ==
    ASSUME IInv, NEW end \in DOMAIN text, Good(end), ReadInv(end),
           NEW tmp \in Char, FetchChar(tmp)
    PROVE  /\ pc' = "fetch" => ReadInv(end)'
           /\ pc' = "fetched" => HeldInv(end)'
           /\ pc' \in {"fetch", "fetched"}
<1>1. /\ offset' = offset + 1 /\ tmp = text[offset + 1]
      /\ offset \in Nat /\ end \in Nat /\ offset + 1 <= end /\ end <= Len(text)
      /\ row \in Nat /\ row <= MaxDevices /\ col \in Nat
      /\ LastEnd(offset) \in 0..offset
      /\ ColOf(offset + 1) = col
      /\ EndsKnown(offset + 1)
  BY RoundFacts
<1>2. row = Cardinality(Lines(offset)) /\ col = offset - LastEnd(offset)
      /\ offset <= Cell(row, col)
  BY DEF ReadInv
<1>3. IsLastEnd(offset, LastEnd(offset))
  BY <1>1 DEF ReadInv, EndsKnown
<1>4. text \in Seq(Char)
  BY DEF IInv, TypeOK
<1>5. /\ text[end] = "0" \/ (text[end] # "n" /\ ColOf(end) >= MaxLength)
      /\ \A i \in 1..end - 1 : /\ text[i] # "0"
                               /\ text[i] = "n" => ColOf(i) < MaxLength
                               /\ text[i] # "n" => ~(ColOf(i) >= MaxLength)
  BY <1>4, GoodText
<1>6. Cardinality(Lines(end)) <= MaxDevices /\ Cardinality(Lines(end)) \in Nat
  BY <1>1, LinesFinite DEF Good
<1>7. Cell(row, col) \in Nat /\ Cell(row, col + 1) = Cell(row, col) + 1
      /\ (col < MaxLength => Cell(row, col) + 1 <= Cell(row + 1, 0))
      /\ (row < MaxDevices /\ col + 1 <= MaxLength
            => Cell(row, col + 1) <= MaxLength * MaxDevices)
  <2>1. col + 1 \in Nat
    BY <1>1
  <2> QED
    BY <1>1, <2>1, CellSteps
<1>8. offset + 1 < end \/ offset + 1 = end
  BY <1>1
<1>9. CASE tmp = "n"
  <2>1. offset + 1 # end
    BY <1>1, <1>5, <1>9
  <2>2. offset + 1 < end /\ offset + 1 \in 1..end - 1
    BY <1>1, <1>8, <2>1
  <2>3. col < MaxLength
    BY <1>1, <1>5, <1>9, <2>2
  <2>4. Cardinality(Lines(offset + 1)) = row + 1 /\ LastEnd(offset + 1) = offset + 1
    BY <1>1, <1>2, <1>3, <1>9, LinesStep, LastEndStep
  <2>5. Cardinality(Lines(offset + 1)) <= Cardinality(Lines(end))
    <3>1. offset + 1 \in Nat
      BY <1>1
    <3> QED
      BY <1>1, <3>1, LinesGrow
  <2>6. Advance(row + 1, 0)
    BY <1>9 DEF FetchChar
  <2>7. row' = row + 1 /\ col' = 0
        /\ pc' = IF Excess(row + 1, 0, offset + 1) THEN "fetched" ELSE "fetch"
    BY <2>6 DEF Advance
  <2>8. ReadInv(end)'
    <3>1. Cell(row + 1, 0) \in Nat
      BY <1>1, CellSteps
    <3>2. col' = (offset + 1) - LastEnd(offset + 1)
      BY <1>1, <2>4, <2>7
    <3> QED
      BY <1>7, <2>2, <2>3, <2>4, <2>7, <3>1, <3>2, ReadOn
  <2>9. ASSUME Excess(row + 1, 0, offset + 1) PROVE HeldInv(end)'
    <3>1. offset + 1 > MaxLength * MaxDevices
      BY <1>1, <1>6, <2>4, <2>5, <2>9, Bounds DEF Excess
    <3>2. row + 1 \in Nat /\ Cell(row + 1, 0) \in Nat
          /\ (row + 1 < MaxDevices => Cell(row + 1, 0) <= MaxLength * MaxDevices)
      <4>1. row + 1 \in Nat /\ 0 \in Nat /\ 0 <= MaxLength
        BY <1>1, Bounds
      <4> QED
        BY <4>1, CellSteps
    <3>3. offset + 1 <= Cell(row + 1, 0)
      <4>1. Cell(row, col) + 1 <= Cell(row + 1, 0) /\ Cell(row, col) \in Nat
        BY <1>7, <2>3
      <4>2. offset \in Nat /\ offset <= Cell(row, col)
        BY <1>1, <1>2
      <4> QED
        BY <3>2, <4>1, <4>2
    <3>4. ~(row + 1 < MaxDevices)
      BY <1>1, <3>1, <3>2, <3>3, Bounds
    <3>5. Cardinality(Lines(end)) <= row'
      BY <1>1, <1>6, <2>7, <3>4, Bounds
    <3> QED
      BY <2>4, <2>7, <3>5, Held
  <2> QED
    BY <2>7, <2>8, <2>9
<1>10. ASSUME tmp # "n"
       PROVE  Lines(offset + 1) = Lines(offset) /\ LastEnd(offset + 1) = LastEnd(offset)
  BY <1>1, <1>3, <1>10, LinesStep, LastEndStep
<1>11. ASSUME tmp # "n", offset + 1 = end, row' = row PROVE HeldInv(end)'
  <2>1. Cardinality(Lines(end)) = row'
    BY <1>2, <1>10, <1>11
  <2>2. Cardinality(Lines(end)) <= row' /\ row' = Cardinality(Lines(offset + 1))
    BY <1>1, <1>11, <2>1
  <2> QED
    BY <2>2, Held
<1>12. CASE tmp = "0"
  <2>1. offset + 1 = end
    <3>1. offset + 1 < end => offset + 1 \in 1..end - 1
      BY <1>1
    <3> QED
      BY <1>1, <1>5, <1>8, <1>12, <3>1
  <2>2. pc' = "fetched" /\ row' = row
    BY <1>12 DEF FetchChar
  <2> QED
    BY <1>11, <1>12, <2>1, <2>2
<1>13. CASE tmp # "n" /\ tmp # "0"
  <2>1. ~(offset + 1 > Len(text))
    BY <1>1
  <2>2. Advance(row, col + 1)
    BY <1>13, <2>1 DEF FetchChar
  <2>3. row' = row /\ col' = col + 1
        /\ pc' = IF Excess(row, col + 1, offset + 1) THEN "fetched" ELSE "fetch"
    BY <2>2 DEF Advance
  <2>4. CASE offset + 1 = end
    <3>1. col >= MaxLength
      BY <1>1, <1>5, <1>13, <2>4
    <3>2. Excess(row, col + 1, offset + 1)
      BY <1>1, <3>1, Bounds DEF Excess
    <3> QED
      BY <1>11, <1>13, <2>3, <2>4, <3>2
  <2>5. CASE offset + 1 < end
    <3>1. offset + 1 \in 1..end - 1
      BY <1>1, <2>5
    <3>2. ~(col >= MaxLength)
      BY <1>1, <1>5, <1>13, <3>1
    <3>3. col + 1 <= MaxLength
      BY <1>1, <3>2, Bounds
    <3>4. row' = Cardinality(Lines(offset + 1)) /\ col' = (offset + 1) - LastEnd(offset + 1)
      <4>1. row' = Cardinality(Lines(offset + 1))
        BY <1>2, <1>10, <1>13, <2>3
      <4>2. LastEnd(offset + 1) = LastEnd(offset)
        BY <1>10, <1>13
      <4> QED
        BY <1>1, <1>2, <2>3, <4>1, <4>2
    <3>5. ReadInv(end)'
      <4>1. Cell(row', col') \in Nat /\ Cell(row, col) + 1 <= Cell(row', col')
        BY <1>7, <2>3
      <4> QED
        BY <2>5, <3>4, <4>1, ReadOn
    <3>6. ASSUME Excess(row, col + 1, offset + 1) PROVE HeldInv(end)'
      <4>1. offset + 1 > MaxLength * MaxDevices
        BY <1>1, <3>3, <3>6, Bounds DEF Excess
      <4>2. ~(row < MaxDevices)
        BY <1>1, <1>2, <1>7, <3>3, <4>1, Bounds
      <4>3. Cardinality(Lines(end)) <= row'
        BY <1>1, <1>6, <2>3, <4>2, Bounds
      <4> QED
        BY <3>4, <4>3, Held
    <3> QED
      BY <2>3, <3>5, <3>6
  <2> QED
    BY <1>8, <2>4, <2>5
<1> QED
  BY <1>9, <1>12, <1>13

\* Packing starts with no character and ends behind the last line.
LEMMA BeginMeant ==
    ASSUME IInv, NEW end \in DOMAIN text, HeldInv(end), BeginPack
    PROVE  HeldInv(end)' /\ PackedInv(end)'
<1>1. /\ text' = text /\ row' = row /\ dest' = dest
      /\ packed' = <<>> /\ j' = 0 /\ k' = 0
  BY DEF IInv, PackInv, BeginPack, fetching, packing
<1>2. end \in Nat
  BY DEF IInv, TypeOK
<1>3. LastEnd(end) \in 0..end
  BY DEF HeldInv, IsLastEnd
<1>4. HeldInv(end)'
  BY <1>1, MeaningKept DEF HeldInv, Stored
<1>5. Cardinality(Lines(0)) = 0 /\ LastEnd(0) = 0
  <2>1. Lines(0) = {}
    BY DEF Lines
  <2> QED
    BY <2>1, FS_EmptySet DEF LastEnd
<1>6. Len(packed') = 0
  BY <1>1
<1>7. Lines(Len(packed))' = Lines(0) /\ LastEnd(Len(packed))' = LastEnd(0)
  BY <1>1, <1>6 DEF Lines, LastEnd
<1>8. Len(packed') <= LastEnd(end)'
  BY <1>1, <1>2, <1>3, <1>6, MeaningKept
<1>9. PackedInv(end)'
  BY <1>1, <1>5, <1>6, <1>7, <1>8 DEF PackedInv
<1> QED
  BY <1>4, <1>9

\* As long as a row is left, its next character is the next of the text.
LEMMA PackFacts ==
    ASSUME IInv, NEW end \in DOMAIN text, Good(end), HeldInv(end), PackedInv(end),
           PackChar
    PROVE  /\ Len(packed) \in Nat /\ end \in Nat
           /\ LastEnd(end) \in 1..end - 1
           /\ Len(packed) + 1 <= LastEnd(end)
           /\ k = Len(packed) - LastEnd(Len(packed))
           /\ IsLastEnd(Len(packed), LastEnd(Len(packed)))
           /\ LastEnd(Len(packed)) \in 0..Len(packed)
           /\ dest[Cell(j, k)] = text[Len(packed) + 1]
<1> DEFINE p == Len(packed)
<1>1. p \in Nat /\ end \in Nat \ {0} /\ j < row
  BY DEF IInv, TypeOK, PackChar
<1>2. /\ row = Cardinality(Lines(end)) /\ IsLastEnd(end, LastEnd(end))
      /\ EndsKnown(LastEnd(end)) /\ Stored(LastEnd(end))
  BY DEF HeldInv
<1>3. /\ p <= LastEnd(end) /\ j = Cardinality(Lines(p)) /\ k = p - LastEnd(p)
  BY DEF PackedInv
<1>4. /\ LastEnd(end) \in 0..end /\ (LastEnd(end) # 0 => text[LastEnd(end)] = "n")
      /\ \A h \in LastEnd(end) + 1..end : text[h] # "n"
  BY <1>2 DEF IsLastEnd
<1>5. p # LastEnd(end)
  <2> SUFFICES ASSUME p = LastEnd(end) PROVE FALSE
    OBVIOUS
  <2>1. Lines(p) = Lines(end)
    BY <1>1, <1>4 DEF Lines
  <2>2. j \in Nat
    BY <1>1, <1>3, LinesFinite
  <2> QED
    BY <1>1, <1>2, <1>3, <2>1, <2>2
<1>6. p + 1 <= LastEnd(end) /\ LastEnd(end) # 0
  BY <1>1, <1>3, <1>4, <1>5
<1>7. LastEnd(end) # end
  BY <1>4, <1>6 DEF Good, Stops
<1>8. LastEnd(end) \in 1..end - 1
  BY <1>1, <1>4, <1>6, <1>7
<1>9. IsLastEnd(p, LastEnd(p)) /\ LastEnd(p) \in 0..p
  BY <1>1, <1>2, <1>3, <1>4 DEF EndsKnown, IsLastEnd
<1>10. (p + 1) - 1 = p /\ p + 1 \in 1..LastEnd(end)
  BY <1>1, <1>4, <1>6
<1>11. Pos(p + 1) = Cell(j, k)
  <2>1. ColOf(p + 1) = k
    BY <1>1, <1>3, <1>9 DEF ColOf
  <2> QED
    BY <1>3, <1>10, <2>1 DEF Pos
<1>12. dest[Cell(j, k)] = text[p + 1]
  BY <1>2, <1>10, <1>11 DEF Stored
<1> QED
  BY <1>1, <1>3, <1>6, <1>8, <1>9, <1>12

\* The inner loop never ends at the end of a row that has no line end.
LEMMA PackMeant ==
    ASSUME IInv, NEW end \in DOMAIN text, Good(end), HeldInv(end), PackedInv(end),
           PackChar
    PROVE  HeldInv(end)' /\ PackedInv(end)'
<1> DEFINE p == Len(packed)
<1>1. /\ p \in Nat /\ end \in Nat
      /\ LastEnd(end) \in 1..end - 1
      /\ p + 1 <= LastEnd(end)
      /\ k = p - LastEnd(p)
      /\ IsLastEnd(p, LastEnd(p))
      /\ LastEnd(p) \in 0..p
      /\ dest[Cell(j, k)] = text[p + 1]
  BY PackFacts
<1>2. /\ text' = text /\ row' = row /\ dest' = dest
      /\ packed' = Append(packed, text[p + 1]) /\ NextCell(text[p + 1])
  BY <1>1 DEF PackChar, fetching
<1>3. packed \in Seq(Char \cup {Unwritten}) /\ text \in Seq(Char) /\ end \in 1..Len(text)
  BY DEF IInv, TypeOK
<1>4. HeldInv(end)'
  BY <1>2, MeaningKept DEF HeldInv, Stored
<1>5. text[p + 1] \in Char
  BY <1>1, <1>3
<1>6. /\ Len(packed') = p + 1
      /\ \A x \in 1..p + 1 : packed'[x] = IF x = p + 1 THEN text[p + 1] ELSE packed[x]
  BY <1>2, <1>3, <1>5
<1>7. \A x \in 1..p + 1 : packed'[x] = text[x]
  <2>1. \A x \in 1..p : packed[x] = text[x]
    BY DEF PackedInv
  <2>2. \A x \in 1..p + 1 : x = p + 1 \/ x \in 1..p
    BY <1>1
  <2> QED
    BY <1>6, <2>1, <2>2
<1>8. j = Cardinality(Lines(p))
  BY DEF PackedInv
<1>9. j' = Cardinality(Lines(p + 1)) /\ k' = (p + 1) - LastEnd(p + 1)
  <2>1. CASE text[p + 1] = "n"
    <3>1. Cardinality(Lines(p + 1)) = j + 1 /\ LastEnd(p + 1) = p + 1
      BY <1>1, <1>8, <2>1, LinesStep, LastEndStep
    <3>2. j' = j + 1 /\ k' = 0
      BY <1>2, <2>1 DEF NextCell
    <3> QED
      BY <1>1, <3>1, <3>2
  <2>2. CASE text[p + 1] # "n"
    <3>1. Lines(p + 1) = Lines(p) /\ LastEnd(p + 1) = LastEnd(p)
      BY <1>1, <2>2, LinesStep, LastEndStep
    <3>2. p + 1 # LastEnd(end)
      <4>1. IsLastEnd(end, LastEnd(end))
        BY DEF HeldInv
      <4> QED
        BY <1>1, <2>2, <4>1 DEF IsLastEnd
    <3>3. p + 2 \in 1..end - 1
      BY <1>1, <3>2
    <3>4. ColOf(p + 2) = k + 1
      <4>1. (p + 2) - 1 = p + 1
        BY <1>1
      <4> QED
        BY <1>1, <3>1, <4>1 DEF ColOf
    <3>5. ColOf(p + 2) < MaxLength \/ ~(ColOf(p + 2) >= MaxLength)
      BY <1>3, <3>3, GoodText
    <3>6. k + 1 # MaxLength
      BY <1>1, <3>4, <3>5, Bounds
    <3>7. j' = j /\ k' = k + 1
      BY <1>2, <2>2, <3>6 DEF NextCell
    <3>8. k' = (p + 1) - LastEnd(p + 1)
      BY <1>1, <3>1, <3>7
    <3> QED
      BY <1>8, <3>1, <3>7, <3>8
  <2> QED
    BY <2>1, <2>2
<1>10. Lines(Len(packed))' = Lines(p + 1) /\ LastEnd(Len(packed))' = LastEnd(p + 1)
       /\ LastEnd(end)' = LastEnd(end)
  <2>1. Lines(Len(packed))' = Lines(p + 1)
    BY <1>2, <1>6 DEF Lines
  <2>2. LastEnd(Len(packed))' = LastEnd(p + 1)
    BY <1>2, <1>6 DEF LastEnd
  <2> QED
    BY <1>2, <2>1, <2>2, MeaningKept
<1>11. PackedInv(end)'
  BY <1>1, <1>2, <1>6, <1>7, <1>9, <1>10 DEF PackedInv
<1> QED
  BY <1>4, <1>11

\* When no row is left, every complete line has been packed.
LEMMA EndMeant ==
    ASSUME IInv, NEW end \in DOMAIN text, Good(end), HeldInv(end), PackedInv(end),
           PackEnds
    PROVE  packed' = Append(SubSeq(text, 1, LastEnd(end)), "0")
<1> DEFINE p == Len(packed)
<1>1. /\ packed \in Seq(Char \cup {Unwritten}) /\ text \in Seq(Char)
      /\ end \in 1..Len(text) /\ p \in Nat
  BY DEF IInv, TypeOK
<1>2. j = row /\ k = 0
  BY Bounds DEF IInv, TypeOK, PackInv, PackEnds
<1>3. /\ row = Cardinality(Lines(end)) /\ IsLastEnd(end, LastEnd(end))
      /\ EndsKnown(LastEnd(end))
  BY DEF HeldInv
<1>4. /\ p <= LastEnd(end) /\ j = Cardinality(Lines(p)) /\ k = p - LastEnd(p)
      /\ \A x \in 1..p : packed[x] = text[x]
  BY DEF PackedInv
<1>5. LastEnd(end) \in 0..end
  BY <1>3 DEF IsLastEnd
<1>6. IsLastEnd(p, LastEnd(p))
  BY <1>1, <1>4, <1>5, <1>3 DEF EndsKnown
<1>7. LastEnd(p) \in 0..p
  BY <1>6 DEF IsLastEnd
<1>8. LastEnd(end) = LastEnd(p)
  <2>1. Cardinality(Lines(end)) = Cardinality(Lines(p))
    BY <1>2, <1>3, <1>4
  <2>2. Cardinality(Lines(end)) <= Cardinality(Lines(p))
    BY <1>1, <2>1, LinesFinite
  <2>3. p <= end /\ end \in Nat
    BY <1>1, <1>4, <1>5
  <2> QED
    BY <1>1, <1>6, <2>2, <2>3, Settled
<1>9. p = LastEnd(end)
  BY <1>1, <1>2, <1>4, <1>7, <1>8
<1>10. packed = SubSeq(text, 1, LastEnd(end))
  BY <1>1, <1>4, <1>5, <1>9
<1> QED
  BY <1>10 DEF PackEnds

\* One step, for one text and its end.
LEMMA MeantStep ==
    ASSUME IInv, IInv', MeantInv, [Next]_vars
    PROVE  MeantInv' /\ (RoundTrip => RoundTrip')
<1>1. CASE Start
  <2>1. offset' = 0 /\ row' = 0 /\ col' = 0 /\ pc' = "fetch"
    BY <1>1 DEF IInv, FetchInv, Start
  <2>2. ASSUME NEW end \in DOMAIN text', Good(end)' PROVE ReadInv(end)'
    <3>1. end \in Nat \ {0}
      BY DEF IInv, TypeOK
    <3>2. Lines(offset)' = {} /\ LastEnd(offset)' = 0
      <4>1. Lines(offset)' = {}
        BY <2>1 DEF Lines
      <4>2. LastEnd(offset)' = 0
        BY <2>1 DEF LastEnd
      <4> QED
        BY <4>1, <4>2
    <3>3. EndsKnown(offset)'
      <4> SUFFICES ASSUME NEW i \in 0..offset' PROVE IsLastEnd(i, LastEnd(i))'
        BY DEF EndsKnown
      <4>1. i = 0
        BY <2>1
      <4>2. LastEnd(i)' = 0
        BY <4>1 DEF LastEnd
      <4> QED
        BY <4>1, <4>2 DEF IsLastEnd
    <3>4. Cell(row, col)' = 0
      BY <2>1, Bounds DEF Cell
    <3>5. Stored(offset)' /\ (\A i \in 1..offset : Pos(i) \in 0..Cell(row, col) - 1)'
      BY <2>1 DEF Stored
    <3>6. offset' < end /\ row' = Cardinality(Lines(offset))'
          /\ col' = offset' - LastEnd(offset)' /\ offset' <= Cell(row, col)'
      BY <2>1, <3>1, <3>2, <3>4, FS_EmptySet
    <3> QED
      BY <3>3, <3>5, <3>6 DEF ReadInv
  <2> QED
    BY <2>1, <2>2 DEF MeantInv, RoundTrip
<1>2. ASSUME text' = text,
             \A end \in DOMAIN text : Good(end) =>
                /\ pc' = "fetch" => ReadInv(end)'
                /\ pc' \in {"fetched", "pack"} => HeldInv(end)'
                /\ pc' = "pack" => PackedInv(end)'
      PROVE  MeantInv'
  <2> SUFFICES ASSUME NEW end \in DOMAIN text', Good(end)'
               PROVE  /\ pc' = "fetch" => ReadInv(end)'
                      /\ pc' \in {"fetched", "pack"} => HeldInv(end)'
                      /\ pc' = "pack" => PackedInv(end)'
    BY DEF MeantInv
  <2>1. end \in DOMAIN text /\ Good(end)
    BY <1>2, MeaningKept
  <2> QED
    BY <1>2, <2>1
<1>3. CASE \E tmp \in Char : FetchChar(tmp)
  <2>1. PICK tmp \in Char : FetchChar(tmp)
    BY <1>3
  <2>2. text' = text /\ pc = "fetch" /\ pc' # "pack" /\ pc' # "packed"
    BY <2>1 DEF FetchChar, Advance
  <2>3. ASSUME NEW end \in DOMAIN text, Good(end)
        PROVE  /\ pc' = "fetch" => ReadInv(end)'
               /\ pc' \in {"fetched", "pack"} => HeldInv(end)'
               /\ pc' = "pack" => PackedInv(end)'
    <3>1. ReadInv(end)
      BY <2>2, <2>3 DEF MeantInv
    <3> QED
      BY <2>1, <2>2, <2>3, <3>1, RoundMeant
  <2> QED
    BY <1>2, <2>2, <2>3 DEF RoundTrip
<1>4. CASE BeginPack
  <2>1. text' = text /\ pc = "fetched" /\ pc' = "pack"
    BY <1>4 DEF BeginPack, fetching
  <2>2. ASSUME NEW end \in DOMAIN text, Good(end) PROVE HeldInv(end)' /\ PackedInv(end)'
    <3>1. HeldInv(end)
      BY <2>1, <2>2 DEF MeantInv
    <3> QED
      BY <1>4, <3>1, BeginMeant
  <2> QED
    BY <1>2, <2>1, <2>2 DEF RoundTrip
<1>5. CASE PackChar
  <2>1. text' = text /\ pc = "pack" /\ pc' = "pack"
    BY <1>5 DEF PackChar, fetching
  <2>2. ASSUME NEW end \in DOMAIN text, Good(end) PROVE HeldInv(end)' /\ PackedInv(end)'
    <3>1. HeldInv(end) /\ PackedInv(end)
      BY <2>1, <2>2 DEF MeantInv
    <3> QED
      BY <1>5, <2>2, <3>1, PackMeant
  <2> QED
    BY <1>2, <2>1, <2>2 DEF RoundTrip
<1>6. CASE PackEnds
  <2>1. text' = text /\ pc = "pack" /\ pc' = "packed"
    BY <1>6 DEF PackEnds, fetching
  <2>2. MeantInv'
    BY <1>2, <2>1
  <2>3. RoundTrip'
    <3> SUFFICES ASSUME NEW end \in DOMAIN text', Good(end)'
                 PROVE  packed' = Append(SubSeq(text', 1, LastEnd(end)'), "0")
      BY DEF RoundTrip, Good
    <3>1. end \in DOMAIN text /\ Good(end) /\ LastEnd(end)' = LastEnd(end)
      BY <2>1, MeaningKept
    <3>2. HeldInv(end) /\ PackedInv(end)
      BY <2>1, <3>1 DEF MeantInv
    <3> QED
      BY <1>6, <2>1, <3>1, <3>2, EndMeant
  <2> QED
    BY <2>2, <2>3
<1>7. CASE CannotRead
  <2>1. text' = text /\ pc' = "reset"
    BY <1>7 DEF CannotRead, fetching
  <2> QED
    BY <1>2, <2>1 DEF RoundTrip
<1>8. CASE UNCHANGED vars
  <2>1. /\ pc' = pc /\ text' = text /\ offset' = offset /\ row' = row /\ col' = col
        /\ dest' = dest /\ j' = j /\ k' = k /\ packed' = packed
    BY <1>8 DEF vars, fetching, packing
  <2>2. ASSUME NEW end \in DOMAIN text
        PROVE  /\ ReadInv(end) => ReadInv(end)'
               /\ HeldInv(end) => HeldInv(end)'
               /\ PackedInv(end) => PackedInv(end)'
    <3>1. ReadInv(end) => ReadInv(end)'
      <4>1. /\ Lines(offset)' = Lines(offset) /\ LastEnd(offset)' = LastEnd(offset)
            /\ Cell(row, col)' = Cell(row, col)
        BY <2>1 DEF Lines, LastEnd, Cell
      <4>2. EndsKnown(offset)' <=> EndsKnown(offset)
        BY <2>1, MeaningKept DEF EndsKnown
      <4>3. /\ Stored(offset) => Stored(offset)'
            /\ (\A i \in 1..offset : Pos(i) \in 0..Cell(row, col) - 1)
                 => (\A i \in 1..offset : Pos(i) \in 0..Cell(row, col) - 1)'
        BY <2>1, <4>1, MeaningKept DEF Stored
      <4> QED
        BY <2>1, <4>1, <4>2, <4>3 DEF ReadInv
    <3>2. HeldInv(end) => HeldInv(end)'
      BY <2>1, MeaningKept DEF HeldInv, Stored
    <3>3. PackedInv(end) => PackedInv(end)'
      BY <2>1 DEF PackedInv, Lines, LastEnd
    <3> QED
      BY <3>1, <3>2, <3>3
  <2>3. MeantInv'
    BY <1>2, <2>1, <2>2 DEF MeantInv
  <2>4. RoundTrip => RoundTrip'
    <3> SUFFICES ASSUME RoundTrip, pc' = "packed", NEW end \in DOMAIN text', Good(end)'
                 PROVE  packed' = Append(SubSeq(text', 1, LastEnd(end)'), "0")
      BY DEF RoundTrip, Good
    <3>1. end \in DOMAIN text /\ Good(end) /\ LastEnd(end)' = LastEnd(end)
      BY <2>1, MeaningKept
    <3> QED
      BY <2>1, <3>1 DEF RoundTrip, Good
  <2> QED
    BY <2>3, <2>4
<1> QED
  BY <1>1, <1>3, <1>4, <1>5, <1>6, <1>7, <1>8 DEF Next, Over

\* A text whose end the loop can see, with no more lines than the list has
\* rows and room for each, is saved as it was, line by line, with a NUL behind
\* it: for every text, every number of rows and every length of a row.
THEOREM SavedAsRead == Spec => []RoundTrip
<1>1. Init => IInv /\ MeantInv /\ RoundTrip
  BY InitIInv DEF Init, MeantInv, RoundTrip
<1>2. IInv /\ MeantInv /\ RoundTrip /\ [Next]_vars => (IInv /\ MeantInv /\ RoundTrip)'
  <2> SUFFICES ASSUME IInv, MeantInv, RoundTrip, [Next]_vars
               PROVE  (IInv /\ MeantInv /\ RoundTrip)'
    OBVIOUS
  <2>1. IInv'
    BY StartStep, CannotReadStep, FetchCharStep, BeginPackStep, PackCharStep,
       PackEndsStep, UnchangedStep DEF Next, Over
  <2> QED
    BY <2>1, MeantStep
<1> QED
  BY <1>1, <1>2, PTL DEF Spec
=============================================================================

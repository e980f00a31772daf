-------------------------------- MODULE Fetch --------------------------------
(***************************************************************************)
(* How the text of the bootorder file becomes the rows of bootlist and a   *)
(* text again: fetch_bootorder and fetch_file_from_cbfs of                 *)
(* src/sortbootorder.c, and the packing at the start of save_flash.  One   *)
(* round of a loop is one step.                                            *)
(*                                                                         *)
(* The two fetch loops differ by a test for 0xFF, which never holds: tmp   *)
(* is a plain char, signed on x86.  The buffer is flat, as the compiler    *)
(* lays it out: cell [i][MAX_LENGTH] is [i + 1][0].                        *)
(***************************************************************************)
EXTENDS Integers, Sequences, FiniteSets

CONSTANTS
    MaxDevices,   \* MAX_DEVICES
    MaxLength,    \* MAX_LENGTH
    Regions,      \* what the BOOTORDER area may hold, <<>> without the area
    CbfsFiles     \* what CBFS may hold, <<>> without the file

\* A printable character, NEWLINE, NUL and 0xFF.
Char == {"c", "n", "0", "f"}

ASSUME FetchAssumption ==
    /\ MaxDevices \in Nat \ {0}
    /\ MaxLength \in Nat \ {0}
    /\ Regions \subseteq Seq(Char)
    /\ CbfsFiles \subseteq Seq(Char)

VARIABLES
    pc,
    region,    \* the BOOTORDER area
    cbfs,      \* the file in CBFS
    text,      \* bootorder_data, or the mapped file
    offset,    \* the next character of it, from 0
    row,       \* *line_count
    col,       \* char_cnt
    dest,      \* bootlist, and what the program has behind it
    j, k,      \* row and column of the packing loops
    packed     \* cbfs_formatted_list

files    == <<region, cbfs>>
fetching == <<text, offset, row, col, dest>>
packing  == <<j, k, packed>>
vars     == <<pc, files, fetching, packing>>

Cells == 0 .. (MaxDevices + 1) * MaxLength
Cell(r, c) == r * MaxLength + c
Unwritten == "-"

Init ==
    /\ pc = "boot"
    /\ region \in Regions
    /\ cbfs \in CbfsFiles
    /\ text = <<>>
    /\ offset = 0
    /\ row = 0
    /\ col = 0
    /\ dest = [x \in Cells |-> Unwritten]
    /\ j = 0
    /\ k = 0
    /\ packed = <<>>

\* The area is found, has a size and does not start with a NUL.  The test for
\* 0xFF is there and never holds.
RegionUsable == region # <<>> /\ region[1] # "0"

\* The file is there and does not start with two bytes 0x00 or 0xFF.
CbfsUsable ==
    /\ Len(cbfs) >= 2
    /\ <<cbfs[1], cbfs[2]>> \notin {<<"0", "0">>, <<"f", "f">>}

Start ==
    /\ pc = "boot"
    /\ \/ RegionUsable /\ text' = region
       \/ ~RegionUsable /\ CbfsUsable /\ text' = cbfs
    /\ pc' = "fetch"
    /\ UNCHANGED <<files, offset, row, col, dest, packing>>

\* "Can't read bootorder!"
CannotRead ==
    /\ pc = "boot"
    /\ ~RegionUsable
    /\ ~CbfsUsable
    /\ pc' = "reset"
    /\ UNCHANGED <<files, fetching, packing>>

\* The character at offset.  Behind the text anything may lie.
Read(tmp) == IF offset < Len(text) THEN tmp = text[offset + 1] ELSE tmp \in Char

\* Slip: the number of rows is not tested.
Excess_NoRow(r, c, o) == c > MaxLength \/ o > MaxLength * MaxDevices

\* The three tests at the end of a round, all made behind the write.
Excess(r, c, o) == \/ r > MaxDevices
                   \/ c > MaxLength
                   \/ o > MaxLength * MaxDevices

Advance(r, c) ==
    /\ row' = r
    /\ col' = c
    /\ pc' = IF Excess(r, c, offset + 1) THEN "fetched" ELSE "fetch"

\* Slip: the column is not set back.
FetchChar_NoReset(tmp) ==
    /\ pc = "fetch"
    /\ Read(tmp)
    /\ offset' = offset + 1
    /\ dest' = [dest EXCEPT ![Cell(row, col)] = tmp]
    /\ IF tmp = "n" THEN Advance(row + 1, col)
       ELSE IF tmp = "0" \/ offset + 1 > Len(text)
       THEN pc' = "fetched" /\ UNCHANGED <<row, col>>
       ELSE Advance(row, col + 1)
    /\ UNCHANGED <<files, text, packing>>

\* One round of the fetch loop.  A line end behind the text is still a row.
FetchChar(tmp) ==
    /\ pc = "fetch"
    /\ Read(tmp)
    /\ offset' = offset + 1
    /\ dest' = [dest EXCEPT ![Cell(row, col)] = tmp]
    /\ IF tmp = "n" THEN Advance(row + 1, 0)
       ELSE IF tmp = "0" \/ offset + 1 > Len(text)
       THEN pc' = "fetched" /\ UNCHANGED <<row, col>>
       ELSE Advance(row, col + 1)
    /\ UNCHANGED <<files, text, packing>>

-----------------------------------------------------------------------------
(* save_flash                                                              *)

\* Key s, with the list as it was read.  A list that has outgrown bootlist is
\* not followed further: the loops would read what lies behind the buffer.
BeginPack ==
    /\ pc = "fetched"
    /\ row <= MaxDevices
    /\ pc' = "pack"
    /\ UNCHANGED <<files, fetching, packing>>

\* The inner loop ends with a line end, or with the row.
NextCell(ch) == IF ch = "n" \/ k + 1 = MaxLength
                THEN j' = j + 1 /\ k' = 0
                ELSE k' = k + 1 /\ UNCHANGED j

\* One character of the inner loop, and the step to the next row.
PackChar ==
    /\ pc = "pack"
    /\ j < row
    /\ LET ch == dest[Cell(j, k)]
       IN  packed' = Append(packed, ch) /\ NextCell(ch)
    /\ UNCHANGED <<pc, files, fetching>>

PackEnds ==
    /\ pc = "pack"
    /\ j >= row
    /\ packed' = Append(packed, "0")
    /\ pc' = "packed"
    /\ UNCHANGED <<files, fetching, j, k>>

\* The list is written and the board reset, or nothing could be read.
Over == /\ pc \in {"reset", "packed"} \/ (pc = "fetched" /\ row > MaxDevices)
        /\ UNCHANGED vars

Next == \/ Start \/ CannotRead
        \/ \E tmp \in Char : FetchChar(tmp)
        \/ BeginPack \/ PackChar \/ PackEnds
        \/ Over

Spec == Init /\ [][Next]_vars

-----------------------------------------------------------------------------
(* Properties                                                              *)

TypeOK ==
    /\ pc \in {"boot", "reset", "fetch", "fetched", "pack", "packed"}
    /\ region \in Regions
    /\ cbfs \in CbfsFiles
    /\ text \in Seq(Char)
    /\ offset \in 0 .. MaxLength * MaxDevices + 1
    /\ row \in 0 .. MaxDevices + 1
    /\ col \in 0 .. MaxLength + 1
    /\ dest \in [Cells -> Char \cup {Unwritten}]
    /\ j \in 0..MaxDevices
    /\ k \in 0..MaxLength - 1
    /\ packed \in Seq(Char \cup {Unwritten})

\* However long and whatever the text is, the fetch loop stores nothing
\* further than one row and one character behind bootlist (the late tests
\* reach that far), and packing writes at most one character, the NUL, behind
\* cbfs_formatted_list.
SpillBounded ==
    /\ pc = "fetch" => row <= MaxDevices /\ col <= MaxLength
    /\ Len(packed) <= MaxDevices * MaxLength + 1

\* What a text means, without rows: its lines up to the first NUL or the first
\* character for which a row has no room.
LastEnd(i) == IF \E e \in 1..i : text[e] = "n"
              THEN CHOOSE e \in 1..i : /\ text[e] = "n"
                                       /\ \A h \in e + 1..i : text[h] # "n"
              ELSE 0
ColOf(i) == i - 1 - LastEnd(i - 1)
Stops(i) == text[i] = "0" \/ (text[i] # "n" /\ ColOf(i) >= MaxLength)
Lines(i) == {e \in 1..i : text[e] = "n"}

\* A list that is read and saved is what the text meant, complete line by
\* complete line, with a NUL behind it: a torn file, or one whose end was
\* never written, is not read as more than it holds.  It takes an end that the
\* loop can see, at most MAX_DEVICES lines, and room for each line's end.
RoundTrip ==
    pc = "packed" =>
        \A end \in DOMAIN text :
            /\ Stops(end)
            /\ \A i \in 1..end - 1 : ~Stops(i)
            /\ Cardinality(Lines(end)) <= MaxDevices
            /\ \A e \in Lines(end) : ColOf(e) < MaxLength
            => packed = Append(SubSeq(text, 1, LastEnd(end)), "0")
=============================================================================

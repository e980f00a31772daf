------------------------------ MODULE BootList ------------------------------
(***************************************************************************)
(* The bootorder file as main and its helpers in src/sortbootorder.c see   *)
(* it: a list of rows, device nodes first and settings behind them, and    *)
(* beside it the array id[] with the menu letter of every row.             *)
(* Rows are numbered from 0 in the code and from 1 here.                   *)
(***************************************************************************)
EXTENDS Integers, Sequences

CONSTANTS
    Devices,   \* device nodes, the rows that start with '/'
    Tags,      \* names of the settings
    Def,       \* bootlist_def: the default list, from CBFS
    Letter,    \* bootlist_map[y][0] of the row of Def that names the device
    MaxLines   \* MAX_DEVICES

(***************************************************************************)
(* A row names a device or a setting with its value.  cut marks a row with *)
(* a NUL in front of its line end: whoever reads the file stops there.     *)
(***************************************************************************)
Row == [name: Devices \cup Tags, val: Nat, cut: BOOLEAN]

DeviceRow(d)   == [name |-> d, val |-> 0, cut |-> FALSE]
TagRow(t, v)   == [name |-> t, val |-> v, cut |-> FALSE]
IsDevice(row)  == row.name \in Devices
NoLetter       == "none"
Letters        == {Letter[d] : d \in Devices}

ASSUME ListAssumption ==
    /\ MaxLines \in Nat \ {0}
    /\ Def \in Seq(Row)
    /\ Len(Def) <= MaxLines
    /\ Devices \cap Tags = {}
    /\ DOMAIN Letter = Devices
    /\ NoLetter \notin Letters

Names(list) == {list[i].name : i \in DOMAIN list}

\* The first row with a name; only used where there is one.
FirstRow(list, n) ==
    CHOOSE i \in DOMAIN list : /\ list[i].name = n
                               /\ \A j \in DOMAIN list :
                                     list[j].name = n => i <= j

-----------------------------------------------------------------------------
(* Moving rows.                                                            *)

\* Slip: the search runs upwards from start.
LineNumber_First(ids, start, end, key) ==
    LET hits == {i \in start .. end - 1 : ids[i + 1] = key}
    IN  IF hits = {} THEN 0 ELSE CHOOSE i \in hits : \A j \in hits : i <= j

\* Slip: the line counted from 1.
LineNumber_Late(ids, start, end, key) ==
    LET hits == {i \in start .. end - 1 : ids[i + 1] = key}
    IN  IF hits = {} THEN 0 ELSE 1 + CHOOSE i \in hits : \A j \in hits : j <= i

\* get_line_number: the last line at or behind start with the letter, else 0.
LineNumber(ids, start, end, key) ==
    LET hits == {i \in start .. end - 1 : ids[i + 1] = key}
    IN  IF hits = {} THEN 0 ELSE CHOOSE i \in hits : \A j \in hits : j <= i

\* Slip: the shuffle stops one row early and loses a row.
ToTop_Short(s, line) ==
    [i \in DOMAIN s |-> IF i = 1 THEN s[line + 1]
                        ELSE IF i <= line THEN s[i - 1] ELSE s[i]]

\* move_boot_list, on the rows and on id[] alike: line goes to the top and
\* the rows above it go down by one.
ToTop(s, line) ==
    [i \in DOMAIN s |-> IF i = 1 THEN s[line + 1]
                        ELSE IF i <= line + 1 THEN s[i - 1] ELSE s[i]]

-----------------------------------------------------------------------------
(* Letters, defaults and settings.                                         *)

\* int_ids: a row that is no device of the default list keeps the letter the
\* array had at its place.
AssignIds(ids, list) ==
    [i \in DOMAIN ids |->
        IF i \in DOMAIN list /\ IsDevice(list[i]) /\ list[i].name \in Names(Def)
        THEN Letter[list[i].name] ELSE ids[i]]

\* Key r, the copy loop: as many default lines as the list has lines.
Restored(list) ==
    [i \in DOMAIN list |-> IF i <= Len(Def) THEN Def[i] ELSE list[i]]

\* A toggle is written as the one character toggle + '0'.  What is no digit then
\* reads as 0, and 208 + '0' is a NUL.
CharRow(t, v) ==
    [name |-> t, val |-> IF v <= 9 THEN v ELSE 0, cut |-> v = 208]

\* Without room the setting is silently left out.
Appended(list, row) == IF Len(list) + 1 > MaxLines THEN list ELSE Append(list, row)

\* update_tag_value: set the first row of the tag, or append one.
SetTag(list, t, v) ==
    IF t \in Names(list)
    THEN [list EXCEPT ![FirstRow(list, t)] = CharRow(t, v)]
    ELSE Appended(list, CharRow(t, v))

\* Slip: printed with "%04d" and read back with base 16 (two digits suffice).
SetWatchdog_Decimal(list, v) ==
    LET misread == (v \div 10) * 16 + (v % 10)
    IN  IF "watchdog" \in Names(list)
        THEN [list EXCEPT ![FirstRow(list, "watchdog")].val = misread,
                          ![FirstRow(list, "watchdog")].cut = TRUE]
        ELSE Appended(list, TagRow("watchdog", misread))

\* update_wdg_timeout: over an existing row snprintf puts its NUL where the
\* '\r' was, and the line end it should restore goes into another row.
SetWatchdog(list, v) ==
    IF "watchdog" \in Names(list)
    THEN [list EXCEPT ![FirstRow(list, "watchdog")].val = v,
                      ![FirstRow(list, "watchdog")].cut = TRUE]
    ELSE Appended(list, TagRow("watchdog", v))

-----------------------------------------------------------------------------
(* Reading the file back.                                                  *)

CutAt(file) == IF \E i \in DOMAIN file : file[i].cut
               THEN CHOOSE i \in DOMAIN file :
                       file[i].cut /\ \A j \in DOMAIN file : file[j].cut => i <= j
               ELSE Len(file) + 1

\* fetch_bootorder: the rows in front of the NUL.  The row it cuts has no
\* line end any more and does not count.
Fetched(file) == SubSeq(file, 1, CutAt(file) - 1)

\* What strstr sees of bootorder_data: up to the NUL, the cut row's value too.
Searched(file) ==
    SubSeq(file, 1, IF CutAt(file) <= Len(file) THEN CutAt(file) ELSE Len(file))

-----------------------------------------------------------------------------
(* show_boot_device_list: one line per letter, at the row of the device    *)
(* that is the first of its letter in the default list.                    *)

Leads(d) ==
    \A j \in 1 .. FirstRow(Def, d) - 1 :
        IsDevice(Def[j]) => Letter[Def[j].name] # Letter[d]

\* The rows that print a line, in the order of the list.
Shown(list, hidden) ==
    {i \in DOMAIN list : /\ IsDevice(list[i])
                         /\ list[i].name \notin hidden
                         /\ list[i].name \in Names(Def)
                         /\ Leads(list[i].name)}
=============================================================================

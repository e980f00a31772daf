----------------------------- MODULE SetupMenu ------------------------------
(***************************************************************************)
(* The setup as its user meets it (main of src/sortbootorder.c): it reads  *)
(* the bootorder file, takes keys, and with `s` writes list and settings   *)
(* back and resets the board, so that the next session reads what this one *)
(* has written.  The two loops that walk over the list, the group move of  *)
(* a letter key and update_tags, take one step per round.                  *)
(*                                                                         *)
(* How the write itself goes is the subject of SaveFlash; here it ends in  *)
(* one of the three ways BootFile allows.                                  *)
(***************************************************************************)
EXTENDS BootList, FiniteSets

CONSTANTS
    TagOrder,       \* the order of update_tags
    PxeAvailable,   \* not an apu7
    InitialFiles,   \* files the first session may find
    InitialRegions, \* states of the BOOTORDER area it may find
    CbfsFile,       \* the file in CBFS, read when the region holds none
    Toggles,        \* bound: the settings whose key the user presses
    TypedTimeouts,  \* bound: numbers the user may type for the watchdog
    Garbage         \* bound: the numbers strtoul may meet in low memory

ASSUME MenuAssumption ==
    /\ PxeAvailable \in BOOLEAN
    /\ TagOrder \in Seq(Tags)
    /\ {TagOrder[i] : i \in DOMAIN TagOrder} = Tags
    /\ {"pxen", "com2en", "watchdog"} \subseteq Tags
    /\ \A f \in InitialFiles : f \in Seq(Row) /\ Len(f) <= MaxLines
    /\ CbfsFile \in Seq(Row) /\ Len(CbfsFile) <= MaxLines
    /\ Toggles \subseteq Tags \ {"watchdog"}
    /\ TypedTimeouts \subseteq Nat
    /\ Garbage \subseteq Nat /\ Garbage # {}
    /\ \A g \in Garbage : g % 2^8 \notin {218, 219}  \* a line feed, and its toggle
    /\ InitialRegions \subseteq {"file", "zeroed", "missing"}

DeviceCount == Cardinality(Devices)

\* The width of the variable a setting is kept in, and what its row can say:
\* four hexadecimal digits, which hold the timeout, or a decimal one.
Width(t) == IF t = "watchdog" THEN 2^16 ELSE 2^8
InRam(t) == 0 .. Width(t) - 1
InRow(t) == IF t = "watchdog" THEN InRam(t) ELSE 0..9

\* A whole bootorder file of the board: every device once, in front of the
\* settings.
WellFormed(l) ==
    /\ DeviceCount <= Len(l)
    /\ \A i \in DOMAIN l : IsDevice(l[i]) <=> i <= DeviceCount
    /\ {l[i].name : i \in 1..DeviceCount} = Devices
    /\ \A i, j \in 1..DeviceCount : l[i].name = l[j].name => i = j
    /\ \A i \in DOMAIN l : l[i].val \in InRow(l[i].name) /\ (l[i].cut => ~IsDevice(l[i]))

\* The files that come with the board, and the one the first session finds,
\* are whole; they name the same devices in any order.
ASSUME FileAssumption ==
    /\ IsFiniteSet(Devices)
    /\ WellFormed(Def) /\ WellFormed(CbfsFile)
    /\ \A f \in InitialFiles : WellFormed(f)

VARIABLES
    pc,
    region,     \* the BOOTORDER area: holds a file, starts with a 0 byte, or
                \* is not in the flash map at all
    file,       \* the rows in it
    list,       \* bootlist, its first max_lines rows
    ids,        \* id[]
    settings,   \* the toggles and wdg_timeout
    com2,       \* com2_available
    key,        \* the letter key being handled, or r
    lineStart,  \* line_start
    tagAt,      \* the next call of update_tags
    pressed,    \* history: the list when the letter key came
    saved,      \* history: the last save that reached the flash completed
    stored,     \* history: the settings the last completed save had to write
    torn        \* history: some save did not complete

flashVars == <<region, file, saved, stored, torn>>
menuVars  == <<list, ids, com2, key, lineStart, tagAt, pressed>>
vars == <<pc, settings, flashVars, menuVars>>

\* The tags update_tags writes and refresh_tag_values reads.
Available(t) == /\ t = "pxen" => PxeAvailable
                /\ t = "com2en" => com2

\* x ^= 1
Flip(v) == IF v % 2 = 0 THEN v + 1 ELSE v - 1

-----------------------------------------------------------------------------
(* Boot                                                                    *)

NoSettings == [t \in Tags |-> 0]
NoneStored == [t \in {} |-> 0]
NoIds      == [i \in 1..MaxLines |-> NoLetter]

Init ==
    /\ pc = "boot"
    /\ list = <<>>
    /\ ids = NoIds
    /\ settings = NoSettings
    /\ com2 = FALSE
    /\ key = NoLetter
    /\ lineStart = 0
    /\ tagAt = 1
    /\ pressed = <<>>
    /\ region \in InitialRegions
    /\ file \in InitialFiles
    /\ saved = FALSE
    /\ stored = NoneStored
    /\ torn = FALSE

\* fetch_bootorder: without the area, or with a 0 in its first byte, the copy
\* in CBFS is read.  An erased region reads as a file of no rows: 0xFF is
\* compared with a plain char and never recognised.
Source == IF region = "file" THEN file ELSE CbfsFile

\* One setting out of bootorder_data.  The pointer is advanced past the tag
\* before it is tested, so a missing tag is looked up in low memory; only
\* com2en is tested first, and pxen is not read where there is no PXE.  A row
\* has one digit for a toggle; low memory may hold any number, which is cut.
ReadSetting(t, text, garbage) ==
    IF t = "pxen" /\ ~PxeAvailable THEN 0
    ELSE IF t \in Names(text) THEN text[FirstRow(text, t)].val
    ELSE IF t = "com2en" THEN 0 ELSE garbage % Width(t)

\* main up to its key loop.
Boot ==
    /\ pc = "boot"
    /\ pc' = "menu"
    /\ list' = Fetched(Source)
    /\ ids' = AssignIds(NoIds, Fetched(Source))
    /\ \E lowMemory \in [Tags -> Garbage] :
          settings' = [t \in Tags |->
                          ReadSetting(t, Searched(Source), lowMemory[t])]
    /\ com2' = ("com2en" \in Names(Searched(Source)))
    /\ UNCHANGED <<flashVars, key, lineStart, tagAt, pressed>>

-----------------------------------------------------------------------------
(* Keys                                                                    *)

\* n u t k o p m h l j g v y: `n` and `k` only where there is PXE and COM2.
ToggleSetting(t) ==
    /\ pc = "menu"
    /\ Available(t)
    /\ settings' = [settings EXCEPT ![t] = Flip(@)]
    /\ UNCHANGED <<pc, flashVars, menuVars>>

\* Slip: the timeout kept in an int.
SetTimeout_Wide(n) ==
    /\ pc = "menu"
    /\ n = 0 \/ n >= 60
    /\ settings' = [settings EXCEPT !["watchdog"] = n]
    /\ UNCHANGED <<pc, flashVars, menuVars>>

\* i: the number is cut to 16 bits first and asked for again while it is
\* below a minute, so this is the last round of the loop.
SetTimeout(n) ==
    LET timeout == n % 2^16 IN
    /\ pc = "menu"
    /\ timeout = 0 \/ timeout >= 60
    /\ settings' = [settings EXCEPT !["watchdog"] = timeout]
    /\ UNCHANGED <<pc, flashVars, menuVars>>

\* refresh_tag_values, from the rows of the default list.  pciereverse has
\* lost its strstr: where there is an sd3mode row, it is read from the zeros
\* behind that row, and its own row is not looked at.
Refreshed(s) ==
    [t \in Tags |->
        IF t = "pciereverse" THEN IF "sd3mode" \in Names(Def) THEN 0 ELSE s[t]
        ELSE IF t \in Names(Def) /\ Available(t) THEN Def[FirstRow(Def, t)].val
        ELSE s[t]]

\* Slip: the letters are not assigned again.
RestoreDefaults_StaleIds ==
    /\ pc = "menu"
    /\ list' = Restored(list)
    /\ settings' = Refreshed(settings)
    /\ key' = "r"
    /\ UNCHANGED <<pc, flashVars, ids, com2, lineStart, tagAt, pressed>>

\* r
RestoreDefaults ==
    /\ pc = "menu"
    /\ list' = Restored(list)
    /\ ids' = AssignIds(ids, Restored(list))
    /\ settings' = Refreshed(settings)
    /\ key' = "r"
    /\ UNCHANGED <<pc, flashVars, com2, lineStart, tagAt, pressed>>

\* A letter a..f: the loop that moves its devices to the top starts.
PressLetter(k) ==
    /\ pc = "menu"
    /\ pc' = "moving"
    /\ key' = k
    /\ lineStart' = 0
    /\ pressed' = list
    /\ UNCHANGED <<flashVars, list, ids, settings, com2, tagAt>>

\* One round of that loop: the last device of the letter comes to the top.
MoveOne ==
    LET line == LineNumber(ids, lineStart, Len(list), key) IN
    /\ pc = "moving"
    /\ line > lineStart
    /\ list' = ToTop(list, line)
    /\ ids' = [i \in DOMAIN ids |->
                  IF i <= Len(list) THEN ToTop(SubSeq(ids, 1, Len(list)), line)[i]
                                    ELSE ids[i]]
    /\ lineStart' = lineStart + 1
    /\ UNCHANGED <<pc, flashVars, settings, com2, key, tagAt, pressed>>

\* key and line_start are set anew before they are used again.
BackToMenu == pc' = "menu" /\ key' = NoLetter /\ lineStart' = 0 /\ pressed' = <<>>

MoveEnds ==
    /\ pc = "moving"
    /\ LineNumber(ids, lineStart, Len(list), key) <= lineStart
    /\ BackToMenu
    /\ UNCHANGED <<flashVars, list, ids, com2, tagAt, settings>>

-----------------------------------------------------------------------------
(* Save and exit                                                           *)

\* RESET(): the board starts again and RAM is gone.
Reset ==
    /\ pc' = "boot"
    /\ list' = <<>>
    /\ ids' = NoIds
    /\ settings' = NoSettings
    /\ com2' = FALSE
    /\ key' = NoLetter
    /\ lineStart' = 0
    /\ tagAt' = 1
    /\ pressed' = <<>>

\* s
PressSave ==
    /\ pc = "menu"
    /\ pc' = "tagging"
    /\ tagAt' = 1
    /\ UNCHANGED <<flashVars, list, ids, settings, com2, key, lineStart, pressed>>

\* Slip: a setting without a row is left out.
UpdateTag_NoAppend ==
    LET t == TagOrder[tagAt] IN
    /\ pc = "tagging"
    /\ tagAt <= Len(TagOrder)
    /\ tagAt' = tagAt + 1
    /\ list' = IF ~Available(t) \/ t \notin Names(list) THEN list
               ELSE IF t = "watchdog" THEN SetWatchdog(list, settings[t])
               ELSE SetTag(list, t, settings[t])
    /\ UNCHANGED <<pc, flashVars, ids, settings, com2, key, lineStart, pressed>>

\* One call of update_tags.
UpdateTag ==
    LET t == TagOrder[tagAt] IN
    /\ pc = "tagging"
    /\ tagAt <= Len(TagOrder)
    /\ tagAt' = tagAt + 1
    /\ list' = IF ~Available(t) THEN list
               ELSE IF t = "watchdog" THEN SetWatchdog(list, settings[t])
               ELSE SetTag(list, t, settings[t])
    /\ UNCHANGED <<pc, flashVars, ids, settings, com2, key, lineStart, pressed>>

TagsUpdated == pc = "tagging" /\ tagAt > Len(TagOrder)

\* save_flash went through.  flash_address is only set where the area was
\* found; otherwise the file goes to address 0 and the area stays missing.
FileSaved ==
    /\ TagsUpdated
    /\ IF region = "missing" THEN UNCHANGED <<region, file>>
                             ELSE region' = "file" /\ file' = list
    /\ saved' = TRUE
    /\ stored' = [t \in {u \in Tags : Available(u)} |-> settings[t]]
    /\ Reset
    /\ UNCHANGED torn

\* save_flash found the flash write protected.
SaveRefused ==
    /\ TagsUpdated
    /\ Reset
    /\ UNCHANGED flashVars

\* What counts of a row without its line end: nothing, or a setting that strstr
\* still finds, with the digits that were written.
Remains(row) ==
    {[name |-> row.name, val |-> v, cut |-> TRUE] :
        v \in IF IsDevice(row) THEN {}
              ELSE IF row.name = "watchdog"
              THEN {row.val, row.val \div 16, row.val \div 256, row.val \div 4096, 0}
              ELSE {row.val, 0}}

\* The erase was done and the write stopped on the way: behind the rows that
\* were written, and perhaps a part of one, the region is erased.  (Bounds:
\* once; no damaged word or half-done erase, which SaveFlash leaves and Fetch
\* reads as it reads any text.)
SaveCutShort ==
    /\ TagsUpdated
    /\ region # "missing"
    /\ ~torn
    /\ region' = "file"
    /\ \E n \in 0 .. Len(list) - 1 :
          \/ file' = SubSeq(list, 1, n)
          \/ \E row \in Remains(list[n + 1]) : file' = Append(SubSeq(list, 1, n), row)
    /\ saved' = FALSE
    /\ torn' = TRUE
    /\ stored' = NoneStored
    /\ Reset

\* x
ExitWithoutSave ==
    /\ pc = "menu"
    /\ Reset
    /\ UNCHANGED flashVars

Next ==
    \/ Boot
    \/ \E t \in Toggles : ToggleSetting(t)
    \/ \E n \in TypedTimeouts : SetTimeout(n)
    \/ RestoreDefaults
    \/ \E k \in Letters : PressLetter(k)
    \/ MoveOne \/ MoveEnds
    \/ PressSave \/ UpdateTag
    \/ FileSaved \/ SaveRefused \/ SaveCutShort
    \/ ExitWithoutSave

Spec == Init /\ [][Next]_vars

-----------------------------------------------------------------------------
(* Properties                                                              *)

\* Every variable keeps its range: the list never outgrows MAX_DEVICES rows, a
\* toggle 8 bits and the watchdog timeout 16.
TypeOK ==
    /\ pc \in {"boot", "menu", "moving", "tagging"}
    /\ region \in {"file", "zeroed", "missing"}
    /\ file \in Seq(Row) /\ Len(file) <= MaxLines
    /\ list \in Seq(Row) /\ Len(list) <= MaxLines
    /\ ids \in [1..MaxLines -> Letters \cup {NoLetter}]
    /\ settings \in [Tags -> Nat]
    /\ \A t \in Tags : settings[t] \in InRam(t)
    /\ DOMAIN stored \subseteq Tags
    /\ \A t \in DOMAIN stored : stored[t] \in InRam(t)
    /\ com2 \in BOOLEAN
    /\ key \in Letters \cup {NoLetter, "r"}
    /\ lineStart \in 0..MaxLines
    /\ tagAt \in 1 .. Len(TagOrder) + 1
    /\ pressed \in Seq(Row)
    /\ saved \in BOOLEAN
    /\ torn \in BOOLEAN

DeviceRows(l) == {i \in DOMAIN l : IsDevice(l[i])}

\* No device is ever lost from the list or doubled, through any number of
\* moves, restores, saves and boots, unless a save was cut short.
DevicesKept ==
    pc # "boot" /\ ~torn =>
        /\ {list[i].name : i \in DeviceRows(list)} = Devices
        /\ \A i, j \in DeviceRows(list) : list[i].name = list[j].name => i = j

\* Devices stay in front of the settings: a letter key never lifts a setting.
DevicesFirst ==
    \A i, j \in DOMAIN list : IsDevice(list[j]) /\ i < j => IsDevice(list[i])

\* Every row has the letter of its device, and only devices have letters, so
\* that a letter key moves the devices shown with that letter.
IdsMatchRows ==
    pc # "boot" =>
        \A i \in DOMAIN list :
            ids[i] = IF IsDevice(list[i]) THEN Letter[list[i].name] ELSE NoLetter

OfKey(row) == IsDevice(row) /\ Letter[row.name] = key

\* The rows of the letter in the list its key has met, and how many of them
\* were behind row i.
Chosen    == {i \in DOMAIN pressed : OfKey(pressed[i])}
Behind(i) == Cardinality({j \in Chosen : j > i})

\* What a letter key does to the list, and what the menu then shows first.
OnTop ==
    LET n     == Cardinality(Chosen)
        shown == Shown(list, {})
    IN  /\ Len(list) = Len(pressed)
        /\ \A i \in DOMAIN list : OfKey(list[i]) <=> i <= n
        /\ \A i \in DOMAIN pressed \ Chosen : list[i + Behind(i)] = pressed[i]
        /\ 1 \notin Chosen => \A i \in Chosen : list[n - Behind(i)] = pressed[i]
        /\ \A i, j \in shown : i < j /\ OfKey(list[j]) => OfKey(list[i])

\* "Chosen device will be moved to the top and rest shuffled down": at the end
\* of a letter key its devices lead the list, every other row has gone down by
\* the chosen rows that were behind it, and the devices of the letter keep their
\* order too unless one of them was on top before.  The menu then shows that
\* letter first, if at all.
ChosenOnTop == [][pc = "moving" /\ pc' = "menu" => OnTop]_vars

\* When save_flash is called the list says what the menu says, for every
\* setting there is a row for or room for one and whose value a row can say.
SavedListHasSettings ==
    TagsUpdated =>
        \A t \in Tags : Available(t) /\ settings[t] \in InRow(t) =>
            IF t \in Names(list) THEN list[FirstRow(list, t)].val = settings[t]
                                 ELSE Len(list) = MaxLines

\* A setting whose row is in front of the watchdog's, and the watchdog itself,
\* comes back in the next session as it was saved, if a row can say its value
\* (what was read out of low memory may be more than a digit).  A setting the
\* session did not have is none of them: r copies the default com2en row also
\* into a list whose session has no COM2 and does not write it.
ReadableSettingsSurvive ==
    [][Boot /\ region = "file" /\ saved =>
         \A t \in Names(Searched(file)) \cap DOMAIN stored :
            stored[t] \in InRow(t) => settings'[t] = stored[t]]_vars

-----------------------------------------------------------------------------
(* What the documentation says and the code does not do.                   *)

\* README: the settings are stored in the bootorder file, which `s` writes
\* back.  So the session behind a completed save starts with them.
SavedSettingsSurvive ==
    [][Boot /\ saved => \A t \in DOMAIN stored : settings'[t] = stored[t]]_vars

=============================================================================

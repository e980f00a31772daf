------------------------------ MODULE LockMenu ------------------------------
(***************************************************************************)
(* The flash lockdown menu of src/utils/spi_lock_menu.c (key Q of the main *)
(* menu), one action per SPI command, beside the chip of SpiNor.  Nothing  *)
(* in the menu waits for a register write: whatever it reads back may be   *)
(* the old value still.                                                    *)
(***************************************************************************)
EXTENDS SpiNor

CONSTANTS
    Choices,       \* bound: block_no the user may type
    HastyChoices,  \* bound: the same for a user who pastes commands
    InitialSR      \* status registers the menu may find

ASSUME LockMenuAssumption ==
    /\ Choices \subseteq 1..44 /\ HastyChoices \subseteq 1..44
    /\ InitialSR \subseteq StatusRegister
    /\ \A r \in InitialSR : ~({"SRP0", "SRP1"} \subseteq r)

VARIABLES
    hasty,      \* the next command may come while a register write runs
    pc,         \* where the menu is
    command,    \* its key
    choice,     \* block_no or lock_type
    status,     \* sr1 and sr2 as read
    old,        \* status_regs_old; history for s: what it read first
    message,    \* "... success!" or "... failed!"
    wpPin,      \* wp_pin
    marked,     \* the rows printed with "(currently enabled)"
    wanted,     \* history: the row whose range the chip was given last
    confirmed   \* history: the permanent lock was answered with y

menuVars == <<hasty, pc, command, choice, status, old, message, wpPin, marked,
              wanted, confirmed>>
vars == <<chipVars, menuVars>>

SRPBits == {"SRP0", "SRP1"}
\* What the commands b and c set anew.
RangeBits == {"SEC", "TB", "BP2", "BP1", "BP0", "CMP"}

-----------------------------------------------------------------------------
(* The tables.  Both halves of a table, CMP = 0 in rows 1 to 22 and CMP = 1 *)
(* in 23 to 44, are ordered alike.                                         *)

Half(row) == IF row > 22 THEN row - 22 ELSE row

BPBits(n) == {b \in {"BP0", "BP1", "BP2"} :
                 CASE b = "BP0" -> n % 2 = 1
                   [] b = "BP1" -> (n \div 2) % 2 = 1
                   [] b = "BP2" -> n >= 4}

\* bp_lookup.  0x0E of rows 14 and 36 is BP1, BP0 and the read-only WEL.
BPLookup(row) ==
    LET k == Half(row) IN
    CASE k = 1       -> {}
      [] k \in 2..7   -> BPBits(k - 1)
      [] k \in 8..13  -> BPBits(k - 7) \cup {"TB"}
      [] k = 14      -> {"BP1", "BP0"}
      [] k \in 15..18 -> BPBits(k - 14) \cup {"SEC"}
      [] k \in 19..22 -> BPBits(k - 18) \cup {"SEC", "TB"}

\* Slip: SEC is not looked at in the rows of small ranges.
Enabled_NoSEC(row, r) ==
    LET k == Half(row)
        bp(values) == BP(r) \in values
        at(tb) == ("TB" \in r) = tb
    IN  /\ ("CMP" \in r) = (row > 22)
        /\ \/ k = 1 /\ bp({0})
           \/ k \in 2..7 /\ bp({k - 1}) /\ "SEC" \notin r /\ at(FALSE)
           \/ k \in 8..13 /\ bp({k - 7}) /\ "SEC" \notin r /\ at(TRUE)
           \/ k = 14 /\ bp({7})
           \/ k \in 15..18 /\ bp({k - 14}) /\ at(FALSE)
           \/ k \in 19..22 /\ bp({k - 18}) /\ at(TRUE)

\* The conditions of print_block_protect_status1 and 2.  Rows 10, 18, 40 and
\* 44 test BP2 and not BP1, which takes 5 for 4 and, in row 10, misses 3.
Enabled(row, r) ==
    LET k == Half(row)
        is(bp, sec, tb) == BP(r) \in bp /\ ("SEC" \in r) = sec /\ ("TB" \in r) = tb
    IN  /\ ("CMP" \in r) = (row > 22)
        /\ \/ k = 1 /\ BP(r) = 0
           \/ k \in 2..7 /\ is({k - 1}, FALSE, FALSE)
           \/ row = 10 /\ is({4, 5}, FALSE, TRUE)
           \/ k \in 8..13 /\ row # 10 /\ is({k - 7}, FALSE, TRUE)
           \/ k = 14 /\ BP(r) = 7
           \/ k \in 15..17 /\ is({k - 14}, TRUE, FALSE)
           \/ k = 18 /\ is({4, 5}, TRUE, FALSE)
           \/ k \in 19..21 /\ is({k - 18}, TRUE, TRUE)
           \/ row = 22 /\ is({4}, TRUE, TRUE)
           \/ row = 44 /\ is({4, 5}, TRUE, TRUE)

\* The range the text of a row names, in sectors; the text of row 26 names
\* the whole chip.
Printed(row, s) ==
    LET k == Half(row)
        top(n) == s >= FlashSectors - n
        bottom(n) == s < n
        part(n) == (FlashSectors * 2^n) \div 64
        named == \/ k \in 2..7 /\ top(part(k - 2))
                 \/ k \in 8..13 /\ bottom(part(k - 8))
                 \/ k = 14
                 \/ k \in 15..18 /\ top(2^(k - 15))
                 \/ k \in 19..22 /\ bottom(2^(k - 19))
    IN  row = 26 \/ (row > 22) # named

\* The lock types of set_sr_lock.
LockBits(n) ==
    CASE n = 1 -> {} [] n \in {2, 3} -> {"SRP0"} [] n = 4 -> {"SRP1"} [] n = 5 -> SRPBits

\* Slip: choice >= 22.
Request_Early(r) ==
    CASE command = "b" -> (r \ RangeBits) \cup BPLookup(choice)
                          \cup (IF choice >= 22 THEN {"CMP"} ELSE {})
      [] command = "c" -> r \ RangeBits
      [] command = "l" -> (r \ SRPBits) \cup LockBits(choice)

\* What the commands b, c and l make of the registers.
Request(r) ==
    CASE command = "b" -> (r \ RangeBits) \cup BPLookup(choice)
                          \cup (IF choice > 22 THEN {"CMP"} ELSE {})
      [] command = "c" -> r \ RangeBits
      [] command = "l" -> (r \ SRPBits) \cup LockBits(choice)

\* Slip: all three compare as clear does.
Failed_AsClear(r) ==
    old \cap SR1Bits # r \cap SR1Bits /\ old \cap SR2Bits # r \cap SR2Bits

\* Which read-back they take for a failure: b and l that nothing changed, c
\* that something did in both registers.
Failed(r) ==
    CASE command = "b" -> old \ LBBits = r \ LBBits
      [] command = "c" -> /\ old \cap SR1Bits # r \cap SR1Bits
                          /\ old \cap SR2Bits # r \cap SR2Bits
      [] command = "l" -> old \cap SRPBits = r \cap SRPBits

-----------------------------------------------------------------------------
Init ==
    /\ mem = [s \in Window |-> [w \in Word |-> <<0, w>>]]
    /\ sr \in InitialSR
    /\ wel = FALSE
    /\ busy = Idle
    /\ wpLow \in BOOLEAN
    /\ hasty \in BOOLEAN
    /\ pc = "menu"
    /\ command = "none"
    /\ choice = 0
    /\ status = {}
    /\ old = {}
    /\ message = "none"
    /\ wpPin = 1
    /\ marked = {}
    /\ wanted = 0
    /\ confirmed = FALSE

\* A command line.  A register write takes 15 ms: only who pastes commands is
\* faster than the chip.
TakeKey(k, n) ==
    /\ pc = "menu"
    /\ hasty \/ ~WIP
    /\ pc' = "read1"
    /\ command' = k
    /\ choice' = n
    /\ message' = "none"
    /\ marked' = {}
    /\ wpPin' = 1
    /\ UNCHANGED <<chipVars, hasty, status, old, wanted, confirmed>>

\* Every command begins with RDSR1 and RDSR2.
ReadSR1 ==
    /\ pc = "read1"
    /\ pc' = "read2"
    /\ status' = sr \cap SR1Bits
    /\ UNCHANGED <<chipVars, hasty, command, choice, old, message, wpPin, marked,
                   wanted, confirmed>>

BothRead == status \cup (sr \cap SR2Bits)

Page == CASE command = "p" -> 1..22 [] command = "r" -> 23..44

\* The next command sets the locals of this one anew before it uses them.
BackToMenu == pc' = "menu" /\ choice' = 0 /\ status' = {} /\ old' = {}

\* p and r
ShowRanges ==
    /\ pc = "read2" /\ command \in {"p", "r"}
    /\ marked' = {row \in Page : Enabled(row, BothRead)}
    /\ BackToMenu
    /\ UNCHANGED <<chipVars, hasty, command, message, wpPin, wanted, confirmed>>

\* Slip: the lock bits as they were read decide.
AsksFirst_Read(r) == command = "l" /\ SRPBits \subseteq r

\* A lock for good is asked about.
AsksFirst(r) == command = "l" /\ SRPBits \subseteq Request(r)

\* b, c and l.  The warning about a locked register does not stop b and c.
ReadForWrite ==
    /\ pc = "read2" /\ command \in {"b", "c", "l"}
    /\ pc' = IF AsksFirst(BothRead) THEN "prompt" ELSE "wren"
    /\ status' = BothRead
    /\ old' = BothRead
    /\ UNCHANGED <<chipVars, hasty, command, choice, message, wpPin, marked, wanted,
                   confirmed>>

\* The answer is y.
ConfirmLock ==
    /\ pc = "prompt"
    /\ pc' = "wren"
    /\ confirmed' = TRUE
    /\ UNCHANGED <<chipVars, hasty, command, choice, status, old, message, wpPin,
                   marked, wanted>>

\* It is anything else.
AbortLock ==
    /\ pc = "prompt"
    /\ BackToMenu
    /\ UNCHANGED <<chipVars, hasty, command, message, wpPin, marked, wanted,
                   confirmed>>

\* Behind each stage that sends WREN.
AfterWREN == [wren |-> "wrsr", dropWREN |-> "dropWRSR", restoreWREN |-> "restoreWRSR"]

SendWREN ==
    /\ pc \in DOMAIN AfterWREN
    /\ WriteEnable
    /\ pc' = AfterWREN[pc]
    /\ UNCHANGED <<hasty, command, choice, status, old, message, wpPin, marked,
                   wanted, confirmed>>

SendWRSR ==
    /\ pc = "wrsr"
    /\ WriteStatus(Request(status))
    /\ pc' = "verify1"
    /\ wanted' = IF command \in {"b", "c"} /\ busy' # busy
                 THEN IF command = "c" THEN 1 ELSE choice
                 ELSE wanted
    /\ UNCHANGED <<hasty, command, choice, status, old, message, wpPin, marked,
                   confirmed>>

VerifySR1 ==
    /\ pc = "verify1"
    /\ pc' = "verify2"
    /\ status' = sr \cap SR1Bits
    /\ UNCHANGED <<chipVars, hasty, command, choice, old, message, wpPin, marked,
                   wanted, confirmed>>

VerifySR2 ==
    /\ pc = "verify2"
    /\ message' = IF Failed(BothRead) THEN "failed" ELSE "success"
    /\ BackToMenu
    /\ UNCHANGED <<chipVars, hasty, command, wpPin, marked, wanted, confirmed>>

-----------------------------------------------------------------------------
(* s: get_hw_protect_state finds out about the pin by taking SRP0 away and *)
(* putting it back.                                                        *)

\* wp_pin is a u8, so that -1 is 255 and equal to no int that is -1.
AsU8_Int(n) == n
AsU8(n) == n % 256

ReadForStatus ==
    /\ pc = "read2" /\ command = "s"
    /\ status' = BothRead
    /\ old' = BothRead
    /\ pc' = IF BothRead \cap SRPBits = {"SRP0"} THEN "dropWREN" ELSE "show1"
    /\ UNCHANGED <<chipVars, hasty, command, choice, message, wpPin, marked,
                   wanted, confirmed>>

DropSRP0 ==
    /\ pc = "dropWRSR"
    /\ WriteStatus(status \ {"SRP0"})
    /\ pc' = "dropRead"
    /\ UNCHANGED <<hasty, command, choice, status, old, message, wpPin, marked,
                   wanted, confirmed>>

\* What RDSR1 gives, beside SR2 as it was read before.
Reread == (sr \cap SR1Bits) \cup (status \cap SR2Bits)

\* Slip: the read-back is not looked at.
CheckDropped_Blind ==
    /\ pc = "dropRead"
    /\ status' = Reread
    /\ pc' = "restoreWREN"
    /\ UNCHANGED <<chipVars, wpPin, hasty, command, choice, old, message, marked, wanted,
                   confirmed>>

CheckDropped ==
    /\ pc = "dropRead"
    /\ status' = Reread
    /\ IF "SRP0" \in Reread THEN pc' = "show1" /\ wpPin' = 0
                            ELSE pc' = "restoreWREN" /\ UNCHANGED wpPin
    /\ UNCHANGED <<chipVars, hasty, command, choice, old, message, marked, wanted,
                   confirmed>>

\* Slip: only SRP0 is written back.
RestoreSRP0_Alone ==
    /\ pc = "restoreWRSR"
    /\ WriteStatus({"SRP0"})
    /\ pc' = "restoreRead"
    /\ UNCHANGED <<hasty, command, choice, status, old, message, wpPin, marked,
                   wanted, confirmed>>

RestoreSRP0 ==
    /\ pc = "restoreWRSR"
    /\ WriteStatus(status \cup {"SRP0"})
    /\ pc' = "restoreRead"
    /\ UNCHANGED <<hasty, command, choice, status, old, message, wpPin, marked,
                   wanted, confirmed>>

CheckRestored ==
    /\ pc = "restoreRead"
    /\ status' = Reread
    /\ pc' = "show1"
    /\ wpPin' = AsU8(IF "SRP0" \in Reread THEN 1 ELSE -1)
    /\ UNCHANGED <<chipVars, hasty, command, choice, old, message, marked, wanted,
                   confirmed>>

ShowSR1 ==
    /\ pc = "show1"
    /\ pc' = "show2"
    /\ status' = sr \cap SR1Bits
    /\ UNCHANGED <<chipVars, hasty, command, choice, old, message, wpPin, marked,
                   wanted, confirmed>>

\* The five modes are printed from BothRead and wpPin.
ShowLock ==
    /\ pc = "show2"
    /\ pc' = "menu"
    /\ status' = {}
    /\ UNCHANGED <<chipVars, hasty, command, choice, old, message, wpPin, marked,
                   wanted, confirmed>>

-----------------------------------------------------------------------------
ChipFinishes == CycleEnds /\ UNCHANGED menuVars

\* The jumper stays where it is while a command runs.
MoveJumper ==
    /\ pc \in {"menu", "prompt"}
    /\ wpLow' = ~wpLow
    /\ UNCHANGED <<mem, sr, wel, busy, menuVars>>

\* The board comes up again and the menu is opened anew.
LosePower ==
    /\ PowerCycle
    /\ pc' = "menu"
    /\ command' = "none"
    /\ choice' = 0
    /\ status' = {} /\ old' = {}
    /\ message' = "none"
    /\ wpPin' = 1
    /\ marked' = {}
    /\ wanted' = 0
    /\ UNCHANGED <<hasty, confirmed>>

Next ==
    \/ \E k \in {"p", "r", "c", "s"} : TakeKey(k, 0)
    \/ \E n \in IF hasty THEN HastyChoices ELSE Choices : TakeKey("b", n)
    \/ \E n \in 1..5 : TakeKey("l", n)
    \/ ReadSR1 \/ ShowRanges \/ ReadForWrite \/ ConfirmLock \/ AbortLock
    \/ SendWREN \/ SendWRSR \/ VerifySR1 \/ VerifySR2
    \/ ReadForStatus \/ DropSRP0 \/ CheckDropped \/ RestoreSRP0 \/ CheckRestored
    \/ ShowSR1 \/ ShowLock
    \/ ChipFinishes \/ MoveJumper \/ LosePower

Spec == Init /\ [][Next]_vars

-----------------------------------------------------------------------------
(* Properties                                                              *)

Stages == {"menu", "read1", "read2", "prompt", "wren", "wrsr", "verify1", "verify2",
           "dropWREN", "dropWRSR", "dropRead", "restoreWREN", "restoreWRSR",
           "restoreRead", "show1", "show2"}

\* The chip and the variables of a command keep their types; the pin state is
\* kept in eight bits.
TypeOK ==
    /\ ChipTypeOK
    /\ hasty \in BOOLEAN
    /\ pc \in Stages
    /\ command \in {"none", "p", "r", "b", "c", "s", "l"}
    /\ choice \in 0..44
    /\ status \in StatusRegister
    /\ old \in StatusRegister
    /\ message \in {"none", "success", "failed"}
    /\ wpPin \in 0..255
    /\ marked \subseteq 1..44
    /\ wanted \in 0..44
    /\ confirmed \in BOOLEAN

\* Sectors on both sides of every end a range can have.
Edges ==
    LET spans == {2^n : n \in 0..3} \cup {(FlashSectors * 2^n) \div 64 : n \in 0..5}
    IN  {0, FlashSectors - 1}
        \cup UNION {{n - 1, n, FlashSectors - n - 1, FlashSectors - n} : n \in spans}

ProtectsAsPrinted(r, row) == \A s \in Edges : Protected(r, s) = Printed(row, s)

\* Once the chip has taken a range, through whatever locks, jumper moves and
\* status queries came between, it protects what the row's text says.  Rows
\* 14 and 36 have a wrong entry in bp_lookup, row 26 has a wrong text.
RangeIsAsPrinted ==
    ~hasty /\ ~WIP /\ wanted \notin {0, 14, 26, 36} => ProtectsAsPrinted(sr, wanted)

\* A row that p or r marks as enabled names the range the chip protects
\* (row 10 is also marked for the next two ranges, row 26 has a wrong text).
MarksAreTrue ==
    [][ShowRanges /\ ~hasty =>
         \A row \in marked' \ {10, 26} : ProtectsAsPrinted(sr, row)]_vars

\* "success" of b and l is true: the registers hold what was asked for.
SuccessIsReal ==
    [][VerifySR2 /\ ~hasty /\ command # "c" /\ message' = "success" =>
         sr = Request(old)]_vars

\* Looking at the lock status never changes the protected range, even with a
\* power failure between taking SRP0 away and putting it back.
StatusKeepsRange ==
    [][~hasty /\ command = "s" => sr' \ SRPBits = sr \ SRPBits]_vars

\* "Hardware Unprotected mode" (wp_pin 1 with SRP0 and not SRP1) is only
\* printed where the pin is high.
HighPinIsHigh ==
    [][ShowLock /\ ~hasty /\ BothRead \cap SRPBits = {"SRP0"} /\ wpPin = 1 => ~wpLow]_vars

\* The registers are never locked for good unless the user has said y, even
\* when commands read registers that are half written.
PermanentLockConfirmed == SRPBits \subseteq sr => confirmed

\* README: `s` "shows the current status register protection".  Behind it the
\* registers are as before.
StatusKeepsLock ==
    pc = "menu" /\ command = "s" /\ ~hasty /\ ~WIP => sr = old
=============================================================================

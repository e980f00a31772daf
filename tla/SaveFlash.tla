----------------------------- MODULE SaveFlash ------------------------------
(***************************************************************************)
(* Saving the setup: the `s` key of main (src/sortbootorder.c), save_flash *)
(* (src/utils/flash_access.c), the erase and poll helpers of               *)
(* src/spi/spi_flash.c and the Winbond, Adesto and Macronix drivers, one   *)
(* action per SPI command, beside a chip that finishes its self-timed      *)
(* cycles on its own and a supply that may fail at any moment.             *)
(*                                                                         *)
(* A transfer itself cannot fail here: spi_xfer only refuses more than 71  *)
(* bytes out or 68 in (src/spi/spi.c:90-107) and a save sends at most 8.   *)
(* What fails is waiting for the chip.                                     *)
(***************************************************************************)
EXTENDS SpiNor

CONSTANTS
    Target,          \* flash_address, as a sector number
    ListBytes,       \* version -> length of cbfs_formatted_list with its NUL
    MaxSaves,        \* bound: saves begun
    MaxPowerLosses,  \* bound: power failures
    MaxPolls,        \* bound: status reads after the first (timeout * 500)
    Drivers,         \* drivers the probe may have selected
    InitialSR        \* status registers the first session may find

ASSUME SaveAssumption ==
    /\ Target \in Window /\ Target < FlashSectors
    /\ MaxSaves \in Nat /\ MaxPowerLosses \in Nat /\ MaxPolls \in Nat
    /\ Drivers \subseteq {"winbond", "adesto", "macronix"}
    /\ InitialSR \subseteq StatusRegister
    /\ ListBytes \in [0..MaxSaves -> Nat]

\* The list fits its sector with the filler word that save_flash adds.
\* save_flash does not check this: 64 rows of 64 characters would not fit.
ASSUME FitAssumption ==
    \A v \in 0..MaxSaves : ListBytes[v] > 0 /\ ListBytes[v] \div 4 < SectorWords

VARIABLES
    driver,      \* the driver behind flash_device
    pc,          \* where the program is
    lockArg,     \* argument of set_lock_flags
    status,      \* the status bytes set_lock_flags has read
    pos,         \* nvram_pos / 4
    polls,       \* what is left of timebase in spi_flash_cmd_poll_bit
    toggle,      \* spi_wp_toggle
    version,     \* number of the list being saved, or saved last
    outcome,     \* what the last save printed
    touched,     \* history: an erase has been sent to the chip in this save
    powerLosses

progVars == <<driver, pc, lockArg, status, pos, polls, toggle, version, outcome,
              touched, powerLosses>>
\* What none of the program's steps but power failures changes.
settled == <<driver, powerLosses>>
vars == <<chipVars, progVars>>

FlagsStages == {"flagsRDSR1", "flagsRDSR2", "flagsWREN", "flagsWRSR",
                "flagsWait", "flagsWRDI", "flagsWaitWRDI"}
WriteStages == {"writeWREN", "writePP", "writePoll"}
EraseStages == {"eraseWREN", "eraseSE", "erasePoll"}
SaveStages  == {"lockedAtEntry", "lockedAfterUnlock", "lockedAtEnd"}
               \cup FlagsStages \cup EraseStages \cup WriteStages
Stages == SaveStages \cup {"boot", "menu", "returned"}

-----------------------------------------------------------------------------
(* The image of a version.                                                 *)

\* Slips of the word count: the last call forgotten, the loop run up to and
\* including the filler.
LastWord_NoFiller(v)  == (ListBytes[v] \div 4) - 1
LastWord_Inclusive(v) == (ListBytes[v] \div 4) + 1

\* The loop writes i & 0xFFFC bytes, then sizeof(i % 4) = 4 more.
LastWord(v) == ListBytes[v] \div 4

\* Word w of cbfs_formatted_list.  Behind a list of 4n bytes the last word is
\* all uninitialised stack; otherwise it still holds the NUL.
ImageWord(v, w) == IF 4 * w < ListBytes[v] THEN <<v, w>> ELSE Junk

\* The words that hold the text and its NUL: what a reader of the file uses.
TextWords(v) == {w \in Word : 4 * w < ListBytes[v]}

Stored(v) == \A w \in TextWords(v) : mem[Target][w] = <<v, w>>

\* The address written: nothing keeps pos inside the sector.
SectorAt(p) == Target + p \div SectorWords
WordAt(p)   == p % SectorWords

\* REG_W25_SRP0 and all of BP2..BP0: what is_locked looks for and
\* set_lock_flags sets or clears.
LockMask == {"SRP0", "BP2", "BP1", "BP0"}

IsLocked(r) == LockMask \subseteq r

\* Slip: SRP0 left out of the mask.
Flagged_NoSRP0(r, lock) ==
    (IF lock THEN r \cup (LockMask \ {"SRP0"}) ELSE r \ (LockMask \ {"SRP0"}))
    \ {"SEC", "TB", "SRP1", "CMP"}

\* What set_lock_flags makes of the bytes it has read.
Flagged(r, lock) ==
    (IF lock THEN r \cup LockMask ELSE r \ LockMask)
    \ {"SEC", "TB", "SRP1", "CMP"}

-----------------------------------------------------------------------------
Init ==
    /\ mem = [s \in Window |-> IF s = Target
                 THEN [w \in Word |-> IF w <= LastWord(0) THEN ImageWord(0, w)
                                                          ELSE Erased]
                 ELSE [w \in Word |-> <<0, w>>]]
    /\ sr \in InitialSR
    /\ wel = FALSE
    /\ busy = Idle
    /\ wpLow \in BOOLEAN
    /\ driver \in Drivers
    /\ pc = "boot"
    /\ lockArg = FALSE
    /\ status = {}
    /\ pos = 0
    /\ polls = 0
    /\ toggle = FALSE
    /\ version = 0
    /\ outcome = "idle"
    /\ touched = FALSE
    /\ powerLosses = 0

\* main starts and reads the lock state into spi_wp_toggle.  The firmware
\* that starts it is fetched from the same chip, which answers only when idle.
Boot ==
    /\ pc = "boot"
    /\ ~WIP
    /\ pc' = "menu"
    /\ toggle' = IsLocked(sr)
    /\ outcome' = "idle"
    /\ UNCHANGED <<chipVars, lockArg, status, pos, polls, version, touched,
                   settled>>

\* Key w.
ToggleWriteProtect ==
    /\ pc = "menu"
    /\ toggle' = ~toggle
    /\ UNCHANGED <<chipVars, pc, lockArg, status, pos, polls, version, outcome,
                   touched, settled>>

\* Key x.
ExitWithoutSave ==
    /\ pc = "menu"
    /\ pc' = "boot"
    /\ UNCHANGED <<chipVars, lockArg, status, pos, polls, toggle, version,
                   outcome, touched, settled>>

\* Key s: update_tags has produced a new list, save_flash packs it.
BeginSave ==
    /\ pc = "menu"
    /\ version < MaxSaves
    /\ version' = version + 1
    /\ outcome' = "saving"
    /\ touched' = FALSE
    /\ pos' = 0
    /\ pc' = "lockedAtEntry"
    /\ UNCHANGED <<chipVars, lockArg, status, polls, toggle, settled>>

\* save_flash returns to main, which resets the board whatever happened.
ResetAfterSave ==
    /\ pc = "returned"
    /\ pc' = "boot"
    /\ UNCHANGED <<chipVars, lockArg, status, pos, polls, toggle, version,
                   outcome, touched, settled>>

-----------------------------------------------------------------------------
(* save_flash: the three reads of the lock state.                          *)

\* Slip: unlocked whatever is_locked says.
CheckLockedAtEntry_Always ==
    /\ pc = "lockedAtEntry"
    /\ pc' = "flagsRDSR1"
    /\ lockArg' = FALSE
    /\ UNCHANGED <<chipVars, status, pos, polls, toggle, version, outcome,
                   touched, settled>>

CheckLockedAtEntry ==
    /\ pc = "lockedAtEntry"
    /\ pc' = IF IsLocked(sr) THEN "flagsRDSR1" ELSE "eraseWREN"
    /\ lockArg' = FALSE
    /\ UNCHANGED <<chipVars, status, pos, polls, toggle, version, outcome,
                   touched, settled>>

\* Slip: the lock is not read back after unlocking.
CheckLockedAfterUnlock_Trusting ==
    /\ pc = "lockedAfterUnlock"
    /\ pc' = "eraseWREN"
    /\ UNCHANGED <<chipVars, lockArg, status, pos, polls, toggle, version,
                   outcome, touched, settled>>

CheckLockedAfterUnlock ==
    /\ pc = "lockedAfterUnlock"
    /\ IF IsLocked(sr) THEN pc' = "returned" /\ outcome' = "refused"
                       ELSE pc' = "eraseWREN" /\ UNCHANGED outcome
    /\ UNCHANGED <<chipVars, lockArg, status, pos, polls, toggle, version,
                   touched, settled>>

\* The result goes into the by-value parameter and is lost.
CheckLockedAtEnd ==
    /\ pc = "lockedAtEnd"
    /\ pc' = "returned"
    /\ outcome' = "saved"
    /\ UNCHANGED <<chipVars, lockArg, status, pos, polls, toggle, version,
                   touched, settled>>

-----------------------------------------------------------------------------
(* set_lock_flags, called with lockArg FALSE before the erase and TRUE     *)
(* after the last write.                                                   *)

AfterFlags == IF lockArg THEN "lockedAtEnd" ELSE "lockedAfterUnlock"

\* A Macronix part has one status register.
FlagsReadSR1 ==
    /\ pc = "flagsRDSR1"
    /\ IF driver = "macronix"
       THEN pc' = "flagsWREN" /\ status' = Flagged(sr \cap SR1Bits, lockArg)
       ELSE pc' = "flagsRDSR2" /\ status' = sr \cap SR1Bits
    /\ UNCHANGED <<chipVars, lockArg, pos, polls, toggle, version, outcome,
                   touched, settled>>

FlagsReadSR2 ==
    /\ pc = "flagsRDSR2"
    /\ pc' = "flagsWREN"
    /\ status' = Flagged(status \cup (sr \cap SR2Bits), lockArg)
    /\ UNCHANGED <<chipVars, lockArg, pos, polls, toggle, version, outcome,
                   touched, settled>>

FlagsWriteEnable ==
    /\ pc = "flagsWREN"
    /\ WriteEnable
    /\ pc' = "flagsWRSR"
    /\ UNCHANGED <<lockArg, status, pos, polls, toggle, version, outcome,
                   touched, settled>>

\* The Winbond and Adesto drivers return with the cycle still running.
FlagsWriteStatus ==
    /\ pc = "flagsWRSR"
    /\ WriteStatus(status)
    /\ pc' = IF driver = "macronix" THEN "flagsWait" ELSE AfterFlags
    /\ polls' = MaxPolls
    /\ UNCHANGED <<lockArg, status, pos, toggle, version, outcome, touched,
                   settled>>

\* Slip: while (timebase-- >= 0).
Poll_OffByOne(ready, timedOut) ==
    /\ \/ WIP /\ polls >= 0 /\ polls' = polls - 1 /\ UNCHANGED <<pc, outcome>>
       \/ WIP /\ polls < 0 /\ timedOut /\ UNCHANGED polls
       \/ ~WIP /\ ready /\ UNCHANGED polls
    /\ UNCHANGED <<chipVars, status, toggle, version, touched, settled>>

\* spi_flash_cmd_poll_bit: one more status read, or the result.
Poll(ready, timedOut) ==
    /\ \/ WIP /\ polls > 0 /\ polls' = polls - 1 /\ UNCHANGED <<pc, outcome>>
       \/ WIP /\ polls = 0 /\ timedOut /\ UNCHANGED polls
       \/ ~WIP /\ ready /\ UNCHANGED polls
    /\ UNCHANGED <<chipVars, status, toggle, version, touched, settled>>

\* The Macronix driver ignores what its first wait returns ...
FlagsWait ==
    /\ pc = "flagsWait"
    /\ LET next == pc' = "flagsWRDI" /\ UNCHANGED outcome IN Poll(next, next)
    /\ UNCHANGED <<pos, lockArg>>

FlagsWriteDisable ==
    /\ pc = "flagsWRDI"
    /\ WriteDisable
    /\ pc' = "flagsWaitWRDI"
    /\ polls' = MaxPolls
    /\ UNCHANGED <<lockArg, status, pos, toggle, version, outcome, touched,
                   settled>>

\* ... and its callers ignore what the second one returns.
FlagsWaitWRDI ==
    /\ pc = "flagsWaitWRDI"
    /\ LET next == pc' = AfterFlags /\ UNCHANGED outcome IN Poll(next, next)
    /\ UNCHANGED <<pos, lockArg>>

-----------------------------------------------------------------------------
(* spi_flash_erase of one 4 KiB sector.                                    *)

\* Slip: no WREN before the erase.
EraseWriteEnable_Missing ==
    /\ pc = "eraseWREN"
    /\ pc' = "eraseSE"
    /\ UNCHANGED <<chipVars, lockArg, status, pos, polls, toggle, version,
                   outcome, touched, settled>>

EraseWriteEnable ==
    /\ pc = "eraseWREN"
    /\ WriteEnable
    /\ pc' = "eraseSE"
    /\ UNCHANGED <<lockArg, status, pos, polls, toggle, version, outcome,
                   touched, settled>>

EraseSector ==
    /\ pc = "eraseSE"
    /\ SectorErase(Target)
    /\ pc' = "erasePoll"
    /\ polls' = MaxPolls
    /\ touched' = TRUE
    /\ UNCHANGED <<lockArg, status, pos, toggle, version, outcome, settled>>

EraseWait ==
    /\ pc = "erasePoll"
    /\ Poll(pc' = "writeWREN" /\ UNCHANGED outcome,
            pc' = "returned" /\ outcome' = "failed")
    /\ UNCHANGED <<pos, lockArg>>

-----------------------------------------------------------------------------
(* The write loop of save_flash and its last call, each word one page      *)
(* program of the driver.                                                  *)

WriteWriteEnable ==
    /\ pc = "writeWREN"
    /\ WriteEnable
    /\ pc' = "writePP"
    /\ UNCHANGED <<lockArg, status, pos, polls, toggle, version, outcome,
                   touched, settled>>

WriteWord ==
    /\ pc = "writePP"
    /\ PageProgram(SectorAt(pos), WordAt(pos), ImageWord(version, pos))
    /\ pc' = "writePoll"
    /\ polls' = MaxPolls
    /\ UNCHANGED <<lockArg, status, pos, toggle, version, outcome, touched,
                   settled>>

\* Behind the last word the lock is set again when the toggle says so.
AfterWrite ==
    /\ pc' = IF pos < LastWord(version) THEN "writeWREN"
             ELSE IF toggle THEN "flagsRDSR1" ELSE "lockedAtEnd"
    /\ UNCHANGED outcome

\* Slip: the result of a word's write is not looked at.
WriteWait_Unchecked ==
    /\ pc = "writePoll"
    /\ Poll(AfterWrite, AfterWrite)
    /\ pos' = IF (~WIP \/ polls = 0) /\ pos < LastWord(version)
              THEN pos + 1 ELSE pos
    /\ lockArg' = (lockArg \/ pc' = "flagsRDSR1")

\* Slip: the position is not advanced.
WriteWait_Stuck ==
    /\ pc = "writePoll"
    /\ Poll(AfterWrite, pc' = "returned" /\ outcome' = "failed")
    /\ lockArg' = (lockArg \/ pc' = "flagsRDSR1")
    /\ UNCHANGED pos

WriteWait ==
    /\ pc = "writePoll"
    /\ Poll(AfterWrite, pc' = "returned" /\ outcome' = "failed")
    /\ pos' = IF ~WIP /\ pos < LastWord(version) THEN pos + 1 ELSE pos
    /\ lockArg' = (lockArg \/ pc' = "flagsRDSR1")

-----------------------------------------------------------------------------
(* The chip and the power supply.                                          *)

ChipFinishes == CycleEnds /\ UNCHANGED progVars

\* The BIOS WP jumper is set or removed while the board runs.
MoveJumper == wpLow' = ~wpLow /\ UNCHANGED <<mem, sr, wel, busy, progVars>>

LosePower ==
    /\ powerLosses < MaxPowerLosses
    /\ powerLosses' = powerLosses + 1
    /\ PowerCycle
    /\ pc' = "boot"
    /\ outcome' = "idle"
    /\ UNCHANGED <<driver, lockArg, status, pos, polls, toggle, version, touched>>

-----------------------------------------------------------------------------
UserStep == ToggleWriteProtect \/ ExitWithoutSave \/ BeginSave

LockStep == \/ CheckLockedAtEntry \/ CheckLockedAfterUnlock \/ CheckLockedAtEnd
            \/ FlagsReadSR1 \/ FlagsReadSR2 \/ FlagsWriteEnable
            \/ FlagsWriteStatus \/ FlagsWait \/ FlagsWriteDisable
            \/ FlagsWaitWRDI

ArrayStep == \/ EraseWriteEnable \/ EraseSector \/ EraseWait
             \/ WriteWriteEnable \/ WriteWord \/ WriteWait

SaveStep == LockStep \/ ArrayStep

Next == \/ Boot \/ UserStep \/ SaveStep \/ ResetAfterSave
        \/ ChipFinishes \/ MoveJumper \/ LosePower

Spec == Init /\ [][Next]_vars

\* The program is sequential and nothing blocks it; a chip ends its cycles.
FairSpec == Spec /\ WF_vars(SaveStep) /\ WF_vars(ChipFinishes)

-----------------------------------------------------------------------------
(* Properties                                                              *)

\* The chip and the variables of a save keep their ranges; in particular the
\* countdown of spi_flash_cmd_poll_bit never runs below zero.
TypeOK ==
    /\ ChipTypeOK
    /\ driver \in Drivers
    /\ pc \in Stages
    /\ lockArg \in BOOLEAN
    /\ status \in StatusRegister
    /\ pos \in Nat
    /\ polls \in 0..MaxPolls
    /\ toggle \in BOOLEAN
    /\ version \in 0..MaxSaves
    /\ outcome \in {"idle", "saving", "saved", "refused", "failed"}
    /\ touched \in BOOLEAN
    /\ powerLosses \in 0..MaxPowerLosses

\* A save that prints "Done" has the whole new list in flash.
SavedIsStored == pc = "returned" /\ outcome = "saved" => Stored(version)

\* The lock bits are set once the write of the registers, if any, is over.
LockedSoon == IF busy.op = "wrsr" THEN IsLocked(busy.reg) ELSE IsLocked(sr)

\* After such a save the lock is what the menu's write protect toggle says;
\* a lock may still be on its way into the status register.
LockFollowsToggle ==
    pc = "returned" /\ outcome = "saved" =>
        IF toggle THEN LockedSoon ELSE ~IsLocked(sr) /\ ~WIP

\* The words of a new list appear in order.  Whenever the write is cut short,
\* by a power failure or by a slow chip, what is there is a beginning of it.
WrittenInOrder ==
    \A w \in TextWords(version), u \in Word :
        mem[Target][w] = <<version, w>> /\ u < w
            => mem[Target][u] = <<version, u>>

\* No step of a save programs a word twice with different content; only a
\* power failure in the middle of a cycle damages a word.
OnlyPowerLossDamages ==
    [][\A s \in Window, w \in Word :
          mem'[s][w] = Damaged => mem[s][w] = Damaged
                                  \/ powerLosses' # powerLosses]_vars

\* Saving leaves every sector but the one of the bootorder file alone.
NeighboursUntouched ==
    [][\A s \in Window \ {Target} : mem'[s] = mem[s]]_vars

\* While the file is being rewritten its sector is not write protected: the
\* chip would drop the commands and every wait would still succeed.
RewriteUnprotected ==
    pc \in EraseStages \cup WriteStages => ~Protected(sr, Target)

\* Every save returns to main, whose reset starts the board again.
SaveReturns == pc = "lockedAtEntry" ~> pc \in {"returned", "boot"}

\* A lock that was asked for gets into the status register, unless power fails
\* first.
LockSettles ==
    \A n \in 0..MaxPowerLosses :
        pc = "returned" /\ outcome = "saved" /\ toggle /\ powerLosses = n
            ~> IsLocked(sr) \/ powerLosses # n

\* The file the boot firmware will read.
StoredFile ==
    IF \E v \in 0..MaxSaves : Stored(v)
    THEN CHOOSE v \in 0..MaxSaves : Stored(v)
    ELSE -1

\* The whole component implements what a save promises about the file.
File == INSTANCE BootFile WITH
            Versions <- 0..MaxSaves, file <- StoredFile, target <- version,
            result <- outcome, touched <- touched
ImplementsBootFile == File!FileSpec
=============================================================================

------------------------------- MODULE SecReg -------------------------------
(***************************************************************************)
(* The security registers menu of src/utils/sec_reg_menu.c (key Z of the   *)
(* main menu) with the security register functions of the Winbond driver,  *)
(* one action per SPI command, beside the chip of SpiNor.  The Macronix    *)
(* driver has stubs for all but the erase, the Adesto driver has nothing:  *)
(* what a call through a pointer that was never set does is not modelled,  *)
(* the program is lost.                                                    *)
(***************************************************************************)
EXTENDS SpiNor

CONSTANTS
    Serials,    \* bound: what may be typed behind w, as <<text, length>>
    Numbers,    \* bound: what may be typed behind l
    MaxPolls,   \* bound: status reads after the first (timeout * 500)
    Drivers,    \* drivers the probe may have selected
    InitialSR,  \* status registers the menu may find
    QE          \* bit 1 of status register 2, which nothing here writes

ASSUME SecRegAssumption ==
    /\ SecurityRegister(1) \in Window
    /\ Serials \subseteq (Nat \ {0}) \X Nat
    /\ Numbers \subseteq Nat
    /\ MaxPolls \in Nat
    /\ Drivers \subseteq {"winbond", "adesto", "macronix"}
    /\ InitialSR \subseteq StatusRegister
    /\ QE \in BOOLEAN

VARIABLES
    hasty,      \* the next command may come while the chip is busy
    driver,     \* the driver behind flash_device
    pc,         \* where the menu is
    command,    \* its key
    serial,     \* buf of cmd_write_serial
    typed,      \* history: what was typed behind w
    reg,        \* reg of cmd_lock_sec
    status,     \* status of winbond_sec_lock
    polls,      \* what is left of timebase in spi_flash_cmd_poll_bit
    message,    \* what the last command printed
    shown,      \* the serial number r printed
    lockedShown,\* the registers s printed as locked
    found,      \* history: the lock bits at the start
    confirmed   \* history: the registers whose lock was answered with yes

start == <<hasty, driver, found>>
history == <<start, typed>>
menuVars == <<history, pc, command, serial, reg, status, polls, message, shown,
              lockedShown, confirmed>>
vars == <<chipVars, menuVars>>

Register == SecurityRegister(1)   \* SERIAL_REG_NO
NoSerial == <<0, 0>>

\* The nine characters strncpy copies into ten bytes of zeros.
Buf(t) == <<t[1], IF t[2] < 9 THEN t[2] ELSE 9>>

Commands == {"r", "w", "e", "s", "l"}

-----------------------------------------------------------------------------
Init ==
    /\ mem \in {m \in [Window -> [Word -> {Erased, <<0, 1>>}]] :
                   \A s \in Window \ {Register} : m[s] = [w \in Word |-> <<0, 1>>]}
    /\ sr \in InitialSR
    /\ wel = FALSE
    /\ busy = Idle
    /\ wpLow \in BOOLEAN
    /\ hasty \in BOOLEAN
    /\ driver \in Drivers
    /\ pc = "menu"
    /\ command = "none"
    /\ serial = NoSerial
    /\ typed = NoSerial
    /\ reg = 0
    /\ status = {}
    /\ polls = 0
    /\ message = "none"
    /\ shown = Erased
    /\ lockedShown = {}
    /\ found = sr \cap LBBits
    /\ confirmed = {}

\* Slip: w programs without erasing.
Entry_NoErase(k) ==
    CASE driver = "winbond"  -> [r |-> "read", w |-> "progWREN", e |-> "eraseWREN",
                                 s |-> "status", l |-> "lockRDSR1"][k]
      [] driver = "macronix" -> IF k = "e" THEN "lost" ELSE "stub"
      [] driver = "adesto"   -> "lost"

\* Where the operations of the driver begin; a stub is done at once.
Entry(k) ==
    CASE driver = "winbond"  -> [r |-> "read", w |-> "eraseWREN", e |-> "eraseWREN",
                                 s |-> "status", l |-> "lockRDSR1"][k]
      [] driver = "macronix" -> IF k = "e" THEN "lost" ELSE "stub"
      [] driver = "adesto"   -> "lost"

\* A command line, with t behind w and no serial number behind another key.
\* It is emptied afterwards, and what was printed scrolls away.
TakeLine(k, t) ==
    /\ pc = "menu"
    /\ hasty \/ ~WIP
    /\ command' = k
    /\ typed' = t
    /\ serial' = Buf(t)
    /\ message' = "none"
    /\ shown' = Erased
    /\ lockedShown' = {}
    /\ UNCHANGED <<chipVars, status, polls, start>>

\* r, e and s
TakeKey(k) ==
    /\ TakeLine(k, NoSerial)
    /\ pc' = Entry(k)
    /\ reg' = 0
    /\ UNCHANGED confirmed

TakeSerial(t) ==
    /\ TakeLine("w", t)
    /\ pc' = Entry("w")
    /\ reg' = 0
    /\ UNCHANGED confirmed

\* l: reg is a u8.  Only a yes goes on.
TakeNumber(n) ==
    /\ TakeLine("l", NoSerial)
    /\ reg' = n % 256
    /\ \/ /\ reg' \in 1..3
          /\ confirmed' = confirmed \cup {reg'}
          /\ pc' = Entry("l")
       \/ pc' = "menu" /\ UNCHANGED confirmed

Say(m) == pc' = "menu" /\ message' = m

\* macronix_sec_read, _program, _sts and _lock do nothing and return 0; the
\* buffer of r stays empty.
Stub ==
    /\ pc = "stub"
    /\ Say([r |-> "serial", w |-> "written", s |-> "status", l |-> "locked"][command])
    /\ shown' = IF command = "r" THEN NoSerial ELSE Erased
    /\ UNCHANGED <<chipVars, command, serial, reg, status, polls, lockedShown,
                   history, confirmed>>

-----------------------------------------------------------------------------
(* winbond_sec_read and winbond_sec_sts: neither waits for the chip.       *)

\* A busy chip does not answer: r prints what the bus carried.
ReadSerial ==
    /\ pc = "read"
    /\ shown' \in IF WIP THEN {Erased, Damaged} ELSE {mem[Register][0]}
    /\ Say("serial")
    /\ UNCHANGED <<chipVars, command, serial, reg, status, polls, lockedShown,
                   history, confirmed>>

\* REG_W25_LB1..3 are bits 3 to 5 of the register and are shifted to bits 0 to
\* 2 before they are used as a mask of it: SRP1, QE and a reserved bit, 0.
ReadStatus ==
    /\ pc = "status"
    /\ lockedShown' = (IF "SRP1" \in sr THEN {1} ELSE {}) \cup (IF QE THEN {2} ELSE {})
    /\ Say("status")
    /\ UNCHANGED <<chipVars, command, serial, reg, status, polls, shown, history,
                   confirmed>>

-----------------------------------------------------------------------------
(* winbond_sec_erase, and winbond_sec_program, which begins with it.       *)

Failure == [e |-> "erase failed", w |-> "write failed"]

\* Behind each stage that sends WREN.
AfterWREN == [eraseWREN |-> "erase", progWREN |-> "prog", lockWREN |-> "lockWRSR"]

SendWREN ==
    /\ pc \in DOMAIN AfterWREN
    /\ WriteEnable
    /\ pc' = AfterWREN[pc]
    /\ UNCHANGED <<command, serial, reg, status, polls, message, shown, lockedShown,
                   history, confirmed>>

SendErase ==
    /\ pc = "erase"
    /\ SecErase(1)
    /\ pc' = "erasePoll"
    /\ polls' = MaxPolls
    /\ UNCHANGED <<command, serial, reg, status, message, shown, lockedShown, history,
                   confirmed>>

SendProgram ==
    /\ pc = "prog"
    /\ SecProgram(1, serial)
    /\ pc' = "progPoll"
    /\ polls' = MaxPolls
    /\ UNCHANGED <<command, serial, reg, status, message, shown, lockedShown, history,
                   confirmed>>

\* Slip: while (timebase-- >= 0).
Poll_OffByOne(ready) ==
    /\ \/ WIP /\ polls >= 0 /\ polls' = polls - 1 /\ UNCHANGED <<pc, message>>
       \/ WIP /\ polls < 0 /\ Say(Failure[command]) /\ UNCHANGED polls
       \/ ~WIP /\ ready /\ UNCHANGED polls
    /\ UNCHANGED <<chipVars, command, serial, reg, status, shown, lockedShown, history,
                   confirmed>>

\* spi_flash_cmd_poll_bit: one more status read, or the result.
Poll(ready) ==
    /\ \/ WIP /\ polls > 0 /\ polls' = polls - 1 /\ UNCHANGED <<pc, message>>
       \/ WIP /\ polls = 0 /\ Say(Failure[command]) /\ UNCHANGED polls
       \/ ~WIP /\ ready /\ UNCHANGED polls
    /\ UNCHANGED <<chipVars, command, serial, reg, status, shown, lockedShown, history,
                   confirmed>>

\* Slip: w goes on behind an erase that timed out.
WaitErase_Unchecked ==
    /\ pc = "erasePoll"
    /\ IF command = "w" /\ WIP /\ polls = 0
       THEN /\ pc' = "progWREN"
            /\ UNCHANGED <<chipVars, command, serial, reg, status, polls, message,
                           shown, lockedShown, history, confirmed>>
       ELSE Poll(IF command = "w" THEN pc' = "progWREN" /\ UNCHANGED message
                                  ELSE Say("erased"))

WaitErase ==
    /\ pc = "erasePoll"
    /\ Poll(IF command = "w" THEN pc' = "progWREN" /\ UNCHANGED message
                             ELSE Say("erased"))

WaitProgram ==
    /\ pc = "progPoll"
    /\ Poll(Say("written"))

-----------------------------------------------------------------------------
(* winbond_sec_lock                                                        *)

LockReadSR1 ==
    /\ pc = "lockRDSR1"
    /\ pc' = "lockRDSR2"
    /\ status' = sr \cap SR1Bits
    /\ UNCHANGED <<chipVars, command, serial, reg, polls, message, shown, lockedShown,
                   history, confirmed>>

\* Slips: the first register left out, the bit of another register.
LockRequest_SR2Only(sr1, sr2) == sr2 \cup {LockBit[reg]}
LockRequest_Next(sr1, sr2) == sr1 \cup sr2 \cup {LockBit[(reg % 3) + 1]}

LockRequest(sr1, sr2) == sr1 \cup sr2 \cup {LockBit[reg]}

\* Slip: no WREN before the register write.
LockReadSR2_NoWREN ==
    /\ pc = "lockRDSR2"
    /\ pc' = "lockWRSR"
    /\ status' = LockRequest(status, sr \cap SR2Bits)
    /\ UNCHANGED <<chipVars, command, serial, reg, polls, message, shown, lockedShown,
                   history, confirmed>>

LockReadSR2 ==
    /\ pc = "lockRDSR2"
    /\ pc' = "lockWREN"
    /\ status' = LockRequest(status, sr \cap SR2Bits)
    /\ UNCHANGED <<chipVars, command, serial, reg, polls, message, shown, lockedShown,
                   history, confirmed>>

\* "Locked!" is printed behind the transfer, with the cycle still running.
SendLock ==
    /\ pc = "lockWRSR"
    /\ WriteStatus(status)
    /\ Say("locked")
    /\ status' = {}
    /\ UNCHANGED <<command, serial, reg, polls, shown, lockedShown, history, confirmed>>

-----------------------------------------------------------------------------
ChipFinishes == CycleEnds /\ UNCHANGED menuVars

\* The jumper is moved between commands.
MoveJumper ==
    /\ pc = "menu"
    /\ wpLow' = ~wpLow
    /\ UNCHANGED <<mem, sr, wel, busy, menuVars>>

\* The board comes up again and the menu is opened anew.
LosePower ==
    /\ PowerCycle
    /\ pc' = "menu"
    /\ command' = "none"
    /\ serial' = NoSerial
    /\ typed' = NoSerial
    /\ reg' = 0
    /\ status' = {}
    /\ polls' = 0
    /\ message' = "none"
    /\ shown' = Erased
    /\ lockedShown' = {}
    /\ UNCHANGED <<start, confirmed>>

MenuStep ==
    \/ Stub \/ ReadSerial \/ ReadStatus
    \/ SendWREN \/ SendErase \/ WaitErase \/ SendProgram \/ WaitProgram
    \/ LockReadSR1 \/ LockReadSR2 \/ SendLock

UserStep ==
    \/ \E k \in {"r", "e", "s"} : TakeKey(k)
    \/ \E t \in Serials : TakeSerial(t)
    \/ \E n \in Numbers : TakeNumber(n)

Next == UserStep \/ MenuStep \/ ChipFinishes \/ MoveJumper \/ LosePower

Spec == Init /\ [][Next]_vars

-----------------------------------------------------------------------------
(* Properties                                                              *)

Stages == {"menu", "stub", "lost", "read", "status", "eraseWREN", "erase",
           "erasePoll", "progWREN", "prog", "progPoll", "lockRDSR1", "lockRDSR2",
           "lockWREN", "lockWRSR"}

\* Chip and menu keep their types.
TypeOK ==
    /\ ChipTypeOK
    /\ hasty \in BOOLEAN
    /\ driver \in Drivers
    /\ pc \in Stages
    /\ command \in Commands \cup {"none"}
    /\ serial \in Content
    /\ typed \in Serials \cup {NoSerial}
    /\ reg \in 0..255
    /\ status \in StatusRegister
    /\ polls \in 0..MaxPolls
    /\ message \in {"none", "serial", "status", "written", "write failed", "erased",
                    "erase failed", "locked"}
    /\ shown \in Content
    /\ lockedShown \subseteq 1..3
    /\ found \subseteq LBBits
    /\ confirmed \subseteq 1..3

\* A security register is only ever locked, for good, when the user has said
\* yes to this register: pasted commands, writes that race the chip and power
\* failures included.
SecLocksConfirmed ==
    \A n \in 1..3 :
        LockBit[n] \in sr \/ (busy.op = "wrsr" /\ LockBit[n] \in busy.reg)
            => LockBit[n] \in found \/ n \in confirmed

\* Locking a security register changes nothing of the protection of the array
\* and of the registers' own lock, which the same two bytes carry.
ProtectionKept ==
    [][sr' \ LBBits \in {sr \ LBBits, AtPowerUp(sr) \ LBBits}]_vars

\* "serial written" means that register 1 holds the serial number that was typed,
\* all of it and nothing of an older one, unless the register is locked or the
\* driver is a stub.  README promises this of ten characters, of longer numbers
\* the first ten; strncpy keeps nine, so the property ends there.
WrittenIsStored ==
    message = "written" /\ ~hasty /\ driver = "winbond" /\ typed[2] < 10 =>
        mem[Register][0] = typed \/ "LB1" \in sr

\* The serial number is only ever damaged by a power failure: w never programs
\* over an old one, even behind an erase that the chip was too slow for.
OnlyPowerLossDamages ==
    [][~hasty /\ ~LosePower /\ mem[Register][0] # Damaged =>
          mem'[Register][0] # Damaged]_vars

\* "Locked!" is true: the lock bit is set or on its way into the register,
\* unless the registers could not be written or the driver is a stub.
LockedIsReal ==
    message = "locked" /\ ~hasty /\ driver = "winbond" =>
        \/ LockBit[reg] \in IF busy.op = "wrsr" THEN busy.reg ELSE sr
        \/ "SRP1" \in sr \/ "SRP0" \in sr

\* README: `s` "gets lock status of the security registers".
StatusIsTrue ==
    message = "status" /\ ~WIP /\ driver = "winbond" =>
        lockedShown = {n \in 1..3 : LockBit[n] \in sr}
=============================================================================

---------------------------- MODULE SecReg_proofs ---------------------------
(***************************************************************************)
(* Theorems about SecReg, for every chip, driver, serial number, register  *)
(* content and bound.                                                      *)
(***************************************************************************)
EXTENDS SecReg, SpiNor_proofs

LockStages == {"lockRDSR1", "lockRDSR2", "lockWREN", "lockWRSR"}

\* Lock bits that were there at the start or were answered with yes.
Justified(r) == \A n \in 1..3 :
    LockBit[n] \in r => LockBit[n] \in found \/ n \in confirmed

\* Wherever lock bits stand or go, they are justified.
LocksKnown ==
    /\ Justified(sr)
    /\ busy.op = "wrsr" => Justified(busy.reg)
    /\ pc \in LockStages => reg \in 1..3 /\ reg \in confirmed
    /\ pc \in {"lockWREN", "lockWRSR"} => Justified(status)

\* Whatever the menu has read or sent, the other bits are those of the chip.
OthersKept ==
    /\ busy.op = "wrsr" => busy.reg \ LBBits = sr \ LBBits
    /\ pc = "lockRDSR2" => status = sr \cap SR1Bits
    /\ pc \in {"lockWREN", "lockWRSR"} => status \ LBBits = sr \ LBBits

\* Which commands get where.
CommandKnown ==
    /\ pc = "stub" => command \in {"r", "w", "s", "l"}
    /\ pc \in {"eraseWREN", "erase", "erasePoll"} => command \in {"e", "w"}
    /\ pc \in {"progWREN", "prog", "progPoll"} => command = "w"

IInv == TypeOK /\ LocksKnown /\ OthersKept /\ CommandKnown

-----------------------------------------------------------------------------
\* The address and the content of security register 1 have their types.
LEMMA RegisterFacts ==
    /\ Register \in Nat
    /\ 0 \in Word
    /\ NoSerial \in Content
<1>1. FlashSectors \in Nat /\ SectorWords \in Nat /\ SectorWords > 0
  BY GeometryAssumption
<1> QED BY <1>1 DEF Register, SecurityRegister, Word, NoSerial, Content

\* What is typed and kept fits the buffer's type.
LEMMA BufTypes == \A t \in Serials \cup {NoSerial} : Buf(t) \in Content
<1> SUFFICES ASSUME NEW t \in Serials \cup {NoSerial} PROVE Buf(t) \in Content OBVIOUS
<1>1. t[1] \in Int /\ t[2] \in Nat BY SecRegAssumption DEF NoSerial
<1> QED BY <1>1 DEF Buf, Content

\* The three lock bits.
LEMMA LockBits3 == \A n \in 1..3 : LockBit[n] \in LBBits
BY DEF LockBit, LBBits

\* Two numbers have two bits.
LEMMA LockBitsDiffer ==
    \A m, n \in 1..3 : LockBit[m] = LockBit[n] => m = n
BY DEF LockBit

\* The inductive invariant holds at the start.
LEMMA InitIInv == Init => IInv
<1> SUFFICES ASSUME Init PROVE IInv OBVIOUS
<1>1. <<0, 1>> \in Content /\ Erased \in Content BY ChipConstants DEF Content
<1>2. mem \in [Window -> [Word -> Content]]
  <2>1. mem \in [Window -> [Word -> {Erased, <<0, 1>>}]] BY DEF Init
  <2>2. \A f \in [Word -> {Erased, <<0, 1>>}] : f \in [Word -> Content] BY <1>1
  <2> QED BY <2>1, <2>2
<1>3. sr \in StatusRegister BY SecRegAssumption DEF Init
<1>4. ChipTypeOK BY <1>2, <1>3, ChipConstants DEF Init, ChipTypeOK
<1>5. hasty \in BOOLEAN BY DEF Init
<1>6. polls \in 0..MaxPolls BY SecRegAssumption DEF Init
<1>7. TypeOK
  BY <1>1, <1>4, <1>5, <1>6, RegisterFacts
     DEF Init, TypeOK, Stages, StatusRegister, Commands
<1>8. busy.op = "idle" BY CycleFields DEF Init
<1>9. Justified(sr) BY LockBits3 DEF Init, Justified
<1> QED BY <1>7, <1>8, <1>9 DEF Init, IInv, LocksKnown, OthersKept, LockStages,
        CommandKnown

-----------------------------------------------------------------------------
(* The steps.                                                              *)

\* Where the commands lead to.
LEMMA EntryStages ==
    ASSUME TypeOK, NEW k \in Commands
    PROVE  /\ Entry(k) \in Stages \ {"lockRDSR2", "lockWREN", "lockWRSR"}
           /\ k # "l" => Entry(k) \notin LockStages
           /\ Entry(k) \notin {"erase", "erasePoll", "progWREN", "prog", "progPoll"}
           /\ Entry(k) = "stub" => k # "e"
           /\ Entry(k) = "eraseWREN" => k \in {"e", "w"}
<1>1. driver \in {"winbond", "adesto", "macronix"}
  BY SecRegAssumption DEF TypeOK
<1> QED BY <1>1 DEF Entry, Stages, LockStages, Commands

\* What the menu keeps has the types it should: the parts, one by one.
LEMMA LineTypes ==
    ASSUME TypeOK,
           UNCHANGED <<mem, sr, wel, busy, wpLow, status, polls, hasty, driver, found>>,
           command' \in Commands, message' = "none", shown' = Erased,
           lockedShown' = {}, pc' \in Stages, serial' \in Content,
           typed' \in Serials \cup {NoSerial},
           reg' \in 0..255, confirmed' \subseteq 1..3
    PROVE  TypeOK'
<1>1. ChipTypeOK'
  <2>1. wel' \in BOOLEAN /\ wpLow' \in BOOLEAN BY DEF TypeOK, ChipTypeOK
  <2>2. mem' \in [Window -> [Word -> Content]] BY DEF TypeOK, ChipTypeOK
  <2>3. sr' \in StatusRegister /\ busy' \in Cycle BY DEF TypeOK, ChipTypeOK
  <2> QED BY <2>1, <2>2, <2>3 DEF ChipTypeOK
<1>2. hasty' \in BOOLEAN BY DEF TypeOK
<1>3. shown' \in Content BY ChipConstants
<1>4. driver' \in Drivers /\ status' \in StatusRegister /\ found' \subseteq LBBits
  BY DEF TypeOK
<1>5. polls' \in 0..MaxPolls BY DEF TypeOK
<1>6. lockedShown' \subseteq 1..3 OBVIOUS
<1>7. message' \in {"none", "serial", "status", "written", "write failed", "erased",
                    "erase failed", "locked"}
  OBVIOUS
<1>8. command' \in Commands \cup {"none"} OBVIOUS
<1> QED BY <1>1, <1>2, <1>3, <1>4, <1>5, <1>6, <1>7, <1>8 DEF TypeOK

\* The answers of the user are register numbers.
LEMMA ConfirmedType == TypeOK => confirmed \subseteq 1..3
BY DEF TypeOK

\* A command line starts nothing at the chip.
LEMMA UserSteps ==
    ASSUME IInv, UserStep
    PROVE  IInv'
<1> USE DEF IInv, chipVars, history, start
<1>1. TypeOK /\ ChipTypeOK BY DEF TypeOK
<1>2. CASE \E k \in {"r", "e", "s"} : TakeKey(k)
  <2>1. PICK k \in {"r", "e", "s"} : TakeKey(k) BY <1>2
  <2>2. k \in Commands /\ k # "l" BY DEF Commands
  <2>3. /\ UNCHANGED <<mem, sr, wel, busy, wpLow, status, polls, hasty, driver,
                       found, confirmed>>
        /\ command' = k /\ message' = "none" /\ shown' = Erased
        /\ lockedShown' = {} /\ pc' = Entry(k) /\ typed' = NoSerial
        /\ serial' = Buf(NoSerial) /\ reg' = 0
    BY <2>1 DEF TakeKey, TakeLine
  <2>4. pc' \in Stages /\ pc' \notin LockStages /\ CommandKnown'
    BY <1>1, <2>2, <2>3, EntryStages DEF CommandKnown, Commands
  <2>5. serial' \in Content BY <2>3, BufTypes
  <2>6. reg' \in 0..255 BY ONLY <2>3, SMT
  <2>7. confirmed' \subseteq 1..3 BY <1>1, <2>3, ConfirmedType
  <2>8. TypeOK' BY <1>1, <2>2, <2>3, <2>4, <2>5, <2>6, <2>7, LineTypes
  <2> QED BY <2>3, <2>4, <2>8 DEF LocksKnown, OthersKept, Justified, LockStages
<1>3. CASE \E t \in Serials : TakeSerial(t)
  <2>1. PICK t \in Serials : TakeSerial(t) BY <1>3
  <2>2. "w" \in Commands BY DEF Commands
  <2>3. /\ UNCHANGED <<mem, sr, wel, busy, wpLow, status, polls, hasty, driver,
                       found, confirmed>>
        /\ command' = "w" /\ message' = "none" /\ shown' = Erased
        /\ lockedShown' = {} /\ pc' = Entry("w") /\ typed' = t
        /\ serial' = Buf(t) /\ reg' = 0
    BY <2>1 DEF TakeSerial, TakeLine
  <2>4. pc' \in Stages /\ pc' \notin LockStages /\ CommandKnown'
    BY <1>1, <2>2, <2>3, EntryStages DEF CommandKnown, Commands
  <2>5. serial' \in Content BY <2>3, BufTypes
  <2>6. reg' \in 0..255 BY ONLY <2>3, SMT
  <2>7. confirmed' \subseteq 1..3 BY <1>1, <2>3, ConfirmedType
  <2>8. TypeOK' BY <1>1, <2>2, <2>3, <2>4, <2>5, <2>6, <2>7, LineTypes
  <2> QED BY <2>3, <2>4, <2>8 DEF LocksKnown, OthersKept, Justified, LockStages
<1>4. CASE \E n \in Numbers : TakeNumber(n)
  <2>1. PICK n \in Numbers : TakeNumber(n) BY <1>4
  <2>2. "l" \in Commands BY DEF Commands
  <2>3. n \in Nat BY SecRegAssumption
  <2>4. n % 256 \in 0..255 BY <2>3, SMT
  <2>5. /\ UNCHANGED <<mem, sr, wel, busy, wpLow, status, polls, hasty, driver, found>>
        /\ command' = "l" /\ message' = "none" /\ shown' = Erased
        /\ lockedShown' = {} /\ typed' = NoSerial /\ serial' = Buf(NoSerial)
        /\ reg' = n % 256
        /\ \/ reg' \in 1..3 /\ confirmed' = confirmed \cup {reg'} /\ pc' = Entry("l")
           \/ pc' = "menu" /\ confirmed' = confirmed
    BY <2>1 DEF TakeNumber, TakeLine
  <2>6. pc' \in Stages \ {"lockRDSR2", "lockWREN", "lockWRSR"} /\ CommandKnown'
    BY <1>1, <2>2, <2>5, EntryStages DEF Stages, CommandKnown
  <2>7. TypeOK'
    <3>1. confirmed' \subseteq 1..3 BY <1>1, <2>5, ConfirmedType
    <3>2. serial' \in Content BY <2>5, BufTypes
    <3> QED BY <1>1, <2>2, <2>4, <2>5, <2>6, <3>1, <3>2, LineTypes
  <2>8. pc' \in LockStages => reg' \in 1..3 /\ reg' \in confirmed'
    BY <2>5 DEF LockStages
  <2>9. confirmed \subseteq confirmed' BY <2>5
  <2> QED BY <2>5, <2>6, <2>7, <2>8, <2>9 DEF LocksKnown, OthersKept, Justified
<1> QED BY <1>2, <1>3, <1>4 DEF UserStep

\* What is printed of a wait that gave up.
LEMMA FailureTexts ==
    Failure["e"] = "erase failed" /\ Failure["w"] = "write failed"
BY DEF Failure

\* The steps of a command but for the register write keep registers and latch
\* bits of the chip apart from what a cycle on register 1 does.
LEMMA MenuTypes ==
    ASSUME IInv, MenuStep
    PROVE  TypeOK'
<1> USE DEF IInv, chipVars, history, start, Say, Stages
<1>1. ChipTypeOK /\ sr \in StatusRegister /\ status \in StatusRegister
  BY DEF TypeOK, ChipTypeOK
<1>2. MaxPolls \in Nat BY SecRegAssumption
<1>3. CASE Stub
  <2>1. shown' \in Content BY <1>3, RegisterFacts, ChipConstants DEF Stub
  <2>2. message' \in {"serial", "written", "status", "locked"}
    BY <1>3 DEF Stub, CommandKnown
  <2> QED BY <1>1, <1>3, <2>1, <2>2 DEF Stub, TypeOK, ChipTypeOK
<1>4. CASE ReadSerial
  <2>1. shown' \in Content
    <3>1. mem[Register][0] \in Content
      BY <1>1, RegisterFacts, SecRegAssumption DEF ChipTypeOK, Register
    <3> QED BY <1>4, <3>1, ChipConstants DEF ReadSerial
  <2> QED BY <1>1, <1>4, <2>1 DEF ReadSerial, TypeOK, ChipTypeOK
<1>5. CASE ReadStatus
  <2>1. lockedShown' \subseteq 1..3 BY <1>5 DEF ReadStatus
  <2> QED BY <1>1, <1>5, <2>1 DEF ReadStatus, TypeOK, ChipTypeOK
<1>6. CASE SendWREN
  <2>1. pc' \in Stages BY <1>6 DEF SendWREN, AfterWREN
  <2>2. ChipTypeOK' BY <1>1, <1>6, LatchTypes DEF SendWREN
  <2> QED BY <1>6, <2>1, <2>2 DEF SendWREN, TypeOK
<1>7. CASE SendErase
  <2>1. EraseCycle(SecurityRegister(1)) \in Cycle
    BY RegisterFacts, CycleTypes DEF Register
  <2>2. ChipTypeOK' BY <1>1, <1>7, <2>1, StartCycleTypes DEF SendErase, SecErase
  <2>3. polls' \in 0..MaxPolls BY <1>2, <1>7 DEF SendErase
  <2> QED BY <1>7, <2>2, <2>3 DEF SendErase, TypeOK
<1>8. CASE SendProgram
  <2>1. serial \in Content BY DEF TypeOK
  <2>2. ProgramCycle(SecurityRegister(1), 0, serial) \in Cycle
    BY <2>1, RegisterFacts, CycleTypes DEF Register
  <2>3. ChipTypeOK' BY <1>1, <1>8, <2>2, StartCycleTypes DEF SendProgram, SecProgram
  <2>4. polls' \in 0..MaxPolls BY <1>2, <1>8 DEF SendProgram
  <2> QED BY <1>8, <2>3, <2>4 DEF SendProgram, TypeOK
<1>9. CASE WaitErase \/ WaitProgram
  <2>1. polls' \in 0..MaxPolls
    <3>1. polls' = polls \/ (polls > 0 /\ polls' = polls - 1)
      BY <1>9 DEF WaitErase, WaitProgram, Poll
    <3>2. polls \in 0..MaxPolls BY <1>1 DEF TypeOK
    <3> QED BY ONLY <1>2, <3>1, <3>2, SMT
  <2>2. pc' \in Stages BY <1>9 DEF WaitErase, WaitProgram, Poll, TypeOK
  <2>3. command \in {"e", "w"} BY <1>9 DEF WaitErase, WaitProgram, CommandKnown
  <2>4. Failure[command] \in {"erase failed", "write failed"}
    <3>1. CASE command = "e" BY <3>1, FailureTexts
    <3>2. CASE command = "w" BY <3>2, FailureTexts
    <3> QED BY <2>3, <3>1, <3>2
  <2>5. message' \in {message, Failure[command], "erased", "written"}
    BY <1>9 DEF WaitErase, WaitProgram, Poll
  <2>6. UNCHANGED <<chipVars, command, serial, reg, status, shown, lockedShown, history,
                    confirmed>>
    BY <1>9 DEF WaitErase, WaitProgram, Poll
  <2> QED BY <1>1, <2>1, <2>2, <2>4, <2>5, <2>6 DEF TypeOK, ChipTypeOK
<1>10. CASE LockReadSR1
  <2>1. status' \in StatusRegister BY <1>1, <1>10 DEF LockReadSR1, StatusRegister
  <2> QED BY <1>1, <1>10, <2>1 DEF LockReadSR1, TypeOK, ChipTypeOK
<1>11. CASE LockReadSR2
  <2>1. reg \in 1..3 BY <1>11 DEF LockReadSR2, LocksKnown, LockStages
  <2>2. LockRequest(status, sr \cap SR2Bits) \in StatusRegister
    BY <1>1, <2>1, LockBits3 DEF LockRequest, StatusRegister, SR2Bits
  <2> QED BY <1>1, <1>11, <2>2 DEF LockReadSR2, TypeOK, ChipTypeOK
<1>12. CASE SendLock
  <2>1. WrsrCycle(status) \in Cycle BY <1>1, CycleTypes
  <2>2. RegistersWritable \in BOOLEAN BY DEF RegistersWritable
  <2>3. ChipTypeOK' BY <1>1, <1>12, <2>1, <2>2, StartCycleTypes DEF SendLock, WriteStatus
  <2>4. status' \in StatusRegister BY <1>12 DEF SendLock, StatusRegister
  <2> QED BY <1>12, <2>3, <2>4 DEF SendLock, TypeOK
<1> QED BY <1>3, <1>4, <1>5, <1>6, <1>7, <1>8, <1>9, <1>10, <1>11, <1>12 DEF MenuStep

\* The steps of the menu's commands.
LEMMA MenuSteps ==
    ASSUME IInv, MenuStep
    PROVE  IInv'
<1> USE DEF IInv, chipVars, history, start, Say
<1> USE DEF LocksKnown, OthersKept, CommandKnown, LockStages
<1>1. TypeOK' BY MenuTypes
<1>2. CASE Stub \/ ReadSerial \/ ReadStatus
  BY <1>1, <1>2 DEF Stub, ReadSerial, ReadStatus, Justified
<1>3. CASE SendWREN
  <2>1. pc' = CASE pc = "eraseWREN" -> "erase" [] pc = "progWREN" -> "prog"
                [] pc = "lockWREN" -> "lockWRSR"
    BY <1>3 DEF SendWREN, AfterWREN
  <2>2. pc \in {"eraseWREN", "progWREN", "lockWREN"} BY <1>3 DEF SendWREN, AfterWREN
  <2> QED BY <1>1, <1>3, <2>1, <2>2 DEF SendWREN, WriteEnable, Justified
<1>4. CASE SendErase \/ SendProgram
  <2>1. /\ sr' = sr /\ UNCHANGED <<found, confirmed, command>>
        /\ pc' \in {"erasePoll", "progPoll"}
        /\ pc' = "erasePoll" => command \in {"e", "w"}
        /\ pc' = "progPoll" => command = "w"
    BY <1>4 DEF SendErase, SendProgram, SecErase, SecProgram, StartCycle
  <2>2. busy' = busy \/ busy'.op # "wrsr"
    BY <1>4, CycleFields
       DEF SendErase, SendProgram, SecErase, SecProgram, StartCycle
  <2> QED BY <1>1, <2>1, <2>2 DEF Justified
<1>5. CASE WaitErase \/ WaitProgram
  BY <1>1, <1>5 DEF WaitErase, WaitProgram, Poll, Justified
<1>6. CASE LockReadSR1
  BY <1>1, <1>6 DEF LockReadSR1, Justified
<1>7. CASE LockReadSR2
  <2>1. reg \in 1..3 /\ reg \in confirmed BY <1>7 DEF LockReadSR2
  <2>2. /\ status' = (sr \cap SR1Bits) \cup (sr \cap SR2Bits) \cup {LockBit[reg]}
        /\ pc' = "lockWREN"
        /\ UNCHANGED <<sr, busy, found, confirmed, command, reg>>
    BY <1>7 DEF LockReadSR2, LockRequest
  <2>3. sr \subseteq SR1Bits \cup SR2Bits BY DEF TypeOK, ChipTypeOK, StatusRegister
  <2>4. status' = sr \cup {LockBit[reg]} BY <2>2, <2>3
  <2>5. Justified(status')
    BY <2>1, <2>4, LockBitsDiffer DEF Justified
  <2>6. status' \ LBBits = sr \ LBBits BY <2>1, <2>4, LockBits3
  <2> QED BY <1>1, <2>1, <2>2, <2>5, <2>6 DEF Justified
<1>8. CASE SendLock
  <2>1. /\ sr' = sr /\ pc' = "menu" /\ UNCHANGED <<found, confirmed, command>>
        /\ pc = "lockWRSR"
    BY <1>8 DEF SendLock, WriteStatus, StartCycle
  <2>2. busy' = busy \/ (busy'.op = "wrsr" /\ busy'.reg = status)
    BY <1>8, CycleFields DEF SendLock, WriteStatus, StartCycle
  <2> QED BY <1>1, <2>1, <2>2 DEF Justified
<1> QED BY <1>2, <1>3, <1>4, <1>5, <1>6, <1>7, <1>8 DEF MenuStep

\* A register write adds lock bits that were set before, and leaves the others
\* as they were.
LEMMA LatchedKeeps ==
    ASSUME IInv, busy.op = "wrsr"
    PROVE  /\ Justified(Latched(busy.reg))
           /\ Latched(busy.reg) \ LBBits = sr \ LBBits
BY DEF IInv, LocksKnown, OthersKept, Justified, Latched

\* The end of a cycle brings into force what was known of it.
LEMMA ChipStep ==
    ASSUME IInv, ChipFinishes
    PROVE  IInv'
<1> USE DEF IInv
<1>1. TypeOK' BY CycleEndsTypes DEF ChipFinishes, menuVars, history, start, TypeOK
<1>2. /\ busy'.op = "idle"
      /\ sr' = IF busy.op = "wrsr" THEN Latched(busy.reg) ELSE sr
      /\ UNCHANGED menuVars
  BY CycleFields DEF ChipFinishes, CycleEnds
<1>3. Justified(sr') /\ sr' \ LBBits = sr \ LBBits
  BY <1>2, LatchedKeeps DEF LocksKnown
<1>4. sr' \cap SR1Bits = sr \cap SR1Bits BY <1>3 DEF SR1Bits, LBBits
<1> QED BY <1>1, <1>2, <1>3, <1>4
        DEF LocksKnown, OthersKept, CommandKnown, Justified, menuVars, history, start

\* What a power cycle leaves of the registers.
LEMMA PowerUp ==
    ASSUME IInv, PowerCycle
    PROVE  /\ sr' \ LBBits = AtPowerUp(sr) \ LBBits
           /\ Justified(sr')
<1>1. \/ sr' = AtPowerUp(sr)
      \/ busy.op = "wrsr" /\ sr' = AtPowerUp(Latched(busy.reg))
  BY DEF PowerCycle
<1>2. \A r, s : r \ LBBits = s \ LBBits
                 => AtPowerUp(r) \ LBBits = AtPowerUp(s) \ LBBits
  BY DEF AtPowerUp, LBBits
<1>3. \A r : Justified(r) => Justified(AtPowerUp(r)) BY DEF Justified, AtPowerUp
<1>4. Justified(sr) BY DEF IInv, LocksKnown
<1>5. CASE sr' = AtPowerUp(sr) BY <1>3, <1>4, <1>5 DEF Justified
<1>6. CASE busy.op = "wrsr" /\ sr' = AtPowerUp(Latched(busy.reg))
  BY <1>2, <1>3, <1>6, LatchedKeeps DEF Justified
<1> QED BY <1>1, <1>5, <1>6

\* A power failure ends the command and opens the menu anew.
LEMMA PowerStep ==
    ASSUME IInv, LosePower
    PROVE  IInv'
<1> USE DEF IInv
<1>1. ChipTypeOK' BY PowerCycleTypes DEF TypeOK, LosePower
<1>2. polls' \in 0..MaxPolls BY SecRegAssumption DEF LosePower
<1>3. TypeOK'
  <2>1. hasty' \in BOOLEAN /\ driver' \in Drivers /\ found' \subseteq LBBits
    BY DEF LosePower, TypeOK, start
  <2>2. status' \in StatusRegister /\ pc' \in Stages
    BY DEF LosePower, Stages, StatusRegister
  <2>3. /\ shown' \in Content /\ serial' \in Content
        /\ typed' \in Serials \cup {NoSerial}
    BY RegisterFacts, ChipConstants DEF LosePower
  <2>4. lockedShown' \subseteq 1..3 /\ confirmed' \subseteq 1..3
    BY ConfirmedType DEF LosePower
  <2>6. reg' \in 0..255
    <3>1. reg' = 0 BY DEF LosePower
    <3> QED BY ONLY <3>1, SMT
  <2>5. command' \in Commands \cup {"none"} /\ message' = "none" BY DEF LosePower
  <2> QED BY <1>1, <1>2, <2>1, <2>2, <2>3, <2>4, <2>5, <2>6 DEF TypeOK
<1>4. busy'.op = "idle" BY CycleFields DEF LosePower, PowerCycle
<1>5. Justified(sr') BY PowerUp DEF LosePower
<1> QED BY <1>3, <1>4, <1>5
        DEF LosePower, LocksKnown, OthersKept, CommandKnown, LockStages, Justified,
            start

\* Every step keeps it.
LEMMA StepIInv == IInv /\ [Next]_vars => IInv'
<1> SUFFICES ASSUME IInv, [Next]_vars PROVE IInv' OBVIOUS
<1>1. CASE MoveJumper
  <2>1. TypeOK' BY <1>1 DEF MoveJumper, IInv, TypeOK, ChipTypeOK, menuVars, history,
                 start
  <2> QED BY <1>1, <2>1
          DEF MoveJumper, IInv, LocksKnown, OthersKept, CommandKnown, Justified,
              menuVars, history, start
<1>2. CASE UNCHANGED vars
  <2>1. TypeOK' BY <1>2 DEF IInv, TypeOK, ChipTypeOK, vars, chipVars, menuVars,
                 history, start
  <2> QED BY <1>2, <2>1
          DEF IInv, LocksKnown, OthersKept, CommandKnown, Justified, vars, chipVars,
              menuVars, history, start
<1> QED BY <1>1, <1>2, UserSteps, MenuSteps, ChipStep, PowerStep DEF Next

\* So it always holds.
LEMMA Inductive == Spec => []IInv
BY InitIInv, StepIInv, PTL DEF Spec

-----------------------------------------------------------------------------
\* Chip and menu keep their types.
THEOREM TypeCorrect == Spec => []TypeOK
<1>1. IInv => TypeOK BY DEF IInv
<1> QED BY <1>1, Inductive, PTL

\* No security register is locked for good without a yes to its number.
THEOREM LocksAreConfirmed == Spec => []SecLocksConfirmed
<1>1. IInv => SecLocksConfirmed
  BY DEF IInv, LocksKnown, Justified, SecLocksConfirmed
<1> QED BY <1>1, Inductive, PTL

\* The menu never changes a protection bit of the array, nor the lock of the
\* registers.
THEOREM ProtectionIsKept == Spec => ProtectionKept
<1>1. ASSUME IInv, [Next]_vars
      PROVE  sr' \ LBBits \in {sr \ LBBits, AtPowerUp(sr) \ LBBits}
  <2>1. CASE ChipFinishes
    BY <1>1, <2>1, LatchedKeeps DEF ChipFinishes, CycleEnds
  <2>2. CASE LosePower BY <1>1, <2>2, PowerUp DEF LosePower
  <2>3. CASE ~ChipFinishes /\ ~LosePower
    <3>1. sr' = sr
      BY <1>1, <2>3
         DEF Next, vars, chipVars, UserStep, TakeKey, TakeSerial, TakeNumber,
             TakeLine, MenuStep, Stub, ReadSerial, ReadStatus, SendWREN,
             WriteEnable, SendErase, SecErase, StartCycle, SendProgram,
             SecProgram, WaitErase, WaitProgram, Poll, LockReadSR1, LockReadSR2,
             SendLock, WriteStatus, MoveJumper
    <3> QED BY <3>1
  <2> QED BY <2>1, <2>2, <2>3
<1>2. IInv /\ [Next]_vars
        => [sr' \ LBBits \in {sr \ LBBits, AtPowerUp(sr) \ LBBits}]_vars
  BY <1>1
<1> QED BY <1>2, Inductive, PTL DEF Spec, ProtectionKept

-----------------------------------------------------------------------------
(* The invariant behind the truth of what the menu prints, for a user who  *)
(* waits for the chip between two commands.                                *)

Cell == mem[Register][0]

\* Commands that do not wait for the chip find it idle, because the command
\* before them has waited or the user has; what runs was sent by this stage.
ChipWaitedFor ==
    /\ pc \notin {"menu", "erasePoll", "progPoll"} => ~WIP
    /\ pc \in {"erase", "prog", "lockWRSR"} => wel
    /\ busy.op = "erase" => pc \in {"menu", "erasePoll"}
    /\ busy.op = "program" => pc \in {"menu", "progPoll"}
    /\ busy.op = "wrsr" => pc = "menu"

\* The serial number goes from Erased to what was typed, never over another.
SerialOnErased ==
    /\ serial # Damaged
    /\ busy.op = "program" =>
          Cell = Erased /\ busy.sector = Register /\ busy.word = 0 /\ busy.content = serial
    /\ busy.op = "erase" => busy.sector = Register
    /\ pc = "erasePoll" /\ ~WIP => Cell = Erased \/ "LB1" \in sr
    /\ pc \in {"progWREN", "prog"} => Cell = Erased \/ "LB1" \in sr
    /\ pc = "progPoll" /\ ~WIP => Cell = serial \/ "LB1" \in sr

\* A lock bit that was asked for is in the byte that will be written.
LockAskedFor == pc \in {"lockWREN", "lockWRSR"} => LockBit[reg] \in status

\* What was printed stands on the screen only while the menu waits, and is true.
PrintedIsTrue ==
    /\ message # "none" => pc = "menu"
    /\ pc = "stub" => driver # "winbond"
    /\ message = "written" /\ driver = "winbond" =>
          ~WIP /\ (Cell = serial \/ "LB1" \in sr)
    /\ message = "locked" /\ driver = "winbond" =>
          /\ busy.op \in {"idle", "wrsr"}
          /\ busy.op = "wrsr" => LockBit[reg] \in busy.reg
          /\ ~WIP => LockBit[reg] \in sr \/ "SRP1" \in sr \/ "SRP0" \in sr

WaitInv == ~hasty => ChipWaitedFor /\ SerialOnErased /\ LockAskedFor /\ PrintedIsTrue

\* The contents a word can have differ, and no typed number is a damaged one.
LEMMA ContentsDiffer ==
    /\ Erased # Damaged /\ NoSerial # Damaged
    /\ \A t \in Serials \cup {NoSerial} : Buf(t) # Damaged
<1> SUFFICES ASSUME NEW t \in Serials \cup {NoSerial} PROVE Buf(t) # Damaged
  BY DEF Erased, Damaged, NoSerial
<1>1. t[1] \in Nat BY SecRegAssumption DEF NoSerial
<1>2. Buf(t)[1] = t[1] /\ Damaged[1] = -1 - 1 BY DEF Buf, Damaged
<1> QED BY <1>1, <1>2

\* The word with the serial number is one of the chip.
LEMMA CellKept ==
    ASSUME TypeOK
    PROVE  /\ Register \in Window /\ 0 \in Word
           /\ DOMAIN mem = Window /\ mem \in [Window -> [Word -> Content]]
BY RegisterFacts, SecRegAssumption DEF TypeOK, ChipTypeOK, Register

\* At the start nothing runs and nothing is printed.
LEMMA InitWaitInv == Init => WaitInv
<1> SUFFICES ASSUME Init PROVE WaitInv OBVIOUS
<1>1. busy.op = "idle" BY CycleFields DEF Init
<1> QED BY <1>1, ContentsDiffer
        DEF Init, WaitInv, ChipWaitedFor, SerialOnErased, LockAskedFor,
            PrintedIsTrue, WIP

\* A user who waits finds the chip idle, and starts a command.
LEMMA UserWaits ==
    ASSUME IInv, WaitInv, UserStep
    PROVE  WaitInv'
<1> SUFFICES ASSUME ~hasty PROVE WaitInv' BY DEF WaitInv, UserStep, TakeKey,
        TakeSerial, TakeNumber, TakeLine, start
<1>1. PICK k \in Commands : 
           pc' \in {Entry(k), "menu"} /\ \E t \in Serials \cup {NoSerial} : TakeLine(k, t)
  BY DEF UserStep, TakeKey, TakeSerial, TakeNumber, Commands
<1>2. serial' # Damaged BY <1>1, ContentsDiffer DEF TakeLine
<1>3. /\ UNCHANGED <<mem, sr, wel, busy, driver, hasty>> /\ message' = "none"
      /\ busy.op = "idle"
  <2>1. ~WIP BY <1>1 DEF TakeLine
  <2>2. busy.op = "idle" BY <2>1 DEF WIP
  <2> QED BY <1>1, <2>2 DEF TakeLine, chipVars, start
<1>4. /\ pc' \notin {"erase", "erasePoll", "progWREN", "prog", "progPoll",
                     "lockRDSR2", "lockWREN", "lockWRSR"}
      /\ pc' = "stub" => driver # "winbond"
  <2>1. driver \in {"winbond", "adesto", "macronix"}
    BY SecRegAssumption DEF IInv, TypeOK
  <2> QED BY <1>1, <2>1 DEF Entry, Commands
<1> QED BY <1>2, <1>3, <1>4
        DEF WaitInv, ChipWaitedFor, SerialOnErased, LockAskedFor, PrintedIsTrue, WIP

\* The steps of a command find what the step before them has left.
LEMMA MenuWaits ==
    ASSUME IInv, WaitInv, MenuStep
    PROVE  WaitInv'
<1>0. UNCHANGED <<hasty, driver, found>>
  BY DEF MenuStep, Stub, ReadSerial, ReadStatus, SendWREN, SendErase, WaitErase,
         SendProgram, WaitProgram, Poll, LockReadSR1, LockReadSR2, SendLock, history, start
<1> SUFFICES ASSUME ~hasty
             PROVE  ChipWaitedFor' /\ SerialOnErased' /\ LockAskedFor' /\ PrintedIsTrue'
  BY <1>0 DEF WaitInv
<1> USE DEF ChipWaitedFor, SerialOnErased, LockAskedFor, PrintedIsTrue, WIP, Say, Cell
<1>1. ChipWaitedFor /\ SerialOnErased /\ LockAskedFor /\ PrintedIsTrue
  BY DEF WaitInv
<1>2. CASE Stub BY <1>0, <1>1, <1>2 DEF Stub, chipVars
<1>3. CASE ReadSerial BY <1>0, <1>1, <1>3 DEF ReadSerial, chipVars
<1>4. CASE ReadStatus BY <1>0, <1>1, <1>4 DEF ReadStatus, chipVars
<1>5. CASE SendWREN
  <2>1. /\ pc = "eraseWREN" => pc' = "erase"
        /\ pc = "progWREN" => pc' = "prog"
        /\ pc = "lockWREN" => pc' = "lockWRSR"
        /\ pc \in {"eraseWREN", "progWREN", "lockWREN"}
    BY <1>5 DEF SendWREN, AfterWREN
  <2>2. /\ UNCHANGED <<mem, sr, busy, serial, reg, status, message>>
        /\ wel' = (wel \/ ~WIP)
    BY <1>5 DEF SendWREN, WriteEnable
  <2> QED BY <1>0, <1>1, <2>1, <2>2
<1>6. CASE SendErase
  <2>1. /\ pc = "erase" /\ pc' = "erasePoll"
        /\ UNCHANGED <<mem, sr, serial, reg, status, message>>
        /\ busy' = IF ~WIP /\ wel /\ LockBit[1] \notin sr
                   THEN EraseCycle(Register) ELSE busy
    BY <1>6 DEF SendErase, SecErase, StartCycle, Register
  <2>2. EraseCycle(Register).op = "erase" /\ EraseCycle(Register).sector = Register
    BY CycleFields
  <2>3. LockBit[1] = "LB1" BY DEF LockBit
  <2> QED BY <1>0, <1>1, <2>1, <2>2, <2>3
<1>7. CASE SendProgram
  <2>1. /\ pc = "prog" /\ pc' = "progPoll"
        /\ UNCHANGED <<mem, sr, serial, reg, status, message>>
        /\ busy' = IF ~WIP /\ wel /\ LockBit[1] \notin sr
                   THEN ProgramCycle(Register, 0, serial) ELSE busy
    BY <1>7 DEF SendProgram, SecProgram, StartCycle, Register
  <2>2. LET c == ProgramCycle(Register, 0, serial)
        IN  c.op = "program" /\ c.sector = Register /\ c.word = 0 /\ c.content = serial
    BY CycleFields
  <2>3. LockBit[1] = "LB1" BY DEF LockBit
  <2> QED BY <1>0, <1>1, <2>1, <2>2, <2>3
<1>8. CASE WaitErase
  <2>1. /\ UNCHANGED <<mem, sr, wel, busy, serial, reg, status>> /\ pc = "erasePoll"
    BY <1>8 DEF WaitErase, Poll, chipVars
  <2>2. \/ UNCHANGED <<pc, message>>
        \/ pc' = "menu" /\ message' \in {"erase failed", "write failed", "erased"}
        \/ pc' = "progWREN" /\ message' = message /\ ~WIP
    <3>1. command \in {"e", "w"} BY <2>1 DEF IInv, CommandKnown
    <3>2. Failure[command] \in {"erase failed", "write failed"}
      BY <3>1, FailureTexts
    <3> QED BY <1>8, <3>2 DEF WaitErase, Poll
  <2> QED BY <1>0, <1>1, <2>1, <2>2
<1>9. CASE WaitProgram
  <2>1. /\ UNCHANGED <<mem, sr, wel, busy, serial, reg, status>> /\ pc = "progPoll"
    BY <1>9 DEF WaitProgram, Poll, chipVars
  <2>2. \/ UNCHANGED <<pc, message>>
        \/ pc' = "menu" /\ message' = "write failed"
        \/ pc' = "menu" /\ message' = "written" /\ ~WIP
    <3>1. command = "w" BY <2>1 DEF IInv, CommandKnown
    <3> QED BY <1>9, <3>1, FailureTexts DEF WaitProgram, Poll
  <2> QED BY <1>0, <1>1, <2>1, <2>2
<1>10. CASE LockReadSR1 BY <1>0, <1>1, <1>10 DEF LockReadSR1, chipVars
<1>11. CASE LockReadSR2
  <2>1. LockBit[reg'] \in status' BY <1>11 DEF LockReadSR2, LockRequest
  <2> QED BY <1>0, <1>1, <1>11, <2>1 DEF LockReadSR2, chipVars
<1>12. CASE SendLock
  <2>1. /\ pc = "lockWRSR" /\ pc' = "menu" /\ message' = "locked"
        /\ UNCHANGED <<mem, sr, serial, reg>> /\ status' = {}
        /\ busy' = IF ~WIP /\ wel /\ RegistersWritable THEN WrsrCycle(status) ELSE busy
    BY <1>12 DEF SendLock, WriteStatus, StartCycle
  <2>2. WrsrCycle(status).op = "wrsr" /\ WrsrCycle(status).reg = status BY CycleFields
  <2>3. ~RegistersWritable => "SRP1" \in sr \/ "SRP0" \in sr BY DEF RegistersWritable
  <2> QED BY <1>0, <1>1, <2>1, <2>2, <2>3
<1> QED BY <1>2, <1>3, <1>4, <1>5, <1>6, <1>7, <1>8, <1>9, <1>10, <1>11, <1>12
        DEF MenuStep

\* The end of a cycle: an erased register, the number on it, or the new bits.
LEMMA CellAfterCycle ==
    ASSUME IInv, WaitInv, ~hasty, CycleEnds
    PROVE  /\ busy.op = "erase" => Cell' = Erased
           /\ busy.op = "program" => Cell' = serial
           /\ busy.op = "wrsr" => Cell' = Cell
<1> USE DEF Cell
<1>1. /\ Register \in Window /\ 0 \in Word /\ mem \in [Window -> [Word -> Content]]
  BY CellKept DEF IInv
<1>2. SerialOnErased BY DEF WaitInv
<1>3. CASE busy.op = "erase"
  <2>1. mem' = [mem EXCEPT ![busy.sector] = [w \in Word |-> Erased]]
    BY <1>3 DEF CycleEnds
  <2>2. busy.sector = Register BY <1>2, <1>3 DEF SerialOnErased
  <2>3. mem'[Register] = [w \in Word |-> Erased] BY <1>1, <2>1, <2>2
  <2> QED BY <1>1, <1>3, <2>3
<1>4. CASE busy.op = "program"
  <2>1. mem' = [mem EXCEPT ![busy.sector][busy.word] =
                   Programmed(mem[busy.sector][busy.word], busy.content)]
    BY <1>4 DEF CycleEnds
  <2>2. /\ busy.sector = Register /\ busy.word = 0 /\ busy.content = serial
        /\ mem[Register][0] = Erased
    BY <1>2, <1>4 DEF SerialOnErased
  <2>3. Programmed(Erased, serial) = serial BY DEF Programmed
  <2>4. mem' = [mem EXCEPT ![Register] = [mem[Register] EXCEPT ![0] = serial]]
    BY <2>1, <2>2, <2>3
  <2>5. mem'[Register] = [mem[Register] EXCEPT ![0] = serial] BY <1>1, <2>4
  <2>6. mem[Register] \in [Word -> Content] BY <1>1
  <2> QED BY <1>1, <1>4, <2>5, <2>6
<1>5. CASE busy.op = "wrsr" BY <1>5 DEF CycleEnds
<1> QED BY <1>3, <1>4, <1>5

\* The chip comes to the end that its stage waits for.
LEMMA ChipWaits ==
    ASSUME IInv, WaitInv, ChipFinishes
    PROVE  WaitInv'
<1>0. /\ UNCHANGED <<hasty, driver, pc, serial, reg, status, message>>
      /\ CycleEnds
  BY DEF ChipFinishes, menuVars, history, start
<1> SUFFICES ASSUME ~hasty
             PROVE  ChipWaitedFor' /\ SerialOnErased' /\ LockAskedFor' /\ PrintedIsTrue'
  BY <1>0 DEF WaitInv
<1>1. ChipWaitedFor /\ SerialOnErased /\ LockAskedFor /\ PrintedIsTrue
  BY DEF WaitInv
<1>2. /\ WIP /\ busy'.op = "idle"
      /\ sr' = IF busy.op = "wrsr" THEN Latched(busy.reg) ELSE sr
  BY <1>0, CycleFields DEF CycleEnds
<1>3. busy.op \in {"erase", "program", "wrsr"}
  BY <1>2 DEF WIP, IInv, TypeOK, ChipTypeOK, Cycle
<1>4. /\ busy.op = "erase" => Cell' = Erased
      /\ busy.op = "program" => Cell' = serial
  BY <1>0, CellAfterCycle
<1>5. \A b : b \in busy.reg => b \in Latched(busy.reg) BY DEF Latched
<1>6. ChipWaitedFor' BY <1>0, <1>1, <1>2 DEF ChipWaitedFor, WIP
<1>7. SerialOnErased'
  <2>1. pc \in {"erasePoll", "progPoll"} => sr' = sr BY <1>1, <1>2 DEF ChipWaitedFor
  <2>2. pc = "erasePoll" => busy.op = "erase" BY <1>1, <1>3 DEF ChipWaitedFor
  <2>3. pc = "progPoll" => busy.op = "program" BY <1>1, <1>3 DEF ChipWaitedFor
  <2>4. pc \notin {"progWREN", "prog"} BY <1>1, <1>2 DEF ChipWaitedFor
  <2> QED BY <1>0, <1>1, <1>2, <1>4, <2>1, <2>2, <2>3, <2>4 DEF SerialOnErased
<1>8. LockAskedFor' BY <1>0, <1>1 DEF LockAskedFor
<1>9. PrintedIsTrue'
  <2>1. ~(message = "written" /\ driver = "winbond")
    BY <1>1, <1>2 DEF PrintedIsTrue
  <2>2. message = "locked" /\ driver = "winbond" =>
           busy.op = "wrsr" /\ LockBit[reg] \in Latched(busy.reg)
    BY <1>1, <1>2, <1>5 DEF PrintedIsTrue, WIP
  <2> QED BY <1>0, <1>1, <1>2, <2>1, <2>2 DEF PrintedIsTrue
<1> QED BY <1>6, <1>7, <1>8, <1>9

\* Every step keeps it.
LEMMA StepWaits == IInv /\ WaitInv /\ [Next]_vars => WaitInv'
<1> SUFFICES ASSUME IInv, WaitInv, [Next]_vars PROVE WaitInv' OBVIOUS
<1> USE DEF WaitInv, ChipWaitedFor, SerialOnErased, LockAskedFor, PrintedIsTrue, WIP,
            Cell
<1>1. CASE MoveJumper BY <1>1 DEF MoveJumper, menuVars, history, start
<1>2. CASE UNCHANGED vars BY <1>2 DEF vars, chipVars, menuVars, history, start
<1>3. CASE LosePower
  <2>1. busy'.op = "idle" BY <1>3, CycleFields DEF LosePower, PowerCycle
  <2>2. /\ pc' = "menu" /\ message' = "none" /\ serial' = NoSerial
        /\ hasty' = hasty
    BY <1>3 DEF LosePower, start
  <2> QED BY <2>1, <2>2, ContentsDiffer
<1> HIDE DEF WaitInv, ChipWaitedFor, SerialOnErased, LockAskedFor, PrintedIsTrue
<1> QED BY <1>1, <1>2, <1>3, UserWaits, MenuWaits, ChipWaits DEF Next

\* So both invariants always hold.
LEMMA BothHold == Spec => [](IInv /\ WaitInv)
BY InitIInv, InitWaitInv, StepIInv, StepWaits, PTL DEF Spec

\* What is programmed is what strncpy has kept of the last line.
LEMMA KeptOfTyped == Spec => [](serial = Buf(typed))
<1>1. Init => serial = Buf(typed) BY DEF Init, Buf, NoSerial
<1>2. serial = Buf(typed) /\ [Next]_vars => (serial = Buf(typed))'
  <2> SUFFICES ASSUME serial = Buf(typed), [Next]_vars PROVE serial' = Buf(typed')
    OBVIOUS
  <2>1. CASE UserStep
    BY <2>1 DEF UserStep, TakeKey, TakeSerial, TakeNumber, TakeLine
  <2>2. CASE LosePower BY <2>2 DEF LosePower, Buf, NoSerial
  <2>3. CASE ~UserStep /\ ~LosePower
    <3>1. UNCHANGED <<serial, typed>>
      BY <2>3
         DEF Next, vars, menuVars, history, MenuStep, Stub, ReadSerial, ReadStatus,
             SendWREN, SendErase, SendProgram, WaitErase, WaitProgram, Poll,
             LockReadSR1, LockReadSR2, SendLock, ChipFinishes, MoveJumper
    <3> QED BY <3>1
  <2> QED BY <2>1, <2>2, <2>3
<1> QED BY <1>1, <1>2, PTL DEF Spec

\* "serial written" is true of a number of up to nine characters: register 1
\* holds it as it was typed, unless the register is locked.  Of a longer one
\* strncpy has cut the rest off.
THEOREM WrittenIsTrue == Spec => []WrittenIsStored
<1>1. TypeOK /\ serial = Buf(typed) /\ typed[2] < 10 => serial = typed
  <2> SUFFICES ASSUME TypeOK, serial = Buf(typed), typed[2] < 10 PROVE serial = typed
    OBVIOUS
  <2>1. typed \in Serials \cup {<<0, 0>>} BY DEF TypeOK, NoSerial
  <2>2. PICK m, n \in Nat : typed = <<m, n>> BY <2>1, SecRegAssumption
  <2> QED BY <2>2 DEF Buf
<1>2. IInv /\ WaitInv /\ serial = Buf(typed) => WrittenIsStored
  BY <1>1 DEF IInv, WaitInv, PrintedIsTrue, Cell, WrittenIsStored
<1> QED BY <1>2, BothHold, KeptOfTyped, PTL

\* "Locked!" is true, if the registers could be written.
THEOREM LockedIsTrue == Spec => []LockedIsReal
<1>1. WaitInv => LockedIsReal BY DEF WaitInv, PrintedIsTrue, LockedIsReal, WIP
<1> QED BY <1>1, BothHold, PTL

\* Only a power failure damages the serial number: it is never programmed over
\* an old one, even behind an erase that the chip was too slow for.
THEOREM OnlyPowerFailureDamages == Spec => OnlyPowerLossDamages
<1>1. ASSUME IInv, WaitInv, [Next]_vars, ~hasty, ~LosePower, Cell # Damaged
      PROVE  Cell' # Damaged
  <2>1. CASE ChipFinishes
    <3>1. busy.op \in {"erase", "program", "wrsr"}
      BY <1>1, <2>1
         DEF ChipFinishes, CycleEnds, WIP, IInv, TypeOK, ChipTypeOK, Cycle
    <3>2. /\ busy.op = "erase" => Cell' = Erased
          /\ busy.op = "program" => Cell' = serial
          /\ busy.op = "wrsr" => Cell' = Cell
      BY <1>1, <2>1, CellAfterCycle DEF ChipFinishes
    <3>3. serial # Damaged BY <1>1 DEF WaitInv, SerialOnErased
    <3> QED BY <1>1, <3>1, <3>2, <3>3, ContentsDiffer
  <2>2. CASE ~ChipFinishes
    <3>1. mem' = mem
      BY <1>1, <2>2
         DEF Next, vars, chipVars, UserStep, TakeKey, TakeSerial, TakeNumber,
             TakeLine, MenuStep, Stub, ReadSerial, ReadStatus, SendWREN,
             WriteEnable, SendErase, SecErase, StartCycle, SendProgram,
             SecProgram, WaitErase, WaitProgram, Poll, LockReadSR1, LockReadSR2,
             SendLock, WriteStatus, MoveJumper
    <3> QED BY <1>1, <3>1 DEF Cell
  <2> QED BY <2>1, <2>2
<1>2. IInv /\ WaitInv /\ [Next]_vars
        => [~hasty /\ ~LosePower /\ mem[Register][0] # Damaged =>
              mem'[Register][0] # Damaged]_vars
  BY <1>1 DEF Cell
<1> QED BY <1>2, BothHold, PTL DEF Spec, OnlyPowerLossDamages
=============================================================================

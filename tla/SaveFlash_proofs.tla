-------------------------- MODULE SaveFlash_proofs --------------------------
(***************************************************************************)
(* Proofs about SaveFlash, and about FlashMenus, which puts the lockdown   *)
(* menu beside it, for every flash geometry, list length, driver and       *)
(* bound.  Types, neighbours, the order of the words, damage, a failed     *)
(* save's lock and the end of every save are proved from any registers.    *)
(* That "Done" is true, and with it the refinement, assumes that the       *)
(* registers the first session finds are ones the main menu can have left  *)
(* (MainMenuOnly): with a range set in the flash lockdown menu it is not,  *)
(* which a run shows.  The last sections say with both menus what is.      *)
(***************************************************************************)
EXTENDS FlashMenus, SpiNor_proofs

\* Registers that are locked by set_lock_flags or do not protect the file.
Plain(r) ==
    /\ "SRP1" \notin r
    /\ IF "SRP0" \in r THEN IsLocked(r) ELSE ~Protected(r, Target)

MainMenuOnly == \A r \in InitialSR : Plain(r)

-----------------------------------------------------------------------------
(* The inductive invariant.                                                *)

\* Both the registers and a write of them under way are plain.
RegistersPlain == Plain(sr) /\ (busy.op = "wrsr" => Plain(busy.reg))

\* A cycle on the array is one of the file's sector.
CycleInFile ==
    /\ busy.op \in {"erase", "program"} => busy.sector = Target
    /\ busy.op = "program" => busy.word \in Word

\* Where the program knows that the chip is idle.
IdleStages == {"menu", "lockedAtEntry", "flagsRDSR1", "flagsRDSR2", "flagsWREN",
               "flagsWRSR", "eraseWREN", "eraseSE", "writeWREN", "writePP"}
ChipKnown ==
    /\ pc \in IdleStages => ~WIP
    /\ pc \in {"eraseSE", "writePP", "flagsWRSR"} => wel

\* set_lock_flags has something to change, and computes plain registers.
EarlyFlags == {"flagsRDSR1", "flagsRDSR2", "flagsWREN", "flagsWRSR"}
LateFlags  == {"flagsWait", "flagsWRDI", "flagsWaitWRDI"}
FlagsKnown ==
    /\ pc \in {"flagsWREN", "flagsWRSR"} =>
          Plain(status) /\ (IsLocked(status) <=> lockArg)
    /\ pc \in EarlyFlags => (IsLocked(sr) <=> ~lockArg)
    /\ pc \in FlagsStages /\ lockArg => toggle
    /\ pc \in LateFlags /\ lockArg => LockedSoon
    /\ pc \in LateFlags \cup {"lockedAfterUnlock"} /\ ~lockArg =>
          \/ ~WIP
          \/ busy.op = "wrsr" /\ IsLocked(sr)
    /\ pc = "lockedAfterUnlock" => ~lockArg

\* While the file is rewritten its sector is open and no register changes.
RewriteOpen ==
    pc \in EraseStages \cup WriteStages =>
        /\ ~IsLocked(sr)
        /\ busy.op # "wrsr"

\* How far the image is.
AllErased == \A w \in Word : mem[Target][w] = Erased
WrittenTo(n) ==
    \A w \in Word : mem[Target][w] = IF w < n THEN ImageWord(version, w) ELSE Erased
Progress ==
    /\ pc \in {"lockedAtEntry", "lockedAfterUnlock"} => pos = 0
    /\ pc \in FlagsStages /\ ~lockArg => pos = 0
    /\ pc \in EraseStages => pos = 0 /\ ~lockArg
    /\ pc = "erasePoll" => \/ busy = EraseCycle(Target)
                           \/ ~WIP /\ AllErased
    /\ pc \in WriteStages => pos <= LastWord(version) /\ ~lockArg
    /\ pc \in {"writeWREN", "writePP"} => WrittenTo(pos)
    /\ pc = "writePoll" =>
          \/ /\ busy = ProgramCycle(Target, pos, ImageWord(version, pos))
             /\ WrittenTo(pos)
          \/ ~WIP /\ WrittenTo(pos + 1)

\* Behind the last word the image stands and only the registers still move.
Whole ==
    (pc \in FlagsStages /\ lockArg) \/ pc = "lockedAtEnd"
        \/ (pc = "returned" /\ outcome = "saved")
    => /\ Stored(version)
       /\ busy.op \in {"idle", "wrsr"}

LockDone ==
    pc = "lockedAtEnd" \/ (pc = "returned" /\ outcome = "saved") =>
        IF toggle THEN LockedSoon ELSE ~IsLocked(sr) /\ ~WIP

OutcomeKnown == pc \in SaveStages => outcome = "saving"

IInv ==
    /\ TypeOK
    /\ RegistersPlain
    /\ CycleInFile
    /\ ChipKnown
    /\ FlagsKnown
    /\ RewriteOpen
    /\ Progress
    /\ Whole
    /\ LockDone
    /\ OutcomeKnown

-----------------------------------------------------------------------------
(* The addresses and contents a save sends are ones the chip has.          *)

\* Sector and word of a position are numbers.
LEMMA AddressTypes ==
    ASSUME NEW p \in Nat
    PROVE  SectorAt(p) \in Nat /\ WordAt(p) \in Nat
<1>1. SectorWords \in Nat /\ SectorWords > 0 BY GeometryAssumption
<1>2. Target \in Nat BY GeometryAssumption, SaveAssumption
<1>3. p \div SectorWords \in Nat BY <1>1, SMT
<1>4. p % SectorWords \in Nat BY <1>1, SMT
<1> QED BY <1>2, <1>3, <1>4 DEF SectorAt, WordAt

\* The words of the text and its filler are contents of the chip.
LEMMA ImageTypes ==
    ASSUME NEW v \in 0..MaxSaves, NEW w \in Nat
    PROVE  ImageWord(v, w) \in Content
<1>1. v \in Int BY SaveAssumption
<1>2. <<v, w>> \in Content BY <1>1 DEF Content
<1>3. Junk \in Content BY DEF Junk, Content
<1> QED BY <1>2, <1>3 DEF ImageWord

-----------------------------------------------------------------------------
(* Type correctness.                                                       *)

\* What set_lock_flags computes is a pair of status registers.
LEMMA FlaggedTypes ==
    ASSUME NEW r \in StatusRegister, NEW lock \in BOOLEAN
    PROVE  Flagged(r, lock) \in StatusRegister
BY DEF Flagged, LockMask, StatusRegister, SR1Bits, SR2Bits

\* Chip and program have their types at the start.
LEMMA InitTypes == Init => TypeOK
<1> SUFFICES ASSUME Init PROVE TypeOK OBVIOUS
<1>1. ChipTypeOK
  <2>1. 0 \in 0..MaxSaves BY SaveAssumption
  <2>2. \A w \in Word : ImageWord(0, w) \in Content /\ <<0, w>> \in Content
    BY <2>1, ImageTypes DEF Word, Content
  <2>3. mem \in [Window -> [Word -> Content]]
    BY <2>2, ChipConstants DEF Init
  <2> QED BY <2>3, SaveAssumption, ChipConstants DEF Init, ChipTypeOK
<1>2. 0 \in 0..MaxPolls /\ 0 \in 0..MaxSaves /\ 0 \in 0..MaxPowerLosses
  BY SaveAssumption
<1>3. pc \in Stages /\ lockArg \in BOOLEAN /\ status \in StatusRegister
  BY DEF Init, Stages, StatusRegister
<1> QED BY <1>1, <1>2, <1>3 DEF Init, TypeOK

\* Every step keeps the types.
LEMMA StepTypes == TypeOK /\ [Next]_vars => TypeOK'
<1> SUFFICES ASSUME TypeOK, [Next]_vars PROVE TypeOK' OBVIOUS
<1> USE SaveAssumption
<1>0. /\ ChipTypeOK
      /\ MaxPolls \in 0..MaxPolls
      /\ Target \in Nat
  BY GeometryAssumption DEF TypeOK
<1>1. CASE Boot
  BY <1>1, <1>0 DEF Boot, TypeOK, ChipTypeOK, chipVars, settled, Stages, IsLocked
<1>2. CASE UserStep
  <2>1. CASE ToggleWriteProtect
    BY <2>1, <1>0 DEF ToggleWriteProtect, TypeOK, ChipTypeOK, chipVars, settled
  <2>2. CASE ExitWithoutSave
    BY <2>2, <1>0 DEF ExitWithoutSave, TypeOK, ChipTypeOK, chipVars, settled, Stages
  <2>3. CASE BeginSave
    <3>1. version' \in 0..MaxSaves BY <2>3 DEF BeginSave, TypeOK
    <3> QED BY <2>3, <3>1, <1>0 DEF BeginSave, TypeOK, ChipTypeOK, chipVars,
            settled, Stages, SaveStages
  <2> QED BY <1>2, <2>1, <2>2, <2>3 DEF UserStep
<1>3. CASE ResetAfterSave
  BY <1>3, <1>0 DEF ResetAfterSave, TypeOK, ChipTypeOK, chipVars, settled, Stages
<1>4. CASE CheckLockedAtEntry \/ CheckLockedAfterUnlock \/ CheckLockedAtEnd
  BY <1>4, <1>0 DEF CheckLockedAtEntry, CheckLockedAfterUnlock,
     CheckLockedAtEnd, TypeOK, ChipTypeOK, chipVars, settled, Stages, SaveStages,
     FlagsStages, EraseStages
<1>5. CASE FlagsReadSR1
  <2>1. sr \cap SR1Bits \in StatusRegister BY DEF StatusRegister
  <2>2. status' \in StatusRegister
    BY <1>5, <2>1, FlaggedTypes DEF FlagsReadSR1, TypeOK
  <2> QED BY <1>5, <1>0, <2>2 DEF FlagsReadSR1, TypeOK, ChipTypeOK, chipVars,
          settled, Stages, SaveStages, FlagsStages
<1>6. CASE FlagsReadSR2
  <2>1. status \cup (sr \cap SR2Bits) \in StatusRegister
    BY DEF TypeOK, StatusRegister
  <2>2. status' \in StatusRegister
    BY <1>6, <2>1, FlaggedTypes DEF FlagsReadSR2, TypeOK
  <2> QED BY <1>6, <1>0, <2>2 DEF FlagsReadSR2, TypeOK, ChipTypeOK, chipVars,
          settled, Stages, SaveStages, FlagsStages
<1>7. CASE FlagsWriteEnable
  <2>1. ChipTypeOK' BY <1>7, <1>0 DEF FlagsWriteEnable, WriteEnable, WIP, ChipTypeOK
  <2> QED BY <1>7, <2>1 DEF FlagsWriteEnable, TypeOK, settled, Stages,
          SaveStages, FlagsStages
<1>8. CASE FlagsWriteStatus
  <2>1. ChipTypeOK'
    <3>1. WrsrCycle(status) \in Cycle BY CycleTypes, ChipConstants DEF TypeOK
    <3> QED BY <1>8, <1>0, <3>1, StartCycleTypes
            DEF FlagsWriteStatus, WriteStatus, RegistersWritable
  <2> QED BY <1>8, <1>0, <2>1 DEF FlagsWriteStatus, AfterFlags, TypeOK, settled,
          Stages, SaveStages, FlagsStages
<1>9. CASE FlagsWait
  BY <1>9, <1>0 DEF FlagsWait, Poll, TypeOK, ChipTypeOK, chipVars, settled,
     Stages, SaveStages, FlagsStages
<1>10. CASE FlagsWriteDisable
  <2>1. ChipTypeOK' BY <1>10, <1>0 DEF FlagsWriteDisable, WriteDisable, WIP, ChipTypeOK
  <2> QED BY <1>10, <1>0, <2>1 DEF FlagsWriteDisable, TypeOK, settled, Stages,
          SaveStages, FlagsStages
<1>11. CASE FlagsWaitWRDI
  BY <1>11, <1>0 DEF FlagsWaitWRDI, Poll, AfterFlags, TypeOK, ChipTypeOK,
     chipVars, settled, Stages, SaveStages, FlagsStages
<1>12. CASE EraseWriteEnable \/ WriteWriteEnable
  <2>1. ChipTypeOK'
    BY <1>12, <1>0 DEF EraseWriteEnable, WriteWriteEnable, WriteEnable, WIP,
       ChipTypeOK
  <2> QED BY <1>12, <2>1 DEF EraseWriteEnable, WriteWriteEnable, TypeOK,
          settled, Stages, SaveStages, EraseStages, WriteStages
<1>13. CASE EraseSector
  <2>1. ChipTypeOK'
    <3>1. EraseCycle(Target) \in Cycle BY <1>0, CycleTypes, ChipConstants
    <3>2. (~Protected(sr, Target)) \in BOOLEAN BY DEF Protected
    <3> QED BY <1>13, <1>0, <3>1, <3>2, StartCycleTypes DEF EraseSector, SectorErase
  <2> QED BY <1>13, <1>0, <2>1 DEF EraseSector, TypeOK, settled, Stages,
          SaveStages, EraseStages
<1>14. CASE EraseWait
  BY <1>14, <1>0 DEF EraseWait, Poll, TypeOK, ChipTypeOK, chipVars, settled,
     Stages, SaveStages, WriteStages
<1>15. CASE WriteWord
  <2>1. ChipTypeOK'
    <3>1. pos \in Nat /\ version \in 0..MaxSaves BY DEF TypeOK
    <3>2. ProgramCycle(SectorAt(pos), WordAt(pos), ImageWord(version, pos)) \in Cycle
      BY <3>1, AddressTypes, ImageTypes, CycleTypes, ChipConstants
    <3>3. (~Protected(sr, SectorAt(pos))) \in BOOLEAN BY DEF Protected
    <3> QED BY <1>15, <1>0, <3>2, <3>3, StartCycleTypes DEF WriteWord, PageProgram
  <2> QED BY <1>15, <1>0, <2>1 DEF WriteWord, TypeOK, settled, Stages,
          SaveStages, WriteStages
<1>16. CASE WriteWait
  <2>1. lockArg' \in BOOLEAN BY <1>16 DEF WriteWait
  <2>2. pos' \in Nat BY <1>16 DEF WriteWait, TypeOK
  <2> QED BY <1>16, <1>0, <2>1, <2>2 DEF WriteWait, AfterWrite, Poll, TypeOK,
          ChipTypeOK, chipVars, settled, Stages, SaveStages, FlagsStages,
          WriteStages
<1>17. CASE ChipFinishes
  BY <1>17, <1>0, CycleEndsTypes DEF ChipFinishes, TypeOK, progVars
<1>18. CASE MoveJumper
  BY <1>18, <1>0 DEF MoveJumper, TypeOK, ChipTypeOK, progVars
<1>19. CASE LosePower
  BY <1>19, <1>0, PowerCycleTypes DEF LosePower, TypeOK, Stages
<1>20. CASE UNCHANGED vars
  BY <1>20, <1>0 DEF vars, chipVars, progVars, TypeOK, ChipTypeOK
<1> QED BY <1>1, <1>2, <1>3, <1>4, <1>5, <1>6, <1>7, <1>8, <1>9, <1>10, <1>11,
        <1>12, <1>13, <1>14, <1>15, <1>16, <1>17, <1>18, <1>19, <1>20
        DEF Next, SaveStep, LockStep, ArrayStep

\* Every variable of the chip and of the program keeps its type, whatever
\* registers the first session finds.
THEOREM TypeCorrect == Spec => []TypeOK
BY InitTypes, StepTypes, PTL DEF Spec

-----------------------------------------------------------------------------
(* What the inductive invariant rests on.                                  *)

\* Unlocking leaves a register that protects nothing, locking one that
\* is_locked recognises.
LEMMA FlaggedPlain ==
    ASSUME NEW r \in StatusRegister, NEW lock \in BOOLEAN
    PROVE  /\ Plain(Flagged(r, lock))
           /\ IsLocked(Flagged(r, lock)) <=> lock
<1>1. CASE lock
  <2>1. LockMask \subseteq Flagged(r, lock) /\ "SRP1" \notin Flagged(r, lock)
    BY <1>1 DEF Flagged, LockMask
  <2> QED BY <1>1, <2>1 DEF Plain, IsLocked, LockMask
<1>2. CASE ~lock
  <2> DEFINE f == Flagged(r, lock)
  <2>1. /\ "SRP0" \notin f /\ "SRP1" \notin f /\ "CMP" \notin f /\ "TB" \notin f
        /\ "BP2" \notin f /\ "BP1" \notin f /\ "BP0" \notin f
    BY <1>2 DEF Flagged, LockMask
  <2>2. BP(f) = 0 BY <2>1 DEF BP, Bit
  <2>3. Span(f) = 0 BY <2>2 DEF Span
  <2>4. Target < FlashSectors BY GeometryAssumption, SaveAssumption
  <2>5. ~Protected(f, Target)
    BY <2>1, <2>3, <2>4, GeometryAssumption, SaveAssumption DEF Protected
  <2> QED BY <1>2, <2>1, <2>5 DEF Plain, IsLocked, LockMask
<1> QED BY <1>1, <1>2

\* A plain register that is not locked does not protect the file.
LEMMA PlainOpen ==
    ASSUME NEW r, Plain(r)
    PROVE  ~IsLocked(r) => ~Protected(r, Target)
BY DEF Plain

\* A power failure cannot turn a plain register into another one.
LEMMA PlainAtPowerUp ==
    ASSUME NEW r \in StatusRegister, Plain(r)
    PROVE  AtPowerUp(r) = r
BY DEF Plain, AtPowerUp

\* The lock bits of the security registers play no part.
LEMMA PlainLatched ==
    ASSUME NEW r \in StatusRegister
    PROVE  /\ Plain(Latched(r)) <=> Plain(r)
           /\ IsLocked(Latched(r)) <=> IsLocked(r)
<1>1. \A b \in LockMask \cup {"SRP1"} : b \in Latched(r) <=> b \in r
  BY LatchedBits DEF LBBits, LockMask
<1>2. IsLocked(Latched(r)) <=> IsLocked(r) BY <1>1 DEF IsLocked
<1> QED BY <1>1, <1>2, LatchedProtects DEF Plain, LockMask

\* The words of an image lie in the sector of the file.
LEMMA InSector ==
    ASSUME NEW v \in 0..MaxSaves, NEW p \in Nat, p <= LastWord(v)
    PROVE  /\ SectorAt(p) = Target
           /\ WordAt(p) = p
           /\ p \in Word
<1>1. SectorWords \in Nat /\ SectorWords > 0 BY GeometryAssumption
<1>2. ListBytes[v] \in Nat BY SaveAssumption
<1>3. LastWord(v) \in Nat /\ LastWord(v) < SectorWords
  BY <1>2, FitAssumption DEF LastWord
<1>4. p < SectorWords BY <1>1, <1>3
<1>5. p \div SectorWords = 0 /\ p % SectorWords = p BY <1>1, <1>4, SMT
<1>6. Target \in Nat BY GeometryAssumption, SaveAssumption
<1> QED BY <1>1, <1>4, <1>5, <1>6 DEF SectorAt, WordAt, Word

\* The words up to the last one hold all of the text.
LEMMA TextInImage ==
    ASSUME NEW v \in 0..MaxSaves, NEW w \in TextWords(v)
    PROVE  /\ w \in Word
           /\ w < LastWord(v) + 1
           /\ ImageWord(v, w) = <<v, w>>
<1>1. ListBytes[v] \in Nat BY SaveAssumption
<1>2. w \in Word /\ w \in Int /\ 4 * w < ListBytes[v]
  BY GeometryAssumption DEF TextWords, Word
<1> QED BY <1>1, <1>2 DEF LastWord, ImageWord

\* When the loop has passed the last word, the list is stored.
LEMMA WrittenIsStored ==
    ASSUME version \in 0..MaxSaves, WrittenTo(LastWord(version) + 1)
    PROVE  Stored(version)
BY TextInImage DEF WrittenTo, Stored

-----------------------------------------------------------------------------
(* The neighbours of the file's sector, whatever the registers say.        *)

\* Where the write has got to: nowhere before the erase is over, and never
\* behind the last word.
Positions ==
    /\ pc \in {"lockedAtEntry", "lockedAfterUnlock"} => pos = 0
    /\ pc = "lockedAfterUnlock" => ~lockArg
    /\ pc \in FlagsStages /\ ~lockArg => pos = 0
    /\ pc \in EraseStages => pos = 0 /\ ~lockArg
    /\ pc \in WriteStages => pos <= LastWord(version) /\ ~lockArg

\* Every step keeps the position where it belongs.
LEMMA StepPositions == TypeOK /\ Positions /\ [Next]_vars => Positions'
<1> SUFFICES ASSUME TypeOK, Positions, [Next]_vars PROVE Positions' OBVIOUS
<1> USE DEF Positions, settled, FlagsStages, EraseStages, WriteStages
<1>0. LastWord(version) \in Nat /\ pos \in Nat
  BY SaveAssumption DEF LastWord, TypeOK
<1>1. CASE Boot \/ UserStep \/ ResetAfterSave
  BY <1>1 DEF Boot, UserStep, ToggleWriteProtect, ExitWithoutSave, BeginSave,
     ResetAfterSave
<1>2. CASE CheckLockedAtEntry \/ CheckLockedAfterUnlock \/ CheckLockedAtEnd
  BY <1>2 DEF CheckLockedAtEntry, CheckLockedAfterUnlock, CheckLockedAtEnd
<1>3. CASE FlagsReadSR1 \/ FlagsReadSR2 \/ FlagsWriteEnable \/ FlagsWriteDisable
  BY <1>3 DEF FlagsReadSR1, FlagsReadSR2, FlagsWriteEnable, FlagsWriteDisable
<1>4. CASE FlagsWriteStatus BY <1>4 DEF FlagsWriteStatus, AfterFlags
<1>5. CASE FlagsWait \/ FlagsWaitWRDI
  BY <1>5 DEF FlagsWait, FlagsWaitWRDI, Poll, AfterFlags
<1>6. CASE EraseWriteEnable \/ EraseSector \/ WriteWriteEnable \/ WriteWord
  BY <1>6 DEF EraseWriteEnable, EraseSector, WriteWriteEnable, WriteWord, LastWord
<1>7. CASE EraseWait
  <2>1. LastWord(version)' = LastWord(version)
    BY <1>7 DEF EraseWait, Poll, LastWord
  <2> QED BY <1>0, <1>7, <2>1 DEF EraseWait, Poll
<1>8. CASE WriteWait
  <2>1. LastWord(version)' = LastWord(version)
    BY <1>8 DEF WriteWait, Poll, LastWord
  <2>2. pos' \in {pos, pos + 1} /\ (pos' = pos \/ pos < LastWord(version))
    BY <1>8 DEF WriteWait
  <2>3. WIP => pos' = pos /\ (pc' = pc \/ pc' = "returned")
    BY <1>8 DEF WriteWait, Poll
  <2>4. ~WIP => pc' \in {"writeWREN", "flagsRDSR1", "lockedAtEnd"}
    BY <1>8 DEF WriteWait, AfterWrite, Poll
  <2>5. pc = "writePoll" /\ lockArg' = (lockArg \/ pc' = "flagsRDSR1")
    BY <1>8 DEF WriteWait
  <2>6. pos <= LastWord(version) /\ ~lockArg BY <2>5
  <2>7. pos' <= LastWord(version)' BY <1>0, <2>1, <2>2, <2>6
  <2> QED BY <2>3, <2>4, <2>5, <2>6, <2>7
<1>9. CASE ChipFinishes \/ MoveJumper \/ UNCHANGED vars
  BY <1>9 DEF ChipFinishes, MoveJumper, vars, progVars, LastWord
<1>10. CASE LosePower BY <1>10 DEF LosePower
<1> QED BY <1>1, <1>2, <1>3, <1>4, <1>5, <1>6, <1>7, <1>8, <1>9, <1>10
        DEF Next, SaveStep, LockStep, ArrayStep

\* A cycle on the array is one of the file's sector: a new one has its address
\* from the position.
LEMMA StepCycleInFile ==
    TypeOK /\ Positions /\ CycleInFile /\ [Next]_vars => CycleInFile'
<1> SUFFICES ASSUME TypeOK, Positions, CycleInFile, [Next]_vars PROVE CycleInFile'
  OBVIOUS
<1> USE DEF CycleInFile
<1>1. CASE WriteWord
  <2>1. SectorAt(pos) = Target /\ WordAt(pos) = pos /\ pos \in Word
    BY <1>1, InSector DEF WriteWord, Positions, WriteStages, TypeOK
  <2>2. busy' = busy \/ busy' = ProgramCycle(Target, pos, ImageWord(version, pos))
    BY <1>1, <2>1 DEF WriteWord, PageProgram, StartCycle
  <2> QED BY <2>1, <2>2, CycleFields
<1>2. CASE EraseSector
  <2>1. busy' = busy \/ busy' = EraseCycle(Target)
    BY <1>2 DEF EraseSector, SectorErase, StartCycle
  <2> QED BY <2>1, CycleFields
<1>3. CASE FlagsWriteStatus
  <2>1. busy' = busy \/ busy' = WrsrCycle(status)
    BY <1>3 DEF FlagsWriteStatus, WriteStatus, StartCycle
  <2> QED BY <2>1, CycleFields
<1>4. CASE ChipFinishes \/ LosePower
  BY <1>4, CycleFields DEF ChipFinishes, CycleEnds, LosePower, PowerCycle
<1>5. CASE UNCHANGED busy BY <1>5
<1>6. \/ WriteWord \/ EraseSector \/ FlagsWriteStatus \/ ChipFinishes \/ LosePower
      \/ UNCHANGED busy
  BY DEF Next, vars, chipVars, Boot, UserStep, ToggleWriteProtect,
     ExitWithoutSave, BeginSave, ResetAfterSave, SaveStep, LockStep,
     CheckLockedAtEntry, CheckLockedAfterUnlock, CheckLockedAtEnd,
     FlagsReadSR1, FlagsReadSR2, FlagsWriteEnable, FlagsWait,
     FlagsWriteDisable, FlagsWaitWRDI, ArrayStep, EraseWriteEnable, EraseWait,
     WriteWriteEnable, WriteWait, Poll, MoveJumper, WriteEnable, WriteDisable
<1> QED BY <1>1, <1>2, <1>3, <1>4, <1>5, <1>6

\* Only the end of a cycle and a power failure change the array.
LEMMA OthersKeepArray ==
    ASSUME [Next]_vars, ~ChipFinishes, ~LosePower
    PROVE  mem' = mem
BY DEF Next, vars, chipVars, Boot, UserStep, ToggleWriteProtect,
       ExitWithoutSave, BeginSave, ResetAfterSave, SaveStep, LockStep,
       CheckLockedAtEntry, CheckLockedAfterUnlock, CheckLockedAtEnd,
       FlagsReadSR1, FlagsReadSR2, FlagsWriteEnable, FlagsWriteStatus,
       FlagsWait, FlagsWriteDisable, FlagsWaitWRDI, ArrayStep,
       EraseWriteEnable, EraseSector, EraseWait, WriteWriteEnable,
       WriteWord, WriteWait, Poll, MoveJumper, WriteEnable, WriteDisable,
       WriteStatus, SectorErase, PageProgram, StartCycle

\* Neither of the two changes another sector.
LEMMA CyclesKeepNeighbours ==
    ASSUME TypeOK, CycleInFile, ChipFinishes \/ LosePower,
           NEW s \in Window, s # Target
    PROVE  mem'[s] = mem[s]
<1>0. /\ mem \in [Window -> [Word -> Content]]
      /\ busy.op \in {"idle", "erase", "program", "wrsr"}
      /\ busy.op \in {"erase", "program"} => busy.sector # s
  BY DEF CycleInFile, TypeOK, ChipTypeOK, Cycle
<1>1. CASE ChipFinishes
  <2>1. CASE busy.op = "erase"
    BY <1>0, <1>1, <2>1 DEF ChipFinishes, CycleEnds
  <2>2. CASE busy.op = "program"
    BY <1>0, <1>1, <2>2 DEF ChipFinishes, CycleEnds
  <2>3. CASE busy.op = "wrsr" BY <1>1, <2>3 DEF ChipFinishes, CycleEnds
  <2> QED BY <1>0, <1>1, <2>1, <2>2, <2>3 DEF ChipFinishes, CycleEnds, WIP
<1>2. CASE LosePower
  BY <1>0, <1>2 DEF LosePower, PowerCycle
<1> QED BY <1>1, <1>2

\* No step of a save, of the chip or of a power failure changes any sector
\* but the one of the bootorder file.
THEOREM NeighboursAreUntouched == Spec => NeighboursUntouched
<1>1. Init => TypeOK /\ Positions /\ CycleInFile
  BY InitTypes, CycleFields
     DEF Init, Positions, CycleInFile, FlagsStages, EraseStages, WriteStages
<1>2. (TypeOK /\ Positions /\ CycleInFile) /\ [Next]_vars
         => (TypeOK /\ Positions /\ CycleInFile)'
  BY StepTypes, StepPositions, StepCycleInFile
<1>3. TypeOK /\ CycleInFile /\ [Next]_vars
         => [\A s \in Window \ {Target} : mem'[s] = mem[s]]_vars
  BY OthersKeepArray, CyclesKeepNeighbours
<1> QED BY <1>1, <1>2, <1>3, PTL DEF Spec, NeighboursUntouched

-----------------------------------------------------------------------------
(* Each step keeps the inductive invariant.                                *)

\* The inductive invariant holds at the start.
LEMMA InitIInv == MainMenuOnly /\ Init => IInv
<1> SUFFICES ASSUME MainMenuOnly, Init PROVE IInv OBVIOUS
<1>1. TypeOK BY InitTypes
<1>2. RegistersPlain BY CycleFields DEF Init, MainMenuOnly, RegistersPlain
<1>3. CycleInFile BY CycleFields DEF Init, CycleInFile
<1> QED BY <1>1, <1>2, <1>3
        DEF Init, IInv, ChipKnown, FlagsKnown, RewriteOpen, Progress, Whole,
            LockDone, OutcomeKnown, IdleStages, EarlyFlags, LateFlags,
            SaveStages, FlagsStages, EraseStages, WriteStages

\* The steps that leave chip and image alone, or move only the write enable
\* latch or the jumper.
LEMMA QuietSteps ==
    ASSUME IInv, TypeOK',
           \/ Boot \/ UserStep \/ ResetAfterSave
           \/ CheckLockedAtEntry \/ CheckLockedAfterUnlock \/ CheckLockedAtEnd
           \/ FlagsReadSR1 \/ FlagsReadSR2
           \/ FlagsWriteEnable \/ FlagsWriteDisable
           \/ EraseWriteEnable \/ WriteWriteEnable
           \/ MoveJumper \/ UNCHANGED vars
    PROVE  IInv'
<1> USE DEF IInv, settled, chipVars
<1> USE DEF RegistersPlain, CycleInFile, ChipKnown, FlagsKnown, RewriteOpen,
            Progress, Whole, LockDone, OutcomeKnown
<1> USE DEF IdleStages, EarlyFlags, LateFlags, SaveStages, FlagsStages,
            EraseStages, WriteStages
<1> USE DEF WIP, LockedSoon, WrittenTo, AllErased, Stored
<1>1. CASE Boot BY <1>1 DEF Boot
<1>2. CASE ToggleWriteProtect BY <1>2 DEF ToggleWriteProtect
<1>3. CASE ExitWithoutSave BY <1>3 DEF ExitWithoutSave
<1>4. CASE BeginSave BY <1>4 DEF BeginSave
<1>5. CASE ResetAfterSave BY <1>5 DEF ResetAfterSave
<1>6. CASE CheckLockedAtEntry BY <1>6 DEF CheckLockedAtEntry
<1>7. CASE CheckLockedAfterUnlock BY <1>7 DEF CheckLockedAfterUnlock
<1>8. CASE CheckLockedAtEnd BY <1>8 DEF CheckLockedAtEnd
<1>9. CASE FlagsReadSR1
  <2>1. CASE driver = "macronix"
    <3>1. sr \cap SR1Bits \in StatusRegister BY DEF StatusRegister
    <3>2. Plain(status') /\ (IsLocked(status') <=> lockArg)
      BY <1>9, <2>1, <3>1, FlaggedPlain DEF FlagsReadSR1, TypeOK
    <3> QED BY <1>9, <2>1, <3>2 DEF FlagsReadSR1
  <2>2. CASE driver # "macronix" BY <1>9, <2>2 DEF FlagsReadSR1
  <2> QED BY <2>1, <2>2
<1>10. CASE FlagsReadSR2
  <2>1. Plain(status') /\ (IsLocked(status') <=> lockArg)
    <3>1. status \cup (sr \cap SR2Bits) \in StatusRegister
      BY DEF TypeOK, StatusRegister
    <3> QED BY <1>10, <3>1, FlaggedPlain DEF FlagsReadSR2, TypeOK
  <2> QED BY <1>10, <2>1 DEF FlagsReadSR2
<1>11. CASE FlagsWriteEnable BY <1>11 DEF FlagsWriteEnable, WriteEnable
<1>12. CASE FlagsWriteDisable BY <1>12 DEF FlagsWriteDisable, WriteDisable
<1>13. CASE EraseWriteEnable BY <1>13 DEF EraseWriteEnable, WriteEnable
<1>14. CASE WriteWriteEnable BY <1>14 DEF WriteWriteEnable, WriteEnable
<1>15. CASE MoveJumper BY <1>15 DEF MoveJumper, progVars
<1>16. CASE UNCHANGED vars BY <1>16 DEF vars, progVars
<1> QED BY <1>1, <1>2, <1>3, <1>4, <1>5, <1>6, <1>7, <1>8, <1>9, <1>10, <1>11, <1>12, <1>13, <1>14, <1>15, <1>16 DEF UserStep

\* A WRSR on a locked chip may be refused; on a chip that is to be locked it
\* cannot be, because the registers of an open chip are writable.
LEMMA FlagsWriteStatusStep ==
    ASSUME IInv, TypeOK', FlagsWriteStatus
    PROVE  IInv'
<1> USE DEF IInv, settled, chipVars
<1> USE DEF RegistersPlain, CycleInFile, ChipKnown, FlagsKnown, RewriteOpen,
            Progress, Whole, LockDone, OutcomeKnown
<1> USE DEF IdleStages, EarlyFlags, LateFlags, SaveStages, FlagsStages,
            EraseStages, WriteStages
<1> USE DEF WIP, LockedSoon, WrittenTo, AllErased, Stored
<1> USE DEF FlagsWriteStatus, WriteStatus, StartCycle
<1>1. \/ busy' = WrsrCycle(status)
      \/ ~lockArg /\ busy' = busy
  <2>1. lockArg => RegistersWritable BY DEF Plain, RegistersWritable
  <2> QED BY <2>1
<1>2. /\ busy'.op \in {"idle", "wrsr"}
      /\ busy'.op = "wrsr" => /\ busy'.reg = status
                              /\ Plain(status) /\ (IsLocked(status) <=> lockArg)
      /\ lockArg => busy'.op = "wrsr"
  BY <1>1, CycleFields
<1>3. RegistersPlain' BY <1>2
<1>4. CycleInFile' BY <1>2
<1>5. ChipKnown' BY DEF AfterFlags
<1>6. FlagsKnown' BY <1>2 DEF AfterFlags
<1>7. RewriteOpen' BY DEF AfterFlags
<1>8. Progress' BY DEF AfterFlags
<1>9. Whole' BY <1>2 DEF AfterFlags
<1>10. LockDone' BY <1>2 DEF AfterFlags
<1>11. OutcomeKnown' BY DEF AfterFlags
<1> QED BY <1>3, <1>4, <1>5, <1>6, <1>7, <1>8, <1>9, <1>10, <1>11

\* The erase starts its cycle in the open sector of the file.
LEMMA EraseSectorStep ==
    ASSUME IInv, TypeOK', EraseSector
    PROVE  IInv'
<1> USE DEF IInv, settled, chipVars
<1> USE DEF RegistersPlain, CycleInFile, ChipKnown, FlagsKnown, RewriteOpen,
            Progress, Whole, LockDone, OutcomeKnown
<1> USE DEF IdleStages, EarlyFlags, LateFlags, SaveStages, FlagsStages,
            EraseStages, WriteStages
<1> USE DEF WIP, LockedSoon, WrittenTo, AllErased, Stored
<1> USE DEF EraseSector, SectorErase, StartCycle
<1>1. busy' = EraseCycle(Target) BY PlainOpen
<1>2. busy'.op = "erase" /\ busy'.sector = Target BY <1>1, CycleFields
<1>3. RegistersPlain' BY <1>2
<1>4. CycleInFile' BY <1>2
<1>5. Progress' BY <1>1
<1>6. RewriteOpen' BY <1>2
<1> QED BY <1>2, <1>3, <1>4, <1>5, <1>6

\* The program of the next word starts its cycle there.
LEMMA WriteWordStep ==
    ASSUME IInv, TypeOK', WriteWord
    PROVE  IInv'
<1> USE DEF IInv, settled, chipVars
<1> USE DEF RegistersPlain, CycleInFile, ChipKnown, FlagsKnown, RewriteOpen,
            Progress, Whole, LockDone, OutcomeKnown
<1> USE DEF IdleStages, EarlyFlags, LateFlags, SaveStages, FlagsStages,
            EraseStages, WriteStages
<1> USE DEF WIP, LockedSoon, WrittenTo, AllErased, Stored
<1> USE DEF WriteWord, PageProgram, StartCycle
<1>1. /\ SectorAt(pos) = Target /\ WordAt(pos) = pos
      /\ pos \in Word
  BY InSector DEF TypeOK
<1>2. busy' = ProgramCycle(Target, pos, ImageWord(version, pos))
  BY <1>1, PlainOpen
<1>3. /\ busy'.op = "program" /\ busy'.sector = Target
      /\ busy'.word \in Word
  BY <1>1, <1>2, CycleFields
<1>4. RegistersPlain' BY <1>3
<1>5. CycleInFile' BY <1>3
<1>6. Progress' BY <1>2
<1>7. RewriteOpen' BY <1>3
<1> QED BY <1>3, <1>4, <1>5, <1>6, <1>7

\* The four places that wait for the chip.
LEMMA WaitSteps ==
    ASSUME IInv, TypeOK', FlagsWait \/ FlagsWaitWRDI \/ EraseWait \/ WriteWait
    PROVE  IInv'
<1> USE DEF IInv, settled, chipVars
<1> USE DEF RegistersPlain, CycleInFile, ChipKnown, FlagsKnown, RewriteOpen,
            Progress, Whole, LockDone, OutcomeKnown
<1> USE DEF IdleStages, EarlyFlags, LateFlags, SaveStages, FlagsStages,
            EraseStages, WriteStages
<1> USE DEF WIP, LockedSoon, WrittenTo, AllErased, Stored
<1>1. CASE FlagsWait BY <1>1 DEF FlagsWait, Poll
<1>2. CASE FlagsWaitWRDI BY <1>2 DEF FlagsWaitWRDI, Poll, AfterFlags
<1>3. CASE EraseWait
  <2>1. ~WIP => WrittenTo(0)
    <3>1. pc = "erasePoll" BY <1>3 DEF EraseWait
    <3>2. ~WIP => AllErased BY <3>1, CycleFields
    <3>3. \A w \in Word : ~(w < 0) BY GeometryAssumption DEF Word
    <3> QED BY <3>2, <3>3
  <2>2. LastWord(version) \in Nat
    BY SaveAssumption DEF LastWord, TypeOK
  <2>3. Progress' BY <1>3, <2>1, <2>2 DEF EraseWait, Poll
  <2> QED BY <1>3, <2>3 DEF EraseWait, Poll
<1>4. CASE WriteWait
  <2> USE <1>4 DEF WriteWait, AfterWrite, Poll
  <2>1. /\ LastWord(version) \in Nat
        /\ pos \in Nat /\ pos <= LastWord(version)
    BY SaveAssumption DEF LastWord, TypeOK
  <2>2. ~WIP => WrittenTo(pos + 1) BY CycleFields
  <2>3. CASE WIP BY <2>3
  <2>4. CASE ~WIP /\ pos < LastWord(version)
    <3>1. /\ pc' = "writeWREN" /\ pos' = pos + 1
          /\ UNCHANGED <<chipVars, outcome, version, toggle>>
      BY <2>4
    <3>2. ~lockArg' BY <3>1
    <3>3. pos' <= LastWord(version)' BY <2>1, <2>4, <3>1 DEF LastWord
    <3>4. WrittenTo(pos)' BY <2>2, <2>4, <3>1 DEF ImageWord
    <3>5. Progress' BY <3>1, <3>2, <3>3, <3>4
    <3> QED BY <2>4, <3>1, <3>2, <3>5
  <2>5. CASE ~WIP /\ ~(pos < LastWord(version))
    <3>1. Stored(version)
      <4>1. pos = LastWord(version) BY <2>1, <2>5
      <4> QED BY <2>2, <2>5, <4>1, WrittenIsStored DEF TypeOK
    <3> QED BY <2>1, <2>5, <3>1
  <2> QED BY <2>3, <2>4, <2>5
<1> QED BY <1>1, <1>2, <1>3, <1>4

\* A cycle ends: the erase leaves an erased sector, the program its word, the
\* register write registers that are as plain as the old ones.
LEMMA ChipStep ==
    ASSUME IInv, TypeOK', ChipFinishes
    PROVE  IInv'
<1> USE DEF IInv, settled, chipVars
<1> USE DEF RegistersPlain, CycleInFile, ChipKnown, FlagsKnown, RewriteOpen,
            Progress, Whole, LockDone, OutcomeKnown
<1> USE DEF IdleStages, EarlyFlags, LateFlags, SaveStages, FlagsStages,
            EraseStages, WriteStages
<1> USE DEF WIP, LockedSoon, WrittenTo, AllErased, Stored
<1> USE DEF ChipFinishes, CycleEnds, progVars
<1>0. /\ busy'.op = "idle" /\ wel' = FALSE
      /\ mem \in [Window -> [Word -> Content]]
      /\ Target \in Window
      /\ busy.op \in {"erase", "program", "wrsr"}
  BY CycleFields, SaveAssumption DEF TypeOK, ChipTypeOK, Cycle
<1>1. CASE busy.op = "erase"
  <2>1. mem'[Target] = [w \in Word |-> Erased] BY <1>0, <1>1
  <2>2. pc = "erasePoll" => AllErased' BY <2>1
  <2>3. pc # "writePoll" \/ ~(busy = ProgramCycle(Target, pos, ImageWord(version, pos)))
    BY <1>1, CycleFields
  <2>4. sr' = sr BY <1>1
  <2>5. Progress' BY <1>0, <1>1, <2>2, <2>3
  <2>6. Whole' BY <1>1
  <2>7. LockDone' BY <1>0, <1>1, <2>4
  <2> QED BY <1>0, <1>1, <2>4, <2>5, <2>6, <2>7
<1>2. CASE busy.op = "program"
  <2>1. sr' = sr BY <1>2
  <2>2. ASSUME pc = "writePoll" PROVE WrittenTo(pos + 1)'
    <3>1. /\ busy = ProgramCycle(Target, pos, ImageWord(version, pos))
          /\ WrittenTo(pos)
      BY <1>2, <2>2
    <3>2. /\ busy.sector = Target /\ busy.word = pos
          /\ busy.content = ImageWord(version, pos)
      BY <3>1, CycleFields
    <3>3. pos \in Word BY <2>2, InSector DEF TypeOK
    <3>4. mem[Target][pos] = Erased BY <3>1, <3>3 DEF Word
    <3>5. mem'[Target] = [mem[Target] EXCEPT ![pos] = ImageWord(version, pos)]
      BY <1>0, <1>2, <3>2, <3>3, <3>4 DEF Programmed
    <3>6. mem[Target] \in [Word -> Content] BY <1>0
    <3>7. \A w \in Word : w \in Int /\ (w < pos + 1 <=> w < pos \/ w = pos)
      BY GeometryAssumption DEF Word, TypeOK
    <3>8. pos' = pos /\ version' = version OBVIOUS
    <3>9. \A w \in Word : mem'[Target][w] =
             IF w < pos + 1 THEN ImageWord(version, w) ELSE Erased
      BY <3>1, <3>3, <3>5, <3>6, <3>7
    <3> QED BY <3>8, <3>9 DEF ImageWord
  <2>3. pc # "erasePoll" \/ ~(busy = EraseCycle(Target)) BY <1>2, CycleFields
  <2>4. Progress' BY <1>0, <1>2, <2>2, <2>3
  <2>5. Whole' BY <1>2
  <2>6. LockDone' BY <1>0, <1>2, <2>1
  <2> QED BY <1>0, <1>2, <2>1, <2>4, <2>5, <2>6
<1>3. CASE busy.op = "wrsr"
  <2>0. busy.reg \in StatusRegister BY DEF TypeOK, ChipTypeOK, Cycle
  <2>1. /\ mem' = mem
        /\ Plain(sr') <=> Plain(busy.reg)
        /\ IsLocked(sr') <=> IsLocked(busy.reg)
    BY <1>3, <2>0, PlainLatched
  <2>2. RegistersPlain' BY <1>0, <1>3, <2>1
  <2>3. LockedSoon => LockedSoon' BY <1>0, <1>3, <2>1
  <2>4. FlagsKnown' BY <1>0, <1>3, <2>1, <2>3
  <2>5. Progress' BY <1>0, <1>3, <2>1, CycleFields
  <2>6. Whole' BY <1>0, <2>1
  <2>7. LockDone' BY <1>0, <1>3, <2>1, <2>3
  <2> QED BY <1>0, <1>3, <2>2, <2>4, <2>5, <2>6, <2>7
<1> QED BY <1>0, <1>1, <1>2, <1>3

\* After a power failure the program starts again; only the registers and the
\* sector of the file can have changed.
LEMMA PowerStep ==
    ASSUME IInv, TypeOK', LosePower
    PROVE  IInv'
<1> USE DEF IInv, settled, chipVars
<1> USE DEF RegistersPlain, CycleInFile, ChipKnown, FlagsKnown, RewriteOpen,
            Progress, Whole, LockDone, OutcomeKnown
<1> USE DEF IdleStages, EarlyFlags, LateFlags, SaveStages, FlagsStages,
            EraseStages, WriteStages
<1> USE DEF WIP, LockedSoon, WrittenTo, AllErased, Stored
<1> USE DEF LosePower, PowerCycle
<1>1. busy'.op = "idle" BY CycleFields
<1>2. sr \in StatusRegister /\ busy.reg \in StatusRegister
  BY DEF TypeOK, ChipTypeOK, Cycle
<1>3. Plain(sr')
  <2>1. busy.op # "wrsr" => sr' = AtPowerUp(sr)
        /\ (busy.op = "wrsr" => sr' \in {AtPowerUp(sr), AtPowerUp(Latched(busy.reg))})
    OBVIOUS
  <2>2. busy.op = "wrsr" => /\ Latched(busy.reg) \in StatusRegister
                            /\ Plain(Latched(busy.reg))
    BY <1>2, LatchedBits, PlainLatched
  <2> QED BY <1>2, <2>1, <2>2, PlainAtPowerUp
<1>4. RegistersPlain' BY <1>1, <1>3
<1> QED BY <1>1, <1>4

\* Every step keeps it.
LEMMA StepIInv == IInv /\ [Next]_vars => IInv'
<1> SUFFICES ASSUME IInv, [Next]_vars PROVE IInv' OBVIOUS
<1>1. TypeOK' BY StepTypes DEF IInv
<1> QED BY <1>1, QuietSteps, FlagsWriteStatusStep, EraseSectorStep,
        WriteWordStep, WaitSteps, ChipStep, PowerStep
        DEF Next, SaveStep, LockStep, ArrayStep

\* So it always holds, given registers only the main menu has written.
LEMMA Inductive ==
    ASSUME MainMenuOnly
    PROVE  Spec => []IInv
<1>1. Init => IInv BY InitIInv
<1>2. IInv /\ [Next]_vars => IInv' BY StepIInv
<1> QED BY <1>1, <1>2, PTL DEF Spec

-----------------------------------------------------------------------------
\* save_flash never sends an erase or a write to a sector the chip protects,
\* although it only looks at the all-or-nothing lock of the main menu.
THEOREM RewritesAreUnprotected ==
    ASSUME MainMenuOnly
    PROVE  Spec => []RewriteUnprotected
<1>1. IInv => RewriteUnprotected
  BY PlainOpen DEF IInv, RegistersPlain, RewriteOpen, RewriteUnprotected
<1> QED BY <1>1, Inductive, PTL

\* Whenever save_flash prints "Done", all of the new list is in flash.
THEOREM SavesAreStored ==
    ASSUME MainMenuOnly
    PROVE  Spec => []SavedIsStored
<1>1. IInv => SavedIsStored BY DEF IInv, Whole, SavedIsStored
<1> QED BY <1>1, Inductive, PTL

\* Whenever save_flash prints "Done", the lock is or will be what the write
\* protect toggle of the menu says.
THEOREM LocksFollowToggle ==
    ASSUME MainMenuOnly
    PROVE  Spec => []LockFollowsToggle
<1>1. IInv => LockFollowsToggle BY DEF IInv, LockDone, LockFollowsToggle
<1> QED BY <1>1, Inductive, PTL

-----------------------------------------------------------------------------
(* The file, from any registers: what is in flash and on its way there at  *)
(* every moment, also behind a save that has given up waiting, and behind  *)
(* one whose commands the chip has refused.                                *)

\* Where the program knows what the chip is doing.  The lockdown menu may leave
\* a register write behind.
ChipReady ==
    /\ pc = "menu" => busy.op \in {"idle", "wrsr"}
    /\ pc \in IdleStages \ {"menu"} => ~WIP
    /\ pc \in {"eraseSE", "writePP", "flagsWRSR"} => wel

\* Where a save unlocks it has found all of the lock, and the check behind the
\* unlock meets a register write only while that lock stands.
UnlockWaited ==
    /\ pc \in EarlyFlags /\ ~lockArg => IsLocked(sr)
    /\ pc \in LateFlags \cup {"lockedAfterUnlock"} /\ ~lockArg =>
          \/ ~WIP
          \/ busy.op = "wrsr" /\ IsLocked(sr)

\* While the file is rewritten no register changes; a protected sector leaves
\* the chip idle and the program none the wiser, an open one gets the image.
RewriteTried ==
    pc \in EraseStages \cup WriteStages =>
        /\ ~IsLocked(sr)
        /\ IF Protected(sr, Target) THEN ~WIP ELSE Progress /\ busy.op # "wrsr"

\* A save that gives up on the chip leaves it as the rewrite had it.
FailedOpen ==
    pc = "returned" /\ outcome = "failed" => ~IsLocked(sr) /\ busy.op # "wrsr"

\* Behind the last word only registers are written.
LockLast ==
    (pc \in FlagsStages /\ lockArg) \/ pc = "lockedAtEnd"
        \/ (pc = "returned" /\ outcome = "saved")
    => busy.op \in {"idle", "wrsr"}

StageInv ==
    ChipReady /\ UnlockWaited /\ RewriteTried /\ FailedOpen /\ LockLast /\ OutcomeKnown

AnyInv == TypeOK /\ CycleInFile /\ Positions /\ StageInv

\* The chip is idle at the start, and nothing is asked of it.
LEMMA InitAny == Init => AnyInv
<1> SUFFICES ASSUME Init PROVE AnyInv OBVIOUS
<1>1. TypeOK BY InitTypes
<1>2. CycleInFile BY CycleFields DEF Init, CycleInFile
<1> QED BY <1>1, <1>2, CycleFields
        DEF Init, AnyInv, StageInv, Positions, ChipReady, UnlockWaited, RewriteTried,
            FailedOpen, LockLast, OutcomeKnown, IdleStages, EarlyFlags, LateFlags, WIP,
            SaveStages, FlagsStages, EraseStages, WriteStages

\* The steps that leave chip and image alone, or move only the write enable
\* latch or the jumper.
LEMMA QuietAny ==
    ASSUME AnyInv, Positions', BeginSave => ~WIP,
           \/ Boot \/ UserStep \/ ResetAfterSave
           \/ CheckLockedAtEntry \/ CheckLockedAfterUnlock \/ CheckLockedAtEnd
           \/ FlagsReadSR1 \/ FlagsReadSR2
           \/ FlagsWriteEnable \/ FlagsWriteDisable
           \/ EraseWriteEnable \/ WriteWriteEnable
           \/ MoveJumper \/ UNCHANGED vars
    PROVE  StageInv'
<1> USE DEF AnyInv, StageInv, Positions, settled, chipVars
<1> USE DEF ChipReady, UnlockWaited, RewriteTried, FailedOpen, LockLast, OutcomeKnown, Progress
<1> USE DEF IdleStages, EarlyFlags, LateFlags, SaveStages, FlagsStages,
            EraseStages, WriteStages
<1> USE DEF WIP, WrittenTo, AllErased
<1>1. CASE Boot BY <1>1 DEF Boot
<1>2. CASE ToggleWriteProtect BY <1>2 DEF ToggleWriteProtect
<1>3. CASE ExitWithoutSave BY <1>3 DEF ExitWithoutSave
<1>4. CASE BeginSave BY <1>4 DEF BeginSave
<1>5. CASE ResetAfterSave BY <1>5 DEF ResetAfterSave
<1>6. CASE CheckLockedAtEntry BY <1>6 DEF CheckLockedAtEntry
<1>7. CASE CheckLockedAfterUnlock BY <1>7 DEF CheckLockedAfterUnlock
<1>8. CASE CheckLockedAtEnd BY <1>8 DEF CheckLockedAtEnd
<1>9. CASE FlagsReadSR1 BY <1>9 DEF FlagsReadSR1
<1>10. CASE FlagsReadSR2 BY <1>10 DEF FlagsReadSR2
<1>11. CASE FlagsWriteEnable BY <1>11 DEF FlagsWriteEnable, WriteEnable
<1>12. CASE FlagsWriteDisable BY <1>12 DEF FlagsWriteDisable, WriteDisable
<1>13. CASE EraseWriteEnable BY <1>13 DEF EraseWriteEnable, WriteEnable
<1>14. CASE WriteWriteEnable BY <1>14 DEF WriteWriteEnable, WriteEnable
<1>15. CASE MoveJumper BY <1>15 DEF MoveJumper, progVars
<1>16. CASE UNCHANGED vars BY <1>16 DEF vars, progVars
<1> QED BY <1>1, <1>2, <1>3, <1>4, <1>5, <1>6, <1>7, <1>8, <1>9, <1>10, <1>11, <1>12, <1>13, <1>14, <1>15, <1>16 DEF UserStep

\* The commands that start a cycle.  An erase and a program start it if and
\* only if the sector of the file is not protected.
LEMMA CommandAny ==
    ASSUME AnyInv, Positions', FlagsWriteStatus \/ EraseSector \/ WriteWord
    PROVE  StageInv'
<1> USE DEF AnyInv, StageInv, Positions, settled, chipVars
<1> USE DEF ChipReady, UnlockWaited, RewriteTried, FailedOpen, LockLast, OutcomeKnown, Progress
<1> USE DEF IdleStages, EarlyFlags, LateFlags, SaveStages, FlagsStages,
            EraseStages, WriteStages
<1> USE DEF WIP, WrittenTo, AllErased
<1>1. CASE FlagsWriteStatus
  <2> USE <1>1 DEF FlagsWriteStatus, WriteStatus, StartCycle, AfterFlags
  <2>1. busy' = busy \/ busy'.op = "wrsr" BY CycleFields
  <2>2. ~WIP /\ sr' = sr /\ mem' = mem OBVIOUS
  <2> QED BY <2>1, <2>2
<1>2. CASE EraseSector
  <2> USE <1>2 DEF EraseSector, SectorErase, StartCycle
  <2>1. busy' = IF Protected(sr, Target) THEN busy ELSE EraseCycle(Target)
    OBVIOUS
  <2>2. EraseCycle(Target).op = "erase" BY CycleFields
  <2>3. Protected(sr, Target)' = Protected(sr, Target)
    BY DEF Protected, Span, BP, Bit
  <2> QED BY <2>1, <2>2, <2>3
<1>3. CASE WriteWord
  <2> USE <1>3 DEF WriteWord
  <2>1. SectorAt(pos) = Target /\ WordAt(pos) = pos
    BY InSector DEF TypeOK
  <2>2. busy' = IF Protected(sr, Target) THEN busy
                ELSE ProgramCycle(Target, pos, ImageWord(version, pos))
    BY <2>1 DEF PageProgram, StartCycle
  <2>3. ProgramCycle(Target, pos, ImageWord(version, pos)).op = "program"
    BY CycleFields
  <2>4. UNCHANGED <<mem, sr, wpLow, pos, version, lockArg, outcome>>
    BY DEF PageProgram, StartCycle
  <2>5. Protected(sr, Target)' = Protected(sr, Target)
    BY <2>4 DEF Protected, Span, BP, Bit
  <2> QED BY <2>2, <2>3, <2>4, <2>5 DEF ImageWord
<1> QED BY <1>1, <1>2, <1>3

\* The four places that wait for the chip.
LEMMA WaitAny ==
    ASSUME AnyInv, Positions', FlagsWait \/ FlagsWaitWRDI \/ EraseWait \/ WriteWait
    PROVE  StageInv'
<1> USE DEF AnyInv, StageInv, Positions, settled, chipVars
<1> USE DEF ChipReady, UnlockWaited, RewriteTried, FailedOpen, LockLast, OutcomeKnown
<1> USE DEF IdleStages, EarlyFlags, LateFlags, SaveStages, FlagsStages,
            EraseStages, WriteStages
<1> USE DEF WIP, WrittenTo, AllErased
<1>1. CASE FlagsWait BY <1>1 DEF FlagsWait, Poll
<1>2. CASE FlagsWaitWRDI BY <1>2 DEF FlagsWaitWRDI, Poll, AfterFlags
<1>3. CASE EraseWait
  <2> USE <1>3 DEF EraseWait, Poll
  <2>1. /\ UNCHANGED <<mem, sr, busy, pos, version, lockArg>>
        /\ Protected(sr, Target)' = Protected(sr, Target)
    BY DEF Protected, Span, BP, Bit
  <2>2. CASE WIP BY <2>1, <2>2 DEF Progress
  <2>3. CASE ~WIP
    <3>1. pc' = "writeWREN" /\ outcome' = outcome BY <2>3
    <3>2. ~Protected(sr, Target) => WrittenTo(0)
      <4>1. ~Protected(sr, Target) => AllErased BY <2>3, CycleFields DEF Progress
      <4>2. \A w \in Word : ~(w < 0) BY GeometryAssumption DEF Word
      <4> QED BY <4>1, <4>2
    <3>3. ~Protected(sr, Target) => Progress' /\ busy'.op # "wrsr"
      BY <2>1, <2>3, <3>1, <3>2 DEF Progress, ImageWord
    <3> QED BY <2>1, <2>3, <3>1, <3>3
  <2> QED BY <2>2, <2>3
<1>4. CASE WriteWait
  <2> USE <1>4 DEF WriteWait, AfterWrite, Poll
  <2>1. /\ UNCHANGED <<mem, sr, busy, version>>
        /\ Protected(sr, Target)' = Protected(sr, Target)
    BY DEF Protected, Span, BP, Bit
  <2>2. CASE WIP
    <3>1. pos' = pos /\ (pc' = pc \/ (pc' = "returned" /\ outcome' = "failed"))
      BY <2>2
    <3>2. ~lockArg' BY <3>1
    <3> QED BY <2>1, <2>2, <3>1, <3>2 DEF Progress, ImageWord
  <2>3. CASE ~WIP /\ pos < LastWord(version)
    <3>1. pc' = "writeWREN" /\ pos' = pos + 1 /\ outcome' = outcome
      BY <2>3
    <3>2. ~lockArg' BY <3>1
    <3>3. ~Protected(sr, Target) => WrittenTo(pos + 1)
      BY <2>3, CycleFields DEF Progress
    <3>4. ~Protected(sr, Target) => Progress' /\ busy'.op # "wrsr"
      BY <2>1, <2>3, <3>1, <3>2, <3>3 DEF Progress, ImageWord
    <3> QED BY <2>1, <2>3, <3>1, <3>2, <3>4
  <2>4. CASE ~WIP /\ ~(pos < LastWord(version))
    <3>1. /\ pc' = IF toggle THEN "flagsRDSR1" ELSE "lockedAtEnd"
          /\ outcome' = outcome /\ lockArg' = (lockArg \/ pc' = "flagsRDSR1")
      BY <2>4
    <3>2. busy'.op = "idle" BY <2>1, <2>4
    <3> QED BY <2>1, <2>4, <3>1, <3>2
  <2> QED BY <2>2, <2>3, <2>4
<1> QED BY <1>1, <1>2, <1>3, <1>4

\* A cycle ends: an erase leaves an erased sector, a program its word.
LEMMA ChipAny ==
    ASSUME AnyInv, ChipFinishes
    PROVE  StageInv'
<1> USE DEF AnyInv, StageInv, Positions, ChipFinishes, CycleEnds, progVars
<1> USE DEF ChipReady, UnlockWaited, RewriteTried, FailedOpen, LockLast, OutcomeKnown
<1> USE DEF IdleStages, EarlyFlags, LateFlags, SaveStages, FlagsStages,
            EraseStages, WriteStages
<1> USE DEF WIP, WrittenTo, AllErased
<1>0. /\ busy'.op = "idle"
      /\ mem \in [Window -> [Word -> Content]]
      /\ Target \in Window
      /\ busy.op \in {"erase", "program", "wrsr"}
  BY CycleFields, SaveAssumption DEF TypeOK, ChipTypeOK, Cycle
<1>1. ChipReady' /\ LockLast' /\ OutcomeKnown' BY <1>0
<1>2. UnlockWaited' BY <1>0
<1>3. ASSUME pc \in EraseStages \cup WriteStages, ~Protected(sr, Target)
      PROVE  Progress'
  <2>1. Progress /\ busy.op # "wrsr" BY <1>3
  <2>2. pc \in {"erasePoll", "writePoll"} BY <1>3 DEF Progress
  <2>3. CASE pc = "erasePoll"
    <3>1. busy = EraseCycle(Target) BY <2>1, <2>3 DEF Progress
    <3>2. AllErased' BY <1>0, <3>1, CycleFields
    <3> QED BY <1>0, <2>3, <3>2 DEF Progress
  <2>4. CASE pc = "writePoll"
    <3>1. /\ busy = ProgramCycle(Target, pos, ImageWord(version, pos))
          /\ WrittenTo(pos)
      BY <2>1, <2>4 DEF Progress
    <3>2. /\ busy.op = "program" /\ busy.sector = Target /\ busy.word = pos
          /\ busy.content = ImageWord(version, pos)
      BY <3>1, CycleFields
    <3>3. pos \in Word BY <2>4, InSector DEF TypeOK
    <3>4. mem[Target][pos] = Erased BY <3>1, <3>3 DEF Word
    <3>5. mem'[Target] = [mem[Target] EXCEPT ![pos] = ImageWord(version, pos)]
      BY <1>0, <3>2, <3>3, <3>4 DEF Programmed
    <3>6. mem[Target] \in [Word -> Content] BY <1>0
    <3>7. \A w \in Word : w \in Int /\ (w < pos + 1 <=> w < pos \/ w = pos)
      BY GeometryAssumption DEF Word, TypeOK
    <3>8. pos' = pos /\ version' = version OBVIOUS
    <3>9. \A w \in Word : mem'[Target][w] =
             IF w < pos + 1 THEN ImageWord(version, w) ELSE Erased
      BY <3>1, <3>3, <3>5, <3>6, <3>7
    <3>10. WrittenTo(pos + 1)' BY <3>8, <3>9 DEF ImageWord
    <3> QED BY <1>0, <2>4, <3>10 DEF Progress, LastWord
  <2> QED BY <2>2, <2>3, <2>4
<1>4. RewriteTried'
  <2> SUFFICES ASSUME pc' \in EraseStages \cup WriteStages
               PROVE  /\ ~IsLocked(sr)'
                      /\ ~Protected(sr, Target)' => Progress' /\ busy'.op # "wrsr"
    BY <1>0
  <2>1. busy.op # "wrsr" /\ ~IsLocked(sr) BY <1>0
  <2>2. sr' = sr BY <2>1
  <2>3. Protected(sr, Target)' = Protected(sr, Target)
    BY <2>2 DEF Protected, Span, BP, Bit
  <2>4. ~Protected(sr, Target) => Progress' BY <1>3
  <2> QED BY <1>0, <2>1, <2>2, <2>3, <2>4
<1>5. FailedOpen' BY <1>0
<1> QED BY <1>1, <1>2, <1>4, <1>5

\* After a power failure the program starts again.
LEMMA PowerAny ==
    ASSUME AnyInv, LosePower
    PROVE  StageInv'
BY DEF AnyInv, StageInv, LosePower, ChipReady, UnlockWaited, RewriteTried,
       FailedOpen, LockLast, OutcomeKnown, IdleStages, EarlyFlags, LateFlags, SaveStages,
       FlagsStages, EraseStages, WriteStages

\* Every step keeps it, where a save begins on an idle chip.
LEMMA StepAny ==
    ASSUME AnyInv, BeginSave => ~WIP, [Next]_vars
    PROVE  AnyInv'
<1>1. TypeOK' /\ Positions' /\ CycleInFile'
  BY StepTypes, StepPositions, StepCycleInFile DEF AnyInv
<1>2. StageInv'
  BY <1>1, QuietAny, CommandAny, WaitAny, ChipAny, PowerAny
     DEF Next, SaveStep, LockStep, ArrayStep
<1> QED BY <1>1, <1>2 DEF AnyInv, StageInv

\* The save has not sent its erase.
Untouched ==
    \/ pc \in {"lockedAtEntry", "lockedAfterUnlock", "eraseWREN", "eraseSE"}
    \/ pc \in FlagsStages /\ ~lockArg

SavingKnown ==
    /\ outcome = "saving" => pc \in SaveStages
    /\ Untouched => ~touched
    /\ pc = "erasePoll" \/ pc \in WriteStages => touched

\* A cycle on the array belongs to a save that runs or has failed; a program
\* is the one of the word at pos, over the words in front of it.
CycleKnown ==
    /\ busy.op \in {"erase", "program"} => outcome \in {"saving", "failed"} /\ touched
    /\ busy.op = "program" =>
          /\ pos <= LastWord(version)
          /\ busy = ProgramCycle(Target, pos, ImageWord(version, pos))
          /\ WrittenTo(pos)

\* Nothing in flash is newer than the list being saved, and of that list there
\* is nothing until the erase is over.
NoWordsOf(v) == \A w \in Word : mem[Target][w] # <<v, w>>
Newest ==
    /\ \A v \in 0..MaxSaves : v > version => NoWordsOf(v)
    /\ Untouched \/ busy.op = "erase" => NoWordsOf(version)

FileInv == SavingKnown /\ CycleKnown /\ Newest /\ WrittenInOrder

\* A stored version is the only one: its first word tells.
LEMMA StoredOnce ==
    ASSUME NEW v \in 0..MaxSaves, Stored(v)
    PROVE  /\ mem[Target][0] = <<v, 0>>
           /\ StoredFile = v
<1>1. \A u \in 0..MaxSaves : 0 \in TextWords(u)
  BY FitAssumption, GeometryAssumption DEF TextWords, Word
<1>2. \A u \in 0..MaxSaves : Stored(u) => mem[Target][0] = <<u, 0>>
  BY <1>1 DEF Stored
<1>3. \A u \in 0..MaxSaves : Stored(u) => u = v
  BY <1>2
<1> QED BY <1>2, <1>3 DEF StoredFile

\* Contents that are no word of any version.
LEMMA NoVersions ==
    ASSUME NEW v \in 0..MaxSaves, NEW w
    PROVE  Erased # <<v, w>> /\ Damaged # <<v, w>> /\ Junk # <<v, w>>
<1>1. v # -1 /\ v # -2 /\ v # -3 BY SaveAssumption
<1> QED BY <1>1 DEF Erased, Damaged, Junk

\* A beginning of the image holds a beginning of the text, and nothing newer.
LEMMA BeginningInOrder ==
    ASSUME version \in 0..MaxSaves, NEW n \in Nat, WrittenTo(n)
    PROVE  /\ WrittenInOrder
           /\ \A v \in 0..MaxSaves : v # version => NoWordsOf(v)
<1>1. ASSUME NEW w \in Word, NEW u \in Nat PROVE ImageWord(u, w) \in {<<u, w>>, Junk}
  BY DEF ImageWord
<1>2. ASSUME NEW v \in 0..MaxSaves, v # version, NEW w \in Word
      PROVE  mem[Target][w] # <<v, w>>
  <2>1. mem[Target][w] \in {<<version, w>>, Junk, Erased}
    BY DEF WrittenTo, ImageWord
  <2> QED BY <1>2, <2>1, NoVersions
<1>3. ASSUME NEW w \in TextWords(version), NEW u \in Word,
             mem[Target][w] = <<version, w>>, u < w
      PROVE  mem[Target][u] = <<version, u>>
  <2>1. w \in Word /\ w \in Int /\ u \in Int /\ 4 * w < ListBytes[version]
    BY GeometryAssumption DEF TextWords, Word
  <2>2. w < n BY <1>3, <2>1, NoVersions DEF WrittenTo
  <2>3. u < n BY <1>3, <2>1, <2>2
  <2>4. 4 * u < ListBytes[version] BY <1>3, <2>1, SaveAssumption
  <2> QED BY <2>3, <2>4 DEF WrittenTo, ImageWord
<1> QED BY <1>2, <1>3 DEF WrittenInOrder, NoWordsOf

\* At the start the first version is stored, and nothing else.
LEMMA InitFileInv == Init => FileInv
<1> SUFFICES ASSUME Init PROVE FileInv OBVIOUS
<1>0. 0 \in 0..MaxSaves BY SaveAssumption
<1>1. SavingKnown
  BY DEF Init, SavingKnown, Untouched, FlagsStages, WriteStages
<1>2. CycleKnown BY CycleFields DEF Init, CycleKnown
<1>3. WrittenTo(LastWord(0) + 1)
  <2>1. LastWord(0) \in Nat /\ \A w \in Word : w \in Int
    BY <1>0, SaveAssumption, GeometryAssumption DEF LastWord, Word
  <2>2. \A w \in Word : w <= LastWord(0) <=> w < LastWord(0) + 1 BY <2>1
  <2> QED BY <1>0, <2>2, SaveAssumption DEF Init, WrittenTo
<1>4. LastWord(0) + 1 \in Nat
  BY <1>0, SaveAssumption DEF LastWord
<1>5. version = 0 BY DEF Init
<1>6. WrittenInOrder /\ \A v \in 0..MaxSaves : v # 0 => NoWordsOf(v)
  BY <1>0, <1>3, <1>4, <1>5, BeginningInOrder
<1>7. Newest
  BY <1>5, <1>6, CycleFields DEF Init, Newest, Untouched, FlagsStages
<1> QED BY <1>1, <1>2, <1>6, <1>7 DEF FileInv

\* A save that begins on an idle chip has everything before it, whatever the
\* saves before it have left: the number of its list is above all in flash.
LEMMA BeginFresh ==
    ASSUME TypeOK, TypeOK', BeginSave, ~WIP,
           \A v \in 0..MaxSaves : v > version => NoWordsOf(v)
    PROVE  StageInv' /\ FileInv'
<1> USE DEF BeginSave, settled, chipVars, SaveStages, FlagsStages, EraseStages,
            WriteStages, Untouched, WIP
<1>1. /\ mem' = mem /\ busy' = busy /\ busy.op = "idle"
      /\ version' = version + 1
      /\ version \in 0..MaxSaves /\ version' \in 0..MaxSaves
  BY DEF TypeOK
<1>2. NoWordsOf(version') /\ \A v \in 0..MaxSaves : v > version' => NoWordsOf(v)
  BY <1>1
<1>3. Newest' BY <1>1, <1>2 DEF Newest, NoWordsOf
<1>4. WrittenInOrder' BY <1>1, <1>2 DEF WrittenInOrder, NoWordsOf, TextWords
<1>5. SavingKnown' BY DEF SavingKnown
<1>6. CycleKnown' BY <1>1 DEF CycleKnown
<1>7. StageInv'
  BY <1>1 DEF StageInv, ChipReady, UnlockWaited, RewriteTried, FailedOpen, LockLast,
     OutcomeKnown, IdleStages, EarlyFlags, LateFlags
<1> QED BY <1>3, <1>4, <1>5, <1>6, <1>7 DEF FileInv

\* The keys of the menu and the start of a session touch nothing; the number
\* of a new list is above all that are in flash.
LEMMA MenuFile ==
    ASSUME AnyInv, FileInv, TypeOK', BeginSave => ~WIP,
           Boot \/ UserStep \/ ResetAfterSave
    PROVE  FileInv'
<1> USE DEF FileInv, settled, chipVars, IdleStages, SaveStages, FlagsStages,
            EraseStages, WriteStages, Untouched, WIP
<1>0. /\ mem' = mem /\ busy' = busy
  BY DEF Boot, UserStep, ToggleWriteProtect, ExitWithoutSave, BeginSave,
         ResetAfterSave
<1>1. CASE BeginSave
  BY <1>1, BeginFresh DEF AnyInv, Newest
<1>2. CASE ~BeginSave
  <2> USE <1>2 DEF Boot, UserStep, ToggleWriteProtect, ExitWithoutSave, ResetAfterSave
  <2>1. /\ version' = version /\ pos' = pos /\ touched' = touched
        /\ lockArg' = lockArg
        /\ pc' \in {"boot", "menu"}
        /\ outcome' = outcome \/ (outcome' = "idle" /\ ~WIP)
        /\ outcome = "saving" => outcome' # "saving"
    BY DEF SavingKnown
  <2>2. SavingKnown' BY <2>1 DEF SavingKnown
  <2>3. CycleKnown'
    BY <1>0, <2>1 DEF CycleKnown, WrittenTo
  <2>4. Newest' BY <1>0, <2>1 DEF Newest, NoWordsOf
  <2>5. WrittenInOrder' BY <1>0, <2>1 DEF WrittenInOrder
  <2> QED BY <2>2, <2>3, <2>4, <2>5
<1> QED BY <1>1, <1>2

\* A step that leaves array and list alone keeps the order of the words.
LEMMA SameFile ==
    ASSUME mem' = mem, version' = version
    PROVE  /\ WrittenInOrder => WrittenInOrder'
           /\ \A v : NoWordsOf(v)' <=> NoWordsOf(v)
           /\ pos' = pos => (WrittenTo(pos)' <=> WrittenTo(pos))
BY DEF WrittenInOrder, NoWordsOf, WrittenTo

\* The steps between the commands that start a cycle: they find out that the
\* file is still untouched, or already whole, when they end the save.
LEMMA QuietFile ==
    ASSUME AnyInv, FileInv, TypeOK',
           \/ CheckLockedAtEntry \/ CheckLockedAfterUnlock \/ CheckLockedAtEnd
           \/ FlagsReadSR1 \/ FlagsReadSR2
           \/ FlagsWriteEnable \/ FlagsWriteDisable
           \/ EraseWriteEnable \/ WriteWriteEnable
           \/ MoveJumper \/ UNCHANGED vars
    PROVE  FileInv'
<1> USE DEF settled, chipVars, IdleStages, SaveStages, FlagsStages,
            EraseStages, WriteStages, LateFlags, Untouched, WIP
<1> USE DEF CheckLockedAtEntry, CheckLockedAfterUnlock, CheckLockedAtEnd,
            FlagsReadSR1, FlagsReadSR2, FlagsWriteEnable, FlagsWriteDisable,
            EraseWriteEnable, WriteWriteEnable, WriteEnable, WriteDisable,
            MoveJumper, vars, progVars
<1>1. /\ mem' = mem /\ busy' = busy /\ version' = version /\ pos' = pos
      /\ touched' = touched
  OBVIOUS
<1>2. outcome' \in {"refused", "saved"} /\ outcome' # outcome =>
         busy.op \notin {"erase", "program"}
  BY DEF AnyInv, StageInv, Positions, UnlockWaited, LockLast
<1>3. outcome' = outcome \/ outcome' \in {"refused", "saved"}
  OBVIOUS
<1>4. Untouched' => Untouched OBVIOUS
<1>5. SavingKnown' BY DEF FileInv, SavingKnown
<1>6. CycleKnown' BY <1>1, <1>2, <1>3, SameFile DEF FileInv, CycleKnown
<1>7. Newest' BY <1>1, <1>4, SameFile DEF FileInv, Newest
<1> QED BY <1>1, <1>5, <1>6, <1>7, SameFile DEF FileInv

\* The three commands that start a cycle: a register write touches no word,
\* the erase begins over the old list, a program right behind the words
\* written so far.
LEMMA StartFile ==
    ASSUME AnyInv, FileInv, TypeOK', FlagsWriteStatus \/ EraseSector \/ WriteWord
    PROVE  FileInv'
<1> USE DEF settled, chipVars, IdleStages, SaveStages, FlagsStages,
            EraseStages, WriteStages, Untouched, WIP
<1>1. mem' = mem /\ version' = version /\ pos' = pos
  BY DEF FlagsWriteStatus, EraseSector, WriteWord, WriteStatus, SectorErase,
         PageProgram, StartCycle
<1>2. CASE FlagsWriteStatus
  <2> USE <1>2 DEF FlagsWriteStatus, WriteStatus, StartCycle, AfterFlags
  <2>1. busy'.op = "wrsr" \/ busy' = busy BY CycleFields
  <2>2. SavingKnown' BY DEF FileInv, SavingKnown
  <2>3. CycleKnown' BY <1>1, <2>1, SameFile DEF FileInv, CycleKnown
  <2>4. Newest' BY <1>1, <2>1, SameFile DEF FileInv, Newest
  <2> QED BY <1>1, <2>2, <2>3, <2>4, SameFile DEF FileInv
<1>3. CASE EraseSector
  <2> USE <1>3 DEF EraseSector
  <2>1. busy'.op \in {"idle", "erase"}
    <3>1. ~WIP BY DEF AnyInv, StageInv, ChipReady
    <3> QED BY <3>1, CycleFields DEF SectorErase, StartCycle
  <2>2. SavingKnown' BY DEF FileInv, SavingKnown
  <2>3. outcome' = "saving" BY DEF AnyInv, StageInv, OutcomeKnown
  <2>4. CycleKnown' BY <2>1, <2>3 DEF CycleKnown
  <2>5. Newest' BY <1>1, SameFile DEF FileInv, Newest
  <2> QED BY <1>1, <2>2, <2>4, <2>5, SameFile DEF FileInv
<1>4. CASE WriteWord
  <2> USE <1>4 DEF WriteWord
  <2>1. ~WIP /\ pos <= LastWord(version) /\ outcome = "saving"
    BY DEF AnyInv, StageInv, ChipReady, Positions, OutcomeKnown
  <2>2. \/ busy' = busy
        \/ /\ busy' = ProgramCycle(Target, pos, ImageWord(version, pos))
           /\ WrittenTo(pos)
    <3>1. SectorAt(pos) = Target /\ WordAt(pos) = pos
      BY <2>1, InSector DEF AnyInv, TypeOK
    <3>2. ~Protected(sr, Target) => WrittenTo(pos)
      BY DEF AnyInv, StageInv, RewriteTried, Progress
    <3> QED BY <3>1, <3>2 DEF PageProgram, StartCycle
  <2>3. busy' = busy \/ busy'.op = "program" BY <2>2, CycleFields
  <2>4. SavingKnown' BY DEF FileInv, SavingKnown
  <2>5. CycleKnown'
    BY <1>1, <2>1, <2>2, <2>3, SameFile DEF CycleKnown, FileInv, SavingKnown, LastWord, ImageWord
  <2>6. Newest' BY <1>1, <2>1, <2>3, SameFile DEF FileInv, Newest
  <2> QED BY <1>1, <2>4, <2>5, <2>6, SameFile DEF FileInv
<1> QED BY <1>2, <1>3, <1>4

\* Waiting for the chip: the position moves on only when it is idle.
LEMMA WaitFile ==
    ASSUME AnyInv, FileInv, TypeOK',
           FlagsWait \/ FlagsWaitWRDI \/ EraseWait \/ WriteWait
    PROVE  FileInv'
<1> USE DEF settled, chipVars, SaveStages, FlagsStages, EraseStages,
            WriteStages, LateFlags, Untouched, WIP
<1> USE DEF FlagsWait, FlagsWaitWRDI, EraseWait, WriteWait, Poll, AfterFlags,
            AfterWrite
<1>1. /\ mem' = mem /\ busy' = busy /\ version' = version /\ touched' = touched
      /\ pos' = pos \/ ~WIP
  OBVIOUS
<1>2. outcome' = outcome \/ (outcome' = "failed" /\ pc' = "returned")
  OBVIOUS
<1>3. Untouched' => Untouched BY DEF AnyInv, Positions
<1>4. SavingKnown'
  <2> USE DEF FileInv, SavingKnown
  <2>1. CASE FlagsWait \/ FlagsWaitWRDI BY <2>1
  <2>2. CASE EraseWait BY <2>2
  <2>3. CASE WriteWait
    <3>1. Untouched' => pc' = pc /\ ~lockArg' BY <2>3
    <3>2. pc' \in SaveStages \/ outcome' = "failed" BY <2>3
    <3> QED BY <2>3, <3>1, <3>2
  <2> QED BY <2>1, <2>2, <2>3
<1>5. CycleKnown' BY <1>1, <1>2, SameFile DEF FileInv, CycleKnown
<1>6. Newest' BY <1>1, <1>3, SameFile DEF FileInv, Newest
<1> QED BY <1>1, <1>4, <1>5, <1>6, SameFile DEF FileInv

\* Whatever a program over the word behind a beginning of the image leaves
\* there, the words that can be read are still a beginning of it.
LEMMA ProgramInOrder ==
    ASSUME TypeOK, Target \in Window, pos \in Word, WrittenTo(pos),
           NEW c \in {Damaged, Erased, ImageWord(version, pos)},
           mem' = [mem EXCEPT ![Target][pos] = c],
           version' = version
    PROVE  /\ WrittenInOrder'
           /\ \A v \in 0..MaxSaves : v # version => NoWordsOf(v)'
<1>1. /\ version \in 0..MaxSaves /\ pos \in Nat
      /\ mem[Target] \in [Word -> Content]
  BY GeometryAssumption DEF TypeOK, ChipTypeOK, Word
<1>2. /\ mem'[Target][pos] = c
      /\ \A w \in Word \ {pos} : mem'[Target][w] = mem[Target][w]
  BY <1>1 DEF TypeOK, ChipTypeOK
<1>3. ImageWord(version, pos) \in {<<version, pos>>, Junk} BY DEF ImageWord
<1>4. ASSUME NEW v \in 0..MaxSaves, v # version, NEW w \in Word
      PROVE  mem'[Target][w] # <<v, w>>
  <2>1. w # pos => mem[Target][w] # <<v, w>>
    BY <1>1, <1>4, BeginningInOrder DEF NoWordsOf
  <2>2. c # <<v, pos>> BY <1>3, <1>4, NoVersions
  <2> QED BY <1>2, <2>1, <2>2
<1>5. ASSUME NEW w \in TextWords(version), NEW u \in Word,
             mem'[Target][w] = <<version, w>>, u < w
      PROVE  mem'[Target][u] = <<version, u>>
  <2>1. w \in Word /\ w \in Int /\ u \in Int /\ 4 * w < ListBytes[version]
    BY GeometryAssumption DEF TextWords, Word
  <2>2. w <= pos
    <3>1. w # pos => mem[Target][w] # Erased BY <1>1, <1>2, <1>5, <2>1, NoVersions
    <3> QED BY <1>1, <2>1, <3>1 DEF WrittenTo
  <2>3. u < pos /\ u # pos BY <1>1, <1>5, <2>1, <2>2
  <2>4. 4 * u < ListBytes[version]
    <3>1. ListBytes[version] \in Nat BY <1>1, SaveAssumption
    <3>2. u < w BY <1>5
    <3> QED BY <2>1, <3>1, <3>2
  <2>5. mem[Target][u] = <<version, u>> BY <2>3, <2>4 DEF WrittenTo, ImageWord
  <2> QED BY <1>2, <2>3, <2>5
<1>6. WrittenInOrder' BY <1>5 DEF WrittenInOrder, TextWords
<1>7. \A v \in 0..MaxSaves : v # version => NoWordsOf(v)'
  BY <1>4 DEF NoWordsOf
<1> QED BY <1>6, <1>7

\* A sector that was erased or partly erased holds no words that it did not
\* hold before.
LEMMA EraseInOrder ==
    ASSUME TypeOK, Newest, busy.op = "erase", version' = version,
           \A w \in Word : mem'[Target][w] \in {Erased, Damaged, mem[Target][w]}
    PROVE  /\ WrittenInOrder'
           /\ \A v \in 0..MaxSaves : NoWordsOf(v) => NoWordsOf(v)'
           /\ NoWordsOf(version)'
<1>1. version \in 0..MaxSaves BY DEF TypeOK
<1>2. \A v \in 0..MaxSaves : NoWordsOf(v) => NoWordsOf(v)'
  BY NoVersions DEF NoWordsOf
<1>3. NoWordsOf(version)' BY <1>1, <1>2 DEF Newest, NoWordsOf
<1>4. WrittenInOrder' BY <1>3 DEF WrittenInOrder, NoWordsOf, TextWords
<1> QED BY <1>2, <1>3, <1>4

\* The end of a cycle: an erase leaves nothing of any list, a program one more
\* word of the new one.
LEMMA ChipFile ==
    ASSUME AnyInv, FileInv, TypeOK', ChipFinishes
    PROVE  FileInv'
<1> USE DEF ChipFinishes, CycleEnds, progVars
<1>0. /\ busy'.op = "idle" /\ version' = version
      /\ TypeOK /\ version \in 0..MaxSaves /\ pos \in Nat
      /\ mem \in [Window -> [Word -> Content]]
      /\ Target \in Window
      /\ busy.op \in {"erase", "program", "wrsr"}
  BY CycleFields, SaveAssumption DEF AnyInv, TypeOK, ChipTypeOK, Cycle, WIP
<1>1. SavingKnown' BY DEF FileInv, SavingKnown, Untouched
<1>2. CycleKnown' BY <1>0 DEF CycleKnown
<1>3. Untouched' => NoWordsOf(version)
  BY DEF FileInv, Newest, Untouched
<1>4. CASE busy.op = "erase"
  <2>1. \A w \in Word : mem'[Target][w] = Erased
    BY <1>0, <1>4 DEF AnyInv, CycleInFile
  <2>2. /\ WrittenInOrder' /\ NoWordsOf(version)'
        /\ \A v \in 0..MaxSaves : NoWordsOf(v) => NoWordsOf(v)'
    BY <1>0, <1>4, <2>1, EraseInOrder DEF FileInv
  <2>3. Newest' BY <1>0, <2>2 DEF FileInv, Newest, NoWordsOf
  <2> QED BY <1>1, <1>2, <2>2, <2>3 DEF FileInv
<1>5. CASE busy.op = "program"
  <2>1. /\ pos <= LastWord(version) /\ WrittenTo(pos)
        /\ busy.sector = Target /\ busy.word = pos
        /\ busy.content = ImageWord(version, pos)
    BY <1>5, CycleFields DEF FileInv, CycleKnown
  <2>2. pos \in Word BY <1>0, <2>1, InSector
  <2>3. mem[Target][pos] = Erased BY <1>0, <2>1, <2>2 DEF WrittenTo
  <2>4. mem' = [mem EXCEPT ![Target][pos] = ImageWord(version, pos)]
    BY <1>0, <1>5, <2>1, <2>2, <2>3 DEF Programmed
  <2>5. /\ WrittenInOrder'
        /\ \A v \in 0..MaxSaves : v # version => NoWordsOf(v)'
    BY <1>0, <2>1, <2>2, <2>4, ProgramInOrder
  <2>6. ~Untouched'
    BY <1>5 DEF FileInv, CycleKnown, SavingKnown, Untouched
  <2>7. Newest' BY <1>0, <2>5, <2>6 DEF Newest, NoWordsOf
  <2> QED BY <1>1, <1>2, <2>5, <2>7 DEF FileInv
<1>6. CASE busy.op = "wrsr"
  <2>1. mem' = mem BY <1>6
  <2>2. Newest' BY <1>0, <1>3, <2>1, SameFile DEF FileInv, Newest
  <2> QED BY <1>0, <1>1, <1>2, <2>1, <2>2, SameFile DEF FileInv
<1> QED BY <1>0, <1>4, <1>5, <1>6

\* A power failure, in the middle of a cycle or not.
LEMMA PowerFile ==
    ASSUME AnyInv, FileInv, TypeOK', LosePower
    PROVE  FileInv'
<1> USE DEF LosePower, PowerCycle
<1>0. /\ busy'.op = "idle" /\ version' = version /\ ~Untouched'
      /\ TypeOK /\ version \in 0..MaxSaves /\ pos \in Nat
      /\ mem \in [Window -> [Word -> Content]]
      /\ Target \in Window
  BY CycleFields, SaveAssumption DEF AnyInv, TypeOK, ChipTypeOK, Untouched, FlagsStages
<1>1. SavingKnown'
  BY <1>0 DEF SavingKnown, WriteStages
<1>2. CycleKnown' BY <1>0 DEF CycleKnown
<1>3. CASE mem' = mem
  <2>1. Newest' BY <1>0, <1>3, SameFile DEF FileInv, Newest
  <2> QED BY <1>0, <1>1, <1>2, <1>3, <2>1, SameFile DEF FileInv
<1>4. CASE busy.op = "erase"
  <2>1. busy.sector = Target BY <1>4 DEF AnyInv, CycleInFile
  <2>2. PICK hit \in SUBSET Word :
           mem' = [mem EXCEPT ![Target] =
                      [w \in Word |-> IF w \in hit THEN Damaged ELSE @[w]]]
    BY <1>4, <2>1 DEF WIP
  <2>3. \A w \in Word : mem'[Target][w] \in {Erased, Damaged, mem[Target][w]}
    BY <1>0, <2>2
  <2>4. /\ WrittenInOrder'
        /\ \A v \in 0..MaxSaves : NoWordsOf(v) => NoWordsOf(v)'
    BY <1>0, <1>4, <2>3, EraseInOrder DEF FileInv
  <2>5. Newest' BY <1>0, <2>4 DEF FileInv, Newest, NoWordsOf
  <2> QED BY <1>1, <1>2, <2>4, <2>5 DEF FileInv
<1>5. CASE busy.op = "program"
  <2>1. /\ pos <= LastWord(version) /\ WrittenTo(pos)
        /\ busy.sector = Target /\ busy.word = pos
        /\ busy.content = ImageWord(version, pos)
    BY <1>5, CycleFields DEF FileInv, CycleKnown
  <2>2. pos \in Word BY <1>0, <2>1, InSector
  <2>3. mem[Target][pos] = Erased BY <1>0, <2>1, <2>2 DEF WrittenTo
  <2>4. PICK c \in {Damaged, Erased, ImageWord(version, pos)} :
           mem' = [mem EXCEPT ![Target][pos] = c]
    BY <1>5, <2>1, <2>3 DEF WIP
  <2>5. /\ WrittenInOrder'
        /\ \A v \in 0..MaxSaves : v # version => NoWordsOf(v)'
    BY <1>0, <2>1, <2>2, <2>4, ProgramInOrder
  <2>6. Newest' BY <1>0, <2>5 DEF Newest, NoWordsOf
  <2> QED BY <1>1, <1>2, <2>5, <2>6 DEF FileInv
<1> QED BY <1>3, <1>4, <1>5

\* Every step keeps what is known of the file beside the stage.
LEMMA StepFileInv ==
    ASSUME AnyInv, FileInv, BeginSave => ~WIP, [Next]_vars
    PROVE  AnyInv' /\ FileInv'
<1>1. AnyInv' BY StepAny
<1>2. TypeOK' BY <1>1 DEF AnyInv
<1> QED BY <1>1, <1>2, MenuFile, QuietFile, StartFile, WaitFile, ChipFile, PowerFile
        DEF Next, SaveStep, LockStep, ArrayStep

\* Beside no other program, main starts every save on an idle chip.
MenuIdle == pc = "menu" => ~WIP

\* Only saves make the chip busy.
LEMMA StepMenuIdle == AnyInv /\ MenuIdle /\ [Next]_vars => MenuIdle'
<1> SUFFICES ASSUME AnyInv, MenuIdle, [Next]_vars PROVE MenuIdle' OBVIOUS
<1> USE DEF MenuIdle, WIP, settled, chipVars
<1>1. CASE Boot BY <1>1 DEF Boot
<1>2. CASE UserStep
  BY <1>2 DEF UserStep, ToggleWriteProtect, ExitWithoutSave, BeginSave
<1>3. CASE ChipFinishes \/ LosePower
  BY <1>3, CycleFields DEF ChipFinishes, CycleEnds, LosePower
<1>4. CASE MoveJumper \/ UNCHANGED vars BY <1>4 DEF MoveJumper, vars, progVars
<1>5. CASE SaveStep \/ ResetAfterSave
  <2>1. pc' # "menu"
    BY <1>5 DEF ResetAfterSave, SaveStep, LockStep, CheckLockedAtEntry,
       CheckLockedAfterUnlock, CheckLockedAtEnd, FlagsReadSR1, FlagsReadSR2,
       FlagsWriteEnable, FlagsWriteStatus, FlagsWait, FlagsWriteDisable,
       FlagsWaitWRDI, ArrayStep, EraseWriteEnable, EraseSector, EraseWait,
       WriteWriteEnable, WriteWord, WriteWait, Poll, AfterFlags, AfterWrite
  <2> QED BY <2>1
<1> QED BY <1>1, <1>2, <1>3, <1>4, <1>5 DEF Next

\* So all three always hold.
LEMMA FileInductive == Spec => [](AnyInv /\ FileInv /\ MenuIdle)
<1> DEFINE I == AnyInv /\ FileInv /\ MenuIdle
<1>1. Init => I
  BY InitAny, InitFileInv DEF Init, MenuIdle
<1>2. I /\ [Next]_vars => I'
  BY StepFileInv, StepMenuIdle DEF MenuIdle, BeginSave
<1> QED BY <1>1, <1>2, PTL DEF Spec

\* Where the erase or a word fails behind the unlock, save_flash returns without
\* locking again: whatever the toggle says the board is left unlocked, and no
\* register write is on its way.
THEOREM FailedSavesStayUnlocked ==
    Spec => [](pc = "returned" /\ outcome = "failed" => ~IsLocked(sr) /\ busy.op # "wrsr")
<1>1. AnyInv => (pc = "returned" /\ outcome = "failed" => ~IsLocked(sr) /\ busy.op # "wrsr")
  BY DEF AnyInv, StageInv, FailedOpen
<1> QED BY <1>1, FileInductive, PTL

\* Whenever a save is cut short, by the supply or by a slow chip, the words of
\* the new list that are in flash are its first ones: the words save_flash
\* sends appear in the order it sends them.
THEOREM WordsAreInOrder == Spec => []WrittenInOrder
<1>1. FileInv => WrittenInOrder BY DEF FileInv
<1> QED BY <1>1, FileInductive, PTL

\* What a program cycle is about to do, as the end of the cycle and a power
\* failure see it.
LEMMA ProgramUnderWay ==
    ASSUME TypeOK, FileInv, busy.op = "program"
    PROVE  /\ busy.sector = Target /\ busy.word = pos
           /\ busy.content = ImageWord(version, pos)
           /\ pos \in Word /\ WrittenTo(pos)
           /\ mem[Target][pos] = Erased
<1>1. /\ pos <= LastWord(version) /\ WrittenTo(pos)
      /\ busy.sector = Target /\ busy.word = pos
      /\ busy.content = ImageWord(version, pos)
  BY CycleFields DEF FileInv, CycleKnown
<1>2. version \in 0..MaxSaves /\ pos \in Nat BY DEF TypeOK
<1>3. pos \in Word BY <1>1, <1>2, InSector
<1>4. mem[Target][pos] = Erased BY <1>1, <1>2, <1>3 DEF WrittenTo
<1> QED BY <1>1, <1>3, <1>4

\* A word that has not been damaged is damaged by a power failure only.
DamageStep ==
    \A s \in Window, w \in Word :
        mem'[s][w] = Damaged => mem[s][w] = Damaged \/ powerLosses' # powerLosses

\* A program under way meets an erased word.
LEMMA StepDamage ==
    ASSUME TypeOK, FileInv, [Next]_vars
    PROVE  DamageStep
<1> USE DEF DamageStep
<1>0. /\ mem \in [Window -> [Word -> Content]]
      /\ busy.op \in {"idle", "erase", "program", "wrsr"}
      /\ powerLosses \in Nat /\ Erased # Damaged
  BY DEF TypeOK, ChipTypeOK, Cycle, Erased, Damaged
<1>1. CASE LosePower BY <1>0, <1>1 DEF LosePower
<1>2. CASE ~LosePower /\ ~ChipFinishes BY <1>2, OthersKeepArray
<1>3. CASE ChipFinishes
  <2>1. CASE busy.op = "erase"
    BY <1>0, <1>3, <2>1 DEF ChipFinishes, CycleEnds
  <2>2. CASE busy.op = "program"
    <3>1. version \in 0..MaxSaves BY DEF TypeOK
    <3>2. ImageWord(version, pos) # Damaged
      BY <3>1, NoVersions DEF ImageWord, Junk, Damaged
    <3>3. mem' = [mem EXCEPT ![Target][pos] = ImageWord(version, pos)]
      BY <1>3, <2>2, ProgramUnderWay DEF ChipFinishes, CycleEnds, Programmed
    <3> QED BY <1>0, <3>2, <3>3
  <2>3. CASE busy.op = "wrsr" BY <1>3, <2>3 DEF ChipFinishes, CycleEnds
  <2> QED BY <1>0, <1>3, <2>1, <2>2, <2>3 DEF ChipFinishes, CycleEnds, WIP
<1> QED BY <1>1, <1>2, <1>3

\* A save programs no word twice with different content: only a power failure
\* in the middle of a cycle leaves a damaged word, in any sector of the chip.
THEOREM DamageNeedsPowerLoss == Spec => OnlyPowerLossDamages
<1>1. (AnyInv /\ FileInv) /\ [Next]_vars => [DamageStep]_vars
  BY StepDamage DEF AnyInv
<1> QED BY <1>1, FileInductive, PTL DEF Spec, OnlyPowerLossDamages, DamageStep

-----------------------------------------------------------------------------
(* Every save comes to an end: what is left of it, in four numbers.        *)

\* The parts of a save: look at the lock, unlock, erase, write, lock.
PartsLeft ==
    CASE pc = "lockedAtEntry"                                         -> 5
      [] (pc \in FlagsStages /\ ~lockArg) \/ pc = "lockedAfterUnlock" -> 4
      [] pc \in EraseStages                                           -> 3
      [] pc \in WriteStages                                           -> 2
      [] (pc \in FlagsStages /\ lockArg) \/ pc = "lockedAtEnd"        -> 1
      [] OTHER                                                        -> 0

WordsLeft == IF pc \in WriteStages THEN LastWord(version) - pos ELSE 0

\* The commands of a part, or of one word.
StagesLeft ==
    CASE pc = "flagsRDSR1"                              -> 7
      [] pc = "flagsRDSR2"                              -> 6
      [] pc = "flagsWREN"                               -> 5
      [] pc = "flagsWRSR"                               -> 4
      [] pc = "flagsWait"                               -> 3
      [] pc \in {"flagsWRDI", "eraseWREN", "writeWREN"} -> 2
      [] pc \in {"flagsWaitWRDI", "eraseSE", "writePP"} -> 1
      [] OTHER                                          -> 0

\* The fourth is what is left of the countdown while the chip is polled.
\* Nearer to the end, in lexicographic order.
Nearer ==
    \/ PartsLeft' < PartsLeft
    \/ /\ PartsLeft' = PartsLeft
       /\ \/ WordsLeft' < WordsLeft
          \/ /\ WordsLeft' = WordsLeft
             /\ \/ StagesLeft' < StagesLeft
                \/ StagesLeft' = StagesLeft /\ polls' < polls

\* The four are bounded.
LEMMA LeftIsBounded ==
    ASSUME TypeOK, Positions
    PROVE  /\ PartsLeft \in 0..5 /\ WordsLeft \in 0..LastWord(version)
           /\ StagesLeft \in 0..7 /\ polls \in 0..MaxPolls
<1>1. LastWord(version) \in Nat /\ pos \in Nat
  BY SaveAssumption DEF LastWord, TypeOK
<1>2. WordsLeft \in 0..LastWord(version)
  BY <1>1 DEF WordsLeft, Positions
<1>3. PartsLeft \in 0..5 BY DEF PartsLeft, FlagsStages, EraseStages, WriteStages
<1>4. StagesLeft \in 0..7 BY DEF StagesLeft
<1> QED BY <1>2, <1>3, <1>4 DEF TypeOK

\* Every step of a save is one towards its end, with a chip that answers and
\* with one that never does.
LEMMA SaveStepNearer ==
    ASSUME TypeOK, TypeOK', Positions, SaveStep
    PROVE  Nearer
<1> USE DEF Nearer, PartsLeft, WordsLeft, StagesLeft, FlagsStages, EraseStages, WriteStages
<1>1. CASE CheckLockedAtEntry BY <1>1 DEF CheckLockedAtEntry
<1>2. CASE CheckLockedAfterUnlock BY <1>2 DEF CheckLockedAfterUnlock, Positions
<1>3. CASE CheckLockedAtEnd BY <1>3 DEF CheckLockedAtEnd
<1>4. CASE FlagsReadSR1 BY <1>4 DEF FlagsReadSR1, TypeOK
<1>5. CASE FlagsReadSR2 BY <1>5 DEF FlagsReadSR2, TypeOK
<1>6. CASE FlagsWriteEnable BY <1>6 DEF FlagsWriteEnable, TypeOK
<1>7. CASE FlagsWriteStatus BY <1>7 DEF FlagsWriteStatus, AfterFlags, TypeOK
<1>8. CASE FlagsWait BY <1>8 DEF FlagsWait, Poll, TypeOK
<1>9. CASE FlagsWriteDisable BY <1>9 DEF FlagsWriteDisable, TypeOK
<1>10. CASE FlagsWaitWRDI BY <1>10 DEF FlagsWaitWRDI, Poll, AfterFlags, TypeOK
<1>11. CASE EraseWriteEnable BY <1>11 DEF EraseWriteEnable
<1>12. CASE EraseSector BY <1>12 DEF EraseSector
<1>13. CASE EraseWait BY <1>13 DEF EraseWait, Poll, TypeOK
<1>14. CASE WriteWriteEnable BY <1>14 DEF WriteWriteEnable, LastWord
<1>15. CASE WriteWord BY <1>15 DEF WriteWord, LastWord
<1>16. CASE WriteWait
  <2>1. /\ LastWord(version) \in Nat /\ pos \in Nat /\ polls \in Nat
        /\ LastWord(version)' = LastWord(version)
        /\ PartsLeft = 2 /\ WordsLeft = LastWord(version) - pos /\ StagesLeft = 0
    BY <1>16, SaveAssumption DEF WriteWait, Poll, LastWord, TypeOK
  <2>2. CASE WIP
    <3>1. /\ pos' = pos
          /\ \/ pc' = pc /\ polls' = polls - 1
             \/ pc' = "returned"
      BY <1>16, <2>2 DEF WriteWait, Poll, AfterWrite, WIP
    <3>2. pc = "writePoll" BY <1>16 DEF WriteWait
    <3> QED BY <2>1, <3>1, <3>2
  <2>3. CASE ~WIP /\ pos < LastWord(version)
    <3>1. pos' = pos + 1 /\ pc' = "writeWREN"
      BY <1>16, <2>3 DEF WriteWait, Poll, AfterWrite
    <3> QED BY <2>1, <3>1
  <2>4. CASE ~WIP /\ ~(pos < LastWord(version))
    <3>1. \/ pc' = "flagsRDSR1" /\ lockArg'
          \/ pc' = "lockedAtEnd"
      BY <1>16, <2>4 DEF WriteWait, Poll, AfterWrite
    <3>2. PartsLeft' = 1 BY <3>1
    <3> QED BY <2>1, <3>2
  <2> QED BY <2>2, <2>3, <2>4
<1> QED BY <1>1, <1>2, <1>3, <1>4, <1>5, <1>6, <1>7, <1>8, <1>9, <1>10, <1>11,
           <1>12, <1>13, <1>14, <1>15, <1>16 DEF SaveStep, LockStep, ArrayStep

\* save_flash always returns, whatever the registers and the chip are like:
\* its steps count four bounded numbers down, and nothing but a power failure
\* interferes.  What fairness adds is that the steps are taken.
THEOREM SavesAdvance ==
    Spec => /\ [](/\ PartsLeft \in 0..5 /\ WordsLeft \in 0..LastWord(version)
                  /\ StagesLeft \in 0..7 /\ polls \in 0..MaxPolls)
            /\ [][/\ SaveStep => Nearer
                  /\ pc \in SaveStages /\ ~SaveStep =>
                        \/ UNCHANGED <<PartsLeft, WordsLeft, StagesLeft, polls>>
                        \/ pc' = "boot"]_vars
<1> DEFINE Bounded == /\ PartsLeft \in 0..5 /\ WordsLeft \in 0..LastWord(version)
                      /\ StagesLeft \in 0..7 /\ polls \in 0..MaxPolls
           Advance == /\ SaveStep => Nearer
                      /\ pc \in SaveStages /\ ~SaveStep =>
                            \/ UNCHANGED <<PartsLeft, WordsLeft, StagesLeft, polls>>
                            \/ pc' = "boot"
<1>1. AnyInv => Bounded BY LeftIsBounded DEF AnyInv
<1>2. AnyInv /\ AnyInv' /\ [Next]_vars => [Advance]_vars
  <2> SUFFICES ASSUME AnyInv, AnyInv', Next PROVE Advance
    BY DEF vars
  <2>1. SaveStep => Nearer BY SaveStepNearer DEF AnyInv
  <2>2. ASSUME pc \in SaveStages, ~SaveStep, pc' # "boot"
        PROVE  UNCHANGED progVars
    BY <2>2 DEF Next, Boot, UserStep, ToggleWriteProtect, ExitWithoutSave, BeginSave,
       ResetAfterSave, ChipFinishes, MoveJumper, LosePower, SaveStages, FlagsStages,
       EraseStages, WriteStages
  <2>3. UNCHANGED progVars => UNCHANGED <<PartsLeft, WordsLeft, StagesLeft, polls>>
    BY DEF progVars, PartsLeft, WordsLeft, StagesLeft, LastWord
  <2> QED BY <2>1, <2>2, <2>3
<1> QED BY <1>1, <1>2, FileInductive, PTL DEF Spec

\* A write of the registers with the lock in it is under way.
LockPending == busy.op = "wrsr" /\ IsLocked(busy.reg) /\ ~IsLocked(sr)

\* Where "Done" is printed and the toggle asks for the lock, the registers have
\* it or a write of them is under way, and nothing that the program does next,
\* its reset and another session included, gets in between: the chip finishes,
\* or the supply fails.
THEOREM LocksArrive ==
    ASSUME MainMenuOnly
    PROVE  Spec => /\ [](Done /\ toggle => IsLocked(sr) \/ LockPending)
                   /\ [][LockPending => \/ LockPending' /\ powerLosses' = powerLosses
                                        \/ ChipFinishes /\ IsLocked(sr)'
                                        \/ LosePower]_vars
<1> DEFINE Arrives == LockPending => \/ LockPending' /\ powerLosses' = powerLosses
                                     \/ ChipFinishes /\ IsLocked(sr)'
                                     \/ LosePower
<1>1. LockFollowsToggle => (Done /\ toggle => IsLocked(sr) \/ LockPending)
  BY DEF LockFollowsToggle, LockedSoon, LockPending, Done
<1>2. [Next]_vars => [Arrives]_vars
  <2> SUFFICES ASSUME Next, LockPending, ~LosePower
               PROVE  \/ LockPending' /\ powerLosses' = powerLosses
                      \/ ChipFinishes /\ IsLocked(sr)'
    OBVIOUS
  <2>1. CASE ChipFinishes
    BY <2>1 DEF ChipFinishes, CycleEnds, LockPending, Latched, IsLocked
  <2>2. CASE ~ChipFinishes
    <3>1. UNCHANGED <<busy, sr, powerLosses>>
      BY <2>2 DEF LockPending, WIP, Next, settled, chipVars, Boot, UserStep,
         ToggleWriteProtect, ExitWithoutSave, BeginSave, ResetAfterSave, SaveStep,
         LockStep, CheckLockedAtEntry, CheckLockedAfterUnlock, CheckLockedAtEnd,
         FlagsReadSR1, FlagsReadSR2, FlagsWriteEnable, FlagsWriteStatus,
         FlagsWait, FlagsWriteDisable, FlagsWaitWRDI, ArrayStep,
         EraseWriteEnable, EraseSector, EraseWait, WriteWriteEnable,
         WriteWord, WriteWait, Poll, MoveJumper, progVars, WriteEnable, WriteDisable,
         WriteStatus, SectorErase, PageProgram, StartCycle
    <3> QED BY <3>1 DEF LockPending
  <2> QED BY <2>1, <2>2
<1> QED BY <1>1, <1>2, LocksFollowToggle, PTL DEF Spec

-----------------------------------------------------------------------------
(* The refinement: the component implements BootFile, step by step.        *)

\* What the boot firmware reads is the one version that is stored, or torn.
LEMMA FileReading ==
    /\ \A v \in 0..MaxSaves : Stored(v) => StoredFile = v
    /\ StoredFile = -1 \/ (StoredFile \in 0..MaxSaves /\ Stored(StoredFile))
<1>1. \A v \in 0..MaxSaves : Stored(v) => StoredFile = v BY StoredOnce
<1>2. CASE \E v \in 0..MaxSaves : Stored(v) BY <1>1, <1>2
<1>3. CASE ~\E v \in 0..MaxSaves : Stored(v) BY <1>3 DEF StoredFile
<1> QED BY <1>1, <1>2, <1>3

\* A version of which no word is there is not the one stored.
LEMMA AbsentNotStored ==
    ASSUME NEW v \in 0..MaxSaves, NoWordsOf(v)
    PROVE  StoredFile # v
<1>1. 0 \in TextWords(v) /\ 0 \in Word
  BY FitAssumption, GeometryAssumption DEF TextWords, Word
<1>2. ~Stored(v) BY <1>1 DEF Stored, NoWordsOf
<1> QED BY <1>2, FileReading, SaveAssumption

\* Where a list is being programmed, that list is stored or none.
LEMMA NewestOrTorn ==
    (\A v \in 0..MaxSaves : v # version => NoWordsOf(v))
        => StoredFile \in {-1, version}
BY FileReading, AbsentNotStored

\* The same facts of the next state.
LEMMA FileReadingNext ==
    /\ \A v \in 0..MaxSaves : Stored(v)' => StoredFile' = v
    /\ StoredFile' = -1
       \/ (StoredFile' \in 0..MaxSaves /\ \E v \in 0..MaxSaves : v = StoredFile' /\ Stored(v)')
    /\ (\A v \in 0..MaxSaves : v # version' => NoWordsOf(v)')
           => StoredFile' \in {-1, version'}
<1>1. (/\ \A v \in 0..MaxSaves : Stored(v) => StoredFile = v
       /\ StoredFile = -1 \/ (StoredFile \in 0..MaxSaves /\ \E v \in 0..MaxSaves : v = StoredFile /\ Stored(v))
       /\ (\A v \in 0..MaxSaves : v # version => NoWordsOf(v))
              => StoredFile \in {-1, version})'
  <2>1. /\ \A v \in 0..MaxSaves : Stored(v) => StoredFile = v
        /\ StoredFile = -1 \/ (StoredFile \in 0..MaxSaves /\ \E v \in 0..MaxSaves : v = StoredFile /\ Stored(v))
        /\ (\A v \in 0..MaxSaves : v # version => NoWordsOf(v))
               => StoredFile \in {-1, version}
    BY FileReading, NewestOrTorn
  <2> QED BY <2>1, PTL
<1> QED BY <1>1

\* The component starts where BootFile does, with version 0 stored.
LEMMA InitRefines == Init => File!FileInit
<1> SUFFICES ASSUME Init PROVE File!FileInit OBVIOUS
<1>1. 0 \in 0..MaxSaves BY SaveAssumption
<1>2. \A w \in TextWords(0) : /\ w \in Word /\ w <= LastWord(0)
                              /\ ImageWord(0, w) = <<0, w>>
  <2>1. LastWord(0) \in Nat BY <1>1, SaveAssumption DEF LastWord
  <2>2. \A w \in Word : w \in Int BY GeometryAssumption DEF Word
  <2> QED BY <1>1, <2>1, <2>2, TextInImage
<1>3. Stored(0) BY <1>2, SaveAssumption DEF Init, Stored
<1>4. StoredFile = 0 BY <1>1, <1>3, FileReading
<1> QED BY <1>4 DEF Init, File!FileInit

\* A step that leaves the array alone leaves the file alone.
LEMMA ArrayIsFile == mem' = mem => StoredFile' = StoredFile
BY DEF StoredFile, Stored

\* Boot, the keys of the menu and the reset: the next session or the next save
\* begins.
LEMMA MenuRefines ==
    ASSUME IInv, FileInv, Boot \/ UserStep \/ ResetAfterSave
    PROVE  [File!FileNext]_File!fileVars
<1> USE DEF settled, chipVars, SaveStages, FlagsStages, EraseStages, WriteStages
<1>1. StoredFile' = StoredFile
  BY ArrayIsFile DEF Boot, UserStep, ToggleWriteProtect, ExitWithoutSave,
     BeginSave, ResetAfterSave
<1>2. pc \notin SaveStages => outcome # "saving" BY DEF FileInv, SavingKnown
<1>3. CASE Boot
  BY <1>1, <1>2, <1>3 DEF Boot, File!FileNext, File!Restart
<1>4. CASE BeginSave
  <2>1. version' \in 0..MaxSaves /\ version' > version
    BY <1>4, SaveAssumption DEF BeginSave, IInv, TypeOK
  <2> QED BY <1>1, <1>2, <1>4, <2>1 DEF BeginSave, File!FileNext, File!Begin
<1>5. CASE ToggleWriteProtect \/ ExitWithoutSave \/ ResetAfterSave
  BY <1>1, <1>5
     DEF ToggleWriteProtect, ExitWithoutSave, ResetAfterSave, File!fileVars
<1> QED BY <1>3, <1>4, <1>5 DEF UserStep

\* The steps of save_flash: an erase touches the file, a return tells the
\* truth about it, and the others are not visible.
LEMMA SaveRefines ==
    ASSUME IInv, FileInv, SaveStep \/ MoveJumper \/ UNCHANGED vars
    PROVE  [File!FileNext]_File!fileVars
<1> USE DEF settled, chipVars, FlagsStages, EraseStages, WriteStages, SaveStages
<1>0. StoredFile' = StoredFile
  <2>1. mem' = mem
    BY DEF vars, SaveStep, LockStep,
           CheckLockedAtEntry, CheckLockedAfterUnlock, CheckLockedAtEnd,
           FlagsReadSR1, FlagsReadSR2, FlagsWriteEnable, FlagsWriteStatus,
           FlagsWait, FlagsWriteDisable, FlagsWaitWRDI, ArrayStep,
           EraseWriteEnable, EraseSector, EraseWait, WriteWriteEnable,
           WriteWord, WriteWait, Poll, MoveJumper, WriteEnable, WriteDisable,
           WriteStatus, SectorErase, PageProgram, StartCycle
  <2> QED BY <2>1, ArrayIsFile
<1>1. pc \in SaveStages => outcome = "saving" BY DEF IInv, OutcomeKnown
<1>2. CASE CheckLockedAfterUnlock
  <2>1. outcome = "saving" /\ ~touched
    BY <1>1, <1>2 DEF CheckLockedAfterUnlock, FileInv, SavingKnown, Untouched
  <2> QED BY <1>0, <1>2, <2>1
          DEF CheckLockedAfterUnlock, File!FileNext, File!Return, File!fileVars
<1>3. CASE CheckLockedAtEnd
  <2>1. Stored(version) /\ version \in 0..MaxSaves
    BY <1>3 DEF CheckLockedAtEnd, IInv, Whole, TypeOK
  <2>2. StoredFile = version BY <2>1, FileReading
  <2> QED BY <1>0, <1>1, <1>3, <2>2 DEF CheckLockedAtEnd, File!FileNext, File!Return
<1>4. CASE EraseSector
  BY <1>0, <1>1, <1>4 DEF EraseSector, File!FileNext, File!Touch
<1>5. CASE EraseWait \/ WriteWait
  <2>1. outcome = "saving" /\ touched
    BY <1>1, <1>5 DEF EraseWait, WriteWait, FileInv, SavingKnown
  <2>2. /\ outcome' = outcome \/ outcome' = "failed"
        /\ version' = version /\ touched' = touched
    BY <1>5 DEF EraseWait, WriteWait, Poll, AfterWrite
  <2> QED BY <1>0, <2>1, <2>2 DEF File!FileNext, File!Return, File!fileVars
<1>6. CASE FlagsWait \/ FlagsWaitWRDI
  BY <1>0, <1>6 DEF FlagsWait, FlagsWaitWRDI, Poll, File!fileVars
<1>7. CASE \/ CheckLockedAtEntry \/ FlagsReadSR1 \/ FlagsReadSR2
           \/ FlagsWriteEnable \/ FlagsWriteStatus \/ FlagsWriteDisable
           \/ EraseWriteEnable \/ WriteWriteEnable \/ WriteWord
           \/ MoveJumper \/ UNCHANGED vars
  BY <1>0, <1>7
     DEF CheckLockedAtEntry, FlagsReadSR1, FlagsReadSR2, FlagsWriteEnable,
         FlagsWriteStatus, FlagsWriteDisable, EraseWriteEnable,
         WriteWriteEnable, WriteWord, MoveJumper, vars, progVars, File!fileVars
<1> QED BY <1>2, <1>3, <1>4, <1>5, <1>6, <1>7 DEF SaveStep, LockStep, ArrayStep

\* The end of an erase wipes the file; the program of the last word of the text
\* completes it; the other programs and register writes are not visible.
LEMMA ChipRefines ==
    ASSUME AnyInv, FileInv, ChipFinishes
    PROVE  [File!FileNext]_File!fileVars
<1> USE DEF ChipFinishes, CycleEnds, progVars
<1>0. /\ version' = version /\ outcome' = outcome /\ touched' = touched
      /\ version \in 0..MaxSaves /\ Target \in Window
      /\ mem \in [Window -> [Word -> Content]]
      /\ busy.op \in {"erase", "program", "wrsr"}
  BY SaveAssumption DEF AnyInv, TypeOK, ChipTypeOK, Cycle, WIP
<1>1. busy.op \in {"erase", "program"} =>
         outcome \in {"saving", "failed"} /\ touched
  BY DEF FileInv, CycleKnown
<1>2. CASE busy.op = "erase"
  <2>1. \A w \in Word : mem'[Target][w] = Erased
    BY <1>0, <1>2 DEF AnyInv, CycleInFile
  <2>2. 0 \in Word /\ \A v \in 0..MaxSaves : 0 \in TextWords(v)
    BY FitAssumption, GeometryAssumption DEF TextWords, Word
  <2>3. \A v \in 0..MaxSaves : ~Stored(v)'
    BY <2>1, <2>2, NoVersions DEF Stored, TextWords
  <2>4. StoredFile' = -1 BY <2>3, FileReadingNext
  <2> QED BY <1>0, <1>1, <1>2, <2>4 DEF File!FileNext, File!Wipe, File!Torn
<1>3. CASE busy.op = "program"
  <2>1. \A v \in 0..MaxSaves : v # version => NoWordsOf(v) /\ NoWordsOf(v)'
    <3>1. mem' = [mem EXCEPT ![Target][pos] = ImageWord(version, pos)]
      BY <1>3, ProgramUnderWay DEF AnyInv, Programmed
    <3>2. pos \in Nat /\ TypeOK BY DEF AnyInv, TypeOK
    <3> QED BY <1>0, <1>3, <3>1, <3>2, ProgramUnderWay, ProgramInOrder, BeginningInOrder
  <2>2. StoredFile \in {-1, version} /\ StoredFile' \in {-1, version}
    BY <1>0, <2>1, NewestOrTorn, FileReadingNext
  <2>3. Stored(version) => Stored(version)'
    <3>1. mem'[Target] = [mem[Target] EXCEPT ![pos] = ImageWord(version, pos)]
      BY <1>0, <1>3, ProgramUnderWay DEF AnyInv, Programmed
    <3>2. mem[Target][pos] = Erased BY <1>3, ProgramUnderWay DEF AnyInv
    <3>3. Stored(version) => pos \notin TextWords(version)
      BY <1>0, <3>2, NoVersions DEF Stored
    <3>4. mem[Target] \in [Word -> Content] BY <1>0
    <3> QED BY <1>0, <3>1, <3>3, <3>4 DEF Stored, TextWords
  <2>4. StoredFile = version => StoredFile' = version
    <3>1. version # -1 BY <1>0, SaveAssumption
    <3> QED BY <1>0, <2>3, <3>1, FileReading, FileReadingNext
  <2>5. CASE StoredFile' = StoredFile BY <1>0, <2>5 DEF File!fileVars
  <2>6. CASE StoredFile = -1 /\ StoredFile' = version
    BY <1>0, <1>1, <1>3, <2>6 DEF File!FileNext, File!Complete, File!Torn
  <2> QED BY <2>2, <2>4, <2>5, <2>6
<1>4. CASE busy.op = "wrsr" BY <1>0, <1>4, ArrayIsFile DEF File!fileVars
<1> QED BY <1>0, <1>2, <1>3, <1>4

\* A power failure is a crash of BootFile: the old version stays or is torn,
\* the new one completes or not.
LEMMA PowerRefines ==
    ASSUME AnyInv, FileInv, LosePower
    PROVE  [File!FileNext]_File!fileVars
<1> USE DEF LosePower, PowerCycle
<1>0. /\ version' = version /\ outcome' = "idle" /\ touched' = touched
      /\ version \in 0..MaxSaves /\ Target \in Window
      /\ mem \in [Window -> [Word -> Content]]
  BY SaveAssumption DEF AnyInv, TypeOK, ChipTypeOK
<1>1. busy.op \in {"erase", "program"} => outcome \in {"saving", "failed"}
  BY DEF FileInv, CycleKnown
<1>2. CASE mem' = mem
  BY <1>0, <1>2, ArrayIsFile DEF File!FileNext, File!Crash
<1>3. CASE busy.op = "erase"
  <2>1. busy.sector = Target BY <1>3 DEF AnyInv, CycleInFile
  <2>2. PICK hit \in SUBSET Word :
           mem' = [mem EXCEPT ![Target] =
                      [w \in Word |-> IF w \in hit THEN Damaged ELSE @[w]]]
    BY <1>3, <2>1 DEF WIP
  <2>3. \A w \in Word : mem'[Target][w] \in {Damaged, mem[Target][w]}
    BY <1>0, <2>2
  <2>4. \A v \in 0..MaxSaves : Stored(v)' => Stored(v)
    BY <2>3, NoVersions DEF Stored, TextWords
  <2>5. StoredFile' = StoredFile \/ StoredFile' = -1
    BY <2>4, FileReading, FileReadingNext
  <2> QED BY <1>0, <1>1, <1>3, <2>5 DEF File!FileNext, File!Crash, File!Torn
<1>4. CASE busy.op = "program"
  <2>1. PICK c \in {Damaged, Erased, ImageWord(version, pos)} :
           mem' = [mem EXCEPT ![Target][pos] = c]
    BY <1>4, ProgramUnderWay DEF AnyInv, WIP
  <2>2. \A v \in 0..MaxSaves : v # version => NoWordsOf(v) /\ NoWordsOf(v)'
    <3>1. pos \in Nat /\ TypeOK BY DEF AnyInv, TypeOK
    <3> QED BY <1>0, <1>4, <2>1, <3>1, ProgramUnderWay, ProgramInOrder, BeginningInOrder
  <2>3. StoredFile \in {-1, version} /\ StoredFile' \in {-1, version}
    BY <1>0, <2>2, NewestOrTorn, FileReadingNext
  <2> QED BY <1>0, <1>1, <1>4, <2>3 DEF File!FileNext, File!Crash, File!Torn
<1> QED BY <1>2, <1>3, <1>4

\* Program, chip and power supply together keep what a save promises about
\* the file: it is always one whole version or torn, it only goes forward, a
\* save that prints "Done" has stored its version, and one that reports
\* "write protected" has not touched the old one.
THEOREM SavesImplementBootFile ==
    ASSUME MainMenuOnly
    PROVE  Spec => ImplementsBootFile
<1>1. Init => File!FileInit BY InitRefines
<1>2. ASSUME IInv, AnyInv, FileInv, [Next]_vars
      PROVE  [File!FileNext]_File!fileVars
  BY <1>2, MenuRefines, SaveRefines, ChipRefines, PowerRefines DEF Next
<1>3. (IInv /\ AnyInv /\ FileInv) /\ [Next]_vars => [File!FileNext]_File!fileVars
  BY <1>2
<1> QED BY <1>1, <1>3, Inductive, FileInductive, PTL
        DEF Spec, ImplementsBootFile, File!FileSpec

\* From any registers: the file is torn, or becomes the list being saved out
\* of the torn one; a list that was there before never comes back.
Forward ==
    \/ StoredFile' \in {StoredFile, -1}
    \/ StoredFile = -1 /\ StoredFile' = version

\* A step of the chip or of the supply may change the file so, no other may.
LEMMA StepForward ==
    ASSUME AnyInv, FileInv, [Next]_vars
    PROVE  Forward
<1>1. CASE ~ChipFinishes /\ ~LosePower BY <1>1, OthersKeepArray, ArrayIsFile DEF Forward
<1>2. CASE ChipFinishes \/ LosePower
  BY <1>2, ChipRefines, PowerRefines
     DEF Forward, File!FileNext, File!Begin, File!Wipe, File!Complete, File!Touch,
         File!Return, File!Restart, File!Crash, File!Torn, File!fileVars
<1> QED BY <1>1, <1>2

\* Also where the chip refuses commands and the save reports what is not so.
THEOREM FileGoesForward == Spec => [][Forward]_vars
<1>1. (AnyInv /\ FileInv) /\ [Next]_vars => [Forward]_vars BY StepForward
<1> QED BY <1>1, FileInductive, PTL DEF Spec

-----------------------------------------------------------------------------
(* Both menus over one chip (FlashMenus): a save from any registers the     *)
(* lockdown menu can leave, under the one condition that no register write  *)
(* is under way when it begins.                                             *)

\* The lockdown menu asks the chip for registers only.
LockTypes ==
    /\ choice \in 0..44
    /\ lockStatus \in StatusRegister
    /\ lockPc # "menu" /\ command = "b" => choice \in 1..44
    /\ lockPc # "menu" /\ command = "l" => choice \in 1..5
    /\ lockPc \in {"prompt", "wren", "wrsr"} => command \in {"b", "c", "l"}

\* Only one of the menus runs.
OneProgram == open => pc = "menu"

\* Registers that leave the file open, and that is_locked sees as open.
Released(r) == ~IsLocked(r) /\ ~Protected(r, Target)

\* Registers the save begins with that it can work on.
Workable == IsLocked(srAtSave) \/ ~Protected(srAtSave, Target)

\* The unlock of a save that has found all of the lock.  Where it goes on, its
\* write of the registers is over or has never begun.
UnlockKnown ==
    /\ pc = "lockedAtEntry" => ~WIP /\ sr = srAtSave
    /\ pc = "lockedAfterUnlock" => ~lockArg
    /\ pc \in FlagsStages \cup {"lockedAfterUnlock"} /\ ~lockArg => IsLocked(srAtSave)
    /\ pc \in EarlyFlags /\ ~lockArg => ~WIP /\ IsLocked(sr)
    /\ pc \in {"flagsWREN", "flagsWRSR"} /\ ~lockArg => Released(status)
    /\ pc \in LateFlags \cup {"lockedAfterUnlock"} /\ ~lockArg =>
          \/ ~WIP /\ (IsLocked(sr) \/ Released(sr))
          \/ busy.op = "wrsr" /\ IsLocked(sr) /\ Released(busy.reg)

\* No register changes during the rewrite, and the chip listens.
RewriteKnown ==
    /\ pc \in EraseStages \cup WriteStages =>
          /\ ~lockArg /\ busy.op # "wrsr"
          /\ Workable => ~Protected(sr, Target)
          /\ ~IsLocked(srAtSave) => sr = srAtSave
    /\ pc \in {"eraseWREN", "eraseSE", "writeWREN", "writePP"} => ~WIP
    /\ pc \in {"eraseSE", "writePP"} => wel

\* A save that began with a range of the user's gives it back.
RangeHeld ==
    /\ pc \in FlagsStages /\ lockArg => toggle
    /\ pc = "lockedAtEnd" \/ Done =>
          (~IsLocked(srAtSave) /\ ~toggle => sr = srAtSave /\ ~WIP)

\* How far the image is, and that it stands behind the last word.
Image ==
    /\ Progress
    /\ (pc \in FlagsStages /\ lockArg) \/ pc = "lockedAtEnd" \/ Done =>
          Stored(version) /\ busy.op \in {"idle", "wrsr"}

SaveKnown ==
    idleAtSave => UnlockKnown /\ RewriteKnown /\ RangeHeld /\ (Workable => Image)

MenusInv == TypeOK /\ LockTypes /\ OneProgram /\ OutcomeKnown /\ SaveKnown

\* The commands of the lockdown menu are those of the chip.
LEMMA SameChip ==
    /\ Lock!WriteEnable => WriteEnable
    /\ \A r : Lock!WriteStatus(r) => WriteStatus(r)
BY DEF Lock!WriteEnable, Lock!WriteStatus, Lock!StartCycle, Lock!RegistersWritable,
       Lock!WrsrCycle, Lock!Idle, Lock!Erased, Lock!WIP, WriteEnable, WriteStatus,
       StartCycle, RegistersWritable, WrsrCycle, Idle, Erased, WIP

\* A register write keeps the chip's types.
LEMMA WriteStatusTypes ==
    ASSUME ChipTypeOK, NEW r \in StatusRegister, WriteStatus(r)
    PROVE  ChipTypeOK'
BY CycleTypes, StartCycleTypes DEF WriteStatus, RegistersWritable

\* What b, c and l ask for are registers.
LEMMA RequestTypes ==
    ASSUME LockTypes, lockPc = "wrsr"
    PROVE  Lock!Request(lockStatus) \in StatusRegister
<1>1. CASE command = "b"
  <2>1. choice \in 1..44 BY <1>1 DEF LockTypes
  <2>2. Lock!Half(choice) \in 1..22 BY <2>1 DEF Lock!Half
  <2>3. \A n : Lock!BPBits(n) \subseteq {"BP0", "BP1", "BP2"} BY DEF Lock!BPBits
  <2>4. Lock!BPLookup(choice) \subseteq {"BP0", "BP1", "BP2", "TB", "SEC"}
    BY <2>2, <2>3 DEF Lock!BPLookup
  <2> QED BY <1>1, <2>4 DEF LockTypes, Lock!Request, StatusRegister, SR1Bits, SR2Bits
<1>2. CASE command = "c" BY <1>2 DEF LockTypes, Lock!Request, StatusRegister
<1>3. CASE command = "l"
  <2>1. choice \in 1..5 BY <1>3 DEF LockTypes
  <2>2. Lock!LockBits(choice) \subseteq {"SRP0", "SRP1"}
    BY <2>1 DEF Lock!LockBits, Lock!SRPBits
  <2> QED BY <1>3, <2>2 DEF LockTypes, Lock!Request, StatusRegister, SR1Bits, SR2Bits
<1> QED BY <1>1, <1>2, <1>3 DEF LockTypes

\* The lockdown menu, command by command.
LEMMA MenuStepTypes ==
    ASSUME TypeOK, LockTypes, MenuStep
    PROVE  TypeOK' /\ LockTypes'
<1>0. ChipTypeOK /\ sr \in StatusRegister BY DEF TypeOK, ChipTypeOK
<1>1. \A bits : /\ sr \cap bits \in StatusRegister
                /\ lockStatus \cup (sr \cap bits) \in StatusRegister
                /\ lockStatus \ bits \in StatusRegister
  BY <1>0 DEF LockTypes, StatusRegister
<1>2. lockStatus \cup {"SRP0"} \in StatusRegister /\ {} \in StatusRegister
  BY DEF LockTypes, StatusRegister, SR1Bits
<1>3. ChipTypeOK' /\ LockTypes'
  <2>1. CASE \E k \in {"p", "r", "c", "s"} : Lock!TakeKey(k, 0)
    <3>1. PICK k \in {"p", "r", "c", "s"} : Lock!TakeKey(k, 0) BY <2>1
    <3>2. ChipTypeOK'
      BY <1>0, <3>1 DEF Lock!TakeKey, Lock!chipVars, ChipTypeOK
    <3>3. /\ choice' = 0 /\ lockStatus' = lockStatus /\ lockPc' = "read1"
          /\ command' \notin {"b", "l"}
      BY <3>1 DEF Lock!TakeKey
    <3> QED BY <3>2, <3>3 DEF LockTypes
  <2>2. CASE \E n \in IF hasty THEN HastyChoices ELSE Choices : Lock!TakeKey("b", n)
    <3>1. PICK n \in 1..44 : Lock!TakeKey("b", n) BY <2>2, MenusAssumption
    <3>2. ChipTypeOK'
      BY <1>0, <3>1 DEF Lock!TakeKey, Lock!chipVars, ChipTypeOK
    <3>3. /\ choice' = n /\ lockStatus' = lockStatus /\ lockPc' = "read1"
          /\ command' = "b"
      BY <3>1 DEF Lock!TakeKey
    <3> QED BY <3>2, <3>3 DEF LockTypes
  <2>3. CASE \E n \in 1..5 : Lock!TakeKey("l", n)
    <3>1. PICK n \in 1..5 : Lock!TakeKey("l", n) BY <2>3
    <3>2. ChipTypeOK'
      BY <1>0, <3>1 DEF Lock!TakeKey, Lock!chipVars, ChipTypeOK
    <3>3. /\ choice' = n /\ lockStatus' = lockStatus /\ lockPc' = "read1"
          /\ command' = "l"
      BY <3>1 DEF Lock!TakeKey
    <3>4. n \in 0..44 OBVIOUS
    <3> QED BY <3>2, <3>3, <3>4 DEF LockTypes
  <2>4. CASE Lock!ReadSR1 \/ Lock!VerifySR1 \/ Lock!ShowSR1
    <3>1. /\ UNCHANGED <<mem, sr, wel, busy, wpLow, choice, command>>
          /\ lockStatus' = sr \cap Lock!SR1Bits
          /\ lockPc' \notin {"menu", "prompt", "wren", "wrsr"} /\ lockPc # "menu"
      BY <2>4 DEF Lock!ReadSR1, Lock!VerifySR1, Lock!ShowSR1, Lock!chipVars
    <3> QED BY <1>0, <1>1, <3>1 DEF LockTypes, ChipTypeOK
  <2>5. CASE Lock!ShowRanges \/ Lock!AbortLock \/ Lock!VerifySR2
    <3>1. /\ UNCHANGED <<mem, sr, wel, busy, wpLow>>
          /\ lockStatus' = {} /\ choice' = 0 /\ lockPc' = "menu"
      BY <2>5 DEF Lock!ShowRanges, Lock!AbortLock, Lock!VerifySR2, Lock!BackToMenu,
                  Lock!chipVars
    <3> QED BY <1>0, <1>2, <3>1 DEF LockTypes, ChipTypeOK
  <2>6. CASE Lock!ReadForWrite
    <3>1. /\ UNCHANGED <<mem, sr, wel, busy, wpLow, choice, command>>
          /\ lockStatus' = lockStatus \cup (sr \cap Lock!SR2Bits)
          /\ lockPc' \in {"prompt", "wren"} /\ lockPc # "menu" /\ command \in {"b", "c", "l"}
      BY <2>6 DEF Lock!ReadForWrite, Lock!BothRead, Lock!chipVars
    <3> QED BY <1>0, <1>1, <3>1 DEF LockTypes, ChipTypeOK
  <2>7. CASE Lock!ReadForStatus
    <3>1. /\ UNCHANGED <<mem, sr, wel, busy, wpLow, choice, command>>
          /\ lockStatus' = lockStatus \cup (sr \cap Lock!SR2Bits)
          /\ lockPc' \in {"dropWREN", "show1"} /\ lockPc # "menu"
      BY <2>7 DEF Lock!ReadForStatus, Lock!BothRead, Lock!chipVars
    <3> QED BY <1>0, <1>1, <3>1 DEF LockTypes, ChipTypeOK
  <2>8. CASE Lock!SendWREN
    <3>1. ChipTypeOK' BY <1>0, <2>8, SameChip, LatchTypes DEF Lock!SendWREN
    <3>2. /\ UNCHANGED <<choice, command, lockStatus>>
          /\ lockPc \in {"wren", "dropWREN", "restoreWREN"}
          /\ lockPc = "wren" => lockPc' = "wrsr"
          /\ lockPc = "dropWREN" => lockPc' = "dropWRSR"
          /\ lockPc = "restoreWREN" => lockPc' = "restoreWRSR"
      BY <2>8 DEF Lock!SendWREN, Lock!AfterWREN
    <3> QED BY <3>1, <3>2 DEF LockTypes
  <2>9. CASE Lock!SendWRSR
    <3>1. WriteStatus(Lock!Request(lockStatus)) /\ lockPc = "wrsr"
      BY <2>9, SameChip DEF Lock!SendWRSR
    <3>2. ChipTypeOK' BY <1>0, <3>1, RequestTypes, WriteStatusTypes
    <3>3. UNCHANGED <<choice, command, lockStatus>> /\ lockPc' = "verify1"
      BY <2>9 DEF Lock!SendWRSR
    <3> QED BY <3>1, <3>2, <3>3 DEF LockTypes
  <2>10. CASE Lock!DropSRP0
    <3>1. WriteStatus(lockStatus \ {"SRP0"}) BY <2>10, SameChip DEF Lock!DropSRP0
    <3>2. ChipTypeOK' BY <1>0, <1>1, <3>1, WriteStatusTypes
    <3>3. UNCHANGED <<choice, command, lockStatus>> /\ lockPc' = "dropRead"
          /\ lockPc # "menu"
      BY <2>10 DEF Lock!DropSRP0
    <3> QED BY <3>2, <3>3 DEF LockTypes
  <2>11. CASE Lock!RestoreSRP0
    <3>1. WriteStatus(lockStatus \cup {"SRP0"}) BY <2>11, SameChip DEF Lock!RestoreSRP0
    <3>2. ChipTypeOK' BY <1>0, <1>2, <3>1, WriteStatusTypes
    <3>3. UNCHANGED <<choice, command, lockStatus>> /\ lockPc' = "restoreRead"
          /\ lockPc # "menu"
      BY <2>11 DEF Lock!RestoreSRP0
    <3> QED BY <3>2, <3>3 DEF LockTypes
  <2>12. CASE Lock!CheckDropped \/ Lock!CheckRestored
    <3>1. Lock!Reread \in StatusRegister
      BY <1>0 DEF Lock!Reread, LockTypes, StatusRegister
    <3>2. /\ UNCHANGED <<mem, sr, wel, busy, wpLow, choice, command>>
          /\ lockStatus' = Lock!Reread
          /\ lockPc' \in {"show1", "restoreWREN"} /\ lockPc # "menu"
      BY <2>12 DEF Lock!CheckDropped, Lock!CheckRestored, Lock!chipVars
    <3> QED BY <1>0, <3>1, <3>2 DEF LockTypes, ChipTypeOK
  <2>13. CASE Lock!ShowLock
    <3>1. /\ UNCHANGED <<mem, sr, wel, busy, wpLow, choice, command>>
          /\ lockStatus' = {} /\ lockPc' = "menu"
      BY <2>13 DEF Lock!ShowLock, Lock!chipVars
    <3> QED BY <1>0, <1>2, <3>1 DEF LockTypes, ChipTypeOK
  <2>14. CASE Lock!ConfirmLock
    <3>1. /\ UNCHANGED <<mem, sr, wel, busy, wpLow, choice, command, lockStatus>>
          /\ lockPc = "prompt" /\ lockPc' = "wren"
      BY <2>14 DEF Lock!ConfirmLock, Lock!chipVars
    <3> QED BY <1>0, <3>1 DEF LockTypes, ChipTypeOK
  <2> QED BY <2>1, <2>2, <2>3, <2>4, <2>5, <2>6, <2>7, <2>8, <2>9, <2>10, <2>11,
             <2>12, <2>13, <2>14 DEF MenuStep, LockCommand, LockStepOf
<1> QED BY <1>3 DEF TypeOK, MenuStep, progVars

\* Every step of the two menus keeps the types and runs one of them.
LEMMA MenusTypes ==
    ASSUME TypeOK, LockTypes, OneProgram, [MenusNext]_allVars
    PROVE  TypeOK' /\ LockTypes' /\ OneProgram'
<1>1. CASE OpenLockMenu
  <2>1. UNCHANGED <<vars, lockVars>> /\ pc = "menu" BY <1>1 DEF OpenLockMenu
  <2>2. TypeOK' BY <2>1, StepTypes
  <2>3. pc' = "menu" BY <2>1 DEF vars, progVars
  <2> QED BY <2>1, <2>2, <2>3 DEF lockVars, LockTypes, OneProgram
<1>2. CASE CloseLockMenu
  <2>1. UNCHANGED vars /\ MenuCloses BY <1>2 DEF CloseLockMenu
  <2>2. TypeOK' BY <2>1, StepTypes
  <2> QED BY <2>1, <2>2 DEF MenuCloses, LockTypes, OneProgram, StatusRegister
<1>3. CASE MainStep
  <2>1. Next /\ UNCHANGED lockVars /\ ~open /\ open' = open
    BY <1>3 DEF MainStep, Next, UserStep
  <2>2. TypeOK' BY <2>1, StepTypes
  <2> QED BY <2>1, <2>2 DEF lockVars, LockTypes, OneProgram
<1>4. CASE MenuStep
  <2>1. open' = open /\ pc' = pc BY <1>4 DEF MenuStep, progVars
  <2> QED BY <1>4, <2>1, MenuStepTypes DEF OneProgram
<1>5. CASE ChipEnds
  <2>1. ChipFinishes /\ UNCHANGED lockVars /\ open' = open /\ pc' = pc
    BY <1>5 DEF ChipEnds, ChipFinishes, progVars
  <2>2. TypeOK' BY <2>1, StepTypes DEF Next
  <2> QED BY <2>1, <2>2 DEF lockVars, LockTypes, OneProgram
<1>6. CASE PullJumper
  <2>1. MoveJumper /\ UNCHANGED lockVars /\ open' = open /\ pc' = pc
    BY <1>6 DEF PullJumper, MoveJumper, progVars
  <2>2. TypeOK' BY <2>1, StepTypes DEF Next
  <2> QED BY <2>1, <2>2 DEF lockVars, LockTypes, OneProgram
<1>7. CASE PowerFails
  <2>1. LosePower /\ MenuCloses BY <1>7 DEF PowerFails
  <2>2. TypeOK' BY <2>1, StepTypes DEF Next
  <2> QED BY <2>1, <2>2 DEF MenuCloses, LockTypes, OneProgram, StatusRegister
<1>8. CASE UNCHANGED allVars
  <2>1. UNCHANGED <<vars, lockVars, open>> BY <1>8 DEF allVars
  <2>2. TypeOK' BY <2>1, StepTypes
  <2> QED BY <2>1, <2>2 DEF lockVars, vars, progVars, LockTypes, OneProgram
<1> QED BY <1>1, <1>2, <1>3, <1>4, <1>5, <1>6, <1>7, <1>8 DEF MenusNext

-----------------------------------------------------------------------------
(* The neighbours again, with both menus.                                   *)

\* A step of the lockdown menu starts a register write at most.
LEMMA MenuStepChip ==
    ASSUME MenuStep
    PROVE  /\ UNCHANGED progVars /\ mem' = mem /\ sr' = sr
           /\ busy' = busy \/ busy'.op = "wrsr"
<1>1. UNCHANGED progVars BY DEF MenuStep
<1>2. CASE Lock!SendWRSR \/ Lock!DropSRP0 \/ Lock!RestoreSRP0
  <2>1. PICK r : WriteStatus(r)
    BY <1>2, SameChip DEF Lock!SendWRSR, Lock!DropSRP0, Lock!RestoreSRP0
  <2> QED BY <1>1, <2>1, CycleFields DEF WriteStatus, StartCycle
<1>3. CASE Lock!SendWREN
  BY <1>1, <1>3, SameChip DEF Lock!SendWREN, WriteEnable
<1>4. CASE LockCommand
  BY <1>1, <1>4 DEF LockCommand, Lock!TakeKey, Lock!chipVars
<1>5. CASE \/ Lock!ReadSR1 \/ Lock!ShowRanges \/ Lock!ReadForWrite
           \/ Lock!ConfirmLock \/ Lock!AbortLock \/ Lock!VerifySR1 \/ Lock!VerifySR2 \/ Lock!ReadForStatus
           \/ Lock!CheckDropped \/ Lock!CheckRestored \/ Lock!ShowSR1 \/ Lock!ShowLock
  BY <1>1, <1>5
     DEF Lock!ReadSR1, Lock!ShowRanges, Lock!ReadForWrite, Lock!ConfirmLock,
         Lock!AbortLock, Lock!VerifySR1, Lock!VerifySR2, Lock!ReadForStatus, Lock!CheckDropped,
         Lock!CheckRestored, Lock!ShowSR1, Lock!ShowLock, Lock!BackToMenu, Lock!chipVars
<1> QED BY <1>2, <1>3, <1>4, <1>5 DEF MenuStep, LockStepOf

\* The other steps are SaveFlash's.
LEMMA OthersAreSaveSteps ==
    ASSUME [MenusNext]_allVars, ~MenuStep
    PROVE  [Next]_vars
BY DEF MenusNext, OpenLockMenu, CloseLockMenu, MainStep, UserStep, ChipEnds,
       PullJumper, PowerFails, Next, allVars

\* Whatever the two menus do, and from any registers, no sector but the one of
\* the bootorder file changes: not the boot firmware's.
THEOREM MenusKeepNeighbours == MenusSpec => NeighboursUntouched
<1> DEFINE N == TypeOK /\ LockTypes /\ OneProgram /\ Positions /\ CycleInFile
<1>1. MenusInit => N
  <2> SUFFICES ASSUME MenusInit PROVE N OBVIOUS
  <2>1. Init BY DEF MenusInit
  <2>2. TypeOK /\ Positions /\ CycleInFile
    BY <2>1, InitTypes, CycleFields
       DEF Init, Positions, CycleInFile, FlagsStages, EraseStages, WriteStages
  <2>3. LockTypes /\ OneProgram
    BY DEF MenusInit, LockTypes, OneProgram, StatusRegister
  <2> QED BY <2>2, <2>3
<1>2. N /\ [MenusNext]_allVars => N'
  <2> SUFFICES ASSUME N, [MenusNext]_allVars PROVE Positions' /\ CycleInFile'
    BY MenusTypes
  <2>1. CASE MenuStep
    <3>1. UNCHANGED progVars /\ (busy' = busy \/ busy'.op = "wrsr")
      BY <2>1, MenuStepChip
    <3> QED BY <3>1 DEF progVars, Positions, CycleInFile, LastWord
  <2>2. CASE ~MenuStep
    BY <2>2, OthersAreSaveSteps, StepPositions, StepCycleInFile
  <2> QED BY <2>1, <2>2
<1>3. N /\ [MenusNext]_allVars => [\A s \in Window \ {Target} : mem'[s] = mem[s]]_vars
  <2> SUFFICES ASSUME N, [MenusNext]_allVars, NEW s \in Window \ {Target}
               PROVE  mem'[s] = mem[s]
    OBVIOUS
  <2>1. CASE MenuStep BY <2>1, MenuStepChip
  <2>2. CASE ChipFinishes \/ LosePower BY <2>2, CyclesKeepNeighbours
  <2>3. CASE ~MenuStep /\ ~ChipFinishes /\ ~LosePower
    BY <2>3, OthersAreSaveSteps, OthersKeepArray
  <2> QED BY <2>1, <2>2, <2>3
<1> QED BY <1>1, <1>2, <1>3, PTL DEF MenusSpec, NeighboursUntouched

-----------------------------------------------------------------------------
(* The save over such registers.  srAtSave and idleAtSave stay while it    *)
(* runs.                                                                   *)

\* Outside of a save, and behind one that failed or was refused, nothing is
\* claimed.
LEMMA OutsideSave ==
    ASSUME pc' \in {"boot", "menu"} \/ (pc' = "returned" /\ outcome' # "saved")
    PROVE  SaveKnown'
BY DEF SaveKnown, UnlockKnown, RewriteKnown, RangeHeld, Image, Progress, Done,
       FlagsStages, EarlyFlags, LateFlags, EraseStages, WriteStages

\* What set_lock_flags writes to unlock releases the file, whatever it read.
LEMMA FlaggedReleases ==
    ASSUME NEW r \in StatusRegister
    PROVE  Released(Flagged(r, FALSE))
BY FlaggedPlain, PlainOpen DEF Released

\* The lock bits of the security registers play no part here either.
LEMMA ReleasedLatched ==
    ASSUME NEW r \in StatusRegister
    PROVE  Released(Latched(r)) <=> Released(r)
BY PlainLatched, LatchedProtects DEF Released

\* The steps that send nothing or move the write enable latch.
LEMMA QuietSaves ==
    ASSUME TypeOK, TypeOK', OutcomeKnown, SaveKnown, UNCHANGED atSave,
           \/ CheckLockedAtEntry \/ CheckLockedAfterUnlock \/ CheckLockedAtEnd
           \/ FlagsReadSR1 \/ FlagsReadSR2
           \/ FlagsWriteEnable \/ FlagsWriteDisable
           \/ EraseWriteEnable \/ WriteWriteEnable
    PROVE  SaveKnown' /\ OutcomeKnown'
<1> USE DEF settled, chipVars, atSave
<1> USE DEF UnlockKnown, RewriteKnown, RangeHeld, Image, Progress, SaveKnown, Done, OutcomeKnown
<1> USE DEF EarlyFlags, LateFlags, SaveStages, FlagsStages, EraseStages, WriteStages
<1> USE DEF WIP, WrittenTo, AllErased, Stored
<1>0. sr \in StatusRegister BY DEF TypeOK, ChipTypeOK
<1>1. CASE CheckLockedAtEntry BY <1>1 DEF CheckLockedAtEntry, Workable
<1>2. CASE CheckLockedAfterUnlock BY <1>2 DEF CheckLockedAfterUnlock, Released, Workable
<1>3. CASE CheckLockedAtEnd BY <1>3 DEF CheckLockedAtEnd, Workable
<1>4. CASE FlagsReadSR1
  <2>1. sr \cap SR1Bits \in StatusRegister BY <1>0 DEF StatusRegister
  <2>2. driver = "macronix" /\ ~lockArg => Released(status')
    BY <1>4, <2>1, FlaggedReleases DEF FlagsReadSR1, TypeOK
  <2> QED BY <1>4, <2>2 DEF FlagsReadSR1, Workable
<1>5. CASE FlagsReadSR2
  <2>1. status \cup (sr \cap SR2Bits) \in StatusRegister
    BY <1>0 DEF TypeOK, StatusRegister
  <2>2. ~lockArg => Released(status')
    BY <1>5, <2>1, FlaggedReleases DEF FlagsReadSR2, TypeOK
  <2> QED BY <1>5, <2>2 DEF FlagsReadSR2, Workable
<1>6. CASE FlagsWriteEnable BY <1>6 DEF FlagsWriteEnable, WriteEnable, Workable
<1>7. CASE FlagsWriteDisable BY <1>7 DEF FlagsWriteDisable, WriteDisable, Workable
<1>8. CASE EraseWriteEnable BY <1>8 DEF EraseWriteEnable, WriteEnable, Workable
<1>9. CASE WriteWriteEnable BY <1>9 DEF WriteWriteEnable, WriteEnable, Workable
<1> QED BY <1>1, <1>2, <1>3, <1>4, <1>5, <1>6, <1>7, <1>8, <1>9

\* The commands that start a cycle: a register write may be refused, an erase
\* or a word of a workable save may not.
LEMMA CommandSaves ==
    ASSUME TypeOK, TypeOK', OutcomeKnown, SaveKnown, UNCHANGED atSave,
           FlagsWriteStatus \/ EraseSector \/ WriteWord
    PROVE  SaveKnown' /\ OutcomeKnown'
<1> USE DEF settled, chipVars, atSave
<1> USE DEF UnlockKnown, RewriteKnown, RangeHeld, Image, Progress, SaveKnown, Done, OutcomeKnown
<1> USE DEF EarlyFlags, LateFlags, SaveStages, FlagsStages, EraseStages, WriteStages
<1> USE DEF WIP, WrittenTo, AllErased, Stored, Workable
<1>1. CASE FlagsWriteStatus
  <2>1. busy' \in {busy, WrsrCycle(status)}
        /\ UNCHANGED <<mem, sr, wpLow, lockArg, status, pos, toggle, version, outcome>>
    BY <1>1 DEF FlagsWriteStatus, WriteStatus, StartCycle
  <2>2. pc = "flagsWRSR"
        /\ pc' = IF driver = "macronix" THEN "flagsWait" ELSE AfterFlags
    BY <1>1 DEF FlagsWriteStatus
  <2>3. busy' = busy \/ (busy'.op = "wrsr" /\ busy'.reg = status)
    BY <2>1, CycleFields
  <2>4. CASE lockArg BY <2>1, <2>2, <2>3, <2>4 DEF AfterFlags
  <2>5. CASE ~lockArg BY <2>1, <2>2, <2>3, <2>5 DEF AfterFlags
  <2> QED BY <2>4, <2>5
<1>2. CASE EraseSector
  <2>1. /\ pc = "eraseSE" /\ pc' = "erasePoll"
        /\ UNCHANGED <<mem, sr, wpLow, lockArg, status, pos, toggle, version, outcome>>
        /\ idleAtSave /\ Workable => busy' = EraseCycle(Target)
        /\ busy' = busy \/ busy' = EraseCycle(Target)
    BY <1>2 DEF EraseSector, SectorErase, StartCycle
  <2>2. idleAtSave => busy'.op # "wrsr" BY <2>1, CycleFields
  <2> QED BY <2>1, <2>2
<1>3. CASE WriteWord
  <2>1. /\ pc = "writePP" /\ pc' = "writePoll"
        /\ UNCHANGED <<mem, sr, wpLow, lockArg, status, pos, toggle, version, outcome>>
    BY <1>3 DEF WriteWord, PageProgram, StartCycle
  <2>2. \/ busy' = busy
        \/ busy' = ProgramCycle(SectorAt(pos), WordAt(pos), ImageWord(version, pos))
    BY <1>3 DEF WriteWord, PageProgram, StartCycle
  <2>3. idleAtSave => busy'.op # "wrsr" BY <2>1, <2>2, CycleFields
  <2>4. ASSUME idleAtSave, Workable
        PROVE  busy' = ProgramCycle(Target, pos, ImageWord(version, pos))
    <3>1. SectorAt(pos) = Target /\ WordAt(pos) = pos
      BY <2>1, <2>4, InSector DEF TypeOK
    <3> QED BY <1>3, <2>1, <2>4, <3>1 DEF WriteWord, PageProgram, StartCycle
  <2> QED BY <2>1, <2>3, <2>4 DEF ImageWord
<1> QED BY <1>1, <1>2, <1>3

\* The four waits.
LEMMA WaitSaves ==
    ASSUME TypeOK, TypeOK', OutcomeKnown, SaveKnown, UNCHANGED atSave,
           FlagsWait \/ FlagsWaitWRDI \/ EraseWait \/ WriteWait
    PROVE  SaveKnown' /\ OutcomeKnown'
<1> USE DEF settled, chipVars, atSave
<1> USE DEF UnlockKnown, RewriteKnown, RangeHeld, Image, Progress, SaveKnown, Done, OutcomeKnown
<1> USE DEF EarlyFlags, LateFlags, SaveStages, FlagsStages, EraseStages, WriteStages
<1> USE DEF WIP, WrittenTo, AllErased, Stored, Workable
<1>1. CASE FlagsWait BY <1>1 DEF FlagsWait, Poll
<1>2. CASE FlagsWaitWRDI BY <1>2 DEF FlagsWaitWRDI, Poll, AfterFlags
<1>3. CASE EraseWait
  <2> USE <1>3 DEF EraseWait, Poll
  <2>1. idleAtSave /\ Workable /\ ~WIP => WrittenTo(0)
    <3>1. \A w \in Word : ~(w < 0) BY GeometryAssumption DEF Word
    <3> QED BY <3>1, CycleFields
  <2>2. LastWord(version) \in Nat BY SaveAssumption DEF LastWord, TypeOK
  <2>3. CASE WIP BY <2>3
  <2>4. CASE ~WIP
    <3>1. pc' = "writeWREN"
          /\ UNCHANGED <<chipVars, status, toggle, version, outcome, pos, lockArg>>
      BY <2>4
    <3>2. UnlockKnown' /\ RangeHeld' /\ OutcomeKnown' BY <3>1
    <3>3. idleAtSave => RewriteKnown' BY <2>4, <3>1
    <3>4. idleAtSave /\ Workable => Image' BY <2>1, <2>2, <2>4, <3>1 DEF LastWord
    <3> QED BY <3>1, <3>2, <3>3, <3>4
  <2> QED BY <2>3, <2>4
<1>4. CASE WriteWait
  <2> USE <1>4 DEF WriteWait, AfterWrite, Poll
  <2>1. LastWord(version) \in Nat /\ pos \in Nat
    BY SaveAssumption DEF LastWord, TypeOK
  <2>2. idleAtSave /\ Workable /\ ~WIP => WrittenTo(pos + 1) /\ pos <= LastWord(version)
    BY CycleFields
  <2>3. CASE WIP BY <2>3
  <2>4. CASE ~WIP /\ pos < LastWord(version)
    <3>1. /\ pc' = "writeWREN" /\ pos' = pos + 1
          /\ UNCHANGED <<chipVars, status, outcome, version, toggle>>
      BY <2>4
    <3>2. idleAtSave => ~lockArg' BY <3>1
    <3>3. pos' <= LastWord(version)' BY <2>1, <2>4, <3>1 DEF LastWord
    <3>4. idleAtSave /\ Workable => WrittenTo(pos)' BY <2>2, <2>4, <3>1 DEF ImageWord
    <3>5. UnlockKnown' /\ RangeHeld' /\ OutcomeKnown' BY <3>1
    <3>6. idleAtSave => RewriteKnown' BY <2>4, <3>1, <3>2
    <3>7. idleAtSave /\ Workable => Image' BY <3>1, <3>2, <3>3, <3>4
    <3> QED BY <3>1, <3>5, <3>6, <3>7
  <2>5. CASE ~WIP /\ ~(pos < LastWord(version))
    <3>1. idleAtSave /\ Workable => Stored(version)
      <4>1. idleAtSave /\ Workable => pos = LastWord(version) BY <2>1, <2>2, <2>5
      <4> QED BY <2>2, <2>5, <4>1, WrittenIsStored DEF TypeOK
    <3>2. /\ pc' = IF toggle THEN "flagsRDSR1" ELSE "lockedAtEnd"
          /\ UNCHANGED <<chipVars, status, outcome, version, toggle, pos>>
          /\ lockArg' = (lockArg \/ toggle)
      BY <2>5
    <3>3. UnlockKnown' /\ OutcomeKnown' BY <3>2
    <3>4. RewriteKnown' BY <3>2
    <3>5. idleAtSave => RangeHeld' BY <2>5, <3>2
    <3>6. idleAtSave /\ Workable => Image' BY <2>5, <3>1, <3>2
    <3> QED BY <3>2, <3>3, <3>4, <3>5, <3>6
  <2> QED BY <2>3, <2>4, <2>5
<1> QED BY <1>1, <1>2, <1>3, <1>4

\* A cycle ends.
LEMMA ChipSaves ==
    ASSUME TypeOK, OutcomeKnown, SaveKnown, UNCHANGED atSave, ChipFinishes
    PROVE  SaveKnown' /\ OutcomeKnown'
<1> USE DEF UnlockKnown, RewriteKnown, RangeHeld, Image, Progress, SaveKnown, Done, OutcomeKnown
<1> USE DEF EarlyFlags, LateFlags, SaveStages, FlagsStages, EraseStages, WriteStages
<1> USE DEF WIP, WrittenTo, AllErased, Stored, Workable
<1> USE DEF ChipFinishes, CycleEnds, progVars, atSave
<1>0. /\ busy'.op = "idle"
      /\ mem \in [Window -> [Word -> Content]]
      /\ Target \in Window
      /\ busy.op \in {"erase", "program", "wrsr"}
      /\ busy.reg \in StatusRegister
  BY CycleFields, SaveAssumption DEF TypeOK, ChipTypeOK, Cycle
<1>1. CASE busy.op = "erase"
  <2>1. mem'[Target] = [w \in Word |-> Erased] \/ busy.sector # Target BY <1>0, <1>1
  <2>2. ASSUME idleAtSave, Workable, pc = "erasePoll" PROVE AllErased'
    <3>1. busy = EraseCycle(Target) BY <1>0, <2>2
    <3> QED BY <2>1, <3>1, CycleFields
  <2>3. pc # "writePoll" \/ ~(busy = ProgramCycle(Target, pos, ImageWord(version, pos)))
    BY <1>1, CycleFields
  <2>4. sr' = sr BY <1>1
  <2>5. idleAtSave => UnlockKnown' /\ RewriteKnown' /\ RangeHeld' BY <1>0, <1>1, <2>4
  <2>6. idleAtSave /\ Workable => Image' BY <1>0, <1>1, <2>2, <2>3
  <2> QED BY <2>5, <2>6
<1>2. CASE busy.op = "program"
  <2>1. sr' = sr BY <1>2
  <2>2. ASSUME idleAtSave, Workable, pc = "writePoll" PROVE WrittenTo(pos + 1)'
    <3>1. /\ busy = ProgramCycle(Target, pos, ImageWord(version, pos))
          /\ WrittenTo(pos) /\ pos <= LastWord(version)
      BY <1>2, <2>2
    <3>2. /\ busy.sector = Target /\ busy.word = pos
          /\ busy.content = ImageWord(version, pos)
      BY <3>1, CycleFields
    <3>3. pos \in Word BY <3>1, InSector DEF TypeOK
    <3>4. mem[Target][pos] = Erased BY <3>1, <3>3 DEF Word
    <3>5. mem'[Target] = [mem[Target] EXCEPT ![pos] = ImageWord(version, pos)]
      BY <1>0, <1>2, <3>2, <3>3, <3>4 DEF Programmed
    <3>6. mem[Target] \in [Word -> Content] BY <1>0
    <3>7. \A w \in Word : w \in Int /\ (w < pos + 1 <=> w < pos \/ w = pos)
      BY GeometryAssumption DEF Word, TypeOK
    <3>8. pos' = pos /\ version' = version OBVIOUS
    <3>9. \A w \in Word : mem'[Target][w] =
             IF w < pos + 1 THEN ImageWord(version, w) ELSE Erased
      BY <3>1, <3>3, <3>5, <3>6, <3>7
    <3> QED BY <3>8, <3>9 DEF ImageWord
  <2>3. pc # "erasePoll" \/ ~(busy = EraseCycle(Target)) BY <1>2, CycleFields
  <2>4. idleAtSave => UnlockKnown' /\ RewriteKnown' /\ RangeHeld' BY <1>0, <1>2, <2>1
  <2>5. idleAtSave /\ Workable => Image' BY <1>0, <1>2, <2>2, <2>3
  <2> QED BY <2>4, <2>5
<1>3. CASE busy.op = "wrsr"
  <2>1. /\ mem' = mem
        /\ Released(sr') <=> Released(busy.reg)
    BY <1>0, <1>3, ReleasedLatched
  <2>2. idleAtSave => UnlockKnown' BY <1>0, <1>3, <2>1
  <2>3. idleAtSave => RewriteKnown' /\ RangeHeld' BY <1>0, <1>3
  <2>4. idleAtSave /\ Workable => Image' BY <1>0, <1>3, <2>1, CycleFields
  <2> QED BY <2>2, <2>3, <2>4
<1> QED BY <1>0, <1>1, <1>2, <1>3

\* A save begins: from here the registers it finds are remembered.
LEMMA BeginSaves ==
    ASSUME BeginSave, srAtSave' = sr, idleAtSave' = ~WIP
    PROVE  SaveKnown' /\ OutcomeKnown'
BY DEF BeginSave, settled, chipVars, WIP, SaveKnown, UnlockKnown, RewriteKnown,
       RangeHeld, Image, Progress, Done, OutcomeKnown, EarlyFlags, LateFlags,
       SaveStages, FlagsStages, EraseStages, WriteStages

\* Where no cycle and no program moves, neither does what is known of them.
LEMMA StillSaves ==
    ASSUME OutcomeKnown, SaveKnown, UNCHANGED <<mem, sr, wel, busy, progVars, atSave>>
    PROVE  SaveKnown' /\ OutcomeKnown'
<1> USE DEF progVars, atSave, WIP, Workable, Released
<1>1. UNCHANGED <<pc, lockArg, status, pos, toggle, version, outcome>>
      /\ UNCHANGED <<srAtSave, idleAtSave, mem, sr, wel, busy>>
  OBVIOUS
<1>2. OutcomeKnown' BY <1>1 DEF OutcomeKnown
<1>3. UnlockKnown => UnlockKnown' BY <1>1 DEF UnlockKnown
<1>4. RewriteKnown => RewriteKnown' BY <1>1 DEF RewriteKnown
<1>5. RangeHeld => RangeHeld' BY <1>1 DEF RangeHeld, Done
<1>6. Image => Image'
  BY <1>1 DEF Image, Progress, Done, WrittenTo, AllErased, Stored, ImageWord, LastWord
<1> QED BY <1>1, <1>2, <1>3, <1>4, <1>5, <1>6 DEF SaveKnown

\* The steps of both menus, of the chip, of the jumper and of the supply.
LEMMA StepMenusInv == MenusInv /\ [MenusNext]_allVars => MenusInv'
<1> SUFFICES ASSUME MenusInv, [MenusNext]_allVars PROVE MenusInv' OBVIOUS
<1> USE DEF MenusInv
<1>0. TypeOK' /\ LockTypes' /\ OneProgram' BY MenusTypes
<1>1. ASSUME pc' \in {"boot", "menu"} PROVE SaveKnown' /\ OutcomeKnown'
  BY <1>1, OutsideSave DEF OutcomeKnown, SaveStages, FlagsStages, EraseStages, WriteStages
<1>2. CASE OpenLockMenu \/ CloseLockMenu
  <2>1. pc = "menu" /\ pc' = pc
    BY <1>2 DEF OpenLockMenu, CloseLockMenu, vars, progVars, OneProgram
  <2> QED BY <1>0, <1>1, <2>1
<1>3. CASE MainStep
  <2>1. CASE Boot \/ ToggleWriteProtect \/ ExitWithoutSave \/ ResetAfterSave
    <3>1. pc' \in {"boot", "menu"}
      BY <2>1 DEF Boot, ToggleWriteProtect, ExitWithoutSave, ResetAfterSave
    <3> QED BY <1>0, <1>1, <3>1
  <2>2. CASE SaveStep /\ UNCHANGED atSave
    BY <1>0, <2>2, QuietSaves, CommandSaves, WaitSaves DEF SaveStep, LockStep, ArrayStep
  <2>3. CASE BeginSave /\ srAtSave' = sr /\ idleAtSave' = ~WIP
    BY <1>0, <2>3, BeginSaves
  <2> QED BY <1>3, <2>1, <2>2, <2>3 DEF MainStep
<1>4. CASE MenuStep
  <2>1. pc = "menu" /\ pc' = pc BY <1>4 DEF MenuStep, progVars, OneProgram
  <2> QED BY <1>0, <1>1, <2>1
<1>5. CASE ChipEnds BY <1>0, <1>5, ChipSaves DEF ChipEnds
<1>6. CASE PullJumper
  <2>1. UNCHANGED <<mem, sr, wel, busy, progVars, atSave>>
    BY <1>6 DEF PullJumper, MoveJumper
  <2> QED BY <1>0, <2>1, StillSaves
<1>7. CASE PowerFails
  <2>1. pc' = "boot" BY <1>7 DEF PowerFails, LosePower
  <2> QED BY <1>0, <1>1, <2>1
<1>8. CASE UNCHANGED allVars
  <2>1. UNCHANGED <<mem, sr, wel, busy, progVars, atSave>>
    BY <1>8 DEF allVars, vars, chipVars
  <2> QED BY <1>0, <2>1, StillSaves
<1> QED BY <1>2, <1>3, <1>4, <1>5, <1>6, <1>7, <1>8 DEF MenusNext

\* Neither menu has asked for anything at the start.
LEMMA InitMenusInv == MenusInit => MenusInv
<1> SUFFICES ASSUME MenusInit PROVE MenusInv OBVIOUS
<1>1. TypeOK BY InitTypes DEF MenusInit
<1>2. LockTypes /\ OneProgram BY DEF MenusInit, LockTypes, OneProgram, StatusRegister
<1>3. pc = "boot" BY DEF MenusInit, Init
<1>4. SaveKnown /\ OutcomeKnown
  BY <1>3 DEF SaveKnown, UnlockKnown, RewriteKnown, RangeHeld, Image, Progress,
     Done, OutcomeKnown, EarlyFlags, LateFlags, SaveStages, FlagsStages,
     EraseStages, WriteStages
<1> QED BY <1>1, <1>2, <1>4 DEF MenusInv

\* So it holds whatever the two menus do, from any registers.
LEMMA MenusInductive == MenusSpec => []MenusInv
BY InitMenusInv, StepMenusInv, PTL DEF MenusSpec

\* A save that prints "Done" and has not stored the list began with registers
\* that protect the file without all of save_flash's lock bits; or during a
\* register write.
THEOREM LossNeedsPartialLock == MenusSpec => []LostOnlyUnderPartialLock
<1>1. MenusInv => LostOnlyUnderPartialLock
  BY DEF MenusInv, SaveKnown, Workable, Image, LostOnlyUnderPartialLock
<1> QED BY <1>1, MenusInductive, PTL

\* A save without the lock, before and after, leaves the registers that the
\* lockdown menu has set.
THEOREM RangesAreKept == MenusSpec => []MenuRangeKept
<1>1. MenusInv => MenuRangeKept
  BY DEF MenusInv, SaveKnown, RangeHeld, MenuRangeKept
<1> QED BY <1>1, MenusInductive, PTL

-----------------------------------------------------------------------------
(* The file again, with both menus: what a save that began on an idle chip *)
(* has in flash, whatever saves began during a register write before it.   *)

\* What holds of every save: a program under way is the one of the word at pos,
\* and nothing in flash is newer than the list being saved.
ListKnown ==
    /\ pc = "menu" => busy.op \in {"idle", "wrsr"}
    /\ \A v \in 0..MaxSaves : v > version => NoWordsOf(v)
    /\ busy.op = "program" =>
          /\ pos <= LastWord(version)
          /\ busy = ProgramCycle(Target, pos, ImageWord(version, pos))

MenusFile ==
    /\ TypeOK /\ LockTypes /\ OneProgram /\ CycleInFile /\ Positions
    /\ ListKnown
    /\ idleAtSave => StageInv /\ FileInv

\* A cycle that ends or is cut short changes a word of the file only to an
\* erased or a damaged one, or to its word of the list being saved.
LEMMA CyclesChangeFile ==
    ASSUME TypeOK, CycleInFile, ListKnown, ChipFinishes \/ LosePower, NEW w \in Word
    PROVE  mem'[Target][w] \in {Erased, Damaged, mem[Target][w], ImageWord(version, w)}
<1>0. /\ mem \in [Window -> [Word -> Content]] /\ Target \in Window
      /\ busy.op \in {"idle", "erase", "program", "wrsr"}
  BY SaveAssumption DEF TypeOK, ChipTypeOK, Cycle
<1>1. CASE busy.op = "erase"
  <2>1. busy.sector = Target BY <1>1 DEF CycleInFile
  <2>2. CASE ChipFinishes
    BY <1>0, <1>1, <2>1, <2>2 DEF ChipFinishes, CycleEnds
  <2>3. CASE LosePower
    BY <1>0, <1>1, <2>1, <2>3 DEF LosePower, PowerCycle, WIP
  <2> QED BY <2>2, <2>3
<1>2. CASE busy.op = "program"
  <2>1. /\ busy.sector = Target /\ busy.word = pos /\ pos \in Word
        /\ busy.content = ImageWord(version, pos)
    BY <1>2, CycleFields DEF ListKnown, CycleInFile
  <2>2. PICK c \in {Damaged, mem[Target][pos], ImageWord(version, pos)} :
           mem' = [mem EXCEPT ![Target][pos] = c]
    <3>1. CASE ChipFinishes
      <4>1. mem' = [mem EXCEPT ![Target][pos] =
                       Programmed(mem[Target][pos], ImageWord(version, pos))]
        BY <1>2, <2>1, <3>1 DEF ChipFinishes, CycleEnds
      <4>2. Programmed(mem[Target][pos], ImageWord(version, pos))
               \in {Damaged, ImageWord(version, pos)}
        BY DEF Programmed
      <4> QED BY <4>1, <4>2
    <3>2. CASE LosePower BY <1>2, <2>1, <3>2 DEF LosePower, PowerCycle, WIP
    <3> QED BY <3>1, <3>2
  <2>3. mem'[Target] = [mem[Target] EXCEPT ![pos] = c] BY <1>0, <2>2
  <2>4. mem[Target] \in [Word -> Content] BY <1>0
  <2> QED BY <2>1, <2>2, <2>3, <2>4
<1>3. CASE busy.op \in {"idle", "wrsr"}
  BY <1>3 DEF ChipFinishes, CycleEnds, LosePower, PowerCycle, WIP
<1> QED BY <1>0, <1>1, <1>2, <1>3

\* So it leaves no new word of another list, and no other list becomes whole.
LEMMA CyclesWriteVersion ==
    ASSUME TypeOK, CycleInFile, ListKnown, ChipFinishes \/ LosePower,
           NEW v \in 0..MaxSaves, v # version
    PROVE  /\ NoWordsOf(v) => NoWordsOf(v)'
           /\ Stored(v)' => Stored(v)
<1>1. \A w \in Word : mem'[Target][w] = <<v, w>> => mem[Target][w] = <<v, w>>
  <2> SUFFICES ASSUME NEW w \in Word, mem'[Target][w] = <<v, w>>
               PROVE  mem[Target][w] = <<v, w>>
    OBVIOUS
  <2>1. ImageWord(version, w) # <<v, w>> BY NoVersions DEF ImageWord
  <2> QED BY <2>1, CyclesChangeFile, NoVersions
<1> QED BY <1>1 DEF NoWordsOf, Stored, TextWords

\* Every step of main, the chip, the jumper and the supply keeps it.
LEMMA StepListKnown ==
    ASSUME TypeOK, TypeOK', Positions, CycleInFile, ListKnown, [Next]_vars
    PROVE  ListKnown'
<1> USE DEF settled, chipVars, WIP
<1>1. CASE ChipFinishes \/ LosePower
  <2>1. busy'.op = "idle" /\ version' = version
    BY <1>1, CycleFields
       DEF ChipFinishes, CycleEnds, progVars, LosePower, PowerCycle
  <2>2. ASSUME NEW v \in 0..MaxSaves, v > version PROVE NoWordsOf(v)'
    BY <1>1, <2>2, CyclesWriteVersion DEF ListKnown, TypeOK
  <2> QED BY <2>1, <2>2 DEF ListKnown
<1>2. CASE ~ChipFinishes /\ ~LosePower
  <2>0. mem' = mem BY <1>2, OthersKeepArray
  <2>1. CASE Boot \/ UserStep \/ ResetAfterSave
    <3>1. busy' = busy /\ (pc' = "menu" => busy.op \in {"idle", "wrsr"})
          /\ (BeginSave \/ UNCHANGED <<pos, version>>)
      BY <2>1 DEF Boot, UserStep, ToggleWriteProtect, ExitWithoutSave, BeginSave,
         ResetAfterSave, ListKnown
    <3>2. CASE BeginSave
      <4>1. busy.op # "program" /\ version \in Int /\ version' = version + 1
        BY <3>2 DEF BeginSave, ListKnown, TypeOK
      <4> QED BY <2>0, <3>1, <4>1 DEF ListKnown, NoWordsOf
    <3>3. CASE UNCHANGED <<pos, version>>
      BY <2>0, <3>1, <3>3 DEF ListKnown, NoWordsOf, LastWord, ImageWord
    <3> QED BY <3>1, <3>2, <3>3
  <2>2. CASE FlagsWriteStatus \/ EraseSector
    <3>1. /\ busy' = busy \/ busy'.op \in {"wrsr", "erase"}
          /\ UNCHANGED <<pos, version>> /\ pc' # "menu"
      BY <2>2, CycleFields DEF FlagsWriteStatus, EraseSector, WriteStatus,
         SectorErase, StartCycle, AfterFlags
    <3> QED BY <2>0, <3>1 DEF ListKnown, NoWordsOf, LastWord, ImageWord
  <2>3. CASE WriteWord
    <3>1. /\ pos <= LastWord(version) /\ SectorAt(pos) = Target /\ WordAt(pos) = pos
      BY <2>3, InSector DEF WriteWord, Positions, WriteStages, TypeOK
    <3>2. /\ \/ busy' = busy
             \/ busy' = ProgramCycle(Target, pos, ImageWord(version, pos))
          /\ UNCHANGED <<pos, version>> /\ pc' # "menu"
      BY <2>3, <3>1 DEF WriteWord, PageProgram, StartCycle
    <3> QED BY <2>0, <3>1, <3>2 DEF ListKnown, NoWordsOf, LastWord, ImageWord
  <2>4. CASE SaveStep /\ ~FlagsWriteStatus /\ ~EraseSector /\ ~WriteWord
    <3>1. /\ busy' = busy /\ version' = version /\ pc' # "menu"
          /\ pos' = pos \/ ~WIP
      BY <2>4 DEF SaveStep, LockStep, CheckLockedAtEntry, CheckLockedAfterUnlock,
         CheckLockedAtEnd, FlagsReadSR1, FlagsReadSR2, FlagsWriteEnable,
         FlagsWait, FlagsWriteDisable, FlagsWaitWRDI, ArrayStep,
         EraseWriteEnable, EraseWait, WriteWriteEnable, WriteWait, Poll,
         AfterFlags, AfterWrite, WriteEnable, WriteDisable
    <3> QED BY <2>0, <3>1 DEF ListKnown, NoWordsOf, LastWord, ImageWord
  <2>5. CASE MoveJumper \/ UNCHANGED vars
    BY <2>0, <2>5 DEF MoveJumper, vars, progVars, ListKnown, NoWordsOf, LastWord, ImageWord
  <2> QED BY <1>2, <2>1, <2>2, <2>3, <2>4, <2>5 DEF Next
<1> QED BY <1>1, <1>2

\* The lockdown menu works on registers while main has no save.
LEMMA MenuStepFile ==
    ASSUME MenusFile, TypeOK', MenuStep
    PROVE  Positions' /\ CycleInFile' /\ ListKnown' /\ (idleAtSave' => StageInv' /\ FileInv')
<1>1. /\ UNCHANGED progVars /\ mem' = mem /\ idleAtSave' = idleAtSave
      /\ busy' = busy \/ busy'.op = "wrsr"
      /\ pc = "menu"
  BY MenuStepChip DEF MenuStep, MenusFile, OneProgram, atSave
<1>2. /\ UNCHANGED <<pc, lockArg, pos, version, outcome, touched>>
      /\ busy.op \in {"idle", "wrsr"} /\ busy'.op \in {"idle", "wrsr"}
  BY <1>1 DEF progVars, MenusFile, ListKnown
<1>3. Positions' BY <1>2 DEF MenusFile, Positions, LastWord
<1>4. CycleInFile' BY <1>2 DEF CycleInFile
<1>5. ListKnown' BY <1>1, <1>2 DEF MenusFile, ListKnown, NoWordsOf
<1>6. StageInv'
  BY <1>1, <1>2 DEF StageInv, ChipReady, UnlockWaited, RewriteTried, FailedOpen,
     LockLast, OutcomeKnown, IdleStages, EarlyFlags, LateFlags, SaveStages,
     FlagsStages, EraseStages, WriteStages
<1>7. FileInv => FileInv'
  <2>1. SavingKnown => SavingKnown'
    BY <1>2 DEF SavingKnown, Untouched
  <2>2. CycleKnown' BY <1>2 DEF CycleKnown
  <2>3. ~Untouched' BY <1>1, <1>2 DEF Untouched, FlagsStages
  <2>4. Newest => Newest' BY <1>1, <1>2, <2>3 DEF Newest, NoWordsOf
  <2> QED BY <1>1, <1>2, <2>1, <2>2, <2>4, SameFile DEF FileInv
<1> QED BY <1>1, <1>3, <1>4, <1>5, <1>6, <1>7 DEF MenusFile

\* Every step of both menus keeps it.
LEMMA StepMenusFile == MenusFile /\ [MenusNext]_allVars => MenusFile'
<1> SUFFICES ASSUME MenusFile, [MenusNext]_allVars PROVE MenusFile' OBVIOUS
<1>0. TypeOK' /\ LockTypes' /\ OneProgram' BY MenusTypes DEF MenusFile
<1>1. CASE MenuStep BY <1>0, <1>1, MenuStepFile DEF MenusFile
<1>2. CASE ~MenuStep
  <2>0. [Next]_vars BY <1>2, OthersAreSaveSteps
  <2>1. Positions' /\ CycleInFile' /\ ListKnown'
    BY <1>0, <2>0, StepPositions, StepCycleInFile, StepListKnown DEF MenusFile
  <2>2. CASE BeginSave /\ idleAtSave' = ~WIP
    <3>1. ~WIP => StageInv' /\ FileInv'
      BY <1>0, <2>2, BeginFresh DEF MenusFile, ListKnown
    <3> QED BY <1>0, <2>1, <2>2, <3>1 DEF MenusFile
  <2>3. CASE ~BeginSave /\ idleAtSave' = idleAtSave
    <3>1. idleAtSave => AnyInv' /\ FileInv'
      BY <2>0, <2>3, StepFileInv DEF MenusFile, AnyInv
    <3> QED BY <1>0, <2>1, <2>3, <3>1 DEF MenusFile, AnyInv
  <2>4. \/ BeginSave /\ idleAtSave' = ~WIP
        \/ ~BeginSave /\ idleAtSave' = idleAtSave
    <3>1. BeginSave => pc' = "lockedAtEntry" /\ pc = "menu" BY DEF BeginSave
    <3>2. ASSUME UNCHANGED atSave PROVE idleAtSave' = idleAtSave BY <3>2 DEF atSave
    <3>3. Boot \/ ToggleWriteProtect \/ ExitWithoutSave \/ SaveStep \/ ResetAfterSave
             => pc # "menu" \/ pc' # "lockedAtEntry"
      BY DEF Boot, ToggleWriteProtect, ExitWithoutSave, ResetAfterSave, SaveStep,
         LockStep, CheckLockedAtEntry, CheckLockedAfterUnlock, CheckLockedAtEnd,
         FlagsReadSR1, FlagsReadSR2, FlagsWriteEnable, FlagsWriteStatus, FlagsWait,
         FlagsWriteDisable, FlagsWaitWRDI, ArrayStep, EraseWriteEnable, EraseSector,
         EraseWait, WriteWriteEnable, WriteWord, WriteWait
    <3>4. CASE MainStep BY <3>1, <3>2, <3>3, <3>4 DEF MainStep
    <3>5. CASE ~MainStep
      <4>1. UNCHANGED atSave
        BY <1>2, <3>5 DEF MenusNext, OpenLockMenu, CloseLockMenu, ChipEnds,
           PullJumper, PowerFails, allVars
      <4>2. pc' = pc \/ pc' = "boot"
        BY <1>2, <3>5 DEF MenusNext, OpenLockMenu, CloseLockMenu, ChipEnds,
           ChipFinishes, PullJumper, MoveJumper, PowerFails, LosePower, allVars,
           vars, progVars
      <4> QED BY <3>1, <3>2, <4>1, <4>2
    <3> QED BY <3>4, <3>5
  <2> QED BY <2>2, <2>3, <2>4
<1> QED BY <1>1, <1>2

\* So it holds in every state of the two menus.
LEMMA MenusFileInductive == MenusSpec => []MenusFile
<1>1. MenusInit => MenusFile
  <2> SUFFICES ASSUME MenusInit PROVE MenusFile OBVIOUS
  <2>1. Init BY DEF MenusInit
  <2>2. AnyInv /\ FileInv BY <2>1, InitAny, InitFileInv
  <2>3. LockTypes /\ OneProgram
    BY DEF MenusInit, LockTypes, OneProgram, StatusRegister
  <2>4. ListKnown
    BY <2>1, <2>2, CycleFields DEF Init, ListKnown, FileInv, Newest
  <2> QED BY <2>2, <2>3, <2>4 DEF AnyInv, MenusFile
<1> QED BY <1>1, StepMenusFile, PTL DEF MenusSpec

\* Whatever the two menus do, and whatever is under way when a save begins: the
\* file in flash stays, is torn or becomes the list being saved; none that was
\* there before comes back.
THEOREM NoListComesBack ==
    MenusSpec => [][StoredFile' \in {StoredFile, -1, version}]_allVars
<1>1. MenusFile /\ [MenusNext]_allVars
         => [StoredFile' \in {StoredFile, -1, version}]_allVars
  <2> SUFFICES ASSUME MenusFile, MenusNext
               PROVE  StoredFile' \in {StoredFile, -1, version}
    OBVIOUS
  <2>1. CASE MenuStep BY <2>1, MenuStepChip, ArrayIsFile
  <2>2. CASE ChipFinishes \/ LosePower
    <3>1. \A v \in 0..MaxSaves : v # version /\ Stored(v)' => Stored(v)
      BY <2>2, CyclesWriteVersion DEF MenusFile
    <3> QED BY <3>1, FileReading, FileReadingNext
  <2>3. CASE ~MenuStep /\ ~ChipFinishes /\ ~LosePower
    BY <2>3, OthersAreSaveSteps, OthersKeepArray, ArrayIsFile
  <2> QED BY <2>1, <2>2, <2>3
<1> QED BY <1>1, MenusFileInductive, PTL DEF MenusSpec

\* Also with ranges set in the lockdown menu, and commands refused because of
\* them: of a list whose save began on an idle chip the words in flash are the
\* first ones.
THEOREM MenusKeepWordsInOrder == MenusSpec => [](idleAtSave => WrittenInOrder)
<1>1. MenusFile => (idleAtSave => WrittenInOrder) BY DEF MenusFile, FileInv
<1> QED BY <1>1, MenusFileInductive, PTL

\* With both menus, too, a save that gives up waiting for the chip leaves the
\* board without its lock.
THEOREM MenusFailedSavesStayUnlocked ==
    MenusSpec => [](idleAtSave /\ pc = "returned" /\ outcome = "failed"
                       => ~IsLocked(sr) /\ busy.op # "wrsr")
<1>1. MenusFile => (idleAtSave /\ pc = "returned" /\ outcome = "failed"
                       => ~IsLocked(sr) /\ busy.op # "wrsr")
  BY DEF MenusFile, StageInv, FailedOpen
<1> QED BY <1>1, MenusFileInductive, PTL

\* With both menus: during such a save, and behind it, only a power failure
\* damages a word, and no list that was there before comes back.
THEOREM MenusFileGoesForward ==
    MenusSpec => [][idleAtSave => DamageStep /\ Forward]_allVars
<1>1. MenusFile /\ [MenusNext]_allVars => [idleAtSave => DamageStep /\ Forward]_allVars
  <2> SUFFICES ASSUME MenusFile, MenusNext, idleAtSave PROVE DamageStep /\ Forward
    OBVIOUS
  <2>1. CASE MenuStep
    <3>1. mem' = mem BY <2>1, MenuStepChip
    <3> QED BY <3>1, ArrayIsFile DEF DamageStep, Forward
  <2>2. CASE ~MenuStep
    BY <2>2, OthersAreSaveSteps, StepDamage, StepForward DEF MenusFile, AnyInv
  <2> QED BY <2>1, <2>2
<1> QED BY <1>1, MenusFileInductive, PTL DEF MenusSpec
=============================================================================

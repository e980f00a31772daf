--------------------------- MODULE LockMenu_proofs ---------------------------
(***************************************************************************)
(* Theorems about LockMenu, for every chip and every set of ranges the     *)
(* user may choose from.                                                   *)
(***************************************************************************)
EXTENDS LockMenu, SpiNor_proofs

\* The commands that get as far as a write carry an argument of theirs.
Arguments ==
    /\ pc \in Stages \ {"menu"} /\ command = "b" => choice \in 1..44
    /\ pc \in Stages \ {"menu"} /\ command = "l" => choice \in 1..5
    /\ pc \in {"prompt", "wren", "wrsr", "verify1", "verify2"}
          => command \in {"b", "c", "l"}
    /\ pc \in {"dropWREN", "dropWRSR", "dropRead", "restoreWREN", "restoreWRSR",
               "restoreRead", "show1", "show2"} => command = "s"

\* Only register writes are ever under way, and none once SRP1 is set.
OnlyRegisterWrites ==
    /\ busy.op \in {"idle", "wrsr"}
    /\ "SRP1" \in sr => busy.op = "idle"

\* A permanent lock, in the registers or on the way, was confirmed.
LocksConfirmed ==
    /\ SRPBits \subseteq sr => confirmed
    /\ busy.op = "wrsr" /\ SRPBits \subseteq busy.reg => confirmed

\* What has been read.  SRP0 of an old register 1 beside SRP1 of a new
\* register 2 is only read where SRP1 is in force and refuses every write.
ReadsKnown ==
    /\ pc = "read2" => status \subseteq SR1Bits
    /\ pc \in {"prompt", "wren", "wrsr"} => (SRPBits \subseteq status => "SRP1" \in sr)
    /\ pc \in {"wren", "wrsr"} => (command = "l" /\ choice = 5 => confirmed)
    /\ pc \in {"dropWREN", "dropWRSR", "dropRead", "restoreWREN", "restoreWRSR"}
          => "SRP1" \notin status

\* Nobody touches the range while the lock status is looked at.
RangeKept ==
    ~hasty /\ command = "s" =>
        /\ busy.op = "wrsr" => busy.reg \ SRPBits = sr \ SRPBits
        /\ pc \in {"read1", "read2"} => busy.op = "idle"
        /\ pc = "read2" => status = sr \cap SR1Bits
        /\ pc \in {"dropWREN", "dropWRSR", "dropRead", "restoreWREN", "restoreWRSR"}
              => status \ SRPBits = sr \ SRPBits

IInv ==
    /\ TypeOK
    /\ Arguments
    /\ OnlyRegisterWrites
    /\ LocksConfirmed
    /\ ReadsKnown
    /\ RangeKept

-----------------------------------------------------------------------------
(* The tables.                                                             *)

\* An entry of bp_lookup selects a range and no lock.
LEMMA LookupIsRange ==
    ASSUME NEW row \in 1..44
    PROVE  BPLookup(row) \subseteq {"BP0", "BP1", "BP2", "TB", "SEC"}
<1>1. Half(row) \in 1..22 BY DEF Half
<1>2. \A n : BPBits(n) \subseteq {"BP0", "BP1", "BP2"} BY DEF BPBits
<1> QED BY <1>1, <1>2 DEF BPLookup

\* Only lock type 5 asks for both lock bits.
LEMMA LockBitsOfTypes ==
    /\ \A n \in 1..5 : LockBits(n) \subseteq SRPBits
    /\ \A n \in 1..4 : ~(SRPBits \subseteq LockBits(n))
BY DEF LockBits, SRPBits

\* What b, c and l ask for: both lock bits only where they were read or where
\* lock type 5 was chosen.
LEMMA RequestLocks ==
    ASSUME NEW r \in StatusRegister, command \in {"b", "c", "l"},
           command = "b" => choice \in 1..44,
           command = "l" => choice \in 1..5
    PROVE  /\ Request(r) \in StatusRegister
           /\ SRPBits \subseteq Request(r) =>
                 SRPBits \subseteq r \/ (command = "l" /\ choice = 5)
<1>1. CASE command = "b"
  BY <1>1, LookupIsRange
     DEF Request, SRPBits, StatusRegister, SR1Bits, SR2Bits
<1>2. CASE command = "c" BY <1>2 DEF Request, SRPBits, StatusRegister
<1>3. CASE command = "l"
  <2>1. LockBits(choice) \subseteq SRPBits
        /\ (choice # 5 => ~(SRPBits \subseteq LockBits(choice)))
    BY <1>3, LockBitsOfTypes
  <2> QED BY <1>3, <2>1 DEF Request, SRPBits, StatusRegister, SR1Bits, SR2Bits
<1> QED BY <1>1, <1>2, <1>3

-----------------------------------------------------------------------------
(* Each step keeps the invariant.                                          *)

\* The inductive invariant holds at the start.
LEMMA InitIInv == Init => IInv
<1> SUFFICES ASSUME Init PROVE IInv OBVIOUS
<1>1. ChipTypeOK
  <2>1. \A w \in Word : <<0, w>> \in Content BY GeometryAssumption DEF Word, Content
  <2> QED BY <2>1, LockMenuAssumption, ChipConstants DEF Init, ChipTypeOK
<1>2. TypeOK
  <2>1. hasty \in BOOLEAN /\ confirmed \in BOOLEAN BY DEF Init
  <2>2. choice \in 0..44 /\ wanted \in 0..44 /\ wpPin \in 0..255 BY DEF Init
  <2>3. status \in StatusRegister /\ old \in StatusRegister /\ marked \subseteq 1..44
    BY DEF Init, StatusRegister
  <2> QED BY <1>1, <2>1, <2>2, <2>3 DEF Init, TypeOK, Stages
<1>3. ~(SRPBits \subseteq sr) BY LockMenuAssumption DEF Init, SRPBits
<1> QED BY <1>2, <1>3, CycleFields
        DEF Init, IInv, Arguments, OnlyRegisterWrites, LocksConfirmed, ReadsKnown,
            RangeKept

\* The bits of two reads make up a status register.
LEMMA ReadTypes ==
    ASSUME sr \in StatusRegister, status \in StatusRegister
    PROVE  /\ sr \cap SR1Bits \in StatusRegister
           /\ BothRead \in StatusRegister
           /\ Reread \in StatusRegister
BY DEF BothRead, Reread, StatusRegister, SR1Bits, SR2Bits

\* The steps that send nothing or WREN.
LEMMA QuietSteps ==
    ASSUME IInv,
           \/ \E k \in {"p", "r", "c", "s"} : TakeKey(k, 0)
           \/ \E n \in 1..44 : TakeKey("b", n)
           \/ \E n \in 1..5 : TakeKey("l", n)
           \/ ReadSR1 \/ ShowRanges \/ ReadForWrite \/ ConfirmLock \/ AbortLock
           \/ SendWREN \/ VerifySR1 \/ VerifySR2 \/ ReadForStatus
           \/ CheckDropped \/ CheckRestored \/ ShowSR1 \/ ShowLock
           \/ MoveJumper \/ UNCHANGED vars
    PROVE  IInv'
<1> USE DEF IInv, chipVars, Stages
<1> USE DEF Arguments, OnlyRegisterWrites, LocksConfirmed, ReadsKnown, RangeKept
<1>0. ChipTypeOK BY DEF TypeOK
<1>1. CASE \E k \in {"p", "r", "c", "s"} : TakeKey(k, 0)
  <2>1. TypeOK' BY <1>0, <1>1 DEF TakeKey, TypeOK, ChipTypeOK
  <2> QED BY <1>1, <2>1 DEF TakeKey, WIP
<1>2. CASE \E n \in 1..44 : TakeKey("b", n)
  <2>1. TypeOK' BY <1>0, <1>2 DEF TakeKey, TypeOK, ChipTypeOK
  <2> QED BY <1>2, <2>1 DEF TakeKey, WIP
<1>3. CASE \E n \in 1..5 : TakeKey("l", n)
  <2>1. TypeOK' BY <1>0, <1>3 DEF TakeKey, TypeOK, ChipTypeOK
  <2> QED BY <1>3, <2>1 DEF TakeKey, WIP
<1>4. sr \in StatusRegister /\ status \in StatusRegister BY DEF TypeOK, ChipTypeOK
<1>5. CASE ReadSR1
  <2>1. TypeOK' BY <1>0, <1>4, <1>5, ReadTypes DEF ReadSR1, TypeOK, ChipTypeOK
  <2> QED BY <1>5, <2>1 DEF ReadSR1
<1>6. CASE ShowRanges
  <2>1. marked' \subseteq 1..44 BY <1>6 DEF ShowRanges, Page
  <2>2. TypeOK' BY <1>0, <1>6, <2>1 DEF ShowRanges, BackToMenu, TypeOK, ChipTypeOK,
        StatusRegister
  <2> QED BY <1>6, <2>2 DEF ShowRanges, BackToMenu
<1>7. CASE ReadForWrite
  <2>1. pc' \in {"prompt", "wren"} BY <1>7 DEF ReadForWrite
  <2>2. TypeOK' BY <1>0, <1>4, <1>7, <2>1, ReadTypes
        DEF ReadForWrite, TypeOK, ChipTypeOK
  <2>3. SRPBits \subseteq BothRead => "SRP1" \in sr
    BY <1>7 DEF ReadForWrite, BothRead, SRPBits, SR1Bits
  <2>4. command = "l" /\ choice = 5 => pc' = "prompt"
    BY <1>7 DEF ReadForWrite, AsksFirst, Request, LockBits
  <2> QED BY <1>7, <2>1, <2>2, <2>3, <2>4 DEF ReadForWrite
<1>8. CASE AbortLock
  <2>1. TypeOK' BY <1>0, <1>8 DEF AbortLock, BackToMenu, TypeOK, ChipTypeOK,
        StatusRegister
  <2> QED BY <1>8, <2>1 DEF AbortLock, BackToMenu
<1>9. CASE SendWREN
  <2>1. pc' = CASE pc = "wren" -> "wrsr" [] pc = "dropWREN" -> "dropWRSR"
                [] pc = "restoreWREN" -> "restoreWRSR"
    BY <1>9 DEF SendWREN, AfterWREN
  <2>2. pc \in {"wren", "dropWREN", "restoreWREN"} BY <1>9 DEF SendWREN, AfterWREN
  <2>3. TypeOK' BY <1>0, <1>9, <2>1, <2>2, LatchTypes DEF SendWREN, TypeOK
  <2> QED BY <1>9, <2>1, <2>2, <2>3 DEF SendWREN, WriteEnable
<1>10. CASE VerifySR1
  <2>1. TypeOK' BY <1>0, <1>4, <1>10, ReadTypes DEF VerifySR1, TypeOK, ChipTypeOK
  <2> QED BY <1>10, <2>1 DEF VerifySR1
<1>11. CASE VerifySR2
  <2>1. TypeOK' BY <1>0, <1>11 DEF VerifySR2, BackToMenu, TypeOK, ChipTypeOK,
        StatusRegister
  <2> QED BY <1>11, <2>1 DEF VerifySR2, BackToMenu
<1>12. CASE ReadForStatus
  <2>1. TypeOK' BY <1>0, <1>4, <1>12, ReadTypes
        DEF ReadForStatus, TypeOK, ChipTypeOK
  <2>2. pc' = "dropWREN" => "SRP1" \notin status'
    BY <1>12 DEF ReadForStatus, SRPBits
  <2>3. ~hasty => status' \ SRPBits = sr \ SRPBits
    BY <1>4, <1>12 DEF ReadForStatus, BothRead, StatusRegister, SRPBits
  <2> QED BY <1>12, <2>1, <2>2, <2>3 DEF ReadForStatus
<1>13. CASE CheckDropped
  <2>1. TypeOK' BY <1>0, <1>4, <1>13, ReadTypes DEF CheckDropped, TypeOK, ChipTypeOK
  <2>2. pc = "dropRead" => "SRP1" \notin Reread BY DEF Reread, SR1Bits
  <2>3. ~hasty /\ command = "s" => Reread \ SRPBits = sr \ SRPBits
    BY <1>4, <1>13 DEF CheckDropped, Reread, StatusRegister, SR1Bits, SR2Bits, SRPBits
  <2> QED BY <1>13, <2>1, <2>2, <2>3 DEF CheckDropped
<1>14. CASE CheckRestored
  <2>1. wpPin' \in 0..255 BY <1>14, SMT DEF CheckRestored, AsU8
  <2>2. TypeOK' BY <1>0, <1>4, <1>14, <2>1, ReadTypes
        DEF CheckRestored, TypeOK, ChipTypeOK
  <2> QED BY <1>14, <2>2 DEF CheckRestored
<1>15. CASE ShowSR1
  <2>1. TypeOK' BY <1>0, <1>4, <1>15, ReadTypes DEF ShowSR1, TypeOK, ChipTypeOK
  <2> QED BY <1>15, <2>1 DEF ShowSR1
<1>16. CASE ShowLock
  <2>1. TypeOK' BY <1>0, <1>16 DEF ShowLock, TypeOK, ChipTypeOK, StatusRegister
  <2> QED BY <1>16, <2>1 DEF ShowLock
<1>17. CASE MoveJumper
  <2>1. TypeOK' BY <1>0, <1>17 DEF MoveJumper, menuVars, TypeOK, ChipTypeOK
  <2> QED BY <1>17, <2>1 DEF MoveJumper, menuVars
<1>18. CASE UNCHANGED vars
  <2>1. TypeOK' BY <1>0, <1>18 DEF vars, menuVars, TypeOK, ChipTypeOK
  <2> QED BY <1>18, <2>1 DEF vars, menuVars
<1>19. CASE ConfirmLock
  <2>1. TypeOK' BY <1>0, <1>19 DEF ConfirmLock, TypeOK, ChipTypeOK
  <2> QED BY <1>19, <2>1 DEF ConfirmLock
<1> QED BY <1>1, <1>2, <1>3, <1>5, <1>6, <1>7, <1>8, <1>9, <1>10, <1>11, <1>12,
        <1>13, <1>14, <1>15, <1>16, <1>17, <1>18, <1>19

\* A write of the registers keeps the chip's part of the invariant when what
\* is written locks for good only with a confirmation.
LEMMA WriteKeeps ==
    ASSUME IInv, NEW r \in StatusRegister, WriteStatus(r),
           RegistersWritable /\ SRPBits \subseteq r => confirmed
    PROVE  /\ ChipTypeOK'
           /\ UNCHANGED <<sr, wpLow>>
           /\ \/ busy' = busy
              \/ /\ busy' = WrsrCycle(r) /\ busy'.op = "wrsr" /\ busy'.reg = r
                 /\ "SRP1" \notin sr
                 /\ SRPBits \subseteq r => confirmed
<1>1. ChipTypeOK BY DEF IInv, TypeOK
<1>2. WrsrCycle(r) \in Cycle BY CycleTypes
<1>3. RegistersWritable \in BOOLEAN BY DEF RegistersWritable
<1>4. ChipTypeOK' BY <1>1, <1>2, <1>3, StartCycleTypes DEF WriteStatus
<1> QED BY <1>4, CycleFields DEF WriteStatus, StartCycle, RegistersWritable

\* The three steps that send a register write.
LEMMA WriteSteps ==
    ASSUME IInv, SendWRSR \/ DropSRP0 \/ RestoreSRP0
    PROVE  IInv'
<1> USE DEF IInv, Stages
<1> USE DEF Arguments, OnlyRegisterWrites, LocksConfirmed, ReadsKnown, RangeKept
<1>0. status \in StatusRegister BY DEF TypeOK
<1>1. CASE SendWRSR
  <2>1. /\ Request(status) \in StatusRegister
        /\ SRPBits \subseteq Request(status) =>
              SRPBits \subseteq status \/ (command = "l" /\ choice = 5)
    BY <1>0, <1>1, RequestLocks DEF SendWRSR
  <2>2. RegistersWritable /\ SRPBits \subseteq Request(status) => confirmed
    BY <1>1, <2>1 DEF SendWRSR, RegistersWritable
  <2>3. /\ ChipTypeOK' /\ sr' = sr
        /\ \/ busy' = busy
           \/ /\ busy'.op = "wrsr" /\ busy'.reg = Request(status)
              /\ "SRP1" \notin sr
              /\ SRPBits \subseteq Request(status) => confirmed
    BY <1>1, <2>1, <2>2, WriteKeeps DEF SendWRSR
  <2>4. wanted' \in 0..44 BY <1>1 DEF SendWRSR, TypeOK
  <2>5. TypeOK' BY <1>1, <2>3, <2>4 DEF SendWRSR, TypeOK
  <2> QED BY <1>1, <2>3, <2>5 DEF SendWRSR
<1>2. CASE DropSRP0
  <2> DEFINE r == status \ {"SRP0"}
  <2>1. r \in StatusRegister /\ ~(SRPBits \subseteq r)
    BY <1>0 DEF StatusRegister, SRPBits
  <2>2. /\ ChipTypeOK' /\ sr' = sr
        /\ busy' = busy \/ (busy'.op = "wrsr" /\ busy'.reg = r /\ "SRP1" \notin sr)
    BY <1>2, <2>1, WriteKeeps DEF DropSRP0
  <2>3. TypeOK' BY <1>2, <2>2 DEF DropSRP0, TypeOK
  <2>4. r \ SRPBits = status \ SRPBits BY DEF SRPBits
  <2> QED BY <1>2, <2>1, <2>2, <2>3, <2>4 DEF DropSRP0
<1>3. CASE RestoreSRP0
  <2> DEFINE r == status \cup {"SRP0"}
  <2>1. r \in StatusRegister /\ ~(SRPBits \subseteq r)
    BY <1>0, <1>3 DEF RestoreSRP0, StatusRegister, SR1Bits, SRPBits
  <2>2. /\ ChipTypeOK' /\ sr' = sr
        /\ busy' = busy \/ (busy'.op = "wrsr" /\ busy'.reg = r /\ "SRP1" \notin sr)
    BY <1>3, <2>1, WriteKeeps DEF RestoreSRP0
  <2>3. TypeOK' BY <1>3, <2>2 DEF RestoreSRP0, TypeOK
  <2>4. r \ SRPBits = status \ SRPBits BY DEF SRPBits
  <2> QED BY <1>3, <2>1, <2>2, <2>3, <2>4 DEF RestoreSRP0
<1> QED BY <1>1, <1>2, <1>3

\* Writing back the range that is there leaves it as it is.
LEMMA LatchedRange ==
    ASSUME NEW r, r \ SRPBits = sr \ SRPBits
    PROVE  Latched(r) \ SRPBits = sr \ SRPBits
BY DEF Latched, SRPBits, LBBits

\* The end of a register write brings into force what was known of it.
LEMMA ChipStep ==
    ASSUME IInv, ChipFinishes
    PROVE  IInv'
<1> USE DEF IInv
<1>1. ChipTypeOK' BY CycleEndsTypes DEF TypeOK, ChipFinishes
<1>2. TypeOK' BY <1>1 DEF ChipFinishes, menuVars, TypeOK
<1>3. busy.op = "wrsr" /\ busy'.op = "idle" /\ "SRP1" \notin sr
  BY CycleFields DEF ChipFinishes, CycleEnds, WIP, OnlyRegisterWrites
<1>4. Arguments' BY DEF Arguments, ChipFinishes, menuVars
<1>5. OnlyRegisterWrites' BY <1>3 DEF OnlyRegisterWrites
<1> DEFINE written == Latched(busy.reg)
<1>6. sr' = written BY <1>3 DEF ChipFinishes, CycleEnds
<1>7. \A b \in SRPBits : b \in written <=> b \in busy.reg
  BY LatchedBits DEF TypeOK, ChipTypeOK, Cycle, SRPBits, LBBits
<1>8. LocksConfirmed' BY <1>3, <1>6, <1>7 DEF LocksConfirmed, ChipFinishes, menuVars
<1>9. ReadsKnown' BY <1>3, <1>6, <1>7 DEF ReadsKnown, ChipFinishes, menuVars
<1>10. RangeKept' BY <1>3, <1>6, LatchedRange DEF RangeKept, ChipFinishes, menuVars
<1> QED BY <1>2, <1>4, <1>5, <1>8, <1>9, <1>10

\* The lock bits that come up are ones that were there or on the way.
LEMMA PowerUpLocks ==
    ASSUME NEW r
    PROVE  /\ SRPBits \subseteq AtPowerUp(r) => SRPBits \subseteq r
           /\ AtPowerUp(r) \ SRPBits = r \ SRPBits
BY DEF AtPowerUp, SRPBits

\* A power failure closes the menu and takes SRP1 away.
LEMMA PowerStep ==
    ASSUME IInv, LosePower
    PROVE  IInv'
<1> USE DEF IInv
<1>1. ChipTypeOK' BY PowerCycleTypes DEF TypeOK, LosePower
<1>2. TypeOK' BY <1>1 DEF LosePower, TypeOK, Stages, StatusRegister
<1>3. busy'.op = "idle" BY CycleFields DEF LosePower, PowerCycle
<1> DEFINE written == Latched(busy.reg)
<1>4. sr' = AtPowerUp(sr) \/ (busy.op = "wrsr" /\ sr' = AtPowerUp(written))
  BY DEF LosePower, PowerCycle
<1>5. \A b \in SRPBits : b \in written <=> b \in busy.reg
  BY LatchedBits DEF TypeOK, ChipTypeOK, Cycle, SRPBits, LBBits
<1>6. LocksConfirmed'
  <2>1. SRPBits \subseteq written => SRPBits \subseteq busy.reg BY <1>5
  <2> QED BY <1>3, <1>4, <2>1, PowerUpLocks DEF LocksConfirmed, LosePower
<1> QED BY <1>2, <1>3, <1>6
        DEF LosePower, Arguments, OnlyRegisterWrites, ReadsKnown, RangeKept

\* Every step keeps it.
LEMMA StepIInv == IInv /\ [Next]_vars => IInv'
<1> SUFFICES ASSUME IInv, [Next]_vars PROVE IInv' OBVIOUS
<1>1. (IF hasty THEN HastyChoices ELSE Choices) \subseteq 1..44
  BY LockMenuAssumption
<1> QED BY <1>1, QuietSteps, WriteSteps, ChipStep, PowerStep DEF Next

\* So it always holds.
LEMMA Inductive == Spec => []IInv
BY InitIInv, StepIInv, PTL DEF Spec

-----------------------------------------------------------------------------
\* Chip and menu keep their types.
THEOREM TypeCorrect == Spec => []TypeOK
<1>1. IInv => TypeOK BY DEF IInv
<1> QED BY <1>1, Inductive, PTL

\* The status registers are never locked for good without the user's yes,
\* however fast commands come and whenever power fails.
THEOREM LocksAreConfirmed == Spec => []PermanentLockConfirmed
<1>1. IInv => PermanentLockConfirmed
  BY DEF IInv, LocksConfirmed, PermanentLockConfirmed
<1> QED BY <1>1, Inductive, PTL

\* Looking at the lock status does not change the protected range.
THEOREM StatusLeavesRange == Spec => StatusKeepsRange
<1>1. ASSUME IInv, [Next]_vars, ~hasty, command = "s"
      PROVE  sr' \ SRPBits = sr \ SRPBits
  <2>1. CASE ChipFinishes
    BY <1>1, <2>1, LatchedRange
       DEF IInv, RangeKept, OnlyRegisterWrites, ChipFinishes, CycleEnds, WIP
  <2>2. CASE LosePower
    <3>1. \/ sr' = AtPowerUp(sr)
          \/ busy.op = "wrsr" /\ sr' = AtPowerUp(Latched(busy.reg))
      BY <2>2 DEF LosePower, PowerCycle
    <3> QED BY <1>1, <3>1, PowerUpLocks, LatchedRange DEF IInv, RangeKept
  <2>3. CASE ~ChipFinishes /\ ~LosePower
    BY <1>1, <2>3
       DEF Next, vars, chipVars, TakeKey, ReadSR1, ShowRanges, ReadForWrite,
           ConfirmLock, AbortLock, SendWREN, WriteEnable, SendWRSR, WriteStatus, StartCycle,
           VerifySR1, VerifySR2, ReadForStatus, DropSRP0, CheckDropped,
           RestoreSRP0, CheckRestored, ShowSR1, ShowLock, MoveJumper
  <2> QED BY <2>1, <2>2, <2>3
<1>2. IInv /\ [Next]_vars
        => [~hasty /\ command = "s" => sr' \ SRPBits = sr \ SRPBits]_vars
  BY <1>1
<1> QED BY <1>2, Inductive, PTL DEF Spec, StatusKeepsRange

-----------------------------------------------------------------------------
(* The invariant behind the truth of what the menu prints, for a user who  *)
(* waits for the chip between two commands.                                *)

Asked(row) == BPLookup(row) \cup (IF row > 22 THEN {"CMP"} ELSE {})

\* The reads in front of the first write of a command find registers at rest.
ReadsAtRest ==
    /\ pc \in {"read1", "read2", "prompt", "wren", "wrsr", "dropWREN", "dropWRSR"}
          => ~WIP
    /\ pc = "read2" => status = sr \cap SR1Bits
    /\ pc \in {"prompt", "wren", "wrsr"} => status = sr /\ old = sr
    /\ pc \in {"dropWREN", "dropWRSR"} => status = sr

\* Behind it they are as they were, with the request refused or under way, or
\* as requested.
WriteSettles ==
    /\ pc \in {"verify1", "verify2"} =>
          \/ sr = old /\ (busy.op = "wrsr" => busy.reg = Request(old))
          \/ sr = Request(old) /\ ~WIP
    /\ pc = "verify2" => status = sr \cap SR1Bits \/ (sr = Request(old) /\ ~WIP)

\* SRP0 is only ever away while the pin is high.
PinKnown ==
    /\ pc \in {"read1", "read2"} => wpPin = 1
    /\ pc \in {"dropWREN", "dropWRSR"} => "SRP0" \in sr
    /\ pc = "dropRead" => ("SRP0" \notin sr \/ WIP => ~wpLow)
    /\ pc \in {"restoreWREN", "restoreWRSR", "restoreRead"} => ~wpLow
    /\ pc \in {"show1", "show2"} /\ wpPin = 1 =>
          \/ ~wpLow
          \/ /\ ~WIP /\ sr \cap SRPBits # {"SRP0"}
             /\ pc = "show2" => status = sr \cap SR1Bits

\* The range the chip was given last is in force or on its way.
RangeTaken ==
    wanted # 0 =>
        /\ busy.op = "wrsr" => busy.reg \cap RangeBits = Asked(wanted)
        /\ ~WIP => sr \cap RangeBits = Asked(wanted)

WaitInv ==
    ~hasty => ReadsAtRest /\ WriteSettles /\ (command = "s" => PinKnown) /\ RangeTaken

\* What a command writes of the range, and what it leaves of the lock bits of
\* the security registers.
LEMMA RequestRange ==
    ASSUME NEW r \in StatusRegister, command \in {"b", "c", "l"},
           command = "b" => choice \in 1..44,
           command = "l" => choice \in 1..5
    PROVE  /\ r \cap LBBits \subseteq Request(r)
           /\ command = "b" => Request(r) \cap RangeBits = Asked(choice)
           /\ command = "c" => Request(r) \cap RangeBits = Asked(1)
           /\ command = "l" => /\ Request(r) \cap RangeBits = r \cap RangeBits
                               /\ Request(r) \ SRPBits = r \ SRPBits
<1>1. CASE command = "b"
  <2>1. BPLookup(choice) \subseteq {"BP0", "BP1", "BP2", "TB", "SEC"}
    BY <1>1, LookupIsRange
  <2>2. Request(r) = (r \ RangeBits) \cup Asked(choice)
    BY <1>1 DEF Request, Asked
  <2>3. Asked(choice) \subseteq RangeBits BY <2>1 DEF Asked, RangeBits
  <2> QED BY <1>1, <2>2, <2>3 DEF RangeBits, LBBits
<1>2. CASE command = "c"
  <2>1. Asked(1) = {} BY DEF Asked, BPLookup, Half
  <2> QED BY <1>2, <2>1 DEF Request, RangeBits, LBBits
<1>3. CASE command = "l"
  <2>1. LockBits(choice) \subseteq SRPBits BY <1>3, LockBitsOfTypes
  <2> QED BY <1>3, <2>1 DEF Request, SRPBits, RangeBits, LBBits
<1> QED BY <1>1, <1>2, <1>3

\* At the start nothing runs and nothing was asked for.
LEMMA InitWaitInv == Init => WaitInv
BY CycleFields DEF Init, WaitInv, ReadsAtRest, WriteSettles, RangeTaken, WIP

\* The bits of both reads, when the registers are at rest, are the registers.
LEMMA RestRead ==
    ASSUME sr \in StatusRegister, status = sr \cap SR1Bits
    PROVE  BothRead = sr
BY DEF BothRead, StatusRegister

\* The steps that write no register.
LEMMA QuietWaits ==
    ASSUME IInv, WaitInv,
           \/ \E k, n : TakeKey(k, n)
           \/ ReadSR1 \/ ShowRanges \/ ReadForWrite \/ ConfirmLock \/ AbortLock
           \/ SendWREN \/ VerifySR1 \/ VerifySR2 \/ ReadForStatus
           \/ CheckDropped \/ CheckRestored \/ ShowSR1 \/ ShowLock
           \/ MoveJumper \/ UNCHANGED vars
    PROVE  WaitInv'
<1>0. UNCHANGED <<hasty, sr, busy, wanted>>
  BY DEF TakeKey, ReadSR1, ShowRanges, ReadForWrite, ConfirmLock, AbortLock, SendWREN,
         WriteEnable,
         VerifySR1, VerifySR2, ReadForStatus, CheckDropped, CheckRestored, ShowSR1,
         ShowLock, MoveJumper, vars, menuVars, chipVars
<1> SUFFICES ASSUME ~hasty
             PROVE  /\ ReadsAtRest' /\ WriteSettles' /\ (command' = "s" => PinKnown')
                    /\ RangeTaken'
  BY <1>0 DEF WaitInv
<1>1. ReadsAtRest /\ WriteSettles /\ (command = "s" => PinKnown) /\ RangeTaken
  BY DEF WaitInv
<1>2. /\ RangeTaken'
      /\ sr \in StatusRegister
  BY <1>0, <1>1 DEF RangeTaken, WIP, IInv, TypeOK, ChipTypeOK
<1> USE DEF ReadsAtRest, WriteSettles, PinKnown, WIP, chipVars
<1>3. CASE \E k, n : TakeKey(k, n) BY <1>0, <1>1, <1>2, <1>3 DEF TakeKey
<1>4. CASE ReadSR1 BY <1>0, <1>1, <1>2, <1>4 DEF ReadSR1
<1>5. CASE ShowRanges BY <1>0, <1>1, <1>2, <1>5 DEF ShowRanges, BackToMenu
<1>6. CASE AbortLock BY <1>0, <1>1, <1>2, <1>6 DEF AbortLock, BackToMenu
<1>7. CASE ReadForWrite
  <2>1. BothRead = sr BY <1>1, <1>2, <1>7, RestRead DEF ReadForWrite
  <2>2. pc' \in {"prompt", "wren"} BY <1>7 DEF ReadForWrite
  <2> QED BY <1>0, <1>1, <1>2, <1>7, <2>1, <2>2 DEF ReadForWrite
<1>8. CASE SendWREN
  <2>1. /\ pc = "wren" => pc' = "wrsr"
        /\ pc = "dropWREN" => pc' = "dropWRSR"
        /\ pc = "restoreWREN" => pc' = "restoreWRSR"
        /\ pc \in {"wren", "dropWREN", "restoreWREN"}
    BY <1>8 DEF SendWREN, AfterWREN
  <2>2. UNCHANGED <<command, choice, status, old, wpPin, wpLow>>
    BY <1>8 DEF SendWREN, WriteEnable
  <2> QED BY <1>0, <1>1, <1>2, <2>1, <2>2
<1>9. CASE VerifySR1
  <2>1. /\ pc' = "verify2" /\ status' = sr \cap SR1Bits /\ pc = "verify1"
        /\ UNCHANGED <<command, choice, old, wpPin>>
    BY <1>9 DEF VerifySR1
  <2>2. Request(old)' = Request(old) BY <2>1 DEF Request
  <2> QED BY <1>0, <1>1, <1>2, <2>1, <2>2
<1>10. CASE VerifySR2 BY <1>0, <1>1, <1>2, <1>10 DEF VerifySR2, BackToMenu
<1>11. CASE ReadForStatus
  <2>1. BothRead = sr BY <1>1, <1>2, <1>11, RestRead DEF ReadForStatus
  <2>2. sr \cap SRPBits = {"SRP0"} => "SRP0" \in sr OBVIOUS
  <2> QED BY <1>0, <1>1, <1>2, <1>11, <2>1, <2>2 DEF ReadForStatus
<1>12. CASE CheckDropped
  <2>1. "SRP0" \in Reread <=> "SRP0" \in sr BY DEF Reread, SR1Bits, SR2Bits, LBBits
  <2> QED BY <1>0, <1>1, <1>2, <1>12, <2>1 DEF CheckDropped
<1>13. CASE CheckRestored BY <1>0, <1>1, <1>2, <1>13 DEF CheckRestored
<1>14. CASE ShowSR1 BY <1>0, <1>1, <1>2, <1>14 DEF ShowSR1
<1>15. CASE ShowLock BY <1>0, <1>1, <1>2, <1>15 DEF ShowLock
<1>16. CASE MoveJumper BY <1>0, <1>1, <1>2, <1>16 DEF MoveJumper, menuVars
<1>17. CASE UNCHANGED vars
  <2>1. UNCHANGED <<pc, command, choice, status, old, wpPin, wpLow>>
    BY <1>17 DEF vars, menuVars
  <2>2. Request(old)' = Request(old) BY <2>1 DEF Request
  <2> QED BY <1>0, <1>1, <1>2, <2>1, <2>2
<1>18. CASE ConfirmLock BY <1>0, <1>1, <1>2, <1>18 DEF ConfirmLock
<1> HIDE DEF ReadsAtRest, WriteSettles, PinKnown
<1> QED BY <1>3, <1>4, <1>5, <1>6, <1>7, <1>8, <1>9, <1>10, <1>11, <1>12, <1>13,
        <1>14, <1>15, <1>16, <1>17, <1>18

\* A write of the registers is refused, ignored, or under way.
LEMMA WriteSent ==
    ASSUME NEW r, WriteStatus(r)
    PROVE  /\ UNCHANGED <<mem, sr, wpLow>>
           /\ \/ busy' = busy
              \/ /\ ~WIP /\ busy'.op = "wrsr" /\ busy'.reg = r
                 /\ RegistersWritable /\ busy' # busy
BY CycleFields DEF WriteStatus, StartCycle, WIP

\* The range bits are neither lock bits of the registers nor of the security
\* registers.
LEMMA BitsDiffer ==
    /\ \A r, s : r \ SRPBits = s \ SRPBits => r \cap RangeBits = s \cap RangeBits
    /\ \A r : Latched(r) \cap RangeBits = r \cap RangeBits
BY DEF SRPBits, RangeBits, LBBits, Latched

\* The steps that do write.
LEMMA WriteWaits ==
    ASSUME IInv, WaitInv, SendWRSR \/ DropSRP0 \/ RestoreSRP0
    PROVE  WaitInv'
<1>0. UNCHANGED <<hasty, command, choice, status, old, wpPin>>
  BY DEF SendWRSR, DropSRP0, RestoreSRP0
<1> SUFFICES ASSUME ~hasty
             PROVE  /\ ReadsAtRest' /\ WriteSettles' /\ (command' = "s" => PinKnown')
                    /\ RangeTaken'
  BY <1>0 DEF WaitInv
<1>1. ReadsAtRest /\ WriteSettles /\ (command = "s" => PinKnown) /\ RangeTaken
  BY DEF WaitInv
<1>2. status \in StatusRegister BY DEF IInv, TypeOK
<1> USE DEF ReadsAtRest, WriteSettles, PinKnown, RangeTaken
<1>3. CASE SendWRSR
  <2>1. /\ pc = "wrsr" /\ pc' = "verify1"
        /\ wanted' = IF command \in {"b", "c"} /\ busy' # busy
                     THEN IF command = "c" THEN 1 ELSE choice
                     ELSE wanted
    BY <1>3 DEF SendWRSR
  <2>2. /\ UNCHANGED <<mem, sr, wpLow>>
        /\ \/ busy' = busy
           \/ /\ ~WIP /\ busy'.op = "wrsr" /\ busy'.reg = Request(status)
              /\ busy' # busy
    BY <1>3, WriteSent DEF SendWRSR
  <2>3. Request(old)' = Request(old) BY <1>0 DEF Request
  <2>4. status = sr /\ old = sr /\ ~WIP BY <1>1, <2>1
  <2>5. /\ command = "b" => Request(status) \cap RangeBits = Asked(choice)
        /\ command = "c" => Request(status) \cap RangeBits = Asked(1)
        /\ command = "l" => Request(status) \cap RangeBits = status \cap RangeBits
        /\ command \in {"b", "c", "l"}
    BY <1>2, <2>1, RequestRange DEF IInv, Arguments, Stages
  <2>6. RangeTaken'
    <3>1. CASE busy' = busy BY <1>1, <2>1, <2>2, <3>1 DEF WIP
    <3>2. CASE busy' # busy
      BY <1>1, <2>1, <2>2, <2>4, <2>5, <3>2 DEF WIP
    <3> QED BY <3>1, <3>2
  <2>7. ReadsAtRest' /\ PinKnown' BY <2>1
  <2>8. WriteSettles'
    <3>1. busy'.op = "wrsr" => busy'.reg = Request(old) BY <2>2, <2>4 DEF WIP
    <3> QED BY <1>0, <2>1, <2>2, <2>3, <2>4, <3>1
  <2> QED BY <2>6, <2>7, <2>8
<1>4. CASE DropSRP0
  <2> DEFINE r == status \ {"SRP0"}
  <2>1. pc = "dropWRSR" /\ pc' = "dropRead" /\ wanted' = wanted /\ command = "s"
    BY <1>4 DEF DropSRP0, IInv, Arguments
  <2>2. /\ UNCHANGED <<mem, sr, wpLow>>
        /\ \/ busy' = busy
           \/ ~WIP /\ busy'.op = "wrsr" /\ busy'.reg = r /\ RegistersWritable
    BY <1>4, WriteSent DEF DropSRP0
  <2>3. status = sr /\ ~WIP /\ "SRP0" \in sr BY <1>1, <2>1
  <2>4. r \cap RangeBits = sr \cap RangeBits BY <2>3 DEF RangeBits
  <2>5. PinKnown' BY <2>1, <2>2, <2>3 DEF RegistersWritable, WIP
  <2>6. ReadsAtRest' /\ WriteSettles' BY <2>1
  <2>7. RangeTaken' BY <1>1, <2>1, <2>2, <2>3, <2>4 DEF WIP
  <2> QED BY <2>5, <2>6, <2>7
<1>5. CASE RestoreSRP0
  <2> DEFINE r == status \cup {"SRP0"}
  <2>1. pc = "restoreWRSR" /\ pc' = "restoreRead" /\ wanted' = wanted
    BY <1>5 DEF RestoreSRP0
  <2>2. /\ UNCHANGED <<mem, sr, wpLow>>
        /\ \/ busy' = busy
           \/ ~WIP /\ busy'.op = "wrsr" /\ busy'.reg = r
    BY <1>5, WriteSent DEF RestoreSRP0
  <2>3. command = "s" => r \cap RangeBits = sr \cap RangeBits
    <3>1. command = "s" => status \ SRPBits = sr \ SRPBits
      BY <2>1 DEF IInv, RangeKept
    <3> QED BY <3>1 DEF SRPBits, RangeBits
  <2>4. (command = "s" => PinKnown') /\ ReadsAtRest' /\ WriteSettles'
    BY <1>1, <2>1, <2>2
  <2>5. command = "s" BY <2>1 DEF IInv, Arguments
  <2>6. RangeTaken' BY <1>1, <2>1, <2>2, <2>3, <2>5 DEF WIP
  <2> QED BY <1>0, <2>4, <2>6
<1> QED BY <1>3, <1>4, <1>5

\* The end of a register write is the settlement the invariant speaks of.
LEMMA ChipWaits ==
    ASSUME IInv, WaitInv, ChipFinishes
    PROVE  WaitInv'
<1>0. UNCHANGED <<hasty, pc, command, choice, status, old, wpPin, wpLow, wanted>>
  BY DEF ChipFinishes, CycleEnds, menuVars
<1> SUFFICES ASSUME ~hasty
             PROVE  /\ ReadsAtRest' /\ WriteSettles' /\ (command' = "s" => PinKnown')
                    /\ RangeTaken'
  BY <1>0 DEF WaitInv
<1>1. ReadsAtRest /\ WriteSettles /\ (command = "s" => PinKnown) /\ RangeTaken
  BY DEF WaitInv
<1>2. WIP /\ busy.op = "wrsr" /\ busy'.op = "idle" /\ sr' = Latched(busy.reg)
  BY CycleFields DEF ChipFinishes, CycleEnds, WIP, IInv, OnlyRegisterWrites
<1>3. ReadsAtRest' BY <1>0, <1>1, <1>2 DEF ReadsAtRest, WIP
<1>4. WriteSettles'
  <2>1. Request(old)' = Request(old) BY <1>0 DEF Request
  <2>2. ASSUME pc \in {"verify1", "verify2"} PROVE sr' = Request(old)
    <3>1. sr = old /\ busy.reg = Request(old) BY <1>1, <1>2, <2>2 DEF WriteSettles
    <3>2. old \cap LBBits \subseteq Request(old)
      BY <2>2, RequestRange DEF IInv, TypeOK, Arguments, Stages
    <3> QED BY <1>2, <3>1, <3>2 DEF Latched
  <2> QED BY <1>0, <1>2, <2>1, <2>2 DEF WriteSettles, WIP
<1>5. command' = "s" => PinKnown' BY <1>0, <1>1, <1>2 DEF PinKnown, ReadsAtRest, WIP
<1>6. RangeTaken' BY <1>0, <1>1, <1>2, BitsDiffer DEF RangeTaken, WIP
<1> QED BY <1>3, <1>4, <1>5, <1>6

\* Every step keeps it.
LEMMA StepWaits == IInv /\ WaitInv /\ [Next]_vars => WaitInv'
<1> SUFFICES ASSUME IInv, WaitInv, [Next]_vars PROVE WaitInv' OBVIOUS
<1>1. CASE LosePower
  <2>1. busy'.op = "idle" BY <1>1, CycleFields DEF LosePower, PowerCycle
  <2>2. pc' = "menu" /\ command' = "none" /\ wanted' = 0 BY <1>1 DEF LosePower
  <2> QED BY <2>1, <2>2 DEF WaitInv, ReadsAtRest, WriteSettles, RangeTaken, WIP
<1> QED BY <1>1, QuietWaits, WriteWaits, ChipWaits DEF Next

\* So both invariants always hold.
LEMMA BothHold == Spec => [](IInv /\ WaitInv)
BY InitIInv, InitWaitInv, StepIInv, StepWaits, PTL DEF Spec

\* "success" of b and l is true.
THEOREM SuccessIsTrue == Spec => SuccessIsReal
<1>1. ASSUME IInv, WaitInv, VerifySR2, ~hasty, command # "c", message' = "success"
      PROVE  sr = Request(old)
  <2>1. ~Failed(BothRead) /\ pc = "verify2" BY <1>1 DEF VerifySR2
  <2>2. command \in {"b", "l"} BY <1>1, <2>1 DEF IInv, Arguments
  <2>3. CASE sr = old /\ status = sr \cap SR1Bits
    <3>1. BothRead = old BY <1>1, <2>3, RestRead DEF IInv, TypeOK, ChipTypeOK
    <3> QED BY <2>1, <2>2, <3>1 DEF Failed
  <2> QED BY <1>1, <2>1, <2>3 DEF WaitInv, WriteSettles
<1>2. IInv /\ WaitInv /\ [Next]_vars
        => [VerifySR2 /\ ~hasty /\ command # "c" /\ message' = "success" =>
              sr = Request(old)]_vars
  BY <1>1
<1> QED BY <1>2, BothHold, PTL DEF Spec, SuccessIsReal

\* "Hardware Unprotected mode" is only printed where the pin is high.
THEOREM HighPinIsTrue == Spec => HighPinIsHigh
<1>1. ASSUME IInv, WaitInv, ShowLock, ~hasty,
             BothRead \cap SRPBits = {"SRP0"}, wpPin = 1
      PROVE  ~wpLow
  <2>1. pc = "show2" /\ command = "s" BY <1>1 DEF ShowLock, IInv, Arguments
  <2>2. CASE sr \cap SRPBits # {"SRP0"} /\ status = sr \cap SR1Bits
    <3>1. BothRead = sr BY <2>2, <1>1, RestRead DEF IInv, TypeOK, ChipTypeOK
    <3> QED BY <1>1, <2>2, <3>1
  <2> QED BY <1>1, <2>1, <2>2 DEF WaitInv, PinKnown
<1>2. IInv /\ WaitInv /\ [Next]_vars
        => [ShowLock /\ ~hasty /\ BothRead \cap SRPBits = {"SRP0"} /\ wpPin = 1
              => ~wpLow]_vars
  BY <1>1
<1> QED BY <1>2, BothHold, PTL DEF Spec, HighPinIsHigh

-----------------------------------------------------------------------------
(* The tables against the chip's.                                          *)

\* The bits a row stands for, as the chip reads them; rows 18, 22, 40 and 44
\* are the same range for two values.
Fits(row, r) ==
    LET k == Half(row)
        is(bp) == BP(r) \in bp
    IN  /\ "CMP" \in r <=> row > 22
        /\ \/ k = 1 /\ is({0})
           \/ k \in 2..7 /\ is({k - 1}) /\ "SEC" \notin r /\ "TB" \notin r
           \/ k \in 8..13 /\ is({k - 7}) /\ "SEC" \notin r /\ "TB" \in r
           \/ k = 14 /\ is({7})
           \/ k \in 15..17 /\ is({k - 14}) /\ "SEC" \in r /\ "TB" \notin r
           \/ k = 18 /\ is({4, 5}) /\ "SEC" \in r /\ "TB" \notin r
           \/ k \in 19..21 /\ is({k - 18}) /\ "SEC" \in r /\ "TB" \in r
           \/ k = 22 /\ is({4, 5}) /\ "SEC" \in r /\ "TB" \in r

\* A row is one of 22 in its half.
LEMMA HalfTypes == \A row \in 1..44 : Half(row) \in 1..22
BY DEF Half

\* The bits of a number make the number.
LEMMA BPValue ==
    ASSUME NEW r, NEW n \in 0..7,
           \A b \in {"BP0", "BP1", "BP2"} : b \in r <=> b \in BPBits(n)
    PROVE  BP(r) = n
<1>1. /\ "BP0" \in r <=> n % 2 = 1
      /\ "BP1" \in r <=> (n \div 2) % 2 = 1
      /\ "BP2" \in r <=> n >= 4
  BY DEF BPBits
<1>2. n = 0 \/ n = 1 \/ n = 2 \/ n = 3 \/ n = 4 \/ n = 5 \/ n = 6 \/ n = 7
  OBVIOUS
<1>3. /\ BP(r) = Bit(r, "BP2", 4) + Bit(r, "BP1", 2) + Bit(r, "BP0", 1)
      /\ Bit(r, "BP2", 4) = IF n >= 4 THEN 4 ELSE 0
      /\ Bit(r, "BP1", 2) = IF (n \div 2) % 2 = 1 THEN 2 ELSE 0
      /\ Bit(r, "BP0", 1) = IF n % 2 = 1 THEN 1 ELSE 0
  BY <1>1 DEF BP, Bit
<1> QED BY ONLY <1>2, <1>3, SMT

\* What b writes for a row is what the row stands for, but for the wrong entry
\* of rows 14 and 36.
LEMMA AskedFits ==
    ASSUME NEW row \in 1..44 \ {14, 36}, NEW r, r \cap RangeBits = Asked(row)
    PROVE  Fits(row, r)
<1> DEFINE k == Half(row)
<1>1. k \in 1..22 /\ k # 14 BY DEF Half
<1>2. \A n : BPBits(n) \subseteq {"BP0", "BP1", "BP2"} BY DEF BPBits
<1>3. \A b \in RangeBits : b \in r <=> b \in Asked(row) OBVIOUS
<1>4. BPLookup(row) \subseteq {"BP0", "BP1", "BP2", "TB", "SEC"} BY LookupIsRange
<1>5. "CMP" \in r <=> row > 22 BY <1>3, <1>4 DEF Asked, RangeBits
<1>6. \A b \in {"BP0", "BP1", "BP2", "TB", "SEC"} : b \in r <=> b \in BPLookup(row)
  BY <1>3 DEF Asked, RangeBits
<1> HIDE DEF k
<1>7. CASE k = 1
  <2>1. BPLookup(row) = {} BY <1>7 DEF BPLookup, k
  <2>2. \A b \in {"BP0", "BP1", "BP2"} : b \notin BPBits(0)
    <3>1. 0 % 2 # 1 /\ (0 \div 2) % 2 # 1 /\ ~(0 >= 4) OBVIOUS
    <3> QED BY <3>1 DEF BPBits
  <2>3. BP(r) = 0 BY <1>6, <2>1, <2>2, BPValue
  <2> QED BY <1>5, <1>7, <2>3 DEF Fits, k
<1>8. CASE k \in 2..7
  <2>1. BPLookup(row) = BPBits(k - 1) /\ k - 1 \in 0..7 BY <1>8 DEF BPLookup, k
  <2>2. BP(r) = k - 1 BY <1>6, <2>1, BPValue
  <2>3. "SEC" \notin r /\ "TB" \notin r BY <1>2, <1>6, <2>1
  <2> QED BY <1>5, <1>8, <2>2, <2>3 DEF Fits, k
<1>9. CASE k \in 8..13
  <2>1. BPLookup(row) = BPBits(k - 7) \cup {"TB"} /\ k - 7 \in 0..7
    BY <1>9 DEF BPLookup, k
  <2>2. BP(r) = k - 7 BY <1>6, <2>1, BPValue
  <2>3. "SEC" \notin r /\ "TB" \in r BY <1>2, <1>6, <2>1
  <2> QED BY <1>5, <1>9, <2>2, <2>3 DEF Fits, k
<1>10. CASE k \in 15..18
  <2>1. BPLookup(row) = BPBits(k - 14) \cup {"SEC"} /\ k - 14 \in 0..7
    BY <1>10 DEF BPLookup, k
  <2>2. BP(r) = k - 14 BY <1>6, <2>1, BPValue
  <2>3. "SEC" \in r /\ "TB" \notin r BY <1>2, <1>6, <2>1
  <2>4. k = 18 => k - 14 \in {4, 5} OBVIOUS
  <2>5. k \in 15..17 \/ k = 18 BY <1>10
  <2> QED BY <1>5, <2>2, <2>3, <2>4, <2>5 DEF Fits, k
<1>11. CASE k \in 19..22
  <2>1. BPLookup(row) = BPBits(k - 18) \cup {"SEC", "TB"} /\ k - 18 \in 0..7
    BY <1>11 DEF BPLookup, k
  <2>2. BP(r) = k - 18 BY <1>6, <2>1, BPValue
  <2>3. "SEC" \in r /\ "TB" \in r BY <1>2, <1>6, <2>1
  <2>4. k = 22 => k - 18 \in {4, 5} OBVIOUS
  <2>5. k \in 19..21 \/ k = 22 BY <1>11
  <2> QED BY <1>5, <2>2, <2>3, <2>4, <2>5 DEF Fits, k
<1> QED BY <1>1, <1>7, <1>8, <1>9, <1>10, <1>11

\* So does a row that p or r marks, but for row 10.
LEMMA MarkFits ==
    ASSUME NEW row \in 1..44, row # 10, NEW r, Enabled(row, r)
    PROVE  Fits(row, r)
<1> DEFINE k == Half(row)
<1>1. /\ k \in 1..22 /\ (k = 22 => row = 22 \/ row = 44)
      /\ (row = 10 => k = 10) /\ (row \in {22, 44} => k = 22)
  BY DEF Half
<1>2. "CMP" \in r <=> row > 22 BY DEF Enabled
<1>3. CASE k = 1 BY <1>1, <1>2, <1>3 DEF Enabled, Fits
<1>4. CASE k \in 2..7 BY <1>1, <1>2, <1>4 DEF Enabled, Fits
<1>5. CASE k \in 8..13 BY <1>1, <1>2, <1>5 DEF Enabled, Fits
<1>6. CASE k = 14 BY <1>1, <1>2, <1>6 DEF Enabled, Fits
<1>7. CASE k \in 15..17 BY <1>1, <1>2, <1>7 DEF Enabled, Fits
<1>8. CASE k = 18 BY <1>1, <1>2, <1>8 DEF Enabled, Fits
<1>9. CASE k \in 19..21 BY <1>1, <1>2, <1>9 DEF Enabled, Fits
<1>10. CASE k = 22 BY <1>1, <1>2, <1>10 DEF Enabled, Fits
<1> QED BY <1>1, <1>3, <1>4, <1>5, <1>6, <1>7, <1>8, <1>9, <1>10

\* The powers of two that the tables use.
LEMMA Powers ==
    /\ 2^0 = 1 /\ 2^1 = 2 /\ 2^2 = 4 /\ 2^3 = 8 /\ 2^4 = 16 /\ 2^5 = 32
    /\ \A n \in 0..5 : 2^n \in {1, 2, 4, 8, 16, 32}
<1>1. 2^0 = 1 /\ 2^1 = 2 /\ 2^2 = 4 /\ 2^3 = 8 /\ 2^4 = 16 /\ 2^5 = 32 OBVIOUS
<1>2. ASSUME NEW n \in 0..5 PROVE 2^n \in {1, 2, 4, 8, 16, 32}
  <2>1. n = 0 \/ n = 1 \/ n = 2 \/ n = 3 \/ n = 4 \/ n = 5 OBVIOUS
  <2> QED BY <1>1, <2>1, Zenon
<1> QED BY <1>1, <1>2

\* ProtectsAsPrinted for every sector of the chip, not only for the edges.
AsPrinted(r, row) ==
    \A s \in 0 .. FlashSectors - 1 : Protected(r, s) = Printed(row, s)

\* What a row stands for is what its text names, but for the text of row 26.
LEMMA FitsPrints ==
    ASSUME NEW row \in 1..44 \ {26}, NEW r, Fits(row, r)
    PROVE  AsPrinted(r, row)
<1> SUFFICES ASSUME NEW s \in 0 .. FlashSectors - 1
             PROVE  Protected(r, s) <=> Printed(row, s)
  BY DEF AsPrinted, Protected, Printed
<1>1. s \in Int /\ 0 <= s /\ s < FlashSectors /\ FlashSectors \in Nat
  BY GeometryAssumption
<1> DEFINE k == Half(row)
           inSpan == IF "TB" \in r THEN s < Span(r) ELSE s >= FlashSectors - Span(r)
           named == \/ k \in 2..7 /\ s >= FlashSectors - (FlashSectors * 2^(k - 2)) \div 64
                    \/ k \in 8..13 /\ s < (FlashSectors * 2^(k - 8)) \div 64
                    \/ k = 14
                    \/ k \in 15..18 /\ s >= FlashSectors - 2^(k - 15)
                    \/ k \in 19..22 /\ s < 2^(k - 19)
<1>2. Protected(r, s) <=> ("CMP" \in r <=> ~inSpan)
  <2>1. inSpan \in BOOLEAN
    <3>1. (s < Span(r)) \in BOOLEAN /\ (s >= FlashSectors - Span(r)) \in BOOLEAN BY SMT
    <3> QED BY <3>1
  <2>2. Protected(r, s) = (("CMP" \in r) # inSpan) BY Zenon DEF Protected
  <2> HIDE DEF inSpan
  <2>3. ("CMP" \in r) \in BOOLEAN OBVIOUS
  <2> QED BY <2>1, <2>2, <2>3, Zenon
<1>3. Printed(row, s) <=> (row > 22 <=> ~named)
  <2>1. named \in BOOLEAN OBVIOUS
  <2>2. Printed(row, s) = (row = 26 \/ (row > 22) # named) BY Zenon DEF Printed
  <2> HIDE DEF named
  <2>3. (row > 22) \in BOOLEAN /\ row # 26 BY SMT
  <2> QED BY <2>1, <2>2, <2>3, Zenon
<1>4. k \in 1..22 BY HalfTypes
<1>5. "CMP" \in r <=> row > 22 BY DEF Fits
<1>6. inSpan <=> named
  <2> HIDE DEF k
  <2>1. \/ k = 1 /\ BP(r) = 0
        \/ k \in 2..7 /\ BP(r) = k - 1 /\ "SEC" \notin r /\ "TB" \notin r
        \/ k \in 8..13 /\ BP(r) = k - 7 /\ "SEC" \notin r /\ "TB" \in r
        \/ k = 14 /\ BP(r) = 7
        \/ k \in 15..17 /\ BP(r) = k - 14 /\ "SEC" \in r /\ "TB" \notin r
        \/ k = 18 /\ BP(r) \in {4, 5} /\ "SEC" \in r /\ "TB" \notin r
        \/ k \in 19..21 /\ BP(r) = k - 18 /\ "SEC" \in r /\ "TB" \in r
        \/ k = 22 /\ BP(r) \in {4, 5} /\ "SEC" \in r /\ "TB" \in r
    BY DEF Fits, k
  <2>2. CASE k = 1 /\ BP(r) = 0
    <3>1. Span(r) = 0 BY <2>2 DEF Span
    <3> QED BY <1>1, <2>2, <3>1
  <2>3. CASE k \in 2..7 /\ BP(r) = k - 1 /\ "SEC" \notin r /\ "TB" \notin r
    <3>1. BP(r) \in 1..6 /\ BP(r) - 1 = k - 2 BY <2>3
    <3>2. Span(r) = (FlashSectors * 2^(k - 2)) \div 64 BY <2>3, <3>1 DEF Span
    <3> QED BY <1>1, <2>3, <3>2
  <2>4. CASE k \in 8..13 /\ BP(r) = k - 7 /\ "SEC" \notin r /\ "TB" \in r
    <3>1. BP(r) \in 1..6 /\ BP(r) - 1 = k - 8 BY <2>4
    <3>2. Span(r) = (FlashSectors * 2^(k - 8)) \div 64 BY <2>4, <3>1 DEF Span
    <3> QED BY <1>1, <2>4, <3>2
  <2>5. CASE k = 14 /\ BP(r) = 7
    <3>1. Span(r) = FlashSectors BY <2>5 DEF Span
    <3> QED BY <1>1, <2>5, <3>1
  <2>6. CASE k \in 15..17 /\ BP(r) = k - 14 /\ "SEC" \in r /\ "TB" \notin r
    <3>1. BP(r) \in 1..6 /\ ~(BP(r) > 4) /\ BP(r) - 1 = k - 15 BY <2>6
    <3>2. Span(r) = 2^(k - 15) BY <2>6, <3>1 DEF Span
    <3> QED BY <1>1, <2>6, <3>2
  <2>7. CASE k = 18 /\ BP(r) \in {4, 5} /\ "SEC" \in r /\ "TB" \notin r
    <3>1. BP(r) \in 1..6 /\ (BP(r) > 4 \/ BP(r) - 1 = 3) /\ k - 15 = 3 BY <2>7
    <3>2. Span(r) = 8
      <4>1. BP(r) \notin {0, 7} /\ "SEC" \in r BY <2>7, <3>1
      <4>2. Span(r) = IF BP(r) > 4 THEN 8 ELSE 2^(BP(r) - 1)
        BY <3>1, <4>1 DEF Span
      <4> QED BY <3>1, <4>2, Powers
    <3>3. 2^(k - 15) = 8 BY <3>1, Powers
    <3> QED BY <1>1, <2>7, <3>2, <3>3
  <2>8. CASE k \in 19..21 /\ BP(r) = k - 18 /\ "SEC" \in r /\ "TB" \in r
    <3>1. BP(r) \in 1..6 /\ ~(BP(r) > 4) /\ BP(r) - 1 = k - 19 BY <2>8
    <3>2. Span(r) = 2^(k - 19) BY <2>8, <3>1 DEF Span
    <3> QED BY <1>1, <2>8, <3>2
  <2>9. CASE k = 22 /\ BP(r) \in {4, 5} /\ "SEC" \in r /\ "TB" \in r
    <3>1. BP(r) \in 1..6 /\ (BP(r) > 4 \/ BP(r) - 1 = 3) /\ k - 19 = 3 BY <2>9
    <3>2. Span(r) = 8
      <4>1. BP(r) \notin {0, 7} /\ "SEC" \in r BY <2>9, <3>1
      <4>2. Span(r) = IF BP(r) > 4 THEN 8 ELSE 2^(BP(r) - 1)
        BY <3>1, <4>1 DEF Span
      <4> QED BY <3>1, <4>2, Powers
    <3>3. 2^(k - 19) = 8 BY <3>1, Powers
    <3> QED BY <1>1, <2>9, <3>2, <3>3
  <2> QED BY <2>1, <2>2, <2>3, <2>4, <2>5, <2>6, <2>7, <2>8, <2>9
<1> HIDE DEF inSpan, named
<1> QED BY <1>2, <1>3, <1>5, <1>6

-----------------------------------------------------------------------------
(* The ranges.                                                             *)

\* What the chip was given last is what its row stands for, once it is in.
LEMMA TakenFits ==
    ASSUME IInv, WaitInv, ~hasty, ~WIP, wanted \notin {0, 14, 26, 36}
    PROVE  AsPrinted(sr, wanted)
<1>1. wanted \in 1..44 \ {14, 36} /\ wanted \in 1..44 \ {26}
  <2>1. wanted \in 0..44 BY DEF IInv, TypeOK
  <2> QED BY <2>1
<1>2. sr \cap RangeBits = Asked(wanted) BY DEF WaitInv, RangeTaken
<1>3. Fits(wanted, sr) BY <1>1, <1>2, AskedFits
<1> QED BY <1>1, <1>3, FitsPrints

\* Once the chip has taken a range it protects, sector by sector and on a chip
\* of any size, what the text of the row says: RangeIsAsPrinted for all sectors.
THEOREM EverySectorIsAsPrinted ==
    Spec => [](~hasty /\ ~WIP /\ wanted \notin {0, 14, 26, 36} => AsPrinted(sr, wanted))
<1>1. IInv /\ WaitInv
        => (~hasty /\ ~WIP /\ wanted \notin {0, 14, 26, 36} => AsPrinted(sr, wanted))
  BY TakenFits
<1> QED BY <1>1, BothHold, PTL

\* A row that p or r marks names what the chip protects.
LEMMA MarkedFits ==
    ASSUME IInv, WaitInv, ShowRanges, ~hasty, NEW row \in marked' \ {10, 26}
    PROVE  AsPrinted(sr, row)
<1>1. pc = "read2" /\ command \in {"p", "r"} BY DEF ShowRanges
<1>2. BothRead = sr
  <2>1. status = sr \cap SR1Bits BY <1>1 DEF WaitInv, ReadsAtRest
  <2> QED BY <2>1, RestRead DEF IInv, TypeOK, ChipTypeOK
<1>3. marked' = {n \in Page : Enabled(n, BothRead)} BY DEF ShowRanges
<1>4. Page \subseteq 1..44 BY <1>1 DEF Page
<1>5. row \in 1..44 /\ row # 10 /\ row # 26 BY <1>3, <1>4
<1>6. Enabled(row, sr) BY <1>2, <1>3
<1>7. Fits(row, sr) BY <1>5, <1>6, MarkFits
<1> QED BY <1>5, <1>7, FitsPrints

-----------------------------------------------------------------------------
(* The sectors that the runs look at.                                      *)

\* The smallest part of a range table is a 64th of the chip: the sectors at the
\* ends of ranges are those of a chip that has 64 (the texts are of 2048).
LargeChip == FlashSectors >= 64

\* The sectors at the ends of ranges are sectors of the chip.
LEMMA EdgesInside ==
    ASSUME LargeChip
    PROVE  \A s \in Edges : s \in 0 .. FlashSectors - 1
<1>1. FlashSectors \in Nat /\ FlashSectors >= 64
  BY GeometryAssumption DEF LargeChip
<1> DEFINE spans == {2^n : n \in 0..3} \cup {(FlashSectors * 2^n) \div 64 : n \in 0..5}
<1>2. ASSUME NEW n \in 0..3 PROVE 2^n \in 1..8
  <2>1. n = 0 \/ n = 1 \/ n = 2 \/ n = 3 OBVIOUS
  <2>2. 2^n \in {1, 2, 4, 8} BY <2>1, Powers, Zenon
  <2> QED BY <2>2
<1>3. \A n \in 0..5 : (FlashSectors * 2^n) \div 64 \in 1 .. FlashSectors - 1
  <2>1. \A m \in {1, 2, 4, 8, 16, 32} :
           (FlashSectors * m) \div 64 \in 1 .. FlashSectors - 1
    BY <1>1
  <2> QED BY <2>1, Powers
<1>4. \A n \in spans : n \in 1 .. FlashSectors - 1 BY <1>1, <1>2, <1>3
<1>5. Edges = {0, FlashSectors - 1}
         \cup UNION {{n - 1, n, FlashSectors - n - 1, FlashSectors - n} : n \in spans}
  BY DEF Edges
<1> HIDE DEF spans
<1>6. \A n \in 1 .. FlashSectors - 1 :
         {n - 1, n, FlashSectors - n - 1, FlashSectors - n} \subseteq 0 .. FlashSectors - 1
  BY <1>1
<1>7. ASSUME NEW s \in Edges PROVE s \in 0 .. FlashSectors - 1
  <2>1. CASE s \in {0, FlashSectors - 1} BY <1>1, <2>1
  <2>2. CASE s \notin {0, FlashSectors - 1}
    <3>1. PICK n \in spans : s \in {n - 1, n, FlashSectors - n - 1, FlashSectors - n}
      BY <1>5, <1>7, <2>2
    <3> QED BY <1>4, <1>6, <3>1
  <2> QED BY <2>1, <2>2
<1> QED BY <1>7

\* The sectors at the edges are some of all.
LEMMA EdgesOfAll ==
    ASSUME LargeChip, NEW r, NEW row, AsPrinted(r, row)
    PROVE  ProtectsAsPrinted(r, row)
BY EdgesInside DEF AsPrinted, ProtectsAsPrinted

\* Once the chip has taken a range it protects what the text of the row says.
THEOREM RangesAreAsPrinted ==
    ASSUME LargeChip
    PROVE  Spec => []RangeIsAsPrinted
<1>1. IInv /\ WaitInv => RangeIsAsPrinted
  BY TakenFits, EdgesOfAll DEF RangeIsAsPrinted
<1> QED BY <1>1, BothHold, PTL

\* The rows that p and r mark name what the chip protects.
THEOREM MarksAreAsPrinted ==
    ASSUME LargeChip
    PROVE  Spec => MarksAreTrue
<1>1. ASSUME IInv, WaitInv, ShowRanges, ~hasty
      PROVE  \A row \in marked' \ {10, 26} : ProtectsAsPrinted(sr, row)
  BY <1>1, MarkedFits, EdgesOfAll
<1>2. IInv /\ WaitInv /\ [Next]_vars
        => [ShowRanges /\ ~hasty =>
              \A row \in marked' \ {10, 26} : ProtectsAsPrinted(sr, row)]_vars
  BY <1>1
<1> QED BY <1>2, BothHold, PTL DEF Spec, MarksAreTrue
=============================================================================

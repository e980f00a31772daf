------------------------- MODULE FlashDriver_proofs -------------------------
(***************************************************************************)
(* Calls of the flash drivers, for every offset and length and all eight   *)
(* drivers.  First how the writes of the seven page programming drivers    *)
(* cut a call: by induction, at is where the next byte of the buffer       *)
(* belongs, and a chunk that does not end the call ends where its page or  *)
(* its 64 bytes end.  Then, command by command beside the chip, that a     *)
(* call is exact and stays in its range: what was done before at is in the *)
(* chip, and a cycle that runs, even one nobody waits for any more, is of  *)
(* the chunk.                                                              *)
(***************************************************************************)
EXTENDS FlashDriver, TLAPS

Limited == {"winbond", "adesto", "macronix", "gigadevice"}
Paged   == {"eon", "spansion", "stmicro"}
WriteStages == {"writeWREN", "program", "writePoll"}

CutInv ==
    pc \in WriteStages /\ part.driver \in Limited \cup Paged =>
        /\ call.off \in Nat /\ call.len \in Nat /\ actual \in Nat
        /\ actual < call.len
        /\ at = call.off + actual
        /\ part.driver \in Limited /\ actual # 0 => at % 64 = 0

\* A page program is sent with the address its first byte belongs to, has a
\* byte, does not wrap in its page of 256, and is within what the controller
\* can send if the driver keeps to CONTROLLER_PAGE_LIMIT (winbond_write and
\* the other seven write functions of src/spi; check_readwritecnt).
ProgramsAreCut ==
    pc = "program" /\ part.driver \in Limited \cup Paged =>
        /\ at = call.off + actual
        /\ Step.len > 0
        /\ (at % 256) + Step.len <= 256
        /\ part.driver \in Limited => check_readwritecnt(3 + Step.len, 0) = 0

-----------------------------------------------------------------------------
\* The step of a driver is the one of its kind.
LEMMA StepOfLimited ==
    part.driver \in Limited => Step = LimitedStep
BY DEF Limited, Step, winbond_write, adesto_write, macronix_write, gigadevice_write

\* The same for the other kind.
LEMMA StepOfPaged ==
    part.driver \in Paged => Step = PagedStep
BY DEF Paged, Step, eon_write, spansion_write, stmicro_write

\* What is left, cut at the next multiple of 64, stays inside a page of 256.
LEMMA CutAt64 ==
    ASSUME NEW a \in Nat, NEW left \in Nat \ {0}, NEW n \in Int,
           n = IF left < 64 - (a % 64) THEN left ELSE 64 - (a % 64)
    PROVE  /\ n \in 1..64 /\ n <= left
           /\ (a % 256) + n <= 256
           /\ n < left => (a + n) % 64 = 0
<1>1. a % 64 \in 0..63
  OBVIOUS
<1>2. a % 256 <= 192 + (a % 64)
  OBVIOUS
<1>3. (a + (64 - (a % 64))) % 64 = 0
  OBVIOUS
<1> QED
  BY <1>1, <1>2, <1>3

\* The same at the next multiple of 256.
LEMMA CutAt256 ==
    ASSUME NEW a \in Nat, NEW left \in Nat \ {0}, NEW n \in Int,
           n = IF left < 256 - (a % 256) THEN left ELSE 256 - (a % 256)
    PROVE  /\ n \in 1..256 /\ n <= left
           /\ (a % 256) + n <= 256
           /\ n < left => (a \div 256 + 1) * 256 = a + n
<1>1. a % 256 \in 0..255
  OBVIOUS
<1>2. (a \div 256 + 1) * 256 = a + (256 - (a % 256))
  OBVIOUS
<1> QED
  BY <1>1, <1>2

\* The chunks of the drivers that keep to the controller's limit.
LEMMA LimitedChunk ==
    ASSUME call.off \in Nat, call.len \in Nat, actual \in Nat, actual < call.len,
           at = call.off + actual, actual # 0 => at % 64 = 0
    PROVE  /\ LimitedStep.len \in 1..64
           /\ LimitedStep.next = at + LimitedStep.len
           /\ (at % 256) + LimitedStep.len <= 256
           /\ actual + LimitedStep.len <= call.len
           /\ actual + LimitedStep.len < call.len => LimitedStep.next % 64 = 0
<1> DEFINE left == call.len - actual
           n == IF left < 64 - (at % 64) THEN left ELSE 64 - (at % 64)
<1>1. at \in Nat /\ left \in Nat \ {0} /\ at % 64 \in Int
  OBVIOUS
<1>2. at % 64 = IF actual = 0 THEN call.off % 64 ELSE 0
  OBVIOUS
<1>3. LimitedStep.len = n /\ LimitedStep.next = at + n
  BY <1>2 DEF LimitedStep, LeftToWrite
<1>4. n = IF left < 64 - (at % 64) THEN left ELSE 64 - (at % 64)
  OBVIOUS
<1>5. left = call.len - actual
  OBVIOUS
<1> HIDE DEF n, left
<1>6. n \in Int
  BY <1>1, <1>4
<1>7. n \in 1..64 /\ n <= left /\ (at % 256) + n <= 256 /\ (n < left => (at + n) % 64 = 0)
  BY ONLY <1>1, <1>4, <1>6, CutAt64
<1>8. (actual + n < call.len => n < left) /\ actual + n <= call.len
  BY <1>7, <1>5
<1> QED
  BY <1>3, <1>7, <1>8

\* Those of the others.
LEMMA PagedChunk ==
    ASSUME call.off \in Nat, call.len \in Nat, actual \in Nat, actual < call.len,
           at = call.off + actual
    PROVE  /\ PagedStep.len \in 1..256
           /\ (at % 256) + PagedStep.len <= 256
           /\ actual + PagedStep.len <= call.len
           /\ actual + PagedStep.len < call.len => PagedStep.next = at + PagedStep.len
<1> DEFINE left == call.len - actual
           n == IF left < 256 - (at % 256) THEN left ELSE 256 - (at % 256)
<1>1. at \in Nat /\ left \in Nat \ {0} /\ at % 256 \in Int
  OBVIOUS
<1>2. PagedStep.len = n /\ PagedStep.next = (at \div 256 + 1) * 256
  BY DEF PagedStep, LeftToWrite
<1>3. n = IF left < 256 - (at % 256) THEN left ELSE 256 - (at % 256)
  OBVIOUS
<1>4. left = call.len - actual
  OBVIOUS
<1> HIDE DEF n, left
<1>5. n \in Int
  BY <1>1, <1>3
<1>6. /\ n \in 1..256 /\ n <= left /\ (at % 256) + n <= 256
      /\ n < left => (at \div 256 + 1) * 256 = at + n
  BY ONLY <1>1, <1>3, <1>5, CutAt256
<1>7. (actual + n < call.len => n < left) /\ actual + n <= call.len
  BY <1>6, <1>4
<1> QED
  BY <1>2, <1>6, <1>7

-----------------------------------------------------------------------------
\* At the start no write is under way.
LEMMA CutInit == Init => CutInv
BY DEF Init, CutInv, WriteStages

\* Steps that stay where they are, or go to no stage of a write.
LEMMA CutElsewhere ==
    ASSUME CutInv,
           \/ UNCHANGED <<pc, part, call, at, actual>>
           \/ pc' \notin WriteStages
           \/ pc \in WriteStages /\ UNCHANGED <<part, call, at, actual>>
    PROVE  CutInv'
BY DEF CutInv, WriteStages

\* A write begins at the first byte of its buffer.
LEMMA CutBegin ==
    ASSUME CutInv, NEW off, NEW len, <<off, len>> \in Writes, BeginWrite(off, len)
    PROVE  CutInv'
<1>1. off \in Nat /\ len \in Nat \ {0}
  BY DriverAssumption
<1>2. CASE part.driver = "sst"
  <2>1. pc' \in {"byteWREN", "aaiWREN"}
    BY <1>2 DEF BeginWrite
  <2> QED
    BY <2>1 DEF CutInv, WriteStages
<1>3. CASE part.driver # "sst"
  <2>1. actual' = 0 /\ at' = off /\ call' = [op |-> "write", off |-> off, len |-> len]
    BY <1>3 DEF BeginWrite, Begin
  <2> QED
    BY <1>1, <2>1 DEF CutInv
<1> QED
  BY <1>2, <1>3

\* A wait ends behind a program, with the next bytes or with the call's end.
LEMMA CutPoll ==
    ASSUME CutInv, WritePoll
    PROVE  CutInv'
<1>1. /\ pc = "writePoll" /\ UNCHANGED <<part, call>>
      /\ \/ UNCHANGED <<pc, at, actual>>
         \/ pc' = "failed"
         \/ /\ at' = Step.next
            /\ actual' = actual + Step.len
            /\ pc' = IF actual' < call.len THEN "writeWREN" ELSE "ready"
  BY DEF WritePoll, Poll, Fail
<1>2. CASE UNCHANGED <<pc, at, actual>> \/ pc' = "failed"
  BY <1>1, <1>2, CutElsewhere DEF WriteStages
<1>3. CASE /\ at' = Step.next
           /\ actual' = actual + Step.len
           /\ pc' = IF actual' < call.len THEN "writeWREN" ELSE "ready"
  <2> SUFFICES ASSUME part.driver \in Limited \cup Paged, actual' < call.len
               PROVE  CutInv'
    BY <1>1, <1>3 DEF CutInv, WriteStages
  <2>1. /\ call.off \in Nat /\ call.len \in Nat /\ actual \in Nat
        /\ actual < call.len
        /\ at = call.off + actual
        /\ part.driver \in Limited /\ actual # 0 => at % 64 = 0
    BY <1>1 DEF CutInv, WriteStages
  <2>2. CASE part.driver \in Limited
    <3>1. /\ LimitedStep.len \in 1..64
          /\ LimitedStep.next = at + LimitedStep.len
          /\ actual + LimitedStep.len < call.len => LimitedStep.next % 64 = 0
      BY <2>1, <2>2, LimitedChunk
    <3>2. at' = LimitedStep.next /\ actual' = actual + LimitedStep.len
      BY <1>3, <2>2, StepOfLimited
    <3>3. at' = call.off + actual' /\ actual' \in Nat /\ at' % 64 = 0
      BY <2>1, <3>1, <3>2
    <3> QED
      BY <1>1, <2>1, <3>3 DEF CutInv
  <2>3. CASE part.driver \in Paged
    <3>1. /\ PagedStep.len \in 1..256
          /\ actual + PagedStep.len < call.len => PagedStep.next = at + PagedStep.len
      BY <2>1, PagedChunk
    <3>2. at' = PagedStep.next /\ actual' = actual + PagedStep.len
      BY <1>3, <2>3, StepOfPaged
    <3>3. at' = call.off + actual' /\ actual' \in Nat
      BY <2>1, <3>1, <3>2
    <3>4. part.driver \notin Limited
      BY <2>3 DEF Limited, Paged
    <3> QED
      BY <1>1, <2>1, <3>3, <3>4 DEF CutInv
  <2> QED
    BY <2>2, <2>3
<1> QED
  BY <1>1, <1>2, <1>3

\* Every step keeps the programs of a write where they belong.
LEMMA CutStep == CutInv /\ [Next]_vars => CutInv'
<1> SUFFICES ASSUME CutInv, [Next]_vars PROVE CutInv'
  OBVIOUS
<1>1. CASE ChipFinishes
  BY <1>1, CutElsewhere DEF ChipFinishes
<1>2. CASE init_flash \/ is_flash_locked
  <2>1. pc' \notin WriteStages
    BY <1>2 DEF init_flash, is_flash_locked, WriteStages
  <2> QED
    BY <2>1, CutElsewhere
<1>3. CASE SstEWSR \/ SstWRSR \/ ByteWREN \/ sst_byte_write \/ AAIWREN \/ AAIWord \/ AAIWRDI
  <2>1. pc' \notin WriteStages
    BY <1>3 DEF SstEWSR, SstWRSR, ByteWREN, sst_byte_write, AAIWREN, AAIWord, AAIWRDI,
                Send, AAIWords, AfterAAI, WriteStages
  <2> QED
    BY <2>1, CutElsewhere
<1>4. CASE EraseWREN \/ EraseCmd
  <2>1. pc' \notin WriteStages
    BY <1>4 DEF EraseWREN, EraseCmd, Send, WriteStages
  <2> QED
    BY <2>1, CutElsewhere
<1>5. CASE \E e \in Erases : BeginErase(e[1], e[2])
  <2>1. pc' \notin WriteStages
    BY <1>5 DEF BeginErase, Fail, WriteStages
  <2> QED
    BY <2>1, CutElsewhere
<1>6. CASE ErasePoll \/ BytePoll \/ AAIPoll
  <2>1. pc' \notin WriteStages
    BY <1>6 DEF ErasePoll, BytePoll, AAIPoll, Poll, Fail, WriteStages
  <2> QED
    BY <2>1, CutElsewhere
<1>7. CASE \E w \in Writes : BeginWrite(w[1], w[2])
  <2>1. PICK w \in Writes : BeginWrite(w[1], w[2])
    BY <1>7
  <2>2. w = <<w[1], w[2]>>
    BY DriverAssumption
  <2> QED
    BY <2>1, <2>2, CutBegin
<1>8. CASE WriteWREN \/ Program
  <2>1. pc \in WriteStages /\ UNCHANGED <<part, call, at, actual>>
    BY <1>8 DEF WriteWREN, Program, Send, WriteStages
  <2> QED
    BY <2>1, CutElsewhere
<1>9. CASE WritePoll
  BY <1>9, CutPoll
<1>10. CASE Over \/ UNCHANGED vars
  BY <1>10, CutElsewhere DEF Over, vars
<1> QED
  BY <1>1, <1>2, <1>3, <1>4, <1>5, <1>6, <1>7, <1>8, <1>9, <1>10 DEF Next

\* Programs that begin and end where CutInv says are cut as they should be.
LEMMA CutSuffices == CutInv => ProgramsAreCut
<1> SUFFICES ASSUME CutInv, pc = "program", part.driver \in Limited \cup Paged
             PROVE  ProgramsAreCut
  BY DEF ProgramsAreCut
<1>1. /\ call.off \in Nat /\ call.len \in Nat /\ actual \in Nat
      /\ actual < call.len
      /\ at = call.off + actual
      /\ part.driver \in Limited /\ actual # 0 => at % 64 = 0
  BY DEF CutInv, WriteStages
<1>2. CASE part.driver \in Limited
  <2>1. Step.len \in 1..64 /\ (at % 256) + Step.len <= 256
    BY <1>1, <1>2, LimitedChunk, StepOfLimited
  <2>2. check_readwritecnt(3 + Step.len, 0) = 0
    BY <2>1 DEF check_readwritecnt
  <2> QED
    BY <1>1, <2>1, <2>2 DEF ProgramsAreCut
<1>3. CASE part.driver \in Paged
  <2>1. Step.len \in 1..256 /\ (at % 256) + Step.len <= 256
    BY <1>1, <1>3, PagedChunk, StepOfPaged
  <2>2. part.driver \notin Limited
    BY <1>3 DEF Limited, Paged
  <2> QED
    BY <1>1, <2>1, <2>2 DEF ProgramsAreCut
<1> QED
  BY <1>2, <1>3

\* Every page program of every write call, whatever its offset and length, is
\* as ProgramsAreCut says: the commands of a call put the bytes of the buffer
\* where they belong, one page or chunk at a time (the write functions of
\* src/spi).
THEOREM ProgramsFit == Spec => []ProgramsAreCut
<1>1. Init => CutInv
  BY CutInit
<1>2. CutInv /\ [Next]_vars => CutInv'
  BY CutStep
<1>3. CutInv => ProgramsAreCut
  BY CutSuffices
<1> QED
  BY <1>1, <1>2, <1>3, PTL DEF Spec

-----------------------------------------------------------------------------
(* What a probe can find: the tables of src/spi.                           *)

Drivers == Limited \cup Paged \cup {"sst"}
SectorSizes == {4096, 32768, 65536, 262144}

\* A driver, its sectors and no more than a three byte address reaches.
IsPart(p) ==
    /\ p.driver \in Drivers
    /\ p.sector_size \in SectorSizes
    /\ p.size \in Nat /\ p.size <= 16777216

\* The search of a table comes back with an entry or with nothing.
LEMMA FoundIn == \A parts : Found(parts) \in parts \cup {NoPart}
BY DEF Found

\* Parts of blocks of 16 sectors of 4 KiB.
LEMMA BlocksFound ==
    ASSUME NEW driver \in Drivers, NEW table, \A e \in table : e[2] \in 1..256, NEW id
    PROVE  Blocks(driver, table, id) = NoPart \/ IsPart(Blocks(driver, table, id))
<1> DEFINE parts == {Part(driver, 256 * 16, 16 * e[2]) : e \in {f \in table : f[1] = id}}
<1>1. Blocks(driver, table, id) \in parts \cup {NoPart} BY FoundIn DEF Blocks
<1>2. ASSUME NEW p \in parts PROVE IsPart(p)
  <2>1. PICK e \in table : p = Part(driver, 256 * 16, 16 * e[2]) BY <1>2
  <2>2. e[2] \in 1..256 OBVIOUS
  <2>3. /\ p.driver = driver /\ p.sector_size = 256 * 16
        /\ p.size = 256 * 16 * (16 * e[2])
    BY <2>1 DEF Part
  <2>4. p.sector_size = 4096 /\ p.size \in Nat /\ p.size <= 16777216 BY <2>2, <2>3
  <2> QED BY SMT, <2>3, <2>4 DEF IsPart, SectorSizes
<1> QED BY <1>1, <1>2

\* Whatever the chip answers, the part found is one of IsPart, or none.
LEMMA ProbeFinds ==
    ASSUME NEW id, NEW res
    PROVE  spi_flash_probe(id, res) = NoPart \/ IsPart(spi_flash_probe(id, res))
<1>1. {"winbond", "adesto", "macronix", "gigadevice", "eon", "spansion", "stmicro",
       "sst"} \subseteq Drivers
  BY DEF Drivers, Limited, Paged
<1>2. probe_winbond(id) = NoPart \/ IsPart(probe_winbond(id))
  <2>1. \A e \in winbond_table : e[2] \in 1..256 BY DEF winbond_table
  <2> QED BY <1>1, <2>1, BlocksFound DEF probe_winbond
<1>3. probe_adesto(id) = NoPart \/ IsPart(probe_adesto(id))
  <2>1. \A e \in adesto_table : e[2] \in 1..256 BY DEF adesto_table
  <2> QED BY <1>1, <2>1, BlocksFound DEF probe_adesto
<1>4. probe_macronix(id) = NoPart \/ IsPart(probe_macronix(id))
  <2>1. \A e \in macronix_table : e[2] \in 1..256 BY DEF macronix_table
  <2> QED BY <1>1, <2>1, BlocksFound DEF probe_macronix
<1>5. probe_gigadevice(id) = NoPart \/ IsPart(probe_gigadevice(id))
  <2>1. \A e \in gigadevice_table : e[2] \in 1..256 BY DEF gigadevice_table
  <2> QED BY <1>1, <2>1, BlocksFound DEF probe_gigadevice
<1>6. probe_eon(id) = NoPart \/ IsPart(probe_eon(id))
  <2> DEFINE parts == {Part("eon", 256 * 16 * 16, e[2] \div 16) :
                          e \in {f \in eon_table : f[1] = id[3]}}
  <2>1. probe_eon(id) \in parts \cup {NoPart} BY FoundIn DEF probe_eon
  <2>2. ASSUME NEW p \in parts PROVE IsPart(p)
    <3>1. PICK e \in eon_table : p = Part("eon", 256 * 16 * 16, e[2] \div 16) BY <2>2
    <3>2. e[2] = 4096 BY DEF eon_table
    <3>3. /\ p.driver = "eon" /\ p.sector_size = 256 * 16 * 16
          /\ p.size = 256 * 16 * 16 * (e[2] \div 16)
      BY <3>1 DEF Part
    <3>4. p.sector_size = 65536 /\ p.size = 16777216 BY <3>2, <3>3
    <3> QED BY SMT, <1>1, <3>3, <3>4 DEF IsPart, SectorSizes
  <2> QED BY <2>1, <2>2
<1>7. probe_sst(id) = NoPart \/ IsPart(probe_sst(id))
  <2> DEFINE parts == {Part("sst", 4 * 1024, e[2]) :
                          e \in {f \in sst_table : f[1] = id[3]}}
  <2>1. probe_sst(id) \in parts \cup {NoPart} BY FoundIn DEF probe_sst
  <2>2. ASSUME NEW p \in parts PROVE IsPart(p)
    <3>1. PICK e \in sst_table : p = Part("sst", 4 * 1024, e[2]) BY <2>2
    <3>2. e[2] \in 1..4096 BY DEF sst_table
    <3>3. p.driver = "sst" /\ p.sector_size = 4 * 1024 /\ p.size = 4 * 1024 * e[2]
      BY <3>1 DEF Part
    <3>4. p.sector_size = 4096 /\ p.size \in Nat /\ p.size <= 16777216
      <4>1. PICK m \in 1..4096 : m = e[2] BY <3>2
      <4>2. p.sector_size = 4 * 1024 /\ p.size = 4 * 1024 * m BY <3>3, <4>1
      <4>3. 4 * 1024 * m \in Nat /\ 4 * 1024 * m <= 16777216 /\ 4 * 1024 = 4096 BY SMT
      <4> QED BY <4>2, <4>3, SMT
    <3> QED BY SMT, <1>1, <3>3, <3>4 DEF IsPart, SectorSizes
  <2> QED BY <2>1, <2>2
<1>8. probe_spansion(id) = NoPart \/ IsPart(probe_spansion(id))
  <2> DEFINE parts == {Part("spansion", 256 * e[3], e[4]) :
                          e \in {f \in spansion_table :
                                    <<f[1], f[2]>> = <<Id(id), ExtId(id)>>}}
  <2>1. probe_spansion(id) \in parts \cup {NoPart} BY FoundIn DEF probe_spansion
  <2>2. ASSUME NEW p \in parts PROVE IsPart(p)
    <3>1. PICK e \in spansion_table : p = Part("spansion", 256 * e[3], e[4]) BY <2>2
    <3>2. (e[3] = 256 /\ e[4] \in 1..256) \/ (e[3] = 1024 /\ e[4] = 64)
      BY DEF spansion_table
    <3>3. /\ p.driver = "spansion" /\ p.sector_size = 256 * e[3]
          /\ p.size = 256 * e[3] * e[4]
      BY <3>1 DEF Part
    <3>4. p.sector_size \in {65536, 262144} /\ p.size \in Nat /\ p.size <= 16777216
      BY <3>2, <3>3
    <3> QED BY SMT, <1>1, <3>3, <3>4 DEF IsPart, SectorSizes
  <2> QED BY <2>1, <2>2
<1>9. probe_stmicro(id, res) = NoPart \/ IsPart(probe_stmicro(id, res))
  <2> DEFINE parts == {Part("stmicro", 256 * e[2], e[3]) :
                          e \in {f \in stmicro_table : f[1] = stmicro_id(id, res)}}
  <2>1. probe_stmicro(id, res) \in parts \cup {NoPart} BY FoundIn DEF probe_stmicro
  <2>2. ASSUME NEW p \in parts PROVE IsPart(p)
    <3>1. PICK e \in stmicro_table : p = Part("stmicro", 256 * e[2], e[3]) BY <2>2
    <3>2. \/ e[2] = 128 /\ e[3] = 4
          \/ e[2] = 256 /\ e[3] \in 1..128
          \/ e[2] = 1024 /\ e[3] = 64
      BY DEF stmicro_table
    <3>3. /\ p.driver = "stmicro" /\ p.sector_size = 256 * e[2]
          /\ p.size = 256 * e[2] * e[3]
      BY <3>1 DEF Part
    <3>4. /\ p.sector_size \in {32768, 65536, 262144}
          /\ p.size \in Nat /\ p.size <= 16777216
      BY <3>2, <3>3
    <3> QED BY SMT, <1>1, <3>3, <3>4 DEF IsPart, SectorSizes
  <2> QED BY <2>1, <2>2
<1> QED
  BY <1>2, <1>3, <1>4, <1>5, <1>6, <1>7, <1>8, <1>9 DEF spi_flash_probe

-----------------------------------------------------------------------------
(* The tables, read beside the data sheets.                                *)

\* The powers that occur.
LEMMA Powers ==
    \A n : /\ n = 1 => 2^n = 2
           /\ n = 2 => 2^n = 4
           /\ n = 3 => 2^n = 8
           /\ n = 4 => 2^n = 16
           /\ n = 5 => 2^n = 32
           /\ n = 6 => 2^n = 64
           /\ n = 7 => 2^n = 128
           /\ n = 8 => 2^n = 256
<1> TAKE n
<1>1. 2^1 = 2 /\ 2^2 = 4 /\ 2^3 = 8 /\ 2^4 = 16 OBVIOUS
<1>2. 2^5 = 32 /\ 2^6 = 64 /\ 2^7 = 128 /\ 2^8 = 256 OBVIOUS
<1>3. n = 1 => 2^n = 2 BY <1>1
<1>4. n = 2 => 2^n = 4 BY <1>1
<1>5. n = 3 => 2^n = 8 BY <1>1
<1>6. n = 4 => 2^n = 16 BY <1>1
<1>7. n = 5 => 2^n = 32 BY <1>2
<1>8. n = 6 => 2^n = 64 BY <1>2
<1>9. n = 7 => 2^n = 128 BY <1>2
<1>10. n = 8 => 2^n = 256 BY <1>2
<1> QED BY <1>3, <1>4, <1>5, <1>6, <1>7, <1>8, <1>9, <1>10

\* What is found in a table is one of its entries.
LEMMA FoundEntry ==
    ASSUME NEW parts, Found(parts) # NoPart
    PROVE  Found(parts) \in parts
BY DEF Found

\* The two bytes of an id.
LEMMA TwoBytes ==
    ASSUME NEW a \in 0..255, NEW b \in 0..255
    PROVE  (a * 256 + b) \div 256 = a /\ (a * 256 + b) % 256 = b
BY SMT

\* An entry of a table of blocks, by the bytes of its id.
LEMMA BlocksEntry ==
    ASSUME NEW driver, NEW table, NEW id \in [1..5 -> 0..255],
           \A e \in table : e[1] \in Nat,
           Blocks(driver, table, Id(id)) # NoPart
    PROVE  \E e \in table :
              /\ id[2] = e[1] \div 256 /\ id[3] = e[1] % 256
              /\ Blocks(driver, table, Id(id)) = Part(driver, 256 * 16, 16 * e[2])
<1> DEFINE parts == {Part(driver, 256 * 16, 16 * e[2]) : e \in {f \in table : f[1] = Id(id)}}
<1>1. Blocks(driver, table, Id(id)) \in parts BY FoundEntry DEF Blocks
<1>2. PICK e \in table : /\ e[1] = Id(id)
                         /\ Blocks(driver, table, Id(id)) = Part(driver, 256 * 16, 16 * e[2])
  BY <1>1
<1>3. /\ id[2] \in 0..255 /\ id[3] \in 0..255
      /\ e[1] = id[2] * 256 + id[3]
  BY <1>2 DEF Id
<1>4. PICK a \in 0..255, b \in 0..255 : id[2] = a /\ id[3] = b BY <1>3
<1>5. e[1] = a * 256 + b BY <1>3, <1>4
<1>6. e[1] \div 256 = a /\ e[1] % 256 = b BY <1>5, TwoBytes
<1> QED BY <1>2, <1>4, <1>6

\* The tables whose ids end in the power of two.
LEMMA PowerTables ==
    ASSUME NEW e \in winbond_table \cup macronix_table \cup gigadevice_table
    PROVE  /\ e[1] \in Nat /\ e[2] \in 1..256
           /\ e[1] % 256 \in {20, 21, 22, 23, 24}
           /\ e[2] = 2^((e[1] % 256) - 16)
<1>1. /\ e[1] \in Nat /\ e[2] \in 1..256
      /\ \/ e[1] % 256 = 20 /\ e[2] = 16
         \/ e[1] % 256 = 21 /\ e[2] = 32
         \/ e[1] % 256 = 22 /\ e[2] = 64
         \/ e[1] % 256 = 23 /\ e[2] = 128
         \/ e[1] % 256 = 24 /\ e[2] = 256
  BY DEF winbond_table, macronix_table, gigadevice_table
<1>2. PICK n \in 4..8 : (e[1] % 256) - 16 = n /\ e[2] = 2^n
  <2>1. CASE e[1] % 256 = 20 /\ e[2] = 16
    <3>1. (e[1] % 256) - 16 = 4 BY <2>1
    <3> QED BY <2>1, <3>1, Powers
  <2>2. CASE e[1] % 256 = 21 /\ e[2] = 32
    <3>1. (e[1] % 256) - 16 = 5 BY <2>2
    <3> QED BY <2>2, <3>1, Powers
  <2>3. CASE e[1] % 256 = 22 /\ e[2] = 64
    <3>1. (e[1] % 256) - 16 = 6 BY <2>3
    <3> QED BY <2>3, <3>1, Powers
  <2>4. CASE e[1] % 256 = 23 /\ e[2] = 128
    <3>1. (e[1] % 256) - 16 = 7 BY <2>4
    <3> QED BY <2>4, <3>1, Powers
  <2>5. CASE e[1] % 256 = 24 /\ e[2] = 256
    <3>1. (e[1] % 256) - 16 = 8 BY <2>5
    <3> QED BY <2>5, <3>1, Powers
  <2> QED BY <1>1, <2>1, <2>2, <2>3, <2>4, <2>5
<1> QED BY <1>1, <1>2

\* Blocks of 16 sectors of 4 KiB, with an opcode for those.
LEMMA FourKiB ==
    ASSUME NEW driver \in {"winbond", "adesto", "macronix", "gigadevice", "sst"}
    PROVE  EraseCommand(driver) = \h20
BY DEF EraseCommand, winbond_erase, adesto_erase, macronix_erase, gigadevice_erase, sst_erase

\* An opcode for larger blocks.
LEMMA LargeErase ==
    ASSUME NEW driver \in {"eon", "spansion", "stmicro"}
    PROVE  EraseCommand(driver) = \hd8
BY DEF EraseCommand, eon_erase, spansion_erase, stmicro_erase

\* A part is right for a chip.
Fits(p, c) == p.size = c.size /\ p.sector_size = c.block[EraseCommand(p.driver)]

\* Winbond, Macronix and GigaDevice.
LEMMA PowerFits ==
    ASSUME NEW c \in Chips,
           NEW driver \in {"winbond", "macronix", "gigadevice"}, NEW table,
           \/ driver = "winbond" /\ c.id[1] = \hef /\ table = winbond_table
           \/ driver = "macronix" /\ c.id[1] = \hc2 /\ table = macronix_table
           \/ driver = "gigadevice" /\ c.id[1] = \hc8 /\ table = gigadevice_table,
           Blocks(driver, table, Id(c.id)) # NoPart
    PROVE  Fits(Blocks(driver, table, Id(c.id)), c)
<1>0. c.id \in [1..5 -> 0..255] BY DriverAssumption
<1>1. \A e \in table : e \in winbond_table \cup macronix_table \cup gigadevice_table
  OBVIOUS
<1>2. \A e \in table : e[1] \in Nat BY <1>1, PowerTables
<1>3. PICK e \in table :
         /\ c.id[2] = e[1] \div 256 /\ c.id[3] = e[1] % 256
         /\ Blocks(driver, table, Id(c.id)) = Part(driver, 256 * 16, 16 * e[2])
  BY <1>0, <1>2, BlocksEntry
<1>4. /\ e[2] \in 1..256 /\ c.id[3] \in 20..24
      /\ e[2] = 2^(c.id[3] - 16)
  BY <1>1, <1>3, PowerTables
<1>5. <<c.id[1], c.id[2]>> \in PowerOfTwoTypes
  <2>1. \/ driver = "winbond" /\ e[1] \div 256 \in {\h30, \h40}
        \/ driver = "macronix" /\ e[1] \div 256 \in {\h20, \h26, \h5e}
        \/ driver = "gigadevice" /\ e[1] \div 256 \in {\h40, \h60}
    BY DEF winbond_table, macronix_table, gigadevice_table
  <2> QED BY <1>3, <2>1 DEF PowerOfTwoTypes
<1>6. c.size = 65536 * e[2] /\ c.block[\h20] = 4096
  BY <1>4, <1>5, DataSheetAssumption, SMT DEF DataSheet, SizeIs
<1>7. /\ Part(driver, 256 * 16, 16 * e[2]).size = 65536 * e[2]
      /\ Part(driver, 256 * 16, 16 * e[2]).sector_size = 4096
      /\ Part(driver, 256 * 16, 16 * e[2]).driver = driver
  BY <1>4, SMT DEF Part
<1> QED BY <1>3, <1>6, <1>7, FourKiB, SMT DEF Fits

\* Adesto: a density in the low five bits of the first byte of the id.
LEMMA AdestoFits ==
    ASSUME NEW c \in Chips, c.id[1] = \h1f, probe_adesto(c.id) # NoPart
    PROVE  Fits(probe_adesto(c.id), c)
<1>0. c.id \in [1..5 -> 0..255] BY DriverAssumption
<1>1. \A e \in adesto_table :
         /\ e[1] \in Nat /\ e[2] \in 1..256
         /\ \/ e[1] \div 256 = \h42 /\ e[1] % 256 = 24 /\ e[2] = 256
            \/ e[1] \div 256 = \h32 /\ e[1] % 256 = 23 /\ e[2] = 128
            \/ e[1] \div 256 \in {\h45, \h85} /\ e[2] = 16
            \/ e[1] \div 256 \in {\h46, \h86} /\ e[2] = 32
            \/ e[1] \div 256 \in {\h47, \h87} /\ e[2] = 64
            \/ e[1] \div 256 = \h48 /\ e[2] = 128
  BY DEF adesto_table
<1>2. PICK e \in adesto_table :
         /\ c.id[2] = e[1] \div 256 /\ c.id[3] = e[1] % 256
         /\ probe_adesto(c.id) = Part("adesto", 256 * 16, 16 * e[2])
  BY <1>0, <1>1, BlocksEntry DEF probe_adesto
<1>3. <<c.id[1], \h42>> \in PowerOfTwoTypes /\ <<c.id[1], \h32>> \in PowerOfTwoTypes
  BY DEF PowerOfTwoTypes
<1>4. DataSheet(c) BY DataSheetAssumption
<1>5. PICK n \in 4..8 : SizeIs(c, n + 16) /\ e[2] = 2^n
  <2>1. CASE c.id[2] = \h42 /\ c.id[3] = 24 /\ e[2] = 256
    <3>1. SizeIs(c, 8 + 16) BY <1>3, <1>4, <2>1 DEF DataSheet
    <3> QED BY <2>1, <3>1, Powers
  <2>2. CASE c.id[2] = \h32 /\ c.id[3] = 23 /\ e[2] = 128
    <3>1. SizeIs(c, 7 + 16) BY <1>3, <1>4, <2>2 DEF DataSheet
    <3> QED BY <2>2, <3>1, Powers
  <2>3. CASE c.id[2] \notin {\h42, \h32}
    <3>1. SizeIs(c, 15 + (c.id[2] % 32)) BY <1>2, <1>4, <2>3 DEF DataSheet
    <3>2. PICK n \in 4..8 : 15 + (c.id[2] % 32) = n + 16 /\ e[2] = 2^n
      <4>1. \/ c.id[2] % 32 = 5 /\ e[2] = 16
            \/ c.id[2] % 32 = 6 /\ e[2] = 32
            \/ c.id[2] % 32 = 7 /\ e[2] = 64
            \/ c.id[2] % 32 = 8 /\ e[2] = 128
        BY <1>1, <1>2, <2>3, SMT
      <4>2. CASE c.id[2] % 32 = 5 /\ e[2] = 16 BY <4>2, Powers
      <4>3. CASE c.id[2] % 32 = 6 /\ e[2] = 32 BY <4>3, Powers
      <4>4. CASE c.id[2] % 32 = 7 /\ e[2] = 64 BY <4>4, Powers
      <4>5. CASE c.id[2] % 32 = 8 /\ e[2] = 128 BY <4>5, Powers
      <4> QED BY <4>1, <4>2, <4>3, <4>4, <4>5
    <3> QED BY <3>1, <3>2
  <2> QED BY <1>1, <1>2, <2>1, <2>2, <2>3
<1>6. c.size = 65536 * e[2]
  <2>1. n + 16 \in 16..24 /\ (n + 16) - 16 = n OBVIOUS
  <2> QED BY <1>5, <2>1, SMT DEF SizeIs
<1>7. c.block[\h20] = 4096 BY <1>4, SMT DEF DataSheet
<1>8. /\ Part("adesto", 256 * 16, 16 * e[2]).size = 65536 * e[2]
      /\ Part("adesto", 256 * 16, 16 * e[2]).sector_size = 4096
      /\ Part("adesto", 256 * 16, 16 * e[2]).driver = "adesto"
  BY <1>1, SMT DEF Part
<1> QED BY <1>2, <1>6, <1>7, <1>8, FourKiB, SMT DEF Fits

\* EON: one part, erased in blocks.
LEMMA EonFits ==
    ASSUME NEW c \in Chips, c.id[1] = \h1c, probe_eon(c.id) # NoPart
    PROVE  Fits(probe_eon(c.id), c)
<1> DEFINE parts == {Part("eon", 256 * 16 * 16, e[2] \div 16) :
                        e \in {f \in eon_table : f[1] = c.id[3]}}
<1>0. probe_eon(c.id) \in parts BY FoundEntry DEF probe_eon
<1>1. PICK e \in eon_table :
         e[1] = c.id[3] /\ probe_eon(c.id) = Part("eon", 256 * 16 * 16, e[2] \div 16)
  BY <1>0
<1>2. e[1] = 24 /\ e[2] = 4096 BY SMT DEF eon_table
<1>3. c.size = 65536 * 2^8 /\ c.block[\hd8] = 65536
  <2>1. DataSheet(c) BY DataSheetAssumption
  <2>2. SizeIs(c, c.id[3]) /\ c.block[\hd8] = 65536 BY <2>1 DEF DataSheet
  <2>3. c.id[3] = 24 BY <1>1, <1>2
  <2> QED BY <2>2, <2>3, SMT DEF SizeIs
<1>4. /\ probe_eon(c.id).size = 65536 * 256 /\ probe_eon(c.id).sector_size = 65536
      /\ probe_eon(c.id).driver = "eon"
  BY <1>1, <1>2, SMT DEF Part
<1> QED BY <1>3, <1>4, LargeErase, SMT DEF Fits

\* SST: a list of codes.
LEMMA SstFits ==
    ASSUME NEW c \in Chips, c.id[1] = \hbf, probe_sst(c.id) # NoPart
    PROVE  Fits(probe_sst(c.id), c)
<1> DEFINE parts == {Part("sst", 4 * 1024, e[2]) : e \in {f \in sst_table : f[1] = c.id[3]}}
<1>0. probe_sst(c.id) \in parts BY FoundEntry DEF probe_sst
<1>1. PICK e \in sst_table : e[1] = c.id[3] /\ probe_sst(c.id) = Part("sst", 4 * 1024, e[2])
  BY <1>0
<1>2. e[2] \in Nat /\ \E f \in SstSizes : f[1] = e[1] /\ f[2] = 4 * e[2]
  BY SMT DEF sst_table, SstSizes
<1>3. DataSheet(c) BY DataSheetAssumption
<1>4. c.size = 4 * e[2] * 1024
  BY <1>1, <1>2, <1>3, SMT DEF DataSheet
<1>5. c.block[\h20] = 4096 BY <1>3, SMT DEF DataSheet
<1>6. /\ probe_sst(c.id).size = 4096 * e[2] /\ probe_sst(c.id).sector_size = 4096
      /\ probe_sst(c.id).driver = "sst"
  BY <1>1, <1>2, SMT DEF Part
<1> QED BY <1>2, <1>4, <1>5, <1>6, FourKiB, SMT DEF Fits

\* Spansion: the id and the extended id.
LEMMA SpansionFits ==
    ASSUME NEW c \in Chips, c.id[1] = 1, probe_spansion(c.id) # NoPart
    PROVE  Fits(probe_spansion(c.id), c)
<1> DEFINE parts == {Part("spansion", 256 * e[3], e[4]) :
                        e \in {f \in spansion_table :
                                  <<f[1], f[2]>> = <<Id(c.id), ExtId(c.id)>>}}
<1>0. probe_spansion(c.id) \in parts BY FoundEntry DEF probe_spansion
<1>1. PICK e \in spansion_table :
         /\ e[1] = Id(c.id) /\ e[2] = ExtId(c.id)
         /\ probe_spansion(c.id) = Part("spansion", 256 * e[3], e[4])
  BY <1>0
<1>2. \/ e[1] \div 256 = 2 /\ e[1] % 256 = 19 /\ e[3] = 256 /\ e[4] = 16
      \/ e[1] \div 256 = 2 /\ e[1] % 256 = 20 /\ e[3] = 256 /\ e[4] = 32
      \/ e[1] \div 256 = 2 /\ e[1] % 256 = 21 /\ e[3] = 256 /\ e[4] = 64
      \/ e[1] \div 256 = 2 /\ e[1] % 256 = 22 /\ e[3] = 256 /\ e[4] = 128
      \/ e[1] \div 256 = 32 /\ e[1] % 256 = 24 /\ e[2] % 256 = 1 /\ e[3] = 256 /\ e[4] = 256
      \/ /\ e[1] \div 256 = 32 /\ e[1] % 256 = 24
         /\ e[2] \div 256 = 3 /\ e[2] % 256 = 0 /\ e[3] = 1024 /\ e[4] = 64
  BY SMT DEF spansion_table
<1>3. /\ c.id[2] = e[1] \div 256 /\ c.id[3] = e[1] % 256
      /\ c.id[4] = e[2] \div 256 /\ c.id[5] = e[2] % 256
  <2>1. /\ c.id[2] \in 0..255 /\ c.id[3] \in 0..255 /\ c.id[4] \in 0..255 /\ c.id[5] \in 0..255
    BY DriverAssumption, SMT
  <2>2. PICK i \in 0..255, j \in 0..255, k \in 0..255, l \in 0..255 :
           c.id[2] = i /\ c.id[3] = j /\ c.id[4] = k /\ c.id[5] = l
    BY <2>1
  <2>3. e[1] = i * 256 + j /\ e[2] = k * 256 + l BY <1>1, <2>2 DEF Id, ExtId
  <2>4. e[1] \div 256 = i /\ e[1] % 256 = j BY <2>3, TwoBytes
  <2>5. e[2] \div 256 = k /\ e[2] % 256 = l BY <2>3, TwoBytes
  <2> QED BY <2>2, <2>4, <2>5
<1>4. DataSheet(c) BY DataSheetAssumption
<1>5. <<c.id[1], \h20>> \in PowerOfTwoTypes BY DEF PowerOfTwoTypes
<1>6. c.size = 256 * e[3] * e[4] /\ c.block[\hd8] = 256 * e[3]
  <2>1. CASE c.id[2] = 2 /\ e[3] = 256
    <3>1. SizeIs(c, c.id[3] + 1) /\ c.block[\hd8] = 65536
      BY <1>4, <2>1, SMT DEF DataSheet
    <3>2. PICK n \in 4..7 : c.id[3] + 1 = n + 16 /\ e[4] = 2^n
      <4>1. CASE c.id[3] = 19 /\ e[4] = 16 BY <4>1, Powers
      <4>2. CASE c.id[3] = 20 /\ e[4] = 32 BY <4>2, Powers
      <4>3. CASE c.id[3] = 21 /\ e[4] = 64 BY <4>3, Powers
      <4>4. CASE c.id[3] = 22 /\ e[4] = 128 BY <4>4, Powers
      <4> QED BY <1>2, <1>3, <2>1, <4>1, <4>2, <4>3, <4>4
    <3>3. (n + 16) \in 16..24 /\ (n + 16) - 16 = n OBVIOUS
    <3>4. c.size = 65536 * 2^n BY <3>1, <3>2, <3>3 DEF SizeIs
    <3>5. e[4] \in Int /\ 256 * e[3] * e[4] = 65536 * e[4] BY <1>2, <2>1, SMT
    <3> QED BY <2>1, <3>1, <3>2, <3>4, <3>5, SMT
  <2>2. CASE c.id[2] = 32 /\ c.id[3] = 24
    <3>1. SizeIs(c, 24) BY <1>4, <1>5, <2>2 DEF DataSheet
    <3>2. c.size = 65536 * 256 BY <3>1, SMT DEF SizeIs
    <3>3. CASE c.id[5] = 1 /\ e[3] = 256 /\ e[4] = 256
      <4>1. c.block[\hd8] = 65536 BY <1>4, <3>3, SMT DEF DataSheet
      <4> QED BY <3>2, <3>3, <4>1, SMT
    <3>4. CASE c.id[4] = 3 /\ c.id[5] = 0 /\ e[3] = 1024 /\ e[4] = 64
      <4>1. c.block[\hd8] = 262144 BY <1>4, <2>2, <3>4, SMT DEF DataSheet
      <4> QED BY <3>2, <3>4, <4>1, SMT
    <3> QED BY <1>2, <1>3, <2>2, <3>3, <3>4, SMT
  <2> QED BY <1>2, <1>3, <2>1, <2>2, SMT
<1>7. /\ probe_spansion(c.id).size = 256 * e[3] * e[4]
      /\ probe_spansion(c.id).sector_size = 256 * e[3]
      /\ probe_spansion(c.id).driver = "spansion"
  BY <1>1 DEF Part
<1> QED BY <1>6, <1>7, LargeErase DEF Fits

\* STMicro: the code of RDID, or the signature of RES and one.
LEMMA StMicroFits ==
    ASSUME NEW c \in Chips, c.id[1] \in {\h20, \hff}, probe_stmicro(c.id, c.res) # NoPart
    PROVE  Fits(probe_stmicro(c.id, c.res), c)
<1> DEFINE code == stmicro_id(c.id, c.res)
           parts == {Part("stmicro", 256 * e[2], e[3]) : e \in {f \in stmicro_table : f[1] = code}}
<1>0. probe_stmicro(c.id, c.res) \in parts BY FoundEntry DEF probe_stmicro
<1>1. PICK e \in stmicro_table :
         e[1] = code /\ probe_stmicro(c.id, c.res) = Part("stmicro", 256 * e[2], e[3])
  BY <1>0
<1>2. \/ e[1] = 17 /\ e[2] = 128 /\ e[3] = 4
      \/ e[1] = 18 /\ e[2] = 256 /\ e[3] = 4
      \/ e[1] = 19 /\ e[2] = 256 /\ e[3] = 8
      \/ e[1] = 20 /\ e[2] = 256 /\ e[3] = 16
      \/ e[1] = 21 /\ e[2] = 256 /\ e[3] = 32
      \/ e[1] = 22 /\ e[2] = 256 /\ e[3] = 64
      \/ e[1] = 23 /\ e[2] = 256 /\ e[3] = 128
      \/ e[1] = 24 /\ e[2] = 1024 /\ e[3] = 64
  BY SMT DEF stmicro_table
<1>3. DataSheet(c) BY DataSheetAssumption
<1>4. SizeIs(c, e[1]) /\ c.block[\hd8] = StSector(e[1])
  <2>1. CASE c.id[1] = \h20
    <3>1. code = c.id[3] BY <2>1 DEF stmicro_id
    <3> QED BY <1>1, <1>3, <2>1, <3>1 DEF DataSheet
  <2>2. CASE c.id[1] = \hff
    <3>1. c.res[4] \div 16 = 1 /\ code = c.res[4] + 1
      BY <1>1, <1>2, <2>2 DEF stmicro_id
    <3> QED BY <1>1, <1>3, <2>2, <3>1 DEF DataSheet
  <2> QED BY <2>1, <2>2
<1>5. c.size = 256 * e[2] * e[3] /\ c.block[\hd8] = 256 * e[2]
  <2>1. e[1] \in 16..24 /\ c.size = 65536 * 2^(e[1] - 16) BY <1>2, <1>4, SMT DEF SizeIs
  <2>2. PICK n \in 1..8 : e[1] - 16 = n /\ 256 * e[2] * e[3] = 65536 * 2^n
    <3>1. CASE e[1] = 17 /\ e[2] = 128 /\ e[3] = 4 BY <3>1, Powers
    <3>2. CASE e[1] = 18 /\ e[2] = 256 /\ e[3] = 4 BY <3>2, Powers
    <3>3. CASE e[1] = 19 /\ e[2] = 256 /\ e[3] = 8 BY <3>3, Powers
    <3>4. CASE e[1] = 20 /\ e[2] = 256 /\ e[3] = 16 BY <3>4, Powers
    <3>5. CASE e[1] = 21 /\ e[2] = 256 /\ e[3] = 32 BY <3>5, Powers
    <3>6. CASE e[1] = 22 /\ e[2] = 256 /\ e[3] = 64 BY <3>6, Powers
    <3>7. CASE e[1] = 23 /\ e[2] = 256 /\ e[3] = 128 BY <3>7, Powers
    <3>8. CASE e[1] = 24 /\ e[2] = 1024 /\ e[3] = 64 BY <3>8, Powers
    <3> QED BY <1>2, <3>1, <3>2, <3>3, <3>4, <3>5, <3>6, <3>7, <3>8
  <2>3. c.block[\hd8] = 256 * e[2] BY <1>2, <1>4, SMT DEF StSector
  <2> QED BY <2>1, <2>2, <2>3
<1>6. /\ probe_stmicro(c.id, c.res).size = 256 * e[2] * e[3]
      /\ probe_stmicro(c.id, c.res).sector_size = 256 * e[2]
      /\ probe_stmicro(c.id, c.res).driver = "stmicro"
  BY <1>1 DEF Part
<1> QED BY <1>5, <1>6, LargeErase DEF Fits

\* The part a probe finds, by any driver, is right for the chip.
LEMMA PartFits ==
    ASSUME NEW c \in Chips, spi_flash_probe(c.id, c.res) # NoPart
    PROVE  /\ spi_flash_probe(c.id, c.res).size = c.size
           /\ spi_flash_probe(c.id, c.res).sector_size =
                 c.block[EraseCommand(spi_flash_probe(c.id, c.res).driver)]
<1> DEFINE p == spi_flash_probe(c.id, c.res)
<1>1. Fits(p, c)
  <2>1. CASE c.id[1] = \hef BY <2>1, PowerFits DEF spi_flash_probe, probe_winbond
  <2>2. CASE c.id[1] = \hc2 BY <2>2, PowerFits DEF spi_flash_probe, probe_macronix
  <2>3. CASE c.id[1] = \hc8 BY <2>3, PowerFits DEF spi_flash_probe, probe_gigadevice
  <2>4. CASE c.id[1] = \h1f BY <2>4, AdestoFits DEF spi_flash_probe
  <2>5. CASE c.id[1] = \h1c BY <2>5, EonFits DEF spi_flash_probe
  <2>6. CASE c.id[1] = \hbf BY <2>6, SstFits DEF spi_flash_probe
  <2>7. CASE c.id[1] = 1 BY <2>7, SpansionFits DEF spi_flash_probe
  <2>8. CASE c.id[1] \in {\h20, \hff} BY <2>8, StMicroFits DEF spi_flash_probe
  <2>9. c.id[1] \in {\hef, \hc2, \hc8, \h1f, \h1c, \hbf, 1, \h20, \hff}
    BY DEF spi_flash_probe
  <2> QED BY <2>1, <2>2, <2>3, <2>4, <2>5, <2>6, <2>7, <2>8, <2>9
<1> QED BY <1>1 DEF Fits

-----------------------------------------------------------------------------
(* What a cycle does to the window.                                        *)

\* A sector that begins on its boundary is the addresses from there on.
LEMMA SectorCovers ==
    ASSUME NEW n \in SectorSizes, NEW a \in Nat, a % n = 0, NEW x \in Nat
    PROVE  x \div n = a \div n <=> a <= x /\ x < a + n
<1>1. CASE n = 4096 BY <1>1
<1>2. CASE n = 32768 BY <1>2
<1>3. CASE n = 65536 BY <1>3
<1>4. CASE n = 262144 BY <1>4
<1> QED BY <1>1, <1>2, <1>3, <1>4 DEF SectorSizes

\* From one sector to the next, inside a range of whole sectors.
LEMMA NextSector ==
    ASSUME NEW n \in SectorSizes, NEW a \in Nat, NEW off \in Nat, NEW len \in Nat,
           a % n = 0, off % n = 0, len % n = 0, a < off + len
    PROVE  a + n <= off + len /\ (a + n) % n = 0 /\ n \in Nat \ {0}
<1>1. CASE n = 4096 BY <1>1
<1>2. CASE n = 32768 BY <1>2
<1>3. CASE n = 65536 BY <1>3
<1>4. CASE n = 262144 BY <1>4
<1> QED BY <1>1, <1>2, <1>3, <1>4 DEF SectorSizes

\* Two addresses of a page.
LEMMA SamePage ==
    ASSUME NEW a \in Nat, NEW x \in Nat, x \div 256 = a \div 256
    PROVE  /\ (x - a) % 256 = IF a <= x THEN x - a ELSE x - a + 256
           /\ a - x <= a % 256
<1>1. (x - a) % 256 = IF a <= x THEN x - a ELSE x - a + 256 OBVIOUS
<1>2. a - x <= a % 256 OBVIOUS
<1> QED BY <1>1, <1>2

\* A program that ends in the page it begins in stays there.
LEMMA StaysInPage ==
    ASSUME NEW a \in Nat, NEW n \in Nat, (a % 256) + n <= 256,
           NEW x \in Nat, a <= x, x < a + n
    PROVE  x \div 256 = a \div 256
OBVIOUS

\* So it takes the addresses from where it begins on.
LEMMA ProgramCovers ==
    ASSUME NEW a \in Nat, NEW n \in Nat, (a % 256) + n <= 256, NEW x \in Nat
    PROVE  /\ (x \div 256 # a \div 256 \/ (x - a) % 256 >= n) <=> ~(a <= x /\ x < a + n)
           /\ a <= x /\ x < a + n => a + ((x - a) % 256) = x
<1>1. CASE a <= x /\ x < a + n
  <2>1. x \div 256 = a \div 256 BY <1>1, StaysInPage
  <2>2. (x - a) % 256 = x - a BY <1>1, <2>1, SamePage
  <2> QED BY <1>1, <2>1, <2>2
<1>2. CASE ~(a <= x /\ x < a + n)
  <2> SUFFICES ASSUME x \div 256 = a \div 256 PROVE (x - a) % 256 >= n
    BY <1>2
  <2>1. (x - a) % 256 = (IF a <= x THEN x - a ELSE x - a + 256) /\ a - x <= a % 256
    BY SamePage
  <2>2. a % 256 \in Int OBVIOUS
  <2> QED BY <1>2, <2>1, <2>2
<1> QED BY <1>1, <1>2

-----------------------------------------------------------------------------
(* A call that found the chip ready, command by command.                   *)

EraseStages == {"eraseWREN", "eraseCmd", "erasePoll"}
ByteStages  == {"byteWREN", "byteCmd", "bytePoll"}
AAIStages   == {"aaiWREN", "aaiWord", "aaiPoll", "aaiWRDI"}
PollStages  == {"erasePoll", "writePoll", "bytePoll", "aaiPoll"}
WRENStages  == {"eraseWREN", "writeWREN", "byteWREN", "aaiWREN"}
CmdStages   == {"eraseCmd", "program", "byteCmd"}
InCallStages == EraseStages \cup WriteStages \cup ByteStages \cup AAIStages
CallStages  == InCallStages \cup {"ready", "failed"}

\* The part found is one of the tables', and erases its sectors.
PartKnown ==
    /\ chip \in Chips
    /\ pc \notin {"start", "reset"} =>
           IsPart(part) /\ part.sector_size = chip.block[EraseCommand(part.driver)]
    /\ PartIsChip

\* How much of the range the command at hand is for.
Chunk == IF call.op = "erase" THEN part.sector_size
         ELSE IF part.driver # "sst" THEN Step.len
         ELSE IF pc \in AAIStages THEN 2 ELSE 1

\* How far the call has come: over the chunk when its cycle is over.
Reached == IF pc \in PollStages /\ ~WIP THEN at + Chunk ELSE at

\* A byte is as the call is to leave it.
Good(x) == /\ call.op = "erase" => mem[x] = Erased
           /\ call.op = "write" /\ Writable /\ Sendable => mem[x] = x

CallTypes ==
    /\ pc \in CallStages
    /\ ~protected
    /\ call.op \in {"erase", "write"}
    /\ call.off \in Nat /\ call.len \in Nat \ {0}
    /\ call.off + call.len <= part.size

\* A cycle, also one that the driver has given up waiting for, is of the call.
CycleInRange ==
    WIP =>
        /\ busy.addr \in Nat /\ busy.n \in Nat \ {0}
        /\ call.off <= busy.addr /\ busy.addr + busy.n <= call.off + call.len
        /\ \/ /\ busy.op = "program" /\ call.op = "write"
              /\ busy.from = busy.addr /\ (busy.addr % 256) + busy.n <= 256
           \/ /\ busy.op = "erase" /\ call.op = "erase"
              /\ busy.n \in SectorSizes /\ busy.addr % busy.n = 0

Outside == \A x \in Window : InCall(x) \/ mem[x] = before[x]

\* No byte of a write is programmed twice with different data.
Clearable ==
    call.op = "write" /\ Writable =>
        \A x \in Window : InCall(x) => mem[x] \in {Erased, x}

\* Where at and actual are at each stage.
Place ==
    /\ pc \in EraseStages =>
          /\ call.op = "erase"
          /\ call.off % part.sector_size = 0 /\ call.len % part.sector_size = 0
          /\ at % part.sector_size = 0 /\ at \in Nat
          /\ call.off <= at /\ at < call.off + call.len
    /\ pc \in WriteStages => call.op = "write" /\ part.driver # "sst"
    /\ pc \in ByteStages =>
          /\ call.op = "write" /\ part.driver = "sst"
          /\ \/ at = call.off /\ actual = 1 /\ call.off % 2 = 1 /\ cmdLen = 4
             \/ at = call.off + actual /\ actual = call.len - 1
    /\ pc \in AAIStages =>
          /\ call.op = "write" /\ part.driver = "sst"
          /\ actual \in Nat /\ at = call.off + actual /\ at % 2 = 0
          /\ actual <= call.len
          /\ pc \in {"aaiWord", "aaiPoll"} => actual < call.len - 1
          /\ pc = "aaiWRDI" => actual >= call.len - 1

\* The chip takes the command that comes next.
ChipReady ==
    /\ pc \in WRENStages \cup {"ready"} => Listens
    /\ pc \in CmdStages => Listens /\ wel
    /\ pc \in PollStages \ {"aaiPoll"} => aai = NoAAI
    /\ pc = "aaiWREN" => cmdLen = 4
    /\ pc = "aaiWord" => /\ ~WIP
                         /\ \/ cmdLen = 4 /\ aai = NoAAI /\ wel
                            \/ cmdLen = 1 /\ aai = at
    /\ pc = "aaiPoll" => aai = at + 2
    /\ pc = "aaiWRDI" => ~WIP
    /\ pc \in PollStages /\ WIP => busy.addr = at /\ busy.n = Chunk

Progress ==
    /\ pc \in InCallStages =>
          \A x \in Window : call.off <= x /\ x < Reached => Good(x)
    /\ pc = "ready" => \A x \in Window : InCall(x) => Good(x)

Fine == /\ CallTypes /\ CycleInRange /\ Outside /\ Clearable
        /\ Place /\ ChipReady /\ Progress

CallInv == clean => Fine

\* The chunk of a command is in the range, and in a page or a sector.
LEMMA ChunkFits ==
    ASSUME PartKnown, CutInv, CallTypes, Place,
           pc \in EraseStages \cup WriteStages \cup ByteStages \cup {"aaiWord", "aaiPoll"}
    PROVE  /\ at \in Nat /\ Chunk \in Nat \ {0}
           /\ call.off <= at /\ at + Chunk <= call.off + call.len
           /\ call.op = "write" => (at % 256) + Chunk <= 256
           /\ call.op = "erase" => Chunk \in SectorSizes /\ at % Chunk = 0
<1>1. IsPart(part) /\ call.off \in Nat /\ call.len \in Nat \ {0}
  BY DEF PartKnown, CallTypes, EraseStages, WriteStages, ByteStages
<1>2. CASE pc \in EraseStages
  <2>1. call.op = "erase" /\ Chunk = part.sector_size BY <1>2 DEF Place, Chunk
  <2>2. /\ call.off % Chunk = 0 /\ call.len % Chunk = 0 /\ at % Chunk = 0
        /\ at \in Nat /\ call.off <= at /\ at < call.off + call.len
    BY <1>2, <2>1 DEF Place
  <2>3. Chunk \in SectorSizes BY <1>1, <2>1 DEF IsPart
  <2>4. at + Chunk <= call.off + call.len /\ Chunk \in Nat \ {0}
    BY <1>1, <2>2, <2>3, NextSector
  <2> QED BY <2>1, <2>2, <2>3, <2>4
<1>3. CASE pc \in WriteStages
  <2>1. call.op = "write" /\ part.driver # "sst" BY <1>3 DEF Place
  <2>2. part.driver \in Limited \cup Paged BY <1>1, <2>1 DEF IsPart, Drivers
  <2>3. /\ actual \in Nat /\ actual < call.len /\ at = call.off + actual
        /\ part.driver \in Limited /\ actual # 0 => at % 64 = 0
    BY <1>3, <2>2 DEF CutInv
  <2>4. Chunk = Step.len BY <2>1 DEF Chunk
  <2>5. CASE part.driver \in Limited
    <3>1. /\ LimitedStep.len \in 1..64 /\ (at % 256) + LimitedStep.len <= 256
          /\ actual + LimitedStep.len <= call.len
      BY <1>1, <2>3, <2>5, LimitedChunk
    <3>2. Chunk = LimitedStep.len BY <2>4, <2>5, StepOfLimited
    <3> QED BY <1>1, <2>1, <2>3, <3>1, <3>2
  <2>6. CASE part.driver \in Paged
    <3>1. /\ PagedStep.len \in 1..256 /\ (at % 256) + PagedStep.len <= 256
          /\ actual + PagedStep.len <= call.len
      BY <1>1, <2>3, PagedChunk
    <3>2. Chunk = PagedStep.len BY <2>4, <2>6, StepOfPaged
    <3> QED BY <1>1, <2>1, <2>3, <3>1, <3>2
  <2> QED BY <2>2, <2>5, <2>6
<1>4. CASE pc \in ByteStages
  <2>1. call.op = "write" /\ part.driver = "sst" /\ pc \notin AAIStages
    BY <1>4 DEF Place, ByteStages, AAIStages
  <2>2. Chunk = 1 BY <2>1 DEF Chunk
  <2>3. at \in Nat /\ call.off <= at /\ at + 1 <= call.off + call.len
    BY <1>1, <1>4 DEF Place
  <2>4. (at % 256) + 1 <= 256 BY <2>3
  <2> QED BY <2>1, <2>2, <2>3, <2>4
<1>5. CASE pc \in {"aaiWord", "aaiPoll"}
  <2>1. pc \in AAIStages BY <1>5 DEF AAIStages
  <2>2. /\ call.op = "write" /\ part.driver = "sst" /\ actual \in Nat
        /\ at = call.off + actual /\ at % 2 = 0 /\ actual < call.len - 1
    BY <1>5, <2>1 DEF Place
  <2>3. Chunk = 2 BY <2>1, <2>2 DEF Chunk
  <2>4. at \in Nat /\ call.off <= at /\ at + 2 <= call.off + call.len
    BY <1>1, <2>2
  <2>5. (at % 256) + 2 <= 256 BY <2>2, <2>4
  <2> QED BY <2>2, <2>3, <2>4, <2>5
<1> QED BY <1>2, <1>3, <1>4, <1>5

\* The end of a cycle of the call changes the cycle's own addresses.
LEMMA CycleEffect ==
    ASSUME CallTypes, CycleInRange, ChipFinishes, NEW x \in Window
    PROVE  LET hit == busy.addr <= x /\ x < busy.addr + busy.n
           IN  /\ x \in Nat
               /\ ~hit => mem'[x] = mem[x]
               /\ hit => InCall(x)
               /\ hit /\ call.op = "erase" => mem'[x] = Erased
               /\ hit /\ call.op = "write" /\ mem[x] \in {Erased, x} => mem'[x] = x
<1> DEFINE hit == busy.addr <= x /\ x < busy.addr + busy.n
<1>1. /\ x \in Nat /\ busy.addr \in Nat /\ busy.n \in Nat \ {0}
      /\ call.off \in Nat /\ call.len \in Nat
      /\ call.off <= busy.addr /\ busy.addr + busy.n <= call.off + call.len
      /\ \/ /\ busy.op = "program" /\ call.op = "write"
            /\ busy.from = busy.addr /\ (busy.addr % 256) + busy.n <= 256
         \/ /\ busy.op = "erase" /\ call.op = "erase"
            /\ busy.n \in SectorSizes /\ busy.addr % busy.n = 0
  BY DriverAssumption DEF CallTypes, CycleInRange, ChipFinishes
<1>2. hit => InCall(x) BY <1>1 DEF InCall
<1>3. CASE busy.op = "program"
  <2>1. mem'[x] = Programmed(x) BY <1>3 DEF ChipFinishes
  <2>2. (busy.addr % 256) + busy.n <= 256 /\ busy.from = busy.addr /\ call.op = "write"
    BY <1>1, <1>3
  <2>3. /\ (x \div 256 # busy.addr \div 256 \/ (x - busy.addr) % 256 >= busy.n) <=> ~hit
        /\ hit => busy.addr + ((x - busy.addr) % 256) = x
    BY <1>1, <2>2, ProgramCovers
  <2>4. Programmed(x) =
           IF x \div 256 # busy.addr \div 256 \/ (x - busy.addr) % 256 >= busy.n
           THEN mem[x]
           ELSE IF mem[x] \in {Erased, busy.addr + ((x - busy.addr) % 256)}
                THEN busy.addr + ((x - busy.addr) % 256) ELSE Bad
    BY <2>2 DEF Programmed
  <2> HIDE DEF hit
  <2>5. ~hit => mem'[x] = mem[x] BY <2>1, <2>3, <2>4
  <2>6. hit /\ mem[x] \in {Erased, x} => mem'[x] = x BY <2>1, <2>3, <2>4
  <2> QED BY <1>1, <1>2, <2>2, <2>5, <2>6 DEF hit
<1>4. CASE busy.op = "erase"
  <2>1. call.op = "erase" /\ busy.n \in SectorSizes /\ busy.addr % busy.n = 0
    BY <1>1, <1>4
  <2>2. mem'[x] = IF x \div busy.n = busy.addr \div busy.n THEN Erased ELSE mem[x]
    BY <1>4 DEF ChipFinishes
  <2>3. x \div busy.n = busy.addr \div busy.n <=> hit BY <1>1, <2>1, SectorCovers
  <2> QED BY <1>1, <1>2, <2>1, <2>2, <2>3
<1> QED BY <1>1, <1>3, <1>4

\* The chunk is what it was as long as the driver has not moved on.
LEMMA ChunkSame ==
    ASSUME UNCHANGED <<part, call, at, actual>>, (pc \in AAIStages) <=> (pc' \in AAIStages)
    PROVE  Chunk' = Chunk
<1>1. LimitedStep' = LimitedStep /\ PagedStep' = PagedStep
  BY DEF LimitedStep, PagedStep, LeftToWrite
<1>2. Step' = Step
  BY <1>1 DEF Step, winbond_write, adesto_write, macronix_write, gigadevice_write,
              eon_write, spansion_write, stmicro_write
<1> QED BY <1>2 DEF Chunk

\* What does not touch the chip's memory leaves what is known of it.
LEMMA MemoryKept ==
    ASSUME UNCHANGED <<mem, part, call, before>>
    PROVE  /\ Outside => Outside'
           /\ Clearable => Clearable'
           /\ \A x : Good(x)' <=> Good(x)
BY DEF Outside, Clearable, Good, InCall, Writable, Sendable

\* A cycle of a call ends.
LEMMA FinishKeeps ==
    ASSUME CallInv, ChipFinishes
    PROVE  CallInv'
<1> SUFFICES ASSUME clean PROVE Fine'
  BY DEF CallInv, ChipFinishes
<1>1. /\ CallTypes /\ CycleInRange /\ Outside /\ Clearable
      /\ Place /\ ChipReady /\ Progress
  BY DEF CallInv, Fine
<1>2. /\ WIP /\ ~WIP'
      /\ UNCHANGED <<aai, pc, part, call, at, actual, cmdLen, before>>
      /\ protected' = (protected /\ busy.op # "wrsr")
  BY DEF ChipFinishes, WIP, Idle
<1>3. CallTypes' BY <1>1, <1>2 DEF CallTypes
<1>4. CycleInRange' BY <1>2 DEF CycleInRange
<1>5. Outside'
  <2> SUFFICES ASSUME NEW x \in Window, ~InCall(x) PROVE mem'[x] = before'[x]
    BY <1>2 DEF Outside, InCall
  <2>1. mem'[x] = mem[x] BY <1>1, CycleEffect
  <2> QED BY <1>1, <1>2, <2>1 DEF Outside
<1>6. Clearable'
  <2> SUFFICES ASSUME call.op = "write", Writable, NEW x \in Window, InCall(x)
               PROVE  mem'[x] \in {Erased, x}
    BY <1>2 DEF Clearable, InCall, Writable
  <2>1. mem[x] \in {Erased, x} BY <1>1 DEF Clearable
  <2> QED BY <1>1, <2>1, CycleEffect
<1>7. Place' BY <1>1, <1>2 DEF Place
<1>8. pc \in PollStages \cup {"failed"}
  <2>1. pc \in CallStages /\ ~Listens BY <1>1, <1>2 DEF CallTypes, Listens
  <2> QED
    BY <1>1, <1>2, <2>1 DEF ChipReady, CallStages, InCallStages, EraseStages, WriteStages,
       ByteStages, AAIStages, PollStages, WRENStages, CmdStages
<1>9. ChipReady'
  BY <1>1, <1>2, <1>8 DEF ChipReady, PollStages, WRENStages, CmdStages
<1>10. Progress'
  <2>1. CASE pc = "failed"
    BY <1>2, <2>1 DEF Progress, InCallStages, EraseStages, WriteStages, ByteStages, AAIStages
  <2>2. CASE pc \in PollStages
    <3>1. Chunk' = Chunk BY <1>2, ChunkSame
    <3>2. Reached = at /\ Reached' = at + Chunk BY <1>2, <2>2, <3>1 DEF Reached
    <3>3. busy.addr = at /\ busy.n = Chunk BY <1>1, <1>2, <2>2 DEF ChipReady
    <3>4. pc \in InCallStages /\ pc # "ready"
      BY <2>2 DEF PollStages, InCallStages, EraseStages, WriteStages, ByteStages, AAIStages
    <3>5. ASSUME NEW x \in Window, call.off <= x, x < at + Chunk PROVE Good(x)'
      <4>1. CASE at <= x
        <5>1. call.op = "erase" => mem'[x] = Erased BY <1>1, <3>3, <3>5, <4>1, CycleEffect
        <5>2. ASSUME call.op = "write", Writable PROVE mem'[x] = x
          <6>1. InCall(x) BY <1>1, <3>3, <3>5, <4>1, CycleEffect
          <6>2. mem[x] \in {Erased, x} BY <1>1, <5>2, <6>1 DEF Clearable
          <6> QED BY <1>1, <3>3, <3>5, <4>1, <5>2, <6>2, CycleEffect
        <5>3. Writable' <=> Writable BY <1>2 DEF Writable, InCall
        <5> QED BY <1>2, <5>1, <5>2, <5>3 DEF Good
      <4>2. CASE ~(at <= x)
        <5>1. at \in Nat /\ x \in Nat
          BY <1>1, <1>2, <3>3, DriverAssumption DEF CycleInRange
        <5>2. Good(x) BY <1>1, <3>2, <3>4, <3>5, <4>2, <5>1 DEF Progress
        <5>3. mem'[x] = mem[x] BY <1>1, <3>3, <4>2, CycleEffect
        <5>4. (Writable' <=> Writable) /\ (Sendable' <=> Sendable)
          BY <1>2 DEF Writable, Sendable, InCall
        <5> QED BY <1>2, <5>2, <5>3, <5>4 DEF Good
      <4> QED BY <4>1, <4>2
    <3>6. \A x \in Window : call.off <= x /\ x < Reached' => Good(x)' BY <3>2, <3>5
    <3> QED BY <1>2, <3>4, <3>6 DEF Progress
  <2> QED BY <1>8, <2>1, <2>2
<1> QED BY <1>3, <1>4, <1>5, <1>6, <1>7, <1>9, <1>10 DEF Fine

\* A step that changes nothing the invariant speaks of.
LEMMA StutterKeeps ==
    ASSUME CallInv,
           UNCHANGED <<chip, chipVars, pc, part, call, at, actual, cmdLen, before, clean>>
    PROVE  CallInv'
<1>1. Chunk' = Chunk BY ChunkSame
<1>2. UNCHANGED <<mem, wel, busy, aai, protected>> BY DEF chipVars
<1>3. (WIP' <=> WIP) /\ (Listens' <=> Listens) BY <1>2 DEF WIP, Listens
<1>4. Reached' = Reached BY <1>1, <1>3 DEF Reached
<1>5. \A x : Good(x)' <=> Good(x) BY <1>2, MemoryKept
<1>6. Progress => Progress' BY <1>4, <1>5 DEF Progress, InCall
<1>7. ChipReady => ChipReady' BY <1>1, <1>2, <1>3 DEF ChipReady
<1>8. Place => Place' BY DEF Place
<1>9. (CallTypes => CallTypes') /\ (CycleInRange => CycleInRange')
  BY <1>2, <1>3 DEF CallTypes, CycleInRange
<1>10. (Outside => Outside') /\ (Clearable => Clearable') BY <1>2, MemoryKept
<1> QED BY <1>6, <1>7, <1>8, <1>9, <1>10 DEF CallInv, Fine

\* A call that fails leaves the chip to itself.
LEMMA FailKeeps ==
    ASSUME CallInv, pc' = "failed",
           UNCHANGED <<chip, chipVars, part, call, before, clean>>
    PROVE  CallInv'
<1> SUFFICES ASSUME clean PROVE Fine'
  BY DEF CallInv
<1>1. CallTypes /\ CycleInRange /\ Outside /\ Clearable
  BY DEF CallInv, Fine
<1>2. UNCHANGED <<mem, wel, busy, aai, protected>> BY DEF chipVars
<1>3. CallTypes' /\ CycleInRange'
  BY <1>1, <1>2 DEF CallTypes, CycleInRange, WIP, CallStages
<1>4. Outside' /\ Clearable' BY <1>1, <1>2, MemoryKept
<1>5. Place' BY DEF Place, EraseStages, WriteStages, ByteStages, AAIStages
<1>6. ChipReady' BY DEF ChipReady, WRENStages, CmdStages, PollStages
<1>7. Progress'
  BY DEF Progress, InCallStages, EraseStages, WriteStages, ByteStages, AAIStages
<1> QED BY <1>3, <1>4, <1>5, <1>6, <1>7 DEF Fine

\* WREN is heard.
LEMMA WRENKeeps ==
    ASSUME CallInv, EraseWREN \/ WriteWREN \/ ByteWREN \/ AAIWREN
    PROVE  CallInv'
<1> SUFFICES ASSUME clean PROVE Fine'
  BY DEF CallInv, EraseWREN, WriteWREN, ByteWREN, AAIWREN, Send
<1>1. /\ CallTypes /\ CycleInRange /\ Outside /\ Clearable
      /\ Place /\ ChipReady /\ Progress
  BY DEF CallInv, Fine
<1>2. /\ UNCHANGED <<mem, busy, aai, protected, chip, part, call, at, actual, cmdLen, before>>
      /\ wel' = (wel \/ Listens)
      /\ \/ pc = "eraseWREN" /\ pc' = "eraseCmd"
         \/ pc = "writeWREN" /\ pc' = "program"
         \/ pc = "byteWREN" /\ pc' = "byteCmd"
         \/ pc = "aaiWREN" /\ pc' = AAIWords
  BY DEF EraseWREN, WriteWREN, ByteWREN, AAIWREN, Send, WriteEnable
<1>3. /\ AAIWords \in {"aaiWord", "aaiWRDI"}
      /\ AAIWords = "aaiWord" => actual < call.len - 1
      /\ AAIWords = "aaiWRDI" => ~(actual < call.len - 1)
  BY DEF AAIWords
<1>4. Listens /\ Listens' /\ ~WIP /\ ~WIP' /\ aai = NoAAI /\ wel'
  BY <1>1, <1>2 DEF ChipReady, WRENStages, Listens, WIP
<1>5. CallTypes' /\ CycleInRange'
  BY <1>1, <1>2, <1>3, <1>4 DEF CallTypes, CycleInRange, CallStages, InCallStages,
     EraseStages, WriteStages, ByteStages, AAIStages
<1>6. Outside' /\ Clearable' /\ \A x : Good(x)' <=> Good(x)
  BY <1>1, <1>2, MemoryKept
<1>7. Place'
  <2>1. CASE pc # "aaiWREN"
    BY <1>1, <1>2, <2>1 DEF Place, EraseStages, WriteStages, ByteStages, AAIStages
  <2>2. CASE pc = "aaiWREN"
    <3>1. /\ call.op = "write" /\ part.driver = "sst"
          /\ actual \in Nat /\ at = call.off + actual /\ at % 2 = 0
          /\ actual <= call.len /\ call.len \in Nat
      BY <1>1, <2>2 DEF Place, AAIStages, CallTypes
    <3>2. pc' \in {"aaiWord", "aaiWRDI"}
          /\ (pc' = "aaiWord" => actual < call.len - 1)
          /\ (pc' = "aaiWRDI" => actual >= call.len - 1)
      BY <1>2, <1>3, <2>2, <3>1
    <3> QED BY <1>2, <3>1, <3>2 DEF Place, EraseStages, WriteStages, ByteStages, AAIStages
  <2> QED BY <2>1, <2>2
<1>8. ChipReady'
  BY <1>1, <1>2, <1>3, <1>4 DEF ChipReady, WRENStages, CmdStages, PollStages
<1>9. pc \in InCallStages /\ Reached = at /\ Reached' = at /\ pc' # "ready"
  BY <1>2, <1>3 DEF Reached, PollStages, InCallStages, EraseStages, WriteStages,
     ByteStages, AAIStages
<1>10. Progress' BY <1>1, <1>2, <1>6, <1>9 DEF Progress
<1> QED BY <1>5, <1>6, <1>7, <1>8, <1>10 DEF Fine

\* A program or an erase begins, of the chunk.
LEMMA CycleStarts ==
    ASSUME CallInv, clean, PartKnown, CutInv,
           \/ pc = "eraseCmd" /\ pc' = "erasePoll"
           \/ pc = "program" /\ pc' = "writePoll"
           \/ pc = "byteCmd" /\ pc' = "bytePoll"
           \/ pc = "aaiWord" /\ pc' = "aaiPoll",
           UNCHANGED <<mem, protected, chip, part, call, at, actual, cmdLen, before, clean>>,
           aai' = IF pc = "aaiWord" THEN at + 2 ELSE NoAAI,
           \/ /\ WIP' /\ busy'.addr = at /\ busy'.n = Chunk
              /\ busy'.op = IF call.op = "erase" THEN "erase" ELSE "program"
              /\ call.op = "write" => busy'.from = at
           \/ ~WIP' /\ call.op = "write" /\ ~Sendable
    PROVE  CallInv'
<1>1. /\ CallTypes /\ CycleInRange /\ Outside /\ Clearable
      /\ Place /\ ChipReady /\ Progress
  BY DEF CallInv, Fine
<1>2. \/ pc = "eraseCmd" /\ pc' = "erasePoll"
      \/ pc = "program" /\ pc' = "writePoll"
      \/ pc = "byteCmd" /\ pc' = "bytePoll"
      \/ pc = "aaiWord" /\ pc' = "aaiPoll"
  OBVIOUS
<1>3. Chunk' = Chunk
  BY <1>2, ChunkSame DEF AAIStages
<1>4. /\ at \in Nat /\ Chunk \in Nat \ {0}
      /\ call.off <= at /\ at + Chunk <= call.off + call.len
      /\ call.op = "write" => (at % 256) + Chunk <= 256
      /\ call.op = "erase" => Chunk \in SectorSizes /\ at % Chunk = 0
  BY <1>1, <1>2, ChunkFits DEF EraseStages, WriteStages, ByteStages
<1>5. call.op \in {"erase", "write"} BY <1>1 DEF CallTypes
<1>6. CallTypes'
  BY <1>1, <1>2 DEF CallTypes, CallStages, InCallStages,
     EraseStages, WriteStages, ByteStages, AAIStages
<1>7. CycleInRange' BY <1>4, <1>5 DEF CycleInRange
<1>8. Outside' /\ Clearable' /\ \A x : Good(x)' <=> Good(x) BY <1>1, MemoryKept
<1>9. Place' BY <1>1, <1>2 DEF Place, EraseStages, WriteStages, ByteStages, AAIStages
<1>10. ChipReady'
  BY <1>2, <1>3 DEF ChipReady, WRENStages, CmdStages, PollStages
<1>11. pc \in InCallStages /\ pc' \in PollStages /\ pc' # "ready" /\ pc \notin PollStages
  BY <1>2 DEF PollStages, InCallStages, EraseStages, WriteStages, ByteStages, AAIStages
<1>12. Progress'
  <2>1. CASE WIP'
    <3>1. Reached = at /\ Reached' = at BY <1>11, <2>1 DEF Reached
    <3> QED BY <1>1, <1>8, <1>11, <3>1 DEF Progress
  <2>2. CASE ~WIP'
    <3>1. call.op = "write" /\ ~Sendable BY <2>2, <1>5 DEF WIP
    <3>2. \A x : Good(x)' BY <1>8, <3>1 DEF Good
    <3> QED BY <1>11, <3>2 DEF Progress
  <2> QED BY <2>1, <2>2
<1> QED BY <1>6, <1>7, <1>8, <1>9, <1>10, <1>12 DEF CallInv, Fine

\* The erase command of the driver erases what it counts as a sector.
LEMMA EraseCmdKeeps ==
    ASSUME CallInv, PartKnown, CutInv, EraseCmd
    PROVE  CallInv'
<1> SUFFICES ASSUME clean PROVE CallInv'
  BY DEF CallInv, EraseCmd, Send
<1> DEFINE n == chip.block[EraseCommand(part.driver)]
<1>1. /\ pc = "eraseCmd" /\ pc' = "erasePoll"
      /\ UNCHANGED <<chip, part, call, at, actual, cmdLen, before, clean>>
      /\ spi_xfer(4, StartCycle(~protected /\ n # 0, EraseCycle(at, n)))
  BY DEF EraseCmd, Send
<1>2. CallTypes /\ Place /\ ChipReady BY DEF CallInv, Fine
<1>3. call.op = "erase" /\ Chunk = n /\ Chunk # 0
  <2>1. call.op = "erase" BY <1>1, <1>2 DEF Place, EraseStages
  <2>2. IsPart(part) /\ part.sector_size = n BY <1>1 DEF PartKnown
  <2>3. part.sector_size # 0 BY <2>2 DEF IsPart, SectorSizes
  <2> QED BY <2>1, <2>2, <2>3 DEF Chunk
<1>4. Listens /\ wel /\ ~protected /\ aai = NoAAI
  BY <1>1, <1>2 DEF CallTypes, ChipReady, CmdStages, Listens
<1>5. check_readwritecnt(4 - 1, 0) = 0 BY DEF check_readwritecnt
<1> HIDE DEF n
<1>6. StartCycle(~protected /\ n # 0, EraseCycle(at, n)) BY <1>1, <1>5 DEF spi_xfer
<1>7. busy' = EraseCycle(at, n) /\ UNCHANGED <<mem, aai, protected>>
  BY <1>3, <1>4, <1>6 DEF StartCycle
<1>8. busy'.op = "erase" /\ busy'.addr = at /\ busy'.n = Chunk /\ WIP'
  BY <1>3, <1>7 DEF EraseCycle, WIP
<1> QED BY <1>1, <1>3, <1>4, <1>7, <1>8, CycleStarts

\* A page program is sent where its bytes belong, unless the controller cannot.
LEMMA ProgramKeeps ==
    ASSUME CallInv, PartKnown, CutInv, Program
    PROVE  CallInv'
<1> SUFFICES ASSUME clean PROVE CallInv'
  BY DEF CallInv, Program, Send
<1> DEFINE c == ProgramCycle(at % 2^24, call.off + actual, Step.len)
           ok == check_readwritecnt((4 + Step.len) - 1, 0) = 0
<1>0. /\ pc = "program" /\ pc' = "writePoll"
      /\ UNCHANGED <<chip, part, call, at, actual, cmdLen, before, clean>>
      /\ spi_xfer(4 + Step.len, StartCycle(~protected, c))
  BY DEF Program, Send
<1>1. /\ pc = "program" /\ pc' = "writePoll"
      /\ UNCHANGED <<chip, part, call, at, actual, cmdLen, before, clean>>
      /\ IF ok THEN StartCycle(~protected, c) ELSE UNCHANGED chipVars
  BY <1>0 DEF spi_xfer
<1> HIDE DEF c, ok
<1>2. CallTypes /\ Place /\ ChipReady BY DEF CallInv, Fine
<1>3. /\ call.op = "write" /\ part.driver # "sst" /\ part.driver \in Limited \cup Paged
      /\ part.size \in Nat /\ part.size <= 16777216
      /\ call.off \in Nat /\ call.len \in Nat /\ call.off + call.len <= part.size
  BY <1>1, <1>2 DEF Place, WriteStages, PartKnown, IsPart, Drivers, CallTypes
<1>4. Chunk = Step.len BY <1>3 DEF Chunk
<1>5. /\ at \in Nat /\ Chunk \in Nat \ {0}
      /\ call.off <= at /\ at + Chunk <= call.off + call.len
  BY <1>1, <1>2, ChunkFits DEF WriteStages
<1>6. at % 2^24 = at
  <2>1. 2^24 = 16777216 BY SMT
  <2>2. at < 16777216 BY <1>3, <1>5
  <2>3. at % 16777216 = at BY <1>5, <2>2
  <2> QED BY <2>1, <2>3
<1>7. at = call.off + actual /\ actual \in Nat
  BY <1>1, <1>3 DEF CutInv, WriteStages
<1>8. Listens /\ wel /\ ~protected /\ aai = NoAAI /\ ~WIP
  BY <1>1, <1>2 DEF CallTypes, ChipReady, CmdStages, Listens
<1>9. CASE ok
  <2>1. busy' = c /\ UNCHANGED <<mem, aai, protected>>
    BY <1>1, <1>8, <1>9 DEF StartCycle, chipVars
  <2>2. /\ busy'.op = "program" /\ busy'.addr = at /\ busy'.n = Chunk
        /\ busy'.from = at /\ WIP'
    BY <1>4, <1>6, <1>7, <2>1 DEF c, ProgramCycle, WIP
  <2> QED BY <1>1, <1>3, <1>8, <2>1, <2>2, CycleStarts
<1>10. CASE ~ok
  <2>1. UNCHANGED <<mem, wel, busy, aai, protected>>
    BY <1>1, <1>10 DEF chipVars
  <2>2. ~WIP' BY <1>8, <2>1 DEF WIP
  <2>3. Chunk > 68 BY <1>4, <1>5, <1>10 DEF ok, check_readwritecnt
  <2>4. part.driver \notin Limited
    <3>1. part.driver \in Limited => Step.len \in 1..64
      <4>1. ProgramsAreCut BY CutSuffices
      <4>2. part.driver \in Limited => check_readwritecnt(3 + Step.len, 0) = 0
        BY <1>1, <4>1 DEF ProgramsAreCut
      <4>3. (4 + Step.len) - 1 = 3 + Step.len BY <1>4, <1>5
      <4> QED BY <1>10, <4>2, <4>3 DEF ok
    <3> QED BY <1>4, <2>3, <3>1
  <2>5. call.len > 68 BY <1>3, <1>5, <2>3
  <2>6. ~Sendable BY <1>3, <2>4, <2>5 DEF Sendable, Paged
  <2> QED BY <1>1, <1>3, <1>8, <2>1, <2>2, <2>6, CycleStarts
<1> QED BY <1>9, <1>10

\* So are the single bytes of SST parts.
LEMMA ByteKeeps ==
    ASSUME CallInv, PartKnown, CutInv, sst_byte_write
    PROVE  CallInv'
<1> SUFFICES ASSUME clean PROVE CallInv'
  BY DEF CallInv, sst_byte_write, Send
<1> DEFINE c == ProgramCycle(at, IF Leading THEN call.off ELSE call.off + actual, 1)
<1>1. /\ pc = "byteCmd" /\ pc' = "bytePoll"
      /\ UNCHANGED <<chip, part, call, at, actual, cmdLen, before, clean>>
      /\ StartCycle(~protected, c)
  BY DEF sst_byte_write, Send
<1>2. CallTypes /\ Place /\ ChipReady BY DEF CallInv, Fine
<1>3. /\ call.op = "write" /\ part.driver = "sst" /\ call.off \in Nat
      /\ \/ at = call.off /\ actual = 1
         \/ at = call.off + actual
  BY <1>1, <1>2 DEF Place, ByteStages, CallTypes
<1>4. Chunk = 1 BY <1>1, <1>3 DEF Chunk, AAIStages
<1>5. (IF Leading THEN call.off ELSE call.off + actual) = at BY <1>3 DEF Leading
<1>6. Listens /\ wel /\ ~protected /\ aai = NoAAI
  BY <1>1, <1>2 DEF CallTypes, ChipReady, CmdStages, Listens
<1>7. /\ busy' = c /\ UNCHANGED <<mem, aai, protected>>
  BY <1>1, <1>6 DEF StartCycle
<1>8. /\ busy'.op = "program" /\ busy'.addr = at /\ busy'.n = Chunk
      /\ busy'.from = at /\ WIP'
  BY <1>4, <1>5, <1>7 DEF ProgramCycle, WIP
<1> QED BY <1>1, <1>3, <1>6, <1>7, <1>8, CycleStarts

\* And the words, whose address the chip keeps.
LEMMA WordKeeps ==
    ASSUME CallInv, PartKnown, CutInv, AAIWord
    PROVE  CallInv'
<1> SUFFICES ASSUME clean PROVE CallInv'
  BY DEF CallInv, AAIWord, Send
<1>1. /\ pc = "aaiWord" /\ pc' = "aaiPoll"
      /\ UNCHANGED <<chip, part, call, at, actual, cmdLen, before, clean>>
      /\ IF cmdLen = 4 THEN AAIFirst(at, call.off + actual)
                       ELSE AAINext(call.off + actual)
  BY DEF AAIWord, Send
<1>2. CallTypes /\ Place /\ ChipReady BY DEF CallInv, Fine
<1>3. /\ call.op = "write" /\ part.driver = "sst" /\ call.off \in Nat
      /\ actual \in Nat /\ at = call.off + actual
  BY <1>1, <1>2 DEF Place, AAIStages, CallTypes
<1>4. Chunk = 2 BY <1>1, <1>3 DEF Chunk, AAIStages
<1>5. /\ ~protected /\ ~WIP
      /\ \/ cmdLen = 4 /\ aai = NoAAI /\ wel
         \/ cmdLen = 1 /\ aai = at /\ aai # NoAAI
  BY <1>1, <1>2, <1>3 DEF CallTypes, ChipReady, NoAAI
<1>6. busy' = ProgramCycle(at, at, 2) /\ aai' = at + 2 /\ UNCHANGED <<mem, protected>>
  <2>1. CASE cmdLen = 4
    <3>1. Listens /\ wel BY <1>5, <2>1 DEF Listens
    <3> QED BY <1>1, <1>3, <1>5, <2>1, <3>1 DEF AAIFirst
  <2>2. CASE cmdLen = 1
    BY <1>1, <1>3, <1>5, <2>2 DEF AAINext
  <2> QED BY <1>5, <2>1, <2>2
<1>7. /\ busy'.op = "program" /\ busy'.addr = at /\ busy'.n = Chunk
      /\ busy'.from = at /\ WIP'
  BY <1>4, <1>6 DEF ProgramCycle, WIP
<1> QED BY <1>1, <1>3, <1>6, <1>7, CycleStarts

\* What a poll that sees the chip ready leaves of the invariant, but for where
\* the driver goes on.
LEMMA PollEnds ==
    ASSUME CallInv, clean, pc \in PollStages, ~WIP,
           UNCHANGED <<chip, chipVars, part, call, before, clean>>,
           pc' \in CallStages
    PROVE  /\ CallTypes /\ Place /\ ChipReady
           /\ ~WIP' /\ (pc # "aaiPoll" => Listens')
           /\ CallTypes' /\ CycleInRange' /\ Outside' /\ Clearable'
           /\ \A x \in Window : call.off <= x /\ x < at + Chunk => Good(x)'
<1>1. /\ CallTypes /\ CycleInRange /\ Outside /\ Clearable
      /\ Place /\ ChipReady /\ Progress
  BY DEF CallInv, Fine
<1>2. UNCHANGED <<mem, wel, busy, aai, protected>> BY DEF chipVars
<1>3. ~WIP' /\ (pc # "aaiPoll" => Listens')
  BY <1>1, <1>2 DEF WIP, Listens, ChipReady, NoAAI
<1>4. CallTypes' /\ CycleInRange' BY <1>1, <1>2, <1>3 DEF CallTypes, CycleInRange
<1>5. Outside' /\ Clearable' /\ \A x : Good(x)' <=> Good(x)
  BY <1>1, <1>2, MemoryKept
<1>6. Reached = at + Chunk /\ pc \in InCallStages
  BY DEF Reached, PollStages, InCallStages, EraseStages, WriteStages, ByteStages, AAIStages
<1>7. \A x \in Window : call.off <= x /\ x < at + Chunk => Good(x)
  BY <1>1, <1>6 DEF Progress
<1> QED BY <1>1, <1>3, <1>4, <1>5, <1>7

\* What is done behind a poll is what is done before the next command, or at
\* the end of the call.
LEMMA ProgressOn ==
    ASSUME CallTypes, UNCHANGED call, NEW m \in Int,
           \A x \in Window : call.off <= x /\ x < m => Good(x)',
           \/ pc' = "ready" /\ call.off + call.len <= m
           \/ pc' \in InCallStages \ PollStages /\ at' = m
    PROVE  Progress'
<1>1. CASE pc' = "ready" /\ call.off + call.len <= m
  <2>1. ASSUME NEW x \in Window, InCall(x)' PROVE call.off <= x /\ x < m
    <3>1. call.off <= x /\ x < call.off + call.len BY <2>1 DEF InCall
    <3>2. x \in Nat /\ call.off \in Nat /\ call.len \in Nat
      BY DriverAssumption DEF CallTypes
    <3> QED BY <1>1, <3>1, <3>2
  <2>2. pc' \notin InCallStages
    BY <1>1 DEF InCallStages, EraseStages, WriteStages, ByteStages, AAIStages
  <2> QED BY <1>1, <2>1, <2>2 DEF Progress
<1>2. CASE pc' \in InCallStages \ PollStages /\ at' = m
  <2>1. Reached' = m BY <1>2 DEF Reached
  <2>2. pc' # "ready"
    BY <1>2 DEF InCallStages, EraseStages, WriteStages, ByteStages, AAIStages
  <2> QED BY <1>2, <2>1, <2>2 DEF Progress
<1> QED BY <1>1, <1>2

\* From one sector to the next.
LEMMA ErasePollKeeps ==
    ASSUME CallInv, PartKnown, CutInv, ErasePoll
    PROVE  CallInv'
<1>1. /\ pc = "erasePoll"
      /\ UNCHANGED <<chip, chipVars, part, call, before, clean>>
      /\ \/ UNCHANGED <<pc, at, actual, cmdLen>>
         \/ pc' = "failed"
         \/ /\ ~WIP /\ at' = at + part.sector_size
            /\ pc' = IF at' < call.off + call.len THEN "eraseWREN" ELSE "ready"
            /\ UNCHANGED <<actual, cmdLen>>
  BY DEF ErasePoll, Poll, Fail
<1>2. CASE UNCHANGED <<pc, at, actual, cmdLen>> BY <1>1, <1>2, StutterKeeps
<1>3. CASE pc' = "failed" BY <1>1, <1>3, FailKeeps
<1>4. CASE /\ ~WIP /\ at' = at + part.sector_size
           /\ pc' = IF at' < call.off + call.len THEN "eraseWREN" ELSE "ready"
  <2> SUFFICES ASSUME clean PROVE Fine'
    BY <1>1 DEF CallInv
  <2>1. pc' \in {"eraseWREN", "ready"} /\ pc \in PollStages /\ pc' \in CallStages
    BY <1>1, <1>4 DEF PollStages, CallStages, InCallStages, EraseStages
  <2>2. /\ CallTypes /\ Place /\ ChipReady
        /\ ~WIP' /\ Listens'
        /\ CallTypes' /\ CycleInRange' /\ Outside' /\ Clearable'
        /\ \A x \in Window : call.off <= x /\ x < at + Chunk => Good(x)'
    BY <1>1, <1>4, <2>1, PollEnds
  <2>3. /\ call.op = "erase" /\ Chunk = part.sector_size
        /\ call.off % Chunk = 0 /\ call.len % Chunk = 0
    BY <1>1, <2>2 DEF Place, EraseStages, Chunk
  <2>4. /\ at \in Nat /\ Chunk \in SectorSizes /\ at % Chunk = 0
        /\ call.off <= at /\ at < call.off + call.len
        /\ call.off \in Nat /\ call.len \in Nat
    BY <1>1, <2>2, <2>3, ChunkFits DEF EraseStages, Place, CallTypes
  <2>5. (at + Chunk) % Chunk = 0 /\ Chunk \in Nat \ {0}
    BY <2>3, <2>4, NextSector
  <2>6. at' = at + Chunk BY <1>4, <2>3
  <2>7. Place'
    <3>1. pc' = "eraseWREN" => at' < call.off + call.len BY <1>4
    <3>2. at' \in Nat /\ call.off <= at' /\ at' % Chunk = 0 BY <2>4, <2>5, <2>6
    <3> QED
      BY <1>1, <2>1, <2>3, <3>1, <3>2 DEF Place, EraseStages, WriteStages, ByteStages, AAIStages
  <2>8. ChipReady' BY <2>1, <2>2 DEF ChipReady, WRENStages, CmdStages, PollStages
  <2>9. Progress'
    <3>1. \/ pc' = "ready" /\ call.off + call.len <= at + Chunk
          \/ pc' \in InCallStages \ PollStages /\ at' = at + Chunk
      BY <1>4, <2>4, <2>5, <2>6 DEF InCallStages, EraseStages, PollStages
    <3> QED BY <1>1, <2>2, <2>4, <2>5, <3>1, ProgressOn
  <2> QED BY <2>2, <2>7, <2>8, <2>9 DEF Fine
<1> QED BY <1>1, <1>2, <1>3, <1>4

\* From one page or chunk to the next.
LEMMA WritePollKeeps ==
    ASSUME CallInv, PartKnown, CutInv, WritePoll
    PROVE  CallInv'
<1>1. /\ pc = "writePoll"
      /\ UNCHANGED <<chip, chipVars, part, call, before, clean>>
      /\ \/ UNCHANGED <<pc, at, actual, cmdLen>>
         \/ pc' = "failed"
         \/ /\ ~WIP /\ at' = Step.next /\ actual' = actual + Step.len
            /\ pc' = IF actual' < call.len THEN "writeWREN" ELSE "ready"
  BY DEF WritePoll, Poll, Fail
<1>2. CASE UNCHANGED <<pc, at, actual, cmdLen>> BY <1>1, <1>2, StutterKeeps
<1>3. CASE pc' = "failed" BY <1>1, <1>3, FailKeeps
<1>4. CASE /\ ~WIP /\ at' = Step.next /\ actual' = actual + Step.len
           /\ pc' = IF actual' < call.len THEN "writeWREN" ELSE "ready"
  <2> SUFFICES ASSUME clean PROVE Fine'
    BY <1>1 DEF CallInv
  <2>1. pc' \in {"writeWREN", "ready"} /\ pc \in PollStages /\ pc' \in CallStages
    BY <1>1, <1>4 DEF PollStages, CallStages, InCallStages, WriteStages
  <2>2. /\ CallTypes /\ Place /\ ChipReady
        /\ ~WIP' /\ Listens'
        /\ CallTypes' /\ CycleInRange' /\ Outside' /\ Clearable'
        /\ \A x \in Window : call.off <= x /\ x < at + Chunk => Good(x)'
    BY <1>1, <1>4, <2>1, PollEnds
  <2>3. /\ call.op = "write" /\ part.driver # "sst" /\ part.driver \in Limited \cup Paged
        /\ call.off \in Nat /\ call.len \in Nat
    BY <1>1, <2>2 DEF Place, WriteStages, PartKnown, IsPart, Drivers, CallTypes
  <2>4. Chunk = Step.len BY <2>3 DEF Chunk
  <2>5. actual \in Nat /\ at = call.off + actual /\ Chunk \in Nat
    BY <1>1, <2>2, <2>3, ChunkFits DEF CutInv, WriteStages
  <2>6. pc' = "writeWREN" => at' = call.off + actual'
    <3>1. CutInv' BY <1>1, CutPoll
    <3> QED BY <1>1, <2>3, <3>1 DEF CutInv, WriteStages
  <2>7. Place'
    BY <1>1, <2>1, <2>3 DEF Place, EraseStages, WriteStages, ByteStages, AAIStages
  <2>8. ChipReady' BY <2>1, <2>2 DEF ChipReady, WRENStages, CmdStages, PollStages
  <2>9. Progress'
    <3>1. \/ pc' = "ready" /\ call.off + call.len <= at + Chunk
          \/ pc' \in InCallStages \ PollStages /\ at' = at + Chunk
      BY <1>4, <2>3, <2>4, <2>5, <2>6 DEF InCallStages, WriteStages, PollStages
    <3> QED BY <1>1, <2>2, <2>3, <2>5, <3>1, ProgressOn
  <2> QED BY <2>2, <2>7, <2>8, <2>9 DEF Fine
<1> QED BY <1>1, <1>2, <1>3, <1>4

\* Behind a single byte of an SST part: the words, or the end.
LEMMA BytePollKeeps ==
    ASSUME CallInv, PartKnown, CutInv, BytePoll
    PROVE  CallInv'
<1>1. /\ pc = "bytePoll"
      /\ UNCHANGED <<chip, chipVars, part, call, before, clean>>
      /\ \/ UNCHANGED <<pc, at, actual, cmdLen>>
         \/ pc' = "failed"
         \/ /\ ~WIP /\ UNCHANGED <<actual, cmdLen>>
            /\ IF Leading THEN at' = call.off + actual /\ pc' = "aaiWREN"
                          ELSE pc' = "ready" /\ UNCHANGED at
  BY DEF BytePoll, Poll, Fail
<1>2. CASE UNCHANGED <<pc, at, actual, cmdLen>> BY <1>1, <1>2, StutterKeeps
<1>3. CASE pc' = "failed" BY <1>1, <1>3, FailKeeps
<1>4. CASE /\ ~WIP /\ UNCHANGED <<actual, cmdLen>>
           /\ IF Leading THEN at' = call.off + actual /\ pc' = "aaiWREN"
                         ELSE pc' = "ready" /\ UNCHANGED at
  <2> SUFFICES ASSUME clean PROVE Fine'
    BY <1>1 DEF CallInv
  <2>1. pc' \in {"aaiWREN", "ready"} /\ pc \in PollStages /\ pc' \in CallStages
    BY <1>1, <1>4 DEF PollStages, CallStages, InCallStages, AAIStages
  <2>2. /\ CallTypes /\ Place /\ ChipReady
        /\ ~WIP' /\ Listens'
        /\ CallTypes' /\ CycleInRange' /\ Outside' /\ Clearable'
        /\ \A x \in Window : call.off <= x /\ x < at + Chunk => Good(x)'
    BY <1>1, <1>4, <2>1, PollEnds
  <2>3. /\ call.op = "write" /\ part.driver = "sst"
        /\ call.off \in Nat /\ call.len \in Nat \ {0}
        /\ \/ at = call.off /\ actual = 1 /\ call.off % 2 = 1 /\ cmdLen = 4
           \/ at = call.off + actual /\ actual = call.len - 1
    BY <1>1, <2>2 DEF Place, ByteStages, CallTypes
  <2>4. Chunk = 1 BY <1>1, <2>3 DEF Chunk, AAIStages
  <2>5. CASE at = call.off /\ actual = 1 /\ call.off % 2 = 1 /\ cmdLen = 4
    <3>1. at' = at + 1 /\ at' % 2 = 0 /\ pc' = "aaiWREN" /\ at' = call.off + actual
      BY <1>4, <2>3, <2>5 DEF Leading
    <3>2. Place'
      BY <1>1, <1>4, <2>3, <2>5, <3>1
         DEF Place, EraseStages, WriteStages, ByteStages, AAIStages
    <3>3. ChipReady'
      BY <1>4, <2>2, <2>5, <3>1 DEF ChipReady, WRENStages, CmdStages, PollStages
    <3>4. Progress'
      <4>1. pc' \in InCallStages \ PollStages /\ at' = at + Chunk /\ at + Chunk \in Int
        BY <2>3, <2>4, <2>5, <3>1 DEF InCallStages, AAIStages, PollStages
      <4> QED BY <1>1, <2>2, <4>1, ProgressOn
    <3> QED BY <2>2, <3>2, <3>3, <3>4 DEF Fine
  <2>6. CASE at = call.off + actual /\ actual = call.len - 1
    <3>1. pc' = "ready" /\ call.off + call.len <= at + Chunk /\ at + Chunk \in Int
      BY <1>4, <2>3, <2>4, <2>6 DEF Leading
    <3>2. Place' BY <3>1 DEF Place, EraseStages, WriteStages, ByteStages, AAIStages
    <3>3. ChipReady' BY <2>2, <3>1 DEF ChipReady, WRENStages, CmdStages, PollStages
    <3>4. Progress' BY <1>1, <2>2, <3>1, ProgressOn
    <3> QED BY <2>2, <3>2, <3>3, <3>4 DEF Fine
  <2> QED BY <2>3, <2>5, <2>6
<1> QED BY <1>1, <1>2, <1>3, <1>4

\* Behind a word: the next, or out of the mode.
LEMMA AAIPollKeeps ==
    ASSUME CallInv, PartKnown, CutInv, AAIPoll
    PROVE  CallInv'
<1>1. /\ pc = "aaiPoll"
      /\ UNCHANGED <<chip, chipVars, part, call, before, clean>>
      /\ \/ UNCHANGED <<pc, at, actual, cmdLen>>
         \/ pc' = "failed"
         \/ /\ ~WIP /\ cmdLen' = 1 /\ at' = at + 2 /\ actual' = actual + 2
            /\ pc' = IF actual' < call.len - 1 THEN "aaiWord" ELSE "aaiWRDI"
  BY DEF AAIPoll, Poll, Fail
<1>2. CASE UNCHANGED <<pc, at, actual, cmdLen>> BY <1>1, <1>2, StutterKeeps
<1>3. CASE pc' = "failed" BY <1>1, <1>3, FailKeeps
<1>4. CASE /\ ~WIP /\ cmdLen' = 1 /\ at' = at + 2 /\ actual' = actual + 2
           /\ pc' = IF actual' < call.len - 1 THEN "aaiWord" ELSE "aaiWRDI"
  <2> SUFFICES ASSUME clean PROVE Fine'
    BY <1>1 DEF CallInv
  <2>1. pc' \in {"aaiWord", "aaiWRDI"} /\ pc \in PollStages /\ pc' \in CallStages
    BY <1>1, <1>4 DEF PollStages, CallStages, InCallStages, AAIStages
  <2>2. /\ CallTypes /\ Place /\ ChipReady
        /\ ~WIP'
        /\ CallTypes' /\ CycleInRange' /\ Outside' /\ Clearable'
        /\ \A x \in Window : call.off <= x /\ x < at + Chunk => Good(x)'
    BY <1>1, <1>4, <2>1, PollEnds
  <2>3. /\ call.op = "write" /\ part.driver = "sst"
        /\ call.off \in Nat /\ call.len \in Nat \ {0}
        /\ actual \in Nat /\ at = call.off + actual /\ at % 2 = 0
        /\ actual < call.len - 1
    BY <1>1, <2>2 DEF Place, AAIStages, CallTypes
  <2>4. Chunk = 2 BY <1>1, <2>3 DEF Chunk, AAIStages
  <2>5. /\ actual' \in Nat /\ at' = call.off + actual' /\ at' % 2 = 0
        /\ actual' <= call.len
        /\ pc' = "aaiWord" => actual' < call.len - 1
        /\ pc' = "aaiWRDI" => actual' >= call.len - 1
    <3>1. actual' \in Nat /\ at' = call.off + actual' /\ actual' <= call.len
      BY <1>4, <2>3
    <3>2. at' % 2 = 0
      <4>1. at' = at + 2 /\ at \in Nat BY <1>4, <2>3
      <4> QED BY <2>3, <4>1
    <3>3. CASE actual' < call.len - 1
      <4>1. pc' = "aaiWord" BY <1>4, <3>3
      <4> QED BY <3>1, <3>2, <3>3, <4>1
    <3>4. CASE ~(actual' < call.len - 1)
      <4>1. pc' = "aaiWRDI" BY <1>4, <3>4
      <4> QED BY <2>3, <3>1, <3>2, <3>4, <4>1
    <3> QED BY <3>3, <3>4
  <2>6. Place'
    BY <1>1, <2>1, <2>3, <2>5 DEF Place, EraseStages, WriteStages, ByteStages, AAIStages
  <2>7. aai' = at'
    <3>1. aai = at + 2 BY <1>1, <2>2 DEF ChipReady
    <3>2. aai' = aai BY <1>1 DEF chipVars
    <3> QED BY <1>4, <3>1, <3>2
  <2>8. ChipReady'
    BY <1>4, <2>1, <2>2, <2>7 DEF ChipReady, WRENStages, CmdStages, PollStages
  <2>9. Progress'
    <3>1. pc' \in InCallStages \ PollStages /\ at' = at + Chunk /\ at + Chunk \in Int
      BY <1>4, <2>1, <2>3, <2>4 DEF InCallStages, AAIStages, PollStages
    <3> QED BY <1>1, <2>2, <3>1, ProgressOn
  <2> QED BY <2>2, <2>6, <2>8, <2>9 DEF Fine
<1> QED BY <1>1, <1>2, <1>3, <1>4

\* Out of the auto address increment mode, for the trailing byte or the end.
LEMMA AAIWRDIKeeps ==
    ASSUME CallInv, AAIWRDI
    PROVE  CallInv'
<1>1. /\ pc = "aaiWRDI" /\ pc' = AfterAAI /\ WriteDisable
      /\ UNCHANGED <<chip, part, call, at, actual, cmdLen, before, clean>>
  BY DEF AAIWRDI, Send
<1> SUFFICES ASSUME clean PROVE Fine'
  BY <1>1 DEF CallInv
<1>2. /\ CallTypes /\ CycleInRange /\ Outside /\ Clearable
      /\ Place /\ ChipReady /\ Progress
  BY DEF CallInv, Fine
<1>3. ~WIP BY <1>1, <1>2 DEF ChipReady
<1>4. aai' = NoAAI /\ UNCHANGED <<mem, busy, protected>> BY <1>1, <1>3 DEF WriteDisable
<1>5. Listens' /\ ~WIP' BY <1>3, <1>4 DEF Listens, WIP
<1>6. /\ call.op = "write" /\ part.driver = "sst"
      /\ actual \in Nat /\ at = call.off + actual
      /\ actual <= call.len /\ actual >= call.len - 1
      /\ call.off \in Nat /\ call.len \in Nat
  BY <1>1, <1>2 DEF Place, AAIStages, CallTypes
<1>7. \/ pc' = "byteWREN" /\ actual = call.len - 1
      \/ pc' = "ready" /\ actual = call.len
  <2>1. actual # call.len => actual = call.len - 1 BY <1>6
  <2> QED BY <1>1, <2>1, Zenon DEF AfterAAI
<1>8. CallTypes' /\ CycleInRange'
  BY <1>1, <1>2, <1>4, <1>5, <1>7
     DEF CallTypes, CycleInRange, CallStages, InCallStages, ByteStages
<1>9. Outside' /\ Clearable' /\ \A x : Good(x)' <=> Good(x)
  BY <1>1, <1>2, <1>4, MemoryKept
<1>10. Place'
  BY <1>1, <1>6, <1>7 DEF Place, EraseStages, WriteStages, ByteStages, AAIStages
<1>11. ChipReady' BY <1>5, <1>7 DEF ChipReady, WRENStages, CmdStages, PollStages
<1>12. Progress'
  <2>1. Reached = at /\ pc \in InCallStages
    BY <1>1 DEF Reached, PollStages, InCallStages, AAIStages
  <2>2. \A x \in Window : call.off <= x /\ x < at => Good(x)'
    BY <1>2, <1>9, <2>1 DEF Progress
  <2>3. \/ pc' = "ready" /\ call.off + call.len <= at
        \/ pc' \in InCallStages \ PollStages /\ at' = at
    BY <1>1, <1>6, <1>7 DEF InCallStages, ByteStages, PollStages
  <2> QED BY <1>1, <1>2, <1>6, <2>2, <2>3, ProgressOn
<1> QED BY <1>8, <1>9, <1>10, <1>11, <1>12 DEF Fine

\* A call begins with nothing done.
LEMMA BeginKeeps ==
    ASSUME PartKnown, NEW op \in {"erase", "write"}, NEW off \in Nat, NEW len \in Nat \ {0},
           Begin(op, off, len), pc' \in CallStages
    PROVE  /\ call' = [op |-> op, off |-> off, len |-> len] /\ at' = off
           /\ cmdLen' = 4 /\ part' = part /\ IsPart(part)
           /\ clean' => /\ Listens' /\ CallTypes' /\ CycleInRange'
                        /\ Outside' /\ Clearable'
           /\ pc' \in InCallStages \ PollStages => Progress'
           /\ pc' = "failed" => Progress'
<1>1. /\ call' = [op |-> op, off |-> off, len |-> len] /\ at' = off /\ cmdLen' = 4
      /\ UNCHANGED <<mem, wel, busy, aai, protected, part>>
      /\ before' = mem /\ clean' = (Listens /\ ~protected)
      /\ off + len <= part.size /\ pc = "ready"
  BY DEF Begin, chipVars
<1>2. IsPart(part) BY <1>1 DEF PartKnown
<1>3. call'.op = op /\ call'.off = off /\ call'.len = len BY <1>1
<1>4. ASSUME clean'
      PROVE  /\ Listens' /\ CallTypes' /\ CycleInRange' /\ Outside' /\ Clearable'
  <2>1. Listens /\ ~protected BY <1>1, <1>4
  <2>2. Listens' /\ ~WIP' BY <1>1, <2>1 DEF Listens, WIP
  <2>3. CallTypes' BY <1>1, <1>3, <2>1 DEF CallTypes
  <2>4. CycleInRange' BY <2>2 DEF CycleInRange
  <2>5. Outside' BY <1>1 DEF Outside
  <2>6. Clearable' BY <1>1 DEF Clearable, Writable
  <2> QED BY <2>2, <2>3, <2>4, <2>5, <2>6
<1>5. ASSUME pc' \in InCallStages \ PollStages PROVE Progress'
  <2>1. Reached' = off BY <1>1, <1>5 DEF Reached
  <2>2. pc' # "ready"
    BY <1>5 DEF InCallStages, EraseStages, WriteStages, ByteStages, AAIStages
  <2>3. \A x \in Window : x \in Nat BY DriverAssumption
  <2> QED BY <1>3, <2>1, <2>2, <2>3 DEF Progress
<1>6. ASSUME pc' = "failed" PROVE Progress'
  BY <1>6 DEF Progress, InCallStages, EraseStages, WriteStages, ByteStages, AAIStages
<1> QED BY <1>1, <1>2, <1>4, <1>5, <1>6

\* An erase is refused, or begins at a sector.
LEMMA BeginEraseKeeps ==
    ASSUME PartKnown, NEW off \in Nat, NEW len \in Nat \ {0}, BeginErase(off, len)
    PROVE  CallInv'
<1> SUFFICES ASSUME clean' PROVE Fine'
  BY DEF CallInv
<1>1. /\ Begin("erase", off, len)
      /\ \/ pc' = "failed"
         \/ /\ pc' = "eraseWREN"
            /\ off % part.sector_size = 0 /\ len % part.sector_size = 0
  BY DEF BeginErase, Fail
<1>2. pc' \in CallStages BY <1>1 DEF CallStages, InCallStages, EraseStages
<1>3. /\ call' = [op |-> "erase", off |-> off, len |-> len] /\ at' = off
      /\ cmdLen' = 4 /\ part' = part
      /\ Listens' /\ CallTypes' /\ CycleInRange' /\ Outside' /\ Clearable'
      /\ pc' \in InCallStages \ PollStages => Progress'
      /\ pc' = "failed" => Progress'
  BY <1>1, <1>2, BeginKeeps
<1>4. Progress'
  BY <1>1, <1>3 DEF InCallStages, EraseStages, PollStages
<1>5. Place'
  BY <1>1, <1>3 DEF Place, EraseStages, WriteStages, ByteStages, AAIStages
<1>6. ChipReady' BY <1>1, <1>3 DEF ChipReady, WRENStages, CmdStages, PollStages
<1> QED BY <1>3, <1>4, <1>5, <1>6 DEF Fine

\* A write begins with a page, or with the byte or the word of its address.
LEMMA BeginWriteKeeps ==
    ASSUME PartKnown, NEW off \in Nat, NEW len \in Nat \ {0}, BeginWrite(off, len)
    PROVE  CallInv'
<1> SUFFICES ASSUME clean' PROVE Fine'
  BY DEF CallInv
<1>1. /\ Begin("write", off, len)
      /\ \/ pc' = "writeWREN" /\ part.driver # "sst"
         \/ pc' = "byteWREN" /\ part.driver = "sst" /\ off % 2 = 1 /\ actual' = 1
         \/ pc' = "aaiWREN" /\ part.driver = "sst" /\ off % 2 = 0 /\ actual' = 0
  <2>1. off % 2 \in {0, 1} OBVIOUS
  <2> QED BY <2>1 DEF BeginWrite
<1>2. pc' \in {"writeWREN", "byteWREN", "aaiWREN"} BY <1>1
<1>3. pc' \in CallStages /\ pc' \in InCallStages \ PollStages
  BY <1>2 DEF CallStages, InCallStages, WriteStages, ByteStages, AAIStages, PollStages
<1>4. /\ call' = [op |-> "write", off |-> off, len |-> len] /\ at' = off
      /\ cmdLen' = 4 /\ part' = part
      /\ Listens' /\ CallTypes' /\ CycleInRange' /\ Outside' /\ Clearable'
      /\ Progress'
  BY <1>1, <1>3, BeginKeeps
<1>5. Place'
  BY <1>1, <1>4 DEF Place, EraseStages, WriteStages, ByteStages, AAIStages
<1>6. ChipReady' BY <1>2, <1>4 DEF ChipReady, WRENStages, CmdStages, PollStages
<1> QED BY <1>4, <1>5, <1>6 DEF Fine

-----------------------------------------------------------------------------
(* The calls of a session.                                                 *)

\* Before the first call none has found the chip ready.
EarlyInv == pc \in {"start", "sstEWSR", "sstWRSR", "is_locked", "reset", "lost"} => ~clean

\* What a session's calls rest on.
IInv == PartKnown /\ CutInv /\ EarlyInv /\ CallInv

\* At the start nothing is known of the part, and no call is made.
LEMMA InitCalls == Init => IInv
<1> SUFFICES ASSUME Init PROVE IInv
  OBVIOUS
<1>1. PartKnown BY DEF Init, PartKnown, PartIsChip
<1>2. EarlyInv /\ CallInv BY DEF Init, EarlyInv, CallInv
<1> QED BY <1>1, <1>2, CutInit DEF IInv

\* The part stays the one the probe has found.
LEMMA PartStep ==
    ASSUME PartKnown, [Next]_vars
    PROVE  PartKnown'
<1>1. CASE init_flash
  <2>1. /\ part' = spi_flash_probe(chip.id, chip.res) /\ chip' = chip
        /\ part'.driver = "none" => pc' = "reset"
    BY <1>1 DEF init_flash
  <2>2. CASE part' = NoPart
    <3>1. part'.driver = "none" BY <2>2 DEF NoPart
    <3> QED BY <2>1, <2>2, <3>1 DEF PartKnown, PartIsChip
  <2>3. CASE part' # NoPart
    <3>1. IsPart(part') BY <2>1, <2>3, ProbeFinds
    <3>2. /\ part'.size = chip.size
          /\ part'.sector_size = chip.block[EraseCommand(part'.driver)]
      BY <2>1, <2>3, PartFits DEF PartKnown
    <3> QED BY <2>1, <3>1, <3>2 DEF PartKnown, PartIsChip
  <2> QED BY <2>2, <2>3
<1>2. CASE ~init_flash
  <2>1. UNCHANGED <<chip, part>> /\ (pc \notin {"start", "reset"} \/ UNCHANGED pc)
    <3>1. CASE \/ SstEWSR \/ SstWRSR \/ EraseWREN \/ EraseCmd \/ WriteWREN \/ Program
               \/ ByteWREN \/ sst_byte_write \/ AAIWREN \/ AAIWord \/ AAIWRDI
      <4>1. /\ UNCHANGED <<chip, part>>
            /\ pc \in {"sstEWSR", "sstWRSR", "eraseWREN", "eraseCmd", "writeWREN",
                       "program", "byteWREN", "byteCmd", "aaiWREN", "aaiWord", "aaiWRDI"}
        BY <3>1 DEF SstEWSR, SstWRSR, EraseWREN, EraseCmd, WriteWREN, Program, ByteWREN,
                    sst_byte_write, AAIWREN, AAIWord, AAIWRDI, Send
      <4> QED BY <4>1
    <3>2. CASE ErasePoll \/ WritePoll \/ BytePoll \/ AAIPoll
      <4>1. /\ UNCHANGED <<chip, part>>
            /\ pc \in {"erasePoll", "writePoll", "bytePoll", "aaiPoll"}
        BY <3>2 DEF ErasePoll, WritePoll, BytePoll, AAIPoll, Poll
      <4> QED BY <4>1
    <3>3. CASE is_flash_locked
      BY <3>3 DEF is_flash_locked
    <3>4. CASE \/ \E e \in Erases : BeginErase(e[1], e[2])
               \/ \E w \in Writes : BeginWrite(w[1], w[2])
      BY <3>4 DEF BeginErase, BeginWrite, Begin
    <3>5. CASE ChipFinishes \/ Over \/ UNCHANGED vars
      BY <3>5 DEF ChipFinishes, Over, vars
    <3> QED BY <1>2, <3>1, <3>2, <3>3, <3>4, <3>5 DEF Next
  <2> QED BY <2>1 DEF PartKnown, PartIsChip
<1> QED BY <1>1, <1>2

\* No call is made before the session begins, and none behind it.
LEMMA EarlyStep ==
    ASSUME EarlyInv, [Next]_vars
    PROVE  EarlyInv'
<1> DEFINE Early == {"start", "sstEWSR", "sstWRSR", "is_locked", "reset", "lost"}
<1>1. CASE init_flash \/ SstEWSR \/ SstWRSR \/ is_flash_locked
  <2>1. pc \in Early /\ clean' = clean
    BY <1>1 DEF init_flash, SstEWSR, SstWRSR, is_flash_locked, Send
  <2> QED BY <2>1 DEF EarlyInv
<1>2. CASE UNCHANGED <<pc, clean>> BY <1>2 DEF EarlyInv
<1>3. CASE pc' \notin Early BY <1>3 DEF EarlyInv
<1>4. CASE EraseWREN \/ EraseCmd \/ WriteWREN \/ Program
  <2>1. pc' \in {"eraseCmd", "erasePoll", "program", "writePoll"}
    BY <1>4 DEF EraseWREN, EraseCmd, WriteWREN, Program, Send
  <2> QED BY <1>3, <2>1
<1>5. CASE ByteWREN \/ sst_byte_write \/ AAIWREN \/ AAIWord \/ AAIWRDI
  <2>1. pc' \in {"byteCmd", "bytePoll", "aaiWord", "aaiWRDI", "aaiPoll", "byteWREN", "ready"}
    BY <1>5 DEF ByteWREN, sst_byte_write, AAIWREN, AAIWord, AAIWRDI, Send, AAIWords, AfterAAI
  <2> QED BY <1>3, <2>1
<1>6. CASE ErasePoll \/ WritePoll \/ BytePoll \/ AAIPoll
  <2>1. \/ UNCHANGED <<pc, clean>>
        \/ pc' \in {"failed", "eraseWREN", "writeWREN", "aaiWREN", "ready", "aaiWord", "aaiWRDI"}
    BY <1>6 DEF ErasePoll, WritePoll, BytePoll, AAIPoll, Poll, Fail
  <2> QED BY <1>2, <1>3, <2>1
<1>7. CASE \E e \in Erases : BeginErase(e[1], e[2])
  <2>1. pc' \in {"failed", "eraseWREN"} BY <1>7 DEF BeginErase, Fail
  <2> QED BY <1>3, <2>1
<1>8. CASE \E w \in Writes : BeginWrite(w[1], w[2])
  <2>1. pc' \in {"writeWREN", "byteWREN", "aaiWREN"} BY <1>8 DEF BeginWrite
  <2> QED BY <1>3, <2>1
<1>9. CASE ChipFinishes \/ Over \/ UNCHANGED vars
  BY <1>2, <1>9 DEF ChipFinishes, Over, vars
<1> QED BY <1>1, <1>4, <1>5, <1>6, <1>7, <1>8, <1>9 DEF Next

\* Every step of a call, and every step between calls, keeps what they rest on.
LEMMA CallStep ==
    ASSUME PartKnown, CutInv, EarlyInv, CallInv, [Next]_vars
    PROVE  CallInv'
<1>1. CASE init_flash \/ SstEWSR \/ SstWRSR \/ is_flash_locked
  <2>1. /\ pc \in {"start", "sstEWSR", "sstWRSR", "is_locked"} /\ clean' = clean
    BY <1>1 DEF init_flash, SstEWSR, SstWRSR, is_flash_locked, Send
  <2> QED BY <2>1 DEF EarlyInv, CallInv
<1>2. CASE \E e \in Erases : BeginErase(e[1], e[2])
  <2>1. PICK e \in Erases : BeginErase(e[1], e[2]) BY <1>2
  <2>2. e[1] \in Nat /\ e[2] \in Nat \ {0} BY DriverAssumption
  <2> QED BY <2>1, <2>2, BeginEraseKeeps
<1>3. CASE \E w \in Writes : BeginWrite(w[1], w[2])
  <2>1. PICK w \in Writes : BeginWrite(w[1], w[2]) BY <1>3
  <2>2. w[1] \in Nat /\ w[2] \in Nat \ {0} BY DriverAssumption
  <2> QED BY <2>1, <2>2, BeginWriteKeeps
<1>4. CASE Over \/ UNCHANGED vars
  BY <1>4, StutterKeeps DEF Over, vars
<1> QED
  BY <1>1, <1>2, <1>3, <1>4, FinishKeeps, WRENKeeps, EraseCmdKeeps, ProgramKeeps,
     ByteKeeps, WordKeeps, ErasePollKeeps, WritePollKeeps, BytePollKeeps, AAIPollKeeps,
     AAIWRDIKeeps DEF Next

\* All of it together.
LEMMA CallsHold == Spec => []IInv
<1>1. IInv /\ [Next]_vars => IInv'
  BY PartStep, CutStep, EarlyStep, CallStep DEF IInv
<1> QED BY <1>1, InitCalls, PTL DEF Spec

\* Whatever the part answers to RDID and RES, the driver that takes it for one
\* of its table has its size right, and sends it the opcode that erases a sector
\* as the driver counts them: PartIsChip.
THEOREM PartsAreChips == Spec => []PartIsChip
<1>1. IInv => PartIsChip BY DEF IInv, PartKnown
<1> QED BY <1>1, CallsHold, PTL

\* A call that returns 0 has done all of it and leaves the chip ready, for every
\* driver, offset and length: CallIsExact.
THEOREM CallsAreExact == Spec => []CallIsExact
<1>1. IInv => CallIsExact
  <2> SUFFICES ASSUME IInv, pc = "ready", clean PROVE CallIsExact
    BY DEF CallIsExact
  <2>1. ChipReady /\ Progress BY DEF IInv, CallInv, Fine
  <2>2. Listens BY <2>1 DEF ChipReady
  <2>3. \A x \in Window : InCall(x) => Good(x) BY <2>1 DEF Progress
  <2> QED BY <2>2, <2>3 DEF CallIsExact, Good
<1> QED BY <1>1, CallsHold, PTL

\* No byte outside of its range changes while a call runs, whether it succeeds,
\* is refused or fails: CallStaysInRange.
THEOREM CallsStayInRange == Spec => []CallStaysInRange
<1>1. IInv => CallStaysInRange
  BY DEF IInv, CallInv, Fine, Outside, CallStaysInRange
<1> QED BY <1>1, CallsHold, PTL
=============================================================================

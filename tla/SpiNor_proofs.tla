---------------------------- MODULE SpiNor_proofs ---------------------------
(***************************************************************************)
(* What every program beside the chip of SpiNor needs to know of it: its   *)
(* commands, the end of a cycle and a power failure keep the chip's types. *)
(***************************************************************************)
EXTENDS SpiNor, TLAPS

\* The fixed contents and the idle cycle have their types.
LEMMA ChipConstants ==
    /\ Erased \in Content
    /\ Damaged \in Content
    /\ Idle \in Cycle
BY DEF Erased, Damaged, Content, StatusRegister, Idle, Cycle

\* So have the cycles the commands start.
LEMMA CycleTypes ==
    /\ \A s \in Nat : EraseCycle(s) \in Cycle
    /\ \A s, w \in Nat, c \in Content : ProgramCycle(s, w, c) \in Cycle
    /\ \A r \in StatusRegister : WrsrCycle(r) \in Cycle
BY ChipConstants DEF EraseCycle, ProgramCycle, WrsrCycle, Cycle, Idle

\* A command that starts a well-typed cycle leaves a well-typed chip.
LEMMA StartCycleTypes ==
    ASSUME ChipTypeOK, NEW accepted \in BOOLEAN, NEW c \in Cycle,
           StartCycle(accepted, c)
    PROVE  ChipTypeOK'
BY DEF ChipTypeOK, StartCycle, WIP

\* A register write adds lock bits of the security registers to what was sent,
\* and changes no other bit of it.
LEMMA LatchedBits ==
    ASSUME NEW r \in StatusRegister
    PROVE  /\ Latched(r) \in StatusRegister
           /\ \A b : b \notin LBBits => (b \in Latched(r) <=> b \in r)
BY DEF Latched, StatusRegister, SR2Bits

\* Protection is decided by other bits.
LEMMA LatchedProtects ==
    ASSUME NEW r \in StatusRegister, NEW s
    PROVE  Protected(Latched(r), s) <=> Protected(r, s)
<1>1. \A b \in {"CMP", "TB", "SEC", "BP2", "BP1", "BP0"} :
          b \in Latched(r) <=> b \in r
  BY LatchedBits DEF LBBits
<1>2. \A v : \A b \in {"BP2", "BP1", "BP0"} : Bit(Latched(r), b, v) = Bit(r, b, v)
  BY <1>1 DEF Bit
<1>3. BP(Latched(r)) = BP(r) BY <1>2 DEF BP
<1>4. Span(Latched(r)) = Span(r) BY <1>1, <1>3 DEF Span
<1> QED BY <1>1, <1>4 DEF Protected

\* The end of a cycle keeps the types of the chip.
LEMMA CycleEndsTypes == ChipTypeOK /\ CycleEnds => ChipTypeOK'
<1> SUFFICES ASSUME ChipTypeOK, CycleEnds PROVE ChipTypeOK' OBVIOUS
<1>1. busy \in Cycle BY DEF ChipTypeOK
<1>2. mem' \in [Window -> [Word -> Content]]
  <2>1. CASE busy.op = "erase"
    BY <2>1, ChipConstants DEF CycleEnds, ChipTypeOK
  <2>2. CASE busy.op = "program"
    <3>1. busy.content \in Content BY <1>1 DEF Cycle
    <3>2. \A old : Programmed(old, busy.content) \in Content
      BY <3>1, ChipConstants DEF Programmed
    <3> QED BY <2>2, <3>2 DEF CycleEnds, ChipTypeOK
  <2>3. CASE busy.op = "wrsr"
    BY <2>3 DEF CycleEnds, ChipTypeOK
  <2> QED BY <1>1, <2>1, <2>2, <2>3 DEF CycleEnds, WIP, Cycle
<1>3. sr' \in StatusRegister
  BY <1>1, LatchedBits DEF CycleEnds, ChipTypeOK, Cycle
<1> QED BY <1>2, <1>3, ChipConstants DEF CycleEnds, ChipTypeOK

\* A power cycle does too.
LEMMA PowerCycleTypes == ChipTypeOK /\ PowerCycle => ChipTypeOK'
<1> SUFFICES ASSUME ChipTypeOK, PowerCycle PROVE ChipTypeOK' OBVIOUS
<1>1. busy \in Cycle /\ busy.content \in Content /\ busy.reg \in StatusRegister
  BY DEF ChipTypeOK, Cycle
<1>2. \A r \in StatusRegister : AtPowerUp(r) \in StatusRegister
  BY DEF AtPowerUp, StatusRegister
<1>3. sr' \in StatusRegister
  BY <1>1, <1>2, LatchedBits DEF PowerCycle, ChipTypeOK
<1>4. mem' \in [Window -> [Word -> Content]]
  <2>1. CASE mem' = mem BY <2>1 DEF ChipTypeOK
  <2>2. ASSUME NEW hit \in SUBSET Word,
               mem' = [mem EXCEPT ![busy.sector] =
                          [w \in Word |-> IF w \in hit THEN Damaged ELSE @[w]]]
        PROVE  mem' \in [Window -> [Word -> Content]]
    BY <2>2, ChipConstants DEF ChipTypeOK
  <2>3. ASSUME NEW c \in {Damaged, mem[busy.sector][busy.word], busy.content},
               mem' = [mem EXCEPT ![busy.sector][busy.word] = c]
        PROVE  mem' \in [Window -> [Word -> Content]]
    BY <2>3, <1>1, ChipConstants DEF ChipTypeOK
  <2> QED BY <2>1, <2>2, <2>3 DEF PowerCycle
<1> QED BY <1>3, <1>4, ChipConstants DEF PowerCycle, ChipTypeOK

\* WREN and WRDI only move the latch.
LEMMA LatchTypes == ChipTypeOK /\ (WriteEnable \/ WriteDisable) => ChipTypeOK'
BY DEF ChipTypeOK, WriteEnable, WriteDisable, WIP

\* The fields of the cycles the program starts.
LEMMA CycleFields ==
    /\ Idle.op = "idle"
    /\ \A s : EraseCycle(s).op = "erase" /\ EraseCycle(s).sector = s
    /\ \A s, w, c : /\ ProgramCycle(s, w, c).op = "program"
                    /\ ProgramCycle(s, w, c).sector = s
                    /\ ProgramCycle(s, w, c).word = w
                    /\ ProgramCycle(s, w, c).content = c
    /\ \A r : WrsrCycle(r).op = "wrsr" /\ WrsrCycle(r).reg = r
BY DEF Idle, EraseCycle, ProgramCycle, WrsrCycle
=============================================================================

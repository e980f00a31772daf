------------------------------- MODULE SpiNor -------------------------------
(***************************************************************************)
(* The serial NOR flash the boot firmware and the bootorder file live in,  *)
(* as seen through the commands that src/spi sends it.  The chip is        *)
(* outside the repository: every operator here is external, and stands for *)
(* what the drivers rely on (commands are ignored while a self-timed cycle *)
(* runs, a write needs WREN first, programming only clears bits, protected *)
(* sectors refuse erase and program without telling).                      *)
(***************************************************************************)
EXTENDS Integers

CONSTANTS
    SectorWords,   \* 32-bit words in one erase sector (1024 on the chip)
    FlashSectors,  \* erase sectors of the chip (2048 on a W25Q64)
    Window         \* the sectors whose content the model keeps; the security
                   \* registers 1 to 3 lie behind the array as sectors

ASSUME GeometryAssumption ==
    /\ SectorWords \in Nat \ {0}
    /\ FlashSectors \in Nat \ {0}
    /\ Window \subseteq 0..(FlashSectors + 2)

VARIABLES
    mem,   \* sector -> word -> content
    sr,    \* the non-volatile bits of status registers 1 and 2
    wel,   \* the write enable latch
    busy,  \* the self-timed cycle in progress
    wpLow  \* the WP# pin is asserted (the board's BIOS WP jumper)

chipVars == <<mem, sr, wel, busy, wpLow>>

Word == 0..(SectorWords - 1)

(***************************************************************************)
(* A word of flash is a pair: <<v, w>> with v > 0 is word w of the file    *)
(* version v.  The other three contents carry a negative tag.              *)
(***************************************************************************)
Erased  == <<-1, 0>>   \* 0xFFFFFFFF
Damaged == <<-2, 0>>   \* two programs over each other, or an interrupted cycle
Junk    == <<-3, 0>>   \* stack bytes written behind the file's last byte

Content == (Int \X Nat)

(***************************************************************************)
(* The non-volatile bits of the two status registers, as the set of those  *)
(* that are 1.  The four protection bits BP3..BP0 of a Macronix part stand *)
(* here as three.                                                          *)
(***************************************************************************)
SR1Bits == {"SRP0", "SEC", "TB", "BP2", "BP1", "BP0"}
LBBits == {"LB1", "LB2", "LB3"}
SR2Bits == {"SRP1", "CMP"} \cup LBBits
StatusRegister == SUBSET (SR1Bits \cup SR2Bits)

(***************************************************************************)
(* Self-timed cycles.  All four are records of one shape so that a cycle   *)
(* can be compared with any other.                                         *)
(***************************************************************************)
Cycle == [op: {"idle", "erase", "program", "wrsr"},
          sector: Nat, word: Nat, content: Content, reg: StatusRegister]

Idle == [op |-> "idle", sector |-> 0, word |-> 0, content |-> Erased,
         reg |-> {}]
EraseCycle(s)         == [Idle EXCEPT !.op = "erase", !.sector = s]
ProgramCycle(s, w, c) == [Idle EXCEPT !.op = "program", !.sector = s,
                                      !.word = w, !.content = c]
WrsrCycle(r)          == [Idle EXCEPT !.op = "wrsr", !.reg = r]

(***************************************************************************)
(* The block protection table of the part: how many sectors SEC and BP     *)
(* select, at the end TB names, complemented by CMP.  It is the table the  *)
(* lock menu prints from (src/utils/spi_lock_menu.c:55-218).               *)
(***************************************************************************)
Bit(r, b, value) == IF b \in r THEN value ELSE 0
BP(r) == Bit(r, "BP2", 4) + Bit(r, "BP1", 2) + Bit(r, "BP0", 1)

Span(r) ==
    CASE BP(r) = 0                        -> 0
      [] BP(r) = 7                        -> FlashSectors
      [] BP(r) \in 1..6 /\ "SEC" \in r    -> IF BP(r) > 4 THEN 8 ELSE 2 ^ (BP(r) - 1)
      [] BP(r) \in 1..6 /\ "SEC" \notin r -> (FlashSectors * 2 ^ (BP(r) - 1)) \div 64

Protected(r, s) ==
    LET inSpan == IF "TB" \in r THEN s < Span(r) ELSE s >= FlashSectors - Span(r)
    IN  ("CMP" \in r) # inSpan

\* SRP1 locks the registers until the next power-up; SRP0 hands them to WP#.
RegistersWritable == "SRP1" \notin sr /\ ("SRP0" \in sr => ~wpLow)

WIP == busy.op # "idle"

\* Security register n is locked by LBn, for good.
SecurityRegister(n) == FlashSectors + n - 1
LockBit == [n \in 1..3 |-> IF n = 1 THEN "LB1" ELSE IF n = 2 THEN "LB2" ELSE "LB3"]

-----------------------------------------------------------------------------
(* Commands.  Each is one transfer; RDSR1 and RDSR2 change nothing and are *)
(* read through sr and WIP.                                                *)

WriteEnable ==
    /\ wel' = (wel \/ ~WIP)
    /\ UNCHANGED <<mem, sr, busy, wpLow>>

WriteDisable ==
    /\ wel' = (wel /\ WIP)
    /\ UNCHANGED <<mem, sr, busy, wpLow>>

\* A command that starts cycle c when the chip is able to, and is ignored
\* otherwise.  A refused command still drops the latch.
StartCycle(accepted, c) ==
    /\ busy' = IF ~WIP /\ wel /\ accepted THEN c ELSE busy
    /\ wel' = (wel /\ (WIP \/ accepted))
    /\ UNCHANGED <<mem, sr, wpLow>>

SectorErase(s)       == StartCycle(~Protected(sr, s), EraseCycle(s))
PageProgram(s, w, c) == StartCycle(~Protected(sr, s), ProgramCycle(s, w, c))
WriteStatus(r)       == StartCycle(RegistersWritable, WrsrCycle(r))

SecErase(n)      == StartCycle(LockBit[n] \notin sr, EraseCycle(SecurityRegister(n)))
SecProgram(n, c) == StartCycle(LockBit[n] \notin sr,
                               ProgramCycle(SecurityRegister(n), 0, c))

\* What a register write leaves: the lock bits LB1 to LB3 are never cleared.
Latched(r) == r \cup (sr \cap LBBits)

\* Programming can only clear bits: over anything but an erased word, or the
\* same content, it leaves neither the old word nor the new one.
Programmed(old, new) == IF old \in {Erased, new} THEN new ELSE Damaged

\* The self-timed cycle ends: its effect appears and the latch is cleared.
CycleEnds ==
    /\ WIP
    /\ mem' = CASE busy.op = "erase" ->
                     [mem EXCEPT ![busy.sector] = [w \in Word |-> Erased]]
                [] busy.op = "program" ->
                     [mem EXCEPT ![busy.sector][busy.word] =
                         Programmed(@, busy.content)]
                [] busy.op = "wrsr" -> mem
    /\ sr' = IF busy.op = "wrsr" THEN Latched(busy.reg) ELSE sr
    /\ busy' = Idle
    /\ wel' = FALSE
    /\ UNCHANGED wpLow

\* Power supply lock-down (SRP1 without SRP0) ends with the supply.
AtPowerUp(r) == IF "SRP0" \in r THEN r ELSE r \ {"SRP1"}

\* Power is lost and comes back.  An interrupted erase or program leaves some
\* of its words damaged, an interrupted WRSR either register.
PowerCycle ==
    /\ \/ ~WIP /\ sr' = AtPowerUp(sr) /\ mem' = mem
       \/ /\ busy.op = "erase"
          /\ \E hit \in SUBSET Word :
                mem' = [mem EXCEPT ![busy.sector] =
                           [w \in Word |-> IF w \in hit THEN Damaged ELSE @[w]]]
          /\ sr' = AtPowerUp(sr)
       \/ /\ busy.op = "program"
          /\ \E c \in {Damaged, mem[busy.sector][busy.word], busy.content} :
                mem' = [mem EXCEPT ![busy.sector][busy.word] = c]
          /\ sr' = AtPowerUp(sr)
       \/ /\ busy.op = "wrsr"
          /\ sr' \in {AtPowerUp(sr), AtPowerUp(Latched(busy.reg))}
          /\ mem' = mem
    /\ busy' = Idle
    /\ wel' = FALSE
    /\ wpLow' \in BOOLEAN

ChipTypeOK ==
    /\ mem \in [Window -> [Word -> Content]]
    /\ sr \in StatusRegister
    /\ wel \in BOOLEAN
    /\ busy \in Cycle
    /\ wpLow \in BOOLEAN
=============================================================================

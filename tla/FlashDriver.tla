----------------------------- MODULE FlashDriver -----------------------------
(***************************************************************************)
(* What spi_flash_probe, spi_flash_erase and spi_flash_write do for every  *)
(* flash driver of src/spi, one action per SPI command, beside a chip that *)
(* is kept byte by byte at the addresses of a window.                      *)
(*                                                                         *)
(* Calls are those of the drivers' interface; save_flash makes the erase   *)
(* of 4096 bytes and the writes of 4.  A call that fails ends the session: *)
(* save_flash returns and main resets the board.  Locks, power and faster  *)
(* answers of the chip than of the poll are the subject of SaveFlash.      *)
(***************************************************************************)
EXTENDS FlashParts

CONSTANTS
    Chips,     \* [id, res: answers of the part; size; block: opcode -> bytes it
               \*  erases, 0 for none; protects: it powers up write protected]
    Window,    \* the addresses whose content the model keeps
    InitialMem,\* content of the window
    Writes,    \* offset and length of the writes
    Erases,    \* and of the erases
    MaxCalls,  \* bound: calls in a session
    MaxPolls   \* bound: status reads behind the first (timeout * 500)

VARIABLES
    chip,       \* the part that is fitted
    mem,        \* address -> byte
    wel,        \* write enable latch
    busy,       \* the self-timed cycle
    aai,        \* where an auto address increment program goes on, or NoAAI
    protected,  \* the block protection bits are set
    pc,
    part,       \* flash_device
    call,       \* the call: write or erase, its offset and length
    at,         \* offset, or page_addr and byte_addr, as they are counted on
    actual,     \* bytes of the buffer already sent
    cmdLen,     \* cmd_len of sst_write
    polls,      \* what is left of timebase
    calls,
    before,     \* history: mem when the call began
    clean       \* history: the chip was ready then

chipVars == <<mem, wel, busy, aai, protected>>
vars == <<chip, chipVars, pc, part, call, at, actual, cmdLen, polls, calls,
          before, clean>>

(***************************************************************************)
(* The byte for address a of the caller's image is the number a, so that a *)
(* byte in the wrong place can be told.                                    *)
(***************************************************************************)
Erased == -1
Other  == -2   \* what was there before
Bad    == -3   \* two programs over each other

NoAAI == -1
Opcodes == {\h20, \hd8}

ASSUME DriverAssumption ==
    /\ Chips # {}
    /\ \A c \in Chips : /\ c.id \in [1..5 -> 0..255] /\ c.res \in [1..4 -> 0..255]
                        /\ c.size \in Nat /\ c.protects \in BOOLEAN
                        /\ c.block \in [Opcodes -> Nat]
    /\ Window \subseteq Nat
    /\ InitialMem \in [Window -> {Erased, Other}]
    /\ Writes \cup Erases \subseteq Nat \X (Nat \ {0})
    /\ MaxCalls \in Nat /\ MaxPolls \in Nat

(***************************************************************************)
(* What the data sheets say of the parts the drivers are for: the size an  *)
(* id stands for, mostly a power of two, and what the two erase opcodes    *)
(* erase.  Where a driver looks at the code alone, it is said of all types *)
(* of the maker.                                                           *)
(***************************************************************************)
PowerOfTwoTypes ==
    {<<\hef, \h30>>, <<\hef, \h40>>, <<\hc2, \h20>>, <<\hc2, \h26>>, <<\hc2, \h5e>>,
     <<\hc8, \h40>>, <<\hc8, \h60>>, <<\h1f, \h42>>, <<\h1f, \h32>>, <<1, \h20>>}

\* SST: code and KiB.
SstSizes == {<<\h8d, 512>>, <<\h8e, 1024>>, <<\h41, 2048>>, <<\h4a, 4096>>,
             <<\h4b, 8192>>, <<1, 64>>, <<2, 128>>, <<3, 256>>, <<4, 512>>}

StSector(code) == IF code = \h11 THEN 32768 ELSE IF code = \h18 THEN 262144 ELSE 65536

\* The size is a power of two, in blocks of 2^16 bytes.
SizeIs(c, power) == power \in 16..24 => c.size = 65536 * 2^(power - 16)

DataSheet(c) ==
    LET maker == c.id[1]
        type  == c.id[2]
        code  == c.id[3]
    IN  /\ maker \in {\h1c, \h20} \/ <<maker, type>> \in PowerOfTwoTypes => SizeIs(c, code)
        /\ maker = 1 /\ type = 2 => SizeIs(c, code + 1)
        /\ maker = \h1f /\ type \notin {\h42, \h32} => SizeIs(c, 15 + (type % 32))
        /\ maker = \hbf => \A e \in SstSizes : e[1] = code => c.size = e[2] * 1024
        /\ maker \in {\hef, \hc2, \hc8, \h1f, \hbf} => c.block[\h20] = 4096
        /\ maker = \h1c => c.block[\hd8] = 65536
        /\ maker = 1 => c.block[\hd8] = IF <<type, c.id[4], c.id[5]>> = <<\h20, 3, 0>>
                                        THEN 262144 ELSE 65536
        /\ maker = \h20 => c.block[\hd8] = StSector(code)
        \* The older parts of ST know RES only: the signature is the code less one.
        /\ maker = \hff /\ c.res[4] \div 16 = 1 =>
              SizeIs(c, c.res[4] + 1) /\ c.block[\hd8] = StSector(c.res[4] + 1)

ASSUME DataSheetAssumption == \A c \in Chips : DataSheet(c)

-----------------------------------------------------------------------------
(* The chip.                                                               *)

Idle == [op |-> "idle", addr |-> 0, from |-> 0, n |-> 0]
ProgramCycle(addr, from, n) == [op |-> "program", addr |-> addr, from |-> from, n |-> n]
EraseCycle(addr, n)         == [op |-> "erase", addr |-> addr, from |-> 0, n |-> n]
WrsrCycle                   == [Idle EXCEPT !.op = "wrsr"]

WIP == busy.op # "idle"
Listens == ~WIP /\ aai = NoAAI

\* WREN, and EWSR of SST parts.
WriteEnable ==
    /\ wel' = (wel \/ Listens)
    /\ UNCHANGED <<mem, busy, aai, protected>>

StartCycle(accepted, c) ==
    /\ busy' = IF Listens /\ wel /\ accepted THEN c ELSE busy
    /\ UNCHANGED <<mem, wel, aai, protected>>

\* AAI word program with an address.  A part that is in the mode already
\* would take the address for data.
AAIFirst(addr, from) ==
    IF Listens /\ wel /\ ~protected
    THEN /\ busy' = ProgramCycle(addr, from, 2)
         /\ aai' = addr + 2
         /\ UNCHANGED <<mem, wel, protected>>
    ELSE UNCHANGED chipVars

AAINext(from) ==
    IF ~WIP /\ aai # NoAAI
    THEN /\ busy' = ProgramCycle(aai, from, 2)
         /\ aai' = aai + 2
         /\ UNCHANGED <<mem, wel, protected>>
    ELSE UNCHANGED chipVars

WriteDisable ==
    IF WIP THEN UNCHANGED chipVars
    ELSE wel' = FALSE /\ aai' = NoAAI /\ UNCHANGED <<mem, busy, protected>>

\* A page program wraps at the end of its page of 256 bytes.
Programmed(x) ==
    LET i == (x - busy.addr) % 256
    IN  IF x \div 256 # busy.addr \div 256 \/ i >= busy.n THEN mem[x]
        ELSE IF mem[x] \in {Erased, busy.from + i} THEN busy.from + i ELSE Bad

ChipFinishes ==
    /\ WIP
    /\ mem' = [x \in Window |->
                 CASE busy.op = "program" -> Programmed(x)
                   [] busy.op = "erase" /\ x \div busy.n = busy.addr \div busy.n -> Erased
                   [] OTHER -> mem[x]]
    /\ protected' = (protected /\ busy.op # "wrsr")
    /\ busy' = Idle
    /\ wel' = (aai # NoAAI)
    /\ UNCHANGED <<chip, aai, pc, part, call, at, actual, cmdLen, polls, calls,
                   before, clean>>

-----------------------------------------------------------------------------
(* The controller: at most 71 bytes behind the opcode, and 68 back.        *)

check_readwritecnt(writecnt, readcnt) == IF writecnt > 71 \/ readcnt > 68 THEN 1 ELSE 0

\* Send a command of n bytes, opcode included, that does sent to the chip.  The
\* result is 0 or 1, never below zero; the commands that can be too long are the
\* page programs, whose callers test for < 0: what follows is the same.
spi_xfer(n, sent) ==
    IF check_readwritecnt(n - 1, 0) = 0 THEN sent ELSE UNCHANGED chipVars

\* spi_flash_cmd_poll_bit.
Poll(ready, timedOut) ==
    /\ \/ WIP /\ polls > 0 /\ polls' = polls - 1
          /\ UNCHANGED <<pc, at, actual, cmdLen>>
       \/ WIP /\ polls = 0 /\ timedOut /\ UNCHANGED <<polls, at, actual, cmdLen>>
       \/ ~WIP /\ ready /\ UNCHANGED polls
    /\ UNCHANGED <<chip, chipVars, part, call, calls, before, clean>>

Fail == pc' = "failed"

\* One command and nothing else.
Send(from, to, cmd) ==
    /\ pc = from
    /\ cmd
    /\ pc' = to
    /\ UNCHANGED <<chip, part, call, at, actual, cmdLen, calls, before, clean>>

-----------------------------------------------------------------------------
Init ==
    /\ chip \in Chips
    /\ mem = InitialMem
    /\ wel = FALSE
    /\ busy = Idle
    /\ aai = NoAAI
    /\ protected = chip.protects
    /\ pc = "start"
    /\ part = NoPart
    /\ call = [op |-> "none", off |-> 0, len |-> 0]
    /\ at = 0
    /\ actual = 0
    /\ cmdLen = 4
    /\ polls = 0
    /\ calls = 0
    /\ before = mem
    /\ clean = FALSE

\* init_flash; without a part main resets the board.
init_flash ==
    /\ pc = "start"
    /\ part' = spi_flash_probe(chip.id, chip.res)
    /\ pc' = CASE part'.driver = "none" -> "reset"
               [] part'.driver = "sst"  -> "sstEWSR"
               [] OTHER                 -> "is_locked"
    /\ UNCHANGED <<chip, chipVars, call, at, actual, cmdLen, polls, calls,
                   before, clean>>

\* sst_unlock, at the end of the probe.  Nothing waits for the WRSR.
SstEWSR == Send("sstEWSR", "sstWRSR", WriteEnable) /\ UNCHANGED polls
SstWRSR == Send("sstWRSR", "is_locked", StartCycle(TRUE, WrsrCycle)) /\ UNCHANGED polls

\* main calls is_flash_locked.  Five drivers leave the pointer as malloc found
\* it: the call goes anywhere, or comes back.
is_flash_locked ==
    /\ pc = "is_locked"
    /\ \/ pc' = "ready"
       \/ part.driver \notin {"winbond", "adesto", "macronix"} /\ pc' = "lost"
    /\ UNCHANGED <<chip, chipVars, part, call, at, actual, cmdLen, polls, calls,
                   before, clean>>

\* A call of the interface begins.  (Bound: it stays inside the part.  Its
\* callers see to that, the drivers do not check it.)
Begin(op, off, len) ==
    /\ pc = "ready"
    /\ calls < MaxCalls
    /\ off + len <= part.size
    /\ calls' = calls + 1
    /\ call' = [op |-> op, off |-> off, len |-> len]
    /\ at' = off
    /\ cmdLen' = 4
    /\ before' = mem
    /\ clean' = (Listens /\ ~protected)
    /\ UNCHANGED <<chip, chipVars, part, polls>>

-----------------------------------------------------------------------------
(* Erase: spi_flash_cmd_erase with the driver's opcode, sector by sector.  *)

winbond_erase    == \h20
adesto_erase     == \h20
macronix_erase   == \h20
gigadevice_erase == \h20
sst_erase        == \h20
eon_erase        == \hd8
spansion_erase   == \hd8
stmicro_erase    == \hd8

EraseCommand(driver) ==
    CASE driver = "winbond"    -> winbond_erase
      [] driver = "adesto"     -> adesto_erase
      [] driver = "macronix"   -> macronix_erase
      [] driver = "gigadevice" -> gigadevice_erase
      [] driver = "sst"        -> sst_erase
      [] driver = "eon"        -> eon_erase
      [] driver = "spansion"   -> spansion_erase
      [] driver = "stmicro"    -> stmicro_erase

BeginErase(off, len) ==
    /\ Begin("erase", off, len)
    /\ IF off % part.sector_size # 0 \/ len % part.sector_size # 0
       THEN Fail
       ELSE pc' = "eraseWREN"
    /\ actual' = 0

EraseWREN == Send("eraseWREN", "eraseCmd", WriteEnable) /\ UNCHANGED polls

EraseCmd ==
    LET n == chip.block[EraseCommand(part.driver)]
    IN  Send("eraseCmd", "erasePoll",
             spi_xfer(4, StartCycle(~protected /\ n # 0, EraseCycle(at, n))))
        /\ polls' = MaxPolls

ErasePoll ==
    /\ pc = "erasePoll"
    /\ LET end == call.off + call.len
       IN  Poll(/\ at' = at + part.sector_size
                /\ pc' = IF at' < end THEN "eraseWREN" ELSE "ready"
                /\ UNCHANGED <<actual, cmdLen>>,
                Fail)

-----------------------------------------------------------------------------
(* The writes of all drivers but SST: how much the next command programs   *)
(* and where the one behind it begins.                                     *)

LeftToWrite == call.len - actual

\* Slip: every chunk takes the controller's limit.
LimitedStep_Unaligned ==
    LET n == IF LeftToWrite < 64 THEN LeftToWrite ELSE 64
    IN  [len |-> n, next |-> at + n]

\* CONTROLLER_PAGE_LIMIT, 64, is below the page of all these parts.
LimitedStep ==
    LET byte_addr == IF actual = 0 THEN call.off % 64 ELSE 0
        n == IF LeftToWrite < 64 - byte_addr THEN LeftToWrite ELSE 64 - byte_addr
    IN  [len |-> n, next |-> at + n]

\* Pages of 256 bytes, counted in page_addr and byte_addr.
PagedStep ==
    LET byte_addr == at % 256
        n == IF LeftToWrite < 256 - byte_addr THEN LeftToWrite ELSE 256 - byte_addr
    IN  [len |-> n, next |-> (at \div 256 + 1) * 256]

winbond_write    == LimitedStep
adesto_write     == LimitedStep
macronix_write   == LimitedStep
gigadevice_write == LimitedStep
eon_write        == PagedStep
spansion_write   == PagedStep
stmicro_write    == PagedStep

Step ==
    CASE part.driver = "winbond"    -> winbond_write
      [] part.driver = "adesto"     -> adesto_write
      [] part.driver = "macronix"   -> macronix_write
      [] part.driver = "gigadevice" -> gigadevice_write
      [] part.driver = "eon"        -> eon_write
      [] part.driver = "spansion"   -> spansion_write
      [] part.driver = "stmicro"    -> stmicro_write

BeginWrite(off, len) ==
    /\ Begin("write", off, len)
    /\ IF part.driver # "sst"
       THEN pc' = "writeWREN" /\ actual' = 0
       ELSE /\ pc' = IF off % 2 = 1 THEN "byteWREN" ELSE "aaiWREN"
            /\ actual' = off % 2

WriteWREN == Send("writeWREN", "program", WriteEnable) /\ UNCHANGED polls

Program ==
    Send("program", "writePoll",
         spi_xfer(4 + Step.len,
             StartCycle(~protected,
                 ProgramCycle(at % 2^24, call.off + actual, Step.len))))
    /\ polls' = MaxPolls

WritePoll ==
    /\ pc = "writePoll"
    /\ Poll(/\ at' = Step.next
            /\ actual' = actual + Step.len
            /\ pc' = IF actual' < call.len THEN "writeWREN" ELSE "ready"
            /\ UNCHANGED cmdLen,
            Fail)

-----------------------------------------------------------------------------
(* sst_write: a leading byte, words with auto address increment, a         *)
(* trailing byte.                                                          *)

\* offset is moved on behind the leading byte.
Leading == at # call.off + actual

ByteWREN == Send("byteWREN", "byteCmd", WriteEnable) /\ UNCHANGED polls

sst_byte_write ==
    Send("byteCmd", "bytePoll",
         StartCycle(~protected,
             ProgramCycle(at, IF Leading THEN call.off ELSE call.off + actual, 1)))
    /\ polls' = MaxPolls

BytePoll ==
    /\ pc = "bytePoll"
    /\ Poll(/\ IF Leading THEN at' = call.off + actual /\ pc' = "aaiWREN"
                          ELSE pc' = "ready" /\ UNCHANGED at
            /\ UNCHANGED <<actual, cmdLen>>,
            Fail)

AAIWords == IF actual < call.len - 1 THEN "aaiWord" ELSE "aaiWRDI"

AAIWREN == Send("aaiWREN", AAIWords, WriteEnable) /\ UNCHANGED polls

AAIWord ==
    Send("aaiWord", "aaiPoll",
         IF cmdLen = 4 THEN AAIFirst(at, call.off + actual)
                       ELSE AAINext(call.off + actual))
    /\ polls' = MaxPolls

AAIPoll ==
    /\ pc = "aaiPoll"
    /\ Poll(/\ cmdLen' = 1
            /\ at' = at + 2
            /\ actual' = actual + 2
            /\ pc' = IF actual' < call.len - 1 THEN "aaiWord" ELSE "aaiWRDI",
            Fail)

AfterAAI == IF actual # call.len THEN "byteWREN" ELSE "ready"

\* Slip: the trailing byte is sent in AAI mode.
AAIWRDI_None == Send("aaiWRDI", AfterAAI, UNCHANGED chipVars) /\ UNCHANGED polls

AAIWRDI == Send("aaiWRDI", AfterAAI, WriteDisable) /\ UNCHANGED polls

-----------------------------------------------------------------------------
\* The calls are made, or one failed, and the chip is done.
Over ==
    /\ ~WIP
    /\ pc \in {"failed", "reset", "lost"} \/ (pc = "ready" /\ calls = MaxCalls)
    /\ UNCHANGED vars

Next ==
    \/ ChipFinishes
    \/ init_flash
    \/ SstEWSR
    \/ SstWRSR
    \/ is_flash_locked
    \/ \E e \in Erases : BeginErase(e[1], e[2])
    \/ EraseWREN
    \/ EraseCmd
    \/ ErasePoll
    \/ \E w \in Writes : BeginWrite(w[1], w[2])
    \/ WriteWREN
    \/ Program
    \/ WritePoll
    \/ ByteWREN
    \/ sst_byte_write
    \/ BytePoll
    \/ AAIWREN
    \/ AAIWord
    \/ AAIPoll
    \/ AAIWRDI
    \/ Over

Spec == Init /\ [][Next]_vars

-----------------------------------------------------------------------------
InCall(x) == call.off <= x /\ x < call.off + call.len

\* What a call may find in its range: a write clears bits only.
Writable == \A x \in Window : InCall(x) => before[x] \in {Erased, x}

\* Page programs of three drivers are sent in pages of 256 bytes, and the
\* controller takes 68 of them in a command.
Sendable == part.driver \in {"eon", "spansion", "stmicro"} => call.len <= 68

(***************************************************************************)
(* The driver that a probe finds takes the chip for what it is: the size,  *)
(* and that the erase opcode it sends erases a sector as it counts them.   *)
(* (The tables and probe functions of src/spi; spi_flash_cmd_erase steps   *)
(* by sector_size.)                                                        *)
(***************************************************************************)
PartIsChip ==
    part # NoPart =>
        part.size = chip.size /\ part.sector_size = chip.block[EraseCommand(part.driver)]

(***************************************************************************)
(* A write or erase that returns 0 has done all it was called for, however *)
(* it was cut into commands, and leaves the chip ready for the next call,  *)
(* out of auto address increment mode.  The call found the chip ready, and *)
(* a write its range erased.                                               *)
(***************************************************************************)
CallIsExact ==
    pc = "ready" /\ calls > 0 /\ clean =>
        /\ Listens
        /\ call.op = "erase" => \A x \in Window : InCall(x) => mem[x] = Erased
        /\ call.op = "write" /\ Writable /\ Sendable =>
               \A x \in Window : InCall(x) => mem[x] = x

(***************************************************************************)
(* At no moment of a call, also of one that fails or is refused, has a     *)
(* byte outside its range changed: no program wraps in its page or runs    *)
(* on, no erase takes more than the sectors asked for.                     *)
(***************************************************************************)
CallStaysInRange ==
    calls > 0 /\ clean => \A x \in Window : InCall(x) \/ mem[x] = before[x]
=============================================================================

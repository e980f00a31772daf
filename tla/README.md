# Formal models of sortbootorder

sortbootorder is the payload that coreboot offers on PC Engines apu boards to
change the boot order and the runtime settings. It is one sequential program
without interrupts or threads; what makes it hard is what lies beside it: a
serial flash that works on its commands after the program has moved on, a power
supply that may fail at any time, a jumper a user may move, a user who pastes
keys faster than the chip follows, and a text file that the next boot reads
back with `strstr`.

The models are written in TLA+, checked with TLC on small instances, and the
central ones have machine-checked proofs (TLAPS) for every instance.

## 1. Inventory

| Component | Source | State | Operations | Modelled by |
|---|---|---|---|---|
| Main menu: boot list and settings | `sortbootorder.c` | `bootlist`, `id[]`, the toggles, `wdg_timeout`, `com2_available`, `line_start` | start-up reads, the letter keys `a`..., `r`, the toggles, `i`, `s`, `x` | BootList, SetupMenu |
| Reading and packing the file | `fetch_bootorder`, `fetch_file_from_cbfs`, start of `save_flash` | row, column, offset; `bootlist`, `cbfs_formatted_list` | one round of each loop | Fetch |
| Saving | `utils/flash_access.c`, key `s` of `main` | `nvram_pos`, the list as text, `spi_wp_toggle` | unlock, erase, write loop, filler, lock, reset | SaveFlash, BootFile |
| Flash helpers | `spi/spi_flash.c` | the poll countdown | command transfer, poll, erase loop, probe | SaveFlash (poll, erase), FlashParts (probe), FlashDriver (all) |
| Drivers with block protection | `spi/winbond.c`, `adesto.c`, `macronix.c` | none; everything is in the chip | probe, erase, write, `is_locked`, `set_lock_flags`, `set_lock`, security registers | FlashParts, FlashDriver, SaveFlash, SecReg |
| Other drivers | `spi/eon.c`, `gigadevice.c`, `spansion.c`, `sst.c`, `stmicro.c` | none | probe, erase, write, unlock of SST parts | FlashParts, FlashDriver |
| SPI controller | `spi/spi.c` | FIFO pointer | one transfer, its limits | FlashDriver (the limits); else a transfer is one atomic command |
| Flash lockdown menu | `utils/spi_lock_menu.c` | none; works on the status registers | status print, clear, set range, lock registers | LockMenu |
| Security registers menu | `utils/sec_reg_menu.c` | the typed serial number | read, program serial number, erase, status, lock | SecReg |
| Main menu and lockdown menu on one chip | `main`, keys `Q` and `q` | `spi_wp_toggle` against the registers | both | FlashMenus |
| Clock menu | `utils/rtc_clock_menu.c` | a `struct tm` | year, month, day, hour, minute, second, write, exit | RtcClockMenu |
| Chip, supply, jumper | outside the repository | array, status registers, write enable latch, cycle in progress | commands, end of a cycle, power failure | SpiNor (external); FlashDriver has its own, byte by byte |

**How they interact.** `main` reads the BOOTORDER area (or the copy in CBFS),
takes keys and changes `bootlist` and the toggles. Key `s` updates the settings
rows and calls `save_flash`, which drives one of the drivers through function
pointers of `struct spi_flash`; the driver sends commands through `spi_xfer`.
`main` then resets the board, whatever `save_flash` did, so every save is
followed by a session that reads what it has left. The two flash menus use the
same chip between keys of the main menu and leave only register contents
behind; those decide what a later save meets. `main` reads the lock state once,
at its start: what the lockdown menu changes later it does not see.

**What is hard, and what makes each part correct.**

* *Saving.* The drivers do not wait for every cycle they start, waits give up
  after a fixed count, power may fail between any two steps. Correct means: a
  save that prints "Done" has stored the whole list; what an interrupted save
  leaves is a beginning of the list; no other sector changes; the write
  protection ends up as the menu's toggle says; every save returns.
* *Reading and packing.* The loops test their bounds behind the write. Correct
  means: nothing is stored further out than that, and what is saved again is
  the text's complete lines, also of a torn file.
* *Main menu.* The group move of a letter key shuffles two parallel arrays;
  `r` rewrites them; rows are appended and found by `strstr`. Correct means: no
  sequence of keys, saves and boots loses or doubles a device, moves a setting
  among the devices or separates rows from their letters, and what is saved is
  what the next session reads.
* *Drivers.* A call is cut into commands at chunks, pages, words and sectors,
  by eight drivers over tables of some sixty parts. Correct means: the part is
  taken for what it is, a call does all it was called for and nothing else.
* *Clock menu.* Year, month and day are edited in any order. Correct means: the
  date is always one of the calendar, and a day changes only where it must.
* *Flash lockdown menu.* Sequences of register writes that are not waited for,
  a table of ranges kept twice (bits and text). Correct means: the range that
  is printed is the range the chip protects, and inspecting the protection does
  not change it.
* *Security registers menu.* Erase before program, one-way lock bits in the same
  bytes as the array's protection. Correct means: nothing is locked for good
  without a yes, "serial written" and "Locked!" are true, the protection is kept.
* *The menus together.* Whatever one leaves in the registers, or under way into
  them, the other finds.

PROJECT.json lists these hazards at their lines.

## 2. Modules

| Module | What it is |
|---|---|
| `SpiNor` | The external chip: memory, status registers as the set of their 1 bits, write enable latch, cycle in progress, security registers; one operator per command, the end of a cycle, a power cycle. |
| `BootFile` | Abstract specification of saving: a file that is one whole version or torn. |
| `SaveFlash` | `save_flash` and what it calls, one action per SPI command, beside the chip. Refines BootFile. |
| `BootList` | The pure part of the main menu: rows, letters, moving, tags, reading back. |
| `SetupMenu` | Sessions of the main menu and the boots between them. |
| `Fetch` | From text to rows and back to text, one round of a loop per step. |
| `FlashParts` | The parameter tables and probe functions of all drivers, and `spi_flash_probe`. |
| `FlashDriver` | Erase and write of all drivers, one action per SPI command, beside a chip kept byte by byte. |
| `LockMenu` | The flash lockdown menu beside the chip, with its range tables. |
| `SecReg` | The security registers menu beside the chip. |
| `FlashMenus` | SaveFlash and an instance of LockMenu over one chip. |
| `RtcClockMenu` | The clock menu. |
| `SpiNor_proofs` | Lemmas about the chip's commands, shared by the proofs about its users. |
| `SetupMenu_proofs`, `Fetch_proofs`, `FlashDriver_proofs`, `LockMenu_proofs`, `SecReg_proofs`, `RtcClockMenu_proofs` | Theorems about the module of the name. |
| `SaveFlash_proofs` | Theorems about SaveFlash and FlashMenus. |
| `MC...` | The small instances for TLC. |

### SpiNor and SaveFlash

`pc` names the place in the program: `boot` and `menu` for `main`,
`lockedAtEntry`, `lockedAfterUnlock`, `lockedAtEnd` for the three reads of the
lock state in `save_flash`, `flags...` for `set_lock_flags`, `erase...` and
`write...` for the erase and the write of one word. Every action between two
changes of `pc` sends at most one command, so the chip (`ChipFinishes`), the
jumper (`MoveJumper`) and the supply (`LosePower`) can act between any two
commands. A command that meets a chip at work is ignored, as is an erase or a
program of a protected sector or a WRSR of locked registers: the program is not
told. `driver` chooses the Winbond/Adesto sequence (RDSR1, RDSR2, WREN, WRSR,
no wait) or the Macronix one (RDSR1, WREN, WRSR, wait, WRDI, wait).

The content of a word is a pair: version and place in the list, or *erased*,
*damaged* or *junk* (stack bytes). `LastWord` and `ImageWord` are the
arithmetic of the write loop: `i & 0xFFFC` bytes in words of four, then four
more, which for a list of 4n bytes are all stack. Words are the unit of a page
program because `save_flash` passes `sizeof(int)` bytes at a time; the
drivers' loop over pages makes one round (FlashDriver has the others).

`touched` is a history variable for the refinement: it tells whether the save
has got as far as the erase.

### BootFile

The abstract file can be wiped and completed only on behalf of a save, never
goes back to an older version, is equal to the version of a save that returned
success, and is untouched by a save that was refused. It allows what the code
really does: a save that gave up waiting may see its erase take effect after it
has returned.

### BootList and SetupMenu

A row is a device or a setting with its value; `cut` marks a row whose line end
has been overwritten by a NUL (what `update_wdg_timeout` does to an existing
row). `Fetched` is what the fetch loop turns into `bootlist`, `Searched` what
`strstr` sees; they differ by the cut row. Settings whose tag is missing are
read from low memory by the code: the model takes any number from `Garbage`, cut
to the width of the variable (`Width`). A toggle is written as the one character
`toggle + '0'` (`CharRow`): a number above 9 reads as 0 in the next session, and
208 writes a NUL, which cuts the file there. What a row can say is `InRow`, and
the two properties about settings speak of such values; a session that met a
larger number in low memory cannot save it.
A region that is missing or zeroed sends the reads to the copy in CBFS.
The group move and `update_tags` take one step per round of their loops. The
outcome of `save_flash` is one of those BootFile allows: `FileSaved`,
`SaveRefused`, `SaveCutShort`. The last one leaves any number of the first rows
and perhaps a part of the next (`Remains`: the tag and what digits of the value
were written), behind which the region is erased. The history variable `stored`
holds, for the settings the last completed save could write on this board, what
the menu said of them.

### Fetch

SetupMenu works on rows; Fetch is the level below, characters in four classes:
printable, line end, NUL, 0xFF. `dest` is `bootlist` as the compiler lays it
out, flat, with what the program has behind it, because the loop tests
`> MAX_DEVICES` and `> MAX_LENGTH` behind the write. The test for 0xFF in
`fetch_bootorder` is there and never holds (`tmp` is a plain `char`), which makes
the two fetch loops one. Packing copies each row up to its line end or its full
length and puts a NUL behind the last. A list of more than `MAX_DEVICES` rows
is not followed into the packing loop, which would read what lies behind the
array.

### FlashParts and FlashDriver

FlashParts transcribes the tables as sets and the probe functions as operators
on the id bytes; Spansion needs the extended id, STMicro falls back to RES for
parts that do not answer RDID, and the drivers are asked by manufacturer.

FlashDriver makes calls of the interface of `struct spi_flash`. The chip is kept
byte by byte at the addresses of a window, and the byte for address `a` of the
caller's buffer is the number `a`, so that one in the wrong place shows. A page
program wraps in its page of 256 bytes, an erase takes the block its opcode
stands for in *this* part. A call stays inside the part (`Begin`): its callers
see to that, the code of the drivers has no such check. What a part is, size by
id and sectors by opcode, is `DataSheet`: about chips, not about the code's
tables, and an assumption that TLC evaluates for the chips of the run.
`LimitedStep` (Winbond, Adesto, Macronix, GigaDevice) cuts at 64 bytes,
`PagedStep` (EON, Spansion, STMicro) at 256; SST writes a leading byte, words in
auto address increment mode and a trailing byte. `spi_xfer` drops what is longer
than the controller takes and returns 1, which the callers that test for `< 0`
do not see. Five drivers leave the pointer of `is_locked` unset: the call may
end in the stage `lost`.

### LockMenu

The tables of the menu exist three times in the source: as bits (`bp_lookup`), as
conditions (`print_block_protect_status1` and `2`) and as text. `BPLookup`,
`Enabled` and `Printed` transcribe them with their slips: rows 14 and 36 have
0x0E for 0x1C, row 10 tests the wrong bits, row 26 has the wrong text. The
properties name those rows as exceptions and hold for all others. `Protected`
of SpiNor, the chip's own table, is what they are compared with.

All commands begin with the two status reads; `b`, `c` and `l` share the
sequence WREN, WRSR, read back, and where `l` has put both lock bits into the
bytes it will write the question comes before it (`AsksFirst`, stage `prompt`,
`ConfirmLock` and `AbortLock`); `s` takes SRP0 away and puts it back to learn the
state of the WP pin (`drop...`, `restore...`). `hasty` is chosen at the start: a
user who types lets the 15 ms of a register write pass before the next command,
one who pastes commands does not. Most properties are about the first; that the
registers are not locked for good without a `y` holds for both.

### SecReg

The five keys over the operations of the driver: `Entry` is where they begin.
Winbond's are modelled command by command; those of Macronix are stubs that
return 0, except for the erase, whose pointer is never set, and Adesto's are
NULL (`lost`). `w` erases, waits and programs; `l` reads both registers, adds
one bit and writes them back without waiting. `reg` is eight bits wide, so 257
is register 1. A serial number is its text, as a number, and its length.
`typed` is a history variable, what the user typed behind `w`; `serial` is the
buffer, and `Buf` keeps the nine characters `strncpy` copies. `WrittenIsStored`
compares the register with `typed`, for numbers of up to nine characters; of
longer ones the code does not keep what the documents promise (see below).

### FlashMenus

FlashMenus extends SaveFlash and instantiates LockMenu over the same `mem`,
`sr`, `wel`, `busy` and `wpLow`. `open` is the call of
`handle_spi_lock_menu`; between `Q` and `q` only the lockdown menu steps, then
only `main`. This replaces the assumption of SaveFlash's properties about the
registers (`MainMenuOnly`) by all that the lockdown menu can leave.

### RtcClockMenu

One action per command. Numbers outside their range are refused in the code
with a message and change nothing, so the actions' guards are the range checks.

## 3. Runs

| Run | Result | Question |
|---|---|---|
| `save_flash` | holds | What is in flash and in the registers when a save is over, with slow chips, a moving jumper and a power failure? Does the save implement BootFile, does every save return, does a requested lock reach the register? |
| `save_flash_partial` | violated | Is a save that printed "Done" stored if the lockdown menu has set a partial range? No: `is_locked` knows one protected state only. |
| `setup_menu` | holds | Devices, letters, order and settings through any keys, saves, interrupted saves and boots. |
| `setup_menu_survive` | violated | Do all settings survive a completed save? No: the rows behind the watchdog's are cut off. |
| `fetch` | holds | How far do the late tests let the loops write, and is what is saved again the text's complete lines? |
| `flash_drivers` | holds | Is every part taken for what it is, and does a call that returns 0 do all, and no call more, than it was called for? |
| `lock_menu` | holds | Does the chip protect the range whose row was chosen, are marks and success messages true, does looking at the status leave the range alone, is nothing locked for good by accident? |
| `lock_menu_status` | violated | Does looking at the status leave the lock alone? No: SRP0 is taken away and, as the write is not waited for, not put back. |
| `flash_menus` | holds | Which registers that one menu leaves make a save of the other lose the list, and what does a save leave of a range the user has set? |
| `sec_reg` | holds | Is no register locked without a yes, are the messages true, is the array's protection kept? |
| `sec_reg_status` | violated | Is the lock status shown that of the registers? No: the mask is shifted before it is used. |
| `rtc_clock_menu` | holds | Is every date one of the calendar, and does a day change only where it must (but for 2000)? |

What `flash_menus` says in words: a save that prints "Done" has lost the list
exactly where the registers protected the file's sector without being all of
SRP0 and BP2 to BP0. That is a range set with `b` and not locked with `l`; it is
also a full lock that has lost its SRP0 because the user looked at it with `s`,
so that looking at the protection makes the next save a save of nothing. The
property leaves out a save that begins during a register write of the lockdown
menu, which takes a user faster than 15 ms.

**What the code does differently from its documents**, beside the four violated
runs:

* `CHANGELOG.md:81` says the protection is applied after saving. A save whose
  erase or write fails returns in front of the lock and leaves the flash open
  (hazard at `flash_access.c:129`). `LockFollowsToggle` is about saves that
  print "Done".
* `README.md:199-201` has `r` restore the order; the code resets every setting
  as well, and `pciereverse` from whatever follows the `sd3mode` row (hazard at
  `sortbootorder.c:899`). SetupMenu's `Refreshed` does the same. `r` also copies
  the default's row for the second serial port into the list of a board that has
  none; nobody sets that row when the list is saved, so what a later session reads
  is the default and not what the menu said (hazard at `sortbootorder.c:861`). It
  came up in the proof of `ReadableSettingsSurvive`, which speaks of the settings
  the saving session had available.
* 2000 is a common year to the clock menu, which takes years since 1900 for
  years. `OnlyImpossibleDaysFixedBut2000` has it as its exception.
* `README.md:219` promises the first ten characters of a serial number, and its
  example (228-231) reads ten back. `strncpy` is told nine (`sec_reg_menu.c:67`,
  `Buf`): of `1234567890` the register holds `123456789`, and "serial written" is
  printed. `WrittenIsStored` and its theorem end at nine characters.
* "Invalid bootorder region data, fetching from CBFS" (`sortbootorder.c:623`) is
  never said of an erased region: `bootorder_data` is plain `char`, which never
  equals 0xFF, so the region is read as a list and the copy in CBFS is not taken.
  Fetch models it as it is (`RegionUsable`); `RoundTrip` says that no more is read
  out of such a text than its complete lines.
* "Flash is write protected" may be untrue: the lock is read back before the
  WRSR that removes it is over, and the save is refused without cause. Nothing
  is lost, and `ImplementsBootFile` holds of the refusal.

**Bounds, and why they are enough.**

* Saving: `SectorWords = 4`, lists of 9, 8 and 15 bytes: the last word is text
  with the NUL, only stack, and the last of the sector. The write loop has no
  other case. `FlashSectors = 64`, `Window = {62, 63}`, `Target = 62`: the
  smallest chip on which all rows of the protection table differ; the neighbour
  behind the file is the one an overrun would hit. `MaxSaves = 2`: an old
  version, a newer one, and a save over a torn file. `MaxPowerLosses = 1`: one at
  any step; the state behind it is a state a save can start from, so further
  ones start over. `MaxPolls = 1`: a wait can succeed at once, later, or give
  up; the real count (500 times the timeout) differs only in how long it takes.
  Drivers `winbond` and `macronix`: `adesto` has the same sequence as `winbond`.
* Both menus: one save behind any number of lockdown commands, power failing
  once, ranges that hold the file, end beside it and leave it out, and a row for
  the pasting user. Files of two words: the file's content matters as a whole.
* Main menu: two devices that share a letter, one that does not, five settings
  with every special case (two that depend on the board, the one whose `strstr`
  is missing, the watchdog), two initial files and a zeroed region, eight rows
  at most so that rows are appended, and typed timeouts 0, 59 and 65596 (60
  after the cut to 16 bits). Low memory holds 208, the number that no row can say
  and whose character is the NUL; `MenuAssumption` leaves out 218 and its toggle
  219, whose character is a line feed, because a row would become two. One
  cut-short save per behaviour (`torn`). It leaves whole rows and a part of the
  next: words that a power failure has damaged are in SaveFlash, and texts of
  any characters in Fetch.
* Fetch: two rows of three characters; every content of an area of six
  characters, shorter areas, and CBFS files that are missing, empty, whole or
  too long. Both late tests, the flat array and all orders of the four classes
  occur.
* Drivers: a part of every line of every table, parts no table has, and two
  calls: writes at the boundaries of words, chunks and pages, erases of sectors,
  blocks and unaligned ranges. The window has both sides of every boundary.
* Lockdown menu: all 44 rows, a chip of 2048 sectors as the texts assume; ranges
  are compared at the sectors on both sides of every end a range can have
  (`Edges`). The pasting user has two rows, one with CMP, as half-written
  registers only differ by which bits are old. Power failures are not counted:
  they lead back to the open menu.
* Security registers: a serial number that just fits the buffer and a longer
  one, of which nothing is claimed; typed register numbers on both sides of 1 to
  3 and of 256; registers that are open, locked by the jumper, locked until power
  goes, and with one lock bit set.
* Clock: years on both sides of the accepted range and of the leap rules, months
  with 28/29, 30 and 31 days, days around each end.

**Fairness.** `save_flash` checks `FairSpec`: weak fairness of the program's own
steps (`SaveStep`: it is sequential, nothing blocks it and its waits count down)
and of the end of a cycle (the chip's data sheet bounds every cycle). Keys, the
jumper and power failures have none. `SaveReturns` holds with power failures,
since a failed save is at `boot`; `LockSettles` says for each number of power
losses that the lock settles unless there is a further one.

Deadlock checking is on in every run.

## 4. Proofs

Of the properties the passing runs check, all but two are proved for every value
of the constants: `SaveReturns` and `LockSettles`, which are liveness, and of
which the safety half is proved. Beside the modules' `ASSUME`s the theorems use
two named hypotheses, which they state: `MainMenuOnly` and `LargeChip`. Each
action has a lemma of its own, `...Step` or `...Inv`, a lemma puts them
together, and the theorem closes with PTL.

### SaveFlash

For every number of sectors and words, target, list lengths, driver, number of
saves, polls and power failures. `FitAssumption` (the list and its filler fit the
sector) is what the code takes for granted; `NeighboursUntouched` rests on it.

From *any* registers the first session may find:

* `TypeCorrect`; `NeighboursAreUntouched`: `Positions` says where `pos` is at each
  stage, never behind the last word, so that every cycle on the array has its
  address in the file's sector (`CycleInFile`), whether the chip takes it or not.
* `WordsAreInOrder`, `DamageNeedsPowerLoss`, `FailedSavesStayUnlocked`. The chip
  may refuse every command of a save without the program noticing, so `AnyInv`
  speaks of both cases: during the rewrite either the sector is protected and the
  chip stays idle, or it is open and the words in front of `pos` hold the new list
  and the others are erased (`RewriteTried`). A register write is in progress only
  while the program is about to see that the lock still stands (`UnlockWaited`).
  `FileInv` adds whose words are in flash: none of a version that was not yet
  begun, none of the current one before its erase is over, and a program in
  progress is that of the word at `pos` over words that are all there. The third
  theorem is what the returns behind a failed erase or write amount to
  (`FailedOpen`): the lock is not set again, and none is on its way.
* `FileGoesForward`: the file is torn, or becomes the list being saved out of the
  torn one, and a list that was there before never comes back (`Forward`). This is
  the part of BootFile that holds where "Done" may be false, and what SetupMenu takes
  a save to do to the file.
* `SavesAdvance`: every step of a save lowers `PartsLeft`, `WordsLeft`,
  `StagesLeft` and the countdown of the poll, in lexicographic order; the four are
  bounded, and nothing but a power failure interferes. What `SaveReturns` needs
  beyond it is the fairness of the steps alone.

Under `MainMenuOnly`: in the registers the first session finds SRP1 is not set;
those with SRP0 are fully locked as `set_lock_flags` locks them, those without do
not protect the file's sector. The hypothesis is needed: `save_flash_partial` is
the counterexample without it, and the theorems about FlashMenus do without it.

* `RewritesAreUnprotected`, `SavesAreStored`, `LocksFollowToggle`. None of these
  properties is inductive: "Done means stored" is about the end of a loop that
  polls a chip. `IInv` says what is true on the way: the registers and every
  register write in progress are one of the two values a main menu leaves;
  between the check after the unlock and the end of the write no register write
  is in progress and nothing is protected; a cycle in progress is in the file's
  sector and is the one the current stage waits for; during the write the words
  in front of `pos` hold the new list and the others are erased, where a word
  under way counts through the cycle that writes it. The delicate place is the
  unlock: the drivers do not wait, so the program may get to the check with a
  WRSR in progress. It goes on only when the lock bits are already seen clear,
  and as the only write in progress was the one clearing them, it is over by
  then.
* `LocksArrive`: behind a "Done" that promises the lock, the registers have it or
  a write of them is under way, and until it is in force no step but the end of
  that cycle and a power failure changes that. For `LockSettles` only the fairness
  of the chip is missing.
* `SavesImplementBootFile`: SaveFlash implements BootFile. `InitRefines` maps the
  initial states, and `MenuRefines`, `SaveRefines`, `ChipRefines` and `PowerRefines`
  map every step to a step of BootFile or a stutter: key `s` to `Begin`, the
  first erase to `Touch`, the end of an erase to `Wipe`, the end of the program
  of the last word to `Complete`, a power failure to `Crash`, which may do what
  the cycle in progress was about to. A save that gave up and whose erase ends
  later is a `Wipe` too; `CycleKnown` tells on behalf of which save.

### FlashMenus

`LossNeedsPartialLock` and `RangesAreKept` hold from any registers and after any
commands of the lockdown menu. `MenusInv` replaces "the registers are one of two
values" by "the registers are those the save began with, or on their way from
these to the value the save gives them" (`UnlockKnown`, `RangeHeld`), under the
property's own condition that no register write was in progress when the save
began. `Workable` is the condition on those first registers from which `Image`,
the progress of the write, follows; its negation is just the partial lock that
the property names. `RewriteKnown` says of every save, whether the registers let
it work or not, that it does not meet a register write between unlock and lock.

`MenusKeepNeighbours` and `NoListComesBack` need no condition on the save: also
one that begins during a register write sends its commands to the file's sector
only, and programs no words but its own (`CyclesChangeFile`).
`MenusKeepWordsInOrder`, `MenusFailedSavesStayUnlocked` and
`MenusFileGoesForward`, which has damage too, are about saves that began on an
idle chip. Such a save may follow others that did not, so `MenusFile` keeps of
every save what the next one starts from (`ListKnown`: no word in flash is newer
than the list, a program in progress is the one of the word at `pos`), and of
those that began on an idle chip all of `StageInv` and `FileInv`, which
`BeginFresh` establishes anew. Without the condition the first two do not hold,
which TLC shows: an erase sent during the register write is lost while its wait
succeeds, and the words are programmed over the old list; or that wait times
out, and the lock that was being written comes into force behind the failed
save.

### LockMenu

For every chip, every set of rows and every initial register that is not locked
for good already.

* `TypeCorrect`; `LocksAreConfirmed`: SRP0 and SRP1 are never both set without a
  `y`, however fast commands are pasted and whenever power fails. This is about
  half-written registers: a command may read register 1 before and register 2
  after an earlier write comes into force, so that it could write back two lock
  bits that were never asked for together. `ReadsKnown` says why it cannot: if
  SRP1 was read, it is in force, and a chip with SRP1 refuses every register
  write (`OnlyRegisterWrites`); SRP1 only goes away with a power cycle, and that
  closes the menu.
* `StatusLeavesRange`: the command `s` changes no bit but the lock bits.
  `RangeKept` says that what `s` holds in `status` equals the registers but for
  the lock bits, and so does any write it has started.
* `SuccessIsTrue`, `HighPinIsTrue`: what the menu prints is true for a user who
  waits. `WaitInv` follows one command: its reads find registers at rest; behind
  its write the registers are the old ones, with the request refused or under
  way, or the requested ones (`WriteSettles`), so that a readback that agrees
  speaks of the request; SRP0 is away only while the pin is high (`PinKnown`).
* `EverySectorIsAsPrinted`: about the tables alone. For each of the rows that are
  not slips, a chip with at least 64 sectors protects a sector if and only if it
  is in the range whose text stands in the row, for *every* sector and every
  size of chip, where TLC compares 2048 sectors at the range ends. The proof goes
  row by row through the kinds of range (`Fits`).
* `RangesAreAsPrinted`, `MarksAreAsPrinted`: with `RangeTaken` (the range asked
  for last is in force or on its way) the same of the registers the menu leaves
  and of the marks it prints. They assume `LargeChip`: at least 64 sectors, since
  on a smaller one the ranges of the table are no whole sectors and the texts
  cannot be true.

### SecReg

For every chip, driver, initial register and set of typed values.

* `TypeCorrect`; `LocksAreConfirmed`: no register is locked for good without a yes
  to it; `ProtectionIsKept`: no step changes the protection bits that share the
  two bytes with the lock bits, but for what a power cycle does to SRP1. The lock
  command reads the two bytes apart and writes back what it read, also while an
  earlier lock is still on its way. The invariant says that nothing but a lock
  bit can differ between the registers, a write under way and what the command
  holds, and that every lock bit in any of the three was there at the start or
  has been confirmed.
* `WrittenIsTrue`, `LockedIsTrue`, `OnlyPowerFailureDamages`, for a user who waits.
  `WaitInv` has four parts: what runs in the chip was sent by the present stage
  (`ChipWaitedFor`); the cell goes from erased to what was typed
  (`SerialOnErased`), unless LB1 keeps it; the lock bit is in the bytes that will be
  written (`LockAskedFor`); and a message stays true as long as it stands
  (`PrintedIsTrue`). `WrittenIsTrue` is about what was typed: the invariant has
  the buffer equal to `Buf(typed)` (`KeptOfTyped`), and up to nine characters that
  is all of it. Nothing is claimed of longer numbers.

### Fetch

For every buffer size, region and CBFS file.

* `TypeCorrect`; `SpillIsBounded`: nothing is stored further out than the late tests
  allow. The invariant bounds row, column and offset by what the tests of the
  last round let pass, and the length of the packed text by the packing loop's
  position.
* `SavedAsRead` (`RoundTrip`): if the text's lines have room, what is packed is
  its complete lines. `MeantInv` follows the loops character by character: row
  and column are the number of line ends so far and the distance from the last;
  the character at each place of the text is in the cell that its line and
  column give (`Pos`), and that cell lies in front of the one written now, which
  is why no character is overwritten. When the loop stops a few characters early,
  what is missing lies behind the last line end. `LastEnd` of the model is a
  recursion over the text; the invariant carries what it yields for every
  position passed (`EndsKnown`), so that no induction over data is needed.

### FlashDriver

For all chips, windows, calls and numbers of polls.

* `ProgramsFit`: each page program of the seven drivers that have one carries its
  bytes to their own address and does not wrap in its page, and those of four
  drivers fit the controller. The induction is over the chunks of a call: behind
  each but the last the next address is at a multiple of 64 or 256 (`CutInv`).
* `CallsAreExact`: a call that returned 0 has done all it was called for and left
  the chip ready. `CallsStayInRange`: no byte outside the range of the call
  changes, also when the call fails. `Fine` is true during a call that found the
  chip ready: a cycle in progress is part of the call (`CycleInRange`), also one
  the driver has given up waiting for; the bytes outside are as before
  (`Outside`), those of the range are erased or already their own (`Clearable`),
  those in front of `Reached` are done (`Progress`); the stage fits the
  place in the call, and the chip takes the command that comes next (`Place`,
  `ChipReady`), for SST through its single bytes and the auto address increment
  mode.
* `PartsAreChips` (`PartIsChip`): the row a probe takes a chip for has its size,
  and its sectors are what the driver's erase opcode erases; the two theorems above
  rest on the second half. What a chip is assumed to be is `DataSheetAssumption`:
  for the ids and RES signatures the makers use, the size (mostly a power of two in
  the third byte) and what 20h and D8h erase. The tables are the code's, and the
  lemmas go through them row by row.

### SetupMenu

For every set of devices, letters, tags, board files, regions and typed numbers.

* `TypeCorrect`, `DevicesAreKept`, `DevicesStayFirst`, `IdsMatch`,
  `SavedListsHaveSettings`, `ReadableSettingsComeBack`. `Inv` says that a list has
  its shape (`Shape`: what a torn file still has; `WellFormed`: every device once
  and in front), that the letters are those of the rows (`Lettered`), that the
  rows `update_tags` has passed say what the menu says (`Says`) as far as a row can
  (`InChars`), and that the rows of a file which a completed save has written say
  what was stored. Devices are never cut, because only settings are overwritten
  in place, and what a cut-short save leaves of a device row is no row
  (`RemainsTypes`).
  `FileAssumption`, that the files that come with the board and the one found
  first are whole, is what `DevicesKept` starts from. The searches of the source
  (`strstr`, `get_line_number`, the first cut row) are choices of a least or last
  row, which `LeastNatural` and `GreatestBelow` show to exist.
* `ChosenRowsOnTop` (`ChosenOnTop`): the group move of a letter key, for any number
  of rows of the letter in any places. The loop invariant `MoveKnown` gives the
  place of every row after k rounds (`Place`): a row of the letter with fewer than
  k of its letter behind it is on top, one with more has gone down by k, every
  other row by as many as there are moved rows behind it. A round takes the row
  with exactly k behind it, because that is the last the search finds
  (`MovePlaces`); the loop ends where no unmoved row of the letter is left but one
  that was on top from the start (`LastRound`), which is the case the property
  leaves the order open for.

### RtcClockMenu

For any typed numbers: the fields keep their ranges (`TypeCorrect`), every date
is one of the calendar (`DatesAlwaysExist`), and a day changes behind the user's
back only if the month has no such day, but for February 2000
(`OnlyImpossibleDaysAreFixed`). The lemma behind them is that the code's month length
never exceeds the calendar's and is shorter for February 2000 only.

### Only model-checked

* `SaveReturns` and `LockSettles`: liveness under fairness is beyond the prover.
  `SavesAdvance` and `LocksArrive` are what remains of them without fairness.
* The four violated runs: their counterexamples are theirs to show.

## 5. Not modelled

* Texts, colours, layout of the menus; numbers are what they read as.
* The QEMU branch of key `s`, the builds for coreboot's legacy tree and for apu1
  (`COREBOOT_LEGACY`, `TARGET_APU1`).
* The registers of the SPI controller (`spi.c`): a transfer that fits is one
  atomic command; claiming and releasing the bus does nothing in this code.
* The read operations of the drivers: nothing calls them.
* What the program does behind a call through a pointer that was never set, and
  what the packing loop reads behind `bootlist`: it is left at that place.
* Faults of the chip other than its being slow, protected or without power.
* Build files and headers: they have no behaviour of their own.

## 6. Plan

1. *Done*: all components above, their runs and proofs; the two menus over one
   chip; every safety property of a passing run.
2. The composition of SetupMenu and BootFile: that the outcomes SetupMenu gives a
   save are those of `FileGoesForward`, now read off the two modules.

----------------------------- MODULE FlashMenus -----------------------------
(***************************************************************************)
(* The main menu and the flash lockdown menu over one chip: main saves and *)
(* resets (SaveFlash), its key Q calls handle_spi_lock_menu, which returns *)
(* with the key q (LockMenu).  main reads the lock state once, when it     *)
(* starts, and neither menu waits for a register write: what one of them   *)
(* leaves behind, in the chip or under way, the other finds.               *)
(***************************************************************************)
EXTENDS SaveFlash

CONSTANTS
    Choices,       \* bound: as in LockMenu
    HastyChoices

ASSUME MenusAssumption == Choices \subseteq 1..44 /\ HastyChoices \subseteq 1..44

VARIABLES
    open,          \* handle_spi_lock_menu is running
    hasty, lockPc, command, choice, lockStatus, old, message, wpPin, marked,
    wanted, confirmed,   \* the variables of LockMenu
    srAtSave, idleAtSave \* history: the status registers when the save began,
                   \* and that no register write was under way

Lock == INSTANCE LockMenu WITH pc <- lockPc, status <- lockStatus

lockVars == <<hasty, lockPc, command, choice, lockStatus, old, message, wpPin,
              marked, wanted, confirmed>>
atSave == <<srAtSave, idleAtSave>>
allVars == <<vars, open, lockVars, atSave>>

MenusInit ==
    /\ Init
    /\ open = FALSE /\ lockPc = "menu" /\ command = "none" /\ choice = 0
    /\ lockStatus = {} /\ old = {} /\ message = "none" /\ wpPin = 1
    /\ marked = {} /\ wanted = 0 /\ confirmed = FALSE
    /\ hasty \in BOOLEAN
    /\ srAtSave = {} /\ idleAtSave = TRUE

\* Key Q.  Bound: not behind the last save, whose result is settled.
OpenLockMenu ==
    /\ pc = "menu" /\ ~open
    /\ version < MaxSaves
    /\ open' = TRUE
    /\ UNCHANGED <<vars, lockVars, atSave>>

\* Its locals are gone, and the histories with them.
MenuCloses ==
    /\ open' = FALSE /\ lockPc' = "menu" /\ command' = "none" /\ choice' = 0
    /\ lockStatus' = {} /\ old' = {} /\ message' = "none" /\ wpPin' = 1
    /\ marked' = {} /\ wanted' = 0 /\ confirmed' = FALSE

\* Key q.  As for the commands of the menu, only who pastes keys is faster
\* than the chip.
CloseLockMenu ==
    /\ open /\ lockPc = "menu"
    /\ hasty \/ ~WIP
    /\ MenuCloses
    /\ UNCHANGED <<vars, hasty, atSave>>

\* main, outside the call.
MainStep ==
    /\ ~open
    /\ \/ (Boot \/ ToggleWriteProtect \/ ExitWithoutSave \/ SaveStep \/ ResetAfterSave)
          /\ UNCHANGED atSave
       \/ BeginSave /\ srAtSave' = sr /\ idleAtSave' = ~WIP
    /\ UNCHANGED <<open, lockVars>>

LockCommand ==
    \/ \E k \in {"p", "r", "c", "s"} : Lock!TakeKey(k, 0)
    \/ \E n \in IF hasty THEN HastyChoices ELSE Choices : Lock!TakeKey("b", n)
    \/ \E n \in 1..5 : Lock!TakeKey("l", n)

LockStepOf ==
    \/ Lock!ReadSR1 \/ Lock!ShowRanges \/ Lock!ReadForWrite
    \/ Lock!ConfirmLock \/ Lock!AbortLock
    \/ Lock!SendWREN \/ Lock!SendWRSR \/ Lock!VerifySR1 \/ Lock!VerifySR2
    \/ Lock!ReadForStatus \/ Lock!DropSRP0 \/ Lock!CheckDropped
    \/ Lock!RestoreSRP0 \/ Lock!CheckRestored \/ Lock!ShowSR1 \/ Lock!ShowLock

MenuStep ==
    /\ open
    /\ LockCommand \/ LockStepOf
    /\ UNCHANGED <<progVars, open, atSave>>

ChipEnds == ChipFinishes /\ UNCHANGED <<open, lockVars, atSave>>

PullJumper ==
    /\ open => lockPc \in {"menu", "prompt"}
    /\ MoveJumper
    /\ UNCHANGED <<open, lockVars, atSave>>

\* Both programs are gone.
PowerFails ==
    /\ LosePower
    /\ MenuCloses
    /\ UNCHANGED <<hasty, atSave>>

MenusNext ==
    \/ OpenLockMenu \/ CloseLockMenu \/ MainStep \/ MenuStep
    \/ ChipEnds \/ PullJumper \/ PowerFails

MenusSpec == MenusInit /\ [][MenusNext]_allVars

-----------------------------------------------------------------------------
Done == pc = "returned" /\ outcome = "saved"

(***************************************************************************)
(* Where a save that prints "Done" has lost the list: only where the       *)
(* registers, as the lockdown menu left them, protected the file's sector  *)
(* without being all that save_flash takes for a lock, SRP0 and BP2 to     *)
(* BP0.  That is a range set with b and no l, and also a full lock that    *)
(* the menu's s has taken SRP0 from.  Every other state the menu can leave *)
(* the registers in is unlocked or refused, also for a user who is faster  *)
(* than the chip, unless the save begins during a register write.          *)
(***************************************************************************)
LostOnlyUnderPartialLock ==
    Done /\ idleAtSave =>
        Stored(version) \/ (Protected(srAtSave, Target) /\ ~IsLocked(srAtSave))

(***************************************************************************)
(* A save that neither finds that lock nor sets it leaves the registers as *)
(* the lockdown menu set them.                                             *)
(***************************************************************************)
MenuRangeKept ==
    Done /\ idleAtSave /\ ~IsLocked(srAtSave) /\ ~toggle => sr = srAtSave /\ ~WIP
=============================================================================

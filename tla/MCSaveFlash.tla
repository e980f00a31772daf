---------------------------- MODULE MCSaveFlash -----------------------------
(***************************************************************************)
(* Small instances of SaveFlash: a sector of four words beside a neighbour *)
(* and lists of 9, 8 and 15 bytes, so that the last word holds text and    *)
(* NUL, only stack, and ends the sector.                                   *)
(***************************************************************************)
EXTENDS SaveFlash

MCListBytes == [v \in 0..MaxSaves |-> <<9, 8, 15>>[v + 1]]

\* What set_lock_flags writes: the registers of a board whose owner has only
\* used the main menu.
MainMenuSR == {{}, LockMask}

\* Ranges the flash lockdown menu can set as well (keys b and l there): the
\* range of BP = 3 at either end, as blocks or sectors, or all but it.
LockMenuSR ==
    MainMenuSR \cup
    {{"BP1", "BP0"} \cup r : r \in SUBSET {"SRP0", "CMP", "SEC", "TB"}}
=============================================================================

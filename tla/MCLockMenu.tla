----------------------------- MODULE MCLockMenu -----------------------------
(***************************************************************************)
(* The lockdown menu on a chip of 2048 sectors, as its texts take it to be *)
(* (000000h to 7FFFFFh), found as the main menu leaves it, in one case     *)
(* with a security register locked.                                        *)
(***************************************************************************)
EXTENDS LockMenu

MCInitialSR == {{"SRP0", "BP2", "BP1", "BP0", "LB1"}}
=============================================================================

---- MODULE MCFlashMenus ----
(***************************************************************************)
(* The two menus on a chip of 64 sectors, the file in the last but one:    *)
(* ranges that hold it, that end beside it and that leave it out.          *)
(***************************************************************************)
EXTENDS FlashMenus

MCListBytes == [v \in 0..MaxSaves |-> <<5, 6>>[v + 1]]
MainMenuSR == {{}, LockMask}
====

------------------------------ MODULE MCSecReg ------------------------------
(***************************************************************************)
(* Two serial numbers, one that just fits the buffer and one that is       *)
(* longer; typed register numbers on both sides of 1 to 3 and of 256, and  *)
(* registers that are open, locked as the main menu does, locked until     *)
(* power goes, and with a lock bit set.                                    *)
(***************************************************************************)
EXTENDS SecReg

MCSerials == {<<1, 9>>, <<2, 12>>}
MCInitialSR == {{}, {"SRP0", "BP2", "BP1", "BP0"}, {"SRP1", "CMP", "BP1"}, {"LB1"}}
=============================================================================

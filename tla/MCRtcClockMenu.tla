--------------------------- MODULE MCRtcClockMenu ---------------------------
(* Dates around the ends of months in common, leap and century years.      *)
EXTENDS RtcClockMenu

Midnight(y, m, d) == [year |-> y - 1900, mon |-> m - 1, mday |-> d,
                      hour |-> 0, min |-> 0, sec |-> 0]

MCInitialClocks == {Midnight(1999, 12, 31), Midnight(2000, 2, 29)}
=============================================================================

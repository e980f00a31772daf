------------------------------- MODULE MCFetch -------------------------------
(***************************************************************************)
(* Every content of an area of two rows of three characters, shorter       *)
(* areas, and a file in CBFS that is missing, empty, whole or too long.    *)
(***************************************************************************)
EXTENDS Fetch

MCRegions == [1..6 -> Char] \cup {<<>>, <<"c", "n">>, <<"c", "n", "c">>}
MCCbfsFiles == {<<>>, <<"f", "f", "f">>, <<"c", "n", "0">>,
                <<"n", "c", "c", "n", "n", "n", "c", "n", "c">>}
=============================================================================

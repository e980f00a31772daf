---- MODULE MCFlashDriver ----
(***************************************************************************)
(* A part of every line of every table, with the size its id stands for    *)
(* and the erase opcodes of its data sheet, parts no table has, calls that *)
(* begin and end around the boundaries of words, chunks, pages and         *)
(* sectors, and the two calls of save_flash: the erase of 4096 bytes and   *)
(* the writes of 4.                                                        *)
(***************************************************************************)
EXTENDS FlashDriver, TLC

K64 == 65536
Chip(id, res, size, b20, bd8, protects) ==
    [id |-> id, res |-> res, size |-> size, protects |-> protects,
     block |-> (\h20 :> b20) @@ (\hd8 :> bd8)]
Jedec(manufacturer, type, capacity) == <<manufacturer, type, capacity, 0, 0>>
NoRes == <<255, 255, 255, 255>>

\* The low byte of most ids is the power of two that is the size.
ByLog(manufacturer, types, b20, bd8) ==
    {Chip(Jedec(manufacturer, t[1], t[2]), NoRes, 2^t[2], b20, bd8, FALSE) : t \in types}

Winbond == ByLog(\hef, {<<\h30, \h15>>, <<\h30, \h16>>, <<\h30, \h17>>, <<\h40, \h15>>,
                        <<\h40, \h16>>, <<\h40, \h17>>, <<\h40, \h18>>}, 4096, K64)
Macronix == ByLog(\hc2, {<<\h20, \h15>>, <<\h20, \h16>>, <<\h5e, \h16>>, <<\h20, \h17>>,
                         <<\h20, \h18>>, <<\h26, \h18>>}, 4096, K64)
GigaDevice == ByLog(\hc8, {<<\h40, \h14>>, <<\h40, \h15>>, <<\h40, \h16>>, <<\h60, \h16>>,
                           <<\h40, \h17>>, <<\h40, \h18>>}, 4096, K64)
Eon == ByLog(\h1c, {<<\h30, \h18>>}, 4096, K64)

\* Density in the low five bits of the first byte: 2^15 bytes and up.
Adesto ==
    ByLog(\h1f, {<<\h42, \h18>>, <<\h32, \h17>>}, 4096, K64) \cup
    {Chip(Jedec(\h1f, t[1], t[2]), NoRes, 2^(15 + (t[1] % 32)), 4096, K64, FALSE) :
        t \in {<<\h45, 1>>, <<\h45, 2>>, <<\h46, 2>>, <<\h46, 3>>, <<\h47, 0>>,
               <<\h47, 1>>, <<\h48, 0>>, <<\h85, 1>>, <<\h86, 0>>, <<\h86, 1>>,
               <<\h87, 0>>}}

Sst == {Chip(Jedec(\hbf, \h25, t[1]), NoRes, t[2] * 1024, 4096, K64, TRUE) : t \in SstSizes}

\* No 4 KiB erase in these.
Spansion == {Chip(<<1>> \o t[1], NoRes, t[2], 0, t[3], FALSE) :
                t \in {<<<<2, \h13, 0, 0>>, 2^20, K64>>, <<<<2, \h14, 0, 0>>, 2^21, K64>>,
                       <<<<2, \h15, 0, 0>>, 2^22, K64>>, <<<<2, \h16, 0, 0>>, 2^23, K64>>,
                       <<<<\h20, \h18, 3, 1>>, 2^24, K64>>,
                       <<<<\h20, \h18, 3, 0>>, 2^24, 262144>>,
                       <<<<2, \h15, \h4d, 0>>, 2^22, K64>>}}

StMicro == {Chip(Jedec(\h20, \h20, c), NoRes, 2^c, 0, StSector(c), FALSE) : c \in \h11..\h18}
\* Older ones know RES only: the signature is the capacity less one.
StMicroOld == {Chip(<<255, 255, 255, 255, 255>>, <<0, 0, 0, c - 1>>, 2^c, 0,
                    StSector(c), FALSE) : c \in \h11..\h14}

Unknown == {Chip(i, NoRes, 2^24, 4096, K64, FALSE) :
               i \in {<<255, 255, 255, 255, 255>>, Jedec(\hef, \h70, \h18),
                      Jedec(\h9d, \h40, \h16), Jedec(\h01, \h20, \h18)}}

AllChips == Winbond \cup Macronix \cup GigaDevice \cup Eon \cup Adesto \cup Sst
            \cup Spansion \cup StMicro \cup StMicroOld \cup Unknown

SampleWrites == {<<0, 4>>, <<1, 1>>, <<1, 3>>, <<2, 1>>, <<61, 8>>, <<63, 80>>,
                 <<66, 5>>, <<255, 1>>, <<250, 70>>}
SampleErases == {<<0, 4096>>, <<4096, 4096>>, <<0, 8192>>, <<0, K64>>, <<K64, K64>>,
                 <<0, 262144>>, <<256, 4096>>}

Near == {0, 1, 2, 3, 4, 5, 60, 61, 62, 63, 64, 65, 66, 67, 68, 69, 70, 71, 126, 127,
         128, 142, 143, 192, 249, 250, 254, 255, 256, 257, 313, 314, 319, 320}
Far  == {4095, 4096, 8191, 8192, 32767, 32768, 65535, 65536, 131071, 131072,
         262143, 262144}
SampleWindow == Near \cup Far
ErasedNear == [x \in SampleWindow |-> IF x \in Near THEN Erased ELSE Other]
====

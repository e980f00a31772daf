----------------------------- MODULE FlashParts ------------------------------
(***************************************************************************)
(* Which part a driver takes the flash for: the parameter tables and probe *)
(* functions of src/spi and the search of spi_flash_probe.  idcode is what *)
(* RDID answers (five bytes), res what RES answers (four bytes).           *)
(***************************************************************************)
EXTENDS Integers, Sequences

Part(driver, sector, nr) == [driver |-> driver, sector_size |-> sector,
                             size |-> sector * nr]
NoPart == [driver |-> "none", sector_size |-> 0, size |-> 0]

\* The table's entry that matches.  No table has an id twice.
Found(parts) == IF parts = {} THEN NoPart ELSE CHOOSE p \in parts : TRUE

Id(idcode)    == idcode[2] * 256 + idcode[3]
ExtId(idcode) == idcode[4] * 256 + idcode[5]

-----------------------------------------------------------------------------
(* Parts of 4 KiB sectors, 16 in a block: id and number of blocks.         *)

winbond_table == {<<\h3015, 32>>, <<\h3016, 64>>, <<\h3017, 128>>, <<\h4015, 32>>,
                  <<\h4016, 64>>, <<\h4017, 128>>, <<\h4018, 256>>}

adesto_table == {<<\h4218, 256>>, <<\h4501, 16>>, <<\h4502, 16>>, <<\h4602, 32>>,
                 <<\h4603, 32>>, <<\h4700, 64>>, <<\h4701, 64>>, <<\h4800, 128>>,
                 <<\h3217, 128>>, <<\h8501, 16>>, <<\h8600, 32>>, <<\h8601, 32>>,
                 <<\h8700, 64>>}

macronix_table == {<<\h2015, 32>>, <<\h2016, 64>>, <<\h5e16, 64>>, <<\h2017, 128>>,
                   <<\h2018, 256>>, <<\h2618, 256>>}

gigadevice_table == {<<\h4014, 16>>, <<\h4015, 32>>, <<\h4016, 64>>, <<\h6016, 64>>,
                     <<\h4017, 128>>, <<\h4018, 256>>}

Blocks(driver, table, id) ==
    Found({Part(driver, 256 * 16, 16 * e[2]) : e \in {f \in table : f[1] = id}})

probe_winbond(idcode)    == Blocks("winbond", winbond_table, Id(idcode))
probe_adesto(idcode)     == Blocks("adesto", adesto_table, Id(idcode))
probe_macronix(idcode)   == Blocks("macronix", macronix_table, Id(idcode))
probe_gigadevice(idcode) == Blocks("gigadevice", gigadevice_table, Id(idcode))

-----------------------------------------------------------------------------
(* The others: what they match, then pages of 256 bytes and sectors.       *)

eon_table == {<<\h18, 4096>>}

\* Sectors of 16 pages, but erased in blocks of 16 sectors.
probe_eon(idcode) ==
    Found({Part("eon", 256 * 16 * 16, e[2] \div 16) :
              e \in {f \in eon_table : f[1] = idcode[3]}})

sst_table == {<<\h8d, 128>>, <<\h8e, 256>>, <<\h41, 512>>, <<\h4a, 1024>>,
              <<\h4b, 2048>>, <<\h01, 16>>, <<\h02, 32>>, <<\h03, 64>>, <<\h04, 128>>}

probe_sst(idcode) ==
    Found({Part("sst", 4 * 1024, e[2]) : e \in {f \in sst_table : f[1] = idcode[3]}})

\* Id, extended id, pages in a sector, sectors.
spansion_table == {<<\h0213, 0, 256, 16>>, <<\h0214, 0, 256, 32>>,
                   <<\h0215, 0, 256, 64>>, <<\h0216, 0, 256, 128>>,
                   <<\h2018, \h0301, 256, 256>>, <<\h2018, \h0300, 1024, 64>>,
                   <<\h0215, \h4d00, 256, 64>>}

probe_spansion(idcode) ==
    Found({Part("spansion", 256 * e[3], e[4]) :
              e \in {f \in spansion_table : <<f[1], f[2]>> = <<Id(idcode), ExtId(idcode)>>}})

\* Id, pages in a sector, sectors.
stmicro_table == {<<\h11, 128, 4>>, <<\h15, 256, 32>>, <<\h12, 256, 4>>,
                  <<\h16, 256, 64>>, <<\h13, 256, 8>>, <<\h17, 256, 128>>,
                  <<\h14, 256, 16>>, <<\h18, 1024, 64>>}

\* Slip: the signature of RES taken for the id.
stmicro_id_Raw(idcode, res) ==
    IF idcode[1] # 255 THEN idcode[3]
    ELSE IF res[4] \div 16 = 1 THEN res[4] ELSE 0

\* A part that does not know RDID answers 0xFF; its signature is one less.
stmicro_id(idcode, res) ==
    IF idcode[1] # 255 THEN idcode[3]
    ELSE IF res[4] \div 16 = 1 THEN res[4] + 1 ELSE 0

probe_stmicro(idcode, res) ==
    Found({Part("stmicro", 256 * e[2], e[3]) :
              e \in {f \in stmicro_table : f[1] = stmicro_id(idcode, res)}})

-----------------------------------------------------------------------------
\* spi_flash_probe: the table flashes has each manufacturer once.
spi_flash_probe(idcode, res) ==
    CASE idcode[1] = \h1f -> probe_adesto(idcode)
      [] idcode[1] = \h1c -> probe_eon(idcode)
      [] idcode[1] = \hc8 -> probe_gigadevice(idcode)
      [] idcode[1] = \hc2 -> probe_macronix(idcode)
      [] idcode[1] = \h01 -> probe_spansion(idcode)
      [] idcode[1] = \hbf -> probe_sst(idcode)
      [] idcode[1] \in {\h20, \hff} -> probe_stmicro(idcode, res)
      [] idcode[1] = \hef -> probe_winbond(idcode)
      [] OTHER -> NoPart
=============================================================================

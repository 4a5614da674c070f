------------------------------ MODULE MCMegaRom ------------------------------
(***************************************************************************)
(* One cartridge slot; every mapper code of rom.h, a 32KB image (4 banks   *)
(* of 8KB, 2 of 16KB) and a 40KB one (5 banks of 8KB, not a multiple of    *)
(* 16KB, so ASCII16 registration fails); written values below, at and far *)
(* above the bank count, and 0x3F.                                          *)
(***************************************************************************)
EXTENDS MegaRom

MCCartSlots == {1}
MCVariants == {MAPPER_KONAMI, MAPPER_KONAMI_SCC, MAPPER_ASCII8, MAPPER_ASCII16,
               MAPPER_GAMEMASTER2}
MCRomSizes == {32768, 40960}
MCValues == {1, 6, 63}
\* every control address of every variant and ROM_START, which none decodes
MCWriteAddrs == AllRegs \cup {16384}

\* The scenario of the ASCII8 end-to-end example of spec.md section 8
MCSpecVariants == {MAPPER_ASCII8}
MCSpecRomSizes == {65536}
MCSpecValues == {3, 5}
MCSpecWriteAddrs == {24576, 28672}

=============================================================================

----------------------------- MODULE MsxHeaders -----------------------------
(***************************************************************************)
(* The preprocessor-visible content of the headers in src/include/msx:    *)
(* each header is its include guard and the sequence of its #define       *)
(* directives and declarations, in source order.                          *)
(*                                                                         *)
(* A directive is a record.  A #define keeps its name, whether it is      *)
(* function-like, its parameter list and its replacement list.  A         *)
(* declaration (prototype, typedef, struct member) keeps the identifiers  *)
(* it introduces, the ones an object-like macro of the same name would    *)
(* rewrite.  Replacement lists keep every literal of an object-like       *)
(* macro, spelled as in the source (the preprocessor compares spellings), *)
(* and, for function-like macros, the identifiers and calls: operators,   *)
(* casts and keywords are left out, they never take part in expansion.    *)
(***************************************************************************)
EXTENDS Naturals, Sequences

\* A term of a replacement list: an identifier the preprocessor looks up,
\* a literal it never rewrites, or a call f(a1, ..., an) whose arguments
\* are themselves term sequences (the argument count is the one written).
Id(n) == [k |-> "id", name |-> n, args |-> <<>>]
Lit(n) == [k |-> "lit", name |-> n, args |-> <<>>]
Call(f, as) == [k |-> "call", name |-> f, args |-> as]
Ids(s) == [i \in DOMAIN s |-> Id(s[i])]
Call1(f, a) == Call(f, <<Ids(a)>>)
Call2(f, a, b) == Call(f, <<Ids(a), Ids(b)>>)

\* Directives.
Fn(n, ps, body) ==
    [op |-> "define", name |-> n, fn |-> TRUE, params |-> ps, body |-> body]
ObjToks(n, toks) ==
    [op |-> "define", name |-> n, fn |-> FALSE, params |-> <<>>,
     body |-> [i \in DOMAIN toks |-> Lit(toks[i])]]
Guard(n) == ObjToks(n, <<>>)
Objs(s) == [i \in 1 .. Len(s) \div 2 |-> ObjToks(s[2*i-1], <<s[2*i]>>)]
Aliases(s) ==
    [i \in 1 .. Len(s) \div 2 |->
        [op |-> "define", name |-> s[2*i-1], fn |-> FALSE, params |-> <<>>,
         body |-> <<Id(s[2*i])>>]]
Decl(names) == [op |-> "declare", names |-> names]

-----------------------------------------------------------------------------
(* slot.h *)
SlotConsts == Objs(<<
   "SLOT_0", "0x00", "SLOT_1", "0x01", "SLOT_2", "0x02",
   "SLOT_3", "0x03", "SLOT_EXPANDED", "0x80", "PAGE_0", "0x0000",
   "PAGE_1", "0x4000", "PAGE_2", "0x8000", "PAGE_3", "0xC000",
   "PAGE_SIZE", "0x4000", "SLOT_SELECT_PORT", "0xA8", "SLOT_SECONDARY_REG", "0xFFFF",
   "EXPTBL", "0xFCC1", "SLTTBL", "0xFCC5", "SLTATR", "0xFCC9",
   "SLTWRK", "0xFD09">>)
SlotMacroDefs == <<
   Fn("MAKE_SLOT", <<"primary", "secondary">>,
      Ids(<<"SLOT_EXPANDED", "secondary", "primary">>)),
   Fn("MAKE_SLOT_PRIMARY", <<"primary">>, Ids(<<"primary">>)),
   Fn("GET_PRIMARY_SLOT", <<"slot">>, Ids(<<"slot">>)),
   Fn("GET_SECONDARY_SLOT", <<"slot">>, Ids(<<"slot">>)),
   Fn("IS_EXPANDED_SLOT", <<"slot">>, Ids(<<"slot", "SLOT_EXPANDED">>)),
   Fn("ADDR_TO_PAGE", <<"addr">>, Ids(<<"addr">>)),
   Fn("SLOT_FOR_PAGE", <<"slot", "page">>, Ids(<<"slot", "page">>))>>
SlotDecls == Decl({"slot_read", "slot_write", "slot_call", "interslot_call",
                   "rom_get_slot", "rom_is_expanded", "slot_search"})
\* Mutant: BIOS_ENASLT out of step with the bios.h entry (0x0024).
SlotBiosEnasltTypo == Objs(<<
   "BIOS_RDSLT", "0x000C", "BIOS_WRSLT", "0x0014", "BIOS_CALSLT", "0x001C",
   "BIOS_ENASLT", "0x0025", "BIOS_CALLF", "0x0030">>)
SlotBios == Objs(<<
   "BIOS_RDSLT", "0x000C", "BIOS_WRSLT", "0x0014", "BIOS_CALSLT", "0x001C",
   "BIOS_ENASLT", "0x0024", "BIOS_CALLF", "0x0030">>)
SlotH == <<Guard("_MSX_SLOT_H")>> \o SlotConsts \o SlotMacroDefs
            \o <<SlotDecls>> \o SlotBios

-----------------------------------------------------------------------------
(* rom.h *)
RomConsts == Objs(<<
   "ROM_SIG1", "0x41", "ROM_SIG2", "0x42", "ROM_TYPE_16K", "0",
   "ROM_TYPE_32K", "1", "ROM_TYPE_48K", "2", "ROM_TYPE_MEGA", "3",
   "PAGE0_ADDR", "0x0000", "PAGE1_ADDR", "0x4000", "PAGE2_ADDR", "0x8000",
   "PAGE3_ADDR", "0xC000", "ROM_START", "0x4000", "ROM_INIT", "0x4002",
   "ROM_STATEMENT", "0x4004", "ROM_DEVICE", "0x4006", "ROM_TEXT", "0x4008",
   "ROM_RESERVED", "0x400A", "MAPPER_NONE", "0", "MAPPER_KONAMI", "1",
   "MAPPER_KONAMI_SCC", "2", "MAPPER_ASCII8", "3", "MAPPER_ASCII16", "4",
   "MAPPER_GAMEMASTER2", "5", "MAPPER_FMPAC", "6">>)
RomMapperRegs == Objs(<<
   "KONAMI_BANK0", "0x4000", "KONAMI_BANK1", "0x6000", "KONAMI_BANK2", "0x8000",
   "KONAMI_BANK3", "0xA000", "KONAMI_REG1", "0x6000", "KONAMI_REG2", "0x8000",
   "KONAMI_REG3", "0xA000", "KONAMI_SCC_REG0", "0x5000", "KONAMI_SCC_REG1", "0x7000",
   "KONAMI_SCC_REG2", "0x9000", "KONAMI_SCC_REG3", "0xB000", "KONAMI_SCC_ADDR", "0x9800",
   "ASCII8_BANK0", "0x4000", "ASCII8_BANK1", "0x6000", "ASCII8_BANK2", "0x8000",
   "ASCII8_BANK3", "0xA000", "ASCII8_REG0", "0x6000", "ASCII8_REG1", "0x6800",
   "ASCII8_REG2", "0x7000", "ASCII8_REG3", "0x7800", "ASCII16_BANK0", "0x4000",
   "ASCII16_BANK1", "0x8000", "ASCII16_REG0", "0x6000", "ASCII16_REG1", "0x7000">>)
RomSlotDefs ==
   Objs(<<"SLOT_SELECT", "0xA8", "SLOT_SECONDARY", "0xFFFF">>)
   \o <<Fn("SLOT_PAGE", <<"slot", "page">>, Ids(<<"slot", "page">>)),
        Fn("SLOT_EXPANDED", <<"slot">>, Ids(<<"slot">>))>>
RomDecls == Decl({"slot_read", "slot_write", "slot_call", "slot_search",
                  "rom_set_bank_konami", "rom_set_bank_ascii8",
                  "rom_set_bank_ascii16", "interslot_call", "interslot_read",
                  "interslot_write", "rom_get_slot", "rom_is_expanded"})
RomH == <<Guard("_MSX_ROM_H")>> \o RomConsts \o RomMapperRegs \o RomSlotDefs
           \o <<RomDecls>>

-----------------------------------------------------------------------------
(* system.h *)
\* Mutant: PEEKW declared with the parameter list of POKEW.
SysMemMacrosPeekwParams ==
   <<Fn("PEEK", <<"addr">>, Ids(<<"addr">>)),
     Fn("POKE", <<"addr", "val">>, Ids(<<"addr", "val">>)),
     Fn("PEEKW", <<"addr", "val">>, Ids(<<"addr">>)),
     Fn("POKEW", <<"addr", "val">>, Ids(<<"addr", "val">>))>>
   \o Objs(<<"MSXVER", "0x002D", "MSX_VERSION_1", "0", "MSX_VERSION_2", "1",
             "MSX_VERSION_2PLUS", "2", "MSX_VERSION_TURBOR", "3">>)
   \o <<Fn("GET_MSX_VERSION", <<>>, <<Call1("PEEK", <<"MSXVER">>)>>)>>
SysMemMacros ==
   <<Fn("PEEK", <<"addr">>, Ids(<<"addr">>)),
     Fn("POKE", <<"addr", "val">>, Ids(<<"addr", "val">>)),
     Fn("PEEKW", <<"addr">>, Ids(<<"addr">>)),
     Fn("POKEW", <<"addr", "val">>, Ids(<<"addr", "val">>))>>
   \o Objs(<<"MSXVER", "0x002D", "MSX_VERSION_1", "0", "MSX_VERSION_2", "1",
             "MSX_VERSION_2PLUS", "2", "MSX_VERSION_TURBOR", "3">>)
   \o <<Fn("GET_MSX_VERSION", <<>>, <<Call1("PEEK", <<"MSXVER">>)>>)>>
SysScreenArea == Objs(<<
   "LINL40", "0xF3AE", "LINL32", "0xF3AF", "LINLEN", "0xF3B0",
   "CRTCNT", "0xF3B1", "CLMLST", "0xF3B2", "TXTNAM", "0xF3B3",
   "TXTCOL", "0xF3B5", "TXTCGP", "0xF3B7", "TXTATR", "0xF3B9",
   "TXTPAT", "0xF3BB", "T32NAM", "0xF3BD", "T32COL", "0xF3BF",
   "T32CGP", "0xF3C1", "T32ATR", "0xF3C3", "T32PAT", "0xF3C5",
   "GRPNAM", "0xF3C7", "GRPCOL", "0xF3C9", "GRPCGP", "0xF3CB",
   "GRPATR", "0xF3CD", "GRPPAT", "0xF3CF", "MLTNAM", "0xF3D1",
   "MLTCOL", "0xF3D3", "MLTCGP", "0xF3D5", "MLTATR", "0xF3D7",
   "MLTPAT", "0xF3D9", "FORCLR", "0xF3E9", "BAKCLR", "0xF3EA",
   "BDRCLR", "0xF3EB", "CSRY", "0xF3DC", "CSRX", "0xF3DD">>)
SysVdpShadows == Objs(<<
   "RG0SAV", "0xF3DF", "RG1SAV", "0xF3E0", "RG2SAV", "0xF3E1",
   "RG3SAV", "0xF3E2", "RG4SAV", "0xF3E3", "RG5SAV", "0xF3E4",
   "RG6SAV", "0xF3E5", "RG7SAV", "0xF3E6", "RG8SAV", "0xFFE7",
   "RG9SAV", "0xFFE8", "RG10SAV", "0xFFE9", "RG11SAV", "0xFFEA",
   "RG12SAV", "0xFFEB", "RG13SAV", "0xFFEC", "RG14SAV", "0xFFED",
   "RG15SAV", "0xFFEE", "RG16SAV", "0xFFEF", "RG17SAV", "0xFFF0",
   "RG18SAV", "0xFFF1", "RG19SAV", "0xFFF2", "RG20SAV", "0xFFF3",
   "RG21SAV", "0xFFF4", "RG22SAV", "0xFFF5", "RG23SAV", "0xFFF6",
   "STATFL", "0xF3E7", "STAT_INT", "0x80", "STAT_5S", "0x40",
   "STAT_COL", "0x20", "STAT_5SN", "0x1F">>)
SysWorkArea == Objs(<<
   "TRGFLG", "0xF3E8",
   "OLDKEY", "0xFBDA", "NEWKEY", "0xFBE5", "KEYBUF", "0xFBF0",
   "CLIKSW", "0xF3DB", "CLIKFL", "0xF3DC", "SCRMOD", "0xFCAF",
   "OLDSCR", "0xFCB0", "CATEFG", "0xFCAE", "CONSDFG", "0xF3DE",
   "JIFFY", "0xFC9E", "INTCNT", "0xFCA2", "MUSICF", "0xFB3E",
   "PLESSION", "0xFB3F", "VOTEFG", "0xFBAD", "LOWLIM", "0xFCA0",
   "WINWID", "0xFCA1", "HEADER", "0xF3BE", "ASPTEFG", "0xF3BF">>)
\* Mutant: SLTTBL one byte off the bios.h address.
SysSlotAreaSlttblTypo == Objs(<<
   "EXPTBL", "0xFCC1", "SLTTBL", "0xFCC6", "SLTATR", "0xFCC9",
   "SLTWRK", "0xFD09">>)
SysSlotArea == Objs(<<
   "EXPTBL", "0xFCC1", "SLTTBL", "0xFCC5", "SLTATR", "0xFCC9",
   "SLTWRK", "0xFD09">>)
SysDevices == Objs(<<
   "RAMTOP", "0xFC4A", "HIMEM", "0xFC4A",
   "STKTOP", "0xF674", "BOTTOM", "0xFC48", "DISKVE", "0xFFA7",
   "BREAKV", "0xFFAB", "VDP_PORT0", "0x98", "VDP_PORT1", "0x99",
   "VDP_PORT2", "0x9A", "VDP_PORT3", "0x9B", "RTCBLK", "0xFFCA",
   "RTCMOD", "0xFFCB", "HTIMI", "0xFD9F", "HKEYI", "0xFD9A",
   "HCHPU", "0xFDA4", "HDSKO", "0xFE21">>)
SysUtilMacros == <<
   Fn("GET_SCREEN_MODE", <<>>, <<Call1("PEEK", <<"SCRMOD">>)>>),
   Fn("GET_FORE_COLOR", <<>>, <<Call1("PEEK", <<"FORCLR">>)>>),
   Fn("SET_FORE_COLOR", <<"c">>, <<Call2("POKE", <<"FORCLR">>, <<"c">>)>>),
   Fn("GET_BACK_COLOR", <<>>, <<Call1("PEEK", <<"BAKCLR">>)>>),
   Fn("SET_BACK_COLOR", <<"c">>, <<Call2("POKE", <<"BAKCLR">>, <<"c">>)>>),
   Fn("GET_BORDER_COLOR", <<>>, <<Call1("PEEK", <<"BDRCLR">>)>>),
   Fn("SET_BORDER_COLOR", <<"c">>, <<Call2("POKE", <<"BDRCLR">>, <<"c">>)>>),
   Fn("GET_CURSOR_X", <<>>, <<Call1("PEEK", <<"CSRX">>)>>),
   Fn("GET_CURSOR_Y", <<>>, <<Call1("PEEK", <<"CSRY">>)>>),
   Fn("GET_TIMER", <<>>, <<Call1("PEEKW", <<"JIFFY">>)>>),
   Fn("IS_SLOT_EXPANDED", <<"slot">>, <<Call1("PEEK", <<"EXPTBL", "slot">>)>>),
   Fn("KEY_CLICK_ON", <<>>, <<Call("POKE", <<Ids(<<"CLIKSW">>), <<Lit("1")>>>>)>>),
   Fn("KEY_CLICK_OFF", <<>>, <<Call("POKE", <<Ids(<<"CLIKSW">>), <<Lit("0")>>>>)>>),
   Fn("msx_version", <<>>, <<Call1("PEEK", <<"MSXVER">>)>>),
   Fn("is_msx2", <<>>, <<Call1("PEEK", <<"MSXVER">>)>>),
   Fn("is_msx2plus", <<>>, <<Call1("PEEK", <<"MSXVER">>)>>),
   Fn("is_turbor", <<>>, <<Call1("PEEK", <<"MSXVER">>)>>)>>
SystemH == <<Guard("_MSX_SYSTEM_H")>> \o SysMemMacros \o SysScreenArea
              \o SysVdpShadows \o SysWorkArea
              \o SysSlotArea \o SysDevices \o SysUtilMacros

-----------------------------------------------------------------------------
(* bios.h *)
BiosDeclsIO == Decl({
   "chput", "chget", "chsns", "lptout", "lptstt", "cls", "posit", "beep",
   "erafnk", "dspfnk", "totext", "initxt", "init32", "inigrp", "inimlt",
   "chgmod", "chgclr", "gtstck", "gttrig", "gtpdl", "gtpad", "wrtvdp",
   "rdvrm", "wrtvrm", "setrd", "setwrt", "filvrm", "ldirvm", "ldirmv",
   "disscr", "enascr"})
BiosDeclsSys == Decl({
   "clrspr", "calpat", "calatr", "gspsiz", "gicini", "wrtpsg", "rdpsg",
   "strtms", "tapion", "tapin", "tapiof", "tapoon", "tapout", "tapoof",
   "stmotr", "rdslt", "wrslt", "calslt", "enaslt", "breakx", "iscntc",
   "ckcntc"})
BiosEntries == Objs(<<
   "BIOS_CHKRAM", "0x0000", "BIOS_SYNCHR", "0x0008", "BIOS_RDSLT", "0x000C",
   "BIOS_CHRGTR", "0x0010", "BIOS_WRSLT", "0x0014", "BIOS_OUTDO", "0x0018",
   "BIOS_CALSLT", "0x001C", "BIOS_DCOMPR", "0x0020", "BIOS_ENASLT", "0x0024",
   "BIOS_GETYPR", "0x0028", "BIOS_CALLF", "0x0030", "BIOS_KEYINT", "0x0038",
   "BIOS_INITIO", "0x003B", "BIOS_INIFNK", "0x003E", "BIOS_DISSCR", "0x0041",
   "BIOS_ENASCR", "0x0044", "BIOS_WRTVDP", "0x0047", "BIOS_RDVRM", "0x004A",
   "BIOS_WRTVRM", "0x004D", "BIOS_SETRD", "0x0050", "BIOS_SETWRT", "0x0053",
   "BIOS_FILVRM", "0x0056", "BIOS_LDIRMV", "0x0059", "BIOS_LDIRVM", "0x005C",
   "BIOS_CHGMOD", "0x005F", "BIOS_CHGCLR", "0x0062", "BIOS_NMI", "0x0066",
   "BIOS_CLRSPR", "0x0069", "BIOS_INITXT", "0x006C", "BIOS_INIT32", "0x006F",
   "BIOS_INIGRP", "0x0072", "BIOS_INIMLT", "0x0075", "BIOS_SETTXT", "0x0078",
   "BIOS_SETT32", "0x007B", "BIOS_SETGRP", "0x007E", "BIOS_SETMLT", "0x0081",
   "BIOS_CALPAT", "0x0084", "BIOS_CALATR", "0x0087", "BIOS_GSPSIZ", "0x008A",
   "BIOS_GRPPRT", "0x008D", "BIOS_GICINI", "0x0090", "BIOS_WRTPSG", "0x0093",
   "BIOS_RDPSG", "0x0096", "BIOS_STRTMS", "0x0099", "BIOS_CHSNS", "0x009C",
   "BIOS_CHGET", "0x009F", "BIOS_CHPUT", "0x00A2", "BIOS_LPTOUT", "0x00A5",
   "BIOS_LPTSTT", "0x00A8", "BIOS_CNVCHR", "0x00AB", "BIOS_PINLIN", "0x00AE",
   "BIOS_INLIN", "0x00B1", "BIOS_QINLIN", "0x00B4", "BIOS_BREAKX", "0x00B7",
   "BIOS_ISCNTC", "0x00BA", "BIOS_CKCNTC", "0x00BD", "BIOS_BEEP", "0x00C0",
   "BIOS_CLS", "0x00C3", "BIOS_POSIT", "0x00C6", "BIOS_FNKSB", "0x00C9",
   "BIOS_ERAFNK", "0x00CC", "BIOS_DSPFNK", "0x00CF", "BIOS_TOTEXT", "0x00D2",
   "BIOS_GTSTCK", "0x00D5", "BIOS_GTTRIG", "0x00D8", "BIOS_GTPAD", "0x00DB",
   "BIOS_GTPDL", "0x00DE", "BIOS_TAPION", "0x00E1", "BIOS_TAPIN", "0x00E4",
   "BIOS_TAPIOF", "0x00E7", "BIOS_TAPOON", "0x00EA", "BIOS_TAPOUT", "0x00ED",
   "BIOS_TAPOOF", "0x00F0", "BIOS_STMOTR", "0x00F3", "BIOS_LFTQ", "0x00F6",
   "BIOS_PUTQ", "0x00F9", "BIOS_RIGHTC", "0x00FC", "BIOS_LEFTC", "0x00FF",
   "BIOS_UPC", "0x0102", "BIOS_TUPC", "0x0105", "BIOS_DOWNC", "0x0108",
   "BIOS_TDOWNC", "0x010B", "BIOS_SCALXY", "0x010E", "BIOS_MAPXY", "0x0111",
   "BIOS_FETCHC", "0x0114", "BIOS_STOREC", "0x0117", "BIOS_SETATR", "0x011A",
   "BIOS_READC", "0x011D", "BIOS_SETC", "0x0120", "BIOS_NSETCX", "0x0123",
   "BIOS_GTASPC", "0x0126", "BIOS_PNTINI", "0x0129", "BIOS_SCANR", "0x012C",
   "BIOS_SCANL", "0x012F">>)
BiosWorkArea == Objs(<<
   "SYSVARS_BASE", "0xF380", "LINL40", "0xF3AE", "LINL32", "0xF3AF",
   "LINLEN", "0xF3B0", "CRTCNT", "0xF3B1", "CLMLST", "0xF3B2",
   "TXTNAM", "0xF3B3", "TXTCOL", "0xF3B5", "TXTCGP", "0xF3B7",
   "TXTATR", "0xF3B9", "TXTPAT", "0xF3BB", "T32NAM", "0xF3BD",
   "T32COL", "0xF3BF", "T32CGP", "0xF3C1", "T32ATR", "0xF3C3",
   "T32PAT", "0xF3C5", "GRPNAM", "0xF3C7", "GRPCOL", "0xF3C9",
   "GRPCGP", "0xF3CB", "GRPATR", "0xF3CD", "GRPPAT", "0xF3CF",
   "MLTNAM", "0xF3D1", "MLTCOL", "0xF3D3", "MLTCGP", "0xF3D5",
   "MLTATR", "0xF3D7", "MLTPAT", "0xF3D9", "CLIKSW", "0xF3DB",
   "CSRY", "0xF3DC", "CSRX", "0xF3DD", "CONSDFG", "0xF3DE",
   "RG0SAV", "0xF3DF", "RG1SAV", "0xF3E0", "RG2SAV", "0xF3E1",
   "RG3SAV", "0xF3E2", "RG4SAV", "0xF3E3", "RG5SAV", "0xF3E4",
   "RG6SAV", "0xF3E5", "RG7SAV", "0xF3E6", "STATFL", "0xF3E7",
   "TRGFLG", "0xF3E8", "FORCLR", "0xF3E9", "BAKCLR", "0xF3EA",
   "BDRCLR", "0xF3EB", "MAXUPD", "0xF3EC", "MINUPD", "0xF3EE",
   "ATTEFG", "0xF3F0", "JIFFY", "0xFC9E", "EXPTBL", "0xFCC1",
   "SLTTBL", "0xFCC5", "SLTATR", "0xFCC9">>)
BiosH == <<Guard("_MSX_BIOS_H"), BiosDeclsIO, BiosDeclsSys>> \o BiosEntries
            \o BiosWorkArea


-----------------------------------------------------------------------------
(* vdp.h *)
VdpModes == Objs(<<
   "SCREEN0", "0", "SCREEN1", "1", "SCREEN2", "2",
   "SCREEN3", "3", "SCREEN4", "4", "SCREEN5", "5",
   "SCREEN6", "6", "SCREEN7", "7", "SCREEN8", "8",
   "SCREEN10", "10", "SCREEN11", "11", "SCREEN12", "12",
   "VDP_DATA", "0x98", "VDP_CMD", "0x99", "VDP_PALET", "0x9A",
   "VDP_IREG", "0x9B">>)
VdpColors == Objs(<<
   "COLOR_TRANSPARENT", "0", "COLOR_BLACK", "1",
   "COLOR_GREEN", "2", "COLOR_LIGHT_GREEN", "3", "COLOR_BLUE", "4",
   "COLOR_LIGHT_BLUE", "5", "COLOR_DARK_RED", "6", "COLOR_CYAN", "7",
   "COLOR_RED", "8", "COLOR_LIGHT_RED", "9", "COLOR_YELLOW", "10",
   "COLOR_LIGHT_YELLOW", "11", "COLOR_DARK_GREEN", "12", "COLOR_MAGENTA", "13",
   "COLOR_GRAY", "14", "COLOR_WHITE", "15">>)
   \o Aliases(<<
   "TRANSPARENT", "COLOR_TRANSPARENT", "BLACK", "COLOR_BLACK",
   "GREEN", "COLOR_GREEN", "LIGHT_GREEN", "COLOR_LIGHT_GREEN",
   "BLUE", "COLOR_BLUE", "LIGHT_BLUE", "COLOR_LIGHT_BLUE",
   "DARK_RED", "COLOR_DARK_RED", "CYAN", "COLOR_CYAN", "RED", "COLOR_RED",
   "LIGHT_RED", "COLOR_LIGHT_RED", "YELLOW", "COLOR_YELLOW",
   "LIGHT_YELLOW", "COLOR_LIGHT_YELLOW", "DARK_GREEN", "COLOR_DARK_GREEN",
   "MAGENTA", "COLOR_MAGENTA", "GRAY", "COLOR_GRAY", "WHITE", "COLOR_WHITE">>)
VdpSpriteAndTables == Objs(<<
   "SPRITE_8X8", "0", "SPRITE_16X16", "1", "SPRITE_MAGNIFY", "2",
   "MAX_SPRITES", "32", "SPRITE_DISABLE", "208", "S1_NAME_TBL", "0x1800",
   "S1_COLOR_TBL", "0x2000", "S1_PATTERN_TBL", "0x0000", "S1_SPRITE_ATTR", "0x1B00",
   "S1_SPRITE_PAT", "0x3800", "S2_NAME_TBL", "0x1800", "S2_COLOR_TBL", "0x2000",
   "S2_PATTERN_TBL", "0x0000", "S2_SPRITE_ATTR", "0x1B00", "S2_SPRITE_PAT", "0x3800",
   "R0_EXTERNAL_VIDEO", "0x01", "R0_MODE_BIT1", "0x02", "R1_SPRITE_MAG", "0x01",
   "R1_SPRITE_SIZE", "0x02", "R1_MODE_BIT3", "0x08", "R1_MODE_BIT2", "0x10",
   "R1_INT_ENABLE", "0x20", "R1_SCREEN_ENABLE", "0x40", "R1_VRAM_16K", "0x80",
   "STATUS_INT", "0x80", "STATUS_5S", "0x40", "STATUS_COLLISION", "0x20",
   "STATUS_5S_NUM", "0x1F">>)
VdpDecls == Decl({
   "vdp_set_mode", "vdp_get_mode", "vdp_set_color", "vdp_set_color_table",
   "vdp_write", "vdp_read", "vdp_fill", "vdp_copy_to_vram",
   "vdp_copy_from_vram", "vdp_set_reg", "vdp_get_status", "vdp_screen_on",
   "vdp_screen_off", "vdp_set_sprite_mode", "vdp_set_sprite_pattern",
   "vdp_set_sprite", "vdp_set_sprite_pos", "vdp_set_sprite_color",
   "vdp_hide_sprite", "vdp_hide_all_sprites", "vdp_sprite_collision",
   "vdp_locate", "vdp_print", "vdp_putchar", "vdp_cls", "vdp_pset",
   "vdp_point", "vdp_line", "vdp_box", "vdp_boxfill", "vdp_circle",
   "vdp_set_pattern", "vdp_put_tile", "vdp_get_tile", "vdp_wait_vsync"})
\* Mutant: VDP_STATUS_IN reads a port name no header defines.
VdpMacrosStatusName == <<
   Fn("VDP_DATA_OUT", <<"data">>, <<Call2("outp", <<"VDP_DATA">>, <<"data">>)>>),
   Fn("VDP_DATA_IN", <<>>, <<Call1("inp", <<"VDP_DATA">>)>>),
   Fn("VDP_CMD_OUT", <<"data">>, <<Call2("outp", <<"VDP_CMD">>, <<"data">>)>>),
   Fn("VDP_STATUS_IN", <<>>, <<Call1("inp", <<"VDP_STATUS">>)>>),
   Fn("S1_ADDR", <<"x", "y">>, Ids(<<"S1_NAME_TBL", "y", "x">>)),
   Fn("S2_PATTERN_ADDR", <<"x", "y">>, Ids(<<"S2_PATTERN_TBL", "y", "y", "x">>)),
   Fn("MAKE_COLOR", <<"fg", "bg">>, Ids(<<"fg", "bg">>)),
   Fn("SPRITE_ATTR", <<"y", "x", "pat", "col">>, Ids(<<"y", "x", "pat", "col">>)),
   ObjToks("SPRITE_EC", <<"0x80">>)>>
\* S1_ADDR: (S1_NAME_TBL + (y) * 32 + (x)); the arithmetic is dropped, the
\* identifiers it uses are kept.
VdpMacros == <<
   Fn("VDP_DATA_OUT", <<"data">>, <<Call2("outp", <<"VDP_DATA">>, <<"data">>)>>),
   Fn("VDP_DATA_IN", <<>>, <<Call1("inp", <<"VDP_DATA">>)>>),
   Fn("VDP_CMD_OUT", <<"data">>, <<Call2("outp", <<"VDP_CMD">>, <<"data">>)>>),
   Fn("VDP_STATUS_IN", <<>>, <<Call1("inp", <<"VDP_CMD">>)>>),
   Fn("S1_ADDR", <<"x", "y">>, Ids(<<"S1_NAME_TBL", "y", "x">>)),
   Fn("S2_PATTERN_ADDR", <<"x", "y">>, Ids(<<"S2_PATTERN_TBL", "y", "y", "x">>)),
   Fn("MAKE_COLOR", <<"fg", "bg">>, Ids(<<"fg", "bg">>)),
   Fn("SPRITE_ATTR", <<"y", "x", "pat", "col">>, Ids(<<"y", "x", "pat", "col">>)),
   ObjToks("SPRITE_EC", <<"0x80">>)>>
VdpH == <<Guard("_MSX_VDP_H")>> \o VdpModes \o VdpColors \o VdpSpriteAndTables
           \o <<VdpDecls>> \o VdpMacros

-----------------------------------------------------------------------------
(* psg.h *)
PsgPortsAndRegs == Objs(<<
   "PSG_ADDR", "0xA0", "PSG_WRITE", "0xA1", "PSG_READ", "0xA2",
   "PSG_REG_A_FINE", "0", "PSG_REG_A_COARSE", "1", "PSG_REG_B_FINE", "2",
   "PSG_REG_B_COARSE", "3", "PSG_REG_C_FINE", "4", "PSG_REG_C_COARSE", "5",
   "PSG_REG_NOISE", "6", "PSG_REG_MIXER", "7", "PSG_REG_A_VOL", "8",
   "PSG_REG_B_VOL", "9", "PSG_REG_C_VOL", "10", "PSG_REG_ENV_FINE", "11",
   "PSG_REG_ENV_COARSE", "12", "PSG_REG_ENV_SHAPE", "13", "PSG_REG_IO_A", "14",
   "PSG_REG_IO_B", "15">>)
PsgValues == Objs(<<
   "PSG_TONE_A_OFF", "0x01", "PSG_TONE_B_OFF", "0x02", "PSG_TONE_C_OFF", "0x04",
   "PSG_NOISE_A_OFF", "0x08", "PSG_NOISE_B_OFF", "0x10", "PSG_NOISE_C_OFF", "0x20",
   "PSG_IO_A_OUT", "0x40", "PSG_IO_B_OUT", "0x80", "PSG_ALL_OFF", "0x3F",
   "PSG_TONE_ONLY", "0x38", "PSG_NOISE_ONLY", "0x07", "PSG_ALL_ON", "0x00",
   "PSG_VOL_OFF", "0x00", "PSG_VOL_MIN", "0x01", "PSG_VOL_MAX", "0x0F",
   "PSG_VOL_ENV", "0x10", "PSG_ENV_DECAY", "0x00", "PSG_ENV_ATTACK", "0x04",
   "PSG_ENV_SAW_DOWN", "0x08", "PSG_ENV_SAW_DOWN_HOLD", "0x09",
   "PSG_ENV_TRIANGLE_DOWN", "0x0A", "PSG_ENV_HOLD_HIGH", "0x0B",
   "PSG_ENV_SAW_UP", "0x0C", "PSG_ENV_HOLD_HIGH2", "0x0D",
   "PSG_ENV_TRIANGLE_UP", "0x0E", "PSG_ENV_SAW_UP_HOLD", "0x0F",
   "PSG_CLOCK", "1789772">>)
   \o <<Fn("PSG_FREQ_TO_PERIOD", <<"freq">>, Ids(<<"PSG_CLOCK", "freq">>)),
        Fn("PSG_ENV_FREQ_TO_PERIOD", <<"freq">>, Ids(<<"PSG_CLOCK", "freq">>))>>
   \o Objs(<<
   "NOTE_C4", "262", "NOTE_CS4", "277", "NOTE_D4", "294",
   "NOTE_DS4", "311", "NOTE_E4", "330", "NOTE_F4", "349",
   "NOTE_FS4", "370", "NOTE_G4", "392", "NOTE_GS4", "415",
   "NOTE_A4", "440", "NOTE_AS4", "466", "NOTE_B4", "494">>)
PsgDecls == Decl({
   "psg_init", "psg_silence", "psg_write", "psg_read", "psg_tone",
   "psg_freq", "psg_note", "psg_volume", "psg_envelope_vol", "psg_noise",
   "psg_mixer", "psg_channel_on", "psg_channel_off", "psg_envelope_period",
   "psg_envelope_shape", "psg_envelope", "psg_play_tone", "psg_beep"})
\* PSG_WRITE(reg, val): do { outp(PSG_ADDR, (reg)); outp(PSG_WRITE, (val)); }
\* PSG_READ(reg): (outp(PSG_ADDR, (reg)), inp(PSG_READ))
PsgInlineMacros == <<
   Fn("PSG_WRITE", <<"reg", "val">>,
      <<Call2("outp", <<"PSG_ADDR">>, <<"reg">>),
        Call2("outp", <<"PSG_WRITE">>, <<"val">>)>>),
   Fn("PSG_READ", <<"reg">>,
      <<Call2("outp", <<"PSG_ADDR">>, <<"reg">>), Call1("inp", <<"PSG_READ">>)>>)>>
   \o Objs(<<"PSG_CHANNEL_A", "0", "PSG_CHANNEL_B", "1", "PSG_CHANNEL_C", "2">>)
PsgH == <<Guard("_MSX_PSG_H")>> \o PsgPortsAndRegs \o PsgValues \o <<PsgDecls>>
           \o PsgInlineMacros


-----------------------------------------------------------------------------
(* sprite.h *)
\* typedef struct { y; x; pattern; color; } SPRITE_ATTR;
SpriteAttrType == Decl({"y", "x", "pattern", "color", "SPRITE_ATTR"})
\* Mutant: the 16x16 size constant under the vdp.h name SPRITE_16X16.
SpriteConstsSize16Name == Objs(<<
   "SPRITE_SIZE_8X8", "0", "SPRITE_16X16", "1", "SPRITE_MAG_1X", "0",
   "SPRITE_MAG_2X", "1", "SPRITE_MAX", "32", "SPRITE_Y_DISABLE", "208",
   "SPRITE_Y_HIDDEN", "209", "SPRITE_EC_BIT", "0x80", "SPRITE_PAT_SIZE_8", "8",
   "SPRITE_PAT_SIZE_16", "32">>)
SpriteConsts == Objs(<<
   "SPRITE_SIZE_8X8", "0", "SPRITE_SIZE_16X16", "1", "SPRITE_MAG_1X", "0",
   "SPRITE_MAG_2X", "1", "SPRITE_MAX", "32", "SPRITE_Y_DISABLE", "208",
   "SPRITE_Y_HIDDEN", "209", "SPRITE_EC_BIT", "0x80", "SPRITE_PAT_SIZE_8", "8",
   "SPRITE_PAT_SIZE_16", "32">>)
\* Mutant: SPRITE_COLOR_EC uses the vdp.h name SPRITE_EC for the EC bit.
SpriteMacrosEcName == <<
   Fn("SPRITE_DEF", <<"y", "x", "pat", "col">>, Ids(<<"y", "x", "pat", "col">>)),
   Fn("SPRITE_DISABLE", <<"s">>, <<Id("s"), Lit("y"), Id("SPRITE_Y_DISABLE")>>),
   Fn("SPRITE_COLOR_EC", <<"col">>, Ids(<<"col", "SPRITE_EC">>)),
   Fn("SPRITE_8X8", <<"name", "b0", "b1", "b2", "b3", "b4", "b5", "b6", "b7">>,
      Ids(<<"name", "b0", "b1", "b2", "b3", "b4", "b5", "b6", "b7">>))>>
\* SPRITE_DEF: { (y)-1, (x), (pat), (col) }; SPRITE_DISABLE: ((s)->y = ...),
\* where y is a member name, not the parameter; SPRITE_8X8 declares an array.
SpriteMacros == <<
   Fn("SPRITE_DEF", <<"y", "x", "pat", "col">>, Ids(<<"y", "x", "pat", "col">>)),
   Fn("SPRITE_DISABLE", <<"s">>, <<Id("s"), Lit("y"), Id("SPRITE_Y_DISABLE")>>),
   Fn("SPRITE_COLOR_EC", <<"col">>, Ids(<<"col", "SPRITE_EC_BIT">>)),
   Fn("SPRITE_8X8", <<"name", "b0", "b1", "b2", "b3", "b4", "b5", "b6", "b7">>,
      Ids(<<"name", "b0", "b1", "b2", "b3", "b4", "b5", "b6", "b7">>))>>
\* typedef struct { tl[8]; bl[8]; tr[8]; br[8]; } SPRITE_16X16;
SpriteQuadType == Decl({"tl", "bl", "tr", "br", "SPRITE_16X16"})
SpriteShapes == <<
   ObjToks("SPRITE_ARROW_RIGHT", <<"0x10", "0x18", "0xFC", "0xFE", "0xFC", "0x18", "0x10", "0x00">>),
   ObjToks("SPRITE_ARROW_DOWN", <<"0x10", "0x10", "0x10", "0xD6", "0x7C", "0x38", "0x10", "0x00">>),
   ObjToks("SPRITE_BALL", <<"0x3C", "0x7E", "0xFF", "0xFF", "0xFF", "0xFF", "0x7E", "0x3C">>),
   ObjToks("SPRITE_DIAMOND", <<"0x10", "0x38", "0x7C", "0xFE", "0x7C", "0x38", "0x10", "0x00">>),
   ObjToks("SPRITE_CROSS", <<"0x10", "0x10", "0x10", "0xFE", "0x10", "0x10", "0x10", "0x00">>),
   ObjToks("SPRITE_SQUARE", <<"0xFF", "0x81", "0x81", "0x81", "0x81", "0x81", "0x81", "0xFF">>),
   ObjToks("SPRITE_SQUARE_FILL", <<"0xFF", "0xFF", "0xFF", "0xFF", "0xFF", "0xFF", "0xFF", "0xFF">>)>>
SpriteH == <<Guard("_MSX_SPRITE_H"), SpriteAttrType>> \o SpriteConsts
              \o SpriteMacros \o <<SpriteQuadType>> \o SpriteShapes

-----------------------------------------------------------------------------
(* keycode.h *)
\* #define KEY_x row, mask: the replacement list is three tokens.
Keys(s) == [i \in 1 .. Len(s) \div 3 |->
              ObjToks(s[3*i-2], <<s[3*i-1], ",", s[3*i]>>)]
KeyRows == Objs(<<
   "NEWKEY_BASE", "0xFBE5", "OLDKEY_BASE", "0xFBDA", "KEY_ROW_0", "0",
   "KEY_ROW_1", "1", "KEY_ROW_2", "2", "KEY_ROW_3", "3",
   "KEY_ROW_4", "4", "KEY_ROW_5", "5", "KEY_ROW_6", "6",
   "KEY_ROW_7", "7", "KEY_ROW_8", "8", "KEY_ROW_9", "9",
   "KEY_ROW_10", "10">>)
KeyMatrix == Keys(<<
   "KEY_0", "0", "0x01", "KEY_1", "0", "0x02", "KEY_2", "0", "0x04",
   "KEY_3", "0", "0x08", "KEY_4", "0", "0x10", "KEY_5", "0", "0x20",
   "KEY_6", "0", "0x40", "KEY_7", "0", "0x80", "KEY_8", "1", "0x01",
   "KEY_9", "1", "0x02", "KEY_MINUS", "1", "0x04", "KEY_EQUAL", "1", "0x08",
   "KEY_BACKSLASH", "1", "0x10", "KEY_LBRACKET", "1", "0x20",
   "KEY_RBRACKET", "1", "0x40", "KEY_SEMICOLON", "1", "0x80",
   "KEY_APOSTROPHE", "2", "0x01", "KEY_GRAVE", "2", "0x02",
   "KEY_COMMA", "2", "0x04", "KEY_PERIOD", "2", "0x08", "KEY_SLASH", "2", "0x10",
   "KEY_ACCENT", "2", "0x20", "KEY_A", "2", "0x40", "KEY_B", "2", "0x80",
   "KEY_C", "3", "0x01", "KEY_D", "3", "0x02", "KEY_E", "3", "0x04",
   "KEY_F", "3", "0x08", "KEY_G", "3", "0x10", "KEY_H", "3", "0x20",
   "KEY_I", "3", "0x40", "KEY_J", "3", "0x80", "KEY_K", "4", "0x01",
   "KEY_L", "4", "0x02", "KEY_M", "4", "0x04", "KEY_N", "4", "0x08",
   "KEY_O", "4", "0x10", "KEY_P", "4", "0x20", "KEY_Q", "4", "0x40",
   "KEY_R", "4", "0x80", "KEY_S", "5", "0x01", "KEY_T", "5", "0x02",
   "KEY_U", "5", "0x04", "KEY_V", "5", "0x08", "KEY_W", "5", "0x10",
   "KEY_X", "5", "0x20", "KEY_Y", "5", "0x40", "KEY_Z", "5", "0x80",
   "KEY_SHIFT", "6", "0x01", "KEY_CTRL", "6", "0x02", "KEY_GRAPH", "6", "0x04",
   "KEY_CAPS", "6", "0x08", "KEY_CODE", "6", "0x10", "KEY_F1", "6", "0x20",
   "KEY_F2", "6", "0x40", "KEY_F3", "6", "0x80", "KEY_F4", "7", "0x01",
   "KEY_F5", "7", "0x02", "KEY_ESC", "7", "0x04", "KEY_TAB", "7", "0x08",
   "KEY_STOP", "7", "0x10", "KEY_BS", "7", "0x20", "KEY_SELECT", "7", "0x40",
   "KEY_RETURN", "7", "0x80", "KEY_ENTER", "7", "0x80", "KEY_SPACE", "8", "0x01",
   "KEY_HOME", "8", "0x02", "KEY_INS", "8", "0x04", "KEY_DEL", "8", "0x08",
   "KEY_LEFT", "8", "0x10", "KEY_UP", "8", "0x20", "KEY_DOWN", "8", "0x40",
   "KEY_RIGHT", "8", "0x80", "KEY_NUM_MULT", "9", "0x01",
   "KEY_NUM_PLUS", "9", "0x02", "KEY_NUM_DIV", "9", "0x04",
   "KEY_NUM_0", "9", "0x08", "KEY_NUM_1", "9", "0x10", "KEY_NUM_2", "9", "0x20",
   "KEY_NUM_3", "9", "0x40", "KEY_NUM_4", "9", "0x80", "KEY_NUM_5", "10", "0x01",
   "KEY_NUM_6", "10", "0x02", "KEY_NUM_7", "10", "0x04", "KEY_NUM_8", "10", "0x08",
   "KEY_NUM_9", "10", "0x10", "KEY_NUM_MINUS", "10", "0x20",
   "KEY_NUM_COMMA", "10", "0x40", "KEY_NUM_PERIOD", "10", "0x80">>)
KeyChars == Objs(<<
   "CHAR_NUL", "0x00", "CHAR_SOH", "0x01", "CHAR_STX", "0x02",
   "CHAR_ETX", "0x03", "CHAR_EOT", "0x04", "CHAR_ENQ", "0x05",
   "CHAR_ACK", "0x06", "CHAR_BEL", "0x07", "CHAR_BS", "0x08",
   "CHAR_TAB", "0x09", "CHAR_LF", "0x0A", "CHAR_VT", "0x0B",
   "CHAR_FF", "0x0C", "CHAR_CR", "0x0D", "CHAR_SO", "0x0E",
   "CHAR_SI", "0x0F", "CHAR_DLE", "0x10", "CHAR_HOME", "0x0B",
   "CHAR_CLS", "0x0C", "CHAR_INS", "0x12", "CHAR_DEL", "0x7F",
   "CHAR_ESC", "0x1B", "CHAR_SPACE", "0x20", "CHAR_RIGHT", "0x1C",
   "CHAR_LEFT", "0x1D", "CHAR_UP", "0x1E", "CHAR_DOWN", "0x1F",
   "CHAR_F1", "0x81", "CHAR_F2", "0x82", "CHAR_F3", "0x83",
   "CHAR_F4", "0x84", "CHAR_F5", "0x85", "CHAR_SELECT", "0x18",
   "CHAR_STOP", "0x03">>)
\* kb_is_pressed(row, mask): (kb_read_row(row) & (mask));
\* KB_DIRECT_READ(row): (outp(KB_ROW_SELECT, (row) | 0x40), inp(KB_COL_READ));
\* IS_CAPS_ACTIVE(): (PEEK(0xFCAC) & 0x40).
KeyScan == <<
   Decl({"kb_read_row"}),
   Fn("kb_is_pressed", <<"row", "mask">>,
      <<Call1("kb_read_row", <<"row">>), Id("mask")>>),
   Decl({"kb_wait_key", "kb_key_available"})>>
   \o Objs(<<"KB_ROW_SELECT", "0xAA", "KB_COL_READ", "0xA9">>)
   \o <<Fn("KB_DIRECT_READ", <<"row">>,
           <<Call2("outp", <<"KB_ROW_SELECT">>, <<"row">>),
             Call1("inp", <<"KB_COL_READ">>)>>),
        Fn("IS_SHIFT_PRESSED", <<>>, <<Call1("kb_is_pressed", <<"KEY_SHIFT">>)>>),
        Fn("IS_CTRL_PRESSED", <<>>, <<Call1("kb_is_pressed", <<"KEY_CTRL">>)>>),
        Fn("IS_GRAPH_PRESSED", <<>>, <<Call1("kb_is_pressed", <<"KEY_GRAPH">>)>>),
        Fn("IS_CODE_PRESSED", <<>>, <<Call1("kb_is_pressed", <<"KEY_CODE">>)>>),
        Fn("IS_CAPS_ACTIVE", <<>>, <<Call("PEEK", <<<<Lit("0xFCAC")>>>>)>>)>>
KeyJoystick == Objs(<<
   "JOY_CENTER", "0", "JOY_UP", "1", "JOY_UP_RIGHT", "2",
   "JOY_RIGHT", "3", "JOY_DOWN_RIGHT", "4", "JOY_DOWN", "5",
   "JOY_DOWN_LEFT", "6", "JOY_LEFT", "7", "JOY_UP_LEFT", "8",
   "JOY_CURSOR", "0", "JOY_PORT1", "1", "JOY_PORT2", "2",
   "TRIG_SPACE", "0", "TRIG_JOY1_A", "1", "TRIG_JOY2_A", "2",
   "TRIG_JOY1_B", "3", "TRIG_JOY2_B", "4">>)
   \o <<Fn("IS_CTRL_C", <<>>, <<Call("IS_CTRL_PRESSED", <<>>),
                              Call1("kb_is_pressed", <<"KEY_C">>)>>),
        Fn("IS_ANY_ARROW", <<>>, [i \in 1 .. 4 |->
              Call1("kb_is_pressed", <<<<"KEY_UP", "KEY_DOWN", "KEY_LEFT",
                                         "KEY_RIGHT">>[i]>>)])>>
KeycodeH == <<Guard("_MSX_KEYCODE_H")>> \o KeyRows \o KeyMatrix \o KeyChars
               \o KeyScan \o KeyJoystick

-----------------------------------------------------------------------------
(* msxdos.h *)
MsxdosConsts == Objs(<<
   "MSXDOS_BDOS", "0x0005", "MSXDOS_CMDTAIL", "0x0080", "MSXDOS_FCB1", "0x005C",
   "MSXDOS_FCB2", "0x006C", "MSXDOS_DMA", "0x0080", "MSXDOS_TPA", "0x0100",
   "BDOS_SYSTEM_RESET", "0", "BDOS_CONSOLE_INPUT", "1", "BDOS_CONSOLE_OUTPUT", "2",
   "BDOS_READER_INPUT", "3", "BDOS_PUNCH_OUTPUT", "4", "BDOS_LIST_OUTPUT", "5",
   "BDOS_DIRECT_CON_IO", "6", "BDOS_GET_IOBYTE", "7", "BDOS_SET_IOBYTE", "8",
   "BDOS_PRINT_STRING", "9", "BDOS_READ_CONSOLE_BUF", "10",
   "BDOS_GET_CONSOLE_STATUS", "11", "BDOS_GET_VERSION", "12",
   "BDOS_DISK_RESET", "13", "BDOS_SELECT_DISK", "14", "BDOS_OPEN_FILE", "15",
   "BDOS_CLOSE_FILE", "16", "BDOS_SEARCH_FIRST", "17", "BDOS_SEARCH_NEXT", "18",
   "BDOS_DELETE_FILE", "19", "BDOS_SEQ_READ", "20", "BDOS_SEQ_WRITE", "21",
   "BDOS_CREATE_FILE", "22", "BDOS_RENAME_FILE", "23",
   "BDOS_GET_LOGIN_VECTOR", "24", "BDOS_GET_CURRENT_DISK", "25",
   "BDOS_SET_DMA", "26", "BDOS_GET_ALLOC_VECTOR", "27",
   "BDOS_WRITE_PROTECT", "28", "BDOS_GET_RO_VECTOR", "29",
   "BDOS_SET_FILE_ATTR", "30", "BDOS_GET_DPB", "31", "BDOS_GET_SET_USER", "32",
   "BDOS_RANDOM_READ", "33", "BDOS_RANDOM_WRITE", "34", "BDOS_GET_FILE_SIZE", "35",
   "BDOS_SET_RANDOM_REC", "36", "BDOS_RESET_DRIVE", "37",
   "BDOS_RANDOM_WRITE_ZERO", "40", "BDOS_GET_DATE", "42", "BDOS_SET_DATE", "43",
   "BDOS_GET_TIME", "44", "BDOS_SET_TIME", "45", "BDOS_GET_ENV", "46",
   "BDOS_SET_ENV", "47", "BDOS_FIND_ENV", "48", "BDOS_GET_DISK_PARAM", "49",
   "BDOS_GET_VERIFY", "50", "BDOS_SET_VERIFY", "51", "BDOS_GET_DOSVER", "0x6F">>)
\* The FCB, MSXDOS_DATE and MSXDOS_TIME typedefs: members and type names.
MsxdosTypes == Decl({
   "dr", "f", "t", "ex", "s1", "s2", "rc", "d", "cr", "r0", "r1", "r2", "FCB",
   "year", "month", "day", "MSXDOS_DATE", "hour", "minute", "second",
   "MSXDOS_TIME"})
MsxdosDecls == Decl({
   "bdos", "dos_getchar", "dos_putchar", "dos_kbhit", "dos_puts", "dos_gets",
   "dos_get_drive", "dos_set_drive", "dos_reset_disk", "dos_open", "dos_close",
   "dos_create", "dos_delete", "dos_rename", "dos_read", "dos_write",
   "dos_set_dma", "dos_version", "dos2_get_date", "dos2_set_date",
   "dos2_get_time", "dos2_set_time", "dos2_getenv", "dos2_setenv", "dos2_mkdir",
   "dos2_rmdir", "dos2_chdir", "dos2_getcwd", "dos2_get_mapper_info",
   "dos2_alloc_segment", "dos2_free_segment", "dos2_put_segment",
   "dos2_get_segment"})
MsxdosErrors == Objs(<<
   "MSXDOS_ERR_NONE", "0x00", "MSXDOS_ERR_INCOMP", "0x01",
   "MSXDOS_ERR_WRITE_ERR", "0x02", "MSXDOS_ERR_READ_ERR", "0x03",
   "MSXDOS_ERR_WRITE_PROT", "0x04", "MSXDOS_ERR_NOT_READY", "0x05",
   "MSXDOS_ERR_SEEK_ERR", "0x06", "MSXDOS_ERR_NOT_FOUND", "0x07",
   "MSXDOS_ERR_EXISTS", "0x08", "MSXDOS_ERR_CANT_DELETE", "0x09",
   "MSXDOS_ERR_NO_SPACE", "0x0A", "MSXDOS_ERR_DISK_ERR", "0x0B",
   "MSXDOS_ERR_FCB", "0x0C", "MSXDOS_ERR_EOF", "0x0D">>)
   \o <<Fn("BDOS_CALL", <<"func", "arg">>, <<Call2("bdos", <<"func">>, <<"arg">>)>>)>>
MsxdosH == <<Guard("_MSX_MSXDOS_H")>> \o MsxdosConsts
              \o <<MsxdosTypes, MsxdosDecls>> \o MsxdosErrors

=============================================================================

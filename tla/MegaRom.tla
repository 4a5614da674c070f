------------------------------- MODULE MegaRom -------------------------------
(***************************************************************************)
(* The Mapper Engine of spec.md section 4.2 over the register geometry of  *)
(* include/msx/rom.h.  One MapperState per cartridge slot holding a        *)
(* MegaROM: its variant (MAPPER_* code), ROM size, bank count and the bank *)
(* selected for each window.  on_write recognises the variant's control    *)
(* addresses; translate_read turns a page and offset into a ROM offset.    *)
(* The register -> window tables are the *_REGn / *_BANKn pairs of rom.h.  *)
(***************************************************************************)
EXTENDS Naturals, Sequences, TLC

CONSTANTS
    CartSlots,   \* slot bytes that may hold a MegaROM
    Variants,    \* MAPPER_* codes passed to register_mapper
    RomSizes,    \* ROM image sizes passed to register_mapper
    Values,      \* bytes the program writes
    WriteAddrs,  \* addresses the program writes to
    NoWrite,     \* model value: no control write since registration
    SCC          \* model value: translate_read result for the SCC registers

\* MegaROM mapper types (rom.h)
MAPPER_NONE == 0
MAPPER_KONAMI == 1
MAPPER_KONAMI_SCC == 2
MAPPER_ASCII8 == 3
MAPPER_ASCII16 == 4
MAPPER_GAMEMASTER2 == 5
MAPPER_FMPAC == 6

\* The variants the engine has register geometry for
Supported == {MAPPER_KONAMI, MAPPER_KONAMI_SCC, MAPPER_ASCII8, MAPPER_ASCII16}

\* Bank granularity: 16KB windows for ASCII16, 8KB for the others
BankSize(v) == IF v = MAPPER_ASCII16 THEN 16384 ELSE 8192

\* The control addresses of a variant, <variant>_REGn in order
Regs(v) ==
    CASE v = MAPPER_KONAMI -> <<24576, 32768, 40960>>              \* KONAMI_REG1..3
      [] v = MAPPER_KONAMI_SCC -> <<20480, 28672, 36864, 45056>>   \* KONAMI_SCC_REG0..3
      [] v = MAPPER_ASCII8 -> <<24576, 26624, 28672, 30720>>       \* ASCII8_REG0..3
      [] v = MAPPER_ASCII16 -> <<24576, 28672>>                    \* ASCII16_REG0..1

\* The window each of those registers switches, <variant>_BANKn in order;
\* the Konami SCC windows sit at the Konami ones
Banks(v) ==
    CASE v = MAPPER_KONAMI -> <<24576, 32768, 40960>>              \* KONAMI_BANK1..3
      [] v = MAPPER_KONAMI_SCC -> <<16384, 24576, 32768, 40960>>
      [] v = MAPPER_ASCII8 -> <<16384, 24576, 32768, 40960>>       \* ASCII8_BANK0..3
      [] v = MAPPER_ASCII16 -> <<16384, 32768>>                    \* ASCII16_BANK0..1

\* Every control address of every variant
AllRegs == UNION {{Regs(v)[n] : n \in 1 .. Len(Regs(v))} : v \in Supported}

\* Window index (8KB or 16KB steps from 0x4000) of a cartridge address
WindowOf(v, addr) == (addr - 16384) \div BankSize(v)

Windows(v) == 0 .. 32768 \div BankSize(v) - 1

\* Mutation: each register switches the window it lies in
RegWindowByContainment(v) ==
    [a \in {Regs(v)[n] : n \in 1 .. Len(Regs(v))} |-> WindowOf(v, a)]

\* Control address -> index of the window whose bank it selects
RegWindow(v) ==
    [a \in {Regs(v)[n] : n \in 1 .. Len(Regs(v))} |->
        WindowOf(v, Banks(v)[CHOOSE n \in 1 .. Len(Regs(v)) : Regs(v)[n] = a])]

KONAMI_SCC_REG2 == 36864
SCC_BANK == 63                 \* the window-2 value that exposes the SCC
SccArea == 38912 .. 39935      \* 0x9800-0x9BFF, from KONAMI_SCC_ADDR

VARIABLES
    mappers,   \* slot -> MapperState, or NoMapper
    written,   \* ghost: slot -> control address -> last value written to it
    lastError  \* result of the last register_mapper: "ok" or "ConfigError"

vars == <<mappers, written, lastError>>

NoMapper == [variant |-> MAPPER_NONE]

-----------------------------------------------------------------------------
\* translate_read(slot_id, page, page_offset)
TranslateRead(slot, page, offset) ==
    LET m    == mappers[slot]
        addr == page * 16384 + offset
        w    == WindowOf(m.variant, addr)
    IN  IF m.variant = MAPPER_KONAMI_SCC /\ m.scc /\ addr \in SccArea
        THEN SCC
        ELSE (m.banks[w] * BankSize(m.variant) + (offset % BankSize(m.variant)))
                 % m.romSize

\* register_mapper(slot_id, variant, rom_size); the spec leaves the banks a
\* fresh MapperState selects open, so every selection is possible
RegisterMapper(slot, v, size) ==
    /\ mappers[slot] = NoMapper
    /\ IF v \in Supported /\ size % BankSize(v) = 0 /\ size > 0
       THEN /\ \E init \in [Windows(v) -> 0 .. size \div BankSize(v) - 1] :
                 mappers' = [mappers EXCEPT ![slot] =
                     [variant |-> v, romSize |-> size,
                      bankCount |-> size \div BankSize(v),
                      banks |-> IF v = MAPPER_KONAMI
                                THEN [init EXCEPT ![0] = 0] ELSE init,
                      scc |-> FALSE]]
            /\ lastError' = "ok"
       ELSE /\ lastError' = "ConfigError"
            /\ UNCHANGED mappers
    /\ written' = [written EXCEPT ![slot] = [a \in AllRegs |-> NoWrite]]

\* The cartridge image is unloaded
UnregisterMapper(slot) ==
    /\ mappers[slot] # NoMapper
    /\ mappers' = [mappers EXCEPT ![slot] = NoMapper]
    /\ written' = [written EXCEPT ![slot] = [a \in AllRegs |-> NoWrite]]
    /\ UNCHANGED lastError

\* Mutation: the written byte is stored without reducing it to the bank count
OnWriteNoModulo(slot, addr, value) ==
    LET m == mappers[slot]
    IN  /\ m # NoMapper
        /\ IF addr \in DOMAIN RegWindow(m.variant)
           THEN LET w == RegWindow(m.variant)[addr]
                IN  /\ mappers' = [mappers EXCEPT ![slot] =
                          IF m.variant = MAPPER_KONAMI_SCC /\ addr = KONAMI_SCC_REG2
                                /\ value = SCC_BANK
                          THEN [m EXCEPT !.scc = TRUE]
                          ELSE [m EXCEPT !.banks[w] = value,
                                         !.scc = IF addr = KONAMI_SCC_REG2
                                                 THEN FALSE ELSE m.scc]]
                    /\ written' = [written EXCEPT ![slot][addr] = value]
           ELSE UNCHANGED <<mappers, written>>
        /\ UNCHANGED lastError

\* Mutation: a bank written to KONAMI_SCC_REG2 leaves the SCC exposed
OnWriteKeepsScc(slot, addr, value) ==
    LET m == mappers[slot]
    IN  /\ m # NoMapper
        /\ IF addr \in DOMAIN RegWindow(m.variant)
           THEN LET w == RegWindow(m.variant)[addr]
                IN  /\ mappers' = [mappers EXCEPT ![slot] =
                          IF m.variant = MAPPER_KONAMI_SCC /\ addr = KONAMI_SCC_REG2
                                /\ value = SCC_BANK
                          THEN [m EXCEPT !.scc = TRUE]
                          ELSE [m EXCEPT !.banks[w] = value % m.bankCount]]
                    /\ written' = [written EXCEPT ![slot][addr] = value]
           ELSE UNCHANGED <<mappers, written>>
        /\ UNCHANGED lastError

\* on_write(slot_id, address, value): a control address selects a bank;
\* any other write to the ROM is discarded
OnWrite(slot, addr, value) ==
    LET m == mappers[slot]
    IN  /\ m # NoMapper
        /\ IF addr \in DOMAIN RegWindow(m.variant)
           THEN LET w == RegWindow(m.variant)[addr]
                IN  /\ mappers' = [mappers EXCEPT ![slot] =
                          IF m.variant = MAPPER_KONAMI_SCC /\ addr = KONAMI_SCC_REG2
                                /\ value = SCC_BANK
                          THEN [m EXCEPT !.scc = TRUE]
                          ELSE [m EXCEPT !.banks[w] = value % m.bankCount,
                                         !.scc = IF addr = KONAMI_SCC_REG2
                                                 THEN FALSE ELSE m.scc]]
                    /\ written' = [written EXCEPT ![slot][addr] = value]
           ELSE UNCHANGED <<mappers, written>>
        /\ UNCHANGED lastError

Init ==
    /\ mappers = [s \in CartSlots |-> NoMapper]
    /\ written = [s \in CartSlots |-> [a \in AllRegs |-> NoWrite]]
    /\ lastError = "ok"

Next ==
    \/ \E s \in CartSlots, v \in Variants, size \in RomSizes : RegisterMapper(s, v, size)
    \/ \E s \in CartSlots : UnregisterMapper(s)
    \/ \E s \in CartSlots, a \in WriteAddrs, x \in Values : OnWrite(s, a, x)

Spec == Init /\ [][Next]_vars


-----------------------------------------------------------------------------
(* Properties                                                               *)

\* A MapperState as register_mapper creates it and on_write keeps it
IsMapperState(m) ==
    /\ m.variant \in Supported
    /\ m.romSize \in RomSizes
    /\ m.bankCount = m.romSize \div BankSize(m.variant)
    /\ m.banks \in [Windows(m.variant) -> 0 .. m.bankCount - 1]
    /\ m.scc \in BOOLEAN

TypeOK ==
    /\ \A s \in CartSlots : mappers[s] = NoMapper \/ IsMapperState(mappers[s])
    /\ written \in [CartSlots -> [AllRegs -> Values \cup {NoWrite}]]
    /\ lastError \in {"ok", "ConfigError"}

\* A ROM address of a cartridge, as (page, page_offset)
AtAddr(slot, addr) == TranslateRead(slot, addr \div 16384, addr % 16384)

\* Through any sequence of control writes, the window rom.h pairs with a
\* register (<variant>_BANKn with <variant>_REGn) reads the bank last written
\* to that register, reduced modulo the bank count, and Konami's first
\* window (KONAMI_BANK0) stays on bank 0.
BankIsLastWrite ==
    \A s \in CartSlots : mappers[s] # NoMapper =>
        LET m == mappers[s]
            v == m.variant
        IN  /\ \A n \in 1 .. Len(Regs(v)) :
                   LET x == written[s][Regs(v)[n]]
                   IN  (x # NoWrite /\ ~(v = MAPPER_KONAMI_SCC /\ Regs(v)[n] = KONAMI_SCC_REG2
                                           /\ x = SCC_BANK))
                       => AtAddr(s, Banks(v)[n]) = (x % m.bankCount) * BankSize(v)
            /\ v = MAPPER_KONAMI => AtAddr(s, 16384) = 0

\* The SCC registers at 0x9800 are visible exactly when the last value
\* written to KONAMI_SCC_REG2 was 0x3F; any other bank written there hides
\* them again.
SccVisibleIffSelected ==
    \A s \in CartSlots : mappers[s] # NoMapper /\ mappers[s].variant = MAPPER_KONAMI_SCC =>
        ((AtAddr(s, 38912) = SCC) <=> (written[s][KONAMI_SCC_REG2] = SCC_BANK))

\* spec.md section 8, end to end: an ASCII8 mapper on a 64KB ROM, bank 3
\* written to 0x6000 and bank 5 to 0x7000, translates page 1 offset 0x0100
\* to 3*8192+0x0100 and page 1 offset 0x1100 to 5*8192+0x0100.
SpecAscii8EndToEnd ==
    \A s \in CartSlots :
        (/\ mappers[s] # NoMapper
         /\ mappers[s].variant = MAPPER_ASCII8
         /\ mappers[s].romSize = 65536
         /\ written[s][24576] = 3
         /\ written[s][28672] = 5)
        => /\ TranslateRead(s, 1, 256) = 3 * 8192 + 256
           /\ TranslateRead(s, 1, 4352) = 5 * 8192 + 256

=============================================================================

# TLA+ models of the MSX support headers

The repository's C sources are the MSX headers under `src/include/msx/`:
`slot.h`, `rom.h`, `system.h`, `bios.h`, `vdp.h`, `sprite.h`, `psg.h`,
`keycode.h` and `msxdos.h`. They hold macros, constants, structure layouts
and declarations of functions whose bodies are not in the repository.
`spec.md` names the part with design content: the MSX addressing model.
That is the Slot Resolver (CPU address -> slot, page, offset) and the MegaROM
Mapper Engine (bank-switching cartridges). The models translate the macros
and constants of the headers. Where behaviour is only declared
(register_mapper, on_write, translate_read), they follow spec.md section
4.2, and PROJECT.json marks those definitions `spec_modelled`. Firmware the
headers call (the BIOS routines, the interrupt handler) and the chips
behind the ports are modelled by what they do to the state the headers'
macros touch.

## Inventory

| Component | Source | State | Operations | Interacts with |
|---|---|---|---|---|
| Slot Resolver | `slot.h`, `system.h` 205-213 and 280-281, `rom.h` 118-146 | primary slot register (port 0xA8, 2 bits per page); one secondary register per expanded primary slot (0xFFFF); `EXPTBL` (expansion flags); `SLTTBL` (software copy of the secondary registers) | slot-byte macros (`MAKE_SLOT`, `GET_*`, `IS_EXPANDED_SLOT`, `ADDR_TO_PAGE`, `SLOT_FOR_PAGE`); `resolve` and `select_slot` (spec 4.1 only); `slot_read`/`slot_write`/`slot_call` (declared; they use BIOS RDSLT/WRSLT/CALSLT, which take a slot ID in the F000SSPP format); `slot_search`; `rom_is_expanded` | every memory access; the BIOS inter-slot routines |
| Mapper Engine | `rom.h` 47-109 | per MegaROM slot: variant, ROM size, bank count, bank per window, SCC flag | `register_mapper` (may fail with ConfigError), unregister, `on_write`, `translate_read`, `rom_set_bank_*` | reached through the Slot Resolver: a write lands in the mapper of the slot selected for its page |
| Header macro namespace | all nine headers | the `#define` table, the declared identifiers, include guards | `#include` of any header, in any order | every C file that includes two headers |
| System work area | `system.h`, `bios.h` 318-376 | variables in page-3 RAM (JIFFY, SLTTBL, VDP shadows, ...) | PEEK/POKE; the VSYNC interrupt increments JIFFY | Slot Resolver (page 3 must be RAM) |
| VDP access | `vdp.h`, `bios.h` 105-118 | command-port pairing (first byte latched or not), VDP registers, 14-bit VRAM pointer | `VDP_CMD_OUT`, `VDP_STATUS_IN`, `VDP_DATA_OUT`/`IN`, `wrtvdp`, `setwrt`, address and colour macros | interrupt handler (KEYINT reads the status; the H.TIMI hook may write) |
| PSG access | `psg.h`, `bios.h` 158 | PSG address latch, registers | `PSG_WRITE`, `PSG_READ`, `wrtpsg` | interrupt handler (KEYINT selects register 14 for the triggers; the hook may write) |
| Sprite attributes | `sprite.h`, `vdp.h` 82-91 | 32 four-byte attribute entries | `SPRITE_DEF`, `SPRITE_DISABLE`, `SPRITE_COLOR_EC` | VDP |
| Keyboard | `keycode.h`, `system.h` 154-155 | PPI port C (row select in bits 0-3; cassette motor, cassette out, CAPS lamp, click in bits 4-7); `CAPST`/`KANAST` lock flags in the work area | `KB_DIRECT_READ` (row select, column read), `IS_CAPS_ACTIVE`, the `KEY_x` matrix positions; `kb_read_row` and the rest declared only | interrupt handler (KEYINT scans the matrix through the same port C and toggles the lock flags); BIOS `stmotr` (motor bit of port C) |
| BIOS entry points, MSX-DOS | `bios.h`, `msxdos.h` | none of their own | declarations and constant tables | pass-through to firmware |

### Interactions and hard behaviour

- **Slot bytes cross into the BIOS.** A program builds a slot byte with
  `MAKE_SLOT` and hands it to `slot_read`/`slot_write`/`slot_call`, which
  pass it to BIOS RDSLT/WRSLT/CALSLT. The byte's layout must be the one the
  BIOS decodes.
- **An interrupt runs beside the program.** The VSYNC handler (0x0038,
  `H.TIMI` at 0xFD9F) increments `JIFFY` in page-3 RAM, reads the VDP
  status, reads the triggers through the PSG and scans the keyboard.
- **Mapper registers are not laid out like the windows.** All ASCII8
  registers are in page 1 while its windows span pages 1-2. `ASCII16_REG1`
  (0x7000) switches 0x8000. Konami's registers lie inside their windows.
  Konami SCC overloads the value 0x3F on register 2.
- **Header macros collide.** `SLOT_EXPANDED` (`slot.h` 0x80, `rom.h`
  function-like), `PSG_WRITE`/`PSG_READ` (both forms in `psg.h`), and
  `SPRITE_DISABLE`/`SPRITE_8X8` (`vdp.h` versus `sprite.h`).
- **Two-byte port protocols.** These are `VDP_CMD_OUT`, `PSG_WRITE` and
  `KB_DIRECT_READ`, against an interrupt handler that touches the same
  ports.
- **PPI port C is shared.** Its low nibble selects the keyboard row; its
  high nibble drives the cassette motor (bit 4, 0 = on) and the CAPS lamp
  (bit 6, 0 = lit). The BIOS changes one part with a read-modify-write or
  a bit set/reset; `KB_DIRECT_READ` writes the whole byte.

### What makes each component correct

- Slot Resolver: the slot a BIOS inter-slot call selects is the slot the
  program's slot byte names.
- Keyboard: a row read returns the row named; the motor and CAPS lamp bits
  stay as `stmotr` and `CAPST` set them; `IS_CAPS_ACTIVE` reports CAPS lock.
- Mapper Engine: each window reads the bank last written to the register
  that `rom.h` pairs with it, reduced modulo the bank count. Konami's first
  window stays on bank 0. The SCC is exposed exactly after 0x3F.
- Header namespace: no macro is defined twice with different bodies or
  kinds, whatever the include order. No object-like macro has the name of a
  declaration. Every macro expands to names that are declared, and passes
  each function-like macro as many arguments as it has parameters.
- System work area: every name reads back, through PEEK/PEEKW, what was
  last stored through it. No two names share a byte unless the header says
  they are one variable (`HIMEM`, "Same as RAMTOP").
- VDP/PSG: a register write reaches the register it names, a read reads
  the register it names, and the VRAM pointer stays where the program set
  it, even when the interrupt handler touches the port between two bytes.
  The address macros compute the byte the VDP table layout puts a cell,
  pixel row or colour in.
- Sprites: a sprite `SPRITE_DEF` places on line y is drawn on line y. Every
  sprite the program placed on screen is still reached by the VDP, which
  stops at the first Y of 208.

## Modules

| Module | Models | State and actions |
|---|---|---|
| `SlotMacros` | `slot.h` 25-92, `system.h` 280-281 | pure operators: the slot-byte and page macros with their masks |
| `SlotId` | `slot.h` 97-101, 156-164, 186-205 | `call` is one slot byte as slot.h's examples build it (`SLOT_n`, `MAKE_SLOT_PRIMARY(p)`, `MAKE_SLOT(p, s)`). `Named` is the slot the caller means. `BiosSlot(id)` is the slot RDSLT/WRSLT/CALSLT/ENASLT select for slot ID `id`: bit 7 expanded, bits 3-2 secondary, bits 1-0 primary |
| `MegaRom` | `rom.h` 47-109, spec 4.2 | `mappers` (slot -> MapperState), `written` (ghost: last value per control address), `lastError`; `RegisterMapper`, `UnregisterMapper`, `OnWrite`; `TranslateRead` as an operator. Register/window geometry comes from the `*_REGn`/`*_BANKn` pairs |
| `MsxHeaders` | every `#define`, prototype, typedef and struct member of the nine headers | data only: one operator per block of the header, in source order, and `SlotH` ... `MsxdosH` for the whole header behind its guard. A `#define` is a record: name, function-like or not, parameters, replacement list. Object-like replacement lists keep their literals as spelled. Function-like ones keep the identifiers and calls (`f(a, b)` with its argument count) and drop operators, casts and keywords, which take no part in expansion. A declaration keeps the identifiers it introduces; prototype parameter names are left out, because no object-like macro of the headers has one of those names |
| `Cpp` | the C preprocessor over those headers (ISO C 6.10.3) | `tu` (the `#include` lines so far), `macros` (name -> current `#define`), `decls` (declared identifiers), `defs` (every `#define` seen). `IncludeFirst(h)` processes the header's directives in order: the last `#define` of a name wins, and declarations add names. `IncludeGuarded(h)` is a repeat include, skipped by `#ifndef`. `Invoke`/`ExpandTerm` expand a use of any macro: an object-like name is replaced by its body. A function-like name followed by `(` has its arguments counted first, then expanded and substituted. Inside a macro's own replacement its name is not replaced again |
| `SpriteTable` | `sprite.h` 16-17, 33-35, 51-55; `clrspr` (`bios.h` 139) | `attrY` (entry -> Y byte), and two ghosts: `shown` (entries last placed on a screen line) and `line` (the line passed). `Init` is the table after `clrspr`, every Y at `SPRITE_Y_HIDDEN`. `Def(i, y)` gives entry i the value of `SPRITE_DEF(y, ...)`, whose Y byte is `(y)-1` in an unsigned char. `Disable(i)` is `SPRITE_DISABLE`. The VDP's reading is two operators: `VdpLine(v) = (v+1) % 256`, and `Scanned(i)`, no Y of 208 at or before entry i (sprite mode 1, the 192-line screens the header's comments assume) |
| `WorkArea` | `system.h` 21-31 (PEEK/POKE/PEEKW/POKEW), 53-252 (every work-area `#define`) | The layout is a set of records (name, address, width), one operator per block of the header. The width is 2 for "(word)", N for "(N bytes)", else 1. `mem` is the RAM bytes under the names a run uses. `last` is a ghost: the value last stored through each name, with `HIMEM` and `RAMTOP` as one variable. `Poke(n, k, v)` is `POKE(NAME + k, v)` on a byte variable or array. `PokeW(n, v)` is `POKEW` on a word, low byte first. `Tick` is the VSYNC increment of `JIFFY`, bounded by `MaxJiffy`. `GetTimer` is `GET_TIMER()` (line 278), `PEEKW(JIFFY)`, loaded in one of the ways `TimerLoads` allows: one word load (`TimerFirst("word")`), or two byte loads in either order (`TimerFirst("low"/"high")`, then `TimerSecond`), with the interrupt free to fall between them. `rdPc`, `rdByte` and the ghost `rdStart` hold the read in flight. The ghost `timerOK` says whether the value returned lies between `JIFFY` at the start and at the end of the read. A VSYNC comes once a frame and the two loads are consecutive instructions, so at most one `Tick` falls inside a read. The main program is sequential, so no POKE runs during a read |
| `PsgPort` | `psg.h` 55-56, 186-196; `wrtpsg` (`bios.h` 158); KEYINT's trigger read (`bios.h` 236) | `latch` (address latch), `regs`, and per context (`main`, `isr`) a program counter `pc` and the macro in progress `op`. `WriteAddr`/`WriteData` are the two `outp`s of `PSG_WRITE`, and `ReadAddr`/`ReadData` the two halves of `PSG_READ`. `WrtPsg` is one atomic step, because the BIOS runs it under DI. `Interrupt` may fall between any two steps of the main program. `KeyintTriggers` leaves the latch at 14. Ghosts: `intended` (last value written per register name), `readOK` (the last read returned the named register) |
| `VdpPort` | `vdp.h` 124-126, 197-207; `wrtvdp`, `setwrt` (`bios.h` 105-118); KEYINT's status read | `second` and `latched` (the command port's pairing), `vregs`, `vramAddr`, per-context `pc`/`op`. `CmdPort(b)` is what the VDP does with a command byte: latch it, or with the second byte write a register (bit 7) or set the pointer (+1 read-ahead when bit 6 is clear). `msx1Vdp`, chosen at `Init` and never changed, says the chip is a TMS9918 (vdp.h line 2 names it beside the V9938/V9958). On it, `FirstByteLoad` puts every first byte of a pair into the pointer's low byte as well, so a register write moves the pointer. `CmdFirst`/`CmdSecond` are the two `VDP_CMD_OUT` calls of a pair, `DataOut` is one data byte (the pointer advances mod 16K), and `StatusIn` resets the pairing. `WrtVdp` and `SetWrt` are atomic (DI). `Interrupt` is taken only while register 1 has `R1_INT_ENABLE`. `KeyintStatus` resets the pairing. Ghosts: `intended`, `wantAddr`, `sent` (data bytes since the last setup, bounded by `MaxData`) |
| `PpiPort` | `keycode.h` 14-29, 118-122, 248-254, 272-273; `stmotr` (`bios.h` 189-190); KEYINT's keyboard scan | `portC` (the whole byte; `RowOf`, `CASON`, `CAPS` read its fields), `capst`, `kanast`, per-context `pc`/`want`. `KbSelect` writes `row + 0x40` (`(row) | 0x40` for rows below 16), `KbRead` reads the columns of whatever row port C now selects. `StMotr(a)` sets or clears bit 4 only (0 stop, 1 start, 255 reverse). `KeyintScan(pressed)` keeps the high nibble, leaves row 10 selected and toggles `CAPST` (with the lamp) or `KANAST` for a fresh CAPS or KANA press; `KeyintSkip` is an interrupt without a scan. `IS_CAPS_ACTIVE` is bit 6 of `KANAST` (0xFCAC). Ghosts: `motorOn` (last `stmotr` request), `readOK` |
| `IoPorts` | the three above under one CPU | `PsgPort`, `VdpPort` and `PpiPort` instantiated with a shared `ctx`. One interrupt enters all three. KEYINT reads the VDP status, then runs the hook (`InHook`), then reads the triggers, then scans the keyboard or skips the scan. A context never starts a macro on one chip while it is half-way through one on another (`OthersIdle`) |
| `VdpAddr` | `vdp.h` 47-62, 97-108, 213-220 | pure operators `S1_ADDR`, `S2_PATTERN_ADDR`, `MAKE_COLOR` (shifts and masks through `Bitwise`), checked against reference layouts (`TileOf`, `PatternByteRef`). The only variable, `in`, is the input of one check: every cell, pixel and colour pair |
| `MCMegaRom`, `MCCppClean` | model values and bounds; `MCCppClean` chooses one of several header sets (`Units`) and runs `Cpp` on it | see Runs |

## Runs

- **slot_id** (`MCSlotId.cfg`, violation). Every slot byte slot.h's
  examples build (the 4 `SLOT_n`, the 4 `MAKE_SLOT_PRIMARY(p)`, the 16
  `MAKE_SLOT(p, s)`), checked against `SlotCallSelectsNamedSlot`: the BIOS
  routines select the slot the byte names. `MAKE_SLOT` puts the secondary
  slot in bits 5-4, where the header's "E0SSPP" comment says it goes, but
  the BIOS reads it from bits 3-2. TLC's first counterexample is
  `MAKE_SLOT(0, 1)` = 0x90, which the BIOS takes for slot 0-0. slot.h's
  own example, `slot_read(MAKE_SLOT(2, 1), 0x4000)`, reads slot 2-0. The
  primary-only bytes are right.
- **megarom** (`MCMegaRom.cfg`, pass). One cartridge slot, every `MAPPER_*`
  code (GameMaster2 is rejected), and two ROM sizes: 32KB, and 40KB. 40KB
  is 5 banks of 8KB, not a power of two, and ConfigError for ASCII16. The
  program writes 1, 6 and 0x3F, which are below, above and far above the
  bank count. It writes them to every control address of every variant and
  to ROM_START. The initial banks are every possible selection, because the
  spec leaves them open. It checks three invariants:
  - `BankIsLastWrite`: each window reads the bank last written to the
    register that `rom.h` pairs with it, and Konami's first window stays on
    bank 0.
  - `SccVisibleIffSelected`.
  - `TypeOK` (banks always below the bank count).
- **megarom_spec_example** (`MCMegaRomSpecExample.cfg`, violation). It
  checks the ASCII8 end-to-end example of spec section 8 as an invariant,
  over any write sequence that leaves 3 in 0x6000 and 5 in 0x7000. TLC finds
  the example false. `ASCII8_BANK0` spans 0x4000-0x5FFF, so page-1 offset
  0x1100 still reads bank 3. 0x7000 is `ASCII8_REG2`, which switches
  0x8000-0x9FFF.

- **cpp_clean** (`MCCppClean`, pass, 1,562 states). These are the two
  largest header sets without a known clash. One unit is `slot.h`,
  `system.h`, `bios.h`, `vdp.h` and `msxdos.h`; the other is `rom.h`,
  `system.h`, `bios.h`, `sprite.h` and `msxdos.h`. Each is included in every
  order, with repeats, up to four `#include` lines. Four includes reach
  every pair in both orders and a repeat after a pair, so both actions
  fire. It checks four properties:
  - `NoConflictingRedefinition`: `system.h`, `bios.h` and `slot.h` share 52
    work-area and BIOS names, and must agree on every one.
  - `NoDeclarationShadowed`.
  - `MacroArgumentsMatch`.
  - `MacroNamesResolve`: every macro, expanded, leaves only declared names
    or `outp`/`inp` (the HI-TECH C library).

  `CHECK_DEADLOCK FALSE` is set because a translation unit has finitely
  many includes.
- **cpp_headers** (`MCCppHeaders.cfg`, violation). Each of the nine
  headers included on its own (`MaxIncludes` 1), checked against
  `HeadersCompose` (the four properties together). TLC finds a violation at
  the first include, `psg.h`. Clashes that need two headers are shown by
  the configurations below. The
  defects it stands for are listed in `findings`. Each has a configuration
  of its own that shows it alone, with `Cpp` and the single property:
  - `MCCppPsgRedefine.cfg`: `psg.h` redefines `PSG_WRITE`/`PSG_READ`.
  - `MCCppPsgSelfRef.cfg`: the new `PSG_WRITE` body's
    `outp(PSG_WRITE, ...)` reaches the compiler unexpanded.
  - `MCCppSlotRom.cfg`: after `slot.h` then `rom.h`, `MAKE_SLOT` and
    `IS_EXPANDED_SLOT` leave `SLOT_EXPANDED` unexpanded.
  - `MCCppVdpSprite.cfg`: `SPRITE_DISABLE`/`SPRITE_8X8` conflict.
  - `MCCppVdpSpriteType.cfg`: `vdp.h`'s `SPRITE_16X16` rewrites
    `sprite.h`'s typedef.
  - `MCCppKeycodeArity.cfg`: `kb_is_pressed(KEY_SHIFT)` is one argument
    for two parameters.
  - `MCCppKeycodePeek.cfg`: `IS_CAPS_ACTIVE` needs `PEEK` from `system.h`.

  The survey of all pairs of headers found no other clash.

- **sprite_table** (`MCSpriteTable.cfg`, pass, 729 states). Three entries,
  `SPRITE_DEF` with lines 0, 100, 191 and the off-screen 200, and
  `SPRITE_DISABLE` on any entry. Line 0 is where `(y)-1` wraps to 255, and
  191 is the last line. It checks `SpritePlacedOnLine`: a sprite placed on
  line y is drawn on line y.
- **sprite_end_marker** (`MCSpriteEndMarker.cfg`, violation, two
  entries). It checks `DefinedSpritesScanned`, with `SPRITE_DEF` on lines
  100 and `SPRITE_Y_HIDDEN`, and `SPRITE_DISABLE`. Two entries are the
  smallest table where an entry lies behind another. Both ways to end the
  table are shown alone by `MCSpriteHidden.cfg` and `MCSpriteDisable.cfg`:
  - `SPRITE_DEF(SPRITE_Y_HIDDEN, ...)` on entry 0 stores 208, and a sprite
    then defined on entry 1 is never drawn.
  - `SPRITE_DISABLE` on entry 0 hides the sprite defined on entry 1.

- **work_area** (`MCWorkArea.cfg`, pass, 846,936 states, about 40 s). Nine names that
  lie next to each other: `CSRY`, `CSRX`, the `T32NAM` and `T32COL` words,
  `BOTTOM`, `RAMTOP` and its alias `HIMEM`, `JIFFY` and `LOWLIM`. A POKE
  stores 1. A POKEW stores 513 (both bytes) or 255, which the next
  interrupt carries into `JIFFY`'s high byte; `MaxJiffy` 257 lets it carry
  and count once more. `GET_TIMER()` reads `JIFFY` in all three load
  orders, at any point, including across the carry. It checks `ReadBack`
  and `TypeOK`. `ReadBack` holds while a read is in flight.
- **work_area_overlap** (`MCWorkAreaOverlap.cfg`, violation). It checks
  `WorkAreaAsProgrammed`, which is `ReadBack` together with
  `GetTimerReadsJiffy`. The names are `CSRY`, `CSRX`, `CLIKFL`, `T32NAM`,
  `T32COL`, `HEADER`, `ASPTEFG` and `JIFFY`, and `GET_TIMER()` is compiled
  as two byte loads. Three causes are shown alone:
  - `MCWorkAreaClick.cfg`: `CLIKFL` is at `CSRY`'s address, 0xF3DC.
  - `MCWorkAreaTape.cfg`: `HEADER` and `ASPTEFG` lie inside the `T32NAM`
    and `T32COL` words.
  - `MCWorkAreaTornTimer.cfg`: `POKEW(JIFFY, 255)`, then `GET_TIMER()`
    loads the low byte (255). The interrupt carries `JIFFY` to 256, and the
    high-byte load (1) returns 511, a value the timer never held. Loading
    the high byte first returns 0. Nothing in the header disables
    interrupts around the read. Whether this happens depends on the
    compiler: one `LD HL,(nn)` cannot be split, and `work_area` checks that
    case.

  Every other pair of names in the table is disjoint. Each name's range
  checked against all the others gives only these three collisions, plus
  the documented alias.

- **vdp_addr** (`MCVdpAddr.cfg`, pass, 50,176 states). Every input in
  range: the 768 SCREEN 1 cells, the 49,152 SCREEN 2 pixels and the 256
  colour pairs. It checks three properties:
  - `S1AddrIsNameTableCell`: `S1_ADDR` is one-to-one onto the name table,
    below the sprite attribute table.
  - `S2PatternAddrIsTileRow`: `S2_PATTERN_ADDR` is the byte of the pixel's
    tile row in the pattern table.
  - `MakeColorNibbles`: foreground in the high nibble, background in the
    low one.
- **io_ports** (`MCIoPorts.cfg`, pass, 710,024 states, about 45 s). On the
  PSG, the main program writes register 8 with `wrtpsg`, and the hook reads
  and writes register 7 with the macros. On the VDP, the main program uses
  `wrtvdp` on register 7, `setwrt` to 0x3FFF, one data byte after it (where
  the pointer wraps) and status reads. The hook writes register 7 with
  `VDP_CMD_OUT` pairs. Register 1 starts with the interrupt enabled or
  disabled, and the VDP is a TMS9918 or a V9938. On the keyboard, the main program switches the motor with
  `stmotr`, the hook reads row 8 with `KB_DIRECT_READ`, and KEYINT's scan
  may see CAPS pressed. It checks five properties:
  - `PsgRegistersAsWritten`, `VdpRegistersAsWritten`: every register holds
    its last write.
  - `PsgReadsNamedRegister`.
  - `KbReadsNamedRow`: `KB_DIRECT_READ` reads the row it names.
  - `TypeOK`.

  This is the code used as the BIOS uses it: the main program's two-byte
  accesses are under DI, and the hook runs with interrupts off. So the
  interleavings of a macro's two port accesses cannot occur in this run;
  `io_macros` has them. `VramPointerAsSet` is not checked here: on the
  TMS9918 the hook's register write moves the pointer (see `io_macros`).
- **io_macros** (`MCIoMacros.cfg`, violation). The main program uses
  `PSG_WRITE`, `PSG_READ`, `VDP_CMD_OUT` pairs and `KB_DIRECT_READ` on row
  3 itself, with the interrupt enabled. It checks `PortAccessesAsProgrammed`
  (the four port properties, `KbReadsNamedRow`, `PortCFlagsAsSet` and
  `CapsActiveIsCapsLock` together). Each failure is shown alone, on the chip's own
  module:
  - `MCPsgMacroWrite.cfg` (`PsgPort`): KEYINT moves the latch to 14 between
    the two `outp`s of `PSG_WRITE`, so the value lands in register 14.
  - `MCPsgMacroRead.cfg` (`PsgPort`): `PSG_READ` reads register 14.
  - `MCVdpCmdReg.cfg` (`VdpPort`): KEYINT's status read splits a register
    write, and the register keeps its old value.
  - `MCVdpCmdAddr.cfg` (`VdpPort`): the pointer setup is lost, and the data
    goes to the old address.
  - `MCVdpHookPointer.cfg` (`VdpPort`): the main program uses only `setwrt`
    and `VDP_DATA_OUT`, but on a TMS9918 the hook's `VDP_CMD_OUT` register
    write loads its first byte into the pointer's low byte, and the next
    data byte goes there.
  - `MCKbDirectRow.cfg` (`IoPorts`): KEYINT's scan between the row select
    and the column read leaves row 10 selected, and the read returns row 10.
  - `MCKbDirectFlags.cfg` (`IoPorts`): `KB_DIRECT_READ` inside the hook
    writes 0x48, which switches the cassette motor on and the CAPS lamp off
    (`PortCFlagsAsSet`). No interleaving is needed.
  - `MCKbCapsActive.cfg` (`IoPorts`): after a CAPS press, `IS_CAPS_ACTIVE`
    still reads 0, because 0xFCAC is `KANAST`; `CAPST` is 0xFCAB.

Fairness: none. Every property is a safety property. Nothing in the
repository obliges the program to make progress: it may stop calling the
macros, and nothing makes interrupts arrive.

## Not modelled, and why

- The functions declared in `bios.h`, `keycode.h`, `msxdos.h`, `vdp.h` and
  `psg.h` have no bodies in the repository; they wrap firmware and ports.
  Their names, constants and macros are in the namespace model. Where the
  BIOS routine's effect on a chip is known and a header macro touches the
  same chip (`wrtpsg`, `wrtvdp`, `setwrt`, `stmotr`, KEYINT), the routine
  is an action of the port model. `kb_read_row`, `kb_wait_key` and
  `kb_key_available` are not: their bodies, and so whether they read the
  matrix or `NEWKEY`, are not in the repository.
- Slot selection itself. The repository has no code that writes port
  0xA8 or the secondary register at 0xFFFF, or updates `SLTTBL`:
  `select_slot` and `resolve` are spec 4.1 only, and `slot_read`,
  `slot_write`, `slot_call`, `slot_search` and the `rom_*` slot functions
  are declared without bodies. An earlier model of a select_slot procedure
  was removed because no code in the repository performs it. What the
  repository does fix is the slot byte those functions pass on, and
  `SlotId` checks it.
- In the namespace model, the arithmetic inside function-like macros is not
  modelled. Two bodies that differ only in operators compare equal, so a
  conflicting redefinition of that kind would go unseen. None of the shared
  names in these headers is function-like on both sides.
- Byte contents of ROM and RAM: properties talk about where an access lands,
  never what it reads.
- Timing and bus contention (spec non-goal).

## Plan

Ordered by importance. Sitting 1 did steps 1-2. Sitting 2 did step 4 (as
`MsxHeaders` and `Cpp`). Sitting 3 did steps 5-8; steps 5 and 6 are composed in `IoPorts`. Sitting 4 added the
keyboard (`PpiPort`, composed in `IoPorts`). Sitting 5 added `GET_TIMER()`'s two-load read of `JIFFY` against the interrupt (`WorkArea`). Sitting 6 removed the select_slot procedure of step 1 (no code performs it) in favour of `SlotId`, and made `VdpPort` model the TMS9918's pointer load on register writes. The
checks are 12 runs. A defect with more than one cause has one violation run
over all the causes, plus a configuration per cause.

1. `SlotMacros`, `SlotId`: the slot-byte macros and the slot ID the BIOS
   takes.
2. `MegaRom`: the four mapper variants and the spec-example divergence.
3. `Bus` (not done; it needs slot-selection code the repository does not
   have): composes slot selection and `MegaRom`. CPU writes are routed by the
   decoded slot of their page to that slot's mapper. `slot_read`/`slot_write`
   (RDSLT/WRSLT) select temporarily and restore, and a bank written through
   them persists after the restore. `rom_set_bank_*` write the register for a
   window. The program's direct `outp(SLOT_SELECT_PORT)` and
   `POKE(SLOT_SECONDARY_REG)` are included, and a violation run shows the
   stale `SLTTBL`. Abstract spec: the `SlotTable` plus a bank table, refined
   by the bus.
4. `MacroTable`: each header's `#define` list (name, kind, body) and include
   guard. Including headers in every order checks that no macro is redefined
   differently. It needs violation runs for `SLOT_EXPANDED`, `PSG_WRITE`,
   and `SPRITE_DISABLE`.
5. `VdpPort`: the command-port latch, two-byte register writes
   (`VDP_CMD_OUT`), VRAM address setup, and an interrupt handler reading
   status. Address macros `S1_ADDR`, `S2_PATTERN_ADDR` and `MAKE_COLOR` become
   operators checked against a reference over their input ranges.
6. `PsgPort`: the address latch and data port, against an interrupt-time
   writer.
7. `SpriteTable`: `SPRITE_DEF` and the Y=208 terminator, over a bounded
   attribute table.
8. `WorkArea`: the system-variable layout (address, width) checked for
   overlaps.

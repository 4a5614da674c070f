------------------------------ MODULE VdpAddr --------------------------------
(***************************************************************************)
(* The address and colour macros of vdp.h, as operators on C int values   *)
(* (shifts and masks through Bitwise), checked against reference          *)
(* definitions over every on-screen input: each state of this module is   *)
(* one input the macros are applied to.                                   *)
(***************************************************************************)
EXTENDS Integers, Bitwise

\* The on-screen inputs: vdp.h 97 "Screen 1 (32x24 text)", 104 "Screen 2
\* (256x192 graphics)", and the 16 colour codes of vdp.h 47-62.
Cols == 0 .. 31
Rows == 0 .. 23
PixelsX == 0 .. 255
PixelsY == 0 .. 191
Colors == 0 .. 15

\* vdp.h 98-108: SCREEN 1 and SCREEN 2 default VRAM tables
S1_NAME_TBL == \h1800
S1_SPRITE_ATTR == \h1B00
S2_NAME_TBL == \h1800
S2_PATTERN_TBL == \h0000

ShiftL(n, k) == n * 2^k   \* C << on non-negative int

S1_ADDR_Width40(x, y) == S1_NAME_TBL + y * 40 + x
S1_ADDR(x, y) == S1_NAME_TBL + y * 32 + x

S2_PATTERN_ADDR_NoRow(x, y) ==
    S2_PATTERN_TBL + shiftR(y, 3) * 256 + shiftR(x, 3) * 8
S2_PATTERN_ADDR(x, y) ==
    S2_PATTERN_TBL + shiftR(y, 3) * 256 + (y & 7) + shiftR(x, 3) * 8

MAKE_COLOR_Swapped(fg, bg) == ShiftL(bg, 4) | fg
MAKE_COLOR(fg, bg) == ShiftL(fg, 4) | bg

\* The input of one check: a character cell, a pixel, or a colour pair.
Inputs ==
    {[k |-> "cell", a |-> x, b |-> y] : x \in Cols, y \in Rows}
    \cup {[k |-> "pixel", a |-> x, b |-> y] : x \in PixelsX, y \in PixelsY}
    \cup {[k |-> "color", a |-> f, b |-> g] : f \in Colors, g \in Colors}

VARIABLE in

Init == in \in Inputs
Next == UNCHANGED in
Spec == Init /\ [][Next]_in

-----------------------------------------------------------------------------
(* References: the TMS9918 table layouts the macros compute into.          *)

\* SCREEN 2 pattern table: 8 bytes per 8x8 tile, one byte per pixel row,
\* 32 tiles per row of tiles.
TileOf(x, y) == (y \div 8) * 32 + (x \div 8)
PatternByteRef(x, y) == S2_PATTERN_TBL + 8 * TileOf(x, y) + (y % 8)

\* S1_ADDR maps every on-screen character cell to its own byte of the
\* SCREEN 1 name table (32 x 24 bytes from S1_NAME_TBL): the cell can be
\* recovered from the address, and the address stays below the sprite
\* attribute table at S1_SPRITE_ATTR.
S1AddrIsNameTableCell ==
    in.k = "cell" =>
        LET a == S1_ADDR(in.a, in.b)
        IN /\ S1_NAME_TBL <= a /\ a < S1_SPRITE_ATTR
           /\ (a - S1_NAME_TBL) % 32 = in.a
           /\ (a - S1_NAME_TBL) \div 32 = in.b

\* S2_PATTERN_ADDR(x, y) is the pattern byte holding pixel (x, y): the row
\* y % 8 of the tile under the pixel, inside the pattern table (below the
\* name table at S2_NAME_TBL).
S2PatternAddrIsTileRow ==
    in.k = "pixel" =>
        /\ S2_PATTERN_ADDR(in.a, in.b) = PatternByteRef(in.a, in.b)
        /\ S2_PATTERN_ADDR(in.a, in.b) < S2_NAME_TBL

\* MAKE_COLOR(fg, bg) is one colour byte: foreground in the high nibble,
\* background in the low nibble, as the VDP colour registers read it.
MakeColorNibbles ==
    in.k = "color" =>
        /\ MAKE_COLOR(in.a, in.b) \div 16 = in.a
        /\ MAKE_COLOR(in.a, in.b) % 16 = in.b
        /\ MAKE_COLOR(in.a, in.b) < 256

=============================================================================

----------------------------- MODULE SpriteTable -----------------------------
(***************************************************************************)
(* The sprite attribute table of sprite.h in sprite mode 1 (the 192-line   *)
(* MSX1 screens): an array of SPRITE_ATTR whose Y bytes the program fills  *)
(* with SPRITE_DEF and SPRITE_DISABLE. The VDP shows a sprite whose Y byte *)
(* is v on screen line (v + 1) % 256, and stops scanning the table at the  *)
(* first entry whose Y is 208: that sprite and every later one are not     *)
(* shown. X, pattern and colour bytes play no part and are left out.       *)
(***************************************************************************)
EXTENDS Integers

CONSTANTS
    NumSprites,   \* entries of the table in the model (SPRITE_MAX is 32)
    YArgs,        \* screen lines the program passes to SPRITE_DEF
    Ops           \* the macros the program uses: subset of {"def", "disable"}

SPRITE_Y_DISABLE == 208      \* sprite.h 34
SPRITE_Y_HIDDEN == 209       \* sprite.h 35
ScreenLines == 192           \* sprite.h 17: "Y position (0-191, 208=disable)"
Slots == 0 .. NumSprites - 1

VARIABLES
    attrY,   \* entry -> its Y byte (unsigned char)
    shown,   \* ghost: entries the program last placed on a screen line
    line     \* ghost: entry -> the screen line last passed to SPRITE_DEF

vars == <<attrY, shown, line>>

\* SPRITE_DEF(y, x, pat, col) { (y)-1, ... }: the int (y)-1 stored in an
\* unsigned char field, i.e. modulo 256.
SpriteDefYNoDecrement(y) == y % 256
SpriteDefY(y) == (y - 1) % 256

\* The line the VDP draws a sprite with Y byte v on.
VdpLine(v) == (v + 1) % 256

\* The table after clrspr: every entry moved off screen to SPRITE_Y_HIDDEN.
Init ==
    /\ attrY = [i \in Slots |-> SPRITE_Y_HIDDEN]
    /\ shown = {}
    /\ line = [i \in Slots |-> 0]

\* Entry i takes the value of SPRITE_DEF(y, x, pat, col) (an initializer of
\* the table, or an entry copied from one); y is the screen line.
Def(i, y) ==
    /\ "def" \in Ops
    /\ attrY' = [attrY EXCEPT ![i] = SpriteDefY(y)]
    /\ shown' = IF y < ScreenLines THEN shown \cup {i} ELSE shown \ {i}
    /\ line' = [line EXCEPT ![i] = y]

\* SPRITE_DISABLE(&tbl[i]): ((s)->y = SPRITE_Y_DISABLE)
Disable(i) ==
    /\ "disable" \in Ops
    /\ attrY' = [attrY EXCEPT ![i] = SPRITE_Y_DISABLE]
    /\ shown' = shown \ {i}
    /\ UNCHANGED line

Next == \E i \in Slots : (\E y \in YArgs : Def(i, y)) \/ Disable(i)

Spec == Init /\ [][Next]_vars

\* The VDP reaches entry i: no entry up to it holds the end marker 208.
Scanned(i) == \A j \in 0 .. i : attrY[j] # SPRITE_Y_DISABLE

-----------------------------------------------------------------------------

\* A sprite SPRITE_DEF placed on screen line y (0 included, where (y)-1
\* wraps to 255) is drawn on line y.
SpritePlacedOnLine ==
    \A i \in shown : VdpLine(attrY[i]) = line[i]

\* Every sprite the program placed on the screen is still reached by the
\* VDP: no SPRITE_DEF or SPRITE_DISABLE of another entry, earlier in the
\* table, has ended the table before it.
DefinedSpritesScanned ==
    \A i \in shown : Scanned(i)

=============================================================================

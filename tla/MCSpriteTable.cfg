\* Three entries; SPRITE_DEF with the top line (0, where (y)-1 wraps), a
\* middle and the bottom line, and an off-screen line below the display;
\* SPRITE_DISABLE on any entry.
SPECIFICATION Spec
CONSTANTS
    NumSprites = 3
    YArgs = {0, 100, 191, 200}
    Ops = {"def", "disable"}
INVARIANT SpritePlacedOnLine

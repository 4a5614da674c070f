\* Two entries; the program places sprites on line 100, hides them with
\* SPRITE_DEF(SPRITE_Y_HIDDEN, ...) and disables them with SPRITE_DISABLE.
SPECIFICATION Spec
CONSTANTS
    NumSprites = 2
    YArgs = {100, 209}
    Ops = {"def", "disable"}
INVARIANT DefinedSpritesScanned

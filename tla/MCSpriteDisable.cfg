\* SPRITE_DISABLE on one entry, SPRITE_DEF on the others.
SPECIFICATION Spec
CONSTANTS
    NumSprites = 2
    YArgs = {100}
    Ops = {"def", "disable"}
INVARIANT DefinedSpritesScanned

\* SPRITE_DEF with the header's own off-screen line SPRITE_Y_HIDDEN (209).
SPECIFICATION Spec
CONSTANTS
    NumSprites = 2
    YArgs = {100, 209}
    Ops = {"def"}
INVARIANT DefinedSpritesScanned

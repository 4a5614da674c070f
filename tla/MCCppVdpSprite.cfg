\* vdp.h and sprite.h: SPRITE_DISABLE and SPRITE_8X8 in both.
SPECIFICATION Spec
CONSTANTS
    HeaderNames = {"vdp.h", "sprite.h"}
    MaxIncludes = 2
    LibraryNames = {"outp", "inp"}
INVARIANT NoConflictingRedefinition
\* A translation unit has finitely many #include lines: it stops.
CHECK_DEADLOCK FALSE

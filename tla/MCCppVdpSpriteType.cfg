\* vdp.h and sprite.h: the typedef name SPRITE_16X16.
SPECIFICATION Spec
CONSTANTS
    HeaderNames = {"vdp.h", "sprite.h"}
    MaxIncludes = 2
    LibraryNames = {"outp", "inp"}
INVARIANT NoDeclarationShadowed
\* A translation unit has finitely many #include lines: it stops.
CHECK_DEADLOCK FALSE

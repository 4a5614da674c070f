\* Two units: slot.h, system.h, bios.h, vdp.h, msxdos.h; and rom.h,
\* system.h, bios.h, sprite.h, msxdos.h; each in every order, up to 4
\* includes.
SPECIFICATION Spec
CONSTANTS
    Units = {{"slot.h", "system.h", "bios.h", "vdp.h", "msxdos.h"},
             {"rom.h", "system.h", "bios.h", "sprite.h", "msxdos.h"}}
    MaxIncludes = 4
    LibraryNames = {"outp", "inp"}
INVARIANT NoConflictingRedefinition
INVARIANT NoDeclarationShadowed
INVARIANT MacroArgumentsMatch
INVARIANT MacroNamesResolve
\* A translation unit has finitely many #include lines: it stops.
CHECK_DEADLOCK FALSE

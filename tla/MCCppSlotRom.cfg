\* slot.h and rom.h: both define SLOT_EXPANDED.
SPECIFICATION Spec
CONSTANTS
    HeaderNames = {"slot.h", "rom.h"}
    MaxIncludes = 2
    LibraryNames = {"outp", "inp"}
INVARIANT MacroNamesResolve
\* A translation unit has finitely many #include lines: it stops.
CHECK_DEADLOCK FALSE

\* psg.h alone: PSG_WRITE and PSG_READ are defined twice.
SPECIFICATION Spec
CONSTANTS
    HeaderNames = {"psg.h"}
    MaxIncludes = 1
    LibraryNames = {"outp", "inp"}
INVARIANT NoConflictingRedefinition
\* A translation unit has finitely many #include lines: it stops.
CHECK_DEADLOCK FALSE

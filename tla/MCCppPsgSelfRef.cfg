\* psg.h alone: the PSG_WRITE macro body names PSG_WRITE.
SPECIFICATION Spec
CONSTANTS
    HeaderNames = {"psg.h"}
    MaxIncludes = 1
    LibraryNames = {"outp", "inp"}
INVARIANT MacroNamesResolve
\* A translation unit has finitely many #include lines: it stops.
CHECK_DEADLOCK FALSE

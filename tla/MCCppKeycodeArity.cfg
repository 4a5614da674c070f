\* keycode.h: kb_is_pressed takes two arguments.
SPECIFICATION Spec
CONSTANTS
    HeaderNames = {"keycode.h"}
    MaxIncludes = 1
    LibraryNames = {"outp", "inp"}
INVARIANT MacroArgumentsMatch
\* A translation unit has finitely many #include lines: it stops.
CHECK_DEADLOCK FALSE

\* keycode.h alone: IS_CAPS_ACTIVE calls PEEK.
SPECIFICATION Spec
CONSTANTS
    HeaderNames = {"keycode.h"}
    MaxIncludes = 1
    LibraryNames = {"outp", "inp"}
INVARIANT MacroNamesResolve
\* A translation unit has finitely many #include lines: it stops.
CHECK_DEADLOCK FALSE

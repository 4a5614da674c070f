\* Every header of the library, included on its own (one #include line).
SPECIFICATION Spec
CONSTANTS
    HeaderNames = {"slot.h", "rom.h", "system.h", "bios.h", "vdp.h", "psg.h",
                   "sprite.h", "keycode.h", "msxdos.h"}
    MaxIncludes = 1
    LibraryNames = {"outp", "inp"}
INVARIANT HeadersCompose
\* A translation unit has finitely many #include lines: it stops.
CHECK_DEADLOCK FALSE

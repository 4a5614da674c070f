\* The cursor position with the key-click flag, the SCREEN 1 table words
\* with the cassette variables, and JIFFY read by GET_TIMER() as two byte
\* loads while the interrupt carries from 255 into 256.
SPECIFICATION Spec
CONSTANTS
    Names = {"CSRY", "CSRX", "CLIKFL", "T32NAM", "T32COL", "HEADER", "ASPTEFG",
             "JIFFY"}
    ByteValues = {1, 2}
    WordValues = {1, 255}
    MaxJiffy = 256
    TimerLoads = {"low", "high"}
INVARIANT WorkAreaAsProgrammed

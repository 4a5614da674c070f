\* The cursor position and the key-click variables.
SPECIFICATION Spec
CONSTANTS
    Names = {"CSRY", "CSRX", "CLIKSW", "CLIKFL"}
    ByteValues = {1, 2}
    WordValues = {1}
    MaxJiffy = 0
    TimerLoads = {"word"}
INVARIANT ReadBack

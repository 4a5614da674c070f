\* The SCREEN 1 table addresses and the cassette variables.
SPECIFICATION Spec
CONSTANTS
    Names = {"T32NAM", "T32COL", "HEADER", "ASPTEFG"}
    ByteValues = {1}
    WordValues = {1, 513}
    MaxJiffy = 0
    TimerLoads = {"word"}
INVARIANT ReadBack

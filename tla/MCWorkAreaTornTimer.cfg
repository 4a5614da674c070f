\* JIFFY alone, set to 255 and incremented by the interrupt while
\* GET_TIMER() loads it one byte at a time.
SPECIFICATION Spec
CONSTANTS
    Names = {"JIFFY"}
    ByteValues = {1}
    WordValues = {255}
    MaxJiffy = 256
    TimerLoads = {"low", "high"}
INVARIANT GetTimerReadsJiffy

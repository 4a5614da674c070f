\* Neighbouring names of the work area: the cursor bytes, the SCREEN 1 table
\* words, RAMTOP with its alias HIMEM and BOTTOM just below, JIFFY
\* (incremented by the interrupt) with LOWLIM right after it. Word value 513
\* sets both bytes; 255 carries into the high byte on the next interrupt.
\* GET_TIMER() may load JIFFY as one word or as two bytes in either order.
SPECIFICATION Spec
CONSTANTS
    Names = {"CSRY", "CSRX", "T32NAM", "T32COL", "RAMTOP", "HIMEM",
             "BOTTOM", "JIFFY", "LOWLIM"}
    ByteValues = {1}
    WordValues = {255, 513}
    MaxJiffy = 257
    TimerLoads = {"word", "low", "high"}
INVARIANT TypeOK
INVARIANT ReadBack

CONSTANTS
    CartSlots <- MCCartSlots
    Variants <- MCSpecVariants
    RomSizes <- MCSpecRomSizes
    Values <- MCSpecValues
    WriteAddrs <- MCSpecWriteAddrs
    NoWrite = NoWrite
    SCC = SCC

SPECIFICATION Spec

INVARIANT
    SpecAscii8EndToEnd

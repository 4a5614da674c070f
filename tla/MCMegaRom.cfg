CONSTANTS
    CartSlots <- MCCartSlots
    Variants <- MCVariants
    RomSizes <- MCRomSizes
    Values <- MCValues
    WriteAddrs <- MCWriteAddrs
    NoWrite = NoWrite
    SCC = SCC

SPECIFICATION Spec

INVARIANTS
    TypeOK
    BankIsLastWrite
    SccVisibleIffSelected

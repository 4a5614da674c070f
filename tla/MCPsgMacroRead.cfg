\* The main program sets channel A's volume (8) with wrtpsg and reads it
\* back with PSG_READ.
SPECIFICATION Spec
CONSTANTS
    MainOps = {"wrtpsg", "read"}
    HookOps = {}
    MainRegs = {8}
    HookRegs = {}
    Values = {1}
INVARIANT PsgReadsNamedRegister

\* The main program sets channel A's volume (8) with PSG_WRITE.
SPECIFICATION Spec
CONSTANTS
    MainOps = {"write"}
    HookOps = {}
    MainRegs = {8}
    HookRegs = {}
    Values = {1}
INVARIANT PsgRegistersAsWritten

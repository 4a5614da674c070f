\* The main program sets the write pointer with setwrt and writes data; the
\* H.TIMI hook sets register 7 with a VDP_CMD_OUT pair.
SPECIFICATION Spec
CONSTANTS
    MainOps = {"setwrt", "data"}
    HookOps = {"cmd"}
    MainRegs = {}
    HookRegs = {7}
    Values = {1}
    Addrs = {6144}
    MaxData = 2
INVARIANT VramPointerAsSet

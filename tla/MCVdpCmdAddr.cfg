\* The main program sets the write pointer with two VDP_CMD_OUT calls and
\* writes data.
SPECIFICATION Spec
CONSTANTS
    MainOps = {"cmd", "data"}
    HookOps = {}
    MainRegs = {}
    HookRegs = {}
    Values = {}
    Addrs = {6144}
    MaxData = 2
INVARIANT VramPointerAsSet

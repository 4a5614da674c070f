\* The main program uses the port macros themselves: PSG_WRITE and PSG_READ
\* on channel A's volume (8), and VDP_CMD_OUT pairs for register 7 and for
\* the write pointer, followed by VDP_DATA_OUT. The interrupt is enabled.
SPECIFICATION Spec
CONSTANTS
    PsgMainOps = {"write", "read"}
    PsgHookOps = {}
    PsgMainRegs = {8}
    PsgHookRegs = {}
    PsgValues = {1}
    VdpMainOps = {"cmd", "data"}
    VdpHookOps = {}
    VdpMainRegs = {7}
    VdpHookRegs = {}
    VdpValues = {244}
    VdpAddrs = {6144}
    MaxData = 2
    PpiMainOps = {"direct"}
    PpiHookOps = {}
    PpiMainRows = {3}
    PpiHookRows = {}
    LockKeys = {"caps", "kana"}
INVARIANT PortAccessesAsProgrammed

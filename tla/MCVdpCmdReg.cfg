\* The main program sets register 7 with two VDP_CMD_OUT calls.
SPECIFICATION Spec
CONSTANTS
    MainOps = {"cmd"}
    HookOps = {}
    MainRegs = {7}
    HookRegs = {}
    Values = {244}
    Addrs = {}
    MaxData = 2
INVARIANT VdpRegistersAsWritten

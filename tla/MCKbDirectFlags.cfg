\* The main program switches the motor with stmotr; the hook reads row 8
\* with KB_DIRECT_READ (inside KEYINT, where no interrupt splits it).
SPECIFICATION Spec
CONSTANTS
    PsgMainOps = {}
    PsgHookOps = {}
    PsgMainRegs = {}
    PsgHookRegs = {}
    PsgValues = {1}
    VdpMainOps = {}
    VdpHookOps = {}
    VdpMainRegs = {}
    VdpHookRegs = {}
    VdpValues = {244}
    VdpAddrs = {6144}
    MaxData = 1
    PpiMainOps = {"stmotr"}
    PpiHookOps = {"direct"}
    PpiMainRows = {}
    PpiHookRows = {8}
    LockKeys = {"caps"}
INVARIANT PortCFlagsAsSet

\* No keyboard reads, only stmotr; KEYINT's scan may see CAPS freshly pressed.
SPECIFICATION Spec
CONSTANTS
    PsgMainOps = {}
    PsgHookOps = {}
    PsgMainRegs = {}
    PsgHookRegs = {}
    PsgValues = {1}
    VdpMainOps = {}
    VdpHookOps = {}
    VdpMainRegs = {}
    VdpHookRegs = {}
    VdpValues = {244}
    VdpAddrs = {6144}
    MaxData = 1
    PpiMainOps = {"stmotr"}
    PpiHookOps = {}
    PpiMainRows = {}
    PpiHookRows = {}
    LockKeys = {"caps"}
INVARIANT CapsActiveIsCapsLock

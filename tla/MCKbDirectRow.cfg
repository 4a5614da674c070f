\* The main program reads row 3 with KB_DIRECT_READ; KEYINT scans.
SPECIFICATION Spec
CONSTANTS
    PsgMainOps = {}
    PsgHookOps = {}
    PsgMainRegs = {}
    PsgHookRegs = {}
    PsgValues = {1}
    VdpMainOps = {}
    VdpHookOps = {}
    VdpMainRegs = {}
    VdpHookRegs = {}
    VdpValues = {244}
    VdpAddrs = {6144}
    MaxData = 1
    PpiMainOps = {"direct"}
    PpiHookOps = {}
    PpiMainRows = {3}
    PpiHookRows = {}
    LockKeys = {}
INVARIANT KbReadsNamedRow

\* PSG: the main program sets channel A's volume (8) with wrtpsg; the H.TIMI
\* hook reads and writes the mixer (7) with PSG_READ and PSG_WRITE.
\* VDP: the main program sets register 7 (border colour) with wrtvdp, sets
\* the write pointer with setwrt to the last VRAM byte (where the pointer
\* wraps), writes a data byte and polls the status; the hook sets register 7
\* with VDP_CMD_OUT pairs. Register 1 may start with interrupts enabled or
\* disabled; the VDP may be a TMS9918 or a V9938.
\* Keyboard: the main program switches the cassette motor with stmotr; the
\* hook reads row 8 (cursor keys and space) with KB_DIRECT_READ; KEYINT's
\* scan may see CAPS freshly pressed.
SPECIFICATION Spec
CONSTANTS
    PsgMainOps = {"wrtpsg"}
    PsgHookOps = {"write", "read"}
    PsgMainRegs = {8}
    PsgHookRegs = {7}
    PsgValues = {1, 2}
    VdpMainOps = {"wrtvdp", "setwrt", "data", "status"}
    VdpHookOps = {"cmd"}
    VdpMainRegs = {7}
    VdpHookRegs = {7}
    VdpValues = {1, 244}
    VdpAddrs = {16383}
    MaxData = 1
    PpiMainOps = {"stmotr"}
    PpiHookOps = {"direct"}
    PpiMainRows = {}
    PpiHookRows = {8}
    LockKeys = {"caps"}
INVARIANT TypeOK
INVARIANT PsgRegistersAsWritten
INVARIANT PsgReadsNamedRegister
INVARIANT VdpRegistersAsWritten
INVARIANT KbReadsNamedRow

------------------------------ MODULE IoPorts --------------------------------
(***************************************************************************)
(* The PSG (PsgPort), the VDP command port (VdpPort) and the keyboard     *)
(* ports of the PPI (PpiPort) driven by one Z80: one main program and one  *)
(* interrupt handler share the three chips. The VSYNC interrupt (enabled   *)
(* by VDP register 1) runs BIOS KEYINT, which reads the VDP status, calls  *)
(* the H.TIMI hook (where the program's own code may use the macros of     *)
(* psg.h, vdp.h and keycode.h), reads the joystick triggers through PSG    *)
(* register 14 and then may scan the keyboard through PPI port C. A        *)
(* context runs one macro at a time, on any of the chips.                  *)
(***************************************************************************)
EXTENDS Naturals

CONSTANTS
    PsgMainOps, PsgHookOps, PsgMainRegs, PsgHookRegs, PsgValues,
    VdpMainOps, VdpHookOps, VdpMainRegs, VdpHookRegs, VdpValues,
    VdpAddrs, MaxData,
    PpiMainOps, PpiHookOps, PpiMainRows, PpiHookRows, LockKeys

VARIABLES
    msx1Vdp, ctx,
    latch, regs, psgPc, psgOp, trig, psgIntended, readOK,
    second, latched, vregs, vramAddr, vdpPc, vdpOp, statusRead, vdpIntended,
    wantAddr, sent,
    portC, capst, kanast, kbPc, kbWant, scanned, motorOn, kbReadOK

psgVars == <<latch, regs, psgPc, psgOp, trig, psgIntended, readOK>>
vdpVars == <<second, latched, vregs, vramAddr, vdpPc, vdpOp, statusRead,
             vdpIntended, wantAddr, sent>>
ppiVars == <<portC, capst, kanast, kbPc, kbWant, scanned, motorOn, kbReadOK>>
vars == <<msx1Vdp, ctx, psgVars, vdpVars, ppiVars>>

P == INSTANCE PsgPort WITH
        pc <- psgPc, op <- psgOp, intended <- psgIntended,
        MainOps <- PsgMainOps, HookOps <- PsgHookOps,
        MainRegs <- PsgMainRegs, HookRegs <- PsgHookRegs, Values <- PsgValues

V == INSTANCE VdpPort WITH
        pc <- vdpPc, op <- vdpOp, intended <- vdpIntended,
        MainOps <- VdpMainOps, HookOps <- VdpHookOps,
        MainRegs <- VdpMainRegs, HookRegs <- VdpHookRegs, Values <- VdpValues,
        Addrs <- VdpAddrs

K == INSTANCE PpiPort WITH
        pc <- kbPc, want <- kbWant, readOK <- kbReadOK,
        MainOps <- PpiMainOps, HookOps <- PpiHookOps,
        MainRows <- PpiMainRows, HookRows <- PpiHookRows, Keys <- LockKeys

Ctx == P!Ctx

\* KEYINT calls H.TIMI after its status read and before its trigger read.
InHook(c) == c = "isr" => statusRead /\ ~trig

Init == P!Init /\ V!Init /\ K!Init

\* No macro of context c on a chip other than chip is half done.
Pcs == [psg |-> psgPc, vdp |-> vdpPc, kb |-> kbPc]
OthersIdle(c, chip) == \A ch \in DOMAIN Pcs \ {chip} : Pcs[ch][c] = "idle"

\* A step of a PSG macro or of wrtpsg, while no VDP or keyboard macro of
\* the same context is half done.
PsgStep ==
    /\ \/ \E c \in Ctx :
            /\ OthersIdle(c, "psg") /\ InHook(c)
            /\ \/ \E r \in P!RegsOf(c), v \in PsgValues : P!WriteAddr(c, r, v)
               \/ P!WriteData(c)
               \/ \E r \in P!RegsOf(c) : P!ReadAddr(c, r)
               \/ P!ReadData(c)
       \/ OthersIdle("main", "psg") /\ \E r \in PsgMainRegs, v \in PsgValues : P!WrtPsg(r, v)
    /\ UNCHANGED <<vdpVars, ppiVars>>

\* A step of a VDP macro or of wrtvdp/setwrt, while no PSG or keyboard
\* macro of the same context is half done.
VdpStep ==
    /\ \/ \E c \in Ctx :
            /\ OthersIdle(c, "vdp") /\ InHook(c)
            /\ \/ \E o \in V!PairsOf(c) : V!CmdFirst(c, o)
               \/ V!CmdSecond(c)
       \/ OthersIdle("main", "vdp")
          /\ \/ V!DataOut \/ V!StatusIn
             \/ \E r \in VdpMainRegs, v \in VdpValues : V!WrtVdp(r, v)
             \/ \E a \in VdpAddrs : V!SetWrt(a)
    /\ UNCHANGED <<psgVars, ppiVars>>

\* A step of KB_DIRECT_READ or of stmotr, while no PSG or VDP macro of the
\* same context is half done.
PpiStep ==
    /\ \/ \E c \in Ctx :
            /\ OthersIdle(c, "kb") /\ InHook(c)
            /\ \/ \E r \in K!RowsOf(c) : K!KbSelect(c, r)
               \/ K!KbRead(c)
       \/ OthersIdle("main", "kb") /\ \E a \in K!MotorActions : K!StMotr(a)
    /\ UNCHANGED <<psgVars, vdpVars>>

\* The VSYNC interrupt stops the main program wherever it is, on any chip.
Interrupt == P!Interrupt /\ V!Interrupt /\ K!Interrupt

\* KEYINT: the status read, then (after the hook) the trigger read, then
\* the keyboard scan or its skip.
KeyintStatus == V!KeyintStatus /\ UNCHANGED <<psgVars, ppiVars>>
KeyintTriggers ==
    /\ statusRead /\ OthersIdle("isr", "psg") /\ P!KeyintTriggers
    /\ UNCHANGED <<vdpVars, ppiVars>>
KeyintScan ==
    /\ trig
    /\ \/ \E pressed \in SUBSET LockKeys : K!KeyintScan(pressed)
       \/ K!KeyintSkip
    /\ UNCHANGED <<psgVars, vdpVars>>

Return == P!Return /\ V!Return /\ K!Return

Next ==
    \/ PsgStep \/ VdpStep \/ PpiStep
    \/ Interrupt \/ KeyintStatus \/ KeyintTriggers \/ KeyintScan \/ Return

\* The VDP model is fixed for the machine's lifetime.
Spec == Init /\ [][Next /\ UNCHANGED msx1Vdp]_vars

-----------------------------------------------------------------------------

TypeOK == P!TypeOK /\ V!TypeOK /\ K!TypeOK

\* Every PSG register the program or the hook writes (with wrtpsg or
\* PSG_WRITE) holds its last write, though KEYINT moves the latch to 14.
PsgRegistersAsWritten == P!PsgRegistersAsWritten

\* PSG_READ returns the register it names, even when KEYINT's trigger read
\* falls between its two port accesses.
PsgReadsNamedRegister == P!PsgReadsNamedRegister

\* Every VDP register written by wrtvdp or by a VDP_CMD_OUT pair holds its
\* last write, though KEYINT's status read resets the port's pairing.
VdpRegistersAsWritten == V!VdpRegistersAsWritten

\* The main program's next VDP_DATA_OUT goes where its last setwrt and the
\* data bytes since have put the pointer, whatever the hook did meanwhile.
VramPointerAsSet == V!VramPointerAsSet

\* KB_DIRECT_READ(row) returns the row it names, even when KEYINT's
\* keyboard scan falls between its row select and its column read.
KbReadsNamedRow == K!KbReadsNamedRow

\* The cassette motor runs exactly when the program last started it with
\* stmotr, and the CAPS lamp is lit exactly when CAPST says CAPS lock is
\* on, whatever keyboard reads the program does.
PortCFlagsAsSet == K!PortCFlagsAsSet

\* IS_CAPS_ACTIVE() tells whether CAPS lock is on.
CapsActiveIsCapsLock == K!CapsActiveIsCapsLock

\* Every port macro does what its caller asked: each PSG and VDP register
\* holds what was last written to it, PSG_READ and KB_DIRECT_READ read the
\* register or row they name, the VRAM pointer is where the program set
\* it, however the interrupt falls between the two port accesses of a
\* macro; KB_DIRECT_READ leaves the motor and the CAPS lamp as the BIOS
\* set them, and IS_CAPS_ACTIVE() reports CAPS lock.
PortAccessesAsProgrammed ==
    /\ PsgRegistersAsWritten /\ PsgReadsNamedRegister
    /\ VdpRegistersAsWritten /\ VramPointerAsSet
    /\ KbReadsNamedRow /\ PortCFlagsAsSet /\ CapsActiveIsCapsLock

=============================================================================

------------------------------ MODULE VdpPort --------------------------------
(***************************************************************************)
(* The VDP command port of vdp.h (VDP_CMD, 0x99) and its data port        *)
(* (VDP_DATA, 0x98). The command port takes bytes in pairs: the first is  *)
(* latched; the second, with bit 7 set, writes the latched byte to        *)
(* register (second & 63), and otherwise sets the 14-bit VRAM pointer to  *)
(* latched + 256 * (second & 63), reading ahead one byte unless bit 6 is  *)
(* set. A status read (VDP_STATUS_IN, inp(0x99)) resets the pairing. Each *)
(* VDP_DATA_OUT writes at the pointer and advances it. vdp.h serves the   *)
(* TMS9918 as well as the V9938/V9958: on the TMS9918 the first byte of a *)
(* pair also goes straight into the low byte of the pointer, so a         *)
(* register write moves it.                                               *)
(*                                                                         *)
(* A program writes a register or sets the pointer with two VDP_CMD_OUT   *)
(* calls, or with BIOS wrtvdp/setwrt, which send the same two bytes under *)
(* DI. The VSYNC interrupt (taken only while register 1 has               *)
(* R1_INT_ENABLE) runs BIOS KEYINT, which reads the status and calls the  *)
(* H.TIMI hook, where the program's own code may use VDP_CMD_OUT.         *)
(***************************************************************************)
EXTENDS Naturals, Bitwise

CONSTANTS
    MainOps,    \* subset of {"cmd", "data", "status", "wrtvdp", "setwrt"}
    HookOps,    \* subset of {"cmd"}
    MainRegs,   \* VDP registers the main program writes
    HookRegs,   \* VDP registers the hook writes
    Values,     \* register values written
    Addrs,      \* VRAM addresses the main program sets the pointer to
    MaxData     \* bound on VDP_DATA_OUT calls after one pointer setup

R1_INT_ENABLE == \h20     \* vdp.h 124
VramSize == 16384         \* 14-bit VRAM pointer (R1_VRAM_16K, vdp.h 126)
Regs == MainRegs \cup HookRegs \cup {1}
Ctx == {"main", "isr"}

\* The two command-port bytes of a register write and of a write-pointer setup.
RegBytes(r, v) == <<v, 128 + r>>
AddrBytes(a) == <<a % 256, 64 + ((a \div 256) % 64)>>

VARIABLES
    msx1Vdp,    \* the VDP is a TMS9918 (MSX1), not a V9938/V9958
    ctx,        \* "main" or "isr"
    second,     \* the command port waits for the second byte of a pair
    latched,    \* the first byte of the pair
    vregs,      \* VDP register -> value
    vramAddr,   \* the VRAM pointer
    pc,         \* context -> "idle" or "cmd2" (one VDP_CMD_OUT of a pair done)
    op,         \* context -> the pair in progress and what it means
    statusRead, \* KEYINT has read the status in this interrupt
    intended,   \* ghost: register -> value last written to it by name
    wantAddr,   \* ghost: where the main program's next data byte should go
    sent        \* data bytes since the last pointer setup (bounded)

vars == <<msx1Vdp, ctx, second, latched, vregs, vramAddr, pc, op, statusRead,
          intended, wantAddr, sent>>

\* The pointer after byte b is latched as the first of a pair.
FirstByteLoad(b) ==
    IF msx1Vdp THEN (vramAddr \div 256) * 256 + b ELSE vramAddr

\* What the VDP does with byte b written to the command port.
CmdPort(b) ==
    IF ~second
    THEN /\ second' = TRUE /\ latched' = b
         /\ vramAddr' = FirstByteLoad(b)
         /\ UNCHANGED vregs
    ELSE /\ second' = FALSE /\ UNCHANGED latched
         /\ IF b >= 128
            THEN /\ vregs' = [vregs EXCEPT ![b % 64] = latched]
                 /\ UNCHANGED vramAddr
            ELSE /\ vramAddr' = (latched + 256 * (b % 64)
                                   + (IF b < 64 THEN 1 ELSE 0)) % VramSize
                 /\ UNCHANGED vregs

NoOp == [bytes |-> <<0, 0>>, reg |-> 0, val |-> 0, addr |-> 0]

Init ==
    /\ msx1Vdp \in BOOLEAN
    /\ ctx = "main"
    /\ second = FALSE
    /\ latched = 0
    /\ vregs \in {[r \in Regs |-> IF r = 1 THEN v1 ELSE 0] :
                    v1 \in {R1_INT_ENABLE, 0}}
    /\ vramAddr = 0
    /\ pc = [c \in Ctx |-> "idle"]
    /\ op = [c \in Ctx |-> NoOp]
    /\ statusRead = FALSE
    /\ intended = [r \in Regs |-> vregs[r]]
    /\ wantAddr = 0
    /\ sent = 0

Running(c) == ctx = c /\ pc[c] = "idle"

\* VDP_CMD_OUT(first byte) of a register write (r, v) or, in the main
\* program, of a write-pointer setup (a).
CmdFirst(c, o) ==
    /\ Running(c) /\ "cmd" \in IF c = "main" THEN MainOps ELSE HookOps
    /\ CmdPort(o.bytes[1])
    /\ pc' = [pc EXCEPT ![c] = "cmd2"]
    /\ op' = [op EXCEPT ![c] = o]
    /\ UNCHANGED <<ctx, statusRead, intended, wantAddr, sent>>

\* VDP_CMD_OUT(second byte): the pair is complete as far as the program knows.
CmdSecond(c) ==
    /\ ctx = c /\ pc[c] = "cmd2"
    /\ CmdPort(op[c].bytes[2])
    /\ pc' = [pc EXCEPT ![c] = "idle"]
    /\ IF op[c].bytes[2] >= 128
       THEN /\ intended' = [intended EXCEPT ![op[c].reg] = op[c].val]
            /\ UNCHANGED <<wantAddr, sent>>
       ELSE /\ wantAddr' = op[c].addr /\ sent' = 0
            /\ UNCHANGED intended
    /\ UNCHANGED <<ctx, op, statusRead>>

\* VDP_DATA_OUT(data) or VDP_DATA_IN(): one byte at the pointer, which
\* advances.
DataOutNoWrap ==
    /\ Running("main") /\ "data" \in MainOps /\ sent < MaxData
    /\ vramAddr' = vramAddr + 1
    /\ wantAddr' = (wantAddr + 1) % VramSize
    /\ sent' = sent + 1
    /\ UNCHANGED <<ctx, second, latched, vregs, pc, op, statusRead, intended>>
DataOut ==
    /\ Running("main") /\ "data" \in MainOps /\ sent < MaxData
    /\ vramAddr' = (vramAddr + 1) % VramSize
    /\ wantAddr' = (wantAddr + 1) % VramSize
    /\ sent' = sent + 1
    /\ UNCHANGED <<ctx, second, latched, vregs, pc, op, statusRead, intended>>

\* VDP_STATUS_IN(): inp(VDP_CMD) resets the command port's pairing.
StatusIn ==
    /\ Running("main") /\ "status" \in MainOps
    /\ second' = FALSE
    /\ UNCHANGED <<ctx, latched, vregs, vramAddr, pc, op, statusRead, intended,
                   wantAddr, sent>>

WrtVdpNoDI(r, v) ==
    /\ Running("main") /\ "wrtvdp" \in MainOps
    /\ CmdPort(RegBytes(r, v)[1])
    /\ pc' = [pc EXCEPT !["main"] = "cmd2"]
    /\ op' = [op EXCEPT !["main"] = [NoOp EXCEPT !.bytes = RegBytes(r, v),
                                                 !.reg = r, !.val = v]]
    /\ UNCHANGED <<ctx, statusRead, intended, wantAddr, sent>>
\* wrtvdp(reg, data), BIOS 0x0047: both bytes under DI; data is the first.
WrtVdp(r, v) ==
    /\ Running("main") /\ "wrtvdp" \in MainOps
    /\ second' = FALSE /\ latched' = v
    /\ vramAddr' = FirstByteLoad(v)
    /\ vregs' = [vregs EXCEPT ![r] = v]
    /\ intended' = [intended EXCEPT ![r] = v]
    /\ UNCHANGED <<ctx, pc, op, statusRead, wantAddr, sent>>

\* setwrt(addr), BIOS 0x0053: both bytes of a write-pointer setup under DI.
SetWrt(a) ==
    /\ Running("main") /\ "setwrt" \in MainOps
    /\ second' = FALSE /\ latched' = AddrBytes(a)[1]
    /\ vramAddr' = a
    /\ wantAddr' = a
    /\ sent' = 0
    /\ UNCHANGED <<ctx, vregs, pc, op, statusRead, intended>>

\* The VSYNC interrupt, raised only while register 1 enables it.
Interrupt ==
    /\ ctx = "main"
    /\ (vregs[1] & R1_INT_ENABLE) # 0
    /\ ctx' = "isr" /\ statusRead' = FALSE
    /\ UNCHANGED <<second, latched, vregs, vramAddr, pc, op, intended, wantAddr,
                   sent>>

\* KEYINT reads the VDP status into STATFL: the command port's pairing resets.
KeyintStatus ==
    /\ Running("isr") /\ ~statusRead
    /\ second' = FALSE /\ statusRead' = TRUE
    /\ UNCHANGED <<ctx, latched, vregs, vramAddr, pc, op, intended, wantAddr,
                   sent>>

\* The handler returns once the status is read and the hook is done.
Return ==
    /\ Running("isr") /\ statusRead
    /\ ctx' = "main"
    /\ UNCHANGED <<second, latched, vregs, vramAddr, pc, op, statusRead,
                   intended, wantAddr, sent>>

RegOps(rs) == {[NoOp EXCEPT !.bytes = RegBytes(r, v), !.reg = r, !.val = v] :
                 r \in rs, v \in Values}
AddrOps == {[NoOp EXCEPT !.bytes = AddrBytes(a), !.addr = a] : a \in Addrs}

\* The pairs each context sends: the hook only writes registers.
PairsOf(c) == IF c = "main" THEN RegOps(MainRegs) \cup AddrOps ELSE RegOps(HookRegs)

Next ==
    \/ \E c \in Ctx : \E o \in PairsOf(c) : CmdFirst(c, o)
    \/ \E c \in Ctx : CmdSecond(c)
    \/ DataOut
    \/ StatusIn
    \/ \E r \in MainRegs, v \in Values : WrtVdp(r, v)
    \/ \E a \in Addrs : SetWrt(a)
    \/ Interrupt \/ KeyintStatus \/ Return

\* The VDP model is fixed for the machine's lifetime.
Spec == Init /\ [][Next /\ UNCHANGED msx1Vdp]_vars

-----------------------------------------------------------------------------

TypeOK ==
    /\ ctx \in Ctx
    /\ vramAddr \in 0 .. VramSize - 1
    /\ wantAddr \in 0 .. VramSize - 1
    /\ pc \in [Ctx -> {"idle", "cmd2"}]

\* Every register the program or its hook writes by name holds the value
\* last written to it, whichever interrupt came between the two bytes.
VdpRegistersAsWritten ==
    \A r \in MainRegs \cup HookRegs : vregs[r] = intended[r]

\* Between its own port accesses, the main program's next VDP_DATA_OUT goes
\* where its last pointer setup and the data bytes since put it.
VramPointerAsSet ==
    pc["main"] = "idle" => vramAddr = wantAddr

=============================================================================

------------------------------ MODULE PsgPort -------------------------------
(***************************************************************************)
(* The AY-3-8910 PSG behind the ports of psg.h: an address latch written  *)
(* at PSG_ADDR (0xA0), and the register it selects, written at 0xA1 and   *)
(* read at 0xA2. PSG_WRITE(reg, val) and PSG_READ(reg) are two port       *)
(* accesses each, with the first one selecting the register (modelled in  *)
(* the form the macros intend: the data port 0xA1 and the read port 0xA2; *)
(* as written they name themselves, see the namespace model).             *)
(*                                                                         *)
(* Two contexts use the PSG: the main program, which the VSYNC interrupt  *)
(* may stop between any two port accesses, and the interrupt handler      *)
(* (BIOS KEYINT at 0x0038), which runs with interrupts disabled. It calls *)
(* the H.TIMI hook, where a program's own code may use the macros, and    *)
(* reads the joystick triggers, which selects PSG register 14 and leaves  *)
(* the latch there. BIOS wrtpsg (0x0093) writes with interrupts disabled. *)
(***************************************************************************)
EXTENDS Naturals

CONSTANTS
    MainOps,    \* what the main program uses: subset of {"write", "read", "wrtpsg"}
    HookOps,    \* what the H.TIMI hook uses: subset of {"write", "read"}
    MainRegs,   \* PSG registers the main program names
    HookRegs,   \* PSG registers the hook names
    Values      \* values written

PSG_REG_IO_A == 14     \* psg.h 55: I/O port A, the joystick triggers
PSG_REG_IO_B == 15     \* psg.h 56: I/O port B, the joystick select
Regs == MainRegs \cup HookRegs \cup {PSG_REG_IO_A}
Ctx == {"main", "isr"}
OpsOf(c) == IF c = "main" THEN MainOps ELSE HookOps
RegsOf(c) == IF c = "main" THEN MainRegs ELSE HookRegs

VARIABLES
    ctx,       \* the context the CPU runs: "main" or "isr"
    latch,     \* the PSG address latch
    regs,      \* PSG register -> value
    pc,        \* context -> "idle", or the macro it is in the middle of
    op,        \* context -> the register (and value) its macro names
    trig,      \* the handler has read the triggers in this interrupt
    intended,  \* ghost: register -> value last written to it by name
    readOK     \* ghost: the last PSG_READ returned the register it named

vars == <<ctx, latch, regs, pc, op, trig, intended, readOK>>

Init ==
    /\ ctx = "main"
    /\ latch \in Regs
    /\ regs = [r \in Regs |-> 0]
    /\ pc = [c \in Ctx |-> "idle"]
    /\ op = [c \in Ctx |-> [reg |-> PSG_REG_IO_A, val |-> 0]]
    /\ trig = FALSE
    /\ intended = [r \in Regs |-> 0]
    /\ readOK = TRUE

Running(c) == ctx = c /\ pc[c] = "idle"

\* PSG_WRITE(reg, val), first statement: outp(PSG_ADDR, (reg)).
WriteAddr(c, r, v) ==
    /\ Running(c) /\ "write" \in OpsOf(c)
    /\ latch' = r
    /\ pc' = [pc EXCEPT ![c] = "write"]
    /\ op' = [op EXCEPT ![c] = [reg |-> r, val |-> v]]
    /\ UNCHANGED <<ctx, regs, trig, intended, readOK>>

\* PSG_WRITE, second statement: outp(0xA1, (val)) lands in the latched register.
WriteData(c) ==
    /\ ctx = c /\ pc[c] = "write"
    /\ regs' = [regs EXCEPT ![latch] = op[c].val]
    /\ intended' = [intended EXCEPT ![op[c].reg] = op[c].val]
    /\ pc' = [pc EXCEPT ![c] = "idle"]
    /\ UNCHANGED <<ctx, latch, op, trig, readOK>>

\* PSG_READ(reg) without selecting the register first.
ReadAddrNoSelect(c, r) ==
    /\ Running(c) /\ "read" \in OpsOf(c)
    /\ pc' = [pc EXCEPT ![c] = "read"]
    /\ op' = [op EXCEPT ![c] = [reg |-> r, val |-> 0]]
    /\ UNCHANGED <<ctx, latch, regs, trig, intended, readOK>>
\* PSG_READ(reg), left operand of the comma: outp(PSG_ADDR, (reg)).
ReadAddr(c, r) ==
    /\ Running(c) /\ "read" \in OpsOf(c)
    /\ latch' = r
    /\ pc' = [pc EXCEPT ![c] = "read"]
    /\ op' = [op EXCEPT ![c] = [reg |-> r, val |-> 0]]
    /\ UNCHANGED <<ctx, regs, trig, intended, readOK>>

\* PSG_READ, right operand: inp(0xA2) reads the latched register.
ReadData(c) ==
    /\ ctx = c /\ pc[c] = "read"
    /\ readOK' = (regs[latch] = regs[op[c].reg])
    /\ pc' = [pc EXCEPT ![c] = "idle"]
    /\ UNCHANGED <<ctx, latch, regs, op, trig, intended>>

\* wrtpsg(reg, data) without DI: its data write is a step of its own.
WrtPsgNoDI(r, v) ==
    /\ Running("main") /\ "wrtpsg" \in MainOps
    /\ latch' = r
    /\ pc' = [pc EXCEPT !["main"] = "write"]
    /\ op' = [op EXCEPT !["main"] = [reg |-> r, val |-> v]]
    /\ UNCHANGED <<ctx, regs, trig, intended, readOK>>
\* wrtpsg(reg, data), BIOS 0x0093: DI, both port writes, EI.
WrtPsg(r, v) ==
    /\ Running("main") /\ "wrtpsg" \in MainOps
    /\ latch' = r
    /\ regs' = [regs EXCEPT ![r] = v]
    /\ intended' = [intended EXCEPT ![r] = v]
    /\ UNCHANGED <<ctx, pc, op, trig, readOK>>

\* The VSYNC interrupt: the main program stops wherever it is.
Interrupt ==
    /\ ctx = "main"
    /\ ctx' = "isr"
    /\ trig' = FALSE
    /\ UNCHANGED <<latch, regs, pc, op, intended, readOK>>

KeyintTriggersLatchB ==
    /\ Running("isr") /\ ~trig
    /\ latch' = PSG_REG_IO_B
    /\ trig' = TRUE
    /\ UNCHANGED <<ctx, regs, pc, op, intended, readOK>>
\* KEYINT selects the joystick port in register 15, then reads the
\* triggers into TRGFLG through register 14; the latch stays at 14.
KeyintTriggers ==
    /\ Running("isr") /\ ~trig
    /\ latch' = PSG_REG_IO_A
    /\ trig' = TRUE
    /\ UNCHANGED <<ctx, regs, pc, op, intended, readOK>>

\* The handler returns (EI; RET) once the triggers are read.
Return ==
    /\ Running("isr") /\ trig
    /\ ctx' = "main"
    /\ UNCHANGED <<latch, regs, pc, op, trig, intended, readOK>>

Next ==
    \/ \E c \in Ctx :
          \/ \E r \in RegsOf(c), v \in Values : WriteAddr(c, r, v)
          \/ WriteData(c)
          \/ \E r \in RegsOf(c) : ReadAddr(c, r)
          \/ ReadData(c)
    \/ \E r \in MainRegs, v \in Values : WrtPsg(r, v)
    \/ Interrupt \/ KeyintTriggers \/ Return

Spec == Init /\ [][Next]_vars

-----------------------------------------------------------------------------

TypeOK ==
    /\ ctx \in Ctx
    /\ latch \in Regs
    /\ regs \in [Regs -> Values \cup {0}]
    /\ pc \in [Ctx -> {"idle", "write", "read"}]

\* Every register the program or its hook writes holds the value last
\* written to it by name, whatever the interrupt did between the two port
\* writes of PSG_WRITE or wrtpsg.
PsgRegistersAsWritten ==
    \A r \in MainRegs \cup HookRegs : regs[r] = intended[r]

\* PSG_READ(reg) returns the value of register reg, even when the handler
\* selected register 14 between its two port accesses.
PsgReadsNamedRegister == readOK

=============================================================================

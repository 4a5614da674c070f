------------------------------ MODULE PpiPort -------------------------------
(***************************************************************************)
(* The keyboard side of the 8255 PPI, as keycode.h drives it: port C       *)
(* (KB_ROW_SELECT, 0xAA) holds the keyboard row in bits 0-3 and, in its    *)
(* upper bits, the cassette motor (bit 4, 0 = on), the cassette output     *)
(* (bit 5), the CAPS lamp (bit 6, 0 = on) and the key click (bit 7); port  *)
(* B (KB_COL_READ, 0xA9) returns the columns of the row port C selects.   *)
(* KB_DIRECT_READ(row) is two port accesses: it writes row | 0x40 to port *)
(* C, then reads port B.                                                   *)
(*                                                                         *)
(* The same two contexts as PsgPort: the main program, which the VSYNC    *)
(* interrupt may stop between any two port accesses, and the handler,     *)
(* BIOS KEYINT, which may scan the keyboard after the H.TIMI hook and the *)
(* trigger read. Its scan selects each row with IN/AND 0F0h/OR row/OUT,   *)
(* keeping the upper bits, and leaves the last row (row 10: NEWKEY holds  *)
(* 11 rows) selected. A fresh CAPS press toggles CAPST (0xFCAB) and sets  *)
(* the lamp to match; a fresh KANA (CODE) press toggles KANAST (0xFCAC).  *)
(* BIOS stmotr (0x00F3) sets or clears the motor bit with one write to    *)
(* the PPI control port.                                                   *)
(***************************************************************************)
EXTENDS Naturals

CONSTANTS
    MainOps,    \* what the main program uses: subset of {"direct", "stmotr"}
    HookOps,    \* what the H.TIMI hook uses: subset of {"direct"}
    MainRows,   \* rows the main program reads
    HookRows,   \* rows the hook reads
    Keys        \* lock keys a scan may see pressed: subset of {"caps", "kana"}

LastScanRow == 10
Rows == 0 .. 10
Ctx == {"main", "isr"}
OpsOf(c) == IF c = "main" THEN MainOps ELSE HookOps
RowsOf(c) == IF c = "main" THEN MainRows ELSE HookRows
\* stmotr's argument: 0 stops the motor, 1 starts it, 255 reverses it.
MotorActions == {0, 1, 255}

\* The fields of a port C byte.
RowOf(b) == b % 16
CASON(b) == (b \div 16) % 2
CAPS(b) == (b \div 64) % 2
\* Port C with bit k (a power of two) set to x.
WithBit(b, k, x) == (b \div (2 * k)) * (2 * k) + x * k + (b % k)

VARIABLES
    ctx,       \* the context the CPU runs: "main" or "isr"
    portC,     \* the byte in PPI port C
    capst,     \* CAPST (0xFCAB): 0 or 255
    kanast,    \* KANAST (0xFCAC): 0 or 255
    pc,        \* context -> "idle", or "direct" between KB_DIRECT_READ's accesses
    want,      \* context -> the row its KB_DIRECT_READ names
    scanned,   \* the handler has scanned (or skipped the scan) this interrupt
    motorOn,   \* ghost: the motor state the program last asked stmotr for
    readOK     \* ghost: the last KB_DIRECT_READ read the row it named

vars == <<ctx, portC, capst, kanast, pc, want, scanned, motorOn, readOK>>

\* After INITIO the motor is off, the lamp is off and some row is selected.
Init ==
    /\ ctx = "main"
    /\ portC \in {80 + r : r \in Rows}
    /\ capst = 0
    /\ kanast = 0
    /\ pc = [c \in Ctx |-> "idle"]
    /\ want = [c \in Ctx |-> 0]
    /\ scanned = FALSE
    /\ motorOn = FALSE
    /\ readOK = TRUE

Running(c) == ctx = c /\ pc[c] = "idle"

\* KB_DIRECT_READ selecting the next row: ((row) + 1) | 0x40.
KbSelectOffByOne(c, r) ==
    /\ Running(c) /\ "direct" \in OpsOf(c)
    /\ portC' = ((r + 1) % 16) + 64
    /\ pc' = [pc EXCEPT ![c] = "direct"]
    /\ want' = [want EXCEPT ![c] = r]
    /\ UNCHANGED <<ctx, capst, kanast, scanned, motorOn, readOK>>

\* KB_DIRECT_READ(row), left operand: outp(KB_ROW_SELECT, (row) | 0x40).
KbSelect(c, r) ==
    /\ Running(c) /\ "direct" \in OpsOf(c)
    /\ portC' = r + 64
    /\ pc' = [pc EXCEPT ![c] = "direct"]
    /\ want' = [want EXCEPT ![c] = r]
    /\ UNCHANGED <<ctx, capst, kanast, scanned, motorOn, readOK>>

\* KB_DIRECT_READ, right operand: inp(KB_COL_READ) returns the columns of
\* whichever row port C selects now.
KbRead(c) ==
    /\ ctx = c /\ pc[c] = "direct"
    /\ readOK' = (RowOf(portC) = want[c])
    /\ pc' = [pc EXCEPT ![c] = "idle"]
    /\ UNCHANGED <<ctx, portC, capst, kanast, want, scanned, motorOn>>

\* stmotr(action): bit 4 of port C set (stop) or cleared (start) in one
\* write to the control port; 255 reverses the current state.
StMotr(a) ==
    /\ Running("main") /\ "stmotr" \in MainOps
    /\ LET on == IF a = 255 THEN CASON(portC) = 1 ELSE a = 1
       IN /\ portC' = WithBit(portC, 16, IF on THEN 0 ELSE 1)
          /\ motorOn' = on
    /\ UNCHANGED <<ctx, capst, kanast, pc, want, scanned, readOK>>

\* The VSYNC interrupt: the main program stops wherever it is.
Interrupt ==
    /\ ctx = "main"
    /\ ctx' = "isr"
    /\ scanned' = FALSE
    /\ UNCHANGED <<portC, capst, kanast, pc, want, motorOn, readOK>>

\* KEYINT scans the matrix: every row select keeps the upper bits, the last
\* leaves row 10 selected. Each lock key seen freshly pressed toggles its
\* work-area byte; CAPS also sets the lamp (bit 6 cleared when CAPST # 0).
KeyintScan(pressed) ==
    /\ Running("isr") /\ ~scanned
    /\ LET caps == IF "caps" \in pressed THEN 255 - capst ELSE capst
       IN /\ capst' = caps
          /\ portC' = WithBit((portC \div 16) * 16 + LastScanRow, 64,
                              IF caps = 0 THEN 1 ELSE 0)
    /\ kanast' = IF "kana" \in pressed THEN 255 - kanast ELSE kanast
    /\ scanned' = TRUE
    /\ UNCHANGED <<ctx, pc, want, motorOn, readOK>>

\* KEYINT skips the scan on this interrupt (SCNCNT has not run out).
KeyintSkip ==
    /\ Running("isr") /\ ~scanned
    /\ scanned' = TRUE
    /\ UNCHANGED <<ctx, portC, capst, kanast, pc, want, motorOn, readOK>>

Return ==
    /\ Running("isr") /\ scanned
    /\ ctx' = "main"
    /\ UNCHANGED <<portC, capst, kanast, pc, want, scanned, motorOn, readOK>>

Next ==
    \/ \E c \in Ctx : (\E r \in RowsOf(c) : KbSelect(c, r)) \/ KbRead(c)
    \/ \E a \in MotorActions : StMotr(a)
    \/ Interrupt \/ KeyintSkip \/ Return
    \/ \E pressed \in SUBSET Keys : KeyintScan(pressed)

Spec == Init /\ [][Next]_vars

-----------------------------------------------------------------------------

\* IS_CAPS_ACTIVE(), keycode.h 273: PEEK(0xFCAC) & 0x40.
IS_CAPS_ACTIVE == (kanast \div 64) % 2 # 0

TypeOK ==
    /\ ctx \in Ctx
    /\ portC \in 0 .. 255
    /\ capst \in {0, 255} /\ kanast \in {0, 255}
    /\ pc \in [Ctx -> {"idle", "direct"}]
    /\ want \in [Ctx -> Rows]

\* KB_DIRECT_READ(row) returns the columns of the row it names, even when
\* KEYINT's scan selects row 10 between its two port accesses.
KbReadsNamedRow == readOK

\* The upper bits of port C are as the BIOS keeps them: the cassette motor
\* runs exactly when the program last asked stmotr to start it, and the
\* CAPS lamp is lit exactly when CAPST says CAPS lock is on.
PortCFlagsAsSet ==
    /\ (CASON(portC) = 0) = motorOn
    /\ (CAPS(portC) = 0) = (capst # 0)

\* IS_CAPS_ACTIVE() is true exactly when CAPS lock is on.
CapsActiveIsCapsLock == IS_CAPS_ACTIVE = (capst # 0)

=============================================================================

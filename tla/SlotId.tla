------------------------------- MODULE SlotId --------------------------------
(***************************************************************************)
(* The slot byte a program passes to slot_read, slot_write and slot_call   *)
(* (slot.h 97-127: "use MAKE_SLOT or MAKE_SLOT_PRIMARY macros"), and the  *)
(* slot the BIOS inter-slot routines those functions use (RDSLT, WRSLT,   *)
(* CALSLT, ENASLT: slot.h 160-164) select for it. The BIOS takes the slot *)
(* in register A as F000SSPP: bit 7 says the slot is expanded, bits 3-2   *)
(* are the secondary slot, bits 1-0 the primary slot. Each state of this  *)
(* module is one call, built the way slot.h's examples build it.          *)
(***************************************************************************)
EXTENDS SlotMacros

\* slot.h 187-204: SLOT_n constants, MAKE_SLOT_PRIMARY(p), MAKE_SLOT(p, s).
Calls ==
    {[mk |-> "SLOT_n", p |-> p, s |-> 0] : p \in PrimarySlots}
    \cup {[mk |-> "MAKE_SLOT_PRIMARY", p |-> p, s |-> 0] : p \in PrimarySlots}
    \cup {[mk |-> "MAKE_SLOT", p |-> p, s |-> s] : p, s \in PrimarySlots}

\* The slot byte of a call: SLOT_0 .. SLOT_3 are 0 .. 3 (slot.h 25-29).
SlotByte(c) ==
    CASE c.mk = "SLOT_n"            -> c.p
      [] c.mk = "MAKE_SLOT_PRIMARY" -> MAKE_SLOT_PRIMARY(c.p)
      [] c.mk = "MAKE_SLOT"         -> MAKE_SLOT(c.p, c.s)

\* The slot the caller names: a secondary slot only through MAKE_SLOT.
Named(c) ==
    [primary |-> c.p,
     secondary |-> IF c.mk = "MAKE_SLOT" THEN c.s ELSE "none"]

\* The slot RDSLT/WRSLT/CALSLT/ENASLT select for slot ID id (F000SSPP).
BiosSlot(id) ==
    [primary |-> id % 4,
     secondary |-> IF (id \div 128) % 2 = 1 THEN (id \div 4) % 4 ELSE "none"]

VARIABLE call

Init == call \in Calls
Next == UNCHANGED call
Spec == Init /\ [][Next]_call

-----------------------------------------------------------------------------

\* slot_read(slot, addr) reads the slot its slot byte names: the example of
\* slot.h 190-191, slot_read(MAKE_SLOT(2, 1), 0x4000), reads slot 2-1.
SlotCallSelectsNamedSlot == BiosSlot(SlotByte(call)) = Named(call)

=============================================================================

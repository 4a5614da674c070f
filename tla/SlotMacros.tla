----------------------------- MODULE SlotMacros -----------------------------
(***************************************************************************)
(* The slot-byte and page arithmetic of include/msx/slot.h and the         *)
(* expansion test of include/msx/system.h, as operators over naturals.     *)
(* A slot byte has the layout E0SSPP: bit 7 expanded flag, bits 5-4 the    *)
(* secondary slot, bits 1-0 the primary slot.  Every operator keeps the    *)
(* masks of the C macro, so an argument out of range aliases exactly as    *)
(* the compiled macro does.                                                *)
(***************************************************************************)
EXTENDS Naturals

Pages == 0 .. 3            \* PAGE_0 .. PAGE_3, PAGE_SIZE = 0x4000
PrimarySlots == 0 .. 3     \* SLOT_0 .. SLOT_3
PAGE_SIZE == 16384
SLOT_EXPANDED == 128

\* MAKE_SLOT(primary, secondary)
MAKE_SLOT(primary, secondary) ==
    SLOT_EXPANDED + (secondary % 4) * 16 + (primary % 4)

\* MAKE_SLOT_PRIMARY(primary)
MAKE_SLOT_PRIMARY(primary) == primary % 4

\* GET_PRIMARY_SLOT(slot)
GET_PRIMARY_SLOT(slot) == slot % 4

\* GET_SECONDARY_SLOT(slot)
GET_SECONDARY_SLOT(slot) == (slot \div 16) % 4

\* IS_EXPANDED_SLOT(slot): the macro yields 0 or 0x80, not 0 or 1
IS_EXPANDED_SLOT(slot) == ((slot \div 128) % 2) * SLOT_EXPANDED

\* ADDR_TO_PAGE(addr) on a 16-bit unsigned address
ADDR_TO_PAGE(addr) == (addr % 65536) \div 16384

\* The offset of an address inside its page (addr & (PAGE_SIZE - 1))
PageOffset(addr) == (addr % 65536) % PAGE_SIZE

\* SLOT_FOR_PAGE(slot, page): the 2-bit field of a slot register for a page
SLOT_FOR_PAGE(slot, page) == (slot % 4) * 2^(page * 2)

\* IS_SLOT_EXPANDED(slot): bit 7 of EXPTBL[slot]
IS_SLOT_EXPANDED(exptbl, slot) == ((exptbl[slot] \div 128) % 2) * SLOT_EXPANDED

=============================================================================

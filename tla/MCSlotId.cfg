\* Every slot byte slot.h's examples build: the primary slot constants,
\* MAKE_SLOT_PRIMARY and MAKE_SLOT over all primary and secondary slots.
SPECIFICATION Spec
INVARIANT SlotCallSelectsNamedSlot

\* The entropy and the block function and two pages: one function can be given
\* the page the other has left.
CONSTANTS
  Slots = {1, 2}
  EmptySlot = 3
  Window = {16, 4097}
SPECIFICATION Spec
INVARIANTS ConfigReadIsRight FunctionsAreIndependent AccessReachesOwner

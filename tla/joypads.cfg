CONSTANTS
  Buttons = 3
  SlotClks = 4
  CycleClks = 2
  Players = {1}
  MaxMoves = 2
SPECIFICATION Spec
INVARIANTS ReadsGiveButtons

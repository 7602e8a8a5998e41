SPECIFICATION Spec
CONSTANTS
  Inputs <- SomeInputs
  Reach = 2
  Wrap = 3
  Rows = 2
  BottomRow = 0
  SavesShifted = FALSE
INVARIANTS
  TypeOK
  ShiftUndone
  ShiftSaved
PROPERTY
  DirectionStaysHidden

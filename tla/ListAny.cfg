CONSTANTS
  Objects = {o1, o2}
  Unset = Unset
  MaxLength = 3
  MaxHeld = 2
SPECIFICATION Spec
INVARIANTS
  TypeOK
  NeverGrows
  RefsBalance
PROPERTY SequenceUnlessSparse
CHECK_DEADLOCK FALSE

SPECIFICATION Spec
CONSTANTS
  Half = 8
  size = 3
  Value = {zero, a, b}
  Zero = zero
  Panic = panic
  MinFirst = 2
  MaxFirst = 6
PROPERTY StoreInBounds

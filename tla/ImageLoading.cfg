SPECIFICATION Spec
CONSTANTS
  LineBytes = 4
  WordBytes = 8
  Size = 8
  Byte = {0, 1}
  MaxLines = 3
INVARIANT ImageLoaded

\* INITIATE_CLEAR with a response waiting.
CONSTANTS
  x = x
  y = y
  Nul = Nul
  Byte = {x, y}
  Header = 2
  Align = 2
  BufSize = 4
  Tries = 2
  BufMax = 8
  Message <- Shapes
  Clears = TRUE
SPECIFICATION Spec
INVARIANTS ClearClears

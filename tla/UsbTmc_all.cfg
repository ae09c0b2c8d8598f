\* Commands of every shape, a host that asks, clears, leaves and returns.
CONSTANTS
  x = x
  y = y
  Nul = Nul
  Byte = {x, y}
  Header = 2
  Align = 2
  BufSize = 4
  Tries = 2
  BufMax = 5
  Message <- Shapes
  Clears = TRUE
SPECIFICATION Spec
INVARIANTS TypeOK CommandAsSent InStep PartsMakeTheResponse
PROPERTIES ImplementsStream

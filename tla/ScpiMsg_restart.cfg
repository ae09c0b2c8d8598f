\* Two writers at once, the USBTMC sink thread, which may be cancelled, and the VXI-11
\* thread, in a process that dies and starts again on the queue it left.
CONSTANTS
  usb = usb
  vxi = vxi
  b1 = b1
  b2 = b2
  Nul = Nul
  BufMax = 3
  Writers = {usb, vxi}
  Cancellable = {usb}
  Byte = {b1}
  CmdLen = 2
  ReadLen = 2
  QueueMax = 2
  Restarts = TRUE
SPECIFICATION Spec
INVARIANTS SemaphoreNeverAhead
PROPERTIES BacklogOnlyFromRestart

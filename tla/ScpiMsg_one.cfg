\* One writer that is not cancelled: the VXI-11 thread.
CONSTANTS
  usb = usb
  vxi = vxi
  b1 = b1
  b2 = b2
  Nul = Nul
  BufMax = 4
  Writers = {vxi}
  Cancellable = {}
  Byte = {b1, b2}
  CmdLen = 2
  ReadLen = 2
  QueueMax = 2
  Restarts = FALSE
SPECIFICATION FairSpec
INVARIANTS TypeOK SemaphoreMatchesQueue NoSleepOnUnread
PROPERTIES ImplementsStream UnreadIsRead

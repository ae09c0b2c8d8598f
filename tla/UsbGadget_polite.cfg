\* A host that waits for its answers and for its disconnect to be noticed.
CONSTANTS
  t1 = t1
  t2 = t2
  t3 = t3
  Thread = {t1, t2, t3}
  None = None
  Lost = Lost
  Ep0 = Ep0
  Stale = Stale
  Reconfigures = FALSE
  FastReset = FALSE
  Timeouts = FALSE
  Interrupts = FALSE
SPECIFICATION FairSpec
INVARIANTS NoOrphan
PROPERTIES ConfiguredServes

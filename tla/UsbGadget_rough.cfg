\* Repeated configurations, resets and timeouts; threads run out; SIGINT may end ep0.
CONSTANTS
  t1 = t1
  t2 = t2
  t3 = t3
  Thread = {t1, t2, t3}
  None = None
  Lost = Lost
  Ep0 = Ep0
  Stale = Stale
  Reconfigures = TRUE
  FastReset = TRUE
  Timeouts = TRUE
  Interrupts = TRUE
SPECIFICATION FairSpec
INVARIANTS TypeOK SinkOwnsFiles FdsAreOpen HaltsOwnEndpoint
PROPERTIES RequestAnswered Quiesces
CHECK_DEADLOCK FALSE

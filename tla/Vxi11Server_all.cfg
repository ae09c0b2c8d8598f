\* Calls that arrive whole, or without their last units.
SPECIFICATION Spec
CONSTANTS
  None = None
  Asked <- MCAsked
  Cut = {0, 1, 2}
INVARIANTS HandlerGetsWhatWasSent ClientGetsResult ArgumentsAreFreed CallsAreAnswered

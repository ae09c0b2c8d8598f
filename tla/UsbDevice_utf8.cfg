SPECIFICATION Spec
CONSTANTS
  None = None
  MaxUnits = 6
  Text <- MCTextWide
  Asked <- MCAsked
  Garbage <- MCGarbage
INVARIANT StringsAreText

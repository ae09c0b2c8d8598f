SPECIFICATION Spec
CONSTANTS
  None = None
  MaxUnits = 6
  Text <- MCText
  Asked <- MCAsked
  Garbage <- MCGarbage
INVARIANTS TypeOK DescriptorsAccepted StringsAreText AnswersFit AckMeansDone FaultIsContained
PROPERTY StartEnds

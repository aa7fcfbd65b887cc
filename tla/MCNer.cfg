SPECIFICATION FairSpec
CONSTANTS
  Window = 4
  Overlap = 2
  WordOverlap = 2
  MaxWidth = 3
  Threshold = 2
  Calls = {c1, c2}
  Fields <- MCFields
  Readings <- MCReadings
  Knobs <- MCKnobs
  Drifts = {0, 1}
  MaxTokens = 6
  MaxLen = 10
  Prompt = 3
  MinText = 3
  MaxText = 4
  Wrap = 4
INVARIANTS
  PoolIsWhole
  ThreadsFitTheMachine
  ShortRunsSeenWhole
  NothingSaidIsLost
  PanicsStayContained
PROPERTY
  EveryCallAnswers

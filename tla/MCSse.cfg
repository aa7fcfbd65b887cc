CONSTANTS
    Keys <- MCKeys
    Schemas = {TRUE, FALSE}
    Scripts <- MCScripts
    MaxHold = 4
    MaxDelta = 3
    a = a
    b = b
SPECIFICATION FairSpec
INVARIANTS
    ShownIsDemasked
    EndsAreFinal
    FramesIntact
    HeldBackBriefly
PROPERTY AnswerCompletes
CHECK_DEADLOCK FALSE

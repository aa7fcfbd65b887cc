CONSTANTS
    Keys <- MCKeys
    Schemas = {TRUE}
    Scripts <- MCScripts
    MaxHold = 4
    MaxDelta = 3
    a = a
    b = b
SPECIFICATION Spec
INVARIANT FailureIsTold
CHECK_DEADLOCK FALSE

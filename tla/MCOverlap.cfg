CONSTANTS
    Kinds <- MCKinds
    NerKinds <- MCNerKinds
    Email = "Email"
    Priority <- MCPriority
    Inputs <- MCInputs
SPECIFICATION OverlapSpec
INVARIANTS
    NothingAbandoned
    KeptDisjoint
    NamedByHighest
    NamesGivenUpForBetter
CHECK_DEADLOCK FALSE

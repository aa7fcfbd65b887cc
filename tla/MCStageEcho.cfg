CONSTANTS
    Items <- MCItems
    Kinds <- MCKinds
    Class <- MCClass
    KindOf <- MCKindOf
    ValueOf <- MCValueOf
    Values <- MCValues
    Cover <- MCCover
    Meter <- MCMeter
    Regions <- MCRegions
    Requests <- EchoRequests
    Allowances = {4, 9, 40}
    CallsPerUnit = 2
    MaxRegions = 3
    MaxMaskPasses = 4
    HasNer = TRUE
    Postures = {"required"}
    CacheEntries = 0
    Raw = Raw
    v1 = v1
    v2 = v2
    v3 = v3
    v4 = v4
    v5 = v5
    n1 = n1
    n2 = n2
    j1 = j1
SPECIFICATION Spec
INVARIANT RoundTripIsExact
CHECK_DEADLOCK FALSE

CONSTANTS
    Callers <- MCCallers
    Keys <- MCKeys
    Uncacheable <- MCUncacheable
    Cap = 2
    NerRequired = FALSE
    c1 = c1
    c2 = c2
    k1 = k1
    k2 = k2
    k3 = k3
    k4 = k4
    short = short
SPECIFICATION Spec
PROPERTY HitNeverMasksLess

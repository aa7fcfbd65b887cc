-------------------------- MODULE MCDetectionCache --------------------------
(* Two requests at a time, generations of two, and one field more than a   *)
(* generation and a promotion hold; one field is not cacheable.             *)
EXTENDS DetectionCache

CONSTANTS c1, c2, k1, k2, k3, k4, short

MCCallers == {c1, c2}
MCKeys == {k1, k2, k3, k4, short}
MCUncacheable == {short}
=============================================================================

----------------------------- MODULE MCHashMap -----------------------------
(* Small instances of HashMap for TLC. *)
EXTENDS HashMap, TLC

CONSTANTS k1, k2, k3, k4, v1, v2, m1, m2

OneMap  == {m1}
TwoMaps == {m1, m2}

TwoKeys  == {k1, k2}
FourKeys == {k1, k2, k3, k4}

OneValue  == {v1}
TwoValues == {v1, v2}

\* k1 and k2 collide in the last slot of a table of 4, 8 or 16, so probing
\* wraps around to where k3 (and, in a table of 4, k4) belongs.
Collide == [k \in Keys |-> IF k \in {k1, k2} THEN 15 ELSE IF k = k3 THEN 0 ELSE 4]

\* The maps are interchangeable, and so are two keys with one hash.
AnyMapAndKey == Permutations(Maps) \cup Permutations({k1, k2})
=============================================================================

-------------------------------- MODULE MCOZSync --------------------------------
EXTENDS OZSync

CONSTANTS t1, t2, v1, v2

\* With one CPU a slab that is too small by one and one that suffices, with two
\* CPUs one that suffices.
Sizes == [n \in {1, 2} |-> IF n = 1 THEN {2, 3} ELSE {4}]
=============================================================================

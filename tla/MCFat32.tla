------------------------------ MODULE MCFat32 -------------------------------
EXTENDS Fat32

CONSTANTS a, b

ShortNames == [n \in Names |-> 0]
OneLong == [n \in Names |-> IF n = a THEN 0 ELSE 1]
=============================================================================

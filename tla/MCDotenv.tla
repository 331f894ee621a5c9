------------------------------ MODULE MCDotenv ------------------------------
EXTENDS Dotenv, TLC
CONSTANTS a1, a2
\* One alias per name.
OneEach == [n \in Name |-> IF n = 1 THEN a1 ELSE a2]
\* A variable on the first line, the second to be added; one on each line.
OneLine == {[n \in Name |-> IF n = 1 THEN v ELSE None] : v \in Real}
BothLines == [Name -> Real]
\* Imports and real values are alike.
Symmetry == Permutations(Import) \cup Permutations(Real)
=============================================================================

------------------------------ MODULE MCCourse ------------------------------
EXTENDS Course

CONSTANTS s1, s2, c1, c2, a, b
\* Pod b's clock is one instant ahead.
MCAhead == a :> 0 @@ b :> 1
\* Students are alike, and courses are: no definition orders them.
Symmetry == Permutations(Students) \cup Permutations(Courses)
=============================================================================

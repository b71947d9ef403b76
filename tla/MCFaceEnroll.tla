---- MODULE MCFaceEnroll ----
EXTENDS FaceEnroll, TLC
CONSTANTS p1, p2, n1, n2, r1, r2
MCPeople == {p1, p2}
MCNames == {n1, n2}
MCReaders == {r1, r2}
MCSymmetry == Permutations(MCPeople) \cup Permutations(MCNames) \cup Permutations(MCReaders)
====

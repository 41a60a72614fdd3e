----------------------------- MODULE MCAuthStore -----------------------------
EXTENDS AuthStore, TLC

CONSTANTS a, b, c, na, nb, r1, r2

\* Slots for hashing requests are interchangeable, and so are the names and the
\* identifiers other than the first administrator's.
Slots == Permutations(Requests)
Others == Permutations(Ids \ {Admin0})
Symmetry == Slots \cup Others
=============================================================================

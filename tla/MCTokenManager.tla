--------------------------- MODULE MCTokenManager ---------------------------
EXTENDS TokenManager, TLC
CONSTANTS c1, c2, l1, l2
MCCallers == {c1, c2}
MCLogins == {l1, l2}
Symmetry == Permutations(MCCallers) \union Permutations(MCLogins)
=============================================================================

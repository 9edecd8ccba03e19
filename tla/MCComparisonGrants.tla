------------------------- MODULE MCComparisonGrants -------------------------
EXTENDS ComparisonGrants, TLC

CONSTANTS owner, v1, v2, g1, r1, r2

MCCollector == {owner, v1, v2}
MCGrant     == {g1}
MCRequest   == {r1, r2}

Symmetry == Permutations(MCCollector) \cup Permutations(MCRequest)
=============================================================================

---------------------------- MODULE MCNodeRegistry ----------------------------
EXTENDS NodeRegistry, TLC

CONSTANTS n1, n2, r1, r2, r3, u1, u2

Symmetry == Permutations({r1, r2, r3}) \union Permutations({n1, n2}) \union Permutations({u1, u2})
=============================================================================

----------------------------- MODULE MCProvider -----------------------------
EXTENDS Provider, TLC

Symmetry == Permutations(OwnUpdates)
=============================================================================

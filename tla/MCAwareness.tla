---------------------------- MODULE MCAwareness ----------------------------
EXTENDS Awareness, TLC

Symmetry == Permutations(Users)
=============================================================================

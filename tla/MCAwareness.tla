---------------------------- MODULE MCAwareness -----------------------------
EXTENDS Awareness, TLC

CONSTANTS p1, p2, v1

Symmetry == Permutations({p1, p2})
=============================================================================

----------------------------- MODULE MCOverlay -----------------------------
EXTENDS Overlay

CONSTANTS p1, p2

Symmetry == Permutations({p1, p2})
=============================================================================

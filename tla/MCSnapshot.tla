----------------------------- MODULE MCSnapshot -----------------------------
EXTENDS Snapshot, TLC

Symmetry == Permutations(Mutator)
=============================================================================

--------------------------- MODULE MCCredentials ----------------------------
EXTENDS Credentials, TLC

Symmetry == Permutations(Call)
=============================================================================

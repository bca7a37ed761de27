---------------------------- MODULE MCVaultMedia ----------------------------
EXTENDS VaultMedia, TLC
Symmetry == Permutations(Files) \cup Permutations(Downloads) \cup Permutations(Finals)
=============================================================================

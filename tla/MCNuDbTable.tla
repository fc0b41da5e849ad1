---------------------------- MODULE MCNuDbTable ----------------------------
EXTENDS NuDbTable, TLC

Hashes == Permutations(Key)

=============================================================================

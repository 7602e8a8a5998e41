------------------------------ MODULE MCAudio -------------------------------
EXTENDS AudioLease, TLC

Interchangeable == Permutations(Cores)
=============================================================================

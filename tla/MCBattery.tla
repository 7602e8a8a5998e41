------------------------------ MODULE MCBattery ------------------------------
EXTENDS BatterySram, TLC
\* Images other than the blank one, and directories, are interchangeable.
Interchangeable == Permutations(Images \ {Blank}) \cup Permutations(Dirs)
=============================================================================

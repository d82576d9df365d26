---------------------------- MODULE MCWorkStealQueue ----------------------------
EXTENDS WorkStealQueue, TLC

Symmetry == Permutations(Thieves)
================================================================================

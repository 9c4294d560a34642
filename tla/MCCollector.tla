---------------------------- MODULE MCCollector ----------------------------
EXTENDS CollectorProps, TLC

Symmetry == Permutations(Obj \ Static)
=============================================================================

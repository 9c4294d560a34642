---------------------------- MODULE MCProcesses ----------------------------
EXTENDS ProcessesProps, TLC

Symmetry == Permutations(Proc)
=============================================================================

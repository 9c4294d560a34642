------------------------------ MODULE MCTimers ------------------------------
EXTENDS TimersProps, TLC

Symmetry == Permutations(Timer)
=============================================================================

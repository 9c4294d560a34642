------------------------------ MODULE MCTables ------------------------------
EXTENDS TablesProps

CONSTANTS ka, kb, kc, c1, c2

MCClassOf == (ka :> c1) @@ (kb :> c1) @@ (kc :> c2)
MCHash == (c1 :> 1) @@ (c2 :> 4)
Symmetry == Permutations(Node) \cup Permutations(Value)
=============================================================================

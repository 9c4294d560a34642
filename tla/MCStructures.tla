---------------------------- MODULE MCStructures ----------------------------
EXTENDS StructuresProps

CONSTANTS dflt, meta, lz, sa, sb, nd, nm, nl, na, vx

MCNameOf == (dflt :> nd) @@ (meta :> nm) @@ (lz :> nl)
MCProvided == (dflt :> {}) @@ (meta :> {vx}) @@ (lz :> {vx})
MCNoIfaces == [i \in Ifaces |-> <<>>]
Symmetry == Permutations({sa, sb})
=============================================================================

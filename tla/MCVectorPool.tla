----------------------------- MODULE MCVectorPool ---------------------------
(* VectorPool for TLC: clauses of two lengths.  Their literals make sense    *)
(* when they are read as an owner or as a length.                            *)
EXTENDS VectorPool

MCVector == {<<1, 2>>, <<2, 0, 1>>}
=============================================================================

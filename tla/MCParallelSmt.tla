---------------------------- MODULE MCParallelSmt ---------------------------
(* ParallelSmt for TLC.                                                    *)
EXTENDS ParallelSmt, TLC
CONSTANTS atomP, atomQ, atomR

p == <<atomP, TRUE>>
q == <<atomQ, TRUE>>
r == <<atomR, TRUE>>

Models(Holds(_)) == {M \in Assignment : Holds(M)}
MCNoAsms == {}
MCAsms == {r}

\* p is false in every model.
MCNotP == {Models(LAMBDA M : p \notin M)}

\* Unsatisfiable under the assumption only.
MCNotR == {Models(LAMBDA M : r \notin M)}

\* The same, and one whose models under the assumption make p false.
MCUnderR == MCNotR \cup {Models(LAMBDA M : r \in M => p \notin M)}

\* And one that refutes p, as a shared unit tells, whatever the assumption.
MCUnderRNotP == MCUnderR \cup MCNotP

Symmetry == Permutations(Worker)
=============================================================================

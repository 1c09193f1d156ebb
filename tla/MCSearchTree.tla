---------------------------- MODULE MCSearchTree ----------------------------
(* SearchTreeSpec for TLC.                                                 *)
EXTENDS SearchTreeSpec, TLC
CONSTANTS atomP, atomQ, atomR

a == <<atomP, TRUE>>
b == <<atomQ, TRUE>>
c == <<atomR, TRUE>>

MCAsms == {c}
Models(Holds(_)) == {M \in Assignment : Holds(M)}

\* One formula that only the assumption makes unsatisfiable, and one with a
\* single model under the assumption.
MCFormulas ==
    {Models(LAMBDA M : c \notin M),
     Models(LAMBDA M : c \in M => a \notin M /\ b \notin M)}

\* Both formulas, and the atoms to split on, stay the same when P and Q are swapped.
SwapPQ == Permutations({atomP, atomQ})
=============================================================================

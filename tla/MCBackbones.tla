----------------------------- MODULE MCBackbones ----------------------------
(* Backbones for TLC.                                                      *)
EXTENDS Backbones
CONSTANTS atomP, atomQ, atomR

p == <<atomP, TRUE>>
q == <<atomQ, TRUE>>
r == <<atomR, TRUE>>

Models(Holds(_)) == {M \in Assignment : Holds(M)}
MCAsms == {r}
MCBothAsms == {q, r}
MCProposed == {p, q}
MCProposedP == {p}

\* p is a backbone under the assumption r only, and q is none.
MCUnderR == {Models(LAMBDA M : r \in M => p \in M)}

\* Over the atoms of p and r.  Under the assumption r: p is a backbone, everything
\* is for the formula contradicts r, and the negation of p is a unit.
MCThree ==
    {Models(LAMBDA M : r \in M => p \in M), Models(LAMBDA M : r \notin M), Models(LAMBDA M : p \notin M)}

\* The assumptions r and q contradict each other by way of p.
MCJointly == {Models(LAMBDA M : (r \in M => p \in M) /\ (q \in M => p \notin M))}
=============================================================================

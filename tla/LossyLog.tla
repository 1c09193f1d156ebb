------------------------------ MODULE LossyLog ------------------------------
(***************************************************************************)
(* What the clause pool of the parallel SAT solver promises: every clause   *)
(* that a solver shares is appended to a log, and each solver reads the log *)
(* forward.  A slow reader may lose entries, but it never gets its own      *)
(* clauses, an entry twice, entries out of order, or a clause that nobody   *)
(* has shared.                                                              *)
(***************************************************************************)
EXTENDS Naturals, Sequences

CONSTANTS Owner,     \* the solvers
          Vector     \* the clauses they may share

VARIABLES log,       \* all that was shared: a sequence of [owner, lits]
          pos,       \* how much of the log each solver is through with
          got        \* the last entry each solver was given; <<>> at first

vars == <<log, pos, got>>

Init == log = <<>> /\ pos = [o \in Owner |-> 0] /\ got = [o \in Owner |-> <<>>]

\* The positions may only grow: entries between are lost.
Forward == /\ pos' \in [Owner -> 0 .. Len(log')]
           /\ \A o \in Owner : pos[o] <= pos'[o]

Share ==
    /\ \E o \in Owner, v \in Vector : log' = Append(log, [owner |-> o, lits |-> v])
    /\ Forward /\ UNCHANGED got

Lose == Forward /\ UNCHANGED <<log, got>>

\* o is given the next entry, if it is another solver's, or passes over its own.
Read(o) ==
    /\ pos[o] < Len(log)
    /\ pos' = [pos EXCEPT ![o] = @ + 1]
    /\ got' = IF log[pos[o] + 1].owner = o THEN got
              ELSE [got EXCEPT ![o] = <<log[pos[o] + 1]>>]
    /\ UNCHANGED log

Next == Share \/ Lose \/ \E o \in Owner : Read(o)

Spec == Init /\ [][Next]_vars
=============================================================================

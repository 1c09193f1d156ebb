------------------------------- MODULE Verdict ------------------------------
(***************************************************************************)
(* What the parallel solver promises to its caller: at most one of its      *)
(* threads decides the problem, the decision is right, and it is what the   *)
(* caller gets, unless the solver gives up.                                 *)
(***************************************************************************)
CONSTANTS Formulas,   \* the problems: each is the set of its models
          Asms        \* the assumptions under which they are solved

VARIABLES problem,    \* the problem to solve
          verdict,    \* what has been decided so far
          core,       \* for unsat: the assumptions to blame
          answer      \* what the caller got

vars == <<problem, verdict, core, answer>>

Init ==
    /\ problem \in Formulas
    /\ verdict = "running" /\ core = {} /\ answer = "none"

\* A decision can still improve on "unknown".
Undecided == answer = "none" /\ verdict \in {"running", "unknown"}

DecideSat ==
    /\ Undecided /\ \E M \in problem : Asms \subseteq M
    /\ verdict' = "sat"
    /\ UNCHANGED <<problem, core, answer>>

DecideUnsat ==
    /\ Undecided
    /\ \E C \in SUBSET Asms :
          /\ \A M \in problem : ~(C \subseteq M)
          /\ core' = C
    /\ verdict' = "unsat"
    /\ UNCHANGED <<problem, answer>>

Fail ==
    /\ verdict = "running" /\ answer = "none"
    /\ verdict' \in {"unknown", "exception"}
    /\ UNCHANGED <<problem, core, answer>>

\* The caller gets the verdict, unless the solver gives up.
Answer ==
    /\ answer = "none"
    /\ answer' \in {"undef", "exception"} \cup ({"sat", "unsat"} \cap {verdict})
    /\ UNCHANGED <<problem, verdict, core>>

Next == DecideSat \/ DecideUnsat \/ Fail \/ Answer

Spec == Init /\ [][Next]_vars
=============================================================================

------------------------------- MODULE OneShot ------------------------------
(***************************************************************************)
(* What a scoped timer promises: between the start of its constructor and   *)
(* the end of its destructor the handler is called at most once, and        *)
(* outside of that time never.                                              *)
(***************************************************************************)
CONSTANT Scope      \* the timer objects

VARIABLES on,       \* the scopes that are alive
          called    \* the scopes whose handler was called, since they opened

vars == <<on, called>>

Init == on = {} /\ called = {}

Open(c) ==
    /\ c \notin on
    /\ on' = on \cup {c} /\ called' = called \ {c}

Fire(c) ==
    /\ c \in on \ called
    /\ called' = called \cup {c} /\ UNCHANGED on

Close(c) ==
    /\ c \in on
    /\ on' = on \ {c} /\ UNCHANGED called

Next == \E c \in Scope : Open(c) \/ Fire(c) \/ Close(c)

Spec == Init /\ [][Next]_vars
=============================================================================

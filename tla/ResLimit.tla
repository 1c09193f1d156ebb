------------------------------ MODULE ResLimit ------------------------------
(***************************************************************************)
(* A resource limit (class reslimit, util/rlimit.cpp) without children, as  *)
(* a record: m_cancel, m_count, m_limit and the stack m_limits.             *)
(***************************************************************************)
EXTENDS Naturals, Sequences

CONSTANT CountMod      \* 2^w: m_count and m_limit are unsigned of w bits

ASSUME CountModAssumption == CountMod \in Nat \ {0}

Unlimited == CountMod - 1

reslimit == [cancel |-> 0, count |-> 0, limit |-> Unlimited, limits |-> <<>>]

\* Mutant: the counter of cancellations is not looked at.
not_canceled_OnlyCount(l) == l.count <= l.limit

not_canceled(l) == l.cancel = 0 /\ l.count <= l.limit

inc(l) == [l EXCEPT !.count = (@ + 1) % CountMod]

push(l, delta) ==
    LET sum == (delta + l.count) % CountMod
        new == IF delta = 0 \/ sum <= l.count THEN Unlimited ELSE sum
    IN  [l EXCEPT !.limits = Append(@, l.limit),
                  !.limit  = IF new < @ THEN new ELSE @,
                  !.cancel = 0]

\* Mutant: the entry stays on the stack.
pop_KeepsEntry(l) ==
    [l EXCEPT !.limit = l.limits[Len(l.limits)], !.cancel = 0]

pop(l) ==
    [l EXCEPT !.count  = IF @ > l.limit THEN l.limit ELSE @,
              !.limit  = l.limits[Len(l.limits)],
              !.limits = SubSeq(@, 1, Len(@) - 1),
              !.cancel = 0]

\* inc_cancel and cancel.
inc_cancel(l) == [l EXCEPT !.cancel = @ + 1]

\* Mutant: the counter wraps around at 0.
dec_cancel_Wraps(l) == [l EXCEPT !.cancel = IF @ > 0 THEN @ - 1 ELSE CountMod - 1]

dec_cancel(l) == [l EXCEPT !.cancel = IF @ > 0 THEN @ - 1 ELSE 0]
=============================================================================

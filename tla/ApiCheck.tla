------------------------------ MODULE ApiCheck ------------------------------
(***************************************************************************)
(* A check of the API (_solver_check in api/api_solver.cpp) and all that    *)
(* can stop it: the timer, Z3_interrupt, Z3_solver_interrupt and ctrl-c.    *)
(* They call the event handler of the check (util/cancel_eh.h), which       *)
(* cancels the resource limit of the context.  The check registers the      *)
(* handler in four places, one after the other, and takes it back in the    *)
(* opposite order.                                                          *)
(*                                                                         *)
(* The timer is what ScopedTimer implements, a OneShot.  The handler is one *)
(* step: it holds its own mutex, and is out of it before eh is destroyed.   *)
(* push and pop of the limit do not take the mutex of the limit.  When they *)
(* come between the read and the write of m_cancel in inc_cancel, m_cancel  *)
(* is positive, as it is when inc_cancel comes second.                      *)
(***************************************************************************)
EXTENDS ResLimit

CONSTANTS RLimit,          \* the values of the parameter rlimit; 0 is none
          MaxCount,        \* bound: the resources that the solvers of a context use
                           \* up, fewer than m_count can count
          MaxInterrupts    \* bound: the calls of Z3_interrupt for a context

ASSUME ApiCheckAssumption ==
    /\ RLimit \subseteq 0 .. Unlimited /\ MaxCount \in 0 .. Unlimited - 1 /\ MaxInterrupts \in Nat

VARIABLES pc,            \* where the check is
          lim,           \* m().limit() of the context
          alive,         \* the handler eh exists
          canceled,      \* eh.m_canceled
          caller,        \* eh.m_caller_id
          m_eh,          \* m_eh of the solver is &eh
          listed,        \* eh is in m_interruptable of the context
          g_list,        \* eh is in g_list of scoped_ctrl_c
          on, fired,     \* the timer
          interrupt,     \* where Z3_interrupt is; m_mux is held unless "out"
          interrupts,    \* the calls of Z3_interrupt so far
          result,        \* what check_sat returned, or "exception"
          why,           \* why it did not decide
          reason,        \* reason_unknown, as set by the check
          error          \* handle_exception was called

check == <<pc, result, why, reason, error>>
eh == <<alive, canceled, caller>>
registered == <<m_eh, listed, g_list>>
timer == <<on, fired>>
api == <<interrupt, interrupts>>
vars == <<check, lim, eh, registered, timer, api>>

T == INSTANCE OneShot WITH Scope <- {"check"}, called <- fired

Init ==
    /\ pc = "idle" /\ lim = reslimit
    /\ alive = FALSE /\ canceled = FALSE /\ caller = "unset"
    /\ m_eh = FALSE /\ listed = FALSE /\ g_list = FALSE
    /\ T!Init
    /\ interrupt = "out" /\ interrupts = 0
    /\ result = "none" /\ why = "none" /\ reason = "none" /\ error = FALSE

\* Z3_del_context and Z3_mk_context: the next context has a limit of its own.
new_context ==
    /\ pc = "idle" /\ interrupt = "out"
    /\ lim' = reslimit /\ interrupts' = 0
    /\ UNCHANGED <<check, eh, registered, timer, interrupt>>

goto(from, to) == pc = from /\ pc' = to

-----------------------------------------------------------------------------
(* The check: everything up to check_sat.                                  *)

makes_handler ==
    /\ goto("idle", "set_eh") /\ lim.count <= MaxCount
    /\ alive' = TRUE /\ canceled' = FALSE /\ caller' = "unset"
    /\ result' = "none" /\ why' = "none" /\ reason' = "none" /\ error' = FALSE
    /\ UNCHANGED <<lim, registered, timer, api>>

set_eh ==
    /\ goto("set_eh", "list") /\ m_eh' = TRUE
    /\ UNCHANGED <<result, why, reason, error, lim, eh, listed, g_list, timer, api>>

\* Mutant: m_mux is not taken.
set_interruptable_NoLock ==
    /\ goto("list", "ctrl_c") /\ listed' = TRUE
    /\ UNCHANGED <<result, why, reason, error, lim, eh, m_eh, g_list, timer, api>>

set_interruptable ==
    /\ goto("list", "ctrl_c") /\ interrupt = "out" /\ listed' = TRUE
    /\ UNCHANGED <<result, why, reason, error, lim, eh, m_eh, g_list, timer, api>>

\* ctrl-c may be disabled.
scoped_ctrl_c ==
    /\ goto("ctrl_c", "timer") /\ g_list' \in BOOLEAN
    /\ UNCHANGED <<result, why, reason, error, lim, eh, m_eh, listed, timer, api>>

scoped_timer ==
    /\ goto("timer", "push") /\ T!Open("check")
    /\ UNCHANGED <<result, why, reason, error, lim, eh, registered, api>>

scoped_rlimit ==
    /\ goto("push", "run") /\ \E delta \in RLimit : lim' = push(lim, delta)
    /\ UNCHANGED <<result, why, reason, error, eh, registered, timer, api>>

-----------------------------------------------------------------------------
(* check_sat.  The solver counts resources and looks at the limit again and *)
(* again; whether it decides in the end is open.                            *)

solver_works ==
    /\ pc = "run" /\ not_canceled(lim) /\ lim.count < MaxCount /\ lim' = inc(lim)
    /\ UNCHANGED <<check, eh, registered, timer, api>>

solver_answers ==
    /\ goto("run", "pop") /\ result' \in {"sat", "unsat", "undef"}
    /\ why' = IF result' = "undef" THEN "incomplete" ELSE "none"
    /\ UNCHANGED <<reason, error, lim, eh, registered, timer, api>>

\* It finds the limit canceled, and says so or throws.
solver_stops ==
    /\ pc = "run" /\ ~not_canceled(lim)
    /\ why' = IF lim.cancel > 0 THEN "canceled" ELSE "resources"
    /\ \/ result' = "undef" /\ pc' = "pop"
       \/ result' = "exception" /\ pc' = "catch"
    /\ UNCHANGED <<reason, error, lim, eh, registered, timer, api>>

solver_throws ==
    /\ goto("run", "catch") /\ result' = "exception" /\ why' = "failure"
    /\ UNCHANGED <<reason, error, lim, eh, registered, timer, api>>

-----------------------------------------------------------------------------
(* The end of the check.                                                   *)

\* What set_reason_unknown(eh, what) sets: the caller, if there was one.
reason_unknown == IF caller = "unset" THEN why ELSE caller

catches ==
    /\ goto("catch", "catch_set_eh") /\ reason' = reason_unknown
    /\ UNCHANGED <<result, why, error, lim, eh, registered, timer, api>>

\* Only a z3_exception, as a cancellation is, can become an error.
catch_set_eh ==
    /\ \/ goto("catch_set_eh", "catch_inc")
       \/ goto("catch_set_eh", "pop") /\ why = "failure"
    /\ m_eh' = FALSE
    /\ UNCHANGED <<result, why, reason, error, lim, eh, listed, g_list, timer, api>>

catch_inc ==
    /\ goto("catch_inc", "pop") /\ lim' = inc(lim) /\ error' = not_canceled(lim')
    /\ UNCHANGED <<result, why, reason, eh, registered, timer, api>>

pop_rlimit ==
    /\ goto("pop", "close_timer") /\ lim' = pop(lim)
    /\ UNCHANGED <<result, why, reason, error, eh, registered, timer, api>>

close_timer ==
    /\ goto("close_timer", "close_ctrl_c") /\ T!Close("check")
    /\ UNCHANGED <<result, why, reason, error, lim, eh, registered, api>>

\* An exception returns from here; otherwise the check goes on behind the block.
close_ctrl_c ==
    /\ pc = "close_ctrl_c" /\ g_list' = FALSE
    /\ pc' = IF result = "exception" THEN "unlist" ELSE "reset_eh"
    /\ UNCHANGED <<result, why, reason, error, lim, eh, m_eh, listed, timer, api>>

\* Mutant: the solver keeps the pointer to the handler.
reset_eh_Keeps ==
    /\ goto("reset_eh", "reason")
    /\ UNCHANGED <<result, why, reason, error, lim, eh, registered, timer, api>>

reset_eh ==
    /\ goto("reset_eh", "reason") /\ m_eh' = FALSE
    /\ UNCHANGED <<result, why, reason, error, lim, eh, listed, g_list, timer, api>>

set_reason_unknown ==
    /\ goto("reason", "unlist")
    /\ reason' = IF result = "undef" THEN reason_unknown ELSE reason
    /\ UNCHANGED <<result, why, error, lim, eh, registered, timer, api>>

unlist ==
    /\ goto("unlist", "destroy") /\ interrupt = "out" /\ listed' = FALSE
    /\ UNCHANGED <<result, why, reason, error, lim, eh, m_eh, g_list, timer, api>>

destroys_handler ==
    /\ goto("destroy", "idle") /\ alive' = FALSE
    /\ lim' = IF canceled THEN dec_cancel(lim) ELSE lim
    /\ UNCHANGED <<result, why, reason, error, canceled, caller, registered, timer, api>>

-----------------------------------------------------------------------------
(* Who can stop it.                                                        *)

\* cancel_eh::operator().
calls_eh(id) ==
    IF canceled THEN UNCHANGED <<lim, eh>>
    ELSE lim' = inc_cancel(lim) /\ canceled' = TRUE /\ caller' = id /\ UNCHANGED alive

timer_fires ==
    /\ T!Fire("check") /\ calls_eh("timeout")
    /\ UNCHANGED <<check, registered, api>>

on_ctrl_c ==
    /\ g_list /\ calls_eh("ctrl_c")
    /\ UNCHANGED <<check, registered, timer, api>>

Z3_solver_interrupt ==
    /\ m_eh /\ calls_eh("interrupt")
    /\ UNCHANGED <<check, registered, timer, api>>

\* Z3_interrupt calls the handlers in m_interruptable and then cancels the
\* limit itself, with m_mux held.
Z3_interrupt ==
    /\ interrupt = "out" /\ interrupts < MaxInterrupts /\ interrupts' = interrupts + 1
    /\ IF listed THEN calls_eh("interrupt") ELSE UNCHANGED <<lim, eh>>
    /\ interrupt' = "cancel"
    /\ UNCHANGED <<check, registered, timer>>

interrupt_cancels ==
    /\ interrupt = "cancel" /\ interrupt' = "out" /\ lim' = inc_cancel(lim)
    /\ UNCHANGED <<check, eh, registered, timer, interrupts>>

-----------------------------------------------------------------------------
Proceeds ==
    \/ set_eh \/ set_interruptable \/ scoped_ctrl_c \/ scoped_timer \/ scoped_rlimit
    \/ solver_stops \/ catches \/ catch_set_eh \/ catch_inc
    \/ pop_rlimit \/ close_timer \/ close_ctrl_c \/ reset_eh \/ set_reason_unknown
    \/ unlist \/ destroys_handler

Next ==
    \/ new_context \/ makes_handler \/ Proceeds
    \/ solver_works \/ solver_answers \/ solver_throws
    \/ timer_fires \/ on_ctrl_c \/ Z3_solver_interrupt \/ Z3_interrupt \/ interrupt_cancels

\* Threads run, and the solver looks at the limit again and again.  Nothing is
\* assumed of when it decides, or of who stops it.
Spec == Init /\ [][Next]_vars /\ WF_vars(Proceeds) /\ WF_vars(interrupt_cancels)

-----------------------------------------------------------------------------
(* The type invariant.  The stack of limits is never popped when empty.     *)
TypeOK ==
    /\ lim \in [cancel : 0 .. MaxInterrupts + 1, count : 0 .. MaxCount + 1,
               limit : 0 .. Unlimited, limits : {<<>>, <<Unlimited>>}]
    /\ \A b \in {alive, canceled, m_eh, listed, g_list, error} : b \in BOOLEAN
    /\ caller \in {"unset", "timeout", "ctrl_c", "interrupt"}
    /\ on \subseteq {"check"} /\ fired \subseteq {"check"}
    /\ interrupt \in {"out", "cancel"} /\ interrupts \in 0 .. MaxInterrupts

\* Whoever can still call the handler finds it alive: on every way out of the
\* check it is taken out of the four places where it is registered before it is
\* destroyed (the comment over cancel_eh::operator()).
HandlersAlive == m_eh \/ listed \/ g_list \/ on # {} => alive

\* A check leaves the limit as it found it: its budget is gone, and so is its
\* cancellation, however push, pop, the handler and its destructor interleave.
\* Only a Z3_interrupt outside of a check can leave a cancellation behind.
LimitRestored ==
    pc = "idle" => lim.limit = Unlimited /\ lim.limits = <<>> /\ lim.cancel <= interrupts

\* A check that was canceled says by whom, and is no error: the counter of the
\* limit is never up during a check unless the handler was called, although
\* Z3_interrupt counts it up apart from the handler; and when the exception that a
\* cancellation or an exhausted budget causes is caught, the limit is still as it
\* was when it was thrown.
CancelReported ==
    /\ pc = "idle" /\ why = "canceled" => reason \in {"timeout", "ctrl_c", "interrupt"}
    /\ error => why = "failure"

\* A check whose limit was canceled returns.
CancelEnds == pc = "run" /\ lim.cancel > 0 ~> pc = "idle"
=============================================================================

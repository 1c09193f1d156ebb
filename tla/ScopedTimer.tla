---------------------------- MODULE ScopedTimer -----------------------------
(***************************************************************************)
(* The scoped timer (util/scoped_timer.cpp).  A scope borrows a timer       *)
(* thread from a pool, which is protected by the mutex "workers".  The      *)
(* scope holds the m_mutex of the thread's state while it is open; the      *)
(* thread waits for that mutex with a deadline, and calls the event handler *)
(* of the scope when it does not get it in time.  The destructor gives the  *)
(* mutex up, waits until the thread is done with the scope, and returns the *)
(* thread to the pool.  finalize, which also runs at every fork, stops and  *)
(* joins the threads of the pool.                                           *)
(*                                                                         *)
(* A step is an access to shared state, or a critical section of workers.   *)
(* The pool is a set: which of the available threads is taken tells no      *)
(* property apart.  A state that was deleted can be allocated again.        *)
(***************************************************************************)
CONSTANTS Scope,     \* the scoped_timer objects
          Slot,      \* bound: the scoped_timer_states there is memory for
          NoSlot     \* nullptr

ASSUME SlotsAssumption == NoSlot \notin Slot

VARIABLES pc,          \* where each scope is
          slot,        \* s of each scope
          work,        \* work of each state
          mutex,       \* who holds m_mutex of each state
          eh,          \* eh of each state: the scope whose handler it is
          thread,      \* where the thread of each state is
          available,   \* available_workers
          cleanup,     \* cleanup_workers of the calls of finalize
          called       \* the scopes whose handler was called, since they opened

vars == <<pc, slot, work, mutex, eh, thread, available, cleanup, called>>

pool == <<available, cleanup>>

Init ==
    /\ pc = [c \in Scope |-> "out"] /\ slot = [c \in Scope |-> NoSlot]
    /\ work = [s \in Slot |-> "IDLE"] /\ mutex = [s \in Slot |-> "free"]
    /\ eh \in [Slot -> Scope] /\ thread = [s \in Slot |-> "none"]
    /\ available = {} /\ cleanup = {} /\ called = {}

-----------------------------------------------------------------------------
(* The constructor.                                                        *)

goto(c, l) == pc' = [pc EXCEPT ![c] = l]

\* Mutant: the scope does not take the mutex of the state.
init_state_NoLock(c, s) ==
    /\ slot' = [slot EXCEPT ![c] = s] /\ eh' = [eh EXCEPT ![s] = c]
    /\ work' = [work EXCEPT ![s] = "WORKING"]
    /\ UNCHANGED mutex

init_state(c, s) ==
    /\ slot' = [slot EXCEPT ![c] = s] /\ eh' = [eh EXCEPT ![s] = c]
    /\ mutex[s] = "free" /\ mutex' = [mutex EXCEPT ![s] = "scope"]
    /\ work' = [work EXCEPT ![s] = "WORKING"]

\* The scope starts with a handler that was not called, in both branches and
\* for the timeouts (0 and UINT_MAX) that need no timer.
opens(c) == pc[c] = "out" /\ called' = called \ {c}

opens_without_timer(c) ==
    /\ opens(c) /\ goto(c, "in")
    /\ UNCHANGED <<slot, work, mutex, eh, thread, pool>>

finds_no_worker(c) ==
    /\ opens(c) /\ available = {} /\ goto(c, "new")
    /\ UNCHANGED <<slot, work, mutex, eh, thread, pool>>

starts_thread(c) ==
    /\ pc[c] = "new" /\ goto(c, "in")
    /\ \E s \in Slot :
          /\ thread[s] = "none" /\ thread' = [thread EXCEPT ![s] = "lock"]
          /\ init_state(c, s)
    /\ UNCHANGED <<pool, called>>

\* Mutant: the worker is not taken out of the pool.
takes_worker_Leaves(c) ==
    /\ opens(c) /\ goto(c, "notify")
    /\ \E s \in available : init_state(c, s)
    /\ UNCHANGED <<thread, pool>>

takes_worker(c) ==
    /\ opens(c) /\ goto(c, "notify")
    /\ \E s \in available : available' = available \ {s} /\ init_state(c, s)
    /\ UNCHANGED <<thread, cleanup>>

\* Mutant: nobody is notified.
Notified_None(S) == thread

\* The threads, after the condition variables of those in S were notified.
Notified(S) ==
    [s \in Slot |-> IF s \in S /\ thread[s] = "blocked" THEN "lock" ELSE thread[s]]

notifies_worker(c) ==
    /\ pc[c] = "notify" /\ goto(c, "in")
    /\ thread' = Notified({slot[c]})
    /\ UNCHANGED <<slot, work, mutex, eh, pool, called>>

-----------------------------------------------------------------------------
(* The destructor.                                                         *)

\* Mutant: without the early return, nullptr gets into the pool.
closes_without_timer_Returns(c) ==
    /\ pc[c] = "in" /\ slot[c] = NoSlot /\ goto(c, "out")
    /\ available' = available \cup {slot[c]}
    /\ UNCHANGED <<slot, work, mutex, eh, thread, cleanup, called>>

closes_without_timer(c) ==
    /\ pc[c] = "in" /\ slot[c] = NoSlot /\ goto(c, "out")
    /\ UNCHANGED <<slot, work, mutex, eh, thread, pool, called>>

unlocks(c) ==
    /\ pc[c] = "in" /\ slot[c] # NoSlot /\ goto(c, "spin")
    /\ mutex' = [mutex EXCEPT ![slot[c]] = "free"]
    /\ UNCHANGED <<slot, work, eh, thread, pool, called>>

\* Mutant: the destructor does not wait for the thread.
sees_thread_done_NoWait(c) ==
    /\ pc[c] = "spin" /\ goto(c, "push")
    /\ UNCHANGED <<slot, work, mutex, eh, thread, pool, called>>

sees_thread_done(c) ==
    /\ pc[c] = "spin" /\ work[slot[c]] # "WORKING" /\ goto(c, "push")
    /\ UNCHANGED <<slot, work, mutex, eh, thread, pool, called>>

returns_worker(c) ==
    /\ pc[c] = "push" /\ goto(c, "out")
    /\ available' = available \cup {slot[c]} /\ slot' = [slot EXCEPT ![c] = NoSlot]
    /\ UNCHANGED <<work, mutex, eh, thread, cleanup, called>>

-----------------------------------------------------------------------------
(* The thread, thread_func.                                                *)

moves(s, from, to) == thread[s] = from /\ thread' = [thread EXCEPT ![s] = to]

\* cv.wait: with workers locked, the thread tests its predicate.
waits(s) ==
    /\ \/ work[s] # "IDLE" /\ moves(s, "lock", "run")
       \/ work[s] = "IDLE" /\ moves(s, "lock", "blocked")
    /\ UNCHANGED <<pc, slot, work, mutex, eh, pool, called>>

wakes_up_spuriously(s) ==
    /\ moves(s, "blocked", "lock")
    /\ UNCHANGED <<pc, slot, work, mutex, eh, pool, called>>

runs(s) ==
    /\ \/ work[s] = "EXITING" /\ moves(s, "run", "ended")
       \/ work[s] # "EXITING" /\ moves(s, "run", "sleep")
    /\ UNCHANGED <<pc, slot, work, mutex, eh, pool, called>>

gets_mutex(s) ==
    /\ moves(s, "sleep", "unlock")
    /\ mutex[s] = "free" /\ mutex' = [mutex EXCEPT ![s] = "thread"]
    /\ UNCHANGED <<pc, slot, work, eh, pool, called>>

\* The deadline has passed.  try_lock_until may fail although the mutex has
\* become free in the meantime.
expires(s) ==
    /\ moves(s, "sleep", "fire")
    /\ UNCHANGED <<pc, slot, work, mutex, eh, pool, called>>

calls_handler(s) ==
    /\ moves(s, "fire", "next") /\ called' = called \cup {eh[s]}
    /\ UNCHANGED <<pc, slot, work, mutex, eh, pool>>

\* Mutant: the thread keeps the mutex.
unlocks_thread_Keeps(s) ==
    /\ moves(s, "unlock", "next")
    /\ UNCHANGED <<pc, slot, work, mutex, eh, pool, called>>

unlocks_thread(s) ==
    /\ moves(s, "unlock", "next") /\ mutex' = [mutex EXCEPT ![s] = "free"]
    /\ UNCHANGED <<pc, slot, work, eh, pool, called>>

\* Mutant: the thread does not say that it is done.
sets_idle_Forgets(s) ==
    /\ moves(s, "next", "lock")
    /\ UNCHANGED <<pc, slot, work, mutex, eh, pool, called>>

sets_idle(s) ==
    /\ moves(s, "next", "lock") /\ work' = [work EXCEPT ![s] = "IDLE"]
    /\ UNCHANGED <<pc, slot, mutex, eh, pool, called>>

-----------------------------------------------------------------------------
(* finalize: what it does under workers, and each join with the delete.     *)

finalize ==
    /\ available # {}
    /\ work' = [s \in Slot |-> IF s \in available THEN "EXITING" ELSE work[s]]
    /\ thread' = Notified(available)
    /\ cleanup' = cleanup \cup available /\ available' = {}
    /\ UNCHANGED <<pc, slot, mutex, eh, called>>

joins(s) ==
    /\ s \in cleanup /\ cleanup' = cleanup \ {s}
    /\ moves(s, "ended", "none")
    /\ UNCHANGED <<pc, slot, work, mutex, eh, available, called>>

-----------------------------------------------------------------------------
Constructor(c) == finds_no_worker(c) \/ starts_thread(c) \/ takes_worker(c) \/ notifies_worker(c)
Destructor(c) == unlocks(c) \/ sees_thread_done(c) \/ returns_worker(c)

ThreadStep(s) ==
    \/ waits(s) \/ runs(s) \/ gets_mutex(s) \/ expires(s)
    \/ calls_handler(s) \/ unlocks_thread(s) \/ sets_idle(s)

Next ==
    \/ \E c \in Scope : \/ Constructor(c) \/ Destructor(c)
                        \/ opens_without_timer(c) \/ closes_without_timer(c)
    \/ \E s \in Slot : ThreadStep(s) \/ wakes_up_spuriously(s) \/ joins(s)
    \/ finalize

Spec == Init /\ [][Next]_vars

-----------------------------------------------------------------------------
(* The type invariant.                                                     *)
TypeOK ==
    /\ pc \in [Scope -> {"out", "new", "notify", "in", "spin", "push"}]
    /\ slot \in [Scope -> Slot \cup {NoSlot}]
    /\ work \in [Slot -> {"IDLE", "WORKING", "EXITING"}]
    /\ mutex \in [Slot -> {"free", "scope", "thread"}]
    /\ eh \in [Slot -> Scope]
    /\ thread \in [Slot -> {"none", "lock", "blocked", "run", "sleep", "fire",
                            "unlock", "next", "ended"}]
    /\ available \subseteq Slot /\ cleanup \subseteq Slot /\ called \subseteq Scope

\* A state belongs to one scope, to the pool or to one finalize, and its thread
\* lives as long as a scope or the pool has it: nobody waits for a thread that
\* has ended, and no state is deleted that somebody can still reach.
OwnedOnce ==
    /\ \A c \in Scope : slot[c] # NoSlot =>
          /\ \A d \in Scope \ {c} : slot[d] # slot[c]
          /\ slot[c] \notin available \cup cleanup
          /\ thread[slot[c]] \notin {"none", "ended"}
    /\ available \cap cleanup = {}
    /\ \A s \in available : thread[s] \notin {"none", "ended"}

\* The thread of a state in the pool has let go of its last scope: the next
\* constructor gets m_mutex at once, although it asks for it while it holds
\* workers, and no handler is about to be called.
ReadyToReuse ==
    \A s \in available :
        work[s] = "IDLE" /\ mutex[s] = "free" /\ thread[s] \in {"lock", "blocked"}

\* The handler is called at most once for a scope, and never outside of it: the
\* destructor of the handler, which runs after that of the timer, does not race
\* with a call (the comment over cancel_eh::operator()).
O == INSTANCE OneShot WITH on <- {c \in Scope : pc[c] # "out"}
Refines == O!Spec

-----------------------------------------------------------------------------
(* Liveness.  The operating system runs every thread, time passes, and what  *)
(* holds workers lets it go; whether and when a scope closes is up to the    *)
(* caller.  A thread that is blocked on its condition variable has no step,  *)
(* and need not be woken up spuriously.                                      *)
Fairness ==
    /\ \A c \in Scope : /\ WF_vars(starts_thread(c) \/ notifies_worker(c))
                        /\ WF_vars(sees_thread_done(c) \/ returns_worker(c))
    /\ \A s \in Slot : WF_vars(ThreadStep(s)) /\ WF_vars(joins(s))

FairSpec == Spec /\ Fairness

\* A destructor that was entered returns: the thread always gets to the point
\* where it sets IDLE.
DestructorReturns == \A c \in Scope : pc[c] = "spin" ~> pc[c] = "out"

\* The timeout is not lost: the handler of a scope with a timer that stays open
\* is called, also when the thread is reused before it is back in cv.wait.
TimerExpires ==
    \A c \in Scope : pc[c] = "in" /\ slot[c] # NoSlot ~> c \in called \/ pc[c] # "in"

\* finalize does not hang at exit or in a fork: each of its joins returns.
FinalizeReturns == \A s \in Slot : s \in cleanup ~> s \notin cleanup
=============================================================================

--------------------------- MODULE ApiCheckProofs ---------------------------
(***************************************************************************)
(* A check of the API registers its handler, is interrupted and returns, for *)
(* every budget, every amount of work and every number of interrupts: the    *)
(* handler is alive wherever it is registered, the limit is as it was, and a *)
(* cancellation is reported as such.                                         *)
(*                                                                         *)
(* The invariant ties the four registrations and the stack of limits to the  *)
(* place where the check is, the counter of cancellations to the calls that  *)
(* have counted it up, and the reason to who has called the handler.         *)
(***************************************************************************)
EXTENDS ApiCheck, TLAPS

\* The leaves that name no prover go to Zenon.
USE ZenonT(30)

\* Where the check is when its budget is on the stack.
Inside == {"run", "catch", "catch_set_eh", "catch_inc", "pop"}

\* Where it is when the handler is in m_interruptable.
Listed == Inside \cup {"ctrl_c", "timer", "push", "close_timer", "close_ctrl_c",
                       "reset_eh", "reason", "unlist"}

Starting == {"set_eh", "list", "ctrl_c", "timer", "push", "run"}
Catching == {"catch", "catch_set_eh", "catch_inc"}
Callers == {"timeout", "ctrl_c", "interrupt"}

\* Where the handler is registered.  Behind a caught exception the solver has lost
\* it already.
Registered ==
    /\ alive <=> pc # "idle"
    /\ m_eh => /\ pc \notin {"idle", "set_eh", "catch_inc", "reason", "unlist", "destroy"}
               /\ result = "exception" => pc \in {"catch", "catch_set_eh"}
    /\ listed <=> pc \in Listed
    /\ g_list => pc \in Inside \cup {"timer", "push", "close_timer", "close_ctrl_c"}
    /\ on # {} => pc \in Inside \cup {"push", "close_timer"}

\* The limit and its stack.
Budget ==
    /\ pc \in Inside => lim.limits = <<Unlimited>>
    /\ pc \notin Inside => lim.limits = <<>> /\ lim.limit = Unlimited
    /\ pc \in Starting \cup Catching => lim.count <= MaxCount

\* The counter is at most what Z3_interrupt and the handler have counted up.
Counted ==
    /\ lim.cancel + (IF interrupt = "cancel" THEN 1 ELSE 0)
          <= interrupts + (IF alive /\ canceled THEN 1 ELSE 0)
    /\ interrupt = "cancel" => interrupts > 0

\* A canceled limit comes with a call of the handler, which has left its caller.
\* Z3_interrupt calls the handler first and holds m_mux until it has canceled the
\* limit, so that the handler was not listed in between.
Called ==
    /\ canceled <=> caller # "unset"
    /\ interrupt = "cancel" /\ listed => canceled
    /\ pc \in Inside /\ lim.cancel > 0 => canceled

\* What the check knows about its end.
Explained ==
    /\ pc \in Starting => why = "none" /\ result = "none"
    /\ pc \in Catching => /\ result = "exception" /\ why \in {"canceled", "resources", "failure"}
                          /\ why = "canceled" => lim.cancel > 0
                          /\ why = "resources" => lim.count > lim.limit
    /\ why = "canceled" /\ pc # "idle" => canceled /\ result \in {"undef", "exception"}
    /\ why = "canceled" /\ (pc \in {"unlist", "destroy", "idle"} \/ result = "exception") /\ pc # "catch"
          => reason \in Callers
    /\ error => why = "failure" /\ pc \notin Starting

IInv == TypeOK /\ Registered /\ Budget /\ Counted /\ Called /\ Explained

-----------------------------------------------------------------------------
(* The operations of the limit, field by field.                            *)

Limit == [cancel : Nat, count : 0 .. Unlimited, limit : 0 .. Unlimited, limits : Seq(0 .. Unlimited)]

\* A number below the modulus is its own remainder.
LEMMA ModSmall ==
    ASSUME NEW m \in Nat \ {0}, NEW a \in Nat, a < m
    PROVE  a % m = a
  BY SMTT(30)

\* A remainder is below the modulus.
LEMMA ModRange ==
    ASSUME NEW m \in Nat \ {0}, NEW a \in Nat
    PROVE  a % m \in 0 .. m - 1
  BY SMTT(30)

\* inc counts one up, unless m_count is at its end.
LEMMA IncFacts ==
    ASSUME NEW l \in Limit, l.count < Unlimited, NEW u, u = inc(l)
    PROVE  /\ u \in Limit /\ u.count = l.count + 1
           /\ u.cancel = l.cancel /\ u.limit = l.limit /\ u.limits = l.limits
<1>1. l.count \in Nat /\ l.count + 1 < CountMod
  BY CountModAssumption, SMTT(30) DEF Limit, Unlimited
<1>2. (l.count + 1) % CountMod = l.count + 1
  BY <1>1, CountModAssumption, ModSmall, SMTT(30)
<1>3. u = [cancel |-> l.cancel, count |-> l.count + 1, limit |-> l.limit, limits |-> l.limits]
  BY <1>2 DEF Limit, inc
<1>4. l.count + 1 \in 0 .. Unlimited
  BY <1>1, CountModAssumption, SMTT(30) DEF Unlimited
<1> QED
  BY <1>3, <1>4, SMTT(30) DEF Limit

\* push puts the old limit on an empty stack and clears the cancellations.
LEMMA PushFacts ==
    ASSUME NEW l \in Limit, NEW delta \in 0 .. Unlimited, l.limits = <<>>,
           NEW u, u = push(l, delta)
    PROVE  u \in Limit /\ u.count = l.count /\ u.cancel = 0 /\ u.limits = <<l.limit>>
<1> DEFINE sum == (delta + l.count) % CountMod
           new == IF delta = 0 \/ sum <= l.count THEN Unlimited ELSE sum
           low == IF new < l.limit THEN new ELSE l.limit
<1>1. delta + l.count \in Nat
  BY CountModAssumption, SMTT(30) DEF Limit, Unlimited
<1>2. sum \in 0 .. Unlimited
  BY <1>1, CountModAssumption, ModRange DEF Unlimited
<1>3. low \in 0 .. Unlimited
  <2> HIDE DEF sum
  <2> QED
    BY <1>2, CountModAssumption, SMTT(30) DEF Limit, Unlimited
<1>4. Append(l.limits, l.limit) = <<l.limit>> /\ <<l.limit>> \in Seq(0 .. Unlimited)
  BY SMTT(30) DEF Limit
<1>5. u = [l EXCEPT !.limits = Append(@, l.limit), !.limit = low, !.cancel = 0]
  BY DEF push
<1> HIDE DEF low
<1>6. u = [cancel |-> 0, count |-> l.count, limit |-> low, limits |-> <<l.limit>>]
  BY <1>4, <1>5 DEF Limit
<1> QED
  BY <1>3, <1>4, <1>6, SMTT(30) DEF Limit

\* pop takes the old limit off the stack and clears the cancellations.
LEMMA PopFacts ==
    ASSUME NEW l \in Limit, NEW k \in 0 .. Unlimited, l.limits = <<k>>,
           NEW u, u = pop(l)
    PROVE  /\ u \in Limit /\ u.count <= l.count
           /\ u.cancel = 0 /\ u.limit = k /\ u.limits = <<>>
<1> DEFINE n == IF l.count > l.limit THEN l.limit ELSE l.count
<1>1. l.limits[Len(l.limits)] = k /\ SubSeq(l.limits, 1, Len(l.limits) - 1) = <<>>
  BY SMTT(30)
<1>2. n \in 0 .. Unlimited /\ n <= l.count
  BY CountModAssumption, SMTT(30) DEF Limit, Unlimited
<1>3. u = [l EXCEPT !.count = n, !.limit = l.limits[Len(l.limits)],
                    !.limits = SubSeq(l.limits, 1, Len(l.limits) - 1), !.cancel = 0]
  BY DEF pop
<1> HIDE DEF n
<1>4. u = [cancel |-> 0, count |-> n, limit |-> k, limits |-> <<>>]
  BY <1>1, <1>3 DEF Limit
<1>5. <<>> \in Seq(0 .. Unlimited)
  BY SMTT(30)
<1> QED
  BY <1>2, <1>4, <1>5, SMTT(30) DEF Limit

\* The counter of cancellations, up and down.
LEMMA CancelFacts ==
    ASSUME NEW l \in Limit, NEW u, NEW v, u = inc_cancel(l), v = dec_cancel(l)
    PROVE  /\ u \in Limit /\ u.cancel = l.cancel + 1
           /\ u.count = l.count /\ u.limit = l.limit /\ u.limits = l.limits
           /\ v \in Limit /\ v.cancel = IF l.cancel > 0 THEN l.cancel - 1 ELSE 0
           /\ v.count = l.count /\ v.limit = l.limit /\ v.limits = l.limits
<1> DEFINE c == IF l.cancel > 0 THEN l.cancel - 1 ELSE 0
<1>1. c \in Nat /\ l.cancel + 1 \in Nat
  BY SMTT(30) DEF Limit
<1>2. v = [l EXCEPT !.cancel = c]
  BY DEF dec_cancel
<1> HIDE DEF c
<1>3. u = [cancel |-> l.cancel + 1, count |-> l.count, limit |-> l.limit, limits |-> l.limits]
  BY DEF Limit, inc_cancel
<1>4. v = [cancel |-> c, count |-> l.count, limit |-> l.limit, limits |-> l.limits]
  BY <1>2 DEF Limit
<1> QED
  BY <1>1, <1>3, <1>4, SMTT(30) DEF Limit, c

-----------------------------------------------------------------------------
(* The invariant.                                                          *)

\* What TypeOK says of the limit.
LEMMA LimitType ==
    ASSUME NEW l
    PROVE  l \in [cancel : 0 .. MaxInterrupts + 1, count : 0 .. MaxCount + 1,
                  limit : 0 .. Unlimited, limits : {<<>>, <<Unlimited>>}]
           <=> /\ l \in Limit /\ l.cancel <= MaxInterrupts + 1 /\ l.count <= MaxCount + 1
               /\ l.limits \in {<<>>, <<Unlimited>>}
<1>1. /\ MaxCount + 1 \in 0 .. Unlimited /\ Unlimited \in Nat
      /\ MaxInterrupts \in Nat /\ MaxCount \in Nat
  BY CountModAssumption, ApiCheckAssumption, SMTT(30) DEF Unlimited
<1>2. <<>> \in Seq(0 .. Unlimited) /\ <<Unlimited>> \in Seq(0 .. Unlimited)
  BY <1>1, SMTT(30)
<1>3. 0 .. MaxCount + 1 = {n \in 0 .. Unlimited : n <= MaxCount + 1}
  BY <1>1, SMTT(30)
<1>4. 0 .. MaxInterrupts + 1 = {n \in Nat : n <= MaxInterrupts + 1}
  BY <1>1, SMTT(30)
<1> QED
  BY <1>2, <1>3, <1>4 DEF Limit

\* The invariant holds before the first check.
LEMMA InitIInv == Init => IInv
<1> SUFFICES ASSUME Init PROVE IInv
  OBVIOUS
<1>1. lim = [cancel |-> 0, count |-> 0, limit |-> Unlimited, limits |-> <<>>]
  BY DEF Init, reslimit
<1>2. MaxCount \in Nat /\ MaxInterrupts \in Nat /\ Unlimited \in Nat
  BY CountModAssumption, ApiCheckAssumption, SMTT(30) DEF Unlimited
<1>3. TypeOK
  <2>1. lim \in [cancel : 0 .. MaxInterrupts + 1, count : 0 .. MaxCount + 1,
                limit : 0 .. Unlimited, limits : {<<>>, <<Unlimited>>}]
    BY <1>1, <1>2, SMTT(30)
  <2>2. \A b \in {alive, canceled, m_eh, listed, g_list, error} : b \in BOOLEAN
    BY DEF Init
  <2>3. interrupts \in 0 .. MaxInterrupts
    BY <1>2, SMTT(30) DEF Init
  <2> QED
    BY <2>1, <2>2, <2>3 DEF Init, TypeOK, T!Init
<1>4. Registered /\ Budget /\ Counted /\ Called /\ Explained
  BY <1>1, <1>2, SMTT(30) DEF Init, T!Init, Registered, Budget, Counted, Called, Explained,
                              Inside, Listed, Starting, Catching
<1> QED
  BY <1>3, <1>4 DEF IInv

\* The steps that leave the limit and the handler alone.
LEMMA Elsewhere ==
    ASSUME IInv,
           \/ set_eh \/ set_interruptable \/ scoped_ctrl_c \/ scoped_timer
           \/ solver_answers \/ solver_stops \/ solver_throws \/ catches \/ catch_set_eh
           \/ close_timer \/ close_ctrl_c \/ reset_eh \/ set_reason_unknown \/ unlist
    PROVE  IInv'
<1> USE DEF IInv, Inside, Listed, Starting, Catching, goto, eh, registered, timer, api
<1>1. CASE set_eh
  BY <1>1 DEF set_eh, TypeOK, Registered, Budget, Counted, Called, Explained
<1>2. CASE set_interruptable
  BY <1>2 DEF set_interruptable, TypeOK, Registered, Budget, Counted, Called, Explained
<1>3. CASE scoped_ctrl_c
  BY <1>3 DEF scoped_ctrl_c, TypeOK, Registered, Budget, Counted, Called, Explained
<1>4. CASE scoped_timer
  BY <1>4 DEF scoped_timer, T!Open, TypeOK, Registered, Budget, Counted, Called, Explained
<1>5. CASE solver_answers
  BY <1>5 DEF solver_answers, TypeOK, Registered, Budget, Counted, Called, Explained
<1>6. CASE solver_stops
  BY <1>6, SMTT(30) DEF solver_stops, not_canceled, TypeOK, Registered, Budget, Counted, Called, Explained
<1>7. CASE solver_throws
  BY <1>7 DEF solver_throws, TypeOK, Registered, Budget, Counted, Called, Explained
<1>8. CASE catches
  BY <1>8 DEF catches, reason_unknown, Callers, TypeOK, Registered, Budget, Counted, Called, Explained
<1>9. CASE catch_set_eh
  BY <1>9 DEF catch_set_eh, TypeOK, Registered, Budget, Counted, Called, Explained
<1>10. CASE close_timer
  BY <1>10 DEF close_timer, T!Close, TypeOK, Registered, Budget, Counted, Called, Explained
<1>11. CASE close_ctrl_c
  BY <1>11 DEF close_ctrl_c, TypeOK, Registered, Budget, Counted, Called, Explained
<1>12. CASE reset_eh
  BY <1>12 DEF reset_eh, TypeOK, Registered, Budget, Counted, Called, Explained
<1>13. CASE set_reason_unknown
  BY <1>13 DEF set_reason_unknown, reason_unknown, Callers, TypeOK, Registered, Budget, Counted,
               Called, Explained
<1>14. CASE unlist
  BY <1>14 DEF unlist, TypeOK, Registered, Budget, Counted, Called, Explained
<1> QED
  BY <1>1, <1>2, <1>3, <1>4, <1>5, <1>6, <1>7, <1>8, <1>9, <1>10, <1>11, <1>12, <1>13, <1>14

\* The handler is called: its first call cancels the limit and leaves its caller.
LEMMA CallsHandler ==
    ASSUME IInv, alive, NEW id \in Callers, calls_eh(id),
           UNCHANGED <<check, registered, on>>, fired' \subseteq {"check"},
           \/ UNCHANGED <<interrupt, interrupts>>
           \/ /\ interrupt = "out" /\ interrupt' = "cancel"
              /\ interrupts' = interrupts + 1 /\ interrupts' <= MaxInterrupts
    PROVE  IInv'
<1> USE DEF IInv, Inside, Listed, Starting, Catching, eh, check, registered
<1>0. lim \in Limit /\ MaxInterrupts \in Nat /\ interrupts \in 0 .. MaxInterrupts
  BY LimitType, ApiCheckAssumption DEF TypeOK
<1>1. CASE canceled
  <2>1. UNCHANGED <<lim, alive, canceled, caller>>
    BY <1>1 DEF calls_eh
  <2> QED
    BY <1>0, <1>1, <2>1, SMTT(30) DEF TypeOK, Registered, Budget, Counted, Called, Explained, Limit
<1>2. CASE ~canceled
  <2>1. lim' = inc_cancel(lim) /\ canceled' = TRUE /\ caller' = id /\ alive' = alive
    BY <1>2 DEF calls_eh
  <2>2. /\ lim' \in Limit /\ lim'.cancel = lim.cancel + 1
        /\ lim'.count = lim.count /\ lim'.limit = lim.limit /\ lim'.limits = lim.limits
    BY <1>0, <2>1, CancelFacts
  <2>3. Counted'
    BY <1>0, <1>2, <2>1, <2>2, SMTT(30) DEF Counted, TypeOK, Limit
  <2>4. TypeOK'
    <3>1. lim'.cancel <= MaxInterrupts + 1
      BY <1>0, <1>2, <2>2, SMTT(30) DEF Counted, Limit
    <3>2. lim' \in [cancel : 0 .. MaxInterrupts + 1, count : 0 .. MaxCount + 1,
                    limit : 0 .. Unlimited, limits : {<<>>, <<Unlimited>>}]
      BY <2>2, <3>1, LimitType DEF TypeOK
    <3> QED
      BY <1>0, <2>1, <3>2, SMTT(30) DEF TypeOK, Callers
  <2>5. Registered' /\ Budget' /\ Called' /\ Explained'
    BY <1>0, <1>2, <2>1, <2>2 DEF TypeOK, Registered, Budget, Called, Explained, Limit, Callers
  <2> QED
    BY <2>3, <2>4, <2>5
<1> QED
  BY <1>1, <1>2 DEF TypeOK

\* A step of the check that gives the limit and leaves who can stop it alone.
LEMMA LimitSteps ==
    ASSUME IInv, new_context \/ makes_handler \/ scoped_rlimit \/ solver_works
                 \/ catch_inc \/ pop_rlimit \/ destroys_handler \/ interrupt_cancels
    PROVE  IInv'
<1> USE DEF IInv, Inside, Listed, Starting, Catching, goto, eh, check, registered, timer, api
<1>1. /\ lim \in Limit /\ lim.cancel \in Nat /\ lim.count \in Nat /\ lim.limit \in Nat
      /\ MaxInterrupts \in Nat /\ interrupts \in 0 .. MaxInterrupts
      /\ MaxCount \in Nat /\ Unlimited \in Nat /\ MaxCount < Unlimited
      /\ lim.cancel <= MaxInterrupts + 1 /\ lim.count <= MaxCount + 1
      /\ lim.limits \in {<<>>, <<Unlimited>>}
  BY LimitType, CountModAssumption, ApiCheckAssumption, SMTT(30) DEF TypeOK, Limit, Unlimited
<1> DEFINE LimitOK == lim \in [cancel : 0 .. MaxInterrupts + 1, count : 0 .. MaxCount + 1,
                               limit : 0 .. Unlimited, limits : {<<>>, <<Unlimited>>}]
<1>2. CASE new_context
  <2>1. lim' = [cancel |-> 0, count |-> 0, limit |-> Unlimited, limits |-> <<>>]
    BY <1>2 DEF new_context, reslimit
  <2>2. LimitOK'
    BY <1>1, <2>1, SMTT(30)
  <2> QED
    BY <1>1, <1>2, <2>1, <2>2, SMTT(30) DEF new_context, TypeOK, Registered, Budget, Counted, Called, Explained
<1>3. CASE makes_handler
  BY <1>1, <1>3 DEF makes_handler, TypeOK, Registered, Budget, Counted, Called, Explained
<1>4. CASE scoped_rlimit
  <2>1. PICK delta \in RLimit : lim' = push(lim, delta)
    BY <1>4 DEF scoped_rlimit
  <2>2. /\ lim' \in Limit /\ lim'.count = lim.count
        /\ lim'.cancel = 0 /\ lim'.limits = <<Unlimited>>
    <3>1. delta \in 0 .. Unlimited
      BY ApiCheckAssumption
    <3>2. lim.limits = <<>> /\ lim.limit = Unlimited
      BY <1>4 DEF scoped_rlimit, Budget
    <3> QED
      BY <1>1, <2>1, <3>1, <3>2, PushFacts
  <2>3. LimitOK'
    <3>1. lim'.cancel <= MaxInterrupts + 1 /\ lim'.count <= MaxCount + 1
      BY <1>1, <2>2, SMTT(30)
    <3> QED
      BY <2>2, <3>1, LimitType
  <2> QED
    BY <1>1, <1>4, <2>2, <2>3, SMTT(30) DEF scoped_rlimit, TypeOK, Registered, Budget, Counted, Called, Explained
<1>5. CASE solver_works \/ catch_inc
  <2>1. pc \in {"run", "catch_inc"} /\ lim' = inc(lim)
    BY <1>5 DEF solver_works, catch_inc
  <2>2. lim.count <= MaxCount
    BY <2>1 DEF Budget
  <2>3. /\ lim' \in Limit /\ lim'.count = lim.count + 1
        /\ lim'.cancel = lim.cancel /\ lim'.limit = lim.limit /\ lim'.limits = lim.limits
    BY <1>1, <2>1, <2>2, IncFacts, SMTT(30)
  <2>4. LimitOK'
    BY <1>1, <2>2, <2>3, LimitType, SMTT(30)
  <2>5. CASE solver_works
    BY <1>1, <2>3, <2>4, <2>5, SMTT(30) DEF solver_works, TypeOK, Registered, Budget, Counted, Called, Explained
  <2>6. CASE catch_inc
    <3>1. error' => why = "failure"
      <4>1. error' => not_canceled(lim')
        BY <2>6 DEF catch_inc
      <4>2. pc = "catch_inc"
        BY <2>6 DEF catch_inc
      <4> QED
        BY <1>1, <2>3, <4>1, <4>2, SMTT(30) DEF not_canceled, Explained
    <3>2. error' \in BOOLEAN
      BY <2>6 DEF catch_inc, not_canceled
    <3> QED
      BY <1>1, <2>3, <2>4, <2>6, <3>1, <3>2
         DEF catch_inc, TypeOK, Registered, Budget, Counted, Called, Explained
  <2> QED
    BY <1>5, <2>5, <2>6
<1>6. CASE pop_rlimit
  <2>1. /\ lim' \in Limit /\ lim'.count <= lim.count /\ lim'.cancel = 0
        /\ lim'.limit = Unlimited /\ lim'.limits = <<>>
    BY <1>1, <1>6, PopFacts, SMTT(30) DEF pop_rlimit, Budget
  <2>2. LimitOK'
    BY <1>1, <2>1, LimitType, SMTT(30) DEF Limit
  <2> QED
    BY <1>1, <1>6, <2>1, <2>2, SMTT(30) DEF pop_rlimit, TypeOK, Registered, Budget, Counted, Called, Explained
<1>7. CASE destroys_handler
  <2>1. /\ lim' \in Limit /\ lim'.count = lim.count /\ lim'.limit = lim.limit
        /\ lim'.limits = lim.limits
        /\ lim'.cancel = IF canceled /\ lim.cancel > 0 THEN lim.cancel - 1 ELSE lim.cancel
    BY <1>1, <1>7, CancelFacts, SMTT(30) DEF destroys_handler
  <2>2. LimitOK'
    BY <1>1, <2>1, LimitType, SMTT(30)
  <2>3. Counted'
    BY <1>1, <1>7, <2>1, SMTT(30) DEF destroys_handler, TypeOK, Registered, Counted
  <2>4. TypeOK' /\ Registered' /\ Budget' /\ Called'
    BY <1>7, <2>1, <2>2 DEF destroys_handler, TypeOK, Registered, Budget, Called
  <2>5. Explained'
    BY <1>7 DEF destroys_handler, Explained
  <2> QED
    BY <2>3, <2>4, <2>5
<1>8. CASE interrupt_cancels
  <2>1. /\ lim' \in Limit /\ lim'.cancel = lim.cancel + 1 /\ lim'.count = lim.count
        /\ lim'.limit = lim.limit /\ lim'.limits = lim.limits
    BY <1>1, <1>8, CancelFacts DEF interrupt_cancels
  <2>2. LimitOK'
    BY <1>1, <1>8, <2>1, LimitType, SMTT(30) DEF interrupt_cancels, Counted
  <2> QED
    BY <1>1, <1>8, <2>1, <2>2, SMTT(30) DEF interrupt_cancels, TypeOK, Registered, Budget, Counted, Called, Explained
<1> QED
  BY <1>2, <1>3, <1>4, <1>5, <1>6, <1>7, <1>8

\* No step breaks the invariant.
LEMMA StepIInv == IInv /\ [Next]_vars => IInv'
<1> SUFFICES ASSUME IInv, [Next]_vars PROVE IInv'
  OBVIOUS
<1>1. on \subseteq {"check"} /\ fired \subseteq {"check"} /\ interrupts \in 0 .. MaxInterrupts
  BY DEF IInv, TypeOK
<1>2. CASE timer_fires
  <2>1. calls_eh("timeout") /\ UNCHANGED <<check, registered, on, interrupt, interrupts>>
    BY <1>2 DEF timer_fires, T!Fire, api
  <2>2. fired' \subseteq {"check"} /\ alive
    BY <1>1, <1>2 DEF timer_fires, T!Fire, IInv, Registered, Inside
  <2> QED
    BY <2>1, <2>2, CallsHandler DEF Callers
<1>3. CASE on_ctrl_c
  <2>1. alive
    BY <1>3 DEF on_ctrl_c, IInv, Registered, Inside
  <2> QED
    BY <1>1, <1>3, <2>1, CallsHandler DEF on_ctrl_c, Callers, timer, api
<1>4. CASE Z3_solver_interrupt
  <2>1. alive
    BY <1>4 DEF Z3_solver_interrupt, IInv, Registered
  <2> QED
    BY <1>1, <1>4, <2>1, CallsHandler DEF Z3_solver_interrupt, Callers, timer, api
<1>5. CASE Z3_interrupt
  <2>1. /\ interrupt = "out" /\ interrupt' = "cancel" /\ interrupts' = interrupts + 1
        /\ UNCHANGED <<check, registered, on, fired>>
    BY <1>5 DEF Z3_interrupt, timer
  <2>2. interrupts' <= MaxInterrupts
    BY <1>1, <1>5, ApiCheckAssumption, SMTT(30) DEF Z3_interrupt
  <2>3. CASE listed
    <3>1. calls_eh("interrupt")
      BY <1>5, <2>3 DEF Z3_interrupt
    <3>2. alive
      BY <2>3 DEF IInv, Registered, Listed, Inside
    <3> QED
      BY <1>1, <2>1, <2>2, <3>1, <3>2, CallsHandler DEF Callers
  <2>4. CASE ~listed
    <3>1. UNCHANGED <<lim, eh>>
      BY <1>5, <2>4 DEF Z3_interrupt
    <3>2. interrupts' \in 0 .. MaxInterrupts /\ lim.cancel \in Nat
      BY <1>1, <2>1, <2>2, ApiCheckAssumption, SMTT(30) DEF IInv, TypeOK
    <3> QED
      BY <1>1, <2>1, <2>4, <3>1, <3>2, SMTT(30)
         DEF IInv, TypeOK, Registered, Budget, Counted, Called, Explained, check, registered, eh
  <2> QED
    BY <2>3, <2>4
<1>6. CASE UNCHANGED vars
  BY <1>6, SMTT(30) DEF vars, check, eh, registered, timer, api, IInv, TypeOK, Registered, Budget, Counted,
                        Called, Explained
<1>7. CASE Proceeds \/ solver_works \/ solver_answers \/ solver_throws \/ new_context
           \/ makes_handler \/ interrupt_cancels
  BY <1>7, Elsewhere, LimitSteps DEF Proceeds
<1> QED
  BY <1>2, <1>3, <1>4, <1>5, <1>6, <1>7 DEF Next

-----------------------------------------------------------------------------
(* What follows for every budget and every number of interrupts.           *)

\* The invariant holds, however the check, the timer, ctrl-c and the two interrupts
\* of the API interleave.
THEOREM CheckInvariant == Spec => []IInv
  BY InitIInv, StepIInv, PTL DEF Spec

\* The limit stays within its types: its stack has the budget of the check or
\* nothing, so that pop never finds it empty.
THEOREM CheckTypes == Spec => []TypeOK
<1>1. IInv => TypeOK
  BY DEF IInv
<1> QED
  BY <1>1, CheckInvariant, PTL

\* On every way out of _solver_check, by an answer, a canceled limit or an exception,
\* the handler is taken out of all four places before it is destroyed.
THEOREM HandlersAlwaysAlive == Spec => []HandlersAlive
<1>1. IInv => HandlersAlive
  BY DEF IInv, Registered, HandlersAlive, Inside, Listed
<1> QED
  BY <1>1, CheckInvariant, PTL

\* A check leaves neither its budget nor its cancellation behind.
THEOREM LimitAlwaysRestored == Spec => []LimitRestored
<1>1. IInv => LimitRestored
  <2> SUFFICES ASSUME IInv, pc = "idle"
               PROVE  lim.limit = Unlimited /\ lim.limits = <<>> /\ lim.cancel <= interrupts
    BY DEF LimitRestored
  <2>1. lim.limit = Unlimited /\ lim.limits = <<>>
    BY DEF IInv, Budget, Inside
  <2>2. lim.cancel \in Nat /\ interrupts \in Nat
    BY ApiCheckAssumption, SMTT(30) DEF IInv, TypeOK
  <2>3. lim.cancel <= interrupts
    BY <2>2, SMTT(30) DEF IInv, Counted, Registered
  <2> QED
    BY <2>1, <2>3
<1> QED
  BY <1>1, CheckInvariant, PTL

\* A canceled check names who has canceled it, and neither a cancellation nor an
\* exhausted budget is reported as an error.
THEOREM CancelAlwaysReported == Spec => []CancelReported
<1>1. IInv => CancelReported
  BY DEF IInv, Explained, CancelReported, Callers
<1> QED
  BY <1>1, CheckInvariant, PTL
=============================================================================

-------------------------- MODULE ScopedTimerProofs -------------------------
(***************************************************************************)
(* The scoped timer implements OneShot, for any number of scopes and timer  *)
(* threads.                                                                 *)
(***************************************************************************)
EXTENDS ScopedTimer, TLAPS

\* A state whose thread runs belongs to somebody.
Accounted ==
    \A s \in Slot :
        \/ thread[s] = "none" /\ mutex[s] = "free"
        \/ s \in available \cup cleanup
        \/ \E c \in Scope : slot[c] = s

\* A scope has a state from when it took one until it returns it; nobody calls
\* it before.
HasSlot ==
    \A c \in Scope :
        /\ pc[c] \in {"out", "new"} => slot[c] = NoSlot
        /\ pc[c] = "new" => c \notin called
        /\ pc[c] \in {"notify", "spin", "push"} => slot[c] # NoSlot

\* The thread of scope c, with state s, works for c until it sets IDLE, and
\* then it does nothing; up to the call c was not called.
Serves(c, s) ==
    /\ eh[s] = c
    /\ pc[c] \in {"notify", "in"} => mutex[s] = "scope"
    /\ pc[c] \in {"spin", "push"} => mutex[s] # "scope"
    /\ pc[c] = "push" => work[s] = "IDLE"
    /\ (thread[s] = "unlock") <=> (mutex[s] = "thread")
    /\ work[s] # "EXITING"
    /\ work[s] = "IDLE" => thread[s] \in {"lock", "blocked"}
    /\ work[s] = "WORKING" /\ c \in called => thread[s] = "next"

Served == \A c \in Scope : slot[c] # NoSlot => Serves(c, slot[c])

\* A state that finalize has taken is not used any more.
Finalized ==
    \A s \in cleanup :
        work[s] = "EXITING" /\ mutex[s] = "free" /\ thread[s] \in {"lock", "blocked", "run", "ended"}

\* The inductive invariant.
IInv ==
    /\ TypeOK /\ OwnedOnce /\ ReadyToReuse
    /\ Accounted /\ HasSlot /\ Served /\ Finalized

(* Before the first scope is opened the invariant holds.                   *)
LEMMA InitIInv == Init => IInv
  BY SlotsAssumption
  DEF Init, IInv, TypeOK, OwnedOnce, ReadyToReuse, Accounted, HasSlot, Served, Serves, Finalized

USE SlotsAssumption

(* The steps of the constructor.                                           *)
LEMMA ConstructorIInv ==
  ASSUME IInv, NEW c \in Scope, Constructor(c) \/ opens_without_timer(c)
  PROVE  IInv'
<1> USE DEF goto, opens, pool
<1>1. CASE finds_no_worker(c) \/ opens_without_timer(c)
  <2>1. /\ UNCHANGED <<slot, work, mutex, eh, thread, available, cleanup>>
        /\ pc' \in {[pc EXCEPT ![c] = "new"], [pc EXCEPT ![c] = "in"]}
        /\ pc[c] = "out" /\ called' = called \ {c}
    BY <1>1 DEF finds_no_worker, opens_without_timer
  <2>2. slot[c] = NoSlot
    BY <2>1, SMTT(30) DEF IInv, HasSlot
  <2> QED BY <2>1, <2>2
          DEF IInv, TypeOK, OwnedOnce, ReadyToReuse, Accounted, HasSlot, Served, Serves, Finalized
<1>2. CASE starts_thread(c)
  <2>1. PICK s \in Slot : thread[s] = "none" /\ thread' = [thread EXCEPT ![s] = "lock"]
                          /\ init_state(c, s)
    BY <1>2, Zenon DEF starts_thread
  <2>2. pc[c] = "new" /\ pc' = [pc EXCEPT ![c] = "in"] /\ UNCHANGED <<available, cleanup, called>>
    BY <1>2 DEF starts_thread
  <2>3. slot[c] = NoSlot /\ s \notin available \cup cleanup /\ \A d \in Scope : slot[d] # s
    BY <2>1, <2>2 DEF IInv, HasSlot, OwnedOnce, Finalized
  <2> QED BY <2>1, <2>2, <2>3
          DEF IInv, TypeOK, OwnedOnce, ReadyToReuse, Accounted, HasSlot, Served, Serves, Finalized,
              init_state
<1>3. CASE takes_worker(c)
  <2>1. PICK s \in available : available' = available \ {s} /\ init_state(c, s)
    BY <1>3 DEF takes_worker
  <2>2. /\ pc[c] = "out" /\ pc' = [pc EXCEPT ![c] = "notify"] /\ UNCHANGED <<thread, cleanup>>
        /\ called' = called \ {c}
    BY <1>3 DEF takes_worker
  <2>3. slot[c] = NoSlot /\ s \in Slot /\ s \notin cleanup /\ \A d \in Scope : slot[d] # s
    BY <2>1, <2>2 DEF IInv, TypeOK, HasSlot, OwnedOnce
  <2> QED BY <2>1, <2>2, <2>3
          DEF IInv, TypeOK, OwnedOnce, ReadyToReuse, Accounted, HasSlot, Served, Serves, Finalized,
              init_state
<1>4. CASE notifies_worker(c)
  BY <1>4
  DEF IInv, TypeOK, OwnedOnce, ReadyToReuse, Accounted, HasSlot, Served, Serves, Finalized,
      notifies_worker, Notified
<1> QED BY <1>1, <1>2, <1>3, <1>4 DEF Constructor

(* The steps of the destructor.                                            *)
LEMMA DestructorIInv ==
  ASSUME IInv, NEW c \in Scope, Destructor(c) \/ closes_without_timer(c)
  PROVE  IInv'
<1> USE DEF goto, pool
<1>1. CASE closes_without_timer(c)
  BY <1>1
  DEF IInv, TypeOK, OwnedOnce, ReadyToReuse, Accounted, HasSlot, Served, Serves, Finalized,
      closes_without_timer
<1>2. CASE unlocks(c)
  BY <1>2
  DEF IInv, TypeOK, OwnedOnce, ReadyToReuse, Accounted, HasSlot, Served, Serves, Finalized, unlocks
<1>3. CASE sees_thread_done(c)
  BY <1>3
  DEF IInv, TypeOK, OwnedOnce, ReadyToReuse, Accounted, HasSlot, Served, Serves, Finalized,
      sees_thread_done
<1>4. CASE returns_worker(c)
  BY <1>4
  DEF IInv, TypeOK, OwnedOnce, ReadyToReuse, Accounted, HasSlot, Served, Serves, Finalized,
      returns_worker
<1> QED BY <1>1, <1>2, <1>3, <1>4 DEF Destructor

(* The steps of a timer thread.                                            *)
LEMMA ThreadIInv ==
  ASSUME IInv, NEW s \in Slot, ThreadStep(s) \/ wakes_up_spuriously(s)
  PROVE  IInv'
<1> USE DEF moves, pool
<1>1. CASE waits(s) \/ wakes_up_spuriously(s) \/ runs(s)
  BY <1>1, SMTT(30)
  DEF IInv, TypeOK, OwnedOnce, ReadyToReuse, Accounted, HasSlot, Served, Serves, Finalized,
      waits, wakes_up_spuriously, runs
<1>2. CASE gets_mutex(s) \/ expires(s) \/ unlocks_thread(s) \/ sets_idle(s)
  BY <1>2, SMTT(30)
  DEF IInv, TypeOK, OwnedOnce, ReadyToReuse, Accounted, HasSlot, Served, Serves, Finalized,
      gets_mutex, expires, unlocks_thread, sets_idle
<1>3. CASE calls_handler(s)
  BY <1>3
  DEF IInv, TypeOK, OwnedOnce, ReadyToReuse, Accounted, HasSlot, Served, Serves, Finalized,
      calls_handler
<1> QED BY <1>1, <1>2, <1>3 DEF ThreadStep

(* finalize and its joins.                                                 *)
LEMMA FinalizeIInv ==
  ASSUME IInv, finalize \/ \E s \in Slot : joins(s)
  PROVE  IInv'
<1> USE DEF moves, pool
<1>1. CASE finalize
  BY <1>1
  DEF IInv, TypeOK, OwnedOnce, ReadyToReuse, Accounted, HasSlot, Served, Serves, Finalized,
      finalize, Notified
<1>2. CASE \E s \in Slot : joins(s)
  BY <1>2
  DEF IInv, TypeOK, OwnedOnce, ReadyToReuse, Accounted, HasSlot, Served, Serves, Finalized, joins
<1> QED BY <1>1, <1>2

(* Stuttering keeps the invariant.                                         *)
LEMMA StutterIInv == IInv /\ UNCHANGED vars => IInv'
  BY DEF IInv, TypeOK, OwnedOnce, ReadyToReuse, Accounted, HasSlot, Served, Serves, Finalized, vars

(* IInv is an invariant.                                                   *)
THEOREM Inductive == Spec => []IInv
<1>1. IInv /\ [Next]_vars => IInv'
  BY ConstructorIInv, DestructorIInv, ThreadIInv, FinalizeIInv, StutterIInv DEF Next
<1> QED BY <1>1, InitIInv, PTL DEF Spec

(* Scopes, states and timer threads stay within the steps of the code: a     *)
(* scope points to a state or to none, and a state to a scope.               *)
THEOREM TimerTypes == Spec => []TypeOK
<1>1. IInv => TypeOK
  BY DEF IInv
<1> QED BY <1>1, Inductive, PTL

(* A state has one owner, whose thread is alive: available_workers, the     *)
(* scopes and finalize never share a scoped_timer_state.                    *)
THEOREM StatesOwnedOnce == Spec => []OwnedOnce
<1>1. IInv => OwnedOnce
  BY DEF IInv
<1> QED BY <1>1, Inductive, PTL

(* init_state never blocks on m_mutex while it holds workers: a state in    *)
(* available_workers is idle and its mutex is free.                         *)
THEOREM AlwaysReadyToReuse == Spec => []ReadyToReuse
<1>1. IInv => ReadyToReuse
  BY DEF IInv
<1> QED BY <1>1, Inductive, PTL

(* The scoped timer implements OneShot: the handler is called at most once, *)
(* and only between constructor and destructor.                             *)
THEOREM ImplementsOneShot == Spec => Refines
<1>1. Init => O!Init
  BY DEF Init, O!Init
<1>2. IInv /\ [Next]_vars => [O!Next]_O!vars
  <2> SUFFICES ASSUME IInv, Next PROVE O!Next \/ UNCHANGED O!vars
    BY DEF vars, O!vars
  <2> USE DEF O!vars, goto, pool
  <2>1. ASSUME NEW c \in Scope, Constructor(c) \/ opens_without_timer(c)
        PROVE  O!Open(c) \/ UNCHANGED O!vars
    BY <2>1 DEF IInv, TypeOK, O!Open, Constructor, opens, opens_without_timer, finds_no_worker,
                starts_thread, takes_worker, notifies_worker
  <2>2. ASSUME NEW c \in Scope, Destructor(c) \/ closes_without_timer(c)
        PROVE  O!Close(c) \/ UNCHANGED O!vars
    BY <2>2 DEF IInv, TypeOK, O!Close, Destructor, unlocks, sees_thread_done, returns_worker,
                closes_without_timer
  <2>3. ASSUME NEW s \in Slot, calls_handler(s)
        PROVE  O!Fire(eh[s])
    <3>1. thread[s] = "fire" /\ called' = called \cup {eh[s]} /\ pc' = pc
      BY <2>3 DEF calls_handler, moves
    <3>2. PICK c \in Scope : slot[c] = s
      BY <3>1 DEF IInv, Accounted, ReadyToReuse, Finalized
    <3>3. eh[s] = c /\ c \notin called /\ pc[c] # "out"
      BY <3>1, <3>2 DEF IInv, TypeOK, Served, Serves, HasSlot
    <3> QED BY <3>1, <3>3 DEF O!Fire
  <2>4. ASSUME NEW s \in Slot, ThreadStep(s) \/ wakes_up_spuriously(s) \/ joins(s), ~calls_handler(s)
        PROVE  UNCHANGED O!vars
    BY <2>4 DEF ThreadStep, waits, runs, gets_mutex, expires, unlocks_thread, sets_idle,
                wakes_up_spuriously, joins
  <2>5. finalize => UNCHANGED O!vars
    BY DEF finalize
  <2>6. \A s \in Slot : eh[s] \in Scope
    BY DEF IInv, TypeOK
  <2> QED BY <2>1, <2>2, <2>3, <2>4, <2>5, <2>6 DEF Next, O!Next
<1> QED BY <1>1, <1>2, Inductive, PTL DEF Spec, Refines, O!Spec
=============================================================================

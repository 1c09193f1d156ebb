----------------------------- MODULE ParallelSmt ----------------------------
(***************************************************************************)
(* The parallel SMT solver (smt/smt_parallel.cpp): CDCL workers, a core     *)
(* minimizer and the batch manager they share, with the search tree of      *)
(* SearchTree.                                                              *)
(*                                                                         *)
(* A step is what a thread does in one critical section of the batch        *)
(* manager's mutex, with the run of its solver that leads to it.  Threads   *)
(* are canceled through the counter m_cancel of their resource limit: once  *)
(* for a lease whose node was closed (taken back when the lease is          *)
(* released), once when the batch manager stops                             *)
(* (cancel_background_threads), and by the caller, who                      *)
(* cancels the main limit, which overwrites the counters of its children.   *)
(*                                                                         *)
(* A solver is what it may answer: a model, a core, or nothing.  The        *)
(* clauses that workers exchange follow from the formula and change none of *)
(* these answers, so that the exchange is left out, except for the units,   *)
(* which also close nodes.                                                  *)
(*                                                                         *)
(* The parallel tactic (solver/parallel_tactical.cpp) has the same threads  *)
(* and the same batch manager.  It differs in two places: its "unknown"     *)
(* does not stop the other workers, and it resets the limit of its caller   *)
(* before it looks at the result.  Which of the two engines runs is fixed   *)
(* at the start.                                                            *)
(***************************************************************************)
EXTENDS SearchTree

CONSTANTS Engine,         \* the engines: "smt", "tactic"
          Worker,         \* the CDCL workers
          minimizer,      \* the core minimizer thread
          CoreMinimize,   \* whether there is a core minimizer
          ShareUnits,     \* m_share_units
          Outcome,        \* how a check of the workload can end
          MaxCancel       \* bound: how often the caller cancels

ASSUME ThreadsAssumption ==
    /\ Engine \subseteq {"smt", "tactic"}
    /\ IsFiniteSet(Worker) /\ Worker # {}
    /\ minimizer \notin Worker
    /\ CoreMinimize \in BOOLEAN /\ ShareUnits \in BOOLEAN
    /\ Outcome \subseteq {"true", "false", "conflicts", "incomplete", "exception", "exhausted"}
    /\ MaxCancel \in Nat

Thread == Worker \cup (IF CoreMinimize THEN {minimizer} ELSE {})

VARIABLES
    formula,     \* the models of the formula being solved; never changes
    engine,      \* smt_parallel.cpp or parallel_tactical.cpp; never changes
    tree,        \* m_search_tree
    state,       \* m_state
    unsatCore,   \* the unsat core left in the main context
    lease,       \* m_worker_leases
    canceled,    \* m_canceled: cancel_background_threads has run
    jobs,        \* m_core_min_jobs: how often each job is in it
    main,        \* m_cancel of the limit of the main context
    cancel,      \* m_cancel of the limit of each thread
    exhausted,   \* the threads whose limit has run out of resources
    pc,          \* where each thread is
    first,       \* is_first_run of each worker
    held,        \* the local lease of each worker
    res,         \* the result of each worker's last check
    job,         \* the job of the core minimizer
    asleep,      \* the core minimizer is blocked in m_core_min_cv
    backbones,   \* m_global_backbones
    cleared,     \* the tactic has reset the limits
    answer       \* what operator() returned

manager == <<tree, state, unsatCore, lease, canceled>>
limits == <<main, cancel, exhausted>>
locals == <<first, held, res>>
minim == <<jobs, job, asleep>>
caller == <<cleared, answer>>
problem == <<formula, engine>>
vars == <<problem, manager, limits, pc, locals, minim, backbones, caller>>

\* Where a thread can be.
Location == {"get", "check", "report", "enqueue", "share", "done",
             "wait", "minimize", "publish", "exit", "unreachable"}

Unsat(C) == \A M \in formula : ~(C \subseteq M)

NoNode == {NullLit}        \* nullptr
NoLease == [node |-> NoNode, signaled |-> FALSE]
NoResult == [r |-> "none", core |-> {}]
NoJob == [source |-> NoNode, core |-> {}]
NoJobs == [j \in {} |-> 0]

\* m_core_min_jobs.push_back, and detach_back of the job that was swapped to the end.
push_back(js, j) ==
    [k \in DOMAIN js \cup {j} |-> IF k \notin DOMAIN js THEN 1 ELSE IF k = j THEN js[k] + 1 ELSE js[k]]
detach(js, j) ==
    [k \in {k \in DOMAIN js : k # j \/ js[k] > 1} |-> IF k = j THEN js[k] - 1 ELSE js[k]]

Init ==
    /\ formula \in Formulas /\ engine \in Engine
    /\ tree = reset /\ state = "running" /\ unsatCore = {}
    /\ lease = [w \in Worker |-> NoLease] /\ canceled = FALSE
    /\ main = 0 /\ cancel = [x \in Thread |-> 0] /\ exhausted = {}
    /\ pc = [x \in Thread |-> IF x = minimizer THEN "wait" ELSE "get"]
    /\ first = [w \in Worker |-> TRUE] /\ held = [w \in Worker |-> NoNode]
    /\ res = [w \in Worker |-> NoResult]
    /\ jobs = NoJobs /\ job = NoJob /\ asleep = FALSE
    /\ backbones = {} /\ cleared = FALSE /\ answer = "none"

is_canceled(x) == cancel[x] > 0 \/ x \in exhausted
goto(x, l) == pc' = [pc EXCEPT ![x] = l]

-----------------------------------------------------------------------------
(* The batch manager: what several critical sections have in common.  cn    *)
(* and ls are the counters and the leases as the section has left them.     *)

\* Mutant: the workers are not canceled.
cancel_background_threads_NotWorkers(cn) ==
    /\ canceled' = TRUE
    /\ cancel' = [x \in Thread |-> IF canceled \/ x \in Worker THEN cn[x] ELSE cn[x] + 1]
    /\ asleep' = (asleep /\ canceled)

cancel_background_threads(cn) ==
    /\ canceled' = TRUE
    /\ cancel' = IF canceled THEN cn ELSE [x \in Thread |-> cn[x] + 1]
    /\ asleep' = (asleep /\ canceled)

\* Mutant: a canceled thread ends without stopping the others.
set_canceled_Nothing == UNCHANGED <<state, unsatCore, canceled, cancel, asleep>>

set_canceled ==
    /\ IF state = "running" THEN cancel_background_threads(cancel)
                            ELSE UNCHANGED <<canceled, cancel, asleep>>
    /\ UNCHANGED <<state, unsatCore>>

\* Mutant: a late verdict overwrites the first.
set_state_Overwrites(s, over, C) ==
    state' = s /\ unsatCore' = C /\ cancel_background_threads(cancel)

\* set_sat, set_unsat, set_unknown and set_exception: s replaces a state in over.
set_state(s, over, C) ==
    IF state \in over
    THEN state' = s /\ unsatCore' = C /\ cancel_background_threads(cancel)
    ELSE UNCHANGED <<state, unsatCore, canceled, cancel, asleep>>

\* Mutant: the stored lease is not reset.
Released_Keeps(w) == lease

\* release_worker_lease_unlocked for the lease that w holds.
Released(w) == [lease EXCEPT ![w] = NoLease]

\* Mutant: cancel_signaled is not looked at.
Uncanceled_Always(w) == [cancel EXCEPT ![w] = IF @ > 0 THEN @ - 1 ELSE @]

\* dec_cancel, for a lease that was signaled.
Uncanceled(w) ==
    [cancel EXCEPT ![w] = IF lease[w].signaled /\ @ > 0 THEN @ - 1 ELSE @]

\* Mutant: leases of closed nodes are not canceled.
ToSignal_None(t, ls, source) == {}

\* Mutant: cancel_signaled is not looked at.
ToSignal_Again(t, ls, source) ==
    {w \in Worker \ source : ls[w].node # NoNode /\ is_lease_canceled(t, ls[w].node)}

\* The workers that cancel_closed_leases_unlocked signals.
ToSignal(t, ls, source) ==
    {w \in Worker \ source :
        /\ ls[w].node # NoNode /\ ~ls[w].signaled
        /\ is_lease_canceled(t, ls[w].node)}

\* The tree is now t: cancel_closed_leases_unlocked, and unsat if t is closed.
Closing(t, ls, cn, source) ==
    LET hit == ToSignal(t, ls, source)
        cn1 == [x \in Thread |-> IF x \in hit THEN cn[x] + 1 ELSE cn[x]]
    IN  /\ tree' = t
        /\ lease' = [w \in Worker |-> [ls[w] EXCEPT !.signaled = @ \/ w \in hit]]
        /\ IF is_closed(t)
           THEN state' = "unsat" /\ unsatCore' = t.core[Root] /\ cancel_background_threads(cn1)
           ELSE cancel' = cn1 /\ UNCHANGED <<state, unsatCore, canceled, asleep>>

\* Mutant: one literal of the core on the path of the target is enough.
collect_matching_targets_SomeLiteral(t, source, l, core) ==
    {n \in t.nodes \ {Root, source} :
        /\ t.lit[n] = l /\ ~is_lease_canceled(t, n)
        /\ ~(source \subseteq n) /\ ~(n \subseteq source)
        /\ core \cap n # {}}

\* The open nodes with decision l on other branches than source's whose path
\* holds the whole core; the highest of them.
collect_matching_targets(t, source, l, core) ==
    LET match == {n \in t.nodes \ {Root, source} :
                    /\ t.lit[n] = l /\ ~is_lease_canceled(t, n)
                    /\ ~(source \subseteq n) /\ ~(n \subseteq source)
                    /\ core \subseteq n}
    IN  {n \in match : \A m \in match : m \subseteq n => m = n}

\* n comes before m, on another branch, in the traversal of the tree.
Before(t, n, m) ==
    \E k \in Ancestors(t, n) \ {Root} :
        t.lit[k][2] /\ Parent(t, k) \cup {Neg(t.lit[k])} \subseteq m

\* How many of the targets the traversal meets before n.
Rank(t, targets, n) == Cardinality({m \in targets : Before(t, m, n)})

\* m_search_tree.backtrack on each target that is still open, in that order.
BacktrackTargets(t, targets, core) ==
    LET go[S \in SUBSET targets] ==
          LET n == CHOOSE n \in S : \A m \in S : Rank(t, targets, m) <= Rank(t, targets, n)
              u == go[S \ {n}]
          IN  IF S = {} THEN t
              ELSE IF is_lease_canceled(u, n) THEN u ELSE backtrack(u, n, core)
    IN  go[targets]

-----------------------------------------------------------------------------
(* The worker.                                                             *)

\* get_cube; the nodes it may lease.
CubeNodes(w) == IF first[w] THEN {Root} ELSE activate_best_node(tree)

get_cube(w) ==
    /\ pc[w] \in {"get", "share"}
    /\ IF is_closed(tree) \/ state # "running" \/ CubeNodes(w) = {}
       THEN goto(w, "done") /\ UNCHANGED <<tree, lease, first, held>>
       ELSE \E n \in CubeNodes(w) :
              /\ tree' = mark_new_activation(tree, n)
              /\ lease' = [lease EXCEPT ![w] = [node |-> n, signaled |-> FALSE]]
              /\ held' = [held EXCEPT ![w] = n]
              /\ first' = [first EXCEPT ![w] = FALSE]
              /\ goto(w, "check")
    /\ UNCHANGED <<problem, state, unsatCore, canceled, limits, res, minim, backbones, caller>>

\* What the solver of w may answer on its cube.
Results(w) ==
    [r : {"true"} \cap {IF \E M \in formula : held[w] \cup Asms \subseteq M THEN "true" ELSE "none"},
     core : {{}}]
    \cup [r : {"false"}, core : {C \in SUBSET (held[w] \cup Asms) : Unsat(C)}]
    \cup [r : {"conflicts", "incomplete"}, core : {{}}]

\* attempt_release_canceled_lease_unlocked succeeds.
CanRelease(w) ==
    /\ state = "running"
    /\ held[w] # NoNode /\ lease[w].node = held[w]
    /\ is_lease_canceled(tree, held[w])

Release(w) ==
    /\ tree' = dec_active_workers(tree, held[w])
    /\ lease' = Released(w) /\ cancel' = Uncanceled(w)
    /\ held' = [held EXCEPT ![w] = NoNode]

\* Mutant: worker::run does not look at lease_canceled and reports its result.
checkpoint_worker_Reports(w, ex) ==
    \/ /\ CanRelease(w) /\ Release(w)
       /\ \E x \in Results(w) : x.r \in Outcome /\ res' = [res EXCEPT ![w] = x]
       /\ goto(w, "report")
       /\ UNCHANGED <<state, unsatCore, canceled, asleep>>
    \/ /\ ~CanRelease(w) /\ cancel[w] = 0 /\ w \notin ex
       /\ \E x \in Results(w) : x.r \in Outcome /\ res' = [res EXCEPT ![w] = x]
       /\ goto(w, "report")
       /\ UNCHANGED <<manager, cancel, held, asleep>>
    \/ /\ ~CanRelease(w) /\ (cancel[w] > 0 \/ w \in ex)
       /\ set_canceled /\ goto(w, "done")
       /\ UNCHANGED <<tree, lease, held, res>>

\* The check of the cube has ended; ex is the set of exhausted threads then.
\* The worker drops a cube that was closed meanwhile, stops when it is
\* canceled, and else goes on with the result of the check.
checkpoint_worker(w, ex) ==
    \/ /\ CanRelease(w) /\ Release(w) /\ goto(w, "get")
       /\ UNCHANGED <<state, unsatCore, canceled, asleep, res>>
    \/ /\ ~CanRelease(w) /\ cancel[w] = 0 /\ w \notin ex
       /\ \E x \in Results(w) : x.r \in Outcome /\ res' = [res EXCEPT ![w] = x]
       /\ goto(w, "report")
       /\ UNCHANGED <<manager, cancel, held, asleep>>
    \/ /\ ~CanRelease(w) /\ (cancel[w] > 0 \/ w \in ex)
       /\ set_canceled /\ goto(w, "done")
       /\ UNCHANGED <<tree, lease, held, res>>

check_cube(w) ==
    /\ pc[w] = "check"
    /\ checkpoint_worker(w, exhausted)
    /\ UNCHANGED <<problem, main, exhausted, first, jobs, job, backbones, caller>>

\* The check uses up the resources that the limit of w allows.
check_exhausts(w) ==
    /\ pc[w] = "check" /\ "exhausted" \in Outcome
    /\ exhausted' = exhausted \cup {w}
    /\ checkpoint_worker(w, exhausted')
    /\ UNCHANGED <<problem, main, first, jobs, job, backbones, caller>>

\* The check throws an exception that is not a cancellation.  The checkpoint
\* that follows finds the worker canceled.
check_throws(w) ==
    /\ pc[w] = "check" /\ "exception" \in Outcome /\ ~is_canceled(w)
    /\ set_state("exception", {"running"}, unsatCore)
    /\ UNCHANGED <<problem, tree, lease, main, exhausted, pc, locals, jobs, job, backbones, caller>>

\* An undef cube that ran into its conflict budget, which is then raised: the
\* cube is too deep to split or every atom is assigned, and is tried again.
retry_cube(w) ==
    /\ pc[w] = "report" /\ res[w].r = "conflicts"
    /\ res' = [res EXCEPT ![w] = NoResult]
    /\ goto(w, "check")
    /\ UNCHANGED <<problem, manager, limits, first, held, minim, backbones, caller>>

try_split_cube(w) ==
    /\ pc[w] = "report" /\ res[w].r = "conflicts"
    /\ Depth(held[w]) < MaxDepth
    /\ \E x \in SplitAtom, e \in Effort :
          /\ ~path_contains_atom(held[w], <<x, TRUE>>)
          /\ IF state # "running" THEN UNCHANGED <<tree, lease, cancel, held>>
             ELSE IF is_lease_canceled(tree, held[w]) THEN Release(w)
             ELSE /\ \E t \in try_split(tree, held[w], <<x, TRUE>>, e) :
                        tree' = dec_active_workers(t, held[w])
                  /\ lease' = Released(w) /\ cancel' = Uncanceled(w)
                  /\ held' = [held EXCEPT ![w] = NoNode]
    /\ res' = [res EXCEPT ![w] = NoResult]
    /\ goto(w, "share")
    /\ UNCHANGED <<problem, state, unsatCore, canceled, main, exhausted, first, minim,
                   backbones, caller>>

\* set_unknown of the tactic: it wakes the threads that wait for work, but
\* leaves the workers to look for a verdict.
set_unknown_soft ==
    /\ state' = IF state = "running" THEN "unknown" ELSE state
    /\ asleep' = (asleep /\ state # "running")
    /\ UNCHANGED <<unsatCore, canceled, cancel>>

report_unknown(w) ==
    /\ pc[w] = "report" /\ res[w].r = "incomplete"
    /\ IF engine = "smt" THEN set_state("unknown", {"running"}, unsatCore)
                         ELSE set_unknown_soft
    /\ res' = [res EXCEPT ![w] = NoResult]
    /\ goto(w, "done")
    /\ UNCHANGED <<problem, tree, lease, main, exhausted, first, held, jobs, job, backbones, caller>>

report_sat(w) ==
    /\ pc[w] = "report" /\ res[w].r = "true"
    /\ set_state("sat", {"running", "unknown"}, unsatCore)
    /\ res' = [res EXCEPT ![w] = NoResult]
    /\ goto(w, "done")
    /\ UNCHANGED <<problem, tree, lease, main, exhausted, first, held, jobs, job, backbones, caller>>

\* The core has assumptions only: the formula is unsat whatever the cube.
report_unsat(w) ==
    /\ pc[w] = "report" /\ res[w].r = "false" /\ res[w].core \subseteq Asms
    /\ set_state("unsat", {"running", "unknown"}, res[w].core)
    /\ res' = [res EXCEPT ![w] = NoResult]
    /\ goto(w, "done")
    /\ UNCHANGED <<problem, tree, lease, main, exhausted, first, held, jobs, job, backbones, caller>>

\* batch_manager::backtrack.  held keeps the node for enqueue_core_minimization.
backtrack_cube(w) ==
    LET n == held[w]
        C == res[w].core
        targets == IF n = Root THEN {} ELSE collect_matching_targets(tree, n, tree.lit[n], C)
        t0 == IF is_lease_canceled(tree, n) THEN dec_active_workers(tree, n)
              ELSE backtrack(dec_active_workers(tree, n), n, C)
        t1 == BacktrackTargets(t0, targets, C)
    IN  /\ pc[w] = "report" /\ res[w].r = "false" /\ ~(C \subseteq Asms)
        /\ IF state # "running" THEN UNCHANGED <<manager, cancel, asleep>>
           ELSE IF is_lease_canceled(tree, n) /\ targets = {}
           THEN /\ tree' = t0 /\ lease' = Released(w) /\ cancel' = Uncanceled(w)
                /\ UNCHANGED <<state, unsatCore, canceled, asleep>>
           ELSE \E t \in {t1} : Closing(t, Released(w), Uncanceled(w), {w})
        /\ IF CoreMinimize
           THEN goto(w, "enqueue") /\ UNCHANGED <<held, res>>
           ELSE /\ held' = [held EXCEPT ![w] = NoNode] /\ res' = [res EXCEPT ![w] = NoResult]
                /\ goto(w, "share")
        /\ UNCHANGED <<problem, main, exhausted, first, jobs, job, backbones, caller>>

\* The lowest node above source whose decision is in the core; NoNode if none.
find_core_source(source, core) ==
    LET parts == Participants(tree, source, core)
    IN  IF parts = {} THEN NoNode ELSE CHOOSE m \in parts : \A k \in parts : k \subseteq m

enqueue_core_minimization(w) ==
    LET source == find_core_source(held[w], res[w].core)
        new == [source |-> source, core |-> res[w].core]
    IN  /\ pc[w] = "enqueue"
        /\ IF /\ state = "running"
              /\ Cardinality(res[w].core) > 1 /\ source # NoNode
           THEN jobs' = push_back(jobs, new) /\ asleep' = FALSE
           ELSE UNCHANGED <<jobs, asleep>>
        /\ held' = [held EXCEPT ![w] = NoNode]
        /\ res' = [res EXCEPT ![w] = NoResult]
        /\ goto(w, "share")
        /\ UNCHANGED <<problem, manager, limits, first, job, backbones, caller>>

\* share_units: collect_global_backbone for a unit that w has learned.  It
\* closes the nodes that decide its negation.
share_unit(w) ==
    /\ pc[w] = "share" /\ ShareUnits
    /\ \E l \in Lit \ backbones :
          LET targets == collect_matching_targets(tree, NoNode, Neg(l), {Neg(l)})
          IN  /\ Unsat({Neg(l)})
              /\ backbones' = backbones \cup {l}
              /\ IF targets = {} \/ state # "running" THEN UNCHANGED <<manager, cancel, asleep>>
                 ELSE \E t \in {BacktrackTargets(tree, targets, {Neg(l)})} :
                        Closing(t, lease, cancel, {})
    /\ UNCHANGED <<problem, main, exhausted, pc, locals, jobs, job, caller>>

-----------------------------------------------------------------------------
(* The core minimizer.                                                     *)

\* The jobs that select_best_core_min_job_unlocked may choose.
best_jobs ==
    {j \in DOMAIN jobs : \A k \in DOMAIN jobs :
        \/ Depth(j.source) > Depth(k.source)
        \/ Depth(j.source) = Depth(k.source) /\ Cardinality(j.core) >= Cardinality(k.core)}

\* Mutant: only a cancellation ends the thread, which else goes on without a job.
wait_for_core_min_job_GoesOn ==
    /\ CoreMinimize /\ pc[minimizer] = "wait" /\ ~asleep
    /\ \/ /\ is_canceled(minimizer) /\ goto(minimizer, "exit") /\ UNCHANGED minim
       \/ /\ ~is_canceled(minimizer) /\ state = "running" /\ jobs = NoJobs
          /\ asleep' = TRUE /\ UNCHANGED <<pc, jobs, job>>
       \/ /\ ~is_canceled(minimizer) /\ state # "running"
          /\ goto(minimizer, "publish") /\ UNCHANGED minim
    /\ UNCHANGED <<problem, manager, limits, locals, backbones, caller>>

wait_for_core_min_job ==
    /\ CoreMinimize /\ pc[minimizer] = "wait" /\ ~asleep
    /\ \/ /\ state # "running"
          /\ goto(minimizer, "done")
          /\ UNCHANGED minim
       \/ /\ is_canceled(minimizer) /\ state = "running"
          /\ goto(minimizer, "exit")
          /\ UNCHANGED minim
       \/ /\ ~is_canceled(minimizer) /\ state = "running" /\ jobs = NoJobs
          /\ asleep' = TRUE
          /\ UNCHANGED <<pc, jobs, job>>
       \/ /\ ~is_canceled(minimizer) /\ state = "running"
          /\ \E j \in best_jobs : job' = j /\ jobs' = detach(jobs, j)
          /\ goto(minimizer, "minimize")
          /\ UNCHANGED asleep
    /\ UNCHANGED <<problem, manager, limits, locals, backbones, caller>>

\* The rest of safe_run: set_canceled, which has an effect only while the state
\* is still running.  A worker has nothing left to do there: it only ends when
\* the batch manager has stopped already.
minimizer_exits ==
    /\ CoreMinimize /\ pc[minimizer] = "exit"
    /\ IF is_canceled(minimizer) THEN set_canceled
                                 ELSE UNCHANGED <<state, unsatCore, canceled, cancel, asleep>>
    /\ goto(minimizer, "done")
    /\ UNCHANGED <<problem, tree, lease, main, exhausted, locals, jobs, job, backbones, caller>>

\* minimize_unsat_core leaves some core that is contained in the job's.
minimize_unsat_core ==
    /\ CoreMinimize /\ pc[minimizer] = "minimize"
    /\ \E C \in SUBSET job.core :
          /\ Unsat(C)
          /\ IF C # job.core
             THEN job' = [job EXCEPT !.core = C] /\ goto(minimizer, "publish")
             ELSE job' = NoJob /\ goto(minimizer, "wait")
    /\ UNCHANGED <<problem, manager, limits, locals, jobs, asleep, backbones, caller>>

\* A trial of minimize_unsat_core, with the literal l negated, is satisfiable.
minimize_finds_sat ==
    /\ CoreMinimize /\ pc[minimizer] = "minimize" /\ Asms = {}
    /\ \E C \in SUBSET job.core, l \in job.core, M \in formula :
          l \notin C /\ Unsat(C \cup {l}) /\ C \cup {Neg(l)} \subseteq M
    /\ set_state("sat", {"running", "unknown"}, unsatCore)
    /\ job' = NoJob /\ goto(minimizer, "wait")
    /\ UNCHANGED <<problem, tree, lease, main, exhausted, locals, jobs, backbones, caller>>

\* asms.contains compares pointers, and the assumptions of the core minimizer
\* belong to another ast_manager than the core it is given: only an empty core
\* has no literal that is missing from asms.
minimized_to_asms(core) == core = {}

publish_minimized_core ==
    LET C == job.core
        t0 == backtrack(tree, job.source, C)
        published(l) == BacktrackTargets(t0, collect_matching_targets(t0, job.source, l, C), C)
    IN  /\ CoreMinimize /\ pc[minimizer] = "publish"
        /\ IF state # "running" \/ Cardinality(tree.core[job.source]) <= Cardinality(C)
           THEN goto(minimizer, "wait") /\ UNCHANGED <<manager, cancel, asleep>>
           ELSE IF minimized_to_asms(C)
           THEN /\ set_state("unsat", {"running"}, C) /\ goto(minimizer, "wait")
                /\ UNCHANGED <<tree, lease>>
           ELSE IF ~CanBacktrack(tree, job.source, C)
           THEN goto(minimizer, "unreachable") /\ UNCHANGED <<manager, cancel, asleep>>
           ELSE /\ \E t \in {published(l) : l \in C} : Closing(t, lease, cancel, {})
                /\ goto(minimizer, "wait")
        /\ job' = NoJob
        /\ UNCHANGED <<problem, main, exhausted, locals, jobs, backbones, caller>>

-----------------------------------------------------------------------------
(* The caller.                                                             *)

\* Mutant: the limits of the workers are not among the children.
cancel_main_NotWorkers ==
    /\ answer = "none" /\ main < MaxCancel
    /\ main' = main + 1
    /\ cancel' = [x \in Thread |-> IF x \in Worker THEN cancel[x] ELSE main']
    /\ UNCHANGED <<problem, manager, exhausted, pc, locals, minim, backbones, caller>>

\* The main limit is canceled: a timeout, or the user.  No thread is notified.
cancel_main ==
    /\ answer = "none" /\ main < MaxCancel
    /\ main' = main + 1
    /\ cancel' = [x \in Thread |-> main']
    /\ UNCHANGED <<problem, manager, exhausted, pc, locals, minim, backbones, caller>>

Joined == answer = "none" /\ \A x \in Thread : pc[x] = "done"

\* The tactic resets the limit of its caller, with its children.
reset_cancel ==
    /\ Joined /\ engine = "tactic" /\ ~cleared
    /\ cleared' = TRUE /\ main' = 0 /\ cancel' = [x \in Thread |-> 0]
    /\ UNCHANGED <<problem, manager, exhausted, pc, locals, minim, backbones, answer>>

\* operator() has joined the threads and calls get_result.
get_result ==
    /\ Joined /\ (engine = "tactic" => cleared)
    /\ answer' = CASE main > 0 \/ state = "unknown" -> "undef"
                   [] main = 0 /\ state = "running" -> "inconsistent"
                   [] OTHER -> state
    /\ UNCHANGED <<problem, manager, limits, pc, locals, minim, backbones, cleared>>

Terminated == answer # "none" /\ UNCHANGED vars

WorkerStep(w) ==
    \/ get_cube(w) \/ check_cube(w) \/ check_exhausts(w) \/ check_throws(w)
    \/ retry_cube(w) \/ try_split_cube(w)
    \/ report_unknown(w) \/ report_sat(w) \/ report_unsat(w)
    \/ backtrack_cube(w) \/ enqueue_core_minimization(w) \/ share_unit(w)

MinimizerStep ==
    \/ wait_for_core_min_job \/ minimizer_exits
    \/ minimize_unsat_core \/ minimize_finds_sat \/ publish_minimized_core

Next ==
    \/ \E w \in Worker : WorkerStep(w)
    \/ MinimizerStep
    \/ cancel_main \/ reset_cancel \/ get_result \/ Terminated

Spec == Init /\ [][Next]_vars

-----------------------------------------------------------------------------
FieldTypes ==
    /\ formula \in Formulas /\ engine \in Engine /\ TreeType(tree)
    /\ state \in {"running", "sat", "unsat", "unknown", "exception"}
    /\ unsatCore \subseteq Lit /\ backbones \subseteq Lit
    /\ lease \in [Worker -> [node : tree.nodes \cup {NoNode}, signaled : BOOLEAN]]
    /\ canceled \in BOOLEAN /\ asleep \in BOOLEAN /\ cleared \in BOOLEAN
    /\ main \in 0 .. MaxCancel /\ cancel \in [Thread -> Nat] /\ exhausted \subseteq Worker
    /\ pc \in [Thread -> Location]
    /\ first \in [Worker -> BOOLEAN] /\ held \in [Worker -> tree.nodes \cup {NoNode}]
    /\ \A w \in Worker : res[w].core \subseteq Lit

\* A worker that checks or reports holds the lease of its cube.  After that it has
\* given it back, unless the search was over.
LeaseOK(w) ==
    /\ pc[w] \in {"check", "report"} => held[w] \in tree.nodes /\ lease[w].node = held[w]
    /\ pc[w] \in {"get", "share", "enqueue"} /\ state = "running" => lease[w].node = NoNode

(* The type invariant, with the two copies of a lease: the worker's own and *)
(* the one in m_worker_leases agree wherever worker::run uses either, also  *)
(* when another thread closes the node between a check and the report on    *)
(* it, so that no result is ever reported for a cube that was given back.   *)
TypeOK == FieldTypes /\ \A w \in Worker : LeaseOK(w)

\* m_active_workers of a node is the number of leases on it: no path out of a
\* cube (split, conflict, cancellation by another thread) releases a lease
\* twice or forgets it.
LeasesCounted ==
    \A n \in tree.nodes : tree.workers[n] = Cardinality({w \in Worker : lease[w].node = n})

\* While the search runs, exactly the workers whose node is closed have been
\* told so by cancel_closed_leases_unlocked: nobody goes on with a dead cube
\* unnoticed, and nobody is stopped on a live one.
ClosedLeaseSignaled ==
    state = "running" => \A w \in Worker :
        lease[w].node # NoNode => lease[w].signaled = is_lease_canceled(tree, lease[w].node)

\* Unless the caller cancels, m_cancel of a worker's limit is what is owed: one
\* for a lease that was signaled and not yet released, one for the end of the
\* search.  A missing dec_cancel would stop the worker for good, one too many
\* would undo the end of the search.
CancelBalanced ==
    main = 0 /\ ~cleared => \A w \in Worker :
        cancel[w] = (IF lease[w].signaled THEN 1 ELSE 0) + (IF canceled THEN 1 ELSE 0)

\* When all threads have ended without a verdict, the main limit was canceled and
\* get_result returns undef, as its comment says: it never gets to throw
\* "inconsistent end state".
EndStateDecided == answer # "inconsistent"

\* publish_minimized_core never calls tree::backtrack with a core that has no
\* decision of the path, which ends in its UNREACHABLE.
NotUnreachable == CoreMinimize => pc[minimizer] # "unreachable"

\* A cancellation of the main limit does not get lost: as long as a worker checks
\* a cube after it, some thread that has not ended still has its limit canceled,
\* and will stop the others.  dec_cancel of a lease must not undo it.  It can when
\* set_canceled has nothing left to do: in the tactic once the verdict is
\* "unknown", and after a worker has run out of resources.  The thread may be the
\* core minimizer asleep in m_core_min_cv, which does not look before it is woken:
\* its last core may have closed the leases of all workers, whose dec_cancel then
\* takes their part of the cancellation back.
CancelHeard ==
    /\ main > 0 /\ (\E w \in Worker : pc[w] = "check")
    /\ (engine = "tactic" => state # "unknown") /\ exhausted = {}
    => \E x \in Thread : pc[x] # "done" /\ is_canceled(x)

\* The solver keeps the promise of Verdict: a verdict is decided once, by one
\* thread, "unknown" may only be improved, and get_result returns the verdict
\* that was decided, or undef, or throws.
V == INSTANCE Verdict WITH problem <- formula, verdict <- state, core <- unsatCore,
                           answer <- IF answer = "inconsistent" THEN "exception" ELSE answer
Refines == V!Spec

-----------------------------------------------------------------------------
(* Liveness.  The operating system runs every thread, a check ends (at the   *)
(* latest when its conflict budget is used up or its limit is canceled), and *)
(* the mutex is held only for finite sections.  A thread blocked on a        *)
(* condition variable that nobody notifies has no step to take.              *)

\* x goes on to its next step.  Every thread has one until it is done, unless
\* it sleeps or has run into UNREACHABLE.
Proceeds(x) ==
    /\ pc[x] \notin {"done", "unreachable"} /\ ~(x = minimizer /\ asleep)
    /\ \E l \in Location \ {pc[x]} : goto(x, l)

Fairness == /\ \A x \in Thread : WF_pc(Proceeds(x))
            /\ WF_vars(reset_cancel) /\ WF_vars(get_result)

FairSpec == Spec /\ Fairness

\* Once the batch manager has stopped, for a verdict or because a thread was
\* canceled or ran out of resources, operator() returns: every thread gets to
\* know, the core minimizer that sleeps in m_core_min_cv included.
StopReturns == canceled ~> answer # "none"

\* The cancellation is lost on the workers: some node was closed, every worker that
\* goes on has released its lease since and taken the cancellation back with it, and
\* the core minimizer, the only thread left that is canceled, sleeps.
CancelLost ==
    /\ asleep /\ \E n \in tree.nodes : is_lease_canceled(tree, n)
    /\ \A w \in Worker : pc[w] = "done" \/ ~is_canceled(w)

\* When the caller cancels the main limit, operator() returns, whatever cubes the
\* workers are on, split, drop or retry meanwhile.  The exceptions are a tactic whose
\* verdict is "unknown" already, where set_canceled does nothing and a worker that has
\* missed the cancellation goes on, and a cancellation that is lost for good on the
\* leases of closed nodes while the core minimizer sleeps.
CancelStops ==
    main > 0 ~> \/ answer # "none" \/ (engine = "tactic" /\ state = "unknown")
                \/ []CancelLost

\* When the search is over, also by the "unknown" of the tactic that stops no
\* worker, the core minimizer ends: as the comment at set_unknown says, it waits
\* for "work that will never arrive once the state transitions away".
MinimizerReleased == CoreMinimize /\ state # "running" ~> pc[minimizer] = "done"
=============================================================================

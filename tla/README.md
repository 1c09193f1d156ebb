# Verification of Z3's concurrency layer

Z3 is an SMT solver. Most of it is sequential code on unbounded data (terms,
clauses, polynomials). The part with states, steps and interleavings is its
concurrency layer: the cube-and-conquer solvers, the limits and timers that
stop them, and the data the threads exchange. This project models that layer in
TLA+, checks it with TLC and proves every safety property that the runs find to hold
with TLAPS, for instances of any size: of the search tree, the parallel solver, the
backbones, the clause buffer, the timer and the checks of the API.

Paths are relative to the root of the sources, `src/`.

## 1. Inventory

| part | state | operations | interacts with |
|---|---|---|---|
| search tree (`src/util/search_tree.h`) | binary tree of decisions; per node a status, a core, a worker counter, two effort counters | activate, release, add effort, split, close with a core, resolve sibling cores, backtrack | called under the mutex of the batch manager |
| parallel SMT solver (`src/smt/smt_parallel.*`) | verdict, leases, job queue, global backbones, condition variables | get a cube, check, split, backtrack, share units, minimize and publish cores, set a verdict, stop all threads, collect the result | search tree, resource limits, SMT core |
| resource limits (`src/util/rlimit.*`) | cancel counter and resource count, children | inc/dec/set/reset cancel, push and pop of children and of counts | all solvers, timers |
| backbone workers (in `smt_parallel.cpp`) | queue of candidates, current batch, two epoch counters, shared backbones | wait for a batch, check chunks, probe literals, share a backbone, finish or cancel the batch | batch manager, SMT core |
| scoped timer (`src/util/scoped_timer.cpp`) | pool of timer threads, state of each, deadline | arm, expire, cancel, return to the pool, finalize | event handlers (`src/util/cancel_eh.h`), limits |
| stopping a check of the API (`src/util/cancel_eh.h`, `src/util/scoped_ctrl_c.cpp`, `src/api/api_solver.cpp`, `src/api/api_context.cpp`) | the handler of the check, the places where it is registered, the limit | register, check, unregister; timeout, ctrl-c, two kinds of interrupt | timer, limits |
| clause exchange of the SAT solver (`src/sat/sat_parallel.*`) | ring buffer, a tail and one head per reader, units | write and read a vector, exchange units | SAT solvers |
| parallel tactic (`src/solver/parallel_tactical.cpp`) | as the parallel SMT solver, on solvers in place of contexts | the same, but an unknown verdict does not stop the search and the main limit is reset at the end | solvers, search tree, limits |
| combined solver (`src/solver/combined_solver.cpp`), `par` tactic (`src/tactic/tactical.cpp`) | which solver is in use; first result | switch, time out; first result cancels the rest | timers, limits |
| SMT core, SAT core, arithmetic, terms, engines, front ends | | sequential | not modelled, see section 9 |

Behaviours that are hard to test, and where they bite, are listed as hazards in
`PROJECT.json`. The main ones: a worker reports on a node which another worker
has closed or split since; a conflict found in one branch closes nodes of other
branches; a chain of sibling resolutions climbs several levels; one counter
carries three kinds of cancellation; two threads decide at the same time; a
helper sleeps while the search ends; the core minimizer publishes a result for
a tree that has moved on; a timer thread is reused before it is back in its
condition variable; a stop arrives while a check begins or ends; a writer laps a
reader of the clause buffer; two backbone threads cancel each other's batches; what
holds under the assumptions is shared as if it held without them.

## 2. Modules

| module | what it holds | code |
|---|---|---|
| `SearchTree` | the tree as a record and each operation as an operator from trees to trees | `search_tree.h` |
| `SearchTreeSpec` | the tree driven by any number of workers; its properties | callers of `search_tree.h` |
| `MCSearchTree` | instance for TLC | |
| `SearchTreeLemmas`, `SearchTreeProofs` | the proofs, in this order | |
| `ParallelSmt` | workers, batch manager, core minimizer, cancellation, verdict, in two engines | `smt_parallel.cpp`, `parallel_tactical.cpp`, `rlimit.cpp` |
| `Verdict` | what the parallel solver promises to its caller | |
| `MCParallelSmt` | instance for TLC | |
| `ParallelSmtLemmas`, `ParallelSmtProofs` | the proofs, in this order; the first extends `SearchTreeLemmas` for what the tree operations keep | |
| `ScopedTimer` | scopes, the pool of timer threads, `finalize` | `scoped_timer.cpp` |
| `OneShot` | what a scoped timer promises to its owner | |
| `ScopedTimerProofs` | the proofs | |
| `ResLimit` | a resource limit without children as a record, each operation as an operator | `rlimit.cpp`, `rlimit.h` |
| `ApiCheck` | a check of the API and all that can stop it | `api_solver.cpp`, `api_context.cpp`, `cancel_eh.h`, `scoped_ctrl_c.cpp` |
| `ApiCheckProofs` | the proofs | |
| `Backbones` | the backbone threads and their part of the batch manager, in two engines | `smt_parallel.cpp`, `parallel_tactical.cpp` |
| `MCBackbones` | instances for TLC | |
| `BackbonesProofs` | the proofs | |
| `VectorPool` | the ring buffer of clauses, its writers and readers | `sat_parallel.cpp` |
| `LossyLog` | what the buffer promises to the solvers | |
| `MCVectorPool` | instance for TLC | |
| `VectorPoolProofs` | the proofs | |

`ParallelSmt` extends `SearchTree` and applies its operators inside its own
steps, in the way the batch manager calls the tree under its mutex. `ApiCheck`
extends `ResLimit` and has an instance of `OneShot` for its timer: what
`ScopedTimer` is shown to implement is what `ApiCheck` builds on.

### SearchTree and SearchTreeSpec

*A node is its cube.* Two nodes of a tree disagree on the literal where their
paths fork, so the set of the decisions on its path identifies a node: the root
is `{}`, an ancestor is a subset. `tree.lit`, `status`, `core`, `workers`,
and the efforts are the fields of `node<Config>`.

*A formula is the set of its models*, so that "the core C is justified" is "no
model contains C". It is the ground truth that the soundness properties refer
to; the operations never read it.

| operator | code |
|---|---|
| `reset` | `tree::reset` |
| `close`, `close_with_core` | `tree::close`, `tree::close_with_core`: close the subtree, store the core |
| `CanResolve`, `compute_sibling_resolvent`, `find_highest_attach`, `ResolveAt`, `propagate_closure_upward` | the resolution of two closed siblings, repeated towards the root |
| `backtrack` | `tree::backtrack`: find the attachment point of a conflict, close there, resolve upwards |
| `try_split`, `should_split`, `split`, `update_round_max_effort` | `tree::try_split` and the effort accounting, an unsigned modulo `EffortMod` |
| `activate_best_node`, `select_next_node`, `better`, `mark_new_activation`, `dec_active_workers` | selection, lease counting |

Names in the modules follow the code; `PROJECT.json` maps each definition to its
lines. `SearchTreeSpec` has an action per way in which the callers use the tree:
activate the root or the best node, give up on a node (add effort, maybe split),
refute a cube, abandon a closed node, and apply a conflict that was found
elsewhere.

### ParallelSmt

A step is one critical section of the batch manager's mutex together with the
run of the solver that leads to it. Each thread has a location `pc`:

    worker     get -> check -> report -> (enqueue | share ->) get ... done
    minimizer  wait -> minimize -> publish -> wait ... exit

| action | code in `smt_parallel.cpp` |
|---|---|
| `get_cube` | `batch_manager::get_cube` and the loop head of `worker::run` |
| `check_cube`, `check_exhausts`, `check_throws` | `worker::check_cube` and `checkpoint_worker` behind it; the limit runs out; an exception |
| `retry_cube`, `try_split_cube` | the `l_undef` branch: same cube again, or `batch_manager::try_split` |
| `report_unknown`, `report_sat`, `report_unsat`, `backtrack_cube` | the other branches of `worker::run` and the batch manager operations they call |
| `enqueue_core_minimization`, `share_unit` | queueing a core; a unit becomes a global backbone and closes matching nodes |
| `wait_for_core_min_job`, `minimizer_exits`, `minimize_unsat_core`, `minimize_finds_sat`, `publish_minimized_core` | the core minimizer thread |
| `cancel_main` | the caller cancels the main limit: `reslimit::set_cancel` overwrites the counters of the children |
| `get_result` | all threads joined; `get_result` and the end of `operator()` |
| `set_unknown_soft`, `reset_cancel` | the tactic only: an unknown verdict that cancels nobody, and the reset of the main limit before `get_result` |

The tactic and the SMT solver are two copies of one algorithm. `engine` says which
of them runs; it is chosen at the start and never changes.

`lease` is what the batch manager has recorded for a worker, `held` the worker's
local copy; they differ after the batch manager has reacted to a closed node.
`cancel` holds `m_cancel` of each thread's limit: plus one for a lease that is
signaled as closed, plus one when the batch manager stops, and overwritten when
the caller cancels. `asleep` says that the minimizer is blocked in its
condition variable; a notification clears it.

The SMT core is an oracle: a check of a cube ends with a model of formula and
cube if there is one, with a core (a refuted subset of cube and assumptions),
with nothing (conflict limit, or incomplete theory), with an exception, or
because the limit ran out. Learned clauses that workers exchange follow from the
formula and change none of these answers; they are left out, except for units,
which also close nodes.

### Verdict

The promise to the caller: the problem is decided at most once, rightly, with a
core of assumptions; "unknown" may still be improved to sat or unsat, a decision
is never revoked; the caller gets the decision, or `undef` if the solver gave up.
`ParallelSmt` implements it: `Refines` is `Verdict!Spec` with `problem` for
`formula`, `verdict` for `state`, `core` for `unsatCore`.

### Backbones

CDCL workers offer literals that may hold in every model (`candidates`, at most
`MaxCandidates`). The backbone threads, one in each polarity, take them in
batches and go through each batch in chunks:

    thread  wait -> epoch -> candEpoch -> filter -> units -> refine -> ... -> retry -> finish -> cancelBatch -> wait
            refine, probe -> collect | sat | unsat

| action | code in `smt_parallel.cpp` |
|---|---|
| `wait_for_backbone_job` | `batch_manager::wait_for_backbone_job`: leave, sleep in `m_bb_cv`, join the current batch, or take a new one |
| `take_cancel_epoch`, `take_candidate_epoch` | the two counters that `run_batch_mode` reads after it has the batch |
| `filter_candidates`, `take_unit`, `take_chunk` | the head of the loop over chunks |
| `refine`, with `refine_undef`, `refine_sat`, `refine_unsat` | the check of a chunk with the assumptions, and what its core tells |
| `fallback_failed_literal_probe`, `probe_literal` | candidates one by one |
| `collect_global_backbone`, `set_sat`, `set_unsat` | what the thread reports |
| `retry_batch`, `finish_batch`, `cancel_current_backbone_batch` | the retry loop and the end of a batch, which raises `m_bb_cancel_epoch` |
| `check_exhausts`, `check_throws`, `exit_thread` | the limit of the thread runs out, an exception, the end of `safe_run` |
| `collect_backbone_candidates`, `worker_shares_unit`, `worker_reports`, `worker_stops`, `cancel_main` | the environment: CDCL workers and the caller |

`known` is what a thread has asserted in its own context; from this, and not from
all of `backbones`, it reasons. Backbone threads share under one id, `UINT_MAX`, and
ask for clauses of other ids, so that they never get each other's backbones:
`collect_shared_clauses` returns only `units`. The environment may use all backbones.

### VectorPool and LossyLog

`vectors`, `tail`, `heads` and `atEnd` are the fields of `vector_pool`. A vector
takes two cells for its owner and its length and one for each literal; `next`
follows the lengths. A step is one turn of a loop under the mutex: `move_head` is
one turn of the loop over readers and their heads in `begin_add_vector`, `add_vector`
writes the cells, `get_vector` is one turn of the loop of a reader. `log`, `lap` and
`got` are history: all that was shared with its place, how often the tail went
round, and what each reader was given last. `LossyLog` knows the log and how far each
reader is; `VectorPool` implements it.

### ScopedTimer and OneShot

A scope borrows a timer thread from the pool. Its state `slot` has a mutex, which
the scope holds while it is open and the thread waits for with a deadline. A step
is one access to shared state, or one critical section of the mutex `workers`:

    scope   out -> (new | notify) -> in -> spin -> push -> out
    thread  lock -> (blocked | run -> sleep -> (unlock | fire) -> next) -> lock ... ended

`finalize` moves the pool into `cleanup` and tells its threads to exit; `joins`
waits for one of them and deletes its state, which can then be allocated again.
The deadline is not a clock: a thread that waits for its mutex may find the
deadline passed at any time, also when the mutex has just become free. `OneShot`
knows two things, which scopes are alive (`on`) and whose handler was called;
`ScopedTimer` implements it with `on` as the scopes that are not `out`.

### ResLimit and ApiCheck

`ResLimit` has the counter of cancellations, the count, the limit and the stack of
limits, with counts modulo `CountMod` as they are modulo 2^64 in the code. `ApiCheck` is one
`_solver_check` after the other, by one thread, in program order:

    idle -> set_eh -> list -> ctrl_c -> timer -> push -> run
         -> (catch -> catch_set_eh -> catch_inc ->) pop -> close_timer -> close_ctrl_c
         -> (reset_eh -> reason ->) unlist -> destroy -> idle

An exception takes the first detour and returns without the second. The timer,
ctrl-c, `Z3_solver_interrupt` and `Z3_interrupt` run at any time, each as
far as the pointer that it uses is set; `Z3_interrupt` holds `m_mux` over two
steps. `calls_eh` is `cancel_eh::operator()`. The solver is an oracle again: it
counts resources, answers, fails, or notices that the limit is canceled.

## 3. Properties

`SearchTreeSpec`:

- `TypeOK`: types, and on a node that waits for a worker no round is under way:
  `m_round_max_effort` is 0 again. The next activation may happen long after, by another
  worker; what an earlier round left there would be subtracted from an unsigned once more.
- `CoresSound`: the core of a closed node is made of path literals and
  assumptions, and the formula refutes it; for the root this is the verdict.
- `ClosureComplete`: closed subtrees are closed throughout, and an open inner
  node has a child that is not closed.
- `NoModelLost`: each model under the assumptions lies in exactly one leaf,
  which is not closed.
- `ActiveMeansLeased`: a node that is not closed is active exactly while a
  worker is on it.
- `ClosedForever`, `SplitOnce` (action properties): closing is final, also when the
  last worker leaves the node late; a stale worker cannot split a node again.

`ParallelSmt`:

- `Refines`: the solver implements `Verdict`.
- `TypeOK`: types, and a worker that checks a cube or reports on it has the lease on it
  in the batch manager, also when the node is closed under it (`LeaseOK`).
- `LeasesCounted`: the worker counter of each node is the number of leases the
  batch manager holds on it.
- `ClosedLeaseSignaled`: while the search runs, exactly the workers whose node
  is closed have been told.
- `CancelBalanced`: without the caller, the counter of a worker is exactly its
  signaled lease plus the end of the search.
- `CancelHeard`: after the caller cancels, and while a worker goes on, some
  thread that has not ended still has its limit canceled, but for two cases
  (section 8).
- `StopReturns`: once the batch manager has stopped, `operator()` returns: no
  thread sleeps on.
- `CancelStops`: a cancellation by the caller ends the search, unless the tactic has
  given up already, or the cancellation is lost for good (`CancelLost`: every worker has
  ended or is not canceled any more, some node is closed, and the minimizer sleeps;
  section 8).
- `MinimizerReleased`: an unknown verdict, which in the tactic stops nobody, still
  releases the core minimizer.
- `EndStateDecided`, `NotUnreachable`: what the code says cannot happen; see
  section 7.

`Backbones`:

- `TypeOK`: among others the queue is never longer than its limit, and no thread
  asserts what was not shared.
- `BackbonesSound`: what is shared as a backbone holds in every model of the formula
  under the assumptions.
- `VerdictSound`: a verdict of a backbone thread, or of a worker that uses backbones,
  is right.
- `CoreRefuted`: a reported core is refuted by the formula; see section 7.
- `ThreadsEnd`: all threads end when the search is over, or when the caller cancels
  while one of them is awake.
- `CandidatesTaken`: a candidate does not stay in the queue for ever, neither behind a
  batch that both threads work on nor because they sleep.
- `BatchEnds`: a thread comes to the end of each batch.

`VectorPool`:

- `HeadsAligned`: a head stands at the start of a whole vector that was not
  overwritten.
- `Refines`: readers get clauses that others have shared, in order, each at most once.
- `LosesOnlyOverwritten`: a reader skips only what was overwritten, unless it was
  exactly a lap behind.
- `MutexReleased`: the loops under the mutex end.

`ScopedTimer`:

- `OwnedOnce`: a state belongs to one scope, to the pool or to one `finalize`, and
  its thread is alive while a scope or the pool has it.
- `ReadyToReuse`: a thread in the pool has let go of its last scope, so that the
  next constructor never waits for its mutex while it holds `workers`.
- `Refines`: the handler is called at most once, and only within the scope.
- `DestructorReturns`, `TimerExpires`, `FinalizeReturns`: nobody hangs, and no
  timeout is lost.

`ApiCheck`:

- `HandlersAlive`: whoever can still call the handler finds it alive.
- `LimitRestored`: after a check the limit is as before it.
- `CancelReported`: a canceled check says by whom, and neither it nor an exhausted
  budget is an error.
- `CancelEnds`: a check whose limit is canceled returns.

## 4. Runs

| run | instance | what it shows |
|---|---|---|
| `search_tree` | 3 atoms, split on 2, depth 2, one assumption, 2 workers; 169k states | all properties of the tree |
| `parallel_smt` | 3 workers, depth 1, an assumption, units, both engines, every outcome of a check, a cancellation; 590k states | lease counting, the cancellation is heard, refinement |
| `parallel_smt_minimize` | 3 workers and the core minimizer, depth 2; 764k states | late cores: signals and counters stay balanced; refinement |
| `parallel_smt_live` | 2 workers and the minimizer, depth 1, units, both engines, a cancellation, fair; 103k states | `StopReturns`, `CancelStops`, `MinimizerReleased` |
| `scoped_timer` | 2 scopes, 2 states, fair; 11k states | all properties of the timer |
| `api_check` | budgets 0 and 1, 3 units of work, 2 interrupts, fair; 43k states | all properties of the check |
| `vector_pool` | 2 solvers, 9 cells, vectors of 4 and 5 cells, 5 clauses, fair; 136k states | all properties of the buffer |
| `backbones` | 2 threads, 2 batches of one candidate, an assumption, three formulas (the candidate follows from the assumption; the assumption is refuted; the candidate is refuted), the SMT solver, every outcome of a check; 1.2M states | backbones and verdicts are sound |
| `backbones_live` | 2 threads, two candidates (one is a backbone under the assumption, one is none) in one batch or in two, chunks of 1, two offers, the tactic, a cancellation, fair; 356k states | `ThreadsEnd`, `CandidatesTaken`, `BatchEnds` |

Three further runs show that the code does not do what one of its comments or
its documentation says; see section 7.

Three larger instances were checked once, without an error: `parallel_smt` with two
workers on trees of depth 2 over two atoms (6.2M states); `backbones` with a candidate
and its negation and a queue of one, which is then full (3.3M states); and
`backbones_live` with a queue and batches of one candidate, so that a second candidate takes
the place of the first, in both engines and with limits that run out (789k states).

**Bounds.** The bounds are constants, set in the `.cfg` files. Depth 2 is the
least depth at which a resolvent can climb to a node with a sibling of its own
and at which a conflict has an attachment point that is neither the root nor the
node; three atoms let an assumption be apart from the decisions. Two workers are
the least number for a stale report, three for a report that meets two others on
different nodes. The code starts the minimizer only with three workers or more;
the liveness run has it with two, which leaves out no wait of the minimizer and adds
none. `EffortMod` 2 with effort 1 lets the effort of a node
wrap after two rounds, as an unsigned does after many. `MaxCancel` 1: `set_cancel` is idempotent
for the children. Two scopes and two states are the least number with which a
thread changes hands, `finalize` stops one thread while another is in use, and
states are allocated anew. Two interrupts in a context let one be left over from
before a check and one come into it; `CountMod` 8 leaves room above the work of
3 units, so that a count does not wrap: 2^64 resources are never used up. A buffer
of 9 cells holds one or two vectors, so that five clauses lap it twice, cross its end
and overtake a reader in the middle. Two backbone threads are what the code starts;
two candidates and chunks of one make a batch with several rounds, a growing chunk
and a fallback, and two offers make a candidate wait behind a running batch, which the
retry loop sees as new, and then a second batch while a thread may still be busy with
the first. `MaxWork` bounds the candidates in the queue and in the last batch together: with 2
there are both candidates in one batch, or one in the batch and one behind it. Safety runs of `ParallelSmt` use the symmetry of the workers,
and the run of the tree that of its two split atoms, which its formulas do not tell apart;
runs with liveness properties use none.

**Deadlock.** The tree may stop: its callers stop when it is closed, so its runs
do not check deadlock. `ParallelSmt` checks deadlock in every passing run; the
only state without a successor other than itself is the one after `operator()`
has returned (`Terminated`). All other passing runs look for deadlocks too.

**Fairness.** `FairSpec` asks that a thread which can take a step eventually does
(weak fairness for each thread), and the same for the caller's thread, which
joins the others. The operating system schedules each thread, each critical
section is finite, and a check ends: it has a conflict budget and tests its limit.
A thread that sleeps on a condition variable has no step, so that a missing
notification is not repaired by fairness. Nothing is assumed about the *results*
of checks: a cube may be given up for ever.

`Proceeds` states this fairness on `pc` alone, which keeps the check cheap. It is
the fairness of the thread's steps because every thread that is awake and has not
ended has a step in every reachable state.

In `ScopedTimer` each thread runs and time passes; a blocked thread has no step and
spurious wake-ups are not relied on; when, and whether, a scope closes is up to its
owner. In `ApiCheck` the thread of the check and the one in `Z3_interrupt` run,
and the solver looks at its limit again and again (`solver_stops`). Whether it decides, fails
or is stopped is left open. In `VectorPool` the thread that holds the mutex goes on;
nobody has to share or read. In `Backbones` each backbone thread goes on and checks
end; of the CDCL workers nothing is assumed: they need not offer, share or conclude
anything, nor notice that the main limit is canceled. The fairness is again written
without `ENABLED`, with `CanStep` and `Steps`; that these are "a step of the thread is
enabled" and "the thread takes a step" was checked on the instances of both passing runs.

## 5. Proofs

`tlapm M.tla` checks the proofs of module `M`. In the large modules a leaf goes to
Zenon unless it names SMT, mostly where there is arithmetic or a sequence: tlapm
encodes each SMT leaf within a fixed time, and needs longer the more it has encoded
before in the module.

The theorems of `SearchTreeProofs` hold for every set of atoms, finite set of
assumptions, set of formulas, depth, effort bound and number of workers, from
`ConstantsAssumption` alone: `TypeCorrect`, `CoresAlwaysSound`,
`ClosureAlwaysComplete`, `NoModelEverLost`,
`ActiveAlwaysMeansLeased` (invariants) and `ClosedStaysClosed`,
`SplitAtMostOnce` (action properties).

None of the invariants is inductive by itself. Whether a resolvent is sound
depends on the shape of the tree, and where it is attached depends on which
nodes are closed. The inductive invariant is

    IInv == TypeOK /\ Good(tree, formula) /\ Settled(tree, Root) /\ Leased(tree)

- `Shape`: paths are consistent, two paths fork on a literal and its negation,
  each literal of a path is the decision of a node on it, parents and siblings
  exist. It makes a node the same thing as its cube, and gives "a subset of two
  sibling cores without the decided literal is refuted".
- `DownClosed`, `CoresOK`: the closure of subtrees and the soundness of cores.
- `EmptyOK`: an empty core only exists when the root is closed. `close_with_core`
  with an empty core closes the root; a resolvent could otherwise be empty and
  leave the root open.
- `Settled(t, c)`: closure has been propagated everywhere but, perhaps, to the
  parent of `c`. Between steps it holds for the root, which has no parent; inside
  `backtrack` it holds for the node at which the climb has arrived.
- `Leased`: status and counter agree. The part of `TypeOK` on rounds (`RoundsOver`) needs
  it: that the round is reset when the counter of a node falls to 0 only helps if a
  node with workers is never open.

The argument, module by module:

1. `SearchTreeLemmas`: a new tree is `Good`; closing a node, one resolution and one
   step of the climb keep it so. The climb is a recursive function in the model, as a
   loop is in the code; what it computes is reached by a least-counterexample
   argument over the depth, since induction schemas over operators are out of the
   prover's reach.
   `backtrack` then keeps `Good`, restores `Settled`, and closes nodes without touching
   those that are closed. `try_split`, activation and release keep the invariant too; a
   split adds two leaves that divide the models of their parent.
2. `SearchTreeProofs`: `Init => IInv`, one step per action, the theorems.
   `NoModelLost` follows from `Shape`, `CoresOK` and `Settled`: descend from the
   root along the literals of the model; the leaf reached is unique and cannot be
   closed, because its core would be refuted and satisfied.

`ParallelSmtProofs` proves, for any finite set of workers, with or without the core
minimizer and the sharing of units, in both engines, for any formula, set of
assumptions, depth and number of cancellations, from `ThreadsAssumption` and
`ConstantsAssumption`: `SolverTypes`, `LeasesAlwaysCounted`, `ClosedLeasesSignaled`,
`CancelAlwaysBalanced`, `CancelAlwaysHeard` and `SolverKeepsPromise`, the refinement of
`Verdict`. `ParallelSmtLemmas` has the invariant, the critical sections and the worker steps
that close no node; the steps that close nodes, the minimizer and the theorems are in
`ParallelSmtProofs`. Both use the lemmas on the tree, since each critical section applies operations
of the tree. The inductive invariant `IInv` has these parts:

- `Leases`: the tree is `Good`, `Settled` and `Leased` as above, and the worker counter of
  a node is the number of leases on it. While the search runs, the root is open
  and exactly the leases on closed nodes are signaled (`Signals`).
- `LeaseOK`, part of `TypeOK`: a worker that checks or reports a cube has the lease on it,
  and one that asks for a cube has none. Without it a worker could give back a lease that was
  counted for another node.
- `ResultOK`, `JobsOK`: an answer that a worker is about to report is right, and so is each
  core in the queue of the minimizer and the one it works on, although the tree may
  have changed since.
- `CancelBalanced`, and that a minimizer which leaves its loop is canceled and that nobody
  runs when the result is read (`ExitOK`, `EndOK`).

There are some twenty kinds of steps and as many facts to keep, so the proof goes through a
summary: `Step(x)` says in the terms of the invariants what a thread may do to what it
shares. The nodes of the tree stay and the leases stay counted (`Manage`); a counter
changes by one for a lease that is signaled or given back, and all go up
when the search stops (`Paid`); a decision is right and replaces none but
"unknown" (`Verdicts`); who may stop the search (`Stops`). One lemma per action shows that
it is a `Step`; one lemma each shows that a `Step` keeps `IInv`, keeps `HeardInv`, and is a
step of `Verdict` or a stutter. The order in which a core closes several branches is a
loop over targets (`BacktrackTargets`), a recursive function in the model; its effect
is again reached by a least-counterexample argument, over the number of targets.

`HeardInv` is what `CancelHeard` needs beyond `IInv`. Each counter is at least what its
lease owes; the core minimizer, which has no lease, keeps what the caller gave it; and
without a minimizer some worker has more than it owes, since whoever signals
other workers is not signaled itself. A thread that finds itself canceled for another
reason than its lease calls `set_canceled`, after which all workers have more
than they owe.

`ScopedTimerProofs` proves, for any sets of scopes and states, `TimerTypes`, `StatesOwnedOnce`,
`AlwaysReadyToReuse` and `ImplementsOneShot`, from `SlotsAssumption` alone. The
inductive invariant adds to the two properties what ties the locations of a scope
and of its thread together: an unowned state has no thread (`Accounted`); a scope
has a state exactly from when it takes it until it returns it, and its handler was not called
before that (`HasSlot`); the state of a scope holds its handler, and work, mutex and thread
fit where the scope is (`Served`), in particular a thread that is about to call
the handler belongs to a scope that is still open and whose handler was not
called; a state in `cleanup` is exiting (`Finalized`). For the refinement each step
of `ScopedTimer` is an `Open`, a `Fire`, a `Close` or a stutter.

`ApiCheckProofs` proves `CheckTypes`, `HandlersAlwaysAlive`, `LimitAlwaysRestored` and
`CancelAlwaysReported` for every budget, amount of work and number of interrupts, from
`ApiCheckAssumption` and `CountModAssumption`: the count of resources does not come to its
end, which is 2^64. Its invariant says where the handler is registered at each place of the
check (`Registered`), what is on the stack of limits (`Budget`), and three things that
tie the interrupts to the check: the counter of cancellations is at most the calls of
`Z3_interrupt` plus one for the handler (`Counted`); a limit that is canceled during
a check comes with a call of the handler, since `Z3_interrupt` holds `m_mux` between the
two and so no handler can be listed in between (`Called`); what the check
remembers of its end fits who has called (`Explained`).

`VectorPoolProofs` proves `PoolTypes`, `HeadsAlwaysAligned`, `PoolRefines` and the action
property `OnlyOverwrittenLost` for every
size of the buffer, set of solvers and set of clauses, from `PoolAssumption` (the
buffer has room for the longest vector). That a head is aligned follows
only from how vectors lie in the ring. The inductive invariant says: entries of
one lap are in order and do not overlap (`Ordered`), those of the current lap are before
the tail (`BeforeTail`), each begins where the one before it ends (`Chained`), the
cells of an entry that the tail has not come round to are as they were written
(`Intact`), and a head is at such an entry or at the tail (`HeadsLive`). Then following
the length in a cell leads from live entry to live entry, and writing a vector can
only kill entries from which `begin_add_vector` has moved all heads. For the
refinement, the position of a reader in the log is the entry at which its head stands,
which is unique because live entries do not overlap. What a reader loses follows from
where each step takes that position: `move_head` takes it past one entry, at which
the new vector will be written; all other steps of a writer leave it alone, unless the
head is at the tail.

`BackbonesProofs` proves `BackbonesTypes`, `BackbonesAreSound` and `VerdictsAreSound` for
every formula, set of assumptions, number of threads, batch and chunk size and
schedule, from `BackbonesAssumption` (finitely many atoms, sizes that are not 0).
A thread reports a backbone or a verdict in a later step than the check that found
it, when other threads may have changed everything else; so the invariant adds
(`Pending`) that what a thread is about to report is right. It is right since the
thread reasons from backbones that hold under the assumptions (`known` is a subset of
`backbones`): a core with one literal `a` beside the assumptions refutes `a` in every
model of formula, assumptions and backbones, which are all models under the
assumptions. The same argument shows what is not true: it gives no core
(`CoreRefuted`, section 7).

## 6. What is only model-checked

- Liveness (`StopReturns`, `CancelStops`, `MinimizerReleased`, the three of the timer
  and of the backbones, `CancelEnds`, `MutexReleased`): liveness under fairness is out
  of the prover's reach.
- Freedom from deadlock, and that `Proceeds`, `CanStep` and `Steps` are the fairness of the
  threads' steps: these are about which steps are enabled.

## 7. Where the code and its own statements differ

- `smt_parallel.cpp:1321` compares literals of two AST managers by pointer when it
  asks whether a minimized core consists of assumptions. The intended branch is
  never taken, and such a core ends in the `UNREACHABLE` of `tree::backtrack`
  (`parallel_smt_assumption_core`).
- `parallel_tactical.cpp:2084` resets the cancellation of the main limit before
  `get_result` asks for it. A search that the caller has canceled ends with "par2:
  inconsistent end state" and not, as the comment in `get_result` says, with undef
  (`parallel_tactic_cancel`).
- `smt_parallel.cpp:465` shares what a backbone thread has found under the assumptions
  as if it followed from the formula. Verdicts stay right, but the unsat core that the
  caller gets may lack assumptions: it need not be unsatisfiable with the formula
  (`backbones_core`). In the run, `r => p` and `q => ~p` are checked under `q` and `r`:
  a backbone thread learns `p` from `r`, and a worker then reports the core `{q}`.

## 8. Observations

Met while modelling. No run states them as a property, for the reasons given.

- *A cancellation by the caller can get lost* in the parallel solvers. `set_cancel`
  of the main limit sets the counter of each child, and `dec_cancel` for a closed lease
  counts it down again. As long as some thread notices in time, it stops all others
  with `set_canceled`; but that does nothing when the verdict is "unknown" already,
  which in the tactic does not end the search, or after a worker has run out of
  resources. `CancelHeard` holds in all other cases. In one of them the thread that still
  has the cancellation is the core minimizer: its last core has closed the leases
  of all workers, each of which has taken its part of the cancellation for the
  signal of its lease, and the minimizer sleeps in `m_core_min_cv`
  (`smt_parallel.cpp:1232-1253`) until a worker queues a core or the search ends.
  `CancelStops` leaves out this case, by what it looks like from then on (`CancelLost`),
  and the tactic with an "unknown" verdict. The same wait is in the backbone threads:
  when all of them sleep in `m_bb_cv`, the caller's cancellation wakes none, and they
  depend on a worker to pass it on, which is why `ThreadsEnd` asks for one that is awake.
- *A worker that runs out of resources* ends the search without a verdict, and
  `get_result` of the SMT solver then throws "inconsistent end state"
  (`smt_parallel.cpp:1824`); the comment above it takes this for the case that all cubes
  are unsat.
- *An early stop of a check* is lost: `scoped_rlimit` resets the counter of
  cancellations (`rlimit.cpp:58`) after the handler was registered and the timer
  started (`api_solver.cpp:707-714`). The handler ignores later calls, so the check
  runs on.
- `search_tree.h:357-358` says that closed nodes may still accept a stronger core.
  `close` returns at once on a closed node (line 342), so that the stronger core is dropped
  there. No property depends on which of the two happens: `CoresSound` asks that
  the core which is kept is right.
- `search_tree.h:474-486` asserts that all literals of a conflict are on the path.
  Workers pass cores that hold assumptions too (`smt_parallel.cpp:852`). The
  assertion can fail in debug builds; the release build handles such cores.
- *Batches of backbone candidates* are canceled by an epoch that a thread reads after
  it has taken the batch (`smt_parallel.cpp:278`), and that the finisher compares before
  it takes the lock to raise it (line 522). A late finisher can thus cancel the next
  batch, and a thread can start a new batch while another is still on the previous
  one, unlike the comment at line 1650. This costs work, not correctness.

## 9. What is not modelled

- In the parallel solvers: the local-search worker, which this version never starts;
  the exchange of clauses other than units; statistics, logging and parameters; which
  atom is selected for a split (any atom of `SplitAtom` that is not on the path), and
  which candidates are ranked first; `run_failed_literal_mode`, which is dead code.
- The composition of `Backbones` with `ParallelSmt`. Each is the environment of the other
  in a simplified form: the product of their states is out of TLC's reach, and what the
  one needs of the other (units, backbones, verdicts, cancellation) is in both modules.
- In the parallel tactic: how goals, models and proofs are translated.
- In the resource limits: suspension, and counts in a tree of limits. In
  `ParallelSmt` a limit that runs out is the outcome "exhausted" of a check.
- In the SAT exchange: the list of units, which only grows under one lock, and the copy
  of phases for local search.
- Which thread runs the signal handler of ctrl-c: `on_ctrl_c` is a step of its own
  in `ApiCheck`. Several solvers of one context that check at the same time.
- `POLLING_TIMER`, the variant of the timer for builds without threads.
- The combined solver and the `par` tactic: one lock and one flag around sequential
  solvers; what can go wrong there is in the limits and timers that they use.
- The solver cores, arithmetic, terms and rewriting, the fixedpoint, optimization
  and quantifier engines and the front ends: sequential code on unbounded data,
  where a model of states and steps adds nothing, or nothing small enough for TLC.
  This is more than 99% of the lines of the repository: of about 690,000 lines, the
  concurrency layer is a few thousand. A map of a third of the code is therefore
  out of reach for models of this kind; within the concurrency layer, most of the
  code that changes shared state is mapped.

------------------------------ MODULE Backbones -----------------------------
(***************************************************************************)
(* The backbone threads of the parallel solvers (smt/smt_parallel.cpp, and   *)
(* again in solver/parallel_tactical.cpp) and the part of the batch manager  *)
(* that serves them.                                                         *)
(*                                                                         *)
(* CDCL workers propose literals that may hold in every model.  A backbone   *)
(* thread takes them in batches, assumes chunks of a batch (or of its        *)
(* negation) beside the assumptions of the check, and reads backbones off    *)
(* the unsat cores; what a chunk leaves open it probes one by one.  Threads  *)
(* work on the same batch, one in each polarity: the first to finish cancels *)
(* the batch for the others by an epoch counter.                             *)
(*                                                                         *)
(* A step is one critical section of the batch manager's mutex with the      *)
(* check that leads to it.  Lists of candidates are sets, and the ranking    *)
(* that orders them is a choice.  The CDCL workers are the environment: what *)
(* they propose, share and conclude, with all the backbones at hand.         *)
(***************************************************************************)
EXTENDS Integers, FiniteSets, FiniteSetsExt

CONSTANTS Atom,           \* the atoms of the formula
          Asms,           \* the assumptions of the check
          Formulas,       \* the formulas to solve, each the set of its models
          Proposed,       \* the literals that workers may offer as candidates
          Engine,         \* the engines: "smt", "tactic"
          Negated,        \* the backbone threads in mode bb_negated
          Positive,       \* the backbone threads in mode bb_positive
          MaxCandidates,  \* m_max_global_bb_candidates
          BatchSize,      \* m_bb_batch_size
          ChunkSize,      \* m_bb_chunk_size
          Outcome,        \* how a check can end beside "true" and "false"
          MaxOffers,      \* bound: how often the queue of candidates changes
          MaxWork,        \* bound: the candidates in the queue and in the last batch
          MaxCancel       \* bound: how often the caller cancels

Thread == Negated \cup Positive
Lit == Atom \X BOOLEAN
Neg(l) == <<l[1], ~l[2]>>

\* An assignment is the set of the literals it makes true.
Assignment == {M \in SUBSET Lit : \A l \in Lit : (Neg(l) \in M) = (l \notin M)}

ASSUME BackbonesAssumption ==
    /\ IsFiniteSet(Atom)
    /\ Asms \subseteq Lit /\ Proposed \subseteq Lit /\ Formulas \subseteq SUBSET Assignment
    /\ Engine \subseteq {"smt", "tactic"}
    /\ MaxCandidates \in Nat \ {0} /\ BatchSize \in Nat \ {0} /\ ChunkSize \in Nat \ {0}
    /\ Outcome \subseteq {"undef", "exception", "exhausted"}
    /\ MaxOffers \in Nat /\ MaxWork \in Nat /\ MaxCancel \in Nat

VARIABLES
    formula,      \* the models of the formula; never changes
    engine,       \* smt_parallel.cpp or parallel_tactical.cpp; never changes
    state,        \* m_state
    core,         \* the unsat core left in the main context
    canceled,     \* m_canceled: cancel_background_threads has run
    main,         \* the cancellations of the main limit
    stopped,      \* the backbone threads whose limit is canceled
    backbones,    \* m_global_backbones
    units,        \* those of them that CDCL workers have shared
    candidates,   \* m_bb_candidates
    candEpoch,    \* m_bb_candidate_epoch
    batch,        \* m_bb_current_batch
    batchId,      \* m_bb_batch_id
    last,         \* m_bb_last_batch_processed
    cancelEpoch,  \* m_bb_cancel_epoch
    sleeping,     \* the threads blocked in m_bb_cv
    known,        \* the backbones each thread has asserted in its context
    pc,           \* where each thread is
    loc           \* the local variables of each thread

problem == <<formula, engine>>
verdict == <<state, core, canceled>>
limits == <<main, stopped>>
shared == <<backbones, units>>
queue == <<candidates, candEpoch>>
batches == <<batch, batchId, last, cancelEpoch>>
vars == <<problem, verdict, limits, shared, queue, batches, sleeping, known, pc, loc>>

Location == {"wait", "epoch", "candEpoch", "filter", "units", "refine", "probe", "retry",
             "finish", "cancelBatch", "collect", "sat", "unsat", "exit", "done"}

\* The locals of run_batch_mode.  The last four are what the thread is about to
\* report: a backbone, whether it asserts one that is not new, a core, and where
\* it goes on then.
Fresh == [batch |-> {}, lits |-> {}, chunk |-> {}, size |-> 0, asms |-> {}, delta |-> 1,
          todo |-> {}, retry |-> FALSE, progress |-> FALSE, epoch |-> 0, cand |-> 0,
          found |-> {}, always |-> FALSE, why |-> {}, ret |-> "wait"]

Locals ==
    [batch : SUBSET Lit, lits : SUBSET Lit, chunk : SUBSET Lit, size : Nat, asms : SUBSET Lit,
     delta : Nat, todo : SUBSET Lit, retry : BOOLEAN, progress : BOOLEAN, epoch : Nat, cand : Nat,
     found : SUBSET Lit, always : BOOLEAN, why : SUBSET Lit,
     ret : {"wait", "units", "refine", "probe", "exit"}]

Init ==
    /\ formula \in Formulas /\ engine \in Engine
    /\ state = "running" /\ core = {} /\ canceled = FALSE
    /\ main = 0 /\ stopped = {}
    /\ backbones = {} /\ units = {} /\ candidates = {} /\ candEpoch = 0
    /\ batch = {} /\ batchId = 0 /\ last = [b \in Thread |-> 0] /\ cancelEpoch = 0
    /\ sleeping = {} /\ known = [b \in Thread |-> {}]
    /\ pc = [b \in Thread |-> "wait"] /\ loc = [b \in Thread |-> Fresh]

goto(b, l) == pc' = [pc EXCEPT ![b] = l]
set(b, r) == loc' = [loc EXCEPT ![b] = r]

\* The other threads have finished the batch of b: canceled().
BatchCanceled(b) == loc[b].epoch # cancelEpoch
has_new_backbone_candidates(b) == loc[b].cand # candEpoch
is_global_backbone_or_negation(l) == l \in backbones \/ Neg(l) \in backbones

-----------------------------------------------------------------------------
(* The batch manager.                                                      *)

\* All threads are canceled and woken, the first time.
cancel_background_threads ==
    /\ canceled' = TRUE
    /\ stopped' = IF canceled THEN stopped ELSE Thread
    /\ sleeping' = IF canceled THEN sleeping ELSE {}

\* set_sat, set_unsat and set_exception: s replaces a state in over.
set_state(s, over, C) ==
    IF state \in over
    THEN state' = s /\ core' = C /\ cancel_background_threads
    ELSE UNCHANGED <<verdict, stopped, sleeping>>

set_canceled ==
    /\ IF state = "running" THEN cancel_background_threads
                            ELSE UNCHANGED <<canceled, stopped, sleeping>>
    /\ UNCHANGED <<state, core>>

\* Mutant: the backbone threads are not notified.
set_unknown_Silent ==
    IF engine = "smt" THEN set_state("unknown", {"running"}, core)
    ELSE /\ state' = IF state = "running" THEN "unknown" ELSE state
         /\ UNCHANGED <<core, canceled, stopped, sleeping>>

\* The tactic only wakes the threads that wait for work.
set_unknown ==
    IF engine = "smt" THEN set_state("unknown", {"running"}, core)
    ELSE /\ state' = IF state = "running" THEN "unknown" ELSE state
         /\ sleeping' = IF state = "running" THEN {} ELSE sleeping
         /\ UNCHANGED <<core, canceled, stopped>>

-----------------------------------------------------------------------------
(* The CDCL workers.  What they offer and share when the batch manager has   *)
(* stopped is left out: nobody reads it any more.                            *)

\* Mutant: nobody is told of the new candidates.
collect_backbone_candidates_Silent ==
    /\ candEpoch < MaxOffers /\ ~canceled
    /\ \E S \in SUBSET Proposed :
          LET new == {l \in S : ~is_global_backbone_or_negation(l)}
          IN  candidates' \in kSubset(Min({MaxCandidates, Cardinality(candidates \cup new)}),
                                      candidates \cup new)
    /\ candidates' # candidates /\ Cardinality(candidates') + Cardinality(batch) <= MaxWork
    /\ candEpoch' = candEpoch + 1
    /\ UNCHANGED <<problem, verdict, limits, shared, batches, sleeping, known, pc, loc>>

\* A worker offers candidates.  A full queue keeps the better ones.  A call that
\* leaves the queue as it is, but for the ranks, has no other effect.
collect_backbone_candidates ==
    /\ candEpoch < MaxOffers /\ ~canceled
    /\ \E S \in SUBSET Proposed :
          LET new == {l \in S : ~is_global_backbone_or_negation(l)}
          IN  candidates' \in kSubset(Min({MaxCandidates, Cardinality(candidates \cup new)}),
                                      candidates \cup new)
    /\ candidates' # candidates /\ Cardinality(candidates') + Cardinality(batch) <= MaxWork
    /\ candEpoch' = candEpoch + 1 /\ sleeping' = {}
    /\ UNCHANGED <<problem, verdict, limits, shared, batches, known, pc, loc>>

\* The formula with the literals K asserted refutes C.
Refutes(K, C) == \A M \in formula : ~(K \cup C \subseteq M)

\* A worker has learned a unit at base level.
worker_shares_unit ==
    /\ ~canceled
    /\ \E l \in Lit \ backbones :
          /\ Refutes(backbones, {Neg(l)})
          /\ backbones' = backbones \cup {l} /\ units' = units \cup {l}
    /\ UNCHANGED <<problem, verdict, limits, queue, batches, sleeping, known, pc, loc>>

\* A worker has a model, a core of assumptions (or has closed the tree), or gives
\* up.
worker_reports ==
    /\ \/ /\ \E M \in formula : Asms \subseteq M
          /\ set_state("sat", {"running", "unknown"}, core)
       \/ \E C \in SUBSET Asms :
             Refutes(backbones, C) /\ set_state("unsat", {"running", "unknown"}, C)
       \/ set_unknown
    /\ UNCHANGED <<problem, main, shared, queue, batches, known, pc, loc>>

\* The caller cancels the main limit and with it every thread; nobody is woken.
cancel_main ==
    /\ main < MaxCancel
    /\ main' = main + 1 /\ stopped' = Thread
    /\ UNCHANGED <<problem, verdict, shared, queue, batches, sleeping, known, pc, loc>>

\* A worker finds its limit canceled.
worker_stops ==
    /\ main > 0 /\ ~canceled
    /\ set_canceled
    /\ UNCHANGED <<problem, main, shared, queue, batches, known, pc, loc>>

-----------------------------------------------------------------------------
(* A backbone thread b.                                                    *)

\* run_batch_mode and wait_for_backbone_job.
wait_for_backbone_job(b) ==
    /\ pc[b] = "wait" /\ b \notin sleeping
    /\ IF b \in stopped \/ state # "running"
       THEN goto(b, "exit") /\ UNCHANGED <<candidates, batch, batchId, last, sleeping, loc>>
       ELSE IF last[b] = batchId /\ candidates = {}
       THEN sleeping' = sleeping \cup {b} /\ UNCHANGED <<candidates, batch, batchId, last, pc, loc>>
       ELSE /\ IF last[b] = batchId
               THEN /\ batch' \in kSubset(Min({BatchSize, Cardinality(candidates)}), candidates)
                    /\ candidates' = candidates \ batch'
                    /\ batchId' = batchId + 1
                    /\ sleeping' = {}
               ELSE UNCHANGED <<candidates, batch, batchId, sleeping>>
            /\ last' = [last EXCEPT ![b] = batchId']
            /\ set(b, [Fresh EXCEPT !.batch = batch', !.lits = batch'])
            /\ goto(b, "epoch")
    /\ UNCHANGED <<problem, verdict, limits, shared, candEpoch, cancelEpoch, known>>

\* Backbones that other backbone threads share have the same source, UINT_MAX,
\* as this thread asks for, and are not returned to it.
collect_shared_clauses(b) == known' = [known EXCEPT ![b] = @ \cup units]

take_cancel_epoch(b) ==
    /\ pc[b] = "epoch"
    /\ collect_shared_clauses(b)
    /\ set(b, [loc[b] EXCEPT !.epoch = cancelEpoch]) /\ goto(b, "candEpoch")
    /\ UNCHANGED <<problem, verdict, limits, shared, queue, batches, sleeping>>

take_candidate_epoch(b) ==
    /\ pc[b] = "candEpoch"
    /\ set(b, [loc[b] EXCEPT !.cand = candEpoch]) /\ goto(b, "filter")
    /\ UNCHANGED <<problem, verdict, limits, shared, queue, batches, sleeping, known>>

\* The head of the loop over the chunks.
filter_candidates(b) ==
    /\ pc[b] = "filter"
    /\ IF loc[b].lits = {} \/ BatchCanceled(b) \/ b \in stopped
       THEN goto(b, "retry") /\ UNCHANGED loc
       ELSE /\ set(b, [loc[b] EXCEPT !.lits = {l \in @ : ~is_global_backbone_or_negation(l)}])
            /\ goto(b, "units")
    /\ UNCHANGED <<problem, verdict, limits, shared, queue, batches, sleeping, known>>

\* The units of b's context over the atom of l.
UnitBackbones(b, l) == {u \in {l, Neg(l)} : Refutes(known[b], {Neg(u)})}

\* r without what the last chunk has left behind.
Cleared(r) == [r EXCEPT !.chunk = {}, !.size = 0, !.asms = {}, !.todo = {}, !.retry = FALSE,
                        !.progress = FALSE]

\* The context of b has assigned a candidate at base level.
take_unit(b) ==
    /\ pc[b] = "units"
    /\ \E l \in loc[b].lits : \E u \in UnitBackbones(b, l) :
          set(b, [loc[b] EXCEPT !.lits = @ \ {l}, !.found = {u}, !.ret = "units"])
    /\ goto(b, "collect")
    /\ UNCHANGED <<problem, verdict, limits, shared, queue, batches, sleeping, known>>

\* The assumption for a candidate.
Assumed(b, l) == IF b \in Negated THEN Neg(l) ELSE l

\* The chunks of n candidates, or fewer: at most one polarity per atom.
Chunks(lits, n) ==
    LET atoms == {l[1] : l \in lits}
    IN  {S \in SUBSET lits : /\ \A l \in S : Neg(l) \notin S
                             /\ Cardinality(S) = Min({n, Cardinality(atoms)})}

take_chunk(b) ==
    LET n == Min({ChunkSize * loc[b].delta, Cardinality(loc[b].lits)})
    IN  /\ pc[b] = "units"
        /\ \E S \in Chunks(loc[b].lits, n) :
              set(b, [loc[b] EXCEPT !.chunk = S, !.size = n, !.asms = {Assumed(b, l) : l \in S}])
        /\ collect_shared_clauses(b) /\ goto(b, "refine")
        /\ UNCHANGED <<problem, verdict, limits, shared, queue, batches, sleeping>>

\* What the context of b may answer, with A assumed beside the assumptions.
HasModel(b, A) == \E M \in formula : known[b] \cup Asms \cup A \subseteq M
Cores(b, A) == {C \in SUBSET (Asms \cup A) : Refutes(known[b], C)}

\* r with the chunk set up for fallback_failed_literal_probe.
Fallback(r) == [Cleared(r) EXCEPT !.todo = r.chunk \cap r.lits, !.delta = 1]

\* A check of the chunk that decides nothing: a bigger chunk, or one by one.
refine_undef(b) ==
    /\ "undef" \in Outcome
    /\ IF loc[b].size < Cardinality(loc[b].lits)
       THEN set(b, [Cleared(loc[b]) EXCEPT !.delta = @ + 1]) /\ goto(b, "filter")
       ELSE set(b, Fallback(loc[b])) /\ goto(b, "probe")

refine_sat(b) ==
    /\ HasModel(b, loc[b].asms)
    /\ set(b, [loc[b] EXCEPT !.ret = "exit"]) /\ goto(b, "sat")

\* Mutant: the candidate is shared whichever polarity of it was assumed.
refine_unsat_Candidate(b) ==
    \E C \in Cores(b, loc[b].asms) :
        LET D == C \cap loc[b].asms
            left == loc[b].asms \ D
            hit == {l \in loc[b].chunk : Assumed(b, l) \in D}
            r0 == [loc[b] EXCEPT !.asms = left, !.lits = @ \ hit, !.delta = 1]
            r == IF left = {} THEN Fallback(r0) ELSE r0
        IN  /\ Cardinality(D) = 1
            /\ set(b, [r EXCEPT !.found = hit, !.ret = IF left = {} THEN "probe" ELSE "refine"])
            /\ goto(b, "collect")

\* The core tells: unsat; a backbone; or which assumptions to leave out.
refine_unsat(b) ==
    \E C \in Cores(b, loc[b].asms) :
        LET D == C \cap loc[b].asms
            left == loc[b].asms \ D
            hit == IF Cardinality(D) = 1 THEN {l \in loc[b].chunk : Assumed(b, l) \in D} ELSE {}
            r0 == [loc[b] EXCEPT !.asms = left, !.lits = @ \ hit, !.delta = 1]
            r == IF left = {} THEN Fallback(r0) ELSE r0
            next == IF left = {} THEN "probe" ELSE "refine"
        IN  IF D = {}
            THEN set(b, [loc[b] EXCEPT !.why = C, !.ret = "exit"]) /\ goto(b, "unsat")
            ELSE IF Cardinality(D) = 1
            THEN /\ set(b, [r EXCEPT !.found = {Neg(a) : a \in D}, !.ret = next])
                 /\ goto(b, "collect")
            ELSE set(b, r) /\ goto(b, next)

\* A canceled limit is seen before the check, or after it.
refine(b) ==
    /\ pc[b] = "refine"
    /\ IF b \in stopped
       THEN (goto(b, "exit") \/ goto(b, "filter")) /\ set(b, Cleared(loc[b]))
       ELSE IF BatchCanceled(b) THEN goto(b, "filter") /\ set(b, Cleared(loc[b]))
       ELSE refine_undef(b) \/ refine_sat(b) \/ refine_unsat(b)
    /\ UNCHANGED <<problem, verdict, limits, shared, queue, batches, sleeping, known>>

\* Where fallback_failed_literal_probe returns to.
AfterProbe(b) ==
    IF ~loc[b].retry THEN "filter" ELSE IF loc[b].progress THEN "retry" ELSE "finish"

\* Mutant: the candidate stays in bb_candidate_lits.
Probed_Keeps(b, l) == [loc[b] EXCEPT !.todo = @ \ {l}]

\* The candidate l is done with, whatever the probe says.
Probed(b, l) == [loc[b] EXCEPT !.todo = @ \ {l}, !.lits = @ \ {l}]

\* Mutant: the core of a failed probe is not looked at.
probe_literal_AnyCore(b, l) ==
    LET e == Assumed(b, l)
        r == Probed(b, l)
    IN  \/ /\ "undef" \in Outcome /\ set(b, r) /\ UNCHANGED pc
        \/ /\ HasModel(b, {e}) /\ set(b, [r EXCEPT !.ret = "probe"]) /\ goto(b, "sat")
        \/ \E C \in Cores(b, {e}) : set(b, [r EXCEPT !.why = C \ {e}, !.ret = "probe"]) /\ goto(b, "unsat")

probe_literal(b, l) ==
    LET e == Assumed(b, l)
        r == Probed(b, l)
    IN  \/ /\ "undef" \in Outcome /\ set(b, r) /\ UNCHANGED pc
        \/ /\ HasModel(b, {e}) /\ set(b, [r EXCEPT !.ret = "probe"]) /\ goto(b, "sat")
        \/ \E C \in Cores(b, {e}) :
              IF e \in C
              THEN /\ set(b, [r EXCEPT !.found = {Neg(e)}, !.always = TRUE, !.ret = "probe"])
                   /\ goto(b, "collect")
              ELSE set(b, [r EXCEPT !.why = C, !.ret = "probe"]) /\ goto(b, "unsat")

fallback_failed_literal_probe(b) ==
    /\ pc[b] = "probe"
    /\ IF \/ loc[b].todo = {} \/ b \in stopped \/ BatchCanceled(b)
          \/ loc[b].retry /\ has_new_backbone_candidates(b)
       THEN goto(b, AfterProbe(b)) /\ set(b, Cleared(loc[b]))
       ELSE \E l \in loc[b].todo :
              IF is_global_backbone_or_negation(l) THEN set(b, Probed(b, l)) /\ UNCHANGED pc
              ELSE \/ \E u \in UnitBackbones(b, l) :
                         set(b, [Probed(b, l) EXCEPT !.found = {u}, !.ret = "probe"]) /\ goto(b, "collect")
                   \/ probe_literal(b, l)
    /\ UNCHANGED <<problem, verdict, limits, shared, queue, batches, sleeping, known>>

\* The limit of b runs out during a check, which then decides nothing.
check_exhausts(b) ==
    /\ pc[b] \in {"refine", "probe"} /\ "exhausted" \in Outcome
    /\ stopped' = stopped \cup {b}
    /\ UNCHANGED <<problem, verdict, main, shared, queue, batches, sleeping, known, pc, loc>>

\* The check throws; it then decides nothing.
check_throws(b) ==
    /\ pc[b] \in {"refine", "probe"} /\ "exception" \in Outcome /\ b \notin stopped
    /\ set_state("exception", {"running"}, core)
    /\ UNCHANGED <<problem, main, shared, queue, batches, known, pc, loc>>

\* Mutant: the thread keeps the backbone to itself.
collect_global_backbone_Local(b) ==
    /\ pc[b] = "collect"
    /\ known' = [known EXCEPT ![b] = @ \cup loc[b].found]
    /\ set(b, [loc[b] EXCEPT !.found = {}, !.always = FALSE, !.ret = "wait"])
    /\ goto(b, loc[b].ret)
    /\ UNCHANGED <<problem, verdict, limits, shared, queue, batches, sleeping>>

\* collect_global_backbone, and the thread asserts the backbone itself (a unit is
\* in its context already).
collect_global_backbone(b) ==
    LET new == loc[b].found \ backbones
    IN  /\ pc[b] = "collect"
        /\ backbones' = backbones \cup loc[b].found
        /\ known' = IF new # {} \/ loc[b].always
                    THEN [known EXCEPT ![b] = @ \cup loc[b].found] ELSE known
        /\ set(b, [loc[b] EXCEPT !.found = {}, !.always = FALSE, !.ret = "wait",
                                 !.progress = loc[b].retry /\ (@ \/ new # {})])
        /\ goto(b, loc[b].ret)
        /\ UNCHANGED <<problem, verdict, limits, units, queue, batches, sleeping>>

set_sat(b) ==
    /\ pc[b] = "sat"
    /\ set_state("sat", {"running", "unknown"}, core) /\ goto(b, loc[b].ret)
    /\ set(b, [loc[b] EXCEPT !.ret = "wait"])
    /\ UNCHANGED <<problem, main, shared, queue, batches, known>>

set_unsat(b) ==
    /\ pc[b] = "unsat"
    /\ set_state("unsat", {"running", "unknown"}, loc[b].why) /\ goto(b, loc[b].ret)
    /\ set(b, [loc[b] EXCEPT !.why = {}, !.ret = "wait"])
    /\ UNCHANGED <<problem, main, shared, queue, batches, known>>

\* The retry loop, while nothing else is to be done.
retry_batch(b) ==
    LET left == {l \in loc[b].batch : ~is_global_backbone_or_negation(l)}
    IN  /\ pc[b] = "retry"
        /\ IF has_new_backbone_candidates(b) \/ BatchCanceled(b) \/ b \in stopped
           THEN goto(b, "finish") /\ UNCHANGED <<known, loc>>
           ELSE /\ collect_shared_clauses(b)
                /\ set(b, [loc[b] EXCEPT !.lits = left, !.todo = left, !.retry = TRUE,
                                         !.progress = FALSE])
                /\ goto(b, IF left = {} THEN "finish" ELSE "probe")
        /\ UNCHANGED <<problem, verdict, limits, shared, queue, batches, sleeping>>

finish_batch(b) ==
    /\ pc[b] = "finish"
    /\ goto(b, IF BatchCanceled(b) THEN "wait" ELSE "cancelBatch")
    /\ set(b, Fresh)
    /\ UNCHANGED <<problem, verdict, limits, shared, queue, batches, sleeping, known>>

\* The epoch may have changed since it was looked at.
cancel_current_backbone_batch(b) ==
    /\ pc[b] = "cancelBatch"
    /\ cancelEpoch' = cancelEpoch + 1 /\ sleeping' = {} /\ goto(b, "wait")
    /\ UNCHANGED <<problem, verdict, limits, shared, queue, batch, batchId, last, known, loc>>

\* The rest of safe_run.
exit_thread(b) ==
    /\ pc[b] = "exit"
    /\ IF b \in stopped THEN set_canceled ELSE UNCHANGED <<verdict, stopped, sleeping>>
    /\ goto(b, "done") /\ set(b, Fresh)
    /\ UNCHANGED <<problem, main, shared, queue, batches, known>>

ThreadStep(b) ==
    \/ wait_for_backbone_job(b) \/ take_cancel_epoch(b) \/ take_candidate_epoch(b)
    \/ filter_candidates(b) \/ take_unit(b) \/ take_chunk(b)
    \/ refine(b) \/ fallback_failed_literal_probe(b)
    \/ collect_global_backbone(b) \/ set_sat(b) \/ set_unsat(b)
    \/ retry_batch(b) \/ finish_batch(b) \/ cancel_current_backbone_batch(b) \/ exit_thread(b)

CheckFails(b) == check_exhausts(b) \/ check_throws(b)

Environment ==
    \/ collect_backbone_candidates \/ worker_shares_unit \/ worker_reports
    \/ cancel_main \/ worker_stops

Next == Environment \/ \E b \in Thread : ThreadStep(b) \/ CheckFails(b)

Spec == Init /\ [][Next]_vars

-----------------------------------------------------------------------------
(* The type invariant: the queue is no longer than its limit, no thread is     *)
(* ahead of the batch manager's counters, and a thread asserts only backbones  *)
(* that it has shared or been given.                                           *)
TypeOK ==
    /\ formula \in Formulas /\ engine \in Engine
    /\ state \in {"running", "sat", "unsat", "unknown", "exception"}
    /\ core \subseteq Lit /\ canceled \in BOOLEAN /\ main \in 0 .. MaxCancel
    /\ stopped \subseteq Thread /\ sleeping \subseteq Thread
    /\ backbones \subseteq Lit /\ units \subseteq backbones
    /\ candidates \subseteq Lit /\ Cardinality(candidates) <= MaxCandidates
    /\ candEpoch \in 0 .. MaxOffers
    /\ batch \subseteq Lit /\ batchId \in Nat /\ cancelEpoch \in Nat
    /\ last \in [Thread -> 0 .. batchId] /\ known \in [Thread -> SUBSET backbones]
    /\ pc \in [Thread -> Location] /\ loc \in [Thread -> Locals]
    /\ \A b \in Thread : loc[b].epoch <= cancelEpoch

\* What is shared as a backbone, from cores of chunks, failed probes and units of
\* contexts that hold earlier backbones, is true in every model of the formula
\* under the assumptions, whichever threads found it and in which order.
BackbonesSound == \A l \in backbones, M \in formula : Asms \subseteq M => l \in M

\* set_sat and set_unsat of a backbone thread or of a worker that uses backbones
\* are right about the formula under all the assumptions.
VerdictSound ==
    /\ state = "sat" => \E M \in formula : Asms \subseteq M
    /\ state = "unsat" => Refutes({}, Asms)

\* The core that set_unsat leaves for the caller, a subset of the assumptions, is
\* itself refuted by the formula.
CoreRefuted == state = "unsat" => core \subseteq Asms /\ Refutes({}, core)

-----------------------------------------------------------------------------
(* Liveness.  Every backbone thread runs and its checks end; nothing is       *)
(* assumed of the workers.                                                   *)

\* A thread can go on unless it has ended or sleeps, and each step of it, and no
\* step of another, moves it, changes its locals or puts it to sleep.
CanStep(b) == pc[b] # "done" /\ ~(pc[b] = "wait" /\ b \in sleeping)
Steps(b) == pc'[b] # pc[b] \/ loc'[b] # loc[b] \/ (b \in sleeping' /\ b \notin sleeping)

\* Weak fairness of ThreadStep(b), written with the above.
Fairness == \A b \in Thread : []<>~CanStep(b) \/ []<><<Steps(b)>>_vars
FairSpec == Spec /\ Fairness

AllDone == \A b \in Thread : pc[b] = "done"

\* When the search is over, every backbone thread ends, also one that sleeps in
\* m_bb_cv: else join() in operator() never returns.  So it does when the caller has
\* canceled the main limit while some backbone thread is awake: cancel() wakes
\* nobody, but that thread passes the cancellation on before it ends.
ThreadsEnd == state # "running" \/ canceled \/ (main > 0 /\ sleeping # Thread) ~> AllDone

\* A candidate in the queue gets into a batch unless a better one takes its place
\* or the threads end, also one that comes while both work on another batch: they
\* do not sleep with work at hand, and no batch keeps all of them busy for ever.
CandidatesTaken ==
    \A l \in Proposed : []<>(l \notin candidates \/ AllDone)

\* A thread comes to the end of each batch: every round over the chunks shrinks
\* the candidates or grows the chunk, and every retry has found a new backbone.
BatchEnds == \A b \in Thread : []<>(pc[b] \in {"wait", "exit", "done"})
=============================================================================

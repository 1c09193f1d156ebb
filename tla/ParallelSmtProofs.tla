-------------------------- MODULE ParallelSmtProofs -------------------------
(***************************************************************************)
(* The invariants of the parallel solver and the promise it keeps, for      *)
(* every set of workers, every formula and every number of cancellations.   *)
(*                                                                         *)
(* The steps that close nodes and those of the core minimizer are Steps too. *)
(* That the invariants are kept, that a cancellation is heard and that       *)
(* Verdict is implemented follows from Step.                                 *)
(***************************************************************************)
EXTENDS ParallelSmtLemmas

\* The leaves that name no prover go to Zenon.
USE ZenonT(30)

-----------------------------------------------------------------------------
(* The steps of a worker that close nodes.                                 *)

(* A core that closes its node, or finds it closed, and other branches.    *)
LEMMA CoreGood ==
  ASSUME NEW F \in Formulas, NEW t, Good(t, F), Settled(t, Root), NEW n \in t.nodes,
         NEW C, C \subseteq n \cup Asms, C \cap n # {}, Refutes(F, C),
         NEW t0 \in {t, backtrack(t, n, C)},
         NEW T \in SUBSET t.nodes, \A m \in T : C \subseteq m,
         NEW u, u = BacktrackTargets(t0, T, C)
  PROVE  Good(u, F) /\ Closes(t, u) /\ Settled(u, Root)
<1>1. Good(t0, F) /\ Closes(t, t0) /\ Settled(t0, Root)
  <2>1. CASE t0 = t
    BY <2>1 DEF Closes
  <2>2. CASE t0 = backtrack(t, n, C)
    BY <2>2, BacktrackGood
  <2> QED BY <2>1, <2>2
<1>2. T \in SUBSET t0.nodes /\ C # {}
  BY <1>1 DEF Closes
<1>3. Good(u, F) /\ Closes(t0, u) /\ Settled(u, Root)
  BY <1>1, <1>2, TargetsGood
<1> QED BY <1>1, <1>3, ClosesTransitive

(* The targets on other branches have the whole core on their path.        *)
LEMMA MatchingTargets ==
  ASSUME NEW t, NEW source, NEW l, NEW C, NEW T, T = collect_matching_targets(t, source, l, C)
  PROVE  T \in SUBSET t.nodes /\ \A m \in T : C \subseteq m
  BY DEF collect_matching_targets

\* x has left the leases ls and the counters cn: it may have given its own lease back.
Hands(x, ls, cn) ==
    /\ \A v \in Worker \ {x} : ls[v] = lease[v] /\ cn[v] = cancel[v]
    /\ \A y \in Thread \ Worker : cn[y] = cancel[y]
    /\ x \in Worker =>
          \/ ls[x] = lease[x] /\ cn[x] = cancel[x]
          \/ ls[x] = NoLease /\ cn[x] = IF lease[x].signaled /\ cancel[x] > 0
                                        THEN cancel[x] - 1 ELSE cancel[x]

(* The steps that close nodes.                                             *)
LEMMA ClosingStep ==
  ASSUME IInv, NEW x \in Thread, state = "running", UNCHANGED <<formula, engine>>,
         NEW t, NEW ls, Leases(t, ls, formula), Signals(t, ls), tree.nodes \subseteq t.nodes,
         NEW u, Good(u, formula), Closes(t, u), Settled(u, Root),
         NEW source, \A w \in source : ls[w].node = NoNode,
         NEW cn \in [Thread -> Nat], Hands(x, ls, cn),
         Closing(u, ls, cn, source)
  PROVE  /\ Manage(x) /\ Paid /\ Verdicts /\ tree.nodes \subseteq tree'.nodes
         /\ state' = state \/ canceled'
         /\ state' = "running" => UNCHANGED canceled
         /\ x \in Worker /\ ls[x].node = NoNode => lease'[x].node = NoNode /\ ~lease'[x].signaled
<1>1. /\ formula \in Formulas /\ canceled \in BOOLEAN /\ asleep \in BOOLEAN /\ unsatCore \subseteq Lit
      /\ \A v \in Worker : lease[v].signaled \in BOOLEAN
  BY DEF IInv, FieldTypes
<1>0. AfterClosing(t, ls, cn, u)
  BY <1>1, ClosingFacts
<1>2. /\ tree' = u /\ u.nodes = t.nodes
      /\ Leases(tree', lease', formula) /\ Signals(tree', lease')
      /\ state' \in {"running", "unsat"}
      /\ state' = "running" => ~ClosedIn(tree', Root) /\ UNCHANGED unsatCore
      /\ state' = "unsat" => unsatCore' \subseteq Asms /\ Unsat(unsatCore') /\ canceled'
      /\ \A w \in Worker : /\ lease'[w].node = ls[w].node
                           /\ ls[w].node = NoNode => lease'[w].signaled = FALSE
      /\ \E dn \in [Thread -> Nat] :
            /\ Counts(dn)
            /\ \A y \in Thread \ Worker : dn[y] = cn[y]
            /\ \A w \in Worker :
                  \/ ~ls[w].signaled /\ lease'[w].signaled /\ dn[w] = cn[w] + 1
                  \/ lease'[w].signaled = ls[w].signaled /\ dn[w] = cn[w]
  BY <1>0 DEF AfterClosing
<1>3. state' = "running" => UNCHANGED canceled
  BY DEF Closing
<1>4. \A v \in Worker \ {x} : lease'[v].node = lease[v].node
  BY <1>2 DEF Hands
<1>5. unsatCore' \subseteq Lit
  BY <1>1, <1>2, ConstantsAssumption
<1>6. Manage(x)
  BY <1>2, <1>4, <1>5 DEF Manage, States
<1>7. Verdicts
  BY <1>2 DEF Verdicts
<1>8. PICK dn \in [Thread -> Nat] :
            /\ Counts(dn)
            /\ \A y \in Thread \ Worker : dn[y] = cn[y]
            /\ \A w \in Worker :
                  \/ ~ls[w].signaled /\ lease'[w].signaled /\ dn[w] = cn[w] + 1
                  \/ lease'[w].signaled = ls[w].signaled /\ dn[w] = cn[w]
  BY <1>2
<1>9. ASSUME NEW v \in Worker
      PROVE  \/ lease'[v].signaled = lease[v].signaled /\ dn[v] = cancel[v]
             \/ ~lease[v].signaled /\ lease'[v].signaled /\ dn[v] = cancel[v] + 1
             \/ /\ lease[v].signaled /\ ~lease'[v].signaled
                /\ dn[v] = IF cancel[v] > 0 THEN cancel[v] - 1 ELSE cancel[v]
  <2>1. CASE ls[v] = lease[v] /\ cn[v] = cancel[v]
    <3>1. \/ ~ls[v].signaled /\ lease'[v].signaled /\ dn[v] = cn[v] + 1
          \/ lease'[v].signaled = ls[v].signaled /\ dn[v] = cn[v]
      BY <1>8
    <3> QED BY <2>1, <3>1
  <2>2. CASE ~(ls[v] = lease[v] /\ cn[v] = cancel[v])
    <3>1. /\ v = x /\ ls[v] = NoLease
          /\ cn[v] = IF lease[v].signaled /\ cancel[v] > 0 THEN cancel[v] - 1 ELSE cancel[v]
      BY <2>2 DEF Hands
    <3>2. NoLease.node = NoNode /\ NoLease.signaled = FALSE
      BY DEF NoLease
    <3>3. lease'[v].signaled = FALSE
      BY <1>2, <3>1, <3>2
    <3>4. ~lease'[v].signaled /\ dn[v] = cn[v]
      BY <1>8, <3>3
    <3>5. CASE lease[v].signaled
      BY <3>1, <3>4, <3>5
    <3>6. CASE ~lease[v].signaled
      <4>1. lease[v].signaled = FALSE
        BY <1>1, <3>6
      <4> QED BY <4>1, <3>1, <3>3, <3>4
    <3> QED BY <3>5, <3>6
  <2> QED BY <2>1, <2>2
<1>10. Pays(dn)
  BY <1>9 DEF Pays
<1>11. \A y \in Thread \ Worker : dn[y] = cancel[y]
  BY <1>8 DEF Hands
<1>12. Paid
  BY <1>8, <1>10, <1>11 DEF Paid
<1>13. tree.nodes \subseteq tree'.nodes /\ (state' = state \/ canceled')
  BY <1>2
<1>14. x \in Worker /\ ls[x].node = NoNode => lease'[x].node = NoNode /\ ~lease'[x].signaled
  BY <1>2
<1> QED BY <1>3, <1>6, <1>7, <1>12, <1>13, <1>14

(* backtrack_cube.                                                         *)
LEMMA BacktrackCube ==
  ASSUME IInv, NEW w \in Worker, backtrack_cube(w)
  PROVE  Step(w)
<1> DEFINE n == held[w]
           C == res[w].core
           targets == IF n = Root THEN {} ELSE collect_matching_targets(tree, n, tree.lit[n], C)
           d == dec_active_workers(tree, n)
           t0 == IF is_lease_canceled(tree, n) THEN d ELSE backtrack(d, n, C)
           t1 == BacktrackTargets(t0, targets, C)
<1>1. /\ pc[w] = "report" /\ res[w].r = "false" /\ ~(C \subseteq Asms)
      /\ UNCHANGED <<problem, formula, engine, main, exhausted, first, jobs, job, backbones, caller>>
      /\ w \in Thread /\ w # minimizer
  BY WorkerThread DEF backtrack_cube, problem
<1>2. /\ FieldTypes /\ LocalTypes /\ Leases(tree, lease, formula)
      /\ state = "running" => ~ClosedIn(tree, Root) /\ Signals(tree, lease)
      /\ exhausted' \subseteq Worker /\ backbones' \subseteq Lit
  BY <1>1 DEF IInv, FieldTypes
<1>3. n \in tree.nodes /\ lease[w].node = n /\ lease[w].signaled \in BOOLEAN
  BY <1>1, CubeLeased
<1>4. C \subseteq n \cup Asms /\ Unsat(C) /\ C \cap n # {}
  BY <1>1 DEF IInv, ResultOK, Refuted
<1>5. \/ state # "running" /\ UNCHANGED <<tree, lease, state, unsatCore, canceled, cancel, asleep>>
      \/ /\ state = "running" /\ is_lease_canceled(tree, n)
         /\ tree' = t0 /\ lease' = Released(w) /\ cancel' = Uncanceled(w)
         /\ UNCHANGED <<state, unsatCore, canceled, asleep>>
      \/ state = "running" /\ Closing(t1, Released(w), Uncanceled(w), {w})
  BY DEF backtrack_cube, manager
<1>6. \/ CoreMinimize /\ pc' = [pc EXCEPT ![w] = "enqueue"] /\ UNCHANGED <<held, res>>
      \/ /\ ~CoreMinimize /\ pc' = [pc EXCEPT ![w] = "share"]
         /\ held' = [held EXCEPT ![w] = NoNode] /\ res' = [res EXCEPT ![w] = NoResult]
  BY DEF backtrack_cube, goto
<1>7. ASSUME tree.nodes \subseteq tree'.nodes, state' = "running" => lease'[w].node = NoNode
      PROVE  Local(w) /\ LeaseOK(w)' /\ ResultOK(w)' /\ pc'[w] # "done"
  <2>1. NoResult \in [r : ResultNames, core : SUBSET Lit]
    BY DEF NoResult, ResultNames
  <2>2. Local(w) /\ pc'[w] \in {"enqueue", "share"}
    <3>1. CASE CoreMinimize
      BY <1>1, <1>6, <1>7, <2>1, <3>1, LocalStep DEF Location
    <3>2. CASE ~CoreMinimize
      BY <1>1, <1>6, <1>7, <2>1, <3>2, LocalStep DEF Location
    <3> QED BY <3>1, <3>2
  <2>3. pc'[w] = "enqueue" => UNCHANGED <<held, res>>
    BY <1>1, <1>2, <1>6 DEF FieldTypes
  <2>4. LeaseOK(w)'
    BY <1>7, <2>2 DEF LeaseOK
  <2>5. ResultOK(w)'
    BY <1>1, <1>3, <1>4, <1>7, <2>2, <2>3 DEF ResultOK, Refuted, Unsat
  <2> QED BY <2>2, <2>4, <2>5
<1>8. CASE state # "running"
  <2>1. UNCHANGED <<tree, lease, state, unsatCore, canceled, cancel, asleep>>
    BY <1>5, <1>8
  <2>2. Counts(cancel) /\ Verdicts /\ state' \in States /\ unsatCore' \subseteq Lit
    BY <1>2, <2>1, SameCounts DEF Verdicts, States, FieldTypes
  <2> HIDE DEF n, C, targets, d, t0, t1
  <2> QED BY <1>1, <1>7, <1>8, <2>1, <2>2, WorkerQuiet
<1>9. ASSUME Manage(w), Paid, Verdicts, tree.nodes \subseteq tree'.nodes,
             state' = state \/ canceled', state' = "running" => UNCHANGED canceled,
             lease'[w].node = NoNode, ~lease'[w].signaled
      PROVE  Step(w)
  <2>1. Local(w) /\ LeaseOK(w)' /\ ResultOK(w)' /\ pc'[w] # "done"
    BY <1>7, <1>9
  <2>2. Stops(w)
    BY <1>9, <2>1 DEF Stops
  <2>3. JobsOK' /\ job' \in Jobs(tree')
    BY <1>1, <1>9, <2>1, JobsKept
  <2> QED BY <1>1, <1>2, <1>9, <2>1, <2>2, <2>3 DEF Step
<1>10. NoLease.node = NoNode /\ NoLease.signaled = FALSE
  BY DEF NoLease
<1>11. CASE /\ state = "running" /\ is_lease_canceled(tree, n)
            /\ tree' = t0 /\ lease' = Released(w) /\ cancel' = Uncanceled(w)
            /\ UNCHANGED <<state, unsatCore, canceled, asleep>>
  <2>1. tree' = dec_active_workers(tree, held[w])
    BY <1>11
  <2>2. /\ Manage(w) /\ Paid /\ tree.nodes \subseteq tree'.nodes
        /\ lease'[w] = NoLease /\ ~lease'[w].signaled
    <3> HIDE DEF C, targets, d, t0, t1
    <3> QED BY <1>1, <1>2, <1>3, <1>11, <2>1, ReturnStep
  <2>3. Verdicts
    BY <1>11 DEF Verdicts
  <2> QED BY <1>9, <1>10, <1>11, <2>2, <2>3
<1>12. CASE state = "running" /\ Closing(t1, Released(w), Uncanceled(w), {w})
  <2>1. d = dec_active_workers(tree, held[w]) /\ t0 \in {d, backtrack(d, n, C)}
    OBVIOUS
  <2>2. targets \in SUBSET tree.nodes /\ \A m \in targets : C \subseteq m
    BY MatchingTargets, SMTT(30)
  <2>3. t1 = BacktrackTargets(t0, targets, C)
    OBVIOUS
  <2> HIDE DEF d, t0, t1, targets
  <2>4. /\ Leases(d, Released(w), formula) /\ Signals(d, Released(w)) /\ ~ClosedIn(d, Root)
        /\ SameClosure(tree, d) /\ tree.nodes \subseteq d.nodes
        /\ \A v \in Worker : Released(w)[v] = IF v = w THEN NoLease ELSE lease[v]
    BY <1>2, <1>3, <1>12, <2>1, LeaseReturned
  <2>5. Good(d, formula) /\ Settled(d, Root) /\ n \in d.nodes /\ targets \in SUBSET d.nodes
    BY <1>3, <2>2, <2>4 DEF Leases
  <2>6. formula \in Formulas /\ Refutes(formula, C)
    BY <1>2, <1>4 DEF FieldTypes, Refutes, Unsat
  <2> HIDE DEF n, C
  <2>7. Good(t1, formula) /\ Closes(d, t1) /\ Settled(t1, Root)
    BY <1>4, <2>1, <2>2, <2>3, <2>5, <2>6, CoreGood, SMTT(30)
  <2>8. /\ Uncanceled(w) \in [Thread -> Nat]
        /\ \A x \in Thread \ {w} : Uncanceled(w)[x] = cancel[x]
        /\ Uncanceled(w)[w] = IF lease[w].signaled /\ cancel[w] > 0 THEN cancel[w] - 1 ELSE cancel[w]
    BY <1>2, UncanceledFacts
  <2>9. Released(w)[w] = NoLease /\ \A v \in Worker \ {w} : Released(w)[v] = lease[v]
    BY <2>4
  <2>10. Hands(w, Released(w), Uncanceled(w))
    <3>1. Worker \subseteq Thread
      BY DEF Thread
    <3> QED BY <2>8, <2>9, <3>1 DEF Hands
  <2>11. Released(w)[w].node = NoNode /\ \A v \in {w} : Released(w)[v].node = NoNode
    BY <1>10, <2>9
  <2>12. /\ Manage(w) /\ Paid /\ Verdicts /\ tree.nodes \subseteq tree'.nodes
         /\ state' = state \/ canceled'
         /\ state' = "running" => UNCHANGED canceled
         /\ lease'[w].node = NoNode /\ ~lease'[w].signaled
    BY <1>1, <1>12, <2>4, <2>7, <2>8, <2>10, <2>11, ClosingStep
  <2> QED BY <1>9, <2>12
<1> QED
  <2> HIDE DEF n, C, targets, d, t0, t1
  <2> QED BY <1>5, <1>8, <1>11, <1>12

(* The jobs after one was added, or taken away.                            *)
LEMMA QueueFacts ==
  ASSUME NEW js, NEW j
  PROVE  /\ DOMAIN push_back(js, j) = DOMAIN js \cup {j}
         /\ DOMAIN detach(js, j) \subseteq DOMAIN js
  BY DEF push_back, detach

(* enqueue_core_minimization: the source is on the path of the cube, and    *)
(* the core is on the path of the source.                                  *)
LEMMA Enqueue ==
  ASSUME IInv, NEW w \in Worker, enqueue_core_minimization(w)
  PROVE  Step(w)
<1> DEFINE source == find_core_source(held[w], res[w].core)
           new == [source |-> source, core |-> res[w].core]
<1>1. /\ pc[w] = "enqueue" /\ pc' = [pc EXCEPT ![w] = "share"]
      /\ held' = [held EXCEPT ![w] = NoNode] /\ res' = [res EXCEPT ![w] = NoResult]
      /\ UNCHANGED <<problem, formula, engine, tree, lease, state, unsatCore, canceled, main, cancel, exhausted>>
      /\ UNCHANGED <<first, job, backbones, caller>>
      /\ w \in Thread /\ w # minimizer
  BY WorkerThread DEF enqueue_core_minimization, goto, manager, limits, problem
<1>2. /\ FieldTypes /\ LocalTypes /\ LeaseOK(w) /\ JobsOK /\ Good(tree, formula)
      /\ exhausted' \subseteq Worker /\ backbones' \subseteq Lit
  BY <1>1 DEF IInv, FieldTypes, Leases
<1>3. \/ UNCHANGED <<jobs, asleep>>
      \/ state = "running" /\ source # NoNode /\ jobs' = push_back(jobs, new) /\ asleep' = FALSE
  BY DEF enqueue_core_minimization
<1>4. Refuted(held[w], res[w].core) /\ res[w].core \subseteq Lit
  BY <1>1 DEF IInv, ResultOK, FieldTypes
<1>5. source # NoNode => new \in Jobs(tree) /\ Refuted(source, res[w].core)
  <2> SUFFICES ASSUME source # NoNode PROVE new \in Jobs(tree) /\ Refuted(source, res[w].core)
    OBVIOUS
  <2> DEFINE parts == Participants(tree, held[w], res[w].core)
  <2>1. parts # {} /\ source = CHOOSE m \in parts : \A k \in parts : k \subseteq m
    BY DEF find_core_source
  <2>2. /\ TreeType(tree) /\ Shape(tree) /\ held[w] \in tree.nodes
        /\ res[w].core \subseteq held[w] \cup Asms /\ Unsat(res[w].core)
    BY <1>2, <1>4 DEF Good, Refuted
  <2>3. res[w].core \cap held[w] # {}
    <3>1. PICK m \in parts : TRUE
      BY <2>1
    <3>2. m \in tree.nodes /\ m \subseteq held[w] /\ tree.lit[m] \in res[w].core
      BY <3>1 DEF Participants, Ancestors
    <3>3. m # Root
      BY <1>4, <2>2, <3>2, ConstantsAssumption DEF Shape
    <3>4. tree.lit[m] \in m
      BY <2>2, <3>2, <3>3 DEF Shape
    <3> QED BY <3>2, <3>4
  <2>4. source \in parts /\ res[w].core \cap held[w] \subseteq source
    <3> HIDE DEF source
    <3> QED BY <2>1, <2>2, <2>3, NearestParticipant, SMTT(30)
  <2>5. source \in tree.nodes
    BY <2>4 DEF Participants, Ancestors
  <2>6. res[w].core \subseteq source \cup Asms
    BY <2>2, <2>4
  <2> HIDE DEF source
  <2> QED BY <1>4, <2>2, <2>5, <2>6 DEF Refuted, Jobs
<1> HIDE DEF source
<1>6. Local(w) /\ pc'[w] = "share"
  <2>1. NoResult \in [r : ResultNames, core : SUBSET Lit]
    BY DEF NoResult, ResultNames
  <2> QED BY <1>1, <2>1, LocalStep DEF Location
<1>7. Counts(cancel)
  <2>1. asleep' \in BOOLEAN
    BY <1>2, <1>3 DEF FieldTypes
  <2> QED BY <1>1, <1>2, <2>1, SMTT(30) DEF Counts, FieldTypes
<1>8. Manage(w) /\ Paid /\ \A v \in Worker : lease'[v].signaled => lease[v].signaled
  BY <1>1, <1>2, <1>7, QuietStep DEF FieldTypes, States
<1>9. Verdicts /\ Stops(w)
  BY <1>1, <1>6, <1>8 DEF Verdicts, Stops
<1>10. LeaseOK(w)' /\ ResultOK(w)'
  BY <1>1, <1>2, <1>6 DEF LeaseOK, ResultOK
<1>11. \A j \in DOMAIN jobs' : j \in Jobs(tree) /\ Refuted(j.source, j.core)
  <2>1. \A j \in DOMAIN jobs : j \in Jobs(tree) /\ Refuted(j.source, j.core)
    BY <1>2 DEF JobsOK
  <2>2. CASE jobs' = jobs
    BY <2>1, <2>2
  <2>3. CASE source # NoNode /\ jobs' = push_back(jobs, new)
    <3>1. DOMAIN jobs' = DOMAIN jobs \cup {new}
      BY <2>3, QueueFacts
    <3>2. new \in Jobs(tree) /\ Refuted(new.source, new.core)
      BY <1>5, <2>3
    <3> QED BY <2>1, <3>1, <3>2
  <2> QED BY <1>3, <2>2, <2>3
<1>12. CoreMinimize => pc'[minimizer] = pc[minimizer]
  BY <1>1, <1>6 DEF Local, Thread
<1>13. JobsOK' /\ job' \in Jobs(tree')
  BY <1>1, <1>2, <1>11, <1>12 DEF JobsOK, LocalTypes, Refuted, Unsat, Jobs
<1> QED BY <1>1, <1>2, <1>6, <1>8, <1>9, <1>10, <1>13 DEF Step

(* share_unit.                                                             *)
LEMMA ShareUnit ==
  ASSUME IInv, NEW w \in Worker, share_unit(w)
  PROVE  Step(w)
<1>1. /\ pc[w] = "share" /\ w \in Thread /\ w # minimizer
      /\ UNCHANGED <<problem, formula, engine, main, exhausted, pc, first, held, res, jobs, job, caller>>
  BY WorkerThread DEF share_unit, locals, problem
<1>2. /\ FieldTypes /\ LocalTypes /\ LeaseOK(w) /\ Leases(tree, lease, formula) /\ exhausted' \subseteq Worker
      /\ state = "running" => Signals(tree, lease)
  BY <1>1 DEF IInv, FieldTypes
<1>3. PICK l \in Lit \ backbones :
        LET targets == collect_matching_targets(tree, NoNode, Neg(l), {Neg(l)})
        IN  /\ Unsat({Neg(l)})
            /\ backbones' = backbones \cup {l}
            /\ IF targets = {} \/ state # "running" THEN UNCHANGED <<manager, cancel, asleep>>
               ELSE \E t \in {BacktrackTargets(tree, targets, {Neg(l)})} :
                      Closing(t, lease, cancel, {})
  BY DEF share_unit
<1> DEFINE targets == collect_matching_targets(tree, NoNode, Neg(l), {Neg(l)})
           t == BacktrackTargets(tree, targets, {Neg(l)})
<1>4. \/ UNCHANGED <<tree, lease, state, unsatCore, canceled, cancel, asleep>>
      \/ state = "running" /\ Closing(t, lease, cancel, {})
  BY <1>3 DEF manager
<1>5. Unsat({Neg(l)}) /\ backbones' \subseteq Lit
  BY <1>2, <1>3 DEF FieldTypes
<1>6. targets \in SUBSET tree.nodes /\ \A m \in targets : {Neg(l)} \subseteq m
  BY MatchingTargets, SMTT(30)
<1>7. t = BacktrackTargets(tree, targets, {Neg(l)})
  OBVIOUS
<1> HIDE DEF targets, t
<1>8. /\ Manage(w) /\ Paid /\ Verdicts /\ tree.nodes \subseteq tree'.nodes
      /\ state' = state \/ canceled'
      /\ state' = "running" => UNCHANGED canceled
      /\ state' = "running" => lease'[w].node = NoNode
      /\ ~lease'[w].signaled \/ \A v \in Worker : lease'[v].signaled => lease[v].signaled
  <2>1. CASE UNCHANGED <<tree, lease, state, unsatCore, canceled, cancel, asleep>>
    <3>1. Counts(cancel) /\ Verdicts
      BY <1>2, <2>1, SameCounts DEF Verdicts
    <3>2. Manage(w) /\ Paid /\ \A v \in Worker : lease'[v].signaled => lease[v].signaled
      BY <1>1, <1>2, <2>1, <3>1, QuietStep DEF FieldTypes, States
    <3> QED BY <1>1, <1>2, <2>1, <3>1, <3>2 DEF LeaseOK
  <2>2. CASE state = "running" /\ Closing(t, lease, cancel, {})
    <3>1. Good(t, formula) /\ Closes(tree, t) /\ Settled(t, Root)
      <4>1. formula \in Formulas /\ Good(tree, formula) /\ Settled(tree, Root) /\ Refutes(formula, {Neg(l)})
        BY <1>2, <1>5 DEF FieldTypes, Leases, Refutes, Unsat
      <4> QED BY <1>6, <1>7, <4>1, TargetsGood
    <3>2. Hands(w, lease, cancel)
      BY DEF Hands
    <3>3. lease[w].node = NoNode /\ cancel \in [Thread -> Nat]
      BY <1>1, <1>2, <2>2 DEF LeaseOK, FieldTypes
    <3> QED BY <1>1, <1>2, <2>2, <3>1, <3>2, <3>3, ClosingStep
  <2> QED BY <1>4, <2>1, <2>2
<1>9. Local(w)
  BY <1>1, <1>2, <1>8 DEF Local, FieldTypes, LocalTypes
<1>10. LeaseOK(w)' /\ ResultOK(w)'
  BY <1>1, <1>8 DEF LeaseOK, ResultOK
<1>11. Stops(w)
  BY <1>1, <1>8 DEF Stops
<1>12. JobsOK' /\ job' \in Jobs(tree')
  BY <1>1, <1>8, <1>9, JobsKept
<1> QED BY <1>1, <1>2, <1>5, <1>8, <1>9, <1>10, <1>11, <1>12 DEF Step

-----------------------------------------------------------------------------
(* The steps of the core minimizer.                                        *)

(* The core minimizer is a thread, and not a worker.                       *)
LEMMA MinimizerThread ==
  ASSUME CoreMinimize
  PROVE  minimizer \in Thread /\ minimizer \notin Worker
  BY ThreadsAssumption DEF Thread

(* There is always the job of nobody.                                      *)
LEMMA NoJobOK ==
  ASSUME NEW t
  PROVE  NoJob \in Jobs(t)
  BY DEF NoJob, Jobs

(* Steps of the core minimizer outside the tree and the leases.            *)
LEMMA MinimizerQuiet ==
  ASSUME IInv, CoreMinimize, pc[minimizer] # "done", NEW l \in Location,
         pc' = [pc EXCEPT ![minimizer] = l], UNCHANGED locals,
         Counts(cancel), Verdicts,
         UNCHANGED <<problem, tree, lease, main, exhausted, backbones, caller>>,
         state' \in States, unsatCore' \subseteq Lit, state' = "running" => state = "running",
         state' = state \/ canceled',
         state' = "running" /\ canceled' /\ ~canceled => cancel[minimizer] > 0,
         state' = "running" /\ ~canceled' => l # "done",
         l = "exit" => cancel[minimizer] > 0,
         job' \in Jobs(tree),
         \A j \in DOMAIN jobs' : j \in Jobs(tree) /\ Refuted(j.source, j.core),
         l \in {"minimize", "publish"} => Refuted(job'.source, job'.core)
  PROVE  Step(minimizer)
<1>1. minimizer \in Thread /\ minimizer \notin Worker
  BY MinimizerThread
<1>2. UNCHANGED <<formula, engine, first, held, res>>
  BY DEF problem, locals
<1>3. Manage(minimizer) /\ Paid
  BY <1>2, QuietStep
<1>4. NoResult \in [r : ResultNames, core : SUBSET Lit]
  BY DEF NoResult, ResultNames
<1>5. Local(minimizer) /\ pc'[minimizer] = l
  BY <1>1, <1>2, <1>4, LocalStep
<1>6. JobsOK' /\ job' \in Jobs(tree')
  BY <1>2, <1>5 DEF JobsOK, Refuted, Unsat, Jobs
<1>7. Stops(minimizer)
  BY <1>1, <1>5 DEF Stops
<1>8. ExitOK'
  <2>1. cancel'[minimizer] >= cancel[minimizer] /\ cancel[minimizer] \in Nat /\ cancel'[minimizer] \in Nat
    BY <1>1, SMTT(30) DEF Counts, IInv, FieldTypes
  <2> QED BY <1>5, <2>1, SMTT(30) DEF ExitOK
<1>9. exhausted' \subseteq Worker /\ backbones' \subseteq Lit
  BY DEF IInv, FieldTypes
<1> QED BY <1>1, <1>3, <1>5, <1>6, <1>7, <1>8, <1>9 DEF Step

(* wait_for_core_min_job.                                                  *)
LEMMA WaitForJob ==
  ASSUME IInv, wait_for_core_min_job
  PROVE  Step(minimizer)
<1>1. /\ CoreMinimize /\ pc[minimizer] = "wait" /\ pc \in [Thread -> Location]
      /\ UNCHANGED <<problem, tree, lease, main, exhausted, backbones, caller, locals>>
      /\ UNCHANGED <<state, unsatCore, canceled, cancel>>
  BY DEF wait_for_core_min_job, manager, limits, IInv, FieldTypes
<1>2. /\ FieldTypes /\ job \in Jobs(tree)
      /\ \A j \in DOMAIN jobs : j \in Jobs(tree) /\ Refuted(j.source, j.core)
  BY DEF IInv, LocalTypes, JobsOK
<1>3. Verdicts /\ state' \in States /\ unsatCore' \subseteq Lit
  BY <1>1, <1>2 DEF Verdicts, States, FieldTypes
<1>4. CASE /\ UNCHANGED <<jobs, job, asleep>>
           /\ \/ state # "running" /\ goto(minimizer, "done")
              \/ is_canceled(minimizer) /\ state = "running" /\ goto(minimizer, "exit")
  <2>1. UNCHANGED <<jobs, job, asleep>>
    BY <1>4
  <2>2. Counts(cancel)
    BY <1>1, <1>2, <2>1, SameCounts
  <2>3. CASE state # "running" /\ goto(minimizer, "done")
    BY <1>1, <1>2, <1>3, <2>1, <2>2, <2>3, MinimizerQuiet DEF goto, Location
  <2>4. CASE is_canceled(minimizer) /\ state = "running" /\ goto(minimizer, "exit")
    <3>1. cancel[minimizer] > 0
      BY <1>1, <1>2, <2>4, MinimizerThread DEF is_canceled, FieldTypes
    <3> QED BY <1>1, <1>2, <1>3, <2>1, <2>2, <2>4, <3>1, MinimizerQuiet DEF goto, Location
  <2> QED BY <1>4, <2>3, <2>4
<1>5. CASE asleep' = TRUE /\ UNCHANGED <<pc, jobs, job>>
  <2>1. pc' = [pc EXCEPT ![minimizer] = "wait"]
    BY <1>1, <1>5, MinimizerThread
  <2>2. Counts(cancel)
    BY <1>1, <1>2, <1>5, SMTT(30) DEF Counts, FieldTypes
  <2> QED BY <1>1, <1>2, <1>3, <1>5, <2>1, <2>2, MinimizerQuiet DEF Location
<1>6. CASE /\ \E j \in best_jobs : job' = j /\ jobs' = detach(jobs, j)
           /\ goto(minimizer, "minimize") /\ UNCHANGED asleep
  <2>1. PICK j \in DOMAIN jobs : job' = j /\ jobs' = detach(jobs, j)
    BY <1>6 DEF best_jobs
  <2>2. DOMAIN jobs' \subseteq DOMAIN jobs
    BY <2>1, QueueFacts
  <2>3. Counts(cancel)
    BY <1>1, <1>2, <1>6, SameCounts
  <2> QED BY <1>1, <1>2, <1>3, <1>6, <2>1, <2>2, <2>3, MinimizerQuiet DEF goto, Location
<1> QED BY <1>4, <1>5, <1>6 DEF wait_for_core_min_job, minim

(* minimizer_exits.                                                        *)
LEMMA MinimizerExits ==
  ASSUME IInv, minimizer_exits
  PROVE  Step(minimizer)
<1>1. /\ CoreMinimize /\ pc[minimizer] = "exit" /\ goto(minimizer, "done") /\ cancel[minimizer] > 0
      /\ UNCHANGED <<problem, tree, lease, main, exhausted, backbones, caller, locals>>
      /\ UNCHANGED <<jobs, job>> /\ set_canceled
  BY DEF minimizer_exits, IInv, ExitOK, is_canceled
<1>2. /\ FieldTypes /\ job \in Jobs(tree)
      /\ \A j \in DOMAIN jobs : j \in Jobs(tree) /\ Refuted(j.source, j.core)
  BY DEF IInv, LocalTypes, JobsOK
<1>3. Counts(cancel) /\ UNCHANGED <<state, unsatCore>> /\ (state = "running" => canceled')
  BY <1>1, <1>2, SetCanceled
<1>4. Verdicts /\ state' \in States /\ unsatCore' \subseteq Lit
  BY <1>2, <1>3 DEF Verdicts, States, FieldTypes
<1> QED BY <1>1, <1>2, <1>3, <1>4, MinimizerQuiet DEF goto, Location

(* minimize_unsat_core and minimize_finds_sat.                             *)
LEMMA Minimizes ==
  ASSUME IInv, minimize_unsat_core \/ minimize_finds_sat
  PROVE  Step(minimizer)
<1>1. /\ CoreMinimize /\ pc[minimizer] = "minimize"
      /\ UNCHANGED <<problem, tree, lease, main, exhausted, backbones, caller, locals, jobs>>
  BY DEF minimize_unsat_core, minimize_finds_sat, manager, limits
<1>2. /\ FieldTypes /\ job \in Jobs(tree) /\ Refuted(job.source, job.core)
      /\ \A j \in DOMAIN jobs : j \in Jobs(tree) /\ Refuted(j.source, j.core)
  BY <1>1 DEF IInv, LocalTypes, JobsOK
<1>3. CASE minimize_unsat_core
  <2>1. UNCHANGED <<state, unsatCore, canceled, cancel, asleep>>
    BY <1>3 DEF minimize_unsat_core, manager, limits
  <2>2. Counts(cancel) /\ Verdicts /\ state' \in States /\ unsatCore' \subseteq Lit
    BY <1>2, <2>1, SameCounts DEF Verdicts, States, FieldTypes
  <2>3. PICK C \in SUBSET job.core :
          /\ Unsat(C)
          /\ IF C # job.core
             THEN job' = [job EXCEPT !.core = C] /\ goto(minimizer, "publish")
             ELSE job' = NoJob /\ goto(minimizer, "wait")
    BY <1>3 DEF minimize_unsat_core
  <2>4. CASE C # job.core
    <3>1. job' = [job EXCEPT !.core = C] /\ pc' = [pc EXCEPT ![minimizer] = "publish"]
      BY <2>3, <2>4 DEF goto
    <3>2. job' \in Jobs(tree) /\ job'.source = job.source /\ job'.core = C
      BY <1>2, <2>3, <3>1 DEF Jobs
    <3>3. Refuted(job'.source, job'.core)
      BY <1>2, <2>3, <3>2 DEF Refuted
    <3> QED BY <1>1, <1>2, <2>1, <2>2, <3>1, <3>2, <3>3, MinimizerQuiet DEF Location
  <2>5. CASE C = job.core
    <3>1. job' = NoJob /\ pc' = [pc EXCEPT ![minimizer] = "wait"]
      BY <2>3, <2>5 DEF goto
    <3> QED BY <1>1, <1>2, <2>1, <2>2, <3>1, NoJobOK, MinimizerQuiet DEF Location
  <2> QED BY <2>4, <2>5
<1>4. CASE minimize_finds_sat
  <2>1. /\ set_state("sat", {"running", "unknown"}, unsatCore) /\ (\E M \in formula : Asms \subseteq M)
        /\ job' = NoJob /\ pc' = [pc EXCEPT ![minimizer] = "wait"]
    BY <1>4 DEF minimize_finds_sat, goto
  <2>2. /\ Counts(cancel)
        /\ \/ state \in {"running", "unknown"} /\ state' = "sat" /\ UNCHANGED unsatCore /\ canceled'
           \/ state \notin {"running", "unknown"} /\ UNCHANGED <<state, unsatCore, canceled, cancel, asleep>>
        /\ state' \in States /\ unsatCore' \in SUBSET Lit /\ (state' = "running" => state = "running")
    BY <1>2, <2>1, SetState DEF FieldTypes, States
  <2>3. Verdicts
    BY <2>1, <2>2 DEF Verdicts
  <2> QED BY <1>1, <1>2, <2>1, <2>2, <2>3, NoJobOK, MinimizerQuiet DEF Location
<1> QED BY <1>3, <1>4

(* publish_minimized_core.                                                 *)
LEMMA Publish ==
  ASSUME IInv, publish_minimized_core
  PROVE  Step(minimizer)
<1> DEFINE C == job.core
           n == job.source
           t0 == backtrack(tree, n, C)
<1>1. /\ CoreMinimize /\ pc[minimizer] = "publish" /\ job' = NoJob
      /\ UNCHANGED <<problem, formula, engine, main, exhausted, backbones, caller, locals, jobs>>
      /\ minimizer \in Thread /\ minimizer \notin Worker
  BY MinimizerThread DEF publish_minimized_core, problem
<1>2. /\ FieldTypes /\ LocalTypes /\ Refuted(n, C) /\ Leases(tree, lease, formula)
      /\ \A j \in DOMAIN jobs : j \in Jobs(tree) /\ Refuted(j.source, j.core)
      /\ state = "running" => Signals(tree, lease)
  BY <1>1 DEF IInv, JobsOK
<1>3. \/ /\ goto(minimizer, "wait") \/ goto(minimizer, "unreachable")
         /\ UNCHANGED <<tree, lease, state, unsatCore, canceled, cancel, asleep>>
      \/ /\ set_state("unsat", {"running"}, C) /\ C = {} /\ goto(minimizer, "wait")
         /\ UNCHANGED <<tree, lease>>
      \/ /\ state = "running" /\ CanBacktrack(tree, n, C) /\ C # {} /\ goto(minimizer, "wait")
         /\ \E l \in C : Closing(BacktrackTargets(t0, collect_matching_targets(t0, n, l, C), C),
                                 lease, cancel, {})
  BY DEF publish_minimized_core, manager, minimized_to_asms
<1>4. CASE /\ goto(minimizer, "wait") \/ goto(minimizer, "unreachable")
           /\ UNCHANGED <<tree, lease, state, unsatCore, canceled, cancel, asleep>>
  <2>1. Counts(cancel) /\ Verdicts /\ state' \in States /\ unsatCore' \subseteq Lit
    BY <1>2, <1>4, SameCounts DEF Verdicts, States, FieldTypes
  <2>2. CASE goto(minimizer, "wait")
    BY <1>1, <1>2, <1>4, <2>1, <2>2, NoJobOK, MinimizerQuiet DEF Location, goto
  <2>3. CASE goto(minimizer, "unreachable")
    BY <1>1, <1>2, <1>4, <2>1, <2>3, NoJobOK, MinimizerQuiet DEF Location, goto
  <2> QED BY <1>4, <2>2, <2>3
<1>5. CASE /\ set_state("unsat", {"running"}, C) /\ C = {} /\ goto(minimizer, "wait")
           /\ UNCHANGED <<tree, lease>>
  <2>1. /\ Counts(cancel)
        /\ \/ state = "running" /\ state' = "unsat" /\ unsatCore' = {} /\ canceled'
           \/ state # "running" /\ UNCHANGED <<state, unsatCore, canceled, cancel, asleep>>
        /\ state' \in States /\ unsatCore' \in SUBSET Lit /\ (state' = "running" => state = "running")
    BY <1>2, <1>5, SetState DEF States
  <2>2. Verdicts
    BY <1>2, <1>5, <2>1 DEF Verdicts, Refuted
  <2> QED BY <1>1, <1>2, <1>5, <2>1, <2>2, NoJobOK, MinimizerQuiet DEF Location, goto
<1>6. ASSUME state = "running", CanBacktrack(tree, n, C), C # {}, goto(minimizer, "wait"),
             NEW l \in C, NEW T, T = collect_matching_targets(t0, n, l, C),
             NEW u, u = BacktrackTargets(t0, T, C), Closing(u, lease, cancel, {})
      PROVE  Step(minimizer)
  <2>1. /\ n \in tree.nodes /\ C \subseteq n \cup Asms /\ C \subseteq Lit /\ Unsat(C)
        /\ formula \in Formulas /\ Good(tree, formula) /\ Settled(tree, Root)
        /\ cancel \in [Thread -> Nat]
    BY <1>2 DEF Refuted, FieldTypes, LocalTypes, Jobs, Leases
  <2>2. Refutes(formula, C) /\ t0 = backtrack(tree, n, C)
    BY <2>1 DEF Refutes, Unsat
  <2>3. C \cap n # {}
    <3>1. PICK m \in Participants(tree, n, C) : TRUE
      BY <1>6 DEF CanBacktrack
    <3>2. m \in tree.nodes /\ m \subseteq n /\ tree.lit[m] \in C
      BY <3>1 DEF Participants, Ancestors
    <3>3. Shape(tree) /\ NullLit \notin C
      BY <2>1, ConstantsAssumption DEF Good
    <3>4. tree.lit[m] \in m
      BY <3>2, <3>3 DEF Shape
    <3> QED BY <3>2, <3>4
  <2> HIDE DEF C, n, t0
  <2>4. Closes(tree, t0)
    BY <2>1, <2>2, <2>3, BacktrackGood
  <2>5. T \in SUBSET tree.nodes /\ \A m \in T : C \subseteq m
    BY <1>6, <2>4, MatchingTargets, SMTT(30) DEF Closes
  <2>6. Good(u, formula) /\ Closes(tree, u) /\ Settled(u, Root)
    BY <1>6, <2>1, <2>2, <2>3, <2>5, CoreGood
  <2>7. Hands(minimizer, lease, cancel)
    BY <1>1 DEF Hands
  <2>8. /\ Manage(minimizer) /\ Paid /\ Verdicts /\ tree.nodes \subseteq tree'.nodes
        /\ state' = state \/ canceled'
        /\ state' = "running" => UNCHANGED canceled
    BY <1>1, <1>2, <1>6, <2>1, <2>6, <2>7, ClosingStep
  <2>9. NoResult \in [r : ResultNames, core : SUBSET Lit]
    BY DEF NoResult, ResultNames
  <2>10. Local(minimizer) /\ pc'[minimizer] = "wait"
    BY <1>1, <1>6, <2>8, <2>9, LocalStep DEF goto, Location, locals
  <2>11. Stops(minimizer) /\ ExitOK'
    BY <1>1, <2>8, <2>10 DEF Stops, ExitOK
  <2>12. JobsOK' /\ job' \in Jobs(tree')
    <3>1. \A j : j \in Jobs(tree) => j \in Jobs(tree')
      BY <2>8 DEF Jobs
    <3>2. \A j : Refuted(j.source, j.core) => Refuted(j.source, j.core)'
      BY <1>1, <2>8 DEF Refuted, Unsat
    <3> QED BY <1>1, <1>2, <2>10, <3>1, <3>2, NoJobOK DEF JobsOK
  <2>13. exhausted' \subseteq Worker /\ backbones' \subseteq Lit
    BY <1>1, <1>2 DEF FieldTypes
  <2> QED BY <1>1, <2>8, <2>10, <2>11, <2>12, <2>13 DEF Step
<1> HIDE DEF C, n, t0
<1> QED BY <1>3, <1>4, <1>5, <1>6

-----------------------------------------------------------------------------
(* The invariant is inductive.                                             *)

(* Every step of a thread is a Step.                                       *)
LEMMA ThreadSteps ==
  ASSUME IInv, (\E w \in Worker : WorkerStep(w)) \/ MinimizerStep
  PROVE  \E x \in Thread : Step(x)
<1>1. CASE \E w \in Worker : WorkerStep(w)
  <2>1. PICK w \in Worker : WorkerStep(w)
    BY <1>1
  <2>2. Step(w)
    BY <2>1, GetCube, CheckCube, CheckAgain, TrySplitCube, Reports, BacktrackCube, Enqueue, ShareUnit
       DEF WorkerStep
  <2> QED BY <2>2, WorkerThread
<1>2. CASE MinimizerStep
  <2>1. CoreMinimize
    BY <1>2 DEF MinimizerStep, wait_for_core_min_job, minimizer_exits, minimize_unsat_core,
                minimize_finds_sat, publish_minimized_core
  <2>2. Step(minimizer)
    BY <1>2, WaitForJob, MinimizerExits, Minimizes, Publish DEF MinimizerStep
  <2> QED BY <2>1, <2>2, MinimizerThread
<1> QED BY <1>1, <1>2

\* The caller, and the end.
CallerStep == cancel_main \/ reset_cancel \/ get_result \/ UNCHANGED vars

(* The caller keeps the invariant.                                         *)
LEMMA CallerKeeps ==
  ASSUME IInv, CallerStep
  PROVE  IInv'
<1>1. /\ UNCHANGED <<formula, engine, tree, state, unsatCore, lease, canceled, exhausted, pc, first>>
      /\ UNCHANGED <<held, res, jobs, job, asleep, backbones>>
  BY DEF CallerStep, cancel_main, reset_cancel, get_result, vars, problem, manager, limits, locals,
         minim, caller
<1>2. /\ FieldTypes /\ LocalTypes /\ Leases(tree, lease, formula)
      /\ state = "running" => ~ClosedIn(tree, Root) /\ Signals(tree, lease)
      /\ \A w \in Worker : LeaseOK(w) /\ ResultOK(w)
      /\ JobsOK /\ ExitOK /\ EndOK /\ CancelBalanced
  BY DEF IInv
<1>3. /\ main' \in 0 .. MaxCancel /\ cancel' \in [Thread -> Nat] /\ cleared' \in BOOLEAN
      /\ ExitOK' /\ EndOK' /\ CancelBalanced'
  <2>1. CASE cancel_main
    <3>1. /\ main' = main + 1 /\ main < MaxCancel /\ cancel' = [x \in Thread |-> main']
          /\ UNCHANGED <<cleared, answer>>
      BY <2>1 DEF cancel_main, caller
    <3>2. main' \in 0 .. MaxCancel /\ main' \in Nat /\ main' > 0
      BY <1>2, <3>1, ThreadsAssumption, SMTT(30) DEF FieldTypes
    <3>3. ExitOK'
      BY <3>1, <3>2, MinimizerThread DEF ExitOK
    <3> QED BY <1>1, <1>2, <3>1, <3>2, <3>3, SMTT(30) DEF FieldTypes, EndOK, CancelBalanced
  <2>2. CASE reset_cancel
    <3>1. /\ cleared' = TRUE /\ main' = 0 /\ cancel' = [x \in Thread |-> 0]
          /\ \A x \in Thread : pc[x] = "done"
      BY <2>2 DEF reset_cancel, Joined
    <3>2. ExitOK'
      BY <1>1, <3>1, MinimizerThread DEF ExitOK
    <3> QED BY <1>1, <3>1, <3>2, ThreadsAssumption, SMTT(30) DEF EndOK, CancelBalanced
  <2>3. CASE get_result
    <3>1. UNCHANGED <<main, cancel, cleared>> /\ \A x \in Thread : pc[x] = "done"
      BY <2>3 DEF get_result, Joined, limits
    <3> QED BY <1>1, <1>2, <3>1 DEF FieldTypes, ExitOK, EndOK, CancelBalanced
  <2>4. CASE UNCHANGED vars
    <3>1. UNCHANGED <<main, cancel, cleared, answer>>
      BY <2>4 DEF vars, limits, caller
    <3> QED BY <1>1, <1>2, <3>1 DEF FieldTypes, ExitOK, EndOK, CancelBalanced
  <2> QED BY <2>1, <2>2, <2>3, <2>4 DEF CallerStep
<1>4. FieldTypes' /\ LocalTypes'
  BY <1>1, <1>2, <1>3 DEF FieldTypes, LocalTypes
<1>5. ASSUME NEW w \in Worker PROVE LeaseOK(w)' /\ ResultOK(w)'
  <2>1. LeaseOK(w) /\ ResultOK(w)
    BY <1>2
  <2> QED BY <1>1, <2>1 DEF LeaseOK, ResultOK, Refuted, Unsat
<1>6. JobsOK'
  BY <1>1, <1>2 DEF JobsOK, Refuted, Unsat
<1>7. /\ Leases(tree', lease', formula')
      /\ state' = "running" => ~ClosedIn(tree', Root) /\ Signals(tree', lease')
  BY <1>1, <1>2
<1> QED BY <1>3, <1>4, <1>5, <1>6, <1>7 DEF IInv

(* Every step is one of a thread or of the caller.                         *)
LEMMA StepKinds ==
  ASSUME IInv, [Next]_vars
  PROVE  (\E x \in Thread : Step(x)) \/ CallerStep
  BY ThreadSteps DEF Next, CallerStep, Terminated

(* At the start there is one open node, that nobody works on.              *)
LEMMA InitLeases ==
  ASSUME NEW F, NEW t, t = reset, NEW ls, ls = [w \in Worker |-> NoLease]
  PROVE  Leases(t, ls, F) /\ Signals(t, ls) /\ ~ClosedIn(t, Root)
<1>1. /\ Good(t, F) /\ Settled(t, Root) /\ Leased(t) /\ ~ClosedIn(t, Root)
      /\ t.nodes = {Root} /\ t.workers[Root] = 0
  BY ResetGood
<1>2. \A w \in Worker : ls[w].node = NoNode /\ ls[w].signaled = FALSE
  BY DEF NoLease
<1>3. NoNode # Root
  BY DEF NoNode, Root
<1>4. Count(ls, Root) = 0
  <2>1. {w \in Worker : ls[w].node = Root} = {}
    BY <1>2, <1>3
  <2> QED BY <2>1, FS_EmptySet DEF Count
<1>5. ls \in [Worker -> [node : t.nodes \cup {NoNode}, signaled : BOOLEAN]]
  BY DEF NoLease
<1> QED BY <1>1, <1>2, <1>4, <1>5 DEF Leases, Signals

(* The invariant holds initially.                                          *)
LEMMA InitIInv == Init => IInv
<1> SUFFICES ASSUME Init PROVE IInv
  OBVIOUS
<1>1. Leases(tree, lease, formula) /\ Signals(tree, lease) /\ ~ClosedIn(tree, Root)
  BY InitLeases DEF Init
<1>2. /\ TreeType(tree)
      /\ lease \in [Worker -> [node : tree.nodes \cup {NoNode}, signaled : BOOLEAN]]
  BY <1>1 DEF Leases, Good
<1>3. NoResult \in [r : ResultNames, core : SUBSET Lit] /\ NoResult.core = {}
  BY DEF NoResult, ResultNames
<1>4. LocalTypes
  BY <1>3, NoJobOK DEF Init, LocalTypes
<1>5. FieldTypes
  <2>1. pc \in [Thread -> Location] /\ cancel \in [Thread -> Nat] /\ main \in 0 .. MaxCancel
    BY ThreadsAssumption, SMTT(30) DEF Init, Location
  <2>2. first \in [Worker -> BOOLEAN] /\ held \in [Worker -> tree.nodes \cup {NoNode}]
    BY DEF Init
  <2>3. \A w \in Worker : res[w].core \subseteq Lit
    BY <1>3 DEF Init
  <2>4. /\ formula \in Formulas /\ engine \in Engine /\ unsatCore \subseteq Lit /\ backbones \subseteq Lit
        /\ state = "running" /\ exhausted \subseteq Worker
        /\ canceled = FALSE /\ asleep = FALSE /\ cleared = FALSE
    BY DEF Init
  <2> QED BY <1>2, <2>1, <2>2, <2>3, <2>4 DEF FieldTypes
<1>6. \A w \in Worker : pc[w] = "get" /\ lease[w].node = NoNode /\ lease[w].signaled = FALSE
  BY WorkerThread DEF Init, NoLease
<1>7. \A w \in Worker : LeaseOK(w) /\ ResultOK(w)
  BY <1>6 DEF LeaseOK, ResultOK
<1>8. DOMAIN jobs = {}
  BY DEF Init, NoJobs
<1>9. CoreMinimize => pc[minimizer] = "wait"
  BY MinimizerThread DEF Init
<1>10. JobsOK /\ ExitOK
  BY <1>8, <1>9 DEF JobsOK, ExitOK
<1>11. EndOK
  BY DEF Init, EndOK
<1>12. CancelBalanced
  BY <1>6, WorkerThread, SMTT(30) DEF Init, CancelBalanced
<1> QED BY <1>1, <1>4, <1>5, <1>7, <1>10, <1>11, <1>12 DEF IInv

-----------------------------------------------------------------------------
(* What becomes of the caller's cancellation.                              *)

\* What the signal of a lease adds to the counter of its worker.
Owed(w) == IF lease[w].signaled THEN 1 ELSE 0

\* A verdict has stopped the manager, but the "unknown" of the tactic.
VerdictStops == state # "running" /\ ~(engine = "tactic" /\ state = "unknown") => canceled

\* Until the manager stops, no thread has ended; and as a worker only signals the
\* others, not all are signaled at once.
StillRuns ==
    state = "running" /\ ~canceled =>
        /\ \A x \in Thread : pc[x] # "done"
        /\ CoreMinimize \/ \E w \in Worker : ~lease[w].signaled

\* The counters hold what is owed.  The core minimizer keeps what the caller gave it.
\* Once the manager has stopped every worker has one more; when it stopped without a
\* verdict and with resources left, the caller has canceled.  Without a core
\* minimizer some worker has more than it owes as soon as the caller has canceled.
Covered ==
    ~cleared =>
        /\ \A w \in Worker : cancel[w] >= Owed(w)
        /\ CoreMinimize /\ main > 0 => cancel[minimizer] > 0
        /\ CoreMinimize /\ main = 0 /\ ~canceled => cancel[minimizer] = 0
        /\ canceled /\ exhausted = {} =>
              /\ state = "running" => main > 0
              /\ \A w \in Worker : /\ state = "running" => cancel[w] > Owed(w)
                                   /\ cancel[w] > 0
        /\ main > 0 /\ state = "running" /\ ~canceled /\ ~CoreMinimize =>
              \E w \in Worker : cancel[w] > Owed(w)

HeardInv == VerdictStops /\ StillRuns /\ Covered

(* What a worker is paid covers what it owes.                              *)
LEMMA PaidCovers ==
  ASSUME FieldTypes, FieldTypes', NEW cn \in [Thread -> Nat], Pays(cn), Counts(cn), NEW w \in Worker
  PROVE  /\ cancel[w] >= Owed(w) => cancel'[w] >= Owed(w)'
         /\ cancel[w] > Owed(w) => cancel'[w] > Owed(w)'
         /\ cancel[w] >= Owed(w) /\ canceled' /\ ~canceled => cancel'[w] > Owed(w)'
         /\ cancel[w] > 0 /\ state # "running" => cancel'[w] > 0
         /\ cancel[w] > Owed(w) => cancel'[w] > 0
<1>1. /\ w \in Thread /\ cancel[w] \in Nat /\ cn[w] \in Nat /\ cancel'[w] \in Nat
      /\ lease[w].signaled \in BOOLEAN /\ lease'[w].signaled \in BOOLEAN
      /\ canceled \in BOOLEAN /\ canceled' \in BOOLEAN
  BY WorkerThread DEF FieldTypes, Counts
<1>2. /\ cancel'[w] >= cn[w] /\ (canceled' /\ ~canceled => cancel'[w] = cn[w] + 1)
  BY <1>1, SMTT(30) DEF Counts
<1>3. Owed(w) = (IF lease[w].signaled THEN 1 ELSE 0) /\ Owed(w)' = (IF lease'[w].signaled THEN 1 ELSE 0)
  BY DEF Owed
<1>4. CASE lease'[w].signaled = lease[w].signaled /\ cn[w] = cancel[w]
  BY <1>1, <1>2, <1>3, <1>4, SMTT(30)
<1>5. CASE ~lease[w].signaled /\ lease'[w].signaled /\ cn[w] = cancel[w] + 1
  BY <1>1, <1>2, <1>3, <1>5, SMTT(30)
<1>6. CASE /\ state = "running" /\ lease[w].signaled /\ ~lease'[w].signaled
           /\ cn[w] = IF cancel[w] > 0 THEN cancel[w] - 1 ELSE cancel[w]
  BY <1>1, <1>2, <1>3, <1>6, SMTT(30)
<1> QED BY <1>4, <1>5, <1>6 DEF Pays

(* The steps of the threads.                                               *)
LEMMA StepHeard ==
  ASSUME IInv, IInv', HeardInv, NEW x \in Thread, Step(x)
  PROVE  HeardInv'
<1>1. /\ Local(x) /\ Manage(x) /\ Stops(x) /\ UNCHANGED <<main, cleared, answer, engine>>
      /\ exhausted \subseteq exhausted' /\ FieldTypes /\ FieldTypes' /\ CancelBalanced
      /\ state' = "running" => state = "running"
  BY DEF Step, caller, Manage, IInv
<1>2. PICK cn \in [Thread -> Nat] :
        Counts(cn) /\ Pays(cn) /\ \A y \in Thread \ Worker : cn[y] = cancel[y]
  BY DEF Step, Paid
<1>3. (canceled => canceled') /\ canceled \in BOOLEAN /\ canceled' \in BOOLEAN
  BY <1>1, <1>2 DEF Counts, FieldTypes
<1>4. VerdictStops'
  BY <1>1, <1>3 DEF HeardInv, VerdictStops, Stops
<1>5. StillRuns'
  <2> SUFFICES ASSUME state' = "running", ~canceled'
               PROVE  /\ \A y \in Thread : pc'[y] # "done"
                      /\ CoreMinimize \/ \E w \in Worker : ~lease'[w].signaled
    BY DEF StillRuns
  <2>1. /\ \A y \in Thread : pc[y] # "done"
        /\ CoreMinimize \/ \E w \in Worker : ~lease[w].signaled
    BY <1>1, <1>3 DEF HeardInv, StillRuns
  <2>2. \A y \in Thread : pc'[y] # "done"
    BY <1>1, <2>1 DEF Local, Stops
  <2>3. ~CoreMinimize => x \in Worker
    BY DEF Thread
  <2>4. CoreMinimize \/ \E w \in Worker : ~lease'[w].signaled
    BY <1>1, <2>1, <2>3 DEF Stops
  <2> QED BY <2>2, <2>4
<1>6. ASSUME ~cleared
      PROVE  /\ \A w \in Worker : cancel'[w] >= Owed(w)'
             /\ CoreMinimize /\ main > 0 => cancel'[minimizer] > 0
             /\ CoreMinimize /\ main = 0 /\ ~canceled' => cancel'[minimizer] = 0
             /\ canceled' /\ exhausted' = {} =>
                   /\ state' = "running" => main > 0
                   /\ \A w \in Worker : /\ state' = "running" => cancel'[w] > Owed(w)'
                                        /\ cancel'[w] > 0
             /\ main > 0 /\ state' = "running" /\ ~canceled' /\ ~CoreMinimize =>
                   \E w \in Worker : cancel'[w] > Owed(w)'
  <2>1. /\ \A w \in Worker : cancel[w] >= Owed(w)
        /\ CoreMinimize /\ main > 0 => cancel[minimizer] > 0
        /\ CoreMinimize /\ main = 0 /\ ~canceled => cancel[minimizer] = 0
        /\ canceled /\ exhausted = {} =>
              /\ state = "running" => main > 0
              /\ \A w \in Worker : /\ state = "running" => cancel[w] > Owed(w)
                                   /\ cancel[w] > 0
        /\ main > 0 /\ state = "running" /\ ~canceled /\ ~CoreMinimize =>
              \E w \in Worker : cancel[w] > Owed(w)
    BY <1>6 DEF HeardInv, Covered
  <2>2. \A w \in Worker :
          /\ cancel[w] >= Owed(w) => cancel'[w] >= Owed(w)'
          /\ cancel[w] > Owed(w) => cancel'[w] > Owed(w)'
          /\ cancel[w] >= Owed(w) /\ canceled' /\ ~canceled => cancel'[w] > Owed(w)'
          /\ cancel[w] > 0 /\ state # "running" => cancel'[w] > 0
          /\ cancel[w] > Owed(w) => cancel'[w] > 0
    BY <1>1, <1>2, PaidCovers
  <2>3. \A w \in Worker : cancel'[w] >= Owed(w)'
    BY <2>1, <2>2
  <2>4. CoreMinimize => /\ cancel'[minimizer] >= cancel[minimizer]
                        /\ ~canceled' => cancel'[minimizer] = cancel[minimizer]
                        /\ cancel[minimizer] \in Nat /\ cancel'[minimizer] \in Nat
    BY <1>1, <1>2, MinimizerThread, SMTT(30) DEF Counts, FieldTypes
  <2>5. /\ CoreMinimize /\ main > 0 => cancel'[minimizer] > 0
        /\ CoreMinimize /\ main = 0 /\ ~canceled' => cancel'[minimizer] = 0
    BY <1>3, <2>1, <2>4, SMTT(30)
  <2>6. ASSUME canceled', exhausted' = {}
        PROVE  /\ state' = "running" => main > 0
               /\ \A w \in Worker : /\ state' = "running" => cancel'[w] > Owed(w)'
                                    /\ cancel'[w] > 0
    <3>1. exhausted = {}
      BY <1>1, <2>6
    <3>2. CASE canceled
      BY <1>1, <2>1, <2>2, <3>1, <3>2
    <3>3. CASE ~canceled
      <4>1. \A w \in Worker : cancel'[w] > Owed(w)' /\ Owed(w)' \in {0, 1} /\ cancel'[w] \in Nat
        BY <1>1, <2>1, <2>2, <2>6, <3>3, WorkerThread DEF Owed, FieldTypes
      <4>2. \A w \in Worker : cancel'[w] > 0
        BY <4>1, SMTT(30)
      <4>3. ASSUME state' = "running", main = 0 PROVE FALSE
        <5>1. cancel[x] > 0 /\ (x \in Worker => ~lease[x].signaled)
          BY <1>1, <2>6, <3>3, <4>3 DEF Stops
        <5>2. CASE x \in Worker
          BY <1>1, <1>6, <3>3, <4>3, <5>1, <5>2, SMTT(30) DEF CancelBalanced
        <5>3. CASE x \notin Worker
          <6>1. CoreMinimize /\ x = minimizer
            BY <5>3 DEF Thread
          <6> QED BY <2>1, <3>3, <4>3, <5>1, <6>1, SMTT(30)
        <5> QED BY <5>2, <5>3
      <4>4. main \in Nat
        BY <1>1, ThreadsAssumption, SMTT(30) DEF FieldTypes
      <4> QED BY <4>1, <4>2, <4>3, <4>4, SMTT(30)
    <3> QED BY <1>3, <3>2, <3>3
  <2>7. ASSUME main > 0, state' = "running", ~canceled', ~CoreMinimize
        PROVE  \E w \in Worker : cancel'[w] > Owed(w)'
    BY <1>1, <1>3, <2>1, <2>2, <2>7
  <2> QED BY <2>3, <2>5, <2>6, <2>7
<1>7. Covered'
  BY <1>1, <1>6 DEF Covered
<1> QED BY <1>4, <1>5, <1>7 DEF HeardInv

(* The caller cancels, resets the limits, and takes the answer.            *)
LEMMA CallerHeard ==
  ASSUME IInv, HeardInv, CallerStep
  PROVE  HeardInv'
<1>1. UNCHANGED <<engine, state, lease, canceled, exhausted, pc>>
  BY DEF CallerStep, cancel_main, reset_cancel, get_result, vars, problem, manager, limits
<1>2. VerdictStops' /\ StillRuns' /\ \A w \in Worker : Owed(w)' = Owed(w)
  BY <1>1 DEF HeardInv, VerdictStops, StillRuns, Owed
<1>3. CASE cancel_main
  <2>1. main' = main + 1 /\ cancel' = [x \in Thread |-> main'] /\ UNCHANGED cleared
    BY <1>3 DEF cancel_main, caller
  <2>2. main \in Nat /\ FieldTypes
    BY ThreadsAssumption, SMTT(30) DEF IInv, FieldTypes
  <2>3. \A w \in Worker : cancel'[w] = main + 1 /\ Owed(w) \in {0, 1}
    BY <2>1, WorkerThread DEF Owed
  <2>4. CoreMinimize => cancel'[minimizer] = main + 1
    BY <2>1, MinimizerThread
  <2>5. ASSUME ~cleared, canceled, exhausted = {}, state = "running" PROVE main > 0
    BY <2>5 DEF HeardInv, Covered
  <2>6. ASSUME state = "running", ~canceled, ~CoreMinimize
        PROVE  \E w \in Worker : cancel'[w] > Owed(w)
    <3>1. PICK w \in Worker : ~lease[w].signaled
      BY <2>6 DEF HeardInv, StillRuns
    <3> QED BY <2>2, <2>3, <3>1, SMTT(30) DEF Owed
  <2>7. \A w \in Worker : cancel'[w] >= Owed(w) /\ cancel'[w] > 0 /\ (main > 0 => cancel'[w] > Owed(w))
    BY <2>2, <2>3, SMTT(30)
  <2>8. main' > 0 /\ main' # 0
    BY <2>1, <2>2, SMTT(30)
  <2>9. Covered'
    BY <1>1, <1>2, <2>1, <2>2, <2>4, <2>5, <2>6, <2>7, <2>8 DEF Covered
  <2> QED BY <1>2, <2>9 DEF HeardInv
<1>4. CASE reset_cancel
  <2>1. cleared' = TRUE
    BY <1>4 DEF reset_cancel
  <2> QED BY <1>2, <2>1 DEF HeardInv, Covered
<1>5. CASE get_result \/ UNCHANGED vars
  <2>1. UNCHANGED <<main, cancel, cleared>>
    BY <1>5 DEF get_result, vars, limits, caller
  <2>2. Covered'
    BY <1>1, <1>2, <2>1 DEF HeardInv, Covered
  <2> QED BY <1>2, <2>2 DEF HeardInv
<1> QED BY <1>3, <1>4, <1>5 DEF CallerStep

(* Nobody is canceled at the start.                                        *)
LEMMA InitHeard == Init => HeardInv
<1> SUFFICES ASSUME Init PROVE HeardInv
  OBVIOUS
<1>1. /\ state = "running" /\ canceled = FALSE /\ main = 0
      /\ \A w \in Worker : lease[w].signaled = FALSE /\ cancel[w] = 0
      /\ \A x \in Thread : pc[x] # "done"
      /\ CoreMinimize => cancel[minimizer] = 0
  BY WorkerThread, MinimizerThread DEF Init, NoLease
<1>2. PICK w \in Worker : TRUE
  BY ThreadsAssumption
<1>3. StillRuns /\ VerdictStops
  BY <1>1, <1>2 DEF StillRuns, VerdictStops
<1>4. \A v \in Worker : Owed(v) = 0
  BY <1>1 DEF Owed
<1>5. Covered
  BY <1>1, <1>4, SMTT(30) DEF Covered
<1> QED BY <1>3, <1>5 DEF HeardInv

(* The two invariants tell that a cancellation is heard.                   *)
LEMMA HeardFacts == IInv /\ HeardInv => CancelHeard
<1> SUFFICES ASSUME IInv, HeardInv, main > 0, NEW w \in Worker, pc[w] = "check",
                    engine = "tactic" => state # "unknown", exhausted = {}
             PROVE  \E x \in Thread : pc[x] # "done" /\ is_canceled(x)
  BY DEF CancelHeard
<1>1. ~cleared /\ w \in Thread /\ FieldTypes
  BY WorkerThread DEF IInv, EndOK
<1>2. CASE canceled
  <2>1. cancel[w] > 0
    BY <1>1, <1>2 DEF HeardInv, Covered
  <2> QED BY <1>1, <2>1 DEF is_canceled
<1>3. CASE ~canceled
  <2>1. state = "running"
    BY <1>3 DEF HeardInv, VerdictStops
  <2>2. \A x \in Thread : pc[x] # "done"
    BY <1>3, <2>1 DEF HeardInv, StillRuns
  <2>3. CASE CoreMinimize
    <3>1. cancel[minimizer] > 0
      BY <1>1, <2>3 DEF HeardInv, Covered
    <3> QED BY <2>2, <2>3, <3>1, MinimizerThread DEF is_canceled
  <2>4. CASE ~CoreMinimize
    <3>1. PICK v \in Worker : cancel[v] > Owed(v)
      BY <1>1, <1>3, <2>1, <2>4 DEF HeardInv, Covered
    <3>2. v \in Thread /\ cancel[v] \in Nat /\ cancel[v] > 0
      BY <1>1, <3>1, WorkerThread, SMTT(30) DEF FieldTypes, Owed
    <3> QED BY <2>2, <3>2 DEF is_canceled
  <2> QED BY <2>3, <2>4
<1> QED BY <1>2, <1>3

-----------------------------------------------------------------------------
(* The theorems.                                                           *)

\* The inductive invariant of the threads, the leases and the counters: in every
\* reachable state the tree is sound, the leases are counted in it, every result and
\* every core that is on its way is right, and the counters hold what is owed.
THEOREM SolverInvariant == Spec => [](IInv /\ HeardInv)
<1>1. Init => IInv /\ HeardInv
  BY InitIInv, InitHeard
<1>2. (IInv /\ HeardInv) /\ [Next]_vars => (IInv /\ HeardInv)'
  <2> SUFFICES ASSUME IInv, HeardInv, [Next]_vars PROVE IInv' /\ HeardInv'
    OBVIOUS
  <2>1. CASE CallerStep
    BY <2>1, CallerKeeps, CallerHeard
  <2>2. CASE \E x \in Thread : Step(x)
    <3>1. PICK x \in Thread : Step(x)
      BY <2>2
    <3>2. IInv'
      BY <3>1, StepKeeps
    <3> QED BY <3>1, <3>2, StepHeard
  <2> QED BY <2>1, <2>2, StepKinds
<1> QED BY <1>1, <1>2, PTL DEF Spec

\* The variables keep the types that smt_parallel.cpp declares for them.
THEOREM SolverTypes == Spec => []TypeOK
<1>1. IInv => TypeOK
  BY DEF IInv, TypeOK
<1> QED BY <1>1, SolverInvariant, PTL

\* m_active_workers of every node is the number of workers that hold a lease on it,
\* whatever the number of workers and however their cubes end.
THEOREM LeasesAlwaysCounted == Spec => []LeasesCounted
<1>1. IInv => LeasesCounted
  BY DEF IInv, Leases, Count, LeasesCounted
<1> QED BY <1>1, SolverInvariant, PTL

\* While the search runs, cancel_closed_leases_unlocked has signaled exactly the
\* workers whose node is closed.
THEOREM ClosedLeasesSignaled == Spec => []ClosedLeaseSignaled
<1>1. IInv => ClosedLeaseSignaled
  BY DEF IInv, Signals, ClosedIn, is_lease_canceled, ClosedLeaseSignaled
<1> QED BY <1>1, SolverInvariant, PTL

\* Unless the caller cancels, inc_cancel and dec_cancel of each worker's limit are
\* balanced: the counter is what its lease and the end of the search owe.
THEOREM CancelAlwaysBalanced == Spec => []CancelBalanced
<1>1. IInv => CancelBalanced
  BY DEF IInv
<1> QED BY <1>1, SolverInvariant, PTL

\* A cancellation of the main limit is not undone by the dec_cancel of the leases:
\* while a worker still checks a cube, some thread that has not ended is canceled.
THEOREM CancelAlwaysHeard == Spec => []CancelHeard
  BY SolverInvariant, HeardFacts, PTL

\* The parallel solver implements Verdict: every decision that a worker or the core
\* minimizer makes is right for the formula and its assumptions and replaces none but
\* "unknown", and get_result returns the decision, or undef, or throws.
THEOREM SolverKeepsPromise == Spec => Refines
<1>1. Init => V!Init
  BY DEF Init, V!Init
<1>2. IInv /\ [Next]_vars => [V!Next]_(V!vars)
  <2> SUFFICES ASSUME IInv, [Next]_vars PROVE [V!Next]_(V!vars)
    OBVIOUS
  <2>1. CASE \E x \in Thread : Step(x)
    <3>1. PICK x \in Thread : Step(x)
      BY <2>1
    <3>2. answer = "none" /\ answer' = answer /\ formula' = formula /\ Verdicts
      BY <3>1 DEF Step, IInv, EndOK, caller, Manage
    <3>3. CASE UNCHANGED <<state, unsatCore>>
      BY <3>2, <3>3 DEF V!vars
    <3>4. CASE /\ state \in {"running", "unknown"} /\ state' = "sat" /\ UNCHANGED unsatCore
               /\ \E M \in formula : Asms \subseteq M
      BY <3>2, <3>4 DEF V!Next, V!DecideSat, V!Undecided
    <3>5. CASE /\ state \in {"running", "unknown"} /\ state' = "unsat"
               /\ unsatCore' \subseteq Asms /\ Unsat(unsatCore')
      BY <3>2, <3>5 DEF V!Next, V!DecideUnsat, V!Undecided, Unsat
    <3>6. CASE state = "running" /\ state' \in {"unknown", "exception"} /\ UNCHANGED unsatCore
      BY <3>2, <3>6 DEF V!Next, V!Fail
    <3> QED BY <3>2, <3>3, <3>4, <3>5, <3>6 DEF Verdicts
  <2>2. CASE get_result
    <3>1. answer = "none" /\ UNCHANGED <<formula, state, unsatCore>>
      BY <2>2 DEF get_result, Joined, problem, manager
    <3>2. answer' \in {"undef", "inconsistent", "exception"} \cup ({"sat", "unsat"} \cap {state})
      <4>1. main \in Nat /\ state \in {"running", "sat", "unsat", "unknown", "exception"}
        BY ThreadsAssumption, SMTT(30) DEF IInv, FieldTypes
      <4>2. CASE main > 0 \/ state = "unknown"
        <5>1. answer' = "undef"
          BY <2>2, <4>1, <4>2, SMTT(30) DEF get_result
        <5> QED BY <5>1
      <4>3. CASE main = 0 /\ state = "running"
        <5>1. answer' = "inconsistent"
          BY <2>2, <4>3, SMTT(30) DEF get_result
        <5> QED BY <5>1
      <4>4. CASE main = 0 /\ state \in {"sat", "unsat", "exception"}
        <5>1. answer' = state
          BY <2>2, <4>4, SMTT(30) DEF get_result
        <5> QED BY <4>4, <5>1
      <4> QED BY <4>1, <4>2, <4>3, <4>4, SMTT(30)
    <3> QED BY <3>1, <3>2 DEF V!Next, V!Answer
  <2>3. CASE cancel_main \/ reset_cancel \/ UNCHANGED vars
    <3>1. UNCHANGED <<formula, state, unsatCore, answer>>
      BY <2>3 DEF cancel_main, reset_cancel, vars, problem, manager, caller
    <3> QED BY <3>1 DEF V!vars
  <2> QED BY <2>1, <2>2, <2>3, StepKinds DEF CallerStep
<1> QED BY <1>1, <1>2, SolverInvariant, PTL DEF Spec, Refines, V!Spec
=============================================================================

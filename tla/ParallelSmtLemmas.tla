-------------------------- MODULE ParallelSmtLemmas -------------------------
(***************************************************************************)
(* The invariant of the parallel solver, and the steps of a worker that     *)
(* close no node.                                                           *)
(*                                                                         *)
(* Each step of a thread is shown to be a Step, which says in the terms of   *)
(* the invariant what a thread may do to what it shares with the others:     *)
(* the leases stay counted in the tree, counters are paid for the leases     *)
(* they stand for, a decision is right.  A Step keeps the invariant.         *)
(***************************************************************************)
EXTENDS ParallelSmt, SearchTreeLemmas

\* The leaves that name no prover go to Zenon.
USE ZenonT(30)

-----------------------------------------------------------------------------
(* The invariant.                                                          *)

ResultNames == {"none", "true", "false", "conflicts", "incomplete"}
Jobs(t) == [source : t.nodes \cup {NoNode}, core : SUBSET Lit]

\* The types that FieldTypes leaves open.
LocalTypes ==
    /\ res \in [Worker -> [r : ResultNames, core : SUBSET Lit]]
    /\ job \in Jobs(tree)

\* The number of leases on n.
Count(ls, n) == Cardinality({w \in Worker : ls[w].node = n})

\* The tree is as its own operations leave it, and the leases are counted in it.
Leases(t, ls, F) ==
    /\ Good(t, F) /\ Settled(t, Root) /\ Leased(t)
    /\ ls \in [Worker -> [node : t.nodes \cup {NoNode}, signaled : BOOLEAN]]
    /\ \A w \in Worker : ls[w].node = NoNode => ls[w].signaled = FALSE
    /\ \A n \in t.nodes : t.workers[n] = Count(ls, n)

\* The leases of closed nodes are signaled, and no others.
Signals(t, ls) ==
    \A w \in Worker : ls[w].node # NoNode => ls[w].signaled = ClosedIn(t, ls[w].node)

\* C refutes the formula, on the path of n and under the assumptions.
Refuted(n, C) == n \in tree.nodes /\ C \subseteq n \cup Asms /\ Unsat(C)

\* What a solver has answered is right.
ResultOK(w) ==
    /\ pc[w] = "enqueue" => res[w].r = "false"
    /\ pc[w] \in {"report", "enqueue"} =>
          /\ res[w].r = "true" => \E M \in formula : Asms \subseteq M
          /\ res[w].r = "false" => Refuted(held[w], res[w].core)

\* So are the cores that wait for the core minimizer, and the one it works on.
JobsOK ==
    /\ \A j \in DOMAIN jobs : j \in Jobs(tree) /\ Refuted(j.source, j.core)
    /\ CoreMinimize /\ pc[minimizer] \in {"minimize", "publish"} => Refuted(job.source, job.core)

\* The core minimizer only ends early when it is canceled, and stays so.
ExitOK == CoreMinimize /\ pc[minimizer] = "exit" => cancel[minimizer] > 0

\* Nobody runs any more when the limits are reset and when the answer is given.
EndOK == cleared \/ answer # "none" => \A x \in Thread : pc[x] = "done"

IInv ==
    /\ FieldTypes /\ LocalTypes
    /\ Leases(tree, lease, formula)
    /\ state = "running" => ~ClosedIn(tree, Root) /\ Signals(tree, lease)
    /\ \A w \in Worker : LeaseOK(w) /\ ResultOK(w)
    /\ JobsOK /\ ExitOK /\ EndOK /\ CancelBalanced

-----------------------------------------------------------------------------
(* The other branches that a core closes.                                  *)

\* The loop of BacktrackTargets: the target it comes to last, and one turn.
Latest(t, T, S) == CHOOSE n \in S : \A m \in S : Rank(t, T, m) <= Rank(t, T, n)
Turn(g, t, T, C, S) ==
    LET n == Latest(t, T, S)
        u == g[S \ {n}]
    IN  IF S = {} THEN t ELSE IF is_lease_canceled(u, n) THEN u ELSE backtrack(u, n, C)
IsRun(g, t, T, C) == g = [S \in SUBSET T |-> Turn(g, t, T, C, S)]

(* Some target of a set comes last.                                        *)
LEMMA LatestIn ==
  ASSUME NEW t, NEW T, IsFiniteSet(T), NEW S \in SUBSET T, S # {}
  PROVE  Latest(t, T, S) \in S
<1> DEFINE N == Cardinality(T)
           left == {N - Rank(t, T, n) : n \in S}
<1>1. N \in Nat
  BY FS_CardinalityType
<1>2. ASSUME NEW n PROVE Rank(t, T, n) \in 0 .. N
  <2> DEFINE B == {m \in T : Before(t, m, n)}
  <2>1. B \in SUBSET T
    OBVIOUS
  <2> HIDE DEF B
  <2>2. IsFiniteSet(B) /\ Cardinality(B) <= N
    BY <2>1, FS_Subset
  <2>3. Cardinality(B) \in Nat
    BY <2>2, FS_CardinalityType
  <2> QED BY <1>1, <2>2, <2>3, SMTT(30) DEF Rank, B
<1> HIDE DEF N
<1>3. left \in SUBSET Nat /\ left # {}
  BY <1>1, <1>2, SMTT(30)
<1>4. PICK x \in left : \A y \in left : x <= y
  <2> HIDE DEF left
  <2> QED BY <1>3, NatMin
<1>5. PICK n \in S : x = N - Rank(t, T, n)
  BY <1>4
<1>6. ASSUME NEW m \in S PROVE Rank(t, T, m) <= Rank(t, T, n)
  <2>1. N - Rank(t, T, m) \in left
    OBVIOUS
  <2>2. x <= N - Rank(t, T, m)
    BY <2>1, <1>4
  <2> QED BY <2>2, <1>1, <1>2, <1>5, SMTT(30)
<1> QED BY <1>6 DEF Latest

(* A turn depends on the turns before it only.                             *)
LEMMA TurnSame ==
  ASSUME NEW g, NEW h, NEW t, NEW T, NEW C, NEW S,
         S # {} => g[S \ {Latest(t, T, S)}] = h[S \ {Latest(t, T, S)}]
  PROVE  Turn(g, t, T, C, S) = Turn(h, t, T, C, S)
  BY DEF Turn

(* What is left of a set after its last target is smaller.                 *)
LEMMA Shrinks ==
  ASSUME NEW t, NEW T, IsFiniteSet(T), NEW S \in SUBSET T, S # {}
  PROVE  /\ S \ {Latest(t, T, S)} \in SUBSET T
         /\ Cardinality(S) \in Nat
         /\ Cardinality(S \ {Latest(t, T, S)}) = Cardinality(S) - 1
         /\ Cardinality(S) - 1 \in Nat
<1>1. IsFiniteSet(S)
  BY FS_Subset
<1>2. Latest(t, T, S) \in S
  BY LatestIn
<1>3. Cardinality(S) \in Nat /\ Cardinality(S) # 0
  BY <1>1, FS_CardinalityType, FS_EmptySet
<1>4. Cardinality(S \ {Latest(t, T, S)}) = Cardinality(S) - 1
  BY <1>1, <1>2, FS_RemoveElement
<1> QED BY <1>3, <1>4, SMTT(30)

(* The loop defines a tree for every set of targets.                       *)
LEMMA RunExists ==
  ASSUME NEW t, NEW T, IsFiniteSet(T), NEW C
  PROVE  \E g : IsRun(g, t, T, C)
<1> DEFINE Upto(g, k) == \A S \in SUBSET T : Cardinality(S) <= k => g[S] = Turn(g, t, T, C, S)
           bad == {k \in Nat : ~ \E g : Upto(g, k)}
<1>1. \A S \in SUBSET T : Cardinality(S) \in Nat /\ Cardinality(S) <= Cardinality(T)
  BY FS_Subset, FS_CardinalityType
<1>2. ASSUME NEW g, NEW k \in Nat, Upto(g, k)
      PROVE  \E h : Upto(h, k + 1) /\ h = [S \in SUBSET T |-> h[S]]
  <2> DEFINE h == [S \in SUBSET T |-> Turn(g, t, T, C, S)]
  <2>1. ASSUME NEW S \in SUBSET T, Cardinality(S) <= k + 1
        PROVE  h[S] = Turn(h, t, T, C, S)
    <3>1. CASE S = {}
      <4>1. \A f : Turn(f, t, T, C, S) = t
        BY <3>1 DEF Turn
      <4> HIDE DEF h
      <4>2. h[S] = Turn(g, t, T, C, S)
        BY DEF h
      <4> QED BY <4>1, <4>2
    <3>2. CASE S # {}
      <4> DEFINE R == S \ {Latest(t, T, S)}
      <4>1. R \in SUBSET T /\ Cardinality(R) <= k
        BY <2>1, <3>2, Shrinks, SMTT(30)
      <4> HIDE DEF R
      <4>2. g[R] = Turn(g, t, T, C, R) /\ h[R] = Turn(g, t, T, C, R)
        BY <4>1, <1>2
      <4>3. g[R] = h[R]
        BY <4>2
      <4> HIDE DEF h
      <4>4. g[S \ {Latest(t, T, S)}] = h[S \ {Latest(t, T, S)}]
        BY <4>3 DEF R
      <4>5. Turn(g, t, T, C, S) = Turn(h, t, T, C, S)
        BY <4>4, TurnSame, SMTT(30)
      <4>6. h[S] = Turn(g, t, T, C, S)
        BY DEF h
      <4> QED BY <4>5, <4>6
    <3> QED BY <3>1, <3>2
  <2> QED BY <2>1
<1>3. \E g : Upto(g, 0)
  <2> DEFINE g == [S \in SUBSET T |-> t]
  <2>1. ASSUME NEW S \in SUBSET T, Cardinality(S) <= 0 PROVE S = {}
    <3>1. IsFiniteSet(S)
      BY FS_Subset
    <3> QED BY <2>1, <3>1, <1>1, FS_EmptySet, SMTT(30)
  <2>2. Turn(g, t, T, C, {}) = t
    BY DEF Turn
  <2> HIDE DEF g
  <2>3. g[{}] = t
    BY DEF g
  <2> QED BY <2>1, <2>2, <2>3
<1> HIDE DEF Upto
<1>4. bad = {}
  <2> SUFFICES ASSUME bad # {} PROVE FALSE
    OBVIOUS
  <2>1. PICK k \in bad : \A j \in bad : k <= j
    <3>1. bad \in SUBSET Nat
      OBVIOUS
    <3> HIDE DEF bad
    <3> QED BY <3>1, NatMin
  <2>2. k # 0
    BY <1>3
  <2>3. k - 1 \in Nat /\ k - 1 \notin bad /\ (k - 1) + 1 = k
    BY <2>1, <2>2, SMTT(30)
  <2>4. PICK g : Upto(g, k - 1)
    BY <2>3
  <2>5. \E h : Upto(h, (k - 1) + 1)
    BY <1>2, <2>3, <2>4
  <2> QED BY <2>3, <2>5
<1>5. Cardinality(T) \in Nat
  BY FS_CardinalityType
<1>6. PICK g : Upto(g, Cardinality(T))
  BY <1>4, <1>5
<1>7. PICK h : Upto(h, Cardinality(T) + 1) /\ h = [S \in SUBSET T |-> h[S]]
  BY <1>2, <1>5, <1>6
<1>8. \A S \in SUBSET T : h[S] = Turn(h, t, T, C, S)
  <2> SUFFICES ASSUME NEW S \in SUBSET T PROVE h[S] = Turn(h, t, T, C, S)
    OBVIOUS
  <2>1. Cardinality(S) <= Cardinality(T) + 1
    BY <1>1, <1>5, SMTT(30)
  <2>2. Upto(h, Cardinality(T) + 1)
    BY <1>7
  <2> QED BY <2>1, <2>2 DEF Upto
<1>9. h = [S \in SUBSET T |-> Turn(h, t, T, C, S)]
  BY <1>7, <1>8
<1> QED BY <1>9 DEF IsRun

(* Backtracking on other branches with a core that is refuted and lies on  *)
(* each of their paths keeps the tree, and leaves nothing to resolve.      *)
LEMMA TargetsGood ==
  ASSUME NEW F \in Formulas, NEW t, Good(t, F), Settled(t, Root),
         NEW T \in SUBSET t.nodes, NEW C, C # {}, Refutes(F, C), \A n \in T : C \subseteq n,
         NEW u, u = BacktrackTargets(t, T, C)
  PROVE  Good(u, F) /\ Closes(t, u) /\ Settled(u, Root)
<1> DEFINE g == CHOOSE f : IsRun(f, t, T, C)
           J(S) == Good(g[S], F) /\ Closes(t, g[S]) /\ Settled(g[S], Root)
           bad == {k \in Nat : \E S \in SUBSET T : Cardinality(S) = k /\ ~J(S)}
<1>1. IsFiniteSet(T)
  BY FS_Subset DEF Good, Shape
<1>2. u = g[T]
  BY DEF BacktrackTargets, IsRun, Turn, Latest
<1>3. IsRun(g, t, T, C)
  BY <1>1, RunExists
<1>4. \A S \in SUBSET T : g[S] = Turn(g, t, T, C, S)
  BY <1>3 DEF IsRun
<1> HIDE DEF g
<1>5. J({})
  <2>1. g[{}] = t
    BY <1>4 DEF Turn
  <2> QED BY <2>1 DEF Closes, ClosedIn
<1>6. ASSUME NEW S \in SUBSET T, S # {}, J(S \ {Latest(t, T, S)})
      PROVE  J(S)
  <2> DEFINE n == Latest(t, T, S)
             v == g[S \ {n}]
  <2>1. n \in T
    BY <1>1, <1>6, LatestIn
  <2>2. Good(v, F) /\ Closes(t, v) /\ Settled(v, Root)
    BY <1>6
  <2>3. g[S] = IF is_lease_canceled(v, n) THEN v ELSE backtrack(v, n, C)
    BY <1>4, <1>6 DEF Turn
  <2>4. n \in v.nodes /\ C \subseteq n /\ C \subseteq n \cup Asms /\ C \cap n # {}
    BY <2>1, <2>2 DEF Closes
  <2> HIDE DEF n, v
  <2>5. CASE is_lease_canceled(v, n)
    BY <2>2, <2>3, <2>5
  <2>6. CASE ~is_lease_canceled(v, n)
    <3>1. g[S] = backtrack(v, n, C)
      BY <2>3, <2>6
    <3>2. Good(g[S], F) /\ Closes(v, g[S]) /\ Settled(g[S], Root)
      BY <3>1, <2>2, <2>4, BacktrackGood
    <3>3. Closes(t, g[S])
      BY <3>2, <2>2, ClosesTransitive
    <3> QED BY <3>2, <3>3
  <2> QED BY <2>5, <2>6
<1>7. bad = {}
  <2> SUFFICES ASSUME bad # {} PROVE FALSE
    OBVIOUS
  <2>1. PICK k \in bad : \A j \in bad : k <= j
    <3>1. bad \in SUBSET Nat
      OBVIOUS
    <3> HIDE DEF bad
    <3> QED BY <3>1, NatMin
  <2>2. PICK S \in SUBSET T : Cardinality(S) = k /\ ~J(S)
    BY <2>1
  <2>3. S # {}
    BY <2>2, <1>5
  <2> HIDE DEF J
  <2> DEFINE R == S \ {Latest(t, T, S)}
  <2>4. R \in SUBSET T /\ Cardinality(R) = k - 1 /\ k - 1 \in Nat
    BY <1>1, <2>2, <2>3, Shrinks, SMTT(30)
  <2>5. ~J(R)
    BY <1>6, <2>2, <2>3
  <2> HIDE DEF R
  <2>6. k - 1 \in bad
    BY <2>4, <2>5
  <2> QED BY <2>1, <2>4, <2>6, SMTT(30)
<1>8. J(T)
  <2>1. T \in SUBSET T /\ Cardinality(T) \in Nat
    BY <1>1, FS_CardinalityType
  <2> HIDE DEF J
  <2> QED BY <1>7, <2>1
<1> QED BY <1>2, <1>8

-----------------------------------------------------------------------------
(* Leases and the counters of the nodes.                                   *)

(* nullptr is not a node.                                                  *)
LEMMA NoNodeOutside ==
  ASSUME NEW t, TreeType(t)
  PROVE  NoNode \notin t.nodes
  BY ConstantsAssumption DEF TreeType, NoNode

\* Of all workers, w alone changes its node.
Moves(ls, ks, w) ==
    ks[w].node # ls[w].node /\ \A v \in Worker \ {w} : ks[v].node = ls[v].node

(* That makes one more on the new node, and one less on the old one.       *)
LEMMA CountMoved ==
  ASSUME NEW ls, NEW ks, NEW m, NEW w \in Worker, Moves(ls, ks, w)
  PROVE  /\ m = ks[w].node => Count(ks, m) = Count(ls, m) + 1
         /\ m = ls[w].node => Count(ks, m) = Count(ls, m) - 1
         /\ m # ks[w].node /\ m # ls[w].node => Count(ks, m) = Count(ls, m)
<1> USE DEF Moves
<1> DEFINE A == {v \in Worker : ls[v].node = m}
           B == {v \in Worker : ks[v].node = m}
<1>1. IsFiniteSet(A)
  BY ThreadsAssumption, FS_Subset
<1>2. CASE m = ks[w].node
  <2>1. B = A \cup {w} /\ w \notin A
    BY <1>2
  <2> HIDE DEF A, B
  <2>2. Cardinality(B) = Cardinality(A) + 1
    BY <1>1, <2>1, FS_AddElement
  <2> QED BY <1>2, <2>2 DEF Count, A, B
<1>3. CASE m = ls[w].node
  <2>1. B = A \ {w} /\ w \in A
    BY <1>3, SMTT(30)
  <2> HIDE DEF A, B
  <2>2. Cardinality(B) = Cardinality(A) - 1
    BY <1>1, <2>1, FS_RemoveElement
  <2> QED BY <1>3, <2>2 DEF Count, A, B
<1>4. CASE m # ks[w].node /\ m # ls[w].node
  <2>1. B = A
    BY <1>4
  <2> QED BY <1>4, <2>1 DEF Count
<1> QED BY <1>2, <1>3, <1>4

\* w takes the node n, or gives its lease back.
Takes(ls, ks, w, n) == ks = [ls EXCEPT ![w] = [node |-> n, signaled |-> FALSE]]
Gives(ls, ks, w) == ks = [ls EXCEPT ![w] = NoLease]

(* get_cube: a worker without a lease takes an open node.                  *)
LEMMA ActivateLeases ==
  ASSUME NEW F, NEW t, NEW ls, Leases(t, ls, F), NEW w \in Worker, ls[w].node = NoNode,
         NEW n \in t.nodes, ~ClosedIn(t, n),
         NEW u, u = mark_new_activation(t, n),
         NEW ks, Takes(ls, ks, w, n)
  PROVE  /\ Leases(u, ks, F) /\ SameClosure(t, u)
         /\ Signals(t, ls) => Signals(u, ks)
<1>1. TreeType(t) /\ NoNode \notin t.nodes
  BY NoNodeOutside DEF Leases, Good
<1>2. /\ TreeType(u) /\ Leased(u) /\ SameClosure(t, u)
      /\ u.workers = [t.workers EXCEPT ![n] = t.workers[n] + 1]
  BY <1>1, ActivateFacts DEF Leases
<1>3. Good(u, F) /\ Settled(u, Root)
  BY <1>2, SameClosureGood DEF Leases
<1>4. u.nodes = t.nodes /\ \A m \in t.nodes : ClosedIn(u, m) <=> ClosedIn(t, m)
  BY <1>2 DEF SameClosure
<1>5. /\ ks[w] = [node |-> n, signaled |-> FALSE] /\ \A v \in Worker \ {w} : ks[v] = ls[v]
      /\ ks \in [Worker -> [node : u.nodes \cup {NoNode}, signaled : BOOLEAN]]
  BY <1>4 DEF Leases, Takes
<1>6. \A v \in Worker : ks[v].node = NoNode => ks[v].signaled = FALSE
  BY <1>5, SMTT(30) DEF Leases
<1>7. ASSUME NEW m \in t.nodes PROVE u.workers[m] = Count(ks, m)
  <2>1. n # NoNode /\ m # NoNode
    BY <1>1
  <2>2. Count(ks, m) = IF m = n THEN Count(ls, m) + 1 ELSE Count(ls, m)
    <3>1. ks[w].node = n /\ \A v \in Worker \ {w} : ks[v].node = ls[v].node
      BY <1>5, SMTT(30)
    <3>2. Moves(ls, ks, w)
      BY <2>1, <3>1 DEF Moves
    <3>3. /\ m = ks[w].node => Count(ks, m) = Count(ls, m) + 1
          /\ m = ls[w].node => Count(ks, m) = Count(ls, m) - 1
          /\ m # ks[w].node /\ m # ls[w].node => Count(ks, m) = Count(ls, m)
      BY ONLY w \in Worker, <3>2, CountMoved, SMTT(30)
    <3>4. ls[w].node = NoNode
      OBVIOUS
    <3> QED BY <2>1, <3>1, <3>3, <3>4
  <2>3. u.workers[m] = IF m = n THEN t.workers[m] + 1 ELSE t.workers[m]
    BY <1>1, <1>2, SMTT(30) DEF TreeType
  <2> QED BY <2>2, <2>3 DEF Leases
<1>8. Leases(u, ks, F)
  BY <1>2, <1>3, <1>4, <1>5, <1>6, <1>7 DEF Leases
<1>9. ASSUME Signals(t, ls) PROVE Signals(u, ks)
  <2> SUFFICES ASSUME NEW v \in Worker, ks[v].node # NoNode
               PROVE  ks[v].signaled = ClosedIn(u, ks[v].node)
    BY DEF Signals
  <2>1. CASE v = w
    <3>1. ks[v].node = n /\ ks[v].signaled = FALSE
      BY <2>1, <1>5, SMTT(30)
    <3>2. u.status[n] # "closed"
      BY <1>4 DEF ClosedIn
    <3> QED BY <3>1, <3>2 DEF ClosedIn
  <2>2. CASE v # w
    <3>1. ks[v] = ls[v] /\ ls[v].node \in t.nodes
      BY <2>2, <1>5, SMTT(30) DEF Leases
    <3>2. ls[v].signaled = ClosedIn(t, ls[v].node)
      BY <3>1, <1>9 DEF Signals
    <3>3. u.status[ls[v].node] = "closed" <=> t.status[ls[v].node] = "closed"
      BY <3>1, <1>4 DEF ClosedIn
    <3> QED BY <3>1, <3>2, <3>3 DEF ClosedIn
  <2> QED BY <2>1, <2>2
<1> QED BY <1>2, <1>8, <1>9

(* release_worker_lease_unlocked: a worker gives its lease back.           *)
LEMMA ReleaseLeases ==
  ASSUME NEW F, NEW t, NEW ls, Leases(t, ls, F), NEW w \in Worker,
         NEW n \in t.nodes, ls[w].node = n,
         NEW u, u = dec_active_workers(t, n),
         NEW ks, Gives(ls, ks, w)
  PROVE  /\ Leases(u, ks, F) /\ SameClosure(t, u)
         /\ Signals(t, ls) => Signals(u, ks)
<1>1. TreeType(t) /\ NoNode \notin t.nodes
  BY NoNodeOutside DEF Leases, Good
<1>2. /\ TreeType(u) /\ Leased(u) /\ SameClosure(t, u)
      /\ u.workers = [t.workers EXCEPT ![n] = IF t.workers[n] > 0 THEN t.workers[n] - 1 ELSE 0]
  BY <1>1, ReleaseFacts DEF Leases
<1>3. Good(u, F) /\ Settled(u, Root)
  BY <1>2, SameClosureGood DEF Leases
<1>4. u.nodes = t.nodes /\ \A m \in t.nodes : ClosedIn(u, m) <=> ClosedIn(t, m)
  BY <1>2 DEF SameClosure
<1>5. /\ ks[w] = NoLease /\ \A v \in Worker \ {w} : ks[v] = ls[v]
      /\ ks \in [Worker -> [node : u.nodes \cup {NoNode}, signaled : BOOLEAN]]
  BY <1>4 DEF Leases, NoLease, Gives
<1>6. \A v \in Worker : ks[v].node = NoNode => ks[v].signaled = FALSE
  BY <1>5, SMTT(30) DEF Leases, NoLease
<1>7. ASSUME NEW m \in t.nodes PROVE u.workers[m] = Count(ks, m)
  <2>1. n # NoNode /\ m # NoNode
    BY <1>1
  <2>2. Count(ks, m) = IF m = n THEN Count(ls, m) - 1 ELSE Count(ls, m)
    <3>1. ks[w].node = NoNode /\ \A v \in Worker \ {w} : ks[v].node = ls[v].node
      BY <1>5, SMTT(30) DEF NoLease
    <3>2. Moves(ls, ks, w)
      BY <2>1, <3>1 DEF Moves
    <3>3. /\ m = ks[w].node => Count(ks, m) = Count(ls, m) + 1
          /\ m = ls[w].node => Count(ks, m) = Count(ls, m) - 1
          /\ m # ks[w].node /\ m # ls[w].node => Count(ks, m) = Count(ls, m)
      BY ONLY w \in Worker, <3>2, CountMoved, SMTT(30)
    <3>4. ls[w].node = n
      OBVIOUS
    <3> QED BY <2>1, <3>1, <3>3, <3>4
  <2>3. Count(ls, n) \in Nat /\ Count(ls, n) > 0
    <3> DEFINE A == {v \in Worker : ls[v].node = n}
    <3>1. IsFiniteSet(A) /\ w \in A
      BY ThreadsAssumption, FS_Subset
    <3> HIDE DEF A
    <3>2. Cardinality(A) \in Nat /\ Cardinality(A) # 0
      BY <3>1, FS_CardinalityType, FS_EmptySet
    <3> QED BY <3>2, SMTT(30) DEF Count, A
  <2>4. t.workers[n] = Count(ls, n) /\ t.workers[m] = Count(ls, m)
    BY DEF Leases
  <2>5. u.workers[m] = IF m = n THEN t.workers[m] - 1 ELSE t.workers[m]
    BY <1>1, <1>2, <2>3, <2>4, SMTT(30) DEF TreeType
  <2> QED BY <2>2, <2>4, <2>5
<1>8. Leases(u, ks, F)
  BY <1>2, <1>3, <1>4, <1>5, <1>6, <1>7 DEF Leases
<1>9. ASSUME Signals(t, ls) PROVE Signals(u, ks)
  <2> SUFFICES ASSUME NEW v \in Worker, ks[v].node # NoNode
               PROVE  ks[v].signaled = ClosedIn(u, ks[v].node)
    BY DEF Signals
  <2>1. v # w
    BY <1>5, SMTT(30) DEF NoLease
  <2>2. ks[v] = ls[v] /\ ls[v].node \in t.nodes
    BY <2>1, <1>5 DEF Leases
  <2>3. ls[v].signaled = ClosedIn(t, ls[v].node)
    BY <2>2, <1>9 DEF Signals
  <2>4. u.status[ls[v].node] = "closed" <=> t.status[ls[v].node] = "closed"
    BY <2>2, <1>4 DEF ClosedIn
  <2> QED BY <2>2, <2>3, <2>4 DEF ClosedIn
<1> QED BY <1>2, <1>8, <1>9

(* try_split: the new nodes are leased by nobody.                          *)
LEMMA SplitLeases ==
  ASSUME NEW F, NEW t, NEW ls, Leases(t, ls, F), NEW n \in t.nodes,
         NEW a \in Lit, ~path_contains_atom(n, a), NEW e \in Effort,
         NEW u \in try_split(t, n, a, e)
  PROVE  /\ Leases(u, ls, F) /\ Grown(t, u)
         /\ Signals(t, ls) => Signals(u, ls)
<1>1. Good(u, F) /\ Settled(u, Root) /\ Leased(u) /\ Grown(t, u)
  BY TrySplitGood DEF Leases
<1>2. TreeType(u) /\ NoNode \notin u.nodes
  BY <1>1, NoNodeOutside DEF Good
<1>3. \A v \in Worker : ls[v] \in [node : t.nodes \cup {NoNode}, signaled : BOOLEAN]
  BY DEF Leases
<1>4. ls \in [Worker -> [node : u.nodes \cup {NoNode}, signaled : BOOLEAN]]
  BY <1>1 DEF Leases, Grown
<1>5. ASSUME NEW m \in u.nodes PROVE u.workers[m] = Count(ls, m)
  <2>1. CASE m \in t.nodes
    BY <2>1, <1>1 DEF Grown, Leases
  <2>2. CASE m \notin t.nodes
    <3>1. {v \in Worker : ls[v].node = m} = {}
      BY <2>2, <1>2, <1>3
    <3> QED BY <3>1, <2>2, <1>1, FS_EmptySet DEF Grown, Count
  <2> QED BY <2>1, <2>2
<1>6. Leases(u, ls, F)
  BY <1>1, <1>4, <1>5 DEF Leases
<1>7. ASSUME Signals(t, ls) PROVE Signals(u, ls)
  <2> SUFFICES ASSUME NEW v \in Worker, ls[v].node # NoNode
               PROVE  ls[v].signaled = ClosedIn(u, ls[v].node)
    BY DEF Signals
  <2>1. ls[v].node \in t.nodes
    BY <1>3
  <2>2. ls[v].signaled = ClosedIn(t, ls[v].node)
    BY <1>7 DEF Signals
  <2>3. u.status[ls[v].node] = "closed" <=> t.status[ls[v].node] = "closed"
    BY <2>1, <1>1 DEF Grown, ClosedIn
  <2> QED BY <2>2, <2>3 DEF ClosedIn
<1> QED BY <1>1, <1>6, <1>7

(* cancel_closed_leases_unlocked: after a closing, the workers on closed   *)
(* nodes, and no others, have been signaled.                               *)
LEMMA CloseLeases ==
  ASSUME NEW F, NEW t, NEW ls, Leases(t, ls, F), Signals(t, ls),
         NEW u, Good(u, F), Closes(t, u), Settled(u, Root),
         NEW source, \A w \in source : ls[w].node = NoNode,
         NEW hit, hit = ToSignal(u, ls, source),
         NEW ks, ks = [w \in Worker |-> [ls[w] EXCEPT !.signaled = @ \/ w \in hit]]
  PROVE  /\ Leases(u, ks, F) /\ Signals(u, ks)
         /\ \A w \in Worker : /\ ks[w].node = ls[w].node
                              /\ ks[w].signaled = (ls[w].signaled \/ w \in hit)
                              /\ w \in hit => ~ls[w].signaled
<1>1. u.nodes = t.nodes /\ u.workers = t.workers
  BY DEF Closes
<1>2. \A w \in Worker : ls[w] \in [node : t.nodes \cup {NoNode}, signaled : BOOLEAN]
  BY DEF Leases
<1>3. ASSUME NEW w \in Worker
      PROVE  /\ ks[w] = [node |-> ls[w].node, signaled |-> ls[w].signaled \/ w \in hit]
             /\ ks[w].node = ls[w].node /\ ks[w].signaled = (ls[w].signaled \/ w \in hit)
  <2>1. ks[w] = [ls[w] EXCEPT !.signaled = @ \/ w \in hit]
    OBVIOUS
  <2>2. ls[w] \in [node : t.nodes \cup {NoNode}, signaled : BOOLEAN]
    BY <1>2
  <2> QED BY <2>1, <2>2
<1>4. \A w \in Worker : w \in hit => ls[w].node # NoNode /\ ~ls[w].signaled /\ ClosedIn(u, ls[w].node)
  BY DEF ToSignal, is_lease_canceled, ClosedIn
<1>5. ks \in [Worker -> [node : u.nodes \cup {NoNode}, signaled : BOOLEAN]]
  <2>1. \A w \in Worker : ks[w] \in [node : u.nodes \cup {NoNode}, signaled : BOOLEAN]
    BY <1>1, <1>2, <1>3
  <2>2. ks = [w \in Worker |-> ks[w]]
    OBVIOUS
  <2> QED BY <2>1, <2>2
<1>6. \A w \in Worker : ks[w].node = NoNode => ks[w].signaled = FALSE
  BY <1>3, <1>4, SMTT(30) DEF Leases
<1>7. ASSUME NEW m \in u.nodes PROVE u.workers[m] = Count(ks, m)
  <2>1. {w \in Worker : ks[w].node = m} = {w \in Worker : ls[w].node = m}
    BY <1>3
  <2> QED BY <2>1, <1>1 DEF Count, Leases
<1>8. Leased(u)
  BY ClosesLeased DEF Leases
<1>9. Leases(u, ks, F)
  BY <1>5, <1>6, <1>7, <1>8 DEF Leases
<1>10. ASSUME NEW w \in Worker, ks[w].node # NoNode
       PROVE  ks[w].signaled = ClosedIn(u, ks[w].node)
  <2> DEFINE n == ls[w].node
  <2>1. n \in t.nodes /\ n # NoNode /\ w \notin source
    BY <1>2, <1>3, <1>10
  <2>2. ls[w].signaled = ClosedIn(t, n) /\ ls[w].signaled \in BOOLEAN
    BY <1>2, <2>1 DEF Signals
  <2>3. ClosedIn(t, n) => ClosedIn(u, n)
    BY <2>1 DEF Closes
  <2>4. w \in hit <=> ~ls[w].signaled /\ ClosedIn(u, n)
    BY <2>1 DEF ToSignal, is_lease_canceled, ClosedIn
  <2>5. (ls[w].signaled \/ w \in hit) <=> ClosedIn(u, n)
    BY <2>2, <2>3, <2>4
  <2>6. (ls[w].signaled \/ w \in hit) = ClosedIn(u, n)
    BY <2>5 DEF ClosedIn
  <2> QED BY <2>6, <1>3
<1>11. Signals(u, ks)
  BY <1>10 DEF Signals
<1> QED BY <1>3, <1>4, <1>9, <1>11

-----------------------------------------------------------------------------
(* What the critical sections have in common.                              *)

States == {"running", "sat", "unsat", "unknown", "exception"}

\* The counters are cn, and one more for each thread when the manager stops now.
Counts(cn) ==
    /\ canceled' \in BOOLEAN /\ asleep' \in BOOLEAN /\ (canceled => canceled')
    /\ cancel' \in [Thread -> Nat]
    /\ \A x \in Thread : cancel'[x] = cn[x] + (IF canceled' /\ ~canceled THEN 1 ELSE 0)

(* cancel_background_threads.                                              *)
LEMMA StopCounts ==
  ASSUME canceled \in BOOLEAN, asleep \in BOOLEAN, NEW cn \in [Thread -> Nat],
         cancel_background_threads(cn)
  PROVE  Counts(cn) /\ canceled'
<1>1. canceled' /\ canceled' \in BOOLEAN /\ asleep' \in BOOLEAN
  BY DEF cancel_background_threads
<1>2. CASE canceled
  BY <1>1, <1>2, SMTT(30) DEF cancel_background_threads, Counts
<1>3. CASE ~canceled
  <2>1. cancel' = [x \in Thread |-> cn[x] + 1]
    BY <1>3 DEF cancel_background_threads
  <2> QED BY <1>1, <1>3, <2>1, SMTT(30) DEF Counts
<1> QED BY <1>2, <1>3

(* A section that leaves the counters alone.                               *)
LEMMA SameCounts ==
  ASSUME FieldTypes, UNCHANGED <<canceled, cancel, asleep>>
  PROVE  Counts(cancel)
  BY SMTT(30) DEF FieldTypes, Counts

(* set_canceled.                                                           *)
LEMMA SetCanceled ==
  ASSUME FieldTypes, set_canceled
  PROVE  /\ Counts(cancel) /\ UNCHANGED <<state, unsatCore>>
         /\ state = "running" => canceled'
<1>1. canceled \in BOOLEAN /\ asleep \in BOOLEAN /\ cancel \in [Thread -> Nat]
  BY DEF FieldTypes
<1>2. CASE state = "running"
  BY <1>1, <1>2, StopCounts DEF set_canceled
<1>3. CASE state # "running"
  BY <1>3, SameCounts DEF set_canceled
<1> QED BY <1>2, <1>3

(* set_sat, set_unsat, set_unknown, set_exception.                         *)
LEMMA SetState ==
  ASSUME FieldTypes, NEW s \in States \ {"running"}, NEW over, NEW C \in SUBSET Lit,
         set_state(s, over, C)
  PROVE  /\ Counts(cancel)
         /\ \/ state \in over /\ state' = s /\ unsatCore' = C /\ canceled'
            \/ state \notin over /\ UNCHANGED <<state, unsatCore, canceled, cancel, asleep>>
         /\ state' \in States /\ unsatCore' \in SUBSET Lit
         /\ state' = "running" => state = "running"
<1>1. /\ canceled \in BOOLEAN /\ asleep \in BOOLEAN /\ cancel \in [Thread -> Nat]
      /\ state \in States /\ unsatCore \in SUBSET Lit
  BY DEF FieldTypes, States
<1>2. CASE state \in over
  BY <1>1, <1>2, StopCounts DEF set_state
<1>3. CASE state \notin over
  BY <1>1, <1>3, SameCounts DEF set_state
<1> QED BY <1>2, <1>3

(* The counter of w once its lease is released.                            *)
LEMMA UncanceledFacts ==
  ASSUME FieldTypes, NEW w \in Worker
  PROVE  /\ Uncanceled(w) \in [Thread -> Nat]
         /\ \A x \in Thread \ {w} : Uncanceled(w)[x] = cancel[x]
         /\ Uncanceled(w)[w] = IF lease[w].signaled /\ cancel[w] > 0 THEN cancel[w] - 1 ELSE cancel[w]
<1>1. cancel \in [Thread -> Nat] /\ w \in Thread
  BY DEF FieldTypes, Thread
<1> QED BY <1>1, SMTT(30) DEF Uncanceled

\* The tree t is closed to u, and the leases ls and the counters cn follow.
AfterClosing(t, ls, cn, u) ==
    /\ tree' = u /\ u.nodes = t.nodes
    /\ Leases(tree', lease', formula) /\ Signals(tree', lease')
    /\ state' \in {"running", "unsat"}
    /\ state' = "running" => ~ClosedIn(tree', Root) /\ UNCHANGED unsatCore
    /\ state' = "unsat" => unsatCore' \subseteq Asms /\ Unsat(unsatCore') /\ canceled'
    /\ \A w \in Worker : /\ lease'[w].node = ls[w].node
                         /\ ls[w].node = NoNode => lease'[w].signaled = FALSE
    /\ \E dn \in [Thread -> Nat] :
          /\ Counts(dn)
          /\ \A x \in Thread \ Worker : dn[x] = cn[x]
          /\ \A w \in Worker :
                \/ ~ls[w].signaled /\ lease'[w].signaled /\ dn[w] = cn[w] + 1
                \/ lease'[w].signaled = ls[w].signaled /\ dn[w] = cn[w]

(* backtrack, on a node and on other branches, and what follows it.  The   *)
(* leases ls and the counters cn are those of the workers after the worker *)
(* that found the core has given its own lease back.                       *)
LEMMA ClosingFacts ==
  ASSUME formula \in Formulas, canceled \in BOOLEAN, asleep \in BOOLEAN, unsatCore \subseteq Lit,
         state = "running",
         NEW t, NEW ls, Leases(t, ls, formula), Signals(t, ls),
         NEW u, Good(u, formula), Closes(t, u), Settled(u, Root),
         NEW source, \A w \in source : ls[w].node = NoNode,
         NEW cn \in [Thread -> Nat],
         Closing(u, ls, cn, source)
  PROVE  AfterClosing(t, ls, cn, u)
<1> DEFINE hit == ToSignal(u, ls, source)
           ks == [w \in Worker |-> [ls[w] EXCEPT !.signaled = @ \/ w \in hit]]
           dn == [x \in Thread |-> IF x \in hit THEN cn[x] + 1 ELSE cn[x]]
<1>1. tree' = u /\ lease' = ks
  BY DEF Closing
<1>2. \/ /\ is_closed(u) /\ state' = "unsat" /\ unsatCore' = u.core[Root]
         /\ cancel_background_threads(dn)
      \/ ~is_closed(u) /\ cancel' = dn /\ UNCHANGED <<state, unsatCore, canceled, asleep>>
  BY DEF Closing
<1>3. hit = ToSignal(u, ls, source) /\ hit \subseteq Worker
  BY DEF ToSignal
<1>4. dn \in [Thread -> Nat]
  BY SMTT(30)
<1>5. /\ \A x \in Thread : x \in hit => dn[x] = cn[x] + 1
      /\ \A x \in Thread : x \notin hit => dn[x] = cn[x]
  OBVIOUS
<1> HIDE DEF hit, dn
<1>6. /\ Leases(u, ks, formula) /\ Signals(u, ks)
      /\ \A w \in Worker : /\ ks[w].node = ls[w].node
                           /\ ks[w].signaled = (ls[w].signaled \/ w \in hit)
                           /\ w \in hit => ~ls[w].signaled
  BY <1>3, CloseLeases, SMTT(30)
<1> HIDE DEF ks
<1>7. Counts(dn) /\ (state' = "unsat" => canceled')
  <2>1. CASE is_closed(u)
    BY <1>2, <1>4, <2>1, StopCounts
  <2>2. CASE ~is_closed(u)
    <3>1. cancel' = dn /\ UNCHANGED <<state, unsatCore, canceled, asleep>>
      BY <1>2, <2>2
    <3> QED BY <3>1, <1>4, SMTT(30) DEF Counts
  <2> QED BY <2>1, <2>2
<1>8. /\ state' \in {"running", "unsat"}
      /\ state' = "running" => ~ClosedIn(u, Root) /\ UNCHANGED unsatCore
      /\ state' = "unsat" => ClosedIn(u, Root) /\ unsatCore' = u.core[Root]
  BY <1>2 DEF is_closed, ClosedIn
<1>9. ASSUME ClosedIn(u, Root) PROVE u.core[Root] \subseteq Asms /\ Unsat(u.core[Root])
  BY <1>9 DEF Good, TreeType, CoresOK, Refutes, Unsat, Root
<1>10. state' = "unsat" => unsatCore' \subseteq Asms /\ Unsat(unsatCore')
  BY <1>8, <1>9
<1>11. \A w \in Worker : ls[w].node = NoNode => ks[w].signaled = FALSE
  BY <1>6 DEF Leases
<1>12. ASSUME NEW w \in Worker
       PROVE  \/ ~ls[w].signaled /\ ks[w].signaled /\ dn[w] = cn[w] + 1
              \/ ks[w].signaled = ls[w].signaled /\ dn[w] = cn[w]
  <2>1. w \in Thread
    BY DEF Thread
  <2>2. CASE w \in hit
    BY <2>1, <2>2, <1>5, <1>6
  <2>3. CASE w \notin hit
    <3>1. ls[w] \in [node : t.nodes \cup {NoNode}, signaled : BOOLEAN]
      BY DEF Leases
    <3>2. ks[w].signaled = ls[w].signaled
      BY <3>1, <2>3, <1>6
    <3> QED BY <3>2, <2>1, <2>3, <1>5
  <2> QED BY <2>2, <2>3
<1>13. \A x \in Thread \ Worker : dn[x] = cn[x]
  BY <1>3, <1>5
<1>14. u.nodes = t.nodes
  BY DEF Closes
<1> QED BY <1>1, <1>4, <1>6, <1>7, <1>8, <1>10, <1>11, <1>12, <1>13, <1>14 DEF AfterClosing

-----------------------------------------------------------------------------
(* What a step of a thread does, in the terms of the invariants.           *)

\* The thread x changes its own place and its own variables only.
Local(x) ==
    /\ pc' \in [Thread -> Location] /\ \A y \in Thread \ {x} : pc'[y] = pc[y]
    /\ first' \in [Worker -> BOOLEAN]
    /\ held' \in [Worker -> tree'.nodes \cup {NoNode}]
    /\ res' \in [Worker -> [r : ResultNames, core : SUBSET Lit]]
    /\ \A v \in Worker \ {x} : held'[v] = held[v] /\ res'[v] = res[v]

\* The tree grows or closes, and x changes the node of its own lease only.
Manage(x) ==
    /\ formula' = formula /\ engine' = engine
    /\ state' \in States /\ unsatCore' \subseteq Lit
    /\ state' = "running" => state = "running"
    /\ tree.nodes \subseteq tree'.nodes
    /\ Leases(tree', lease', formula)
    /\ state' = "running" => ~ClosedIn(tree', Root) /\ Signals(tree', lease')
    /\ \A v \in Worker \ {x} : lease'[v].node = lease[v].node

\* inc_cancel for a lease that is signaled, dec_cancel for one that is released
\* while the search runs.
Pays(cn) ==
    \A v \in Worker :
        \/ lease'[v].signaled = lease[v].signaled /\ cn[v] = cancel[v]
        \/ ~lease[v].signaled /\ lease'[v].signaled /\ cn[v] = cancel[v] + 1
        \/ /\ state = "running" /\ lease[v].signaled /\ ~lease'[v].signaled
           /\ cn[v] = IF cancel[v] > 0 THEN cancel[v] - 1 ELSE cancel[v]

Paid ==
    \E cn \in [Thread -> Nat] :
        Counts(cn) /\ Pays(cn) /\ \A x \in Thread \ Worker : cn[x] = cancel[x]

\* A decision is right, and replaces no other one.
Verdicts ==
    \/ UNCHANGED <<state, unsatCore>>
    \/ /\ state \in {"running", "unknown"} /\ state' = "sat" /\ UNCHANGED unsatCore
       /\ \E M \in formula : Asms \subseteq M
    \/ /\ state \in {"running", "unknown"} /\ state' = "unsat"
       /\ unsatCore' \subseteq Asms /\ Unsat(unsatCore')
    \/ state = "running" /\ state' \in {"unknown", "exception"} /\ UNCHANGED unsatCore

\* Who stops the manager, and who ends.
Stops(x) ==
    /\ state' = state \/ canceled' \/ (engine = "tactic" /\ state' = "unknown")
    /\ state' = "running" /\ canceled' /\ ~canceled =>
          x \in exhausted' \/ (cancel[x] > 0 /\ (x \in Worker => ~lease[x].signaled))
    /\ state' = "running" /\ ~canceled' => pc'[x] # "done"
    /\ \/ x \notin Worker
       \/ ~lease'[x].signaled
       \/ \A v \in Worker : lease'[v].signaled => lease[v].signaled

Step(x) ==
    /\ pc[x] # "done" /\ Local(x) /\ Manage(x) /\ Paid /\ Verdicts /\ Stops(x)
    /\ UNCHANGED <<main, caller>>
    /\ exhausted \subseteq exhausted' /\ exhausted' \subseteq Worker /\ backbones' \subseteq Lit
    /\ x \in Worker => LeaseOK(x)' /\ ResultOK(x)'
    /\ JobsOK' /\ job' \in Jobs(tree') /\ (x \notin Worker => ExitOK')

(* Steps that leave the tree and the leases alone.                         *)
LEMMA QuietStep ==
  ASSUME IInv, NEW x, UNCHANGED <<formula, engine, tree, lease>>,
         state' \in States, unsatCore' \subseteq Lit, state' = "running" => state = "running",
         Counts(cancel)
  PROVE  /\ Manage(x) /\ Paid
         /\ \A v \in Worker : lease'[v].signaled => lease[v].signaled
<1>1. Manage(x)
  BY DEF IInv, Manage
<1>2. cancel \in [Thread -> Nat]
  BY DEF IInv, FieldTypes
<1>3. Pays(cancel)
  BY DEF Pays
<1> QED BY <1>1, <1>2, <1>3 DEF Paid

(* Steps of a worker that leave the jobs alone.                            *)
LEMMA JobsKept ==
  ASSUME IInv, NEW x, x # minimizer, Local(x), Manage(x), UNCHANGED <<jobs, job>>
  PROVE  JobsOK' /\ job' \in Jobs(tree')
<1>1. \A n, C : Refuted(n, C) => Refuted(n, C)'
  BY DEF Refuted, Manage, Unsat
<1>2. \A j : j \in Jobs(tree) => j \in Jobs(tree')
  BY DEF Jobs, Manage
<1>3. CoreMinimize => pc'[minimizer] = pc[minimizer]
  BY DEF Local, Thread
<1>4. job' \in Jobs(tree')
  BY <1>2 DEF IInv, LocalTypes
<1>5. \A j \in DOMAIN jobs : j \in Jobs(tree') /\ Refuted(j.source, j.core)'
  BY <1>1, <1>2 DEF IInv, JobsOK
<1>6. CoreMinimize /\ pc'[minimizer] \in {"minimize", "publish"} => Refuted(job.source, job.core)'
  BY <1>1, <1>3 DEF IInv, JobsOK
<1> QED BY <1>4, <1>5, <1>6 DEF JobsOK

(* The step of one thread keeps what the other workers rely on.            *)
LEMMA OthersKept ==
  ASSUME IInv, NEW x, Local(x), Manage(x), NEW v \in Worker \ {x}
  PROVE  LeaseOK(v)' /\ ResultOK(v)'
<1>1. pc'[v] = pc[v] /\ held'[v] = held[v] /\ res'[v] = res[v] /\ lease'[v].node = lease[v].node
  BY DEF Local, Manage, Thread
<1>2. Refuted(held[v], res[v].core) => Refuted(held[v], res[v].core)'
  BY <1>1 DEF Refuted, Manage, Unsat
<1>3. LeaseOK(v) /\ ResultOK(v)
  BY DEF IInv
<1>4. LeaseOK(v)'
  BY <1>1, <1>3 DEF LeaseOK, Manage
<1>5. ResultOK(v)'
  BY <1>1, <1>2, <1>3 DEF ResultOK, Manage, Refuted, Unsat
<1> QED BY <1>4, <1>5

(* Paid keeps CancelBalanced.                                              *)
LEMMA BalanceKept ==
  ASSUME FieldTypes, CancelBalanced, Paid, UNCHANGED <<main, cleared>>,
         \A v \in Worker : lease'[v].signaled \in BOOLEAN
  PROVE  CancelBalanced'
<1> SUFFICES ASSUME main = 0, ~cleared, NEW v \in Worker
             PROVE  cancel'[v] = (IF lease'[v].signaled THEN 1 ELSE 0) + (IF canceled' THEN 1 ELSE 0)
  BY DEF CancelBalanced
<1>1. PICK cn \in [Thread -> Nat] : Counts(cn) /\ Pays(cn)
  BY DEF Paid
<1>2. v \in Thread /\ cancel[v] \in Nat /\ lease[v].signaled \in BOOLEAN /\ canceled \in BOOLEAN
  BY DEF FieldTypes, Thread
<1>3. cancel[v] = (IF lease[v].signaled THEN 1 ELSE 0) + (IF canceled THEN 1 ELSE 0)
  BY DEF CancelBalanced
<1>4. cn[v] = (IF lease'[v].signaled THEN 1 ELSE 0) + (IF canceled THEN 1 ELSE 0)
  BY <1>1, <1>2, <1>3, SMTT(30) DEF Pays
<1>5. /\ cancel'[v] = cn[v] + (IF canceled' /\ ~canceled THEN 1 ELSE 0)
      /\ canceled' \in BOOLEAN /\ (canceled => canceled')
  BY <1>1, <1>2 DEF Counts
<1> QED BY <1>2, <1>4, <1>5, SMTT(30)

(* Every step of a thread keeps the invariant.                             *)
LEMMA StepKeeps ==
  ASSUME IInv, NEW x \in Thread, Step(x)
  PROVE  IInv'
<1>1. /\ pc[x] # "done" /\ Local(x) /\ Manage(x) /\ Paid
      /\ UNCHANGED <<main, cleared, answer>>
      /\ exhausted' \subseteq Worker /\ backbones' \subseteq Lit
      /\ JobsOK' /\ job' \in Jobs(tree')
  BY DEF Step, caller
<1>2. /\ TreeType(tree')
      /\ lease' \in [Worker -> [node : tree'.nodes \cup {NoNode}, signaled : BOOLEAN]]
  BY <1>1 DEF Manage, Leases, Good
<1>3. canceled' \in BOOLEAN /\ asleep' \in BOOLEAN /\ cancel' \in [Thread -> Nat]
  BY <1>1 DEF Paid, Counts
<1>4. LocalTypes'
  BY <1>1 DEF Local, LocalTypes
<1>5. \A w \in Worker : res'[w].core \subseteq Lit
  BY <1>4 DEF LocalTypes
<1>6. FieldTypes'
  BY <1>1, <1>2, <1>3, <1>5 DEF IInv, FieldTypes, Local, Manage, States
<1>7. ASSUME NEW v \in Worker PROVE LeaseOK(v)' /\ ResultOK(v)'
  <2>1. CASE v = x
    BY <2>1 DEF Step
  <2>2. CASE v # x
    BY <2>2, <1>1, OthersKept
  <2> QED BY <2>1, <2>2
<1>8. EndOK'
  BY <1>1 DEF IInv, EndOK
<1>9. CancelBalanced'
  <2>1. \A v \in Worker : lease'[v].signaled \in BOOLEAN
    BY <1>2
  <2> QED BY <2>1, <1>1, BalanceKept DEF IInv
<1>10. /\ Leases(tree', lease', formula')
       /\ state' = "running" => ~ClosedIn(tree', Root) /\ Signals(tree', lease')
  BY <1>1 DEF Manage
<1>11. ExitOK'
  <2>1. CASE x \notin Worker
    BY <2>1 DEF Step
  <2>2. CASE x \in Worker
    <3> SUFFICES ASSUME CoreMinimize, pc'[minimizer] = "exit" PROVE cancel'[minimizer] > 0
      BY DEF ExitOK
    <3>1. minimizer \in Thread \ Worker /\ minimizer # x
      BY <2>2, ThreadsAssumption DEF Thread
    <3>2. cancel[minimizer] > 0 /\ cancel[minimizer] \in Nat
      BY <1>1, <3>1 DEF Local, IInv, ExitOK, FieldTypes
    <3>3. PICK cn \in [Thread -> Nat] : Counts(cn) /\ cn[minimizer] = cancel[minimizer]
      BY <1>1, <3>1 DEF Paid
    <3>4. cancel'[minimizer] = cn[minimizer] + (IF canceled' /\ ~canceled THEN 1 ELSE 0)
      BY <3>1, <3>3 DEF Counts
    <3> QED BY <3>2, <3>3, <3>4, SMTT(30)
  <2> QED BY <2>1, <2>2
<1> QED BY <1>1, <1>4, <1>6, <1>7, <1>8, <1>9, <1>10, <1>11 DEF IInv

-----------------------------------------------------------------------------
(* The steps of a worker.                                                  *)

(* A worker is a thread, and not the core minimizer.                       *)
LEMMA WorkerThread ==
  ASSUME NEW w \in Worker
  PROVE  w \in Thread /\ w # minimizer
  BY ThreadsAssumption DEF Thread

(* A tree that is not closed always has a node to work on.                 *)
LEMMA NodeToSelect ==
  ASSUME NEW t, TreeType(t), Shape(t), NEW target \in Status, NEW n \in NonClosedFrom(t, Root),
         t.status[n] = target
  PROVE  select_next_node(t, target) # {}
<1> DEFINE cands == {m \in NonClosedFrom(t, Root) : t.status[m] = target}
           eff == {scaled_effort(t, m) : m \in cands}
<1>1. cands \subseteq t.nodes /\ n \in cands
  BY DEF NonClosedFrom, Subtree
<1>2. ASSUME NEW m \in t.nodes PROVE scaled_effort(t, m) \in Nat /\ Depth(m) \in Nat
  <2>1. t.effort[m] \in Nat /\ EffortUnit \in Nat \ {0} /\ IsFiniteSet(m)
    BY ConstantsAssumption, SMTT(30) DEF TreeType, Shape
  <2>2. \A a \in Nat, b \in Nat \ {0} : a \div b \in Nat
    BY SMTT(30)
  <2> QED BY <2>1, <2>2, FS_CardinalityType DEF scaled_effort, Depth
<1>3. eff \in SUBSET Nat /\ eff # {}
  BY <1>1, <1>2
<1>4. PICK e \in eff : \A f \in eff : e <= f
  <2> HIDE DEF eff
  <2> QED BY <1>3, NatMin
<1> DEFINE best == {m \in cands : scaled_effort(t, m) = e}
           N == Cardinality(UNION t.nodes)
           left == {N - Depth(m) : m \in best}
<1>5. best # {} /\ best \subseteq cands
  BY <1>4
<1>6. N \in Nat /\ \A m \in t.nodes : Depth(m) <= N
  <2>1. IsFiniteSet(UNION t.nodes)
    BY FS_UNION DEF Shape
  <2>2. \A m \in t.nodes : m \in SUBSET (UNION t.nodes)
    OBVIOUS
  <2> QED BY <2>1, <2>2, FS_CardinalityType, FS_Subset DEF Depth
<1>7. left \in SUBSET Nat /\ left # {}
  <2> HIDE DEF N, best, cands
  <2>1. \A m \in best : Depth(m) \in Nat /\ Depth(m) <= N
    BY <1>1, <1>2, <1>5, <1>6
  <2> QED BY <2>1, <1>5, <1>6, SMTT(30)
<1>8. PICK d \in left : \A f \in left : d <= f
  <2> HIDE DEF left
  <2> QED BY <1>7, NatMin
<1>9. PICK m \in best : d = N - Depth(m)
  BY <1>8
<1>10. ASSUME NEW k \in cands PROVE ~better(t, k, m)
  <2>1. /\ scaled_effort(t, m) = e /\ e <= scaled_effort(t, k)
        /\ Depth(m) \in Nat /\ Depth(k) \in Nat /\ scaled_effort(t, k) \in Nat /\ e \in Nat
    BY <1>1, <1>2, <1>3, <1>4, <1>9
  <2>2. CASE scaled_effort(t, k) # e
    BY <2>1, <2>2, SMTT(30) DEF better
  <2>3. CASE scaled_effort(t, k) = e
    <3>1. N - Depth(k) \in left
      BY <2>3
    <3> HIDE DEF N, left
    <3>2. N - Depth(m) <= N - Depth(k)
      BY <3>1, <1>8, <1>9
    <3> QED BY <2>1, <2>3, <3>2, <1>6, SMTT(30) DEF better
  <2> QED BY <2>2, <2>3
<1> QED BY <1>9, <1>10 DEF select_next_node

(* The nodes that get_cube chooses from are open, and there is one.        *)
LEMMA CubeNodesOpen ==
  ASSUME IInv, ~ClosedIn(tree, Root), NEW w \in Worker
  PROVE  CubeNodes(w) # {} /\ \A n \in CubeNodes(w) : n \in tree.nodes /\ ~ClosedIn(tree, n)
<1>1. TreeType(tree) /\ Shape(tree) /\ Root \in tree.nodes
  BY DEF IInv, Leases, Good, TreeType
<1>2. \A s \in {"open", "active"} : \A n \in select_next_node(tree, s) :
         n \in tree.nodes /\ ~ClosedIn(tree, n)
  BY DEF select_next_node, NonClosedFrom, Subtree, ClosedIn
<1>3. Root \in NonClosedFrom(tree, Root) /\ tree.status[Root] \in {"open", "active"}
  BY <1>1 DEF NonClosedFrom, Subtree, Ancestors, Root, ClosedIn, TreeType, Status
<1>4. activate_best_node(tree) # {}
  <2>1. CASE tree.status[Root] = "open"
    BY <1>1, <1>3, <2>1, NodeToSelect DEF activate_best_node, Status
  <2>2. CASE tree.status[Root] = "active"
    BY <1>1, <1>3, <2>2, NodeToSelect DEF activate_best_node, Status
  <2> QED BY <1>3, <2>1, <2>2
<1>5. \A n \in activate_best_node(tree) : n \in tree.nodes /\ ~ClosedIn(tree, n)
  BY <1>2 DEF activate_best_node
<1> QED BY <1>1, <1>4, <1>5 DEF CubeNodes

(* get_cube.                                                               *)
LEMMA GetCube ==
  ASSUME IInv, NEW w \in Worker, get_cube(w)
  PROVE  Step(w)
<1>1. /\ pc[w] \in {"get", "share"} /\ w \in Thread /\ w # minimizer
      /\ UNCHANGED <<problem, state, unsatCore, canceled, limits, res, minim, backbones, caller>>
  BY WorkerThread DEF get_cube
<1>2. /\ FieldTypes /\ LocalTypes /\ Leases(tree, lease, formula) /\ LeaseOK(w)
      /\ state = "running" => ~ClosedIn(tree, Root) /\ Signals(tree, lease)
  BY DEF IInv
<1>3. /\ pc[w] # "done" /\ UNCHANGED <<main, caller>> /\ exhausted \subseteq exhausted'
      /\ exhausted' \subseteq Worker /\ backbones' \subseteq Lit /\ Verdicts
      /\ UNCHANGED <<formula, engine, state, unsatCore, canceled, asleep, cancel, jobs, job>>
  BY <1>1, <1>2 DEF FieldTypes, Verdicts, problem, limits, minim
<1>4. Counts(cancel)
  BY <1>2, <1>3, SameCounts
<1>5. CASE is_closed(tree) \/ state # "running" \/ CubeNodes(w) = {}
  <2>1. pc' = [pc EXCEPT ![w] = "done"] /\ UNCHANGED <<tree, lease, first, held, res>>
    BY <1>1, <1>5 DEF get_cube, goto
  <2>2. state # "running"
    BY <1>2, <1>5, CubeNodesOpen DEF is_closed, ClosedIn
  <2>3. Manage(w) /\ Paid /\ \A v \in Worker : lease'[v].signaled => lease[v].signaled
    BY <1>2, <1>3, <1>4, <2>1, QuietStep DEF FieldTypes, States
  <2>4. Local(w) /\ pc'[w] = "done"
    BY <1>1, <1>2, <2>1 DEF FieldTypes, LocalTypes, Local, Location
  <2>5. Stops(w)
    BY <1>3, <2>2, <2>3 DEF Stops
  <2>6. LeaseOK(w)' /\ ResultOK(w)'
    BY <2>4 DEF LeaseOK, ResultOK
  <2>7. JobsOK' /\ job' \in Jobs(tree')
    BY <1>1, <1>3, <2>3, <2>4, JobsKept
  <2> QED BY <1>3, <2>3, <2>4, <2>5, <2>6, <2>7 DEF Step
<1>6. CASE ~(is_closed(tree) \/ state # "running" \/ CubeNodes(w) = {})
  <2>1. PICK n \in CubeNodes(w) :
          /\ tree' = mark_new_activation(tree, n)
          /\ lease' = [lease EXCEPT ![w] = [node |-> n, signaled |-> FALSE]]
          /\ held' = [held EXCEPT ![w] = n]
          /\ first' = [first EXCEPT ![w] = FALSE]
          /\ pc' = [pc EXCEPT ![w] = "check"]
    BY <1>6 DEF get_cube, goto
  <2>2. /\ state = "running" /\ ~ClosedIn(tree, Root) /\ Signals(tree, lease)
        /\ n \in tree.nodes /\ ~ClosedIn(tree, n) /\ lease[w].node = NoNode
    BY <1>1, <1>2, <1>6, CubeNodesOpen DEF LeaseOK
  <2>3. Leases(tree', lease', formula) /\ SameClosure(tree, tree') /\ Signals(tree', lease')
    <3>1. Leases(tree, lease, formula)
      BY <1>2
    <3>2. tree' = mark_new_activation(tree, n)
      BY <2>1
    <3>3. Takes(lease, lease', w, n)
      BY <2>1 DEF Takes
    <3> QED BY ONLY w \in Worker, <3>1, <3>2, <3>3, <2>2, ActivateLeases, Zenon
  <2>4. tree'.nodes = tree.nodes /\ (ClosedIn(tree', Root) <=> ClosedIn(tree, Root))
    BY <1>2, <2>3 DEF SameClosure, FieldTypes, TreeType
  <2>5. /\ lease'[w] = [node |-> n, signaled |-> FALSE]
        /\ \A v \in Worker \ {w} : lease'[v] = lease[v]
    BY <1>2, <2>1 DEF FieldTypes
  <2>6. Manage(w)
    BY <1>2, <1>3, <2>2, <2>3, <2>4, <2>5 DEF Manage, FieldTypes, States
  <2>7. /\ pc' \in [Thread -> Location] /\ pc'[w] = "check" /\ held'[w] = n
        /\ Local(w)
    BY <1>1, <1>2, <2>1, <2>2, <2>4 DEF FieldTypes, LocalTypes, Local, Location
  <2>8. ~lease[w].signaled /\ \A v \in Worker : lease'[v].signaled = lease[v].signaled
    <3>1. lease[w].signaled = FALSE
      BY <1>2, <2>2 DEF Leases
    <3>2. lease'[w].signaled = FALSE
      BY <2>5, SMTT(30)
    <3>3. \A v \in Worker \ {w} : lease'[v].signaled = lease[v].signaled
      BY <2>5
    <3> QED BY <3>1, <3>2, <3>3
  <2>9. Paid
    BY <1>2, <1>4, <2>8 DEF Paid, Pays, FieldTypes
  <2>10. Stops(w)
    BY <1>3, <2>5, <2>7, SMTT(30) DEF Stops
  <2>11. LeaseOK(w)' /\ ResultOK(w)'
    BY <2>2, <2>4, <2>5, <2>7, SMTT(30) DEF LeaseOK, ResultOK
  <2>12. JobsOK' /\ job' \in Jobs(tree')
    BY <1>1, <1>3, <2>6, <2>7, JobsKept
  <2> QED BY <1>3, <2>6, <2>7, <2>9, <2>10, <2>11, <2>12 DEF Step
<1> QED BY <1>5, <1>6

(* A worker moves on, and may forget its cube or keep a result.            *)
LEMMA LocalStep ==
  ASSUME IInv, NEW x \in Thread, NEW l \in Location, tree.nodes \subseteq tree'.nodes,
         NEW n \in {NoNode}, NEW r \in [r : ResultNames, core : SUBSET Lit],
         pc' = [pc EXCEPT ![x] = l], first' = first,
         held' = held \/ held' = [held EXCEPT ![x] = n],
         res' = res \/ res' = [res EXCEPT ![x] = r]
  PROVE  Local(x) /\ pc'[x] = l
<1>1. /\ pc \in [Thread -> Location] /\ held \in [Worker -> tree.nodes \cup {NoNode}]
      /\ first \in [Worker -> BOOLEAN] /\ res \in [Worker -> [r : ResultNames, core : SUBSET Lit]]
  BY DEF IInv, FieldTypes, LocalTypes
<1>2. /\ pc' \in [Thread -> Location] /\ pc'[x] = l
      /\ \A y \in Thread \ {x} : pc'[y] = pc[y]
  BY <1>1
<1>3. /\ held' \in [Worker -> tree'.nodes \cup {NoNode}]
      /\ \A v \in Worker \ {x} : held'[v] = held[v]
  BY <1>1
<1>4. /\ res' \in [Worker -> [r : ResultNames, core : SUBSET Lit]]
      /\ \A v \in Worker \ {x} : res'[v] = res[v]
  BY <1>1
<1> QED BY <1>1, <1>2, <1>3, <1>4 DEF Local

(* The cube of a worker that checks or reports.                            *)
LEMMA CubeLeased ==
  ASSUME IInv, NEW w \in Worker, pc[w] \in {"check", "report"}
  PROVE  /\ held[w] \in tree.nodes /\ lease[w].node = held[w] /\ held[w] # NoNode
         /\ lease[w].signaled \in BOOLEAN
<1>1. LeaseOK(w) /\ FieldTypes
  BY DEF IInv
<1>2. held[w] \in tree.nodes /\ lease[w].node = held[w]
  BY <1>1 DEF LeaseOK
<1> QED BY <1>1, <1>2, NoNodeOutside DEF FieldTypes

(* A worker gives its lease back, on the tree t that it has left.          *)
LEMMA LeaseReturned ==
  ASSUME IInv, NEW w \in Worker, state = "running", lease[w].node = held[w],
         NEW t, Leases(t, lease, formula), Signals(t, lease), ~ClosedIn(t, Root),
         tree.nodes \subseteq t.nodes, held[w] \in t.nodes,
         NEW u, u = dec_active_workers(t, held[w])
  PROVE  /\ Leases(u, Released(w), formula) /\ Signals(u, Released(w)) /\ ~ClosedIn(u, Root)
         /\ SameClosure(t, u) /\ tree.nodes \subseteq u.nodes
         /\ \A v \in Worker : Released(w)[v] = IF v = w THEN NoLease ELSE lease[v]
<1>1. Gives(lease, Released(w), w)
  BY DEF Gives, Released
<1>2. Leases(u, Released(w), formula) /\ SameClosure(t, u) /\ Signals(u, Released(w))
  <2>1. /\ Leases(t, lease, formula) /\ Signals(t, lease) /\ held[w] \in t.nodes
        /\ lease[w].node = held[w] /\ u = dec_active_workers(t, held[w])
    OBVIOUS
  <2> QED BY ONLY w \in Worker, <1>1, <2>1, ReleaseLeases, Zenon
<1>3. Root \in t.nodes
  BY DEF Leases, Good, TreeType
<1>4. tree.nodes \subseteq u.nodes /\ ~ClosedIn(u, Root)
  BY <1>2, <1>3 DEF SameClosure
<1>5. lease \in [Worker -> [node : tree.nodes \cup {NoNode}, signaled : BOOLEAN]]
  BY DEF IInv, FieldTypes
<1>6. \A v \in Worker : Released(w)[v] = IF v = w THEN NoLease ELSE lease[v]
  BY <1>5 DEF Released
<1> QED BY <1>2, <1>4, <1>6

(* That is the step of a worker whose cube was closed, or is split.        *)
LEMMA ReturnStep ==
  ASSUME IInv, NEW w \in Worker, state = "running", lease[w].node = held[w],
         NEW t, Leases(t, lease, formula), Signals(t, lease), ~ClosedIn(t, Root),
         tree.nodes \subseteq t.nodes, held[w] \in t.nodes,
         tree' = dec_active_workers(t, held[w]), lease' = Released(w), cancel' = Uncanceled(w),
         UNCHANGED <<formula, engine, state, unsatCore, canceled, asleep>>
  PROVE  /\ Manage(w) /\ Paid /\ tree.nodes \subseteq tree'.nodes
         /\ lease'[w] = NoLease /\ ~lease'[w].signaled
<1>1. FieldTypes
  BY DEF IInv
<1>2. /\ Leases(tree', lease', formula) /\ Signals(tree', lease') /\ ~ClosedIn(tree', Root)
      /\ tree.nodes \subseteq tree'.nodes
      /\ \A v \in Worker : lease'[v] = IF v = w THEN NoLease ELSE lease[v]
  <2>1. /\ Leases(t, lease, formula) /\ Signals(t, lease) /\ ~ClosedIn(t, Root)
        /\ tree.nodes \subseteq t.nodes /\ held[w] \in t.nodes
        /\ tree' = dec_active_workers(t, held[w])
        /\ state = "running" /\ lease[w].node = held[w] /\ IInv
    OBVIOUS
  <2>2. /\ Leases(tree', Released(w), formula) /\ Signals(tree', Released(w)) /\ ~ClosedIn(tree', Root)
        /\ SameClosure(t, tree') /\ tree.nodes \subseteq tree'.nodes
        /\ \A v \in Worker : Released(w)[v] = IF v = w THEN NoLease ELSE lease[v]
    BY ONLY w \in Worker, <2>1, LeaseReturned, Zenon
  <2> QED BY <2>2
<1>3. Manage(w)
  BY <1>1, <1>2 DEF Manage, FieldTypes, States
<1>4. lease'[w] = NoLease /\ lease'[w].signaled = FALSE /\ \A v \in Worker \ {w} : lease'[v] = lease[v]
  <2>1. lease'[w] = NoLease /\ \A v \in Worker \ {w} : lease'[v] = lease[v]
    BY <1>2
  <2>2. NoLease.signaled = FALSE
    BY DEF NoLease
  <2> QED BY <2>1, <2>2
<1>5. /\ Uncanceled(w) \in [Thread -> Nat]
      /\ \A x \in Thread \ {w} : Uncanceled(w)[x] = cancel[x]
      /\ Uncanceled(w)[w] = IF lease[w].signaled /\ cancel[w] > 0 THEN cancel[w] - 1 ELSE cancel[w]
  BY <1>1, UncanceledFacts
<1> HIDE DEF Uncanceled
<1>6. Counts(Uncanceled(w))
  BY <1>1, <1>5, SMTT(30) DEF Counts, FieldTypes
<1>7. lease[w].signaled \in BOOLEAN
  BY <1>1 DEF FieldTypes
<1>8. ASSUME NEW v \in Worker
      PROVE  \/ lease'[v].signaled = lease[v].signaled /\ Uncanceled(w)[v] = cancel[v]
             \/ /\ lease[v].signaled /\ ~lease'[v].signaled
                /\ Uncanceled(w)[v] = IF cancel[v] > 0 THEN cancel[v] - 1 ELSE cancel[v]
  <2>1. v \in Thread
    BY DEF Thread
  <2>2. CASE v = w
    BY <2>2, <1>4, <1>5, <1>7
  <2>3. CASE v # w
    BY <2>1, <2>3, <1>4, <1>5
  <2> QED BY <2>2, <2>3
<1>9. Pays(Uncanceled(w))
  BY <1>8 DEF Pays
<1>10. \A x \in Thread \ Worker : Uncanceled(w)[x] = cancel[x]
  BY <1>5
<1> QED BY <1>2, <1>3, <1>4, <1>5, <1>6, <1>9, <1>10 DEF Paid

(* What the solver of w may answer is right.                               *)
LEMMA ResultsRight ==
  ASSUME IInv, NEW w \in Worker, held[w] \in tree.nodes, NEW x \in Results(w)
  PROVE  /\ x \in [r : ResultNames, core : SUBSET Lit]
         /\ x.r = "true" => \E M \in formula : Asms \subseteq M
         /\ x.r = "false" => Refuted(held[w], x.core)
<1>1. held[w] \cup Asms \subseteq Lit
  BY ConstantsAssumption DEF IInv, FieldTypes, TreeType
<1>2. CASE x \in [r : {"true"} \cap {IF \E M \in formula : held[w] \cup Asms \subseteq M
                                      THEN "true" ELSE "none"}, core : {{}}]
  <2>1. x.r = "true" /\ x.core = {} /\ \E M \in formula : held[w] \cup Asms \subseteq M
    BY <1>2
  <2>2. x \in [r : ResultNames, core : SUBSET Lit]
    BY <1>2 DEF ResultNames
  <2> QED BY <2>1, <2>2
<1>3. CASE x \in [r : {"false"}, core : {C \in SUBSET (held[w] \cup Asms) : Unsat(C)}]
  <2>1. x.r = "false" /\ x.core \subseteq held[w] \cup Asms /\ Unsat(x.core)
    BY <1>3
  <2>2. x \in [r : ResultNames, core : SUBSET Lit]
    BY <1>1, <1>3 DEF ResultNames
  <2> QED BY <2>1, <2>2 DEF Refuted
<1>4. CASE x \in [r : {"conflicts", "incomplete"}, core : {{}}]
  BY <1>4 DEF ResultNames
<1> QED BY <1>2, <1>3, <1>4 DEF Results

(* checkpoint_worker after a check.                                        *)
LEMMA Checkpoint ==
  ASSUME IInv, NEW w \in Worker, pc[w] = "check", NEW ex, ex = exhausted', exhausted \subseteq ex,
         ex \subseteq Worker, checkpoint_worker(w, ex),
         UNCHANGED <<problem, main, first, jobs, job, backbones, caller>>
  PROVE  Step(w)
<1>1. w \in Thread /\ w # minimizer
  BY WorkerThread
<1>2. /\ pc[w] # "done" /\ UNCHANGED <<main, caller>> /\ exhausted \subseteq exhausted'
      /\ exhausted' \subseteq Worker /\ backbones' \subseteq Lit
      /\ UNCHANGED <<formula, engine, first, jobs, job>>
  BY DEF IInv, FieldTypes, problem
<1>3. FieldTypes /\ Leases(tree, lease, formula) /\ LeaseOK(w) /\ ResultOK(w)
      /\ (state = "running" => ~ClosedIn(tree, Root) /\ Signals(tree, lease))
  BY DEF IInv
<1>4. held[w] \in tree.nodes /\ lease[w].node = held[w] /\ held[w] # NoNode /\ lease[w].signaled \in BOOLEAN
  BY CubeLeased
<1>5. NoResult \in [r : ResultNames, core : SUBSET Lit]
  BY DEF NoResult, ResultNames
<1>6. CASE CanRelease(w) /\ Release(w) /\ goto(w, "get") /\ UNCHANGED <<state, unsatCore, canceled, asleep, res>>
  <2>1. Manage(w) /\ Paid /\ tree.nodes \subseteq tree'.nodes /\ lease'[w] = NoLease /\ ~lease'[w].signaled
    BY <1>2, <1>3, <1>4, <1>6, ReturnStep DEF CanRelease, Release
  <2>2. Local(w) /\ pc'[w] = "get"
    BY <1>1, <1>2, <1>5, <1>6, <2>1, LocalStep DEF Release, goto, Location
  <2>3. Verdicts /\ Stops(w)
    BY <1>6, <2>1, <2>2 DEF Verdicts, Stops, IInv, FieldTypes
  <2>4. LeaseOK(w)' /\ ResultOK(w)'
    BY <2>1, <2>2, SMTT(30) DEF LeaseOK, ResultOK, NoLease
  <2>5. JobsOK' /\ job' \in Jobs(tree')
    BY <1>1, <1>2, <2>1, <2>2, JobsKept
  <2> QED BY <1>2, <2>1, <2>2, <2>3, <2>4, <2>5 DEF Step
<1>7. CASE /\ \E x \in Results(w) : x.r \in Outcome /\ res' = [res EXCEPT ![w] = x]
           /\ goto(w, "report") /\ UNCHANGED <<manager, cancel, held, asleep>>
  <2>1. UNCHANGED <<tree, lease, state, unsatCore, canceled, cancel, held, asleep>>
    BY <1>7 DEF manager
  <2>2. PICK x \in Results(w) : res' = [res EXCEPT ![w] = x]
    BY <1>7
  <2>3. /\ x \in [r : ResultNames, core : SUBSET Lit]
        /\ x.r = "true" => \E M \in formula : Asms \subseteq M
        /\ x.r = "false" => Refuted(held[w], x.core)
    BY <1>4, ResultsRight
  <2>4. Local(w) /\ pc'[w] = "report"
    BY <1>1, <1>2, <1>7, <2>1, <2>2, <2>3, LocalStep DEF goto, Location
  <2>5. Manage(w) /\ Paid /\ \A v \in Worker : lease'[v].signaled => lease[v].signaled
    BY <1>2, <1>3, <2>1, SameCounts, QuietStep DEF FieldTypes, States
  <2>6. Verdicts /\ Stops(w)
    BY <2>1, <2>4, <2>5 DEF Verdicts, Stops, IInv, FieldTypes
  <2>7. res'[w] = x
    BY <2>2 DEF IInv, LocalTypes
  <2>8. LeaseOK(w)' /\ ResultOK(w)'
    BY <1>2, <1>4, <2>1, <2>3, <2>4, <2>7 DEF LeaseOK, ResultOK, Refuted, Unsat
  <2>9. JobsOK' /\ job' \in Jobs(tree')
    BY <1>1, <1>2, <2>4, <2>5, JobsKept
  <2> QED BY <1>2, <2>4, <2>5, <2>6, <2>8, <2>9 DEF Step
<1>8. CASE /\ ~CanRelease(w) /\ (cancel[w] > 0 \/ w \in ex)
           /\ set_canceled /\ goto(w, "done") /\ UNCHANGED <<tree, lease, held, res>>
  <2>1. Counts(cancel) /\ UNCHANGED <<state, unsatCore>> /\ (state = "running" => canceled')
    BY <1>3, <1>8, SetCanceled
  <2>2. Local(w) /\ pc'[w] = "done"
    BY <1>1, <1>2, <1>5, <1>8, LocalStep DEF goto, Location
  <2>3. Manage(w) /\ Paid /\ \A v \in Worker : lease'[v].signaled => lease[v].signaled
    BY <1>2, <1>3, <1>8, <2>1, QuietStep DEF FieldTypes, States
  <2>4. state = "running" => ~lease[w].signaled
    <3>1. state = "running" => tree.status[held[w]] # "closed"
      BY <1>4, <1>8 DEF CanRelease, is_lease_canceled
    <3>2. state = "running" => lease[w].signaled = ClosedIn(tree, held[w])
      BY <1>3, <1>4 DEF Signals
    <3> QED BY <3>1, <3>2 DEF ClosedIn
  <2>5. Verdicts /\ Stops(w)
    BY <1>8, <2>1, <2>3, <2>4 DEF Verdicts, Stops
  <2>6. LeaseOK(w)' /\ ResultOK(w)'
    BY <2>2 DEF LeaseOK, ResultOK
  <2>7. JobsOK' /\ job' \in Jobs(tree')
    BY <1>1, <1>2, <2>2, <2>3, JobsKept
  <2> QED BY <1>2, <2>2, <2>3, <2>5, <2>6, <2>7 DEF Step
<1> QED BY <1>6, <1>7, <1>8 DEF checkpoint_worker

(* check_cube and check_exhausts.                                          *)
LEMMA CheckCube ==
  ASSUME IInv, NEW w \in Worker, check_cube(w) \/ check_exhausts(w)
  PROVE  Step(w)
<1>1. exhausted \subseteq Worker
  BY DEF IInv, FieldTypes
<1>2. CASE check_cube(w)
  BY <1>1, <1>2, Checkpoint DEF check_cube
<1>3. CASE check_exhausts(w)
  BY <1>1, <1>3, Checkpoint DEF check_exhausts
<1> QED BY <1>2, <1>3

(* Steps of a worker outside the tree and the leases.                      *)
LEMMA WorkerQuiet ==
  ASSUME IInv, NEW w \in Worker, pc[w] # "done", Local(w), Counts(cancel), Verdicts,
         UNCHANGED <<problem, tree, lease, main, exhausted, jobs, job, backbones, caller>>,
         state' \in States, unsatCore' \subseteq Lit, state' = "running" => state = "running",
         state' = state \/ canceled' \/ (engine = "tactic" /\ state' = "unknown"),
         state' = "running" => UNCHANGED canceled /\ pc'[w] # "done",
         LeaseOK(w)', ResultOK(w)'
  PROVE  Step(w)
<1>1. UNCHANGED <<formula, engine>> /\ w # minimizer
  BY WorkerThread DEF problem
<1>2. Manage(w) /\ Paid /\ \A v \in Worker : lease'[v].signaled => lease[v].signaled
  BY <1>1, QuietStep
<1>3. JobsOK' /\ job' \in Jobs(tree')
  BY <1>1, <1>2, JobsKept
<1>4. Stops(w)
  BY <1>2 DEF Stops
<1>5. exhausted' \subseteq Worker /\ backbones' \subseteq Lit
  BY DEF IInv, FieldTypes
<1> QED BY <1>2, <1>3, <1>4, <1>5 DEF Step

(* check_throws and retry_cube.                                            *)
LEMMA CheckAgain ==
  ASSUME IInv, NEW w \in Worker, check_throws(w) \/ retry_cube(w)
  PROVE  Step(w)
<1>1. FieldTypes /\ LocalTypes /\ w \in Thread /\ held[w] \in tree.nodes /\ lease[w].node = held[w]
  BY WorkerThread, CubeLeased DEF IInv, check_throws, retry_cube
<1>2. NoResult \in [r : ResultNames, core : SUBSET Lit]
  BY DEF NoResult, ResultNames
<1>3. CASE check_throws(w)
  <2>1. /\ pc[w] = "check" /\ set_state("exception", {"running"}, unsatCore)
        /\ UNCHANGED <<problem, tree, lease, main, exhausted, jobs, job, backbones, caller>>
        /\ UNCHANGED <<pc, first, held, res>>
    BY <1>3 DEF check_throws, locals
  <2>2. /\ Counts(cancel)
        /\ \/ state = "running" /\ state' = "exception" /\ UNCHANGED unsatCore /\ canceled'
           \/ state # "running" /\ UNCHANGED <<state, unsatCore, canceled, cancel, asleep>>
        /\ state' \in States /\ unsatCore' \in SUBSET Lit /\ (state' = "running" => state = "running")
    BY <1>1, <2>1, SetState DEF FieldTypes, States
  <2>3. Local(w)
    BY <1>1, <2>1 DEF Local, FieldTypes, LocalTypes
  <2>4. Verdicts
    BY <2>2 DEF Verdicts
  <2>5. LeaseOK(w)' /\ ResultOK(w)'
    BY <1>1, <2>1 DEF LeaseOK, ResultOK
  <2> QED BY <2>1, <2>2, <2>3, <2>4, <2>5, WorkerQuiet
<1>4. CASE retry_cube(w)
  <2>1. /\ pc[w] = "report" /\ pc' = [pc EXCEPT ![w] = "check"]
        /\ UNCHANGED <<problem, tree, lease, main, exhausted, jobs, job, backbones, caller>>
        /\ UNCHANGED <<state, unsatCore, canceled, cancel, asleep, first, held>>
        /\ res' = [res EXCEPT ![w] = NoResult]
    BY <1>4 DEF retry_cube, goto, manager, limits, minim
  <2>2. Local(w) /\ pc'[w] = "check"
    BY <1>1, <1>2, <2>1, LocalStep DEF Location
  <2>3. /\ Counts(cancel) /\ Verdicts
        /\ state' \in States /\ unsatCore' \in SUBSET Lit
    BY <1>1, <2>1, SameCounts DEF Verdicts, FieldTypes, States
  <2>4. LeaseOK(w)' /\ ResultOK(w)'
    BY <1>1, <2>1, <2>2 DEF LeaseOK, ResultOK
  <2> QED BY <2>1, <2>2, <2>3, <2>4, WorkerQuiet
<1> QED BY <1>3, <1>4

(* A verdict of a worker, which then ends.                                 *)
LEMMA VerdictStep ==
  ASSUME IInv, NEW w \in Worker, pc[w] = "report",
         NEW s \in {"unknown", "sat", "unsat"}, NEW over, NEW C \in SUBSET Lit, set_state(s, over, C),
         state \in over => Verdicts, "running" \in over,
         UNCHANGED <<problem, tree, lease, main, exhausted, first, held, jobs, job, backbones, caller>>,
         goto(w, "done"), res' = [res EXCEPT ![w] = NoResult]
  PROVE  Step(w)
<1>1. FieldTypes /\ w \in Thread
  BY WorkerThread DEF IInv
<1>2. NoResult \in [r : ResultNames, core : SUBSET Lit]
  BY DEF NoResult, ResultNames
<1>3. /\ Counts(cancel)
      /\ \/ state \in over /\ state' = s /\ unsatCore' = C /\ canceled'
         \/ state \notin over /\ UNCHANGED <<state, unsatCore, canceled, cancel, asleep>>
      /\ state' \in States /\ unsatCore' \in SUBSET Lit /\ (state' = "running" => state = "running")
  BY <1>1, SetState DEF States
<1>4. Local(w) /\ pc'[w] = "done"
  BY <1>1, <1>2, LocalStep DEF goto, Location
<1>5. Verdicts
  BY <1>3 DEF Verdicts
<1>6. LeaseOK(w)' /\ ResultOK(w)'
  BY <1>4 DEF LeaseOK, ResultOK
<1> QED BY <1>3, <1>4, <1>5, <1>6, WorkerQuiet

(* report_unknown, report_sat and report_unsat.                            *)
LEMMA Reports ==
  ASSUME IInv, NEW w \in Worker, report_unknown(w) \/ report_sat(w) \/ report_unsat(w)
  PROVE  Step(w)
<1>1. /\ FieldTypes /\ w \in Thread /\ pc[w] = "report" /\ goto(w, "done")
      /\ UNCHANGED <<problem, tree, lease, main, exhausted, first, held, jobs, job, backbones, caller>>
      /\ res' = [res EXCEPT ![w] = NoResult]
  BY WorkerThread DEF IInv, report_unknown, report_sat, report_unsat
<1>2. /\ res[w].r = "true" => \E M \in formula : Asms \subseteq M
      /\ res[w].r = "false" => Refuted(held[w], res[w].core)
      /\ res[w].core \subseteq Lit /\ unsatCore \subseteq Lit
  BY <1>1 DEF IInv, ResultOK, FieldTypes
<1>3. CASE report_unknown(w) /\ engine = "smt"
  <2>1. set_state("unknown", {"running"}, unsatCore)
    BY <1>3 DEF report_unknown
  <2>2. state = "running" => Verdicts
    BY <2>1 DEF set_state, Verdicts
  <2> QED BY <1>1, <1>2, <2>1, <2>2, VerdictStep
<1>4. CASE report_unknown(w) /\ engine # "smt"
  <2>1. set_unknown_soft /\ engine = "tactic"
    BY <1>1, <1>4, ThreadsAssumption DEF report_unknown, FieldTypes
  <2>2. UNCHANGED <<unsatCore, canceled, cancel>> /\ asleep' \in BOOLEAN
        /\ state' = IF state = "running" THEN "unknown" ELSE state
    BY <2>1 DEF set_unknown_soft
  <2>3. Counts(cancel)
    BY <1>1, <2>2, SMTT(30) DEF Counts, FieldTypes
  <2>4. NoResult \in [r : ResultNames, core : SUBSET Lit]
    BY DEF NoResult, ResultNames
  <2>5. Local(w) /\ pc'[w] = "done"
    BY <1>1, <2>4, LocalStep DEF goto, Location
  <2>6. LeaseOK(w)' /\ ResultOK(w)'
    BY <2>5 DEF LeaseOK, ResultOK
  <2>7. Verdicts /\ state' \in States /\ state' # "running"
    BY <1>1, <2>2 DEF Verdicts, States, FieldTypes
  <2>8. state' = state \/ (engine = "tactic" /\ state' = "unknown")
    BY <2>1, <2>2
  <2> QED BY <1>1, <1>2, <2>2, <2>3, <2>5, <2>6, <2>7, <2>8, WorkerQuiet
<1>5. CASE report_sat(w)
  <2>1. set_state("sat", {"running", "unknown"}, unsatCore) /\ res[w].r = "true"
    BY <1>5 DEF report_sat
  <2>2. state \in {"running", "unknown"} => Verdicts
    BY <1>2, <2>1 DEF set_state, Verdicts
  <2> QED BY <1>1, <1>2, <2>1, <2>2, VerdictStep
<1>6. CASE report_unsat(w)
  <2>1. /\ set_state("unsat", {"running", "unknown"}, res[w].core) /\ res[w].r = "false"
        /\ res[w].core \subseteq Asms
    BY <1>6 DEF report_unsat
  <2>2. state \in {"running", "unknown"} => Verdicts
    BY <1>2, <2>1 DEF set_state, Verdicts, Refuted
  <2> QED BY <1>1, <1>2, <2>1, <2>2, VerdictStep
<1> QED BY <1>3, <1>4, <1>5, <1>6

(* try_split_cube.                                                         *)
LEMMA TrySplitCube ==
  ASSUME IInv, NEW w \in Worker, try_split_cube(w)
  PROVE  Step(w)
<1>1. /\ pc[w] = "report" /\ pc' = [pc EXCEPT ![w] = "share"] /\ res' = [res EXCEPT ![w] = NoResult]
      /\ UNCHANGED <<formula, engine, state, unsatCore, canceled, asleep, first, jobs, job>>
      /\ UNCHANGED <<problem, main, exhausted, backbones, caller>>
      /\ w \in Thread /\ w # minimizer
  BY WorkerThread DEF try_split_cube, goto, problem, minim
<1>2. /\ FieldTypes /\ LocalTypes /\ Leases(tree, lease, formula)
      /\ state = "running" => ~ClosedIn(tree, Root) /\ Signals(tree, lease)
  BY DEF IInv
<1>3. held[w] \in tree.nodes /\ lease[w].node = held[w]
  BY <1>1, CubeLeased
<1>4. NoResult \in [r : ResultNames, core : SUBSET Lit]
  BY DEF NoResult, ResultNames
<1>5. CASE state # "running"
  <2>1. UNCHANGED <<tree, lease, cancel, held>>
    BY <1>5 DEF try_split_cube
  <2>2. Local(w) /\ pc'[w] = "share"
    BY <1>1, <1>4, <2>1, LocalStep DEF Location
  <2>3. Counts(cancel) /\ Verdicts /\ state' \in States /\ unsatCore' \subseteq Lit
    BY <1>1, <1>2, <2>1, SameCounts DEF Verdicts, States, FieldTypes
  <2>4. LeaseOK(w)' /\ ResultOK(w)'
    BY <1>1, <1>5, <2>2 DEF LeaseOK, ResultOK
  <2> QED BY <1>1, <1>5, <2>1, <2>2, <2>3, <2>4, WorkerQuiet
<1>6. CASE state = "running"
  <2>1. PICK x \in SplitAtom, e \in Effort :
          /\ ~path_contains_atom(held[w], <<x, TRUE>>)
          /\ IF is_lease_canceled(tree, held[w]) THEN Release(w)
             ELSE /\ \E t \in try_split(tree, held[w], <<x, TRUE>>, e) :
                        tree' = dec_active_workers(t, held[w])
                  /\ lease' = Released(w) /\ cancel' = Uncanceled(w)
                  /\ held' = [held EXCEPT ![w] = NoNode]
    BY <1>6 DEF try_split_cube
  <2>2. \E t : /\ Leases(t, lease, formula) /\ Signals(t, lease) /\ ~ClosedIn(t, Root)
               /\ tree.nodes \subseteq t.nodes /\ tree' = dec_active_workers(t, held[w])
    <3>1. CASE is_lease_canceled(tree, held[w])
      BY <1>2, <1>6, <2>1, <3>1 DEF Release
    <3>2. CASE ~is_lease_canceled(tree, held[w])
      <4>1. PICK t \in try_split(tree, held[w], <<x, TRUE>>, e) : tree' = dec_active_workers(t, held[w])
        BY <2>1, <3>2
      <4>2. <<x, TRUE>> \in Lit
        BY <2>1, ConstantsAssumption DEF Lit
      <4>3. /\ Leases(t, lease, formula) /\ Grown(tree, t)
            /\ Signals(tree, lease) => Signals(t, lease)
        BY <1>2, <1>3, <2>1, <4>1, <4>2, SplitLeases
      <4>4. Root \in tree.nodes
        BY <1>2 DEF FieldTypes, TreeType
      <4> QED BY <1>2, <1>6, <4>1, <4>3, <4>4 DEF Grown
    <3> QED BY <3>1, <3>2
  <2>3. PICK t : /\ Leases(t, lease, formula) /\ Signals(t, lease) /\ ~ClosedIn(t, Root)
                 /\ tree.nodes \subseteq t.nodes /\ tree' = dec_active_workers(t, held[w])
    BY <2>2
  <2>4. lease' = Released(w) /\ cancel' = Uncanceled(w) /\ held' = [held EXCEPT ![w] = NoNode]
    BY <2>1 DEF Release
  <2>5. /\ Manage(w) /\ Paid /\ tree.nodes \subseteq tree'.nodes
        /\ lease'[w] = NoLease /\ ~lease'[w].signaled
    BY <1>1, <1>3, <1>6, <2>3, <2>4, ReturnStep
  <2>6. Local(w) /\ pc'[w] = "share"
    BY <1>1, <1>4, <2>4, <2>5, LocalStep DEF Location
  <2>7. Verdicts /\ Stops(w)
    BY <1>1, <2>5, <2>6 DEF Verdicts, Stops
  <2>8. LeaseOK(w)' /\ ResultOK(w)'
    BY <2>5, <2>6, SMTT(30) DEF LeaseOK, ResultOK, NoLease
  <2>9. JobsOK' /\ job' \in Jobs(tree')
    BY <1>1, <2>5, <2>6, JobsKept
  <2>10. exhausted' \subseteq Worker /\ backbones' \subseteq Lit
    BY <1>1, <1>2 DEF FieldTypes
  <2> QED BY <1>1, <2>5, <2>6, <2>7, <2>8, <2>9, <2>10 DEF Step
<1> QED BY <1>5, <1>6
=============================================================================

--------------------------- MODULE SearchTreeSpec ---------------------------
(***************************************************************************)
(* The search tree as its callers (smt_parallel.cpp, parallel_tactical.cpp) *)
(* drive it: any number of workers activate nodes, report what they found   *)
(* on a node, split it or close it, and leave it.  Every call is made under *)
(* the mutex of the batch manager, so that a call is one step.  A worker    *)
(* may be stale: another worker may have split or closed its node.          *)
(***************************************************************************)
EXTENDS SearchTree

VARIABLES tree,     \* m_root and everything below it
          formula   \* the models of the formula being solved; never changes

vars == <<tree, formula>>

Unsat(C) == \A M \in formula : ~(C \subseteq M)

Init ==
    /\ formula \in Formulas
    /\ tree = reset

\* Some worker holds no node.
IdleWorker ==
    Cardinality(UNION {{n} \X (1 .. tree.workers[n]) : n \in tree.nodes}) < MaxWorkers

ActivateRoot ==
    /\ IdleWorker
    /\ tree' = mark_new_activation(tree, Root)
    /\ UNCHANGED formula

ActivateBestNode ==
    \E n \in activate_best_node(tree) :
        /\ IdleWorker
        /\ tree' = mark_new_activation(tree, n)
        /\ UNCHANGED formula

\* A worker on n gives up on it, proposes an atom to split on and leaves.  The
\* callers make sure that the cube is not too deep and the atom not on its path.
GiveUp ==
    \E n \in tree.nodes, x \in SplitAtom, e \in Effort :
        /\ tree.workers[n] > 0
        /\ Depth(n) < MaxDepth
        /\ ~path_contains_atom(n, <<x, TRUE>>)
        /\ \E t \in try_split(tree, n, <<x, TRUE>>, e) : tree' = dec_active_workers(t, n)
        /\ UNCHANGED formula

\* The cores a solver can report on n.  A core without a decision of the path
\* is reported to the caller's set_unsat and not to the tree.
Conflicts(n) ==
    {C \in SUBSET (n \cup Asms) : Unsat(C) /\ (C = {} \/ C \cap n # {})}

\* A worker refutes its cube: it leaves n and backtracks.
Refute ==
    \E n \in tree.nodes :
        /\ tree.workers[n] > 0
        /\ ~is_lease_canceled(tree, n)
        /\ \E conflict \in Conflicts(n) :
              tree' = backtrack(dec_active_workers(tree, n), n, conflict)
        /\ UNCHANGED formula

\* A worker whose node was closed under it leaves.
Abandon ==
    \E n \in tree.nodes :
        /\ tree.workers[n] > 0
        /\ is_lease_canceled(tree, n)
        /\ tree' = dec_active_workers(tree, n)
        /\ UNCHANGED formula

\* A conflict found elsewhere (a minimized core, a matching cube of another
\* branch, the negation of a backbone) is applied to n.
CloseElsewhere ==
    \E n \in tree.nodes :
        \E conflict \in Conflicts(n) :
            /\ tree' = backtrack(tree, n, conflict)
            /\ UNCHANGED formula

\* The callers stop using the tree once it is closed.
Next ==
    /\ ~is_closed(tree)
    /\ \/ ActivateRoot
       \/ ActivateBestNode
       \/ GiveUp
       \/ Refute
       \/ Abandon
       \/ CloseElsewhere

Spec == Init /\ [][Next]_vars

-----------------------------------------------------------------------------
(* The type invariant, and the rounds that the two effort fields count:     *)
(* whatever the order in which workers, some of them stale, report, split   *)
(* and leave, the last one to leave ends the round, so that a later report  *)
(* subtracts from m_effort_spent nothing of a round that is over.           *)
TypeOK == formula \in Formulas /\ TreeType(tree) /\ RoundsOver(tree)

Closed(n) == tree.status[n] = "closed"

(* The comment over close_with_core (search_tree.h:350-352): the core of a  *)
(* closed node is made of literals of its path and of assumptions.  The     *)
(* formula must have no model that satisfies it, through any sequence of    *)
(* closings and sibling resolutions.  For the root, whose core the batch    *)
(* manager reports with the verdict unsat, it is a set of assumptions.      *)
CoresSound ==
    \A n \in tree.nodes : Closed(n) =>
        /\ tree.core[n] \subseteq n \cup Asms
        /\ Unsat(tree.core[n])

(* The same comment: "If a parent is open, then the one of the children is  *)
(* open", so that the search never reaches an open node all of whose cubes  *)
(* are refuted; and nothing below a closed node is left open, so that no    *)
(* worker is sent into a refuted cube.                                      *)
ClosureComplete ==
    /\ \A m, n \in tree.nodes : m \subseteq n /\ Closed(m) => Closed(n)
    /\ \A p \in tree.nodes :
          Children(tree, p) # {} /\ (\A k \in Children(tree, p) : Closed(k)) => Closed(p)

(* Splitting and closing never lose a solution: a model of the formula and  *)
(* the assumptions always lies in exactly one leaf, and that leaf is open.  *)
NoModelLost ==
    \A M \in formula : Asms \subseteq M =>
        \E n \in tree.nodes :
            /\ IsLeaf(tree, n) /\ n \subseteq M /\ ~Closed(n)
            /\ \A m \in tree.nodes : IsLeaf(tree, m) /\ m \subseteq M => m = n

(* A node is active exactly while a worker is on it, unless it is closed:   *)
(* mark_new_activation and dec_active_workers keep status and counter in    *)
(* step, across stale workers and splits.                                   *)
ActiveMeansLeased ==
    \A n \in tree.nodes : ~Closed(n) => (tree.status[n] = "active") = (tree.workers[n] > 0)

(* A closed node stays closed, whoever still works on it and leaves it      *)
(* later: dec_active_workers opens again only what is active.  The tree     *)
(* only grows.                                                              *)
ClosedForever ==
    [][\A n \in tree.nodes :
          /\ n \in tree'.nodes /\ tree'.lit[n] = tree.lit[n]
          /\ Closed(n) => tree'.status[n] = "closed"]_vars

(* A new node is a child of a node without children, so that a stale worker *)
(* cannot give a node a second pair of children (the two SASSERTs of        *)
(* node::split).                                                            *)
SplitOnce ==
    [][\A k \in tree'.nodes \ tree.nodes : Children(tree, Parent(tree', k)) = {}]_vars
=============================================================================

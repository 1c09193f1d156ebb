----------------------------- MODULE SearchTree -----------------------------
(***************************************************************************)
(* The search tree of the cube-and-conquer solvers (util/search_tree.h).    *)
(*                                                                         *)
(* Every node of the tree carries a decision literal; the literals from a   *)
(* node to the root are its cube.  Two nodes of the tree never have the     *)
(* same cube, because they disagree on the literal where their paths fork,  *)
(* so a node IS its cube here: the root is the empty set, an ancestor is a  *)
(* subset, and "the path contains l" is l \in n.                            *)
(*                                                                         *)
(* A tree is a record (the fields of node<Config>, each a function on the   *)
(* nodes), and the operations are operators from trees to trees, so that    *)
(* the modules of the callers can apply several of them in one step, as the *)
(* callers do under their mutex.                                            *)
(***************************************************************************)
EXTENDS Integers, FiniteSets

CONSTANTS Atom,        \* the Boolean atoms that literals are built from
          NullLit,     \* the null literal, which labels the root
          Asms,        \* the external assumption literals of the check
          Formulas,    \* the formulas to solve, each the set of its models
          SplitAtom,   \* the atoms a worker can propose to split on
          MaxDepth,    \* m_max_cube_depth: no deeper cube is split
          Effort,      \* the efforts a worker can report with try_split
          EffortMod,   \* 2^w: effort_spent is an unsigned of w bits
          EffortUnit,  \* m_effort_unit
          MaxWorkers   \* bound: the workers that hold a node at any time

Lit == Atom \X BOOLEAN
Neg(l) == <<l[1], ~l[2]>>

\* An assignment is the set of the literals it makes true.
Assignment == {M \in SUBSET Lit : \A l \in Lit : (Neg(l) \in M) = (l \notin M)}

ASSUME ConstantsAssumption ==
    /\ NullLit \notin Lit
    /\ Asms \subseteq Lit
    /\ IsFiniteSet(Asms)
    /\ Formulas \subseteq SUBSET Assignment
    /\ SplitAtom \subseteq Atom
    /\ MaxDepth \in Nat
    /\ EffortMod \in Nat \ {0}
    /\ Effort \subseteq 0 .. EffortMod - 1
    /\ EffortUnit \in Nat \ {0}
    /\ MaxWorkers \in Nat

Status == {"open", "closed", "active"}
Root == {}

-----------------------------------------------------------------------------
(* Walks along the tree.                                                   *)

Ancestors(t, n) == {m \in t.nodes : m \subseteq n}     \* n itself included
Subtree(t, n) == {m \in t.nodes : n \subseteq m}
Parent(t, n) == n \ {t.lit[n]}
Children(t, p) == {n \in t.nodes \ {Root} : Parent(t, n) = p}
IsLeaf(t, n) == Subtree(t, n) = {n}
Depth(n) == Cardinality(n)
AncestorAt(t, n, d) == CHOOSE m \in Ancestors(t, n) : Depth(m) = d

\* The nodes that a traversal from n reaches when it skips closed subtrees.
NonClosedFrom(t, n) ==
    {m \in Subtree(t, n) :
        \A a \in Ancestors(t, m) : n \subseteq a => t.status[a] # "closed"}

path_contains_atom(n, l) == l \in n \/ Neg(l) \in n

-----------------------------------------------------------------------------
(* Closing nodes.                                                          *)

close(t, n, C) ==
    LET closing == NonClosedFrom(t, n)
    IN  [t EXCEPT !.status = [m \in t.nodes |-> IF m \in closing THEN "closed" ELSE @[m]],
                  !.core   = [m \in t.nodes |-> IF m \in closing THEN C ELSE @[m]]]

\* Mutant: resolves as soon as one child is closed.
CanResolve_OneChild(t, p) ==
    \E k \in Children(t, p) : t.status[k] = "closed" /\ t.core[k] # {}

\* Both children of p are closed, each with a non-empty core.
CanResolve(t, p) ==
    /\ Children(t, p) # {}
    /\ \A k \in Children(t, p) : t.status[k] = "closed" /\ t.core[k] # {}

compute_sibling_resolvent(t, p) ==
    UNION {t.core[k] \ {t.lit[k]} : k \in Children(t, p)}

\* The highest ancestor of p whose path holds all of the resolvent; p if none.
find_highest_attach(t, p, res) ==
    LET holds == {m \in Ancestors(t, p) : res \subseteq m}
    IN  IF holds = {} THEN p ELSE CHOOSE m \in holds : \A k \in holds : m \subseteq k

\* One turn of the loop of propagate_closure_upward, with parent p.
ResolveAt(t, p) ==
    LET res == compute_sibling_resolvent(t, p)
    IN  IF ~CanResolve(t, p) THEN t
        ELSE IF res = {} THEN close(t, Root, {})
        ELSE close(t, p, res)

\* Mutant: does not propagate past the attachment point.
propagate_closure_upward_Stops(t, cur) == t

\* The loop, from cur to the root: up[d] is the tree when cur is at depth d.
\* The code leaves the loop where it cannot resolve.  Above that level p is
\* not closed, or else everything is, and ResolveAt changes nothing.
propagate_closure_upward(t, cur) ==
    LET up[d \in 0 .. Depth(cur)] ==
          IF d = Depth(cur) THEN t ELSE ResolveAt(up[d + 1], AncestorAt(t, cur, d))
    IN  up[0]

\* Called with C \ni the literal of n, or with the root (see backtrack).
close_with_core(t, n, C) ==
    LET t1  == close(t, n, C)
        p   == Parent(t, n)
        res == compute_sibling_resolvent(t1, p)
        att == find_highest_attach(t1, p, res)
    IN  IF t.status[n] = "closed" /\ t.core[n] \subseteq C THEN t
        ELSE IF n = Root \/ ~CanResolve(t1, p) THEN t1
        ELSE IF res = {} THEN close(t1, Root, {})
        ELSE propagate_closure_upward(close(t1, att, res), att)

\* The ancestors of n whose decision takes part in the conflict.
Participants(t, n, conflict) == {m \in Ancestors(t, n) : t.lit[m] \in conflict}

\* backtrack runs into UNREACHABLE() when no decision takes part.
CanBacktrack(t, n, conflict) == conflict = {} \/ Participants(t, n, conflict) # {}

backtrack(t, n, conflict) ==
    LET parts == Participants(t, n, conflict)
        near  == CHOOSE m \in parts : \A k \in parts : k \subseteq m
    IN  IF conflict = {} THEN close_with_core(t, Root, {})
        ELSE close_with_core(t, near, conflict)

-----------------------------------------------------------------------------
(* Selecting and splitting nodes.                                          *)

scaled_effort(t, n) == t.effort[n] \div EffortUnit

better(t, a, b) ==
    \/ scaled_effort(t, a) < scaled_effort(t, b)
    \/ scaled_effort(t, a) = scaled_effort(t, b) /\ Depth(a) > Depth(b)

\* The nodes select_next_node may return: ties, which the code breaks by the
\* order of its traversal, are left open.
select_next_node(t, target) ==
    LET cands == {n \in NonClosedFrom(t, Root) : t.status[n] = target}
    IN  {n \in cands : \A m \in cands : ~better(t, m, n)}

mark_new_activation(t, n) ==
    [t EXCEPT !.status[n] = "active", !.visited[n] = TRUE, !.workers[n] = @ + 1]

\* Mutant: the last worker to leave does not reopen the node.
dec_active_workers_StaysActive(t, n) ==
    [t EXCEPT !.workers[n] = IF @ > 0 THEN @ - 1 ELSE 0]

\* Mutant: the node is reopened without the test that it is active.
dec_active_workers_Reopens(t, n) ==
    LET k == IF t.workers[n] > 0 THEN t.workers[n] - 1 ELSE 0
    IN  [t EXCEPT !.workers[n] = k,
                  !.round[n]   = IF k = 0 THEN 0 ELSE @,
                  !.status[n]  = IF k = 0 THEN "open" ELSE @]

\* Mutant: m_round_max_effort is not reset.
dec_active_workers_KeepsRound(t, n) ==
    LET k    == IF t.workers[n] > 0 THEN t.workers[n] - 1 ELSE 0
        free == k = 0 /\ t.status[n] = "active"
    IN  [t EXCEPT !.workers[n] = k, !.status[n] = IF free THEN "open" ELSE @]

dec_active_workers(t, n) ==
    LET k    == IF t.workers[n] > 0 THEN t.workers[n] - 1 ELSE 0
        free == k = 0 /\ t.status[n] = "active"
    IN  [t EXCEPT !.workers[n] = k,
                  !.round[n]   = IF free THEN 0 ELSE @,
                  !.status[n]  = IF free THEN "open" ELSE @]

is_lease_canceled(t, n) == t.status[n] = "closed"
is_closed(t) == t.status[Root] = "closed"

update_round_max_effort(t, n, e) ==
    IF e <= t.round[n] THEN t
    ELSE [t EXCEPT !.effort[n] = (@ - t.round[n] + e) % EffortMod, !.round[n] = e]

\* The depths of the leaves that some worker has timed out on.
TimedOutDepths(t) ==
    {Depth(m) : m \in {k \in NonClosedFrom(t, Root) : IsLeaf(t, k) /\ t.effort[k] > 0}}

\* Mutant: a node that already has children may be split again.
should_split_NotLeaf(t, n) ==
    LET unsolved == NonClosedFrom(t, Root)
    IN  /\ t.status[n] = "active"
        /\ Cardinality(unsolved) < 2 * Cardinality({m \in unsolved : t.status[m] = "active"})

\* should_split, up to its coin toss.
should_split(t, n) ==
    LET unsolved == NonClosedFrom(t, Root)
        active   == {m \in unsolved : t.status[m] = "active"}
    IN  /\ t.status[n] = "active" /\ IsLeaf(t, n)
        /\ Cardinality(unsolved) < 2 * Cardinality(active)
        /\ ~\E m \in unsolved : t.status[m] = "open" /\ ~t.visited[m]
        /\ Depth(n) \in TimedOutDepths(t)
        /\ \A d \in TimedOutDepths(t) : Depth(n) <= d

\* node::split: two open children of n, for a and for its negation.
split(t, n, a) ==
    LET kid(l)    == n \cup {l}
        kids      == {kid(a), kid(Neg(a))}
        grow(f,v) == [m \in t.nodes \cup kids |-> IF m \in t.nodes THEN f[m] ELSE v]
    IN  [nodes   |-> t.nodes \cup kids,
         lit     |-> [m \in t.nodes \cup kids |->
                        IF m \in t.nodes THEN t.lit[m] ELSE IF m = kid(a) THEN a ELSE Neg(a)],
         status  |-> grow(t.status, "open"),
         core    |-> grow(t.core, {}),
         workers |-> grow(t.workers, 0),
         visited |-> grow(t.visited, FALSE),
         effort  |-> grow(t.effort, 0),
         round   |-> grow(t.round, 0)]

\* The trees try_split may leave behind, one for each outcome of m_rand(2).
try_split(t, n, a, e) ==
    LET t1 == update_round_max_effort(t, n, e)
    IN  IF is_lease_canceled(t, n) THEN {t}
        ELSE IF should_split(t1, n) THEN {t1, split(t1, n, a)} ELSE {t1}

\* The trees activate_best_node may leave behind, with the node it returns.
activate_best_node(t) ==
    LET open == select_next_node(t, "open")
    IN  IF open # {} THEN open ELSE select_next_node(t, "active")

reset ==
    [nodes   |-> {Root},
     lit     |-> [m \in {Root} |-> NullLit],
     status  |-> [m \in {Root} |-> "open"],
     core    |-> [m \in {Root} |-> {}],
     workers |-> [m \in {Root} |-> 0],
     visited |-> [m \in {Root} |-> FALSE],
     effort  |-> [m \in {Root} |-> 0],
     round   |-> [m \in {Root} |-> 0]]

(* The types of the fields, as util/search_tree.h declares them: the two    *)
(* efforts are unsigned.                                                    *)
TreeType(t) ==
    /\ DOMAIN t = {"nodes", "lit", "status", "core", "workers", "visited", "effort", "round"}
    /\ t.nodes \subseteq SUBSET Lit
    /\ Root \in t.nodes
    /\ t.lit \in [t.nodes -> Lit \cup {NullLit}]
    /\ t.status \in [t.nodes -> Status]
    /\ t.core \in [t.nodes -> SUBSET Lit]
    /\ t.workers \in [t.nodes -> Nat]
    /\ t.visited \in [t.nodes -> BOOLEAN]
    /\ t.effort \in [t.nodes -> 0 .. EffortMod - 1]
    /\ t.round \in [t.nodes -> 0 .. EffortMod - 1]

\* A node that waits for a worker has no round under way, whose effort the next
\* report would take off again.
RoundsOver(t) == \A n \in t.nodes : t.status[n] = "open" => t.round[n] = 0
=============================================================================

-------------------------- MODULE SearchTreeProofs --------------------------
(***************************************************************************)
(* The properties of SearchTreeSpec, proved for every set of atoms and      *)
(* assumptions, every formula, every depth and any number of workers, from  *)
(* the inductive invariant IInv and the lemmas about the operations.        *)
(***************************************************************************)
EXTENDS SearchTreeSpec, SearchTreeLemmas

\* What activation, reports and release keep in step with each other.
InStep(t) == Leased(t) /\ RoundsOver(t)

\* The inductive invariant.
IInv == TypeOK /\ Good(tree, formula) /\ Settled(tree, Root) /\ Leased(tree)

(* The tree that reset builds satisfies the inductive invariant.           *)
LEMMA InitIInv == Init => IInv
  BY ResetGood DEF Init, IInv, TypeOK, Good

(* Every step keeps the inductive invariant, undoes no closing and no      *)
(* split.                                                                  *)
LEMMA StepIInv == IInv /\ [Next]_vars => IInv' /\ (Keeps(tree, tree') \/ UNCHANGED vars)
<1> SUFFICES ASSUME IInv, Next
             PROVE  IInv' /\ Keeps(tree, tree')
  <2>1. ASSUME IInv, UNCHANGED vars
        PROVE  IInv'
    BY <2>1 DEF IInv, vars, TypeOK
  <2> QED BY <2>1
<1> DEFINE F == formula
<1>1. F \in Formulas /\ TreeType(tree) /\ Good(tree, F) /\ Settled(tree, Root) /\ InStep(tree)
  BY DEF IInv, TypeOK, InStep
<1>2. UNCHANGED formula
  BY Zenon DEF Next, ActivateRoot, ActivateBestNode, GiveUp, Refute, Abandon, CloseElsewhere
<1>3. SUFFICES Good(tree', F) /\ Settled(tree', Root) /\ InStep(tree') /\ Keeps(tree, tree')
  BY <1>1, <1>2 DEF IInv, TypeOK, Good, InStep
<1> HIDE DEF F
<1>4. ASSUME NEW n \in tree.nodes, ~ClosedIn(tree, n), tree' = mark_new_activation(tree, n)
      PROVE  Good(tree', F) /\ Settled(tree', Root) /\ InStep(tree') /\ Keeps(tree, tree')
  BY <1>1, <1>4, ActivateFacts, SameClosureGood, SameClosureKeeps DEF InStep
<1>5. \A n, C : C \in Conflicts(n) =>
         C \subseteq n \cup Asms /\ Refutes(F, C) /\ (C = {} \/ C \cap n # {})
  BY DEF Conflicts, Unsat, Refutes, F
<1>6. ASSUME NEW t, Good(t, F), Settled(t, Root), InStep(t), Keeps(tree, t),
             NEW n \in t.nodes, NEW C \in Conflicts(n), tree' = backtrack(t, n, C)
      PROVE  Good(tree', F) /\ Settled(tree', Root) /\ InStep(tree') /\ Keeps(tree, tree')
  <2>1. Good(tree', F) /\ Settled(tree', Root) /\ Closes(t, tree')
    BY <1>1, <1>5, <1>6, BacktrackGood
  <2> QED BY <1>6, <2>1, ClosesLeased, ClosesRounds, ClosesKeeps, KeepsTransitive DEF InStep
<1>7. ASSUME NEW t, Good(t, F), Settled(t, Root), InStep(t), Keeps(tree, t),
             NEW n \in t.nodes, NEW u, u = dec_active_workers(t, n)
      PROVE  /\ Good(u, F) /\ Settled(u, Root) /\ InStep(u) /\ Keeps(tree, u)
             /\ n \in u.nodes
  <2>1. TreeType(u) /\ InStep(u) /\ SameClosure(t, u)
    BY <1>7, ReleaseFacts DEF Good, InStep
  <2>2. n \in u.nodes
    BY <2>1 DEF SameClosure
  <2> QED BY <1>7, <2>1, <2>2, SameClosureGood, SameClosureKeeps, KeepsTransitive
<1>8. Keeps(tree, tree)
  BY DEF Keeps
<1>9. CASE ActivateRoot
  <2>1. Root \in tree.nodes /\ ~ClosedIn(tree, Root)
    BY <1>1 DEF Next, is_closed, ClosedIn, TreeType
  <2> QED BY <1>4, <1>9, <2>1, SMTT(30) DEF ActivateRoot
<1>10. CASE ActivateBestNode
  <2>1. PICK n \in activate_best_node(tree) : tree' = mark_new_activation(tree, n)
    BY <1>10, SMTT(30) DEF ActivateBestNode
  <2>2. n \in NonClosedFrom(tree, Root)
    BY DEF activate_best_node, select_next_node
  <2>3. n \in tree.nodes /\ ~ClosedIn(tree, n)
    BY <2>2, SMTT(30) DEF NonClosedFrom, Subtree, Ancestors, ClosedIn, Root
  <2> QED BY <1>4, <2>1, <2>3, SMTT(30)
<1>11. CASE GiveUp
  <2>1. PICK n \in tree.nodes, x \in SplitAtom, e \in Effort :
             /\ tree.workers[n] > 0
             /\ ~path_contains_atom(n, <<x, TRUE>>)
             /\ \E t \in try_split(tree, n, <<x, TRUE>>, e) : tree' = dec_active_workers(t, n)
    BY <1>11, Zenon DEF GiveUp
  <2>2. PICK t \in try_split(tree, n, <<x, TRUE>>, e) : tree' = dec_active_workers(t, n)
    BY <2>1
  <2>3. <<x, TRUE>> \in Lit
    BY ConstantsAssumption, ZenonT(30) DEF Lit
  <2>4. Good(t, F) /\ Settled(t, Root) /\ InStep(t) /\ Keeps(tree, t)
    <3>1. CASE is_lease_canceled(tree, n)
      BY <1>1, <1>8, <2>2, <3>1 DEF try_split
    <3>2. CASE ~is_lease_canceled(tree, n)
      <4>1. tree.status[n] # "open"
        BY <1>1, <2>1, <3>2 DEF InStep, Leased, ClosedIn, is_lease_canceled
      <4> QED BY <1>1, <2>1, <2>2, <2>3, <4>1, TrySplitGood DEF InStep
    <3> QED BY <3>1, <3>2
  <2>5. n \in t.nodes
    BY <2>4 DEF Keeps
  <2> QED BY <1>7, <2>2, <2>4, <2>5, SMTT(30)
<1>12. CASE Refute
  <2>1. PICK n \in tree.nodes : \E C \in Conflicts(n) :
             tree' = backtrack(dec_active_workers(tree, n), n, C)
    BY <1>12 DEF Refute
  <2> DEFINE t == dec_active_workers(tree, n)
  <2>2. PICK C \in Conflicts(n) : tree' = backtrack(t, n, C)
    BY <2>1
  <2>3. Good(t, F) /\ Settled(t, Root) /\ InStep(t) /\ Keeps(tree, t) /\ n \in t.nodes
    BY <1>1, <1>7, <1>8, SMTT(30)
  <2> HIDE DEF t
  <2> QED BY <1>6, <2>2, <2>3, SMTT(30)
<1>13. CASE Abandon
  BY <1>1, <1>7, <1>8, <1>13, SMTT(30) DEF Abandon
<1>14. CASE CloseElsewhere
  BY <1>1, <1>6, <1>8, <1>14, SMTT(30) DEF CloseElsewhere
<1> QED BY <1>9, <1>10, <1>11, <1>12, <1>13, <1>14 DEF Next

(* The inductive invariant holds in every reachable state: the tree is     *)
(* well formed, nothing above a refuted pair of siblings is left open, and *)
(* the cores are sound.                                                    *)
THEOREM Inductive == Spec => []IInv
  BY InitIInv, StepIInv, PTL, SMTT(30) DEF Spec

(* For every instance, every field keeps its type, and no round of reports *)
(* is under way on a node that waits for a worker.                         *)
THEOREM TypeCorrect == Spec => []TypeOK
<1>1. IInv => TypeOK
  BY SMTT(30) DEF IInv
<1> QED BY <1>1, Inductive, PTL, SMTT(30)

(* For every set of atoms, assumptions and formulas and any number of      *)
(* workers, the core of a closed node is made of its path and the          *)
(* assumptions, and the formula has no model that satisfies it.            *)
THEOREM CoresAlwaysSound == Spec => []CoresSound
<1>1. IInv => CoresSound
  BY SMTT(30) DEF IInv, Good, CoresOK, ClosedIn, CoresSound, Closed, Refutes, Unsat
<1> QED BY <1>1, Inductive, PTL

(* For every instance, an open parent has an open child and nothing below  *)
(* a closed node is open (the comment over close_with_core).               *)
THEOREM ClosureAlwaysComplete == Spec => []ClosureComplete
<1>1. IInv => ClosureComplete
  BY SMTT(30) DEF IInv, Good, DownClosed, Settled, ClosedIn, ClosureComplete, Closed
<1> QED BY <1>1, Inductive, PTL

(* For every instance, a node that is not closed is active exactly while   *)
(* some worker holds it.                                                   *)
THEOREM ActiveAlwaysMeansLeased == Spec => []ActiveMeansLeased
<1>1. IInv => ActiveMeansLeased
  BY DEF IInv, Leased, ClosedIn, ActiveMeansLeased, Closed
<1> QED BY <1>1, Inductive, PTL

(* For every instance, no step reopens a closed node or drops a node.      *)
THEOREM ClosedStaysClosed == Spec => ClosedForever
<1>1. IInv /\ [Next]_vars =>
        [\A n \in tree.nodes :
          /\ n \in tree'.nodes /\ tree'.lit[n] = tree.lit[n]
          /\ Closed(n) => tree'.status[n] = "closed"]_vars
  BY StepIInv DEF Keeps, ClosedIn, Closed
<1> QED BY <1>1, Inductive, PTL, SMTT(30) DEF Spec, ClosedForever

(* For every instance, no step gives children to a node that has some.     *)
THEOREM SplitAtMostOnce == Spec => SplitOnce
<1>1. ASSUME IInv, Keeps(tree, tree'), NEW k \in tree'.nodes \ tree.nodes
      PROVE  Children(tree, Parent(tree', k)) = {}
  <2> DEFINE p == Parent(tree', k)
  <2>1. k # Root
    BY <1>1 DEF IInv, TypeOK, TreeType
  <2>2. k \in Children(tree', p) /\ k \notin Children(tree, p)
    BY <1>1, <2>1 DEF Children
  <2>3. ASSUME NEW m \in Children(tree, p)
        PROVE  p \in tree.nodes
    BY <1>1, <2>3, ParentFacts DEF IInv, Good, Children
  <2> QED BY <1>1, <2>2, <2>3 DEF Keeps
<1>2. IInv /\ [Next]_vars =>
        [\A k \in tree'.nodes \ tree.nodes : Children(tree, Parent(tree', k)) = {}]_vars
  BY <1>1, StepIInv
<1> QED BY <1>2, Inductive, PTL, SMTT(30) DEF Spec, SplitOnce

(* For every instance, a model of the formula and the assumptions always   *)
(* lies in exactly one leaf of the tree, and that leaf is not closed: the  *)
(* search can still find it.                                               *)
THEOREM NoModelEverLost == Spec => []NoModelLost
<1>1. IInv => NoModelLost
  <2> SUFFICES ASSUME IInv, NEW M \in formula, Asms \subseteq M
               PROVE  \E n \in tree.nodes :
                        /\ IsLeaf(tree, n) /\ n \subseteq M /\ ~Closed(n)
                        /\ \A m \in tree.nodes : IsLeaf(tree, m) /\ m \subseteq M => m = n
    BY DEF NoModelLost
  <2>1. TreeType(tree) /\ Shape(tree) /\ CoresOK(tree, formula) /\ M \in Assignment
    BY ConstantsAssumption DEF IInv, Good, TypeOK
  <2>2. \A l \in Lit : Neg(l) \in M <=> l \notin M
    BY <2>1 DEF Assignment
  <2> DEFINE within == {m \in tree.nodes : m \subseteq M}
  <2>3. PICK n \in within : \A m \in within : n \subseteq m => m = n
    <3> DEFINE D == Cardinality(UNION tree.nodes)
               gaps == {D - Depth(m) : m \in within}
    <3>1. IsFiniteSet(UNION tree.nodes)
      BY <2>1, FS_UNION, SMTT(30) DEF Shape
    <3>2. \A m \in within : IsFiniteSet(m) /\ Depth(m) \in Nat /\ Depth(m) <= D
      BY <2>1, <3>1, FS_Subset, FS_CardinalityType, SMTT(30) DEF Shape, Depth
    <3>3. D \in Nat
      BY <3>1, FS_CardinalityType, SMTT(30)
    <3> HIDE DEF D
    <3>4. Root \in within
      BY <2>1, SMTT(30) DEF TreeType, Root
    <3> HIDE DEF within
    <3>5. gaps \in SUBSET Nat /\ gaps # {}
      BY <3>2, <3>3, <3>4, SMTT(30)
    <3>6. PICK d \in gaps : \A e \in gaps : d <= e
      <4> HIDE DEF gaps
      <4> QED BY <3>5, NatMin, SMTT(30)
    <3>7. PICK n \in within : d = D - Depth(n)
      OBVIOUS
    <3>8. ASSUME NEW m \in within, n \subseteq m
          PROVE  m = n
      <4>1. D - Depth(n) <= D - Depth(m)
        BY <3>6, <3>7, SMTT(30)
      <4>2. Depth(m) \in Nat /\ Depth(n) \in Nat
        BY <3>2, SMTT(30)
      <4>3. Depth(m) <= Depth(n)
        BY <4>1, <4>2, <3>3, SMTT(30)
      <4> QED BY <4>3, <3>2, <3>8, FS_Subset, SMTT(30) DEF Depth
    <3> QED BY <3>8, SMTT(30)
  <2>4. IsLeaf(tree, n)
    <3> SUFFICES ASSUME ~IsLeaf(tree, n) PROVE FALSE
      OBVIOUS
    <3>1. PICK k \in tree.nodes \ {Root} : Parent(tree, k) = n
      BY <2>1, SplitNodeHasChild, SMTT(30)
    <3> DEFINE l == tree.lit[k]
               s == n \cup {Neg(l)}
    <3>2. k = n \cup {l} /\ l \in k /\ l \notin n /\ k \subseteq Lit
      BY <2>1, <3>1, ParentFacts, SMTT(30) DEF TreeType
    <3>3. s \in tree.nodes /\ Neg(l) \notin k
      BY <2>1, <3>1, <3>2, ZenonT(30) DEF Shape
    <3>4. k \subseteq M \/ s \subseteq M
      BY <2>2, <3>2
    <3>5. k # n /\ s # n /\ n \subseteq k /\ n \subseteq s
      BY <3>2, <3>3
    <3> QED BY <2>3, <3>3, <3>4, <3>5, SMTT(30)
  <2>5. ~Closed(n)
    BY <2>1 DEF CoresOK, Refutes, Closed, ClosedIn
  <2>6. ASSUME NEW m \in tree.nodes, IsLeaf(tree, m), m \subseteq M
        PROVE  m = n
    <3>1. ~ \E l \in m : Neg(l) \in n
      BY <2>1, <2>2, <2>6 DEF TreeType
    <3>2. m \subseteq n \/ n \subseteq m
      BY <2>1, <3>1 DEF Shape
    <3> QED BY <3>2, <2>4, <2>6 DEF IsLeaf, Subtree
  <2> QED BY <2>4, <2>5, <2>6, SMTT(30)
<1> QED BY <1>1, Inductive, PTL
=============================================================================

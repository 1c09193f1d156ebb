-------------------------- MODULE SearchTreeLemmas --------------------------
(***************************************************************************)
(* What each operation of the search tree keeps, for every tree, every set  *)
(* of atoms and assumptions and every formula.  The callers' proofs cite    *)
(* these lemmas: SearchTreeProofs for the tree on its own, ParallelSmtLemmas  *)
(* and ParallelSmtProofs for the tree under the batch manager.              *)
(*                                                                         *)
(* Good is the invariant of the tree: its types, its shape, and what the    *)
(* closed nodes and their cores are.  Settled, "nothing is left to          *)
(* resolve", is broken and restored within one call of close_with_core: the *)
(* weaker form Settled(t, c) says that only the parent of c may be left, and*)
(* c climbs to the root.  Inductions over the depth are arguments by least  *)
(* counterexample (NatMin).                                                 *)
(***************************************************************************)
EXTENDS SearchTree, FiniteSetTheorems, WellFoundedInduction, TLAPS

\* The leaves that name no prover go to Zenon.
USE ZenonT(30)

\* No model of F satisfies C: Unsat for a formula F.
Refutes(F, C) == \A M \in F : ~(C \subseteq M)

\* What every tree the operations build looks like: consistent paths, which
\* fork on a literal and its negation; every literal of a path is the decision
\* of a node; parents and siblings exist.
Shape(t) ==
    /\ t.lit[Root] = NullLit
    /\ IsFiniteSet(t.nodes)
    /\ \A n \in t.nodes : IsFiniteSet(n)
    /\ \A n \in t.nodes : \A l \in n : Neg(l) \notin n
    /\ \A m, n \in t.nodes : m \subseteq n \/ n \subseteq m \/ \E l \in m : Neg(l) \in n
    /\ \A n \in t.nodes : \A l \in n : \E m \in t.nodes : m \subseteq n /\ t.lit[m] = l
    /\ \A n \in t.nodes \ {Root} :
          /\ t.lit[n] \in n
          /\ Parent(t, n) \in t.nodes
          /\ Parent(t, n) \cup {Neg(t.lit[n])} \in t.nodes
          /\ t.lit[Parent(t, n) \cup {Neg(t.lit[n])}] = Neg(t.lit[n])

\* The closure invariants: of the nodes, of the cores, and of empty cores, which
\* only a closed root makes possible.
ClosedIn(t, n) == t.status[n] = "closed"
DownClosed(t) == \A m, n \in t.nodes : m \subseteq n /\ ClosedIn(t, m) => ClosedIn(t, n)
CoresOK(t, F) ==
    \A n \in t.nodes : ClosedIn(t, n) => t.core[n] \subseteq n \cup Asms /\ Refutes(F, t.core[n])
EmptyOK(t) == \A n \in t.nodes : ClosedIn(t, n) /\ t.core[n] = {} => ClosedIn(t, Root)

Good(t, F) == TreeType(t) /\ Shape(t) /\ DownClosed(t) /\ CoresOK(t, F) /\ EmptyOK(t)

\* Closure has been propagated everywhere but, perhaps, to the parent of c.
Settled(t, c) ==
    \A p \in t.nodes :
        Children(t, p) # {} /\ (\A k \in Children(t, p) : ClosedIn(t, k)) /\ ~ClosedIn(t, p)
        => c # Root /\ p = Parent(t, c)

(* Negation is an involution without fixed point on the literals.          *)
LEMMA NegLit == \A l \in Lit : Neg(l) \in Lit /\ Neg(Neg(l)) = l /\ Neg(l) # l
<1> SUFFICES ASSUME NEW x \in Atom, NEW b \in BOOLEAN
             PROVE  LET l == <<x, b>> IN Neg(l) \in Lit /\ Neg(Neg(l)) = l /\ Neg(l) # l
  BY SMTT(30) DEF Lit
<1>1. CASE b = TRUE
  BY <1>1 DEF Lit, Neg
<1>2. CASE b = FALSE
  BY <1>2 DEF Lit, Neg
<1> QED BY <1>1, <1>2

(* A node other than the root is its parent's path and one more literal,   *)
(* its own.                                                                *)
LEMMA ParentFacts ==
  ASSUME NEW t, TreeType(t), Shape(t), NEW k \in t.nodes \ {Root}
  PROVE  /\ Parent(t, k) \in t.nodes
         /\ Parent(t, k) \subseteq k
         /\ k = Parent(t, k) \cup {t.lit[k]}
         /\ t.lit[k] \in k
         /\ t.lit[k] \notin Parent(t, k)
<1>1. Parent(t, k) \in t.nodes /\ t.lit[k] \in k
  BY DEF Shape
<1> QED BY <1>1 DEF Parent

(* Between a node and its parent there is no third node: what lies on the  *)
(* path of a node and not on the path of its parent is the node itself.    *)
LEMMA KidChain ==
  ASSUME NEW t, TreeType(t), Shape(t), NEW k \in t.nodes \ {Root}, NEW n \in t.nodes,
         n \subseteq k, ~(n \subseteq Parent(t, k))
  PROVE  n = k
<1> DEFINE p == Parent(t, k)
<1>1. p \in t.nodes /\ p \subseteq k /\ k = p \cup {t.lit[k]}
  BY ParentFacts
<1>2. ~ \E l \in n : Neg(l) \in p
  BY <1>1 DEF Shape
<1>3. p \subseteq n
  BY <1>1, <1>2 DEF Shape
<1> QED BY <1>1, <1>3

(* The shape of a tree depends on its nodes and their literals only.       *)
LEMMA ShapeSame ==
  ASSUME NEW t, NEW u, u.nodes = t.nodes, u.lit = t.lit, Shape(t)
  PROVE  Shape(u)
<1>1. \A n : Parent(u, n) = Parent(t, n)
  BY DEF Parent
<1>2. \A m, n \in u.nodes : m \subseteq n \/ n \subseteq m \/ \E l \in m : Neg(l) \in n
  BY DEF Shape
<1>3. \A n \in u.nodes : \A l \in n : \E m \in u.nodes : m \subseteq n /\ u.lit[m] = l
  BY SMTT(30) DEF Shape
<1>4. \A n \in u.nodes \ {Root} :
          /\ u.lit[n] \in n
          /\ Parent(u, n) \in u.nodes
          /\ Parent(u, n) \cup {Neg(u.lit[n])} \in u.nodes
          /\ u.lit[Parent(u, n) \cup {Neg(u.lit[n])}] = Neg(u.lit[n])
  BY <1>1 DEF Shape
<1> QED BY <1>2, <1>3, <1>4 DEF Shape

(* What close does (the recursion with the early return on closed nodes):  *)
(* it closes exactly the subtree of n, and only the nodes that were not    *)
(* closed take the core C.                                                 *)
LEMMA CloseFacts ==
  ASSUME NEW t, TreeType(t), Shape(t), DownClosed(t), NEW n \in t.nodes, NEW C \in SUBSET Lit,
         NEW u, u = close(t, n, C)
  PROVE  /\ TreeType(u)
         /\ u.nodes = t.nodes /\ u.lit = t.lit /\ u.workers = t.workers
         /\ u.visited = t.visited /\ u.effort = t.effort /\ u.round = t.round
         /\ \A m \in t.nodes :
               /\ u.status[m] = IF n \subseteq m THEN "closed" ELSE t.status[m]
               /\ u.core[m] = IF n \subseteq m /\ ~ClosedIn(t, m) THEN C ELSE t.core[m]
<1> DEFINE closing == NonClosedFrom(t, n)
<1>1. \A m \in t.nodes : m \in closing <=> n \subseteq m /\ ~ClosedIn(t, m)
  BY DEF NonClosedFrom, Subtree, Ancestors, DownClosed, ClosedIn
<1>2. /\ DOMAIN u = DOMAIN t
      /\ u.nodes = t.nodes /\ u.lit = t.lit /\ u.workers = t.workers
      /\ u.visited = t.visited /\ u.effort = t.effort /\ u.round = t.round
      /\ u.status = [m \in t.nodes |-> IF m \in closing THEN "closed" ELSE t.status[m]]
      /\ u.core = [m \in t.nodes |-> IF m \in closing THEN C ELSE t.core[m]]
  BY DEF close, TreeType
<1> HIDE DEF closing
<1>3. u.status \in [u.nodes -> Status] /\ u.core \in [u.nodes -> SUBSET Lit]
  BY <1>2, SMTT(30) DEF TreeType, Status
<1>4. TreeType(u)
  BY <1>2, <1>3 DEF TreeType
<1> QED BY <1>1, <1>2, <1>4, SMTT(30) DEF ClosedIn

\* u is t after some closings.
Closes(t, u) ==
    /\ u.nodes = t.nodes /\ u.lit = t.lit /\ u.workers = t.workers /\ u.round = t.round
    /\ \A n \in t.nodes :
          /\ u.status[n] \in {t.status[n], "closed"}
          /\ ClosedIn(t, n) => ClosedIn(u, n) /\ u.core[n] = t.core[n]

(* Closings compose.                                                       *)
LEMMA ClosesTransitive ==
  ASSUME NEW t, NEW u, NEW v, Closes(t, u), Closes(u, v)
  PROVE  Closes(t, v)
  BY DEF Closes, ClosedIn

(* close keeps the shape, the downward closure and the soundness of the    *)
(* cores, when C is a refuted subset of the path of n and the assumptions. *)
LEMMA CloseGood ==
  ASSUME NEW F, NEW t, Good(t, F), NEW n \in t.nodes, NEW C \in SUBSET Lit,
         C \subseteq n \cup Asms, Refutes(F, C), C = {} => n = Root,
         NEW u, u = close(t, n, C)
  PROVE  /\ Good(u, F)
         /\ Closes(t, u)
         /\ ClosedIn(u, n)
<1> USE DEF Good
<1>1. /\ TreeType(u)
      /\ u.nodes = t.nodes /\ u.lit = t.lit /\ u.workers = t.workers /\ u.round = t.round
      /\ \A m \in t.nodes :
            /\ u.status[m] = IF n \subseteq m THEN "closed" ELSE t.status[m]
            /\ u.core[m] = IF n \subseteq m /\ ~ClosedIn(t, m) THEN C ELSE t.core[m]
  BY CloseFacts, SMTT(30)
<1>2. Shape(u)
  BY <1>1, ShapeSame
<1>3. \A m \in t.nodes : ClosedIn(u, m) <=> n \subseteq m \/ ClosedIn(t, m)
  BY <1>1 DEF ClosedIn
<1>4. DownClosed(u)
  BY <1>1, <1>3 DEF DownClosed
<1>5. CoresOK(u, F)
  BY <1>1, <1>3, SMTT(30) DEF CoresOK
<1>6. Root \in t.nodes /\ (n = Root => ClosedIn(u, Root))
  BY <1>3 DEF TreeType
<1>7. EmptyOK(u)
  BY <1>1, <1>3, <1>6 DEF EmptyOK
<1>8. Closes(t, u)
  BY <1>1, <1>3 DEF Closes
<1> QED BY <1>1, <1>2, <1>3, <1>4, <1>5, <1>7, <1>8

(* Closing n, an ancestor of the only node c whose parent may be left to   *)
(* resolve, leaves at most the parent of n to resolve.                     *)
LEMMA CloseSettled ==
  ASSUME NEW F, NEW t, Good(t, F), NEW n \in t.nodes, NEW C \in SUBSET Lit,
         NEW c \in t.nodes, Settled(t, c), c = Root \/ n \subseteq c,
         NEW u, u = close(t, n, C)
  PROVE  Settled(u, n)
<1> USE DEF Good
<1>1. /\ u.nodes = t.nodes /\ u.lit = t.lit
      /\ \A m \in t.nodes : u.status[m] = IF n \subseteq m THEN "closed" ELSE t.status[m]
  BY CloseFacts, SMTT(30)
<1>2. \A m \in t.nodes : ClosedIn(u, m) <=> n \subseteq m \/ ClosedIn(t, m)
  BY <1>1 DEF ClosedIn
<1>3. \A p : Children(u, p) = Children(t, p)
  BY <1>1 DEF Children, Parent
<1>4. \A m : Parent(u, m) = Parent(t, m)
  BY <1>1 DEF Parent
<1> SUFFICES ASSUME NEW p \in t.nodes, Children(t, p) # {}, ~ClosedIn(u, p),
                    \A k \in Children(t, p) : ClosedIn(u, k)
             PROVE  n # Root /\ p = Parent(t, n)
  BY <1>1, <1>3, <1>4 DEF Settled
<1>5. ~(n \subseteq p) /\ ~ClosedIn(t, p)
  BY <1>2
<1>6. n # Root
  BY <1>5 DEF Root
<1>7. \A k \in Children(t, p) : k \in t.nodes \ {Root} /\ Parent(t, k) = p
  BY DEF Children
<1>8. CASE \A k \in Children(t, p) : ClosedIn(t, k)
  <2>1. c # Root /\ p = Parent(t, c)
    BY <1>5, <1>8 DEF Settled
  <2>2. n = c
    BY <2>1, <1>5, KidChain
  <2> QED BY <2>1, <2>2
<1>9. CASE \E k \in Children(t, p) : ~ClosedIn(t, k)
  <2>1. PICK k \in Children(t, p) : n \subseteq k
    BY <1>9, <1>2, <1>7
  <2>2. n = k
    BY <2>1, <1>5, <1>7, KidChain, SMTT(30)
  <2> QED BY <2>2, <1>7, <1>6
<1> QED BY <1>8, <1>9

(* The sibling resolvent (compute_sibling_resolvent) is refuted by the     *)
(* formula and lies on the parent's path and the assumptions: every        *)
(* assignment makes the literal of one of the two siblings true.           *)
LEMMA ResolventSound ==
  ASSUME NEW F \in Formulas, NEW t, Good(t, F), NEW p \in t.nodes, CanResolve(t, p),
         NEW R, R = compute_sibling_resolvent(t, p)
  PROVE  R \in SUBSET Lit /\ R \subseteq p \cup Asms /\ Refutes(F, R)
<1> USE DEF Good
<1>1. \A k \in Children(t, p) : k \in t.nodes \ {Root} /\ Parent(t, k) = p
  BY DEF Children
<1>2. \A k \in Children(t, p) : ClosedIn(t, k) /\ t.core[k] \subseteq k \cup Asms
                                /\ Refutes(F, t.core[k])
  BY <1>1 DEF CanResolve, CoresOK, ClosedIn
<1>3. \A k \in Children(t, p) : t.core[k] \ {t.lit[k]} \subseteq R
  BY DEF compute_sibling_resolvent
<1>4. \A k \in Children(t, p) : k = p \cup {t.lit[k]}
  BY <1>1, ParentFacts
<1>5. R \subseteq p \cup Asms
  BY <1>2, <1>4, SMTT(30) DEF compute_sibling_resolvent
<1>6. p \subseteq Lit /\ Asms \subseteq Lit
  BY ConstantsAssumption DEF TreeType
<1>7. PICK k \in Children(t, p) : TRUE
  BY DEF CanResolve
<1> DEFINE l == t.lit[k]
           s == p \cup {Neg(l)}
<1>8. k \in t.nodes \ {Root} /\ k = p \cup {l} /\ l \in k /\ k \subseteq Lit /\ Parent(t, k) = p
  BY <1>1, <1>4, <1>7 DEF TreeType
<1>9. l \in Lit /\ Neg(l) \in Lit /\ Neg(l) \notin k
  BY <1>8, NegLit DEF Shape
<1>10. s \in t.nodes /\ t.lit[s] = Neg(l)
  BY <1>8 DEF Shape
<1>11. s \in Children(t, p)
  <2>1. s # Root /\ s \ {Neg(l)} = p
    BY <1>8, <1>9 DEF Root
  <2> QED BY <2>1, <1>10 DEF Children, Parent
<1> HIDE DEF l, s
<1>12. ASSUME NEW M \in F, R \subseteq M
       PROVE  FALSE
  <2>1. M \in Assignment
    BY ConstantsAssumption
  <2>2. l \in M \/ Neg(l) \in M
    BY <2>1, <1>9 DEF Assignment
  <2>3. t.core[k] \ {l} \subseteq M /\ t.core[s] \ {Neg(l)} \subseteq M
    BY <1>3, <1>7, <1>10, <1>11, <1>12 DEF l
  <2>4. ~(t.core[k] \subseteq M) /\ ~(t.core[s] \subseteq M)
    BY <1>2, <1>7, <1>11 DEF Refutes
  <2> QED BY <2>2, <2>3, <2>4
<1> QED BY <1>5, <1>6, <1>12 DEF Refutes

(* Where the code gives up on resolving because a child is open or has an  *)
(* empty core, nothing is left to resolve.                                 *)
LEMMA NotResolvable ==
  ASSUME NEW F, NEW t, Good(t, F), NEW c \in t.nodes \ {Root}, Settled(t, c),
         ~CanResolve(t, Parent(t, c)), NEW d
  PROVE  Settled(t, d)
<1> USE DEF Good
<1> SUFFICES ASSUME NEW p \in t.nodes, Children(t, p) # {}, ~ClosedIn(t, p),
                    \A k \in Children(t, p) : ClosedIn(t, k)
             PROVE  FALSE
  BY DEF Settled
<1>1. p = Parent(t, c)
  BY DEF Settled
<1>2. PICK k \in Children(t, p) : t.core[k] = {}
  BY <1>1 DEF CanResolve, ClosedIn
<1>3. k \in t.nodes /\ ClosedIn(t, k) /\ Root \in t.nodes /\ Root \subseteq p
  BY DEF Children, TreeType, Root
<1>4. ClosedIn(t, Root)
  BY <1>2, <1>3 DEF EmptyOK
<1> QED BY <1>3, <1>4 DEF DownClosed

(* Once the root is closed nothing is left to resolve.                     *)
LEMMA AllClosed ==
  ASSUME NEW F, NEW t, Good(t, F), ClosedIn(t, Root), NEW d
  PROVE  Settled(t, d)
<1> USE DEF Good
<1>1. \A p \in t.nodes : ClosedIn(t, p)
  BY DEF DownClosed, TreeType, Root
<1> QED BY <1>1 DEF Settled

(* One turn of the loop of propagate_closure_upward moves what is left to  *)
(* resolve from the parent of c to the parent of that parent.              *)
LEMMA ResolveAtGood ==
  ASSUME NEW F \in Formulas, NEW t, Good(t, F), NEW c \in t.nodes \ {Root}, Settled(t, c),
         NEW p, p = Parent(t, c), NEW u, u = ResolveAt(t, p)
  PROVE  Good(u, F) /\ Closes(t, u) /\ Settled(u, p)
<1> DEFINE res == compute_sibling_resolvent(t, p)
<1>1. p \in t.nodes /\ p \subseteq c /\ Root \in t.nodes
  BY ParentFacts DEF Good, TreeType
<1>2. CASE ~CanResolve(t, p)
  <2>1. u = t
    BY <1>2 DEF ResolveAt
  <2> QED BY <2>1, <1>2, NotResolvable DEF Closes
<1>3. CASE CanResolve(t, p)
  <2>1. res \in SUBSET Lit /\ res \subseteq p \cup Asms /\ Refutes(F, res)
    BY <1>1, <1>3, ResolventSound, SMTT(30)
  <2>2. CASE res = {}
    <3>1. u = close(t, Root, {})
      BY <1>3, <2>2 DEF ResolveAt
    <3>2. Good(u, F) /\ Closes(t, u) /\ ClosedIn(u, Root)
      BY <3>1, <2>1, <2>2, <1>1, CloseGood
    <3> QED BY <3>2, AllClosed
  <2>3. CASE res # {}
    <3>1. u = close(t, p, res)
      BY <1>3, <2>3 DEF ResolveAt
    <3>2. Good(u, F) /\ Closes(t, u)
      BY <3>1, <2>1, <2>3, <1>1, CloseGood
    <3>3. Settled(u, p)
      BY <3>1, <2>1, <1>1, CloseSettled
    <3> QED BY <3>2, <3>3
  <2> QED BY <2>2, <2>3
<1> QED BY <1>2, <1>3

(* A non-empty set of naturals has a least element.                        *)
LEMMA NatMin ==
  ASSUME NEW S \in SUBSET Nat, S # {}
  PROVE  \E x \in S : \A y \in S : x <= y
<1> DEFINE R == {ss \in Nat \X Nat : ss[1] < ss[2]}
<1>1. IsWellFoundedOn(R, Nat)
  BY NatLessThanWellFounded DEF OpToRel
<1> HIDE DEF R
<1>2. PICK x \in S : \A y \in S : ~(<<y, x>> \in R)
  BY <1>1, WFMin
<1>3. \A y \in S : ~(y < x)
  BY <1>2 DEF R
<1> QED BY <1>3, SMTT(30)

(* Two ancestors of a node are on one path.                                *)
LEMMA AncestorChain ==
  ASSUME NEW t, TreeType(t), Shape(t), NEW n \in t.nodes,
         NEW a \in Ancestors(t, n), NEW b \in Ancestors(t, n)
  PROVE  a \subseteq b \/ b \subseteq a
<1>1. a \in t.nodes /\ b \in t.nodes /\ a \subseteq n /\ b \subseteq n
  BY DEF Ancestors
<1> QED BY <1>1, SMTT(30) DEF Shape

(* A node has one ancestor at each depth.                                  *)
LEMMA AncestorAtDepth ==
  ASSUME NEW t, TreeType(t), Shape(t), NEW n \in t.nodes, NEW a \in Ancestors(t, n)
  PROVE  AncestorAt(t, n, Depth(a)) = a
<1> DEFINE m == AncestorAt(t, n, Depth(a))
<1>1. m \in Ancestors(t, n) /\ Depth(m) = Depth(a)
  BY DEF AncestorAt
<1>2. IsFiniteSet(a) /\ IsFiniteSet(m)
  BY <1>1 DEF Ancestors, Shape
<1>3. a \subseteq m \/ m \subseteq a
  BY <1>1, AncestorChain
<1> HIDE DEF m
<1>4. m = a
  BY <1>1, <1>2, <1>3, FS_Subset DEF Depth
<1> QED BY <1>4 DEF m

(* The parent of an ancestor is the ancestor one level up.                 *)
LEMMA ParentDepth ==
  ASSUME NEW t, TreeType(t), Shape(t), NEW n \in t.nodes, NEW a \in Ancestors(t, n), a # Root
  PROVE  /\ Parent(t, a) \in Ancestors(t, n)
         /\ Depth(a) \in Nat /\ Depth(a) > 0
         /\ Depth(Parent(t, a)) = Depth(a) - 1
<1>1. a \in t.nodes \ {Root} /\ a \subseteq n /\ IsFiniteSet(a)
  BY DEF Ancestors, Shape
<1>2. Parent(t, a) \in t.nodes /\ Parent(t, a) \subseteq a /\ t.lit[a] \in a
  BY <1>1, ParentFacts
<1>3. Depth(a) \in Nat /\ Depth(a) # 0
  BY <1>1, FS_CardinalityType, FS_EmptySet DEF Depth, Root
<1>4. Depth(Parent(t, a)) = Depth(a) - 1
  BY <1>1, <1>2, FS_RemoveElement DEF Depth, Parent
<1> QED BY <1>1, <1>2, <1>3, <1>4, SMTT(30) DEF Ancestors

\* The loop of propagate_closure_upward, from depth D down to depth e.
IsClimb(f, t, cur, e, D) ==
    f = [d \in e .. D |-> IF d = D THEN t ELSE ResolveAt(f[d + 1], AncestorAt(t, cur, d))]

(* The loop of propagate_closure_upward defines a tree at every depth.     *)
LEMMA ClimbExists ==
  ASSUME NEW t, NEW cur, NEW D \in Nat
  PROVE  \E f : IsClimb(f, t, cur, 0, D)
<1> DEFINE bad == {k \in 0 .. D : ~ \E f : IsClimb(f, t, cur, D - k, D)}
<1> SUFFICES ASSUME bad # {} PROVE FALSE
  <2>1. D \in 0 .. D /\ D - D = 0
    BY SMTT(30)
  <2>2. D \notin bad
    OBVIOUS
  <2> QED BY <2>1, <2>2
<1>1. PICK k \in bad : \A j \in bad : k <= j
  <2>1. bad \in SUBSET Nat
    BY SMTT(30)
  <2> HIDE DEF bad
  <2> QED BY <2>1, NatMin
<1>2. k # 0
  <2> DEFINE f == [d \in D .. D |-> t]
  <2>1. f = [d \in D .. D |-> IF d = D THEN t ELSE ResolveAt(f[d + 1], AncestorAt(t, cur, d))]
    BY SMTT(30)
  <2>2. IsClimb(f, t, cur, D - 0, D)
    BY <2>1, SMTT(30) DEF IsClimb
  <2> QED BY <2>2
<1>3. k - 1 \in 0 .. D /\ k - 1 \notin bad
  BY <1>1, <1>2, SMTT(30)
<1>4. PICK f : IsClimb(f, t, cur, D - (k - 1), D)
  BY <1>3
<1> DEFINE e == D - k
           g == [d \in e .. D |-> IF d = e THEN ResolveAt(f[e + 1], AncestorAt(t, cur, e)) ELSE f[d]]
<1>5. e \in 0 .. D - 1 /\ D - (k - 1) = e + 1
  BY <1>1, <1>2, SMTT(30)
<1> HIDE DEF e
<1>6. \A d \in (e + 1) .. D :
         f[d] = IF d = D THEN t ELSE ResolveAt(f[d + 1], AncestorAt(t, cur, d))
  BY <1>4, <1>5 DEF IsClimb
<1>7. \A d \in (e + 1) .. D : g[d] = f[d]
  BY <1>5, SMTT(30)
<1>8. ASSUME NEW d \in e .. D
      PROVE  g[d] = IF d = D THEN t ELSE ResolveAt(g[d + 1], AncestorAt(t, cur, d))
  <2>1. CASE d = e
    <3>1. d # D /\ g[d] = ResolveAt(f[e + 1], AncestorAt(t, cur, e)) /\ g[e + 1] = f[e + 1]
      BY <2>1, <1>5, <1>7, SMTT(30)
    <3> QED BY <2>1, <3>1
  <2>2. CASE d # e /\ d = D
    BY <2>2, <1>5, <1>6, SMTT(30)
  <2>3. CASE d # e /\ d # D
    <3>1. d \in (e + 1) .. D /\ d + 1 \in (e + 1) .. D
      BY <2>3, <1>5, SMTT(30)
    <3>2. g[d] = f[d] /\ g[d + 1] = f[d + 1]
      BY <3>1, <1>7
    <3> QED BY <3>1, <3>2, <1>6, <2>3
  <2> QED BY <2>1, <2>2, <2>3
<1>9. IsClimb(g, t, cur, D - k, D)
  BY <1>8 DEF IsClimb, e
<1> QED BY <1>1, <1>9

(* propagate_closure_upward, started where only the parent of cur may be   *)
(* left to resolve, leaves nothing to resolve and keeps everything else.   *)
LEMMA ClimbGood ==
  ASSUME NEW F \in Formulas, NEW t, Good(t, F), NEW cur \in t.nodes, Settled(t, cur),
         NEW u, u = propagate_closure_upward(t, cur)
  PROVE  Good(u, F) /\ Closes(t, u) /\ Settled(u, Root)
<1> DEFINE D == Depth(cur)
           f == CHOOSE g : IsClimb(g, t, cur, 0, D)
           J(d) == /\ Good(f[d], F) /\ Closes(t, f[d])
                   /\ \E a \in Ancestors(t, cur) : Depth(a) = d /\ Settled(f[d], a)
           bad == {k \in 0 .. D : ~J(D - k)}
<1>1. D \in Nat
  BY FS_CardinalityType DEF Depth, Good, Shape
<1>2. u = f[0]
  BY DEF propagate_closure_upward, IsClimb
<1>3. IsClimb(f, t, cur, 0, D)
  BY <1>1, ClimbExists
<1>4. \A d \in 0 .. D : f[d] = IF d = D THEN t ELSE ResolveAt(f[d + 1], AncestorAt(t, cur, d))
  BY <1>3 DEF IsClimb
<1> HIDE DEF f
<1>5. J(D)
  BY <1>1, <1>4, SMTT(30) DEF Closes, ClosedIn, Ancestors
<1>6. ASSUME NEW d \in 0 .. D, d # D, J(d + 1)
      PROVE  J(d)
  <2>1. PICK a \in Ancestors(t, cur) : Depth(a) = d + 1 /\ Settled(f[d + 1], a)
    BY <1>6
  <2>2. a # Root
    BY <2>1, <1>1, FS_EmptySet, SMTT(30) DEF Depth, Root
  <2> DEFINE p == Parent(t, a)
  <2>3. p \in Ancestors(t, cur) /\ Depth(p) = d
    BY <2>1, <2>2, <1>1, ParentDepth, SMTT(30) DEF Good
  <2>4. AncestorAt(t, cur, d) = p
    BY <2>3, AncestorAtDepth DEF Good
  <2>5. f[d] = ResolveAt(f[d + 1], p)
    BY <1>4, <1>6, <2>4
  <2>6. p = Parent(f[d + 1], a) /\ a \in f[d + 1].nodes \ {Root}
    BY <1>6, <2>1, <2>2 DEF Closes, Parent, Ancestors
  <2>7. Good(f[d], F) /\ Closes(f[d + 1], f[d]) /\ Settled(f[d], p)
    BY <1>6, <2>1, <2>5, <2>6, ResolveAtGood
  <2>8. Closes(t, f[d])
    BY <1>6, <2>7, ClosesTransitive
  <2> QED BY <2>3, <2>7, <2>8
<1>7. bad = {}
  <2> SUFFICES ASSUME bad # {} PROVE FALSE
    OBVIOUS
  <2>1. bad \in SUBSET Nat
    BY SMTT(30)
  <2>2. PICK k \in bad : \A j \in bad : k <= j
    BY <2>1, NatMin
  <2>3. k # 0
    BY <1>1, <1>5, SMTT(30)
  <2>4. k - 1 \in 0 .. D /\ k - 1 \notin bad /\ D - (k - 1) = (D - k) + 1
    BY <2>2, <2>3, <1>1, SMTT(30)
  <2>5. J((D - k) + 1)
    BY <2>4
  <2>6. D - k \in 0 .. D /\ D - k # D
    BY <2>3, <1>1, SMTT(30)
  <2>7. J(D - k)
    BY <2>5, <2>6, <1>6
  <2> QED BY <2>7
<1>8. J(0)
  <2>1. D \in 0 .. D /\ D - D = 0
    BY <1>1, SMTT(30)
  <2>2. D \notin bad
    BY <1>7
  <2> QED BY <2>1, <2>2
<1>9. PICK a \in Ancestors(t, cur) : Depth(a) = 0 /\ Settled(f[0], a)
  BY <1>8
<1>10. a = Root
  BY <1>9, FS_EmptySet DEF Ancestors, Good, Shape, Depth, Root
<1> QED BY <1>2, <1>8, <1>9, <1>10

-----------------------------------------------------------------------------
(* Operations that close and lease nodes: close_with_core, backtrack,      *)
(* mark_new_activation, dec_active_workers and the effort counters keep    *)
(* Good, leave nothing to resolve, and never reopen a node.                *)


(* find_highest_attach returns an ancestor of p whose path, with the       *)
(* assumptions, holds the whole resolvent.                                 *)
LEMMA HighestAttach ==
  ASSUME NEW t, TreeType(t), Shape(t), NEW p \in t.nodes, NEW res, res \subseteq p \cup Asms,
         NEW att, att = find_highest_attach(t, p, res)
  PROVE  att \in t.nodes /\ att \subseteq p /\ res \subseteq att \cup Asms
<1> DEFINE holds == {m \in Ancestors(t, p) : res \subseteq m}
<1>1. CASE holds = {}
  BY <1>1 DEF find_highest_attach
<1>2. CASE holds # {}
  <2> DEFINE depths == {Depth(m) : m \in holds}
  <2>1. \A m \in holds : IsFiniteSet(m) /\ Depth(m) \in Nat
    BY FS_CardinalityType DEF Ancestors, Shape, Depth
  <2>2. depths \in SUBSET Nat /\ depths # {}
    BY <1>2, <2>1
  <2>3. PICK d \in depths : \A e \in depths : d <= e
    <3> HIDE DEF depths
    <3> QED BY <2>2, NatMin
  <2>4. PICK m \in holds : Depth(m) = d
    OBVIOUS
  <2>5. ASSUME NEW k \in holds
        PROVE  m \subseteq k
    <3>1. m \subseteq k \/ k \subseteq m
      BY AncestorChain
    <3>2. Depth(m) <= Depth(k)
      BY <2>3, <2>4
    <3>3. CASE k \subseteq m
      BY <3>2, <3>3, <2>1, FS_Subset, SMTT(30) DEF Depth
    <3> QED BY <3>1, <3>3
  <2>6. att \in holds
    <3>1. att = CHOOSE x \in holds : \A k \in holds : x \subseteq k
      BY <1>2 DEF find_highest_attach
    <3> HIDE DEF holds
    <3> QED BY <3>1, <2>5
  <2> QED BY <2>6 DEF Ancestors
<1> QED BY <1>1, <1>2

(* The walk of backtrack stops at an ancestor whose path holds every       *)
(* decision of the conflict.                                               *)
LEMMA NearestParticipant ==
  ASSUME NEW t, TreeType(t), Shape(t), NEW n \in t.nodes, NEW C, C \cap n # {},
         NEW parts, parts = Participants(t, n, C),
         NEW near, near = CHOOSE m \in parts : \A k \in parts : k \subseteq m
  PROVE  near \in parts /\ C \cap n \subseteq near
<1>1. \A l \in C \cap n : \E m \in parts : l \in m
  <2> SUFFICES ASSUME NEW l \in C \cap n PROVE \E m \in parts : l \in m
    OBVIOUS
  <2>1. PICK m \in t.nodes : m \subseteq n /\ t.lit[m] = l
    BY DEF Shape
  <2>2. l \in Lit /\ NullLit \notin Lit
    BY ConstantsAssumption DEF TreeType
  <2>3. m # Root
    BY <2>1, <2>2 DEF Shape
  <2> QED BY <2>1, <2>3, ParentFacts DEF Participants, Ancestors
<1> DEFINE D == Depth(n)
           gaps == {D - Depth(m) : m \in parts}
<1>2. IsFiniteSet(n) /\ D \in Nat
  BY FS_CardinalityType DEF Shape, Depth
<1>3. \A m \in parts : m \in Ancestors(t, n) /\ m \subseteq n
  BY DEF Participants, Ancestors
<1>4. \A m \in parts : IsFiniteSet(m) /\ Depth(m) \in Nat /\ Depth(m) <= D
  BY <1>2, <1>3, FS_Subset, FS_CardinalityType DEF Depth
<1> HIDE DEF D
<1>5. gaps \in SUBSET Nat /\ gaps # {}
  BY <1>1, <1>2, <1>4, SMTT(30)
<1>6. PICK d \in gaps : \A e \in gaps : d <= e
  <2> HIDE DEF gaps
  <2> QED BY <1>5, NatMin
<1>7. PICK m \in parts : d = D - Depth(m)
  OBVIOUS
<1>8. ASSUME NEW k \in parts
      PROVE  k \subseteq m
  <2>1. m \subseteq k \/ k \subseteq m
    BY <1>3, AncestorChain
  <2>2. D - Depth(m) <= D - Depth(k)
    BY <1>6, <1>7
  <2>3. Depth(k) \in Nat /\ Depth(m) \in Nat /\ D \in Nat
    BY <1>2, <1>4
  <2>4. Depth(k) <= Depth(m)
    BY <2>2, <2>3, SMTT(30)
  <2>5. CASE m \subseteq k
    BY <2>4, <2>5, <1>4, FS_Subset, SMTT(30) DEF Depth
  <2> QED BY <2>1, <2>5
<1>9. near \in parts /\ \A k \in parts : k \subseteq near
  BY <1>8
<1> QED BY <1>1, <1>9

(* close_with_core on a refuted core of n: the tree stays well formed, its *)
(* cores sound, and every closure is propagated as far up as it goes.      *)
LEMMA CloseWithCoreGood ==
  ASSUME NEW F \in Formulas, NEW t, Good(t, F), Settled(t, Root), NEW n \in t.nodes,
         NEW C \in SUBSET Lit, C \subseteq n \cup Asms, Refutes(F, C), C = {} => n = Root,
         NEW u, u = close_with_core(t, n, C)
  PROVE  Good(u, F) /\ Closes(t, u) /\ Settled(u, Root)
<1> DEFINE t1 == close(t, n, C)
           p == Parent(t, n)
           res == compute_sibling_resolvent(t1, p)
           att == find_highest_attach(t1, p, res)
           t2 == close(t1, att, res)
<1>1. /\ t1 = close(t, n, C) /\ p = Parent(t, n)
      /\ res = compute_sibling_resolvent(t1, p)
      /\ att = find_highest_attach(t1, p, res)
      /\ t2 = close(t1, att, res)
  OBVIOUS
<1>2. u = IF t.status[n] = "closed" /\ t.core[n] \subseteq C THEN t
          ELSE IF n = Root \/ ~CanResolve(t1, p) THEN t1
          ELSE IF res = {} THEN close(t1, Root, {})
          ELSE propagate_closure_upward(t2, att)
  BY DEF close_with_core
<1> HIDE DEF t1, p, res, att, t2
<1>3. Root \in t.nodes
  BY DEF Good, TreeType
<1>4. Good(t1, F) /\ Closes(t, t1)
  BY <1>1, CloseGood
<1>5. Settled(t1, n)
  BY <1>1, <1>3, CloseSettled
<1>6. p = Parent(t1, n) /\ t1.nodes = t.nodes
  BY <1>1, <1>4 DEF Closes, Parent
<1>7. CASE u = t
  BY <1>7 DEF Closes
<1>8. CASE u = t1 /\ n = Root
  BY <1>4, <1>5, <1>8
<1>9. CASE u = t1 /\ n # Root /\ ~CanResolve(t1, p)
  <2>1. Settled(t1, Root)
    BY <1>4, <1>5, <1>6, <1>9, NotResolvable
  <2> QED BY <2>1, <1>4, <1>9
<1>10. CASE n # Root /\ CanResolve(t1, p)
  <2>1. p \in t1.nodes /\ p \subseteq n
    BY <1>4, <1>6, <1>10, ParentFacts DEF Good
  <2>2. res \in SUBSET Lit /\ res \subseteq p \cup Asms /\ Refutes(F, res)
    BY <1>1, <1>4, <1>10, <2>1, ResolventSound, SMTT(30)
  <2>3. CASE res = {} /\ u = close(t1, Root, {})
    <3>1. Good(u, F) /\ Closes(t1, u) /\ ClosedIn(u, Root)
      BY <1>3, <1>4, <1>6, <2>2, <2>3, CloseGood
    <3> QED BY <3>1, <1>4, AllClosed, ClosesTransitive
  <2>4. CASE res # {} /\ u = propagate_closure_upward(t2, att)
    <3>1. att \in t1.nodes /\ att \subseteq p /\ res \subseteq att \cup Asms
      BY <1>1, <1>4, <2>1, <2>2, HighestAttach, SMTT(30) DEF Good
    <3>2. Good(t2, F) /\ Closes(t1, t2)
      BY <1>1, <1>4, <2>2, <2>4, <3>1, CloseGood
    <3>3. Settled(t2, att)
      BY <1>1, <1>4, <1>5, <1>6, <2>1, <2>2, <3>1, CloseSettled
    <3>4. att \in t2.nodes
      BY <3>1, <3>2 DEF Closes
    <3>5. Good(u, F) /\ Closes(t2, u) /\ Settled(u, Root)
      BY <2>4, <3>2, <3>3, <3>4, ClimbGood
    <3> QED BY <3>2, <3>5, <1>4, ClosesTransitive
  <2> QED BY <1>2, <1>7, <1>10, <2>3, <2>4
<1> QED BY <1>2, <1>7, <1>8, <1>9, <1>10

(* The same for backtrack, whose conflict is a refuted set of decisions of *)
(* the path of n and of assumptions.                                       *)
LEMMA BacktrackGood ==
  ASSUME NEW F \in Formulas, NEW t, Good(t, F), Settled(t, Root), NEW n \in t.nodes,
         NEW C, C \subseteq n \cup Asms, Refutes(F, C), C = {} \/ C \cap n # {},
         NEW u, u = backtrack(t, n, C)
  PROVE  Good(u, F) /\ Closes(t, u) /\ Settled(u, Root)
<1>1. C \in SUBSET Lit /\ Root \in t.nodes
  BY ConstantsAssumption DEF Good, TreeType
<1>2. CASE C = {}
  <2>1. u = close_with_core(t, Root, {})
    BY <1>2 DEF backtrack
  <2> QED BY <1>1, <1>2, <2>1, CloseWithCoreGood
<1>3. CASE C # {}
  <2> DEFINE parts == Participants(t, n, C)
             near == CHOOSE m \in parts : \A k \in parts : k \subseteq m
  <2>1. u = close_with_core(t, near, C)
    BY <1>3 DEF backtrack
  <2>2. near \in parts /\ C \cap n \subseteq near
    BY <1>3, NearestParticipant, SMTT(30) DEF Good
  <2>3. near \in t.nodes
    BY <2>2 DEF Participants, Ancestors
  <2> HIDE DEF near
  <2> QED BY <1>1, <1>3, <2>1, <2>2, <2>3, CloseWithCoreGood
<1> QED BY <1>2, <1>3

\* ActiveMeansLeased, for a tree t.
Leased(t) ==
    \A n \in t.nodes : ~ClosedIn(t, n) => (t.status[n] = "active" <=> t.workers[n] > 0)

(* Closing nodes keeps status and worker counters in step.                 *)
LEMMA ClosesLeased ==
  ASSUME NEW t, NEW u, Leased(t), Closes(t, u)
  PROVE  Leased(u)
  BY DEF Leased, Closes, ClosedIn

(* So do the rounds that are under way.                                    *)
LEMMA ClosesRounds ==
  ASSUME NEW t, NEW u, RoundsOver(t), Closes(t, u)
  PROVE  RoundsOver(u)
  BY DEF RoundsOver, Closes

\* u has the nodes, the cores and the closed nodes of t.
SameClosure(t, u) ==
    /\ u.nodes = t.nodes /\ u.lit = t.lit /\ u.core = t.core
    /\ \A n \in t.nodes : ClosedIn(u, n) <=> ClosedIn(t, n)

(* Operations that neither close nor split keep the closure invariants.    *)
LEMMA SameClosureGood ==
  ASSUME NEW F, NEW t, NEW u, Good(t, F), Settled(t, Root), TreeType(u), SameClosure(t, u)
  PROVE  Good(u, F) /\ Settled(u, Root)
<1> USE DEF Good, SameClosure
<1>1. Shape(u)
  BY ShapeSame
<1>2. DownClosed(u) /\ CoresOK(u, F)
  BY DEF DownClosed, CoresOK
<1>3. EmptyOK(u)
  BY DEF EmptyOK, TreeType
<1>4. \A p : Children(u, p) = Children(t, p)
  BY DEF Children, Parent
<1>5. \A p, k : k \in Children(t, p) => k \in t.nodes
  BY DEF Children
<1>6. Settled(u, Root)
  BY <1>4, <1>5 DEF Settled
<1> QED BY <1>1, <1>2, <1>3, <1>6

(* mark_new_activation on a node that is not closed keeps status and       *)
(* worker counter in step and closes nothing.                              *)
LEMMA ActivateFacts ==
  ASSUME NEW t, TreeType(t), Leased(t), NEW n \in t.nodes, ~ClosedIn(t, n),
         NEW u, u = mark_new_activation(t, n)
  PROVE  /\ TreeType(u) /\ Leased(u) /\ SameClosure(t, u)
         /\ u.workers = [t.workers EXCEPT ![n] = t.workers[n] + 1]
         /\ RoundsOver(t) => RoundsOver(u)
<1>1. /\ DOMAIN u = DOMAIN t
      /\ u.nodes = t.nodes /\ u.lit = t.lit /\ u.core = t.core
      /\ u.effort = t.effort /\ u.round = t.round
      /\ u.status = [t.status EXCEPT ![n] = "active"]
      /\ u.visited = [t.visited EXCEPT ![n] = TRUE]
      /\ u.workers = [t.workers EXCEPT ![n] = t.workers[n] + 1]
  BY DEF mark_new_activation, TreeType
<1>2. t.workers[n] \in Nat
  BY DEF TreeType
<1>3. TreeType(u)
  BY <1>1, <1>2, SMTT(30) DEF TreeType, Status
<1>4. Leased(u)
  BY <1>1, <1>2, SMTT(30) DEF TreeType, Leased, ClosedIn
<1>5. SameClosure(t, u)
  BY <1>1 DEF TreeType, SameClosure, ClosedIn
<1>6. RoundsOver(t) => RoundsOver(u)
  BY <1>1, SMTT(30) DEF TreeType, RoundsOver
<1> QED BY <1>1, <1>3, <1>4, <1>5, <1>6

(* So does dec_active_workers, on any node.  The last worker to leave ends  *)
(* the round.                                                              *)
LEMMA ReleaseFacts ==
  ASSUME NEW t, TreeType(t), Leased(t), NEW n \in t.nodes,
         NEW u, u = dec_active_workers(t, n)
  PROVE  /\ TreeType(u) /\ Leased(u) /\ SameClosure(t, u)
         /\ u.workers = [t.workers EXCEPT ![n] = IF t.workers[n] > 0 THEN t.workers[n] - 1 ELSE 0]
         /\ RoundsOver(t) => RoundsOver(u)
<1> DEFINE k == IF t.workers[n] > 0 THEN t.workers[n] - 1 ELSE 0
           free == k = 0 /\ t.status[n] = "active"
<1>1. /\ DOMAIN u = DOMAIN t
      /\ u.nodes = t.nodes /\ u.lit = t.lit /\ u.core = t.core
      /\ u.effort = t.effort /\ u.visited = t.visited
      /\ u.workers = [t.workers EXCEPT ![n] = k]
      /\ u.round = [t.round EXCEPT ![n] = IF free THEN 0 ELSE t.round[n]]
      /\ u.status = [t.status EXCEPT ![n] = IF free THEN "open" ELSE t.status[n]]
  BY DEF dec_active_workers, TreeType
<1>2. t.workers[n] \in Nat /\ k \in Nat
  BY SMTT(30) DEF TreeType
<1>3. 0 \in 0 .. EffortMod - 1
  BY ConstantsAssumption, SMTT(30)
<1>4. TreeType(u)
  BY <1>1, <1>2, <1>3, SMTT(30) DEF TreeType, Status
<1>5. Leased(u)
  <2> SUFFICES ASSUME NEW m \in t.nodes, ~ClosedIn(u, m)
               PROVE  u.status[m] = "active" <=> u.workers[m] > 0
    BY <1>1 DEF Leased
  <2>1. CASE m # n
    BY <2>1, <1>1, SMTT(30) DEF TreeType, Leased, ClosedIn
  <2>2. CASE m = n
    <3>1. t.status[n] = "active" <=> t.workers[n] > 0
      BY <2>2, <1>1, SMTT(30) DEF TreeType, Leased, ClosedIn
    <3> QED BY <2>2, <3>1, <1>1, <1>2, SMTT(30) DEF TreeType
  <2> QED BY <2>1, <2>2
<1>6. SameClosure(t, u)
  BY <1>1, SMTT(30) DEF TreeType, SameClosure, ClosedIn
<1>7. RoundsOver(t) => RoundsOver(u)
  <2> HIDE DEF k
  <2> QED BY <1>1, SMTT(30) DEF TreeType, RoundsOver
<1> QED BY <1>1, <1>4, <1>5, <1>6, <1>7

(* So does update_round_max_effort, and the efforts stay within their      *)
(* width.                                                                  *)
LEMMA EffortFacts ==
  ASSUME NEW t, TreeType(t), Leased(t), NEW n \in t.nodes, NEW e \in Effort,
         NEW u, u = update_round_max_effort(t, n, e)
  PROVE  /\ TreeType(u) /\ Leased(u) /\ SameClosure(t, u)
         /\ u.status = t.status /\ u.workers = t.workers
         /\ RoundsOver(t) /\ t.status[n] # "open" => RoundsOver(u)
<1>1. CASE e <= t.round[n]
  BY <1>1 DEF update_round_max_effort, SameClosure
<1>2. CASE ~(e <= t.round[n])
  <2> DEFINE x == (t.effort[n] - t.round[n] + e) % EffortMod
  <2>1. /\ DOMAIN u = DOMAIN t
        /\ u.nodes = t.nodes /\ u.lit = t.lit /\ u.core = t.core /\ u.status = t.status
        /\ u.workers = t.workers /\ u.visited = t.visited
        /\ u.effort = [t.effort EXCEPT ![n] = x]
        /\ u.round = [t.round EXCEPT ![n] = e]
    BY <1>2 DEF update_round_max_effort, TreeType
  <2>2. e \in 0 .. EffortMod - 1
    BY ConstantsAssumption
  <2>3. x \in 0 .. EffortMod - 1
    BY <2>2, ConstantsAssumption, SMTT(30) DEF TreeType
  <2>4. TreeType(u)
    BY <2>1, <2>2, <2>3, SMTT(30) DEF TreeType
  <2>5. RoundsOver(t) /\ t.status[n] # "open" => RoundsOver(u)
    BY <2>1 DEF TreeType, RoundsOver
  <2> QED BY <2>1, <2>4, <2>5, SMTT(30) DEF Leased, SameClosure, ClosedIn
<1> QED BY <1>1, <1>2

\* What no operation undoes: nodes, their literals, closed nodes and their
\* cores, and the children of a split node.
Keeps(t, u) ==
    \A n \in t.nodes :
        /\ n \in u.nodes /\ u.lit[n] = t.lit[n]
        /\ ClosedIn(t, n) => ClosedIn(u, n) /\ u.core[n] = t.core[n]
        /\ Children(t, n) # {} => Children(u, n) = Children(t, n)

\* u is t with some new nodes, which are open and held by nobody.
Grown(t, u) ==
    /\ t.nodes \subseteq u.nodes
    /\ \A n \in t.nodes : u.workers[n] = t.workers[n] /\ (ClosedIn(u, n) <=> ClosedIn(t, n))
    /\ \A n \in u.nodes \ t.nodes : u.workers[n] = 0 /\ ~ClosedIn(u, n)

(* What each of two operations keeps, both keep.                           *)
LEMMA KeepsTransitive ==
  ASSUME NEW t, NEW u, NEW v, Keeps(t, u), Keeps(u, v)
  PROVE  Keeps(t, v)
  BY DEF Keeps

(* Closing keeps nodes, literals, old cores and children.                  *)
LEMMA ClosesKeeps ==
  ASSUME NEW t, NEW u, Closes(t, u)
  PROVE  Keeps(t, u)
<1>1. \A p : Children(u, p) = Children(t, p)
  BY DEF Closes, Children, Parent
<1> QED BY <1>1 DEF Closes, Keeps

(* So do operations that neither close nor split.                          *)
LEMMA SameClosureKeeps ==
  ASSUME NEW t, NEW u, SameClosure(t, u)
  PROVE  Keeps(t, u)
<1>1. \A p : Children(u, p) = Children(t, p)
  BY DEF SameClosure, Children, Parent
<1> QED BY <1>1 DEF SameClosure, Keeps

(* The tree that reset builds: one open node, that nobody works on.        *)
LEMMA ResetGood ==
  ASSUME NEW F, NEW t, t = reset
  PROVE  /\ Good(t, F) /\ Settled(t, Root) /\ Leased(t) /\ ~ClosedIn(t, Root)
         /\ t.nodes = {Root} /\ t.workers[Root] = 0 /\ RoundsOver(t)
<1>1. /\ t.nodes = {Root} /\ t.lit[Root] = NullLit /\ t.status[Root] = "open"
      /\ t.workers[Root] = 0 /\ t.round[Root] = 0
  BY DEF reset
<1>2. TreeType(t)
  <2>1. 0 \in 0 .. EffortMod - 1
    BY ConstantsAssumption, SMTT(30)
  <2> QED BY <2>1 DEF reset, TreeType, Status, Root
<1>3. Shape(t)
  <2>1. IsFiniteSet(t.nodes) /\ IsFiniteSet(Root)
    <3>1. IsFiniteSet({Root})
      BY FS_Singleton
    <3>2. IsFiniteSet({})
      BY FS_EmptySet
    <3> QED BY <1>1, <3>1, <3>2 DEF Root
  <2>2. \A m, n \in t.nodes : m \subseteq n
    BY <1>1
  <2>3. \A n \in t.nodes : n = Root /\ \A l : l \notin n
    BY <1>1 DEF Root
  <2> QED BY <1>1, <2>1, <2>2, <2>3 DEF Shape
<1>4. ~ClosedIn(t, Root)
  BY <1>1 DEF ClosedIn
<1>5. DownClosed(t) /\ CoresOK(t, F) /\ EmptyOK(t)
  BY <1>1, <1>4 DEF DownClosed, CoresOK, EmptyOK
<1>6. Settled(t, Root)
  BY <1>1 DEF Settled, Children
<1>7. Leased(t) /\ RoundsOver(t)
  BY <1>1, SMTT(30) DEF Leased, RoundsOver
<1> QED BY <1>1, <1>2, <1>3, <1>4, <1>5, <1>6, <1>7 DEF Good

-----------------------------------------------------------------------------
(* node::split and tree::try_split: splitting an open leaf on an atom that  *)
(* is not on its path keeps Good, leaves nothing to resolve, and gives a    *)
(* node children at most once.  Activation and release keep the leases.     *)

(* Extending a function with a default value keeps its range and values.  *)
LEMMA Grow ==
  ASSUME NEW N, NEW K, NEW S, NEW f \in [N -> S], NEW v \in S,
         NEW g, g = [m \in N \cup K |-> IF m \in N THEN f[m] ELSE v]
  PROVE  /\ g \in [N \cup K -> S]
         /\ \A m \in N : g[m] = f[m]
         /\ \A m \in K : m \notin N => g[m] = v
  OBVIOUS

(* What node::split leaves in every field of every node.                   *)
LEMMA SplitFacts ==
  ASSUME NEW t, TreeType(t), NEW n \in t.nodes, NEW a \in Lit,
         NEW ka, ka = n \cup {a}, NEW kb, kb = n \cup {Neg(a)},
         ka \notin t.nodes, kb \notin t.nodes, ka # kb,
         NEW u, u = split(t, n, a)
  PROVE  /\ TreeType(u)
         /\ u.nodes = t.nodes \cup {ka, kb}
         /\ \A m \in t.nodes :
               /\ u.lit[m] = t.lit[m] /\ u.status[m] = t.status[m]
               /\ u.core[m] = t.core[m] /\ u.workers[m] = t.workers[m]
               /\ u.round[m] = t.round[m]
         /\ u.lit[ka] = a /\ u.lit[kb] = Neg(a)
         /\ \A k \in {ka, kb} : u.status[k] = "open" /\ u.workers[k] = 0 /\ u.round[k] = 0
<1> DEFINE K == {ka, kb}
           N == t.nodes \cup K
<1>1. /\ DOMAIN u = {"nodes", "lit", "status", "core", "workers", "visited", "effort", "round"}
      /\ u.nodes = N
  BY DEF split
<1>2. u.lit = [m \in N |-> IF m \in t.nodes THEN t.lit[m] ELSE IF m = ka THEN a ELSE Neg(a)]
  BY DEF split
<1>3. /\ u.status \in [N -> Status]
      /\ \A m \in t.nodes : u.status[m] = t.status[m]
      /\ \A k \in K : u.status[k] = "open"
  <2>1. u.status = [m \in N |-> IF m \in t.nodes THEN t.status[m] ELSE "open"]
    BY DEF split
  <2>2. t.status \in [t.nodes -> Status] /\ "open" \in Status
    BY ConstantsAssumption DEF TreeType, Status
  <2>3. \A k \in K : k \notin t.nodes
    OBVIOUS
  <2> HIDE DEF K
  <2> QED BY <2>1, <2>2, <2>3, Grow, SMTT(30)
<1>4. /\ u.core \in [N -> SUBSET Lit]
      /\ \A m \in t.nodes : u.core[m] = t.core[m]
      /\ \A k \in K : u.core[k] = {}
  <2>1. u.core = [m \in N |-> IF m \in t.nodes THEN t.core[m] ELSE {}]
    BY DEF split
  <2>2. t.core \in [t.nodes -> SUBSET Lit] /\ {} \in SUBSET Lit
    BY ConstantsAssumption DEF TreeType, Status
  <2>3. \A k \in K : k \notin t.nodes
    OBVIOUS
  <2> HIDE DEF K
  <2> QED BY <2>1, <2>2, <2>3, Grow, SMTT(30)
<1>5. /\ u.workers \in [N -> Nat]
      /\ \A m \in t.nodes : u.workers[m] = t.workers[m]
      /\ \A k \in K : u.workers[k] = 0
  <2>1. u.workers = [m \in N |-> IF m \in t.nodes THEN t.workers[m] ELSE 0]
    BY DEF split
  <2>2. t.workers \in [t.nodes -> Nat] /\ 0 \in Nat
    BY ConstantsAssumption DEF TreeType, Status
  <2>3. \A k \in K : k \notin t.nodes
    OBVIOUS
  <2> HIDE DEF K
  <2> QED BY <2>1, <2>2, <2>3, Grow, SMTT(30)
<1>6. /\ u.visited \in [N -> BOOLEAN]
      /\ \A m \in t.nodes : u.visited[m] = t.visited[m]
      /\ \A k \in K : u.visited[k] = FALSE
  <2>1. u.visited = [m \in N |-> IF m \in t.nodes THEN t.visited[m] ELSE FALSE]
    BY DEF split
  <2>2. t.visited \in [t.nodes -> BOOLEAN] /\ FALSE \in BOOLEAN
    BY ConstantsAssumption DEF TreeType, Status
  <2>3. \A k \in K : k \notin t.nodes
    OBVIOUS
  <2> HIDE DEF K
  <2> QED BY <2>1, <2>2, <2>3, Grow
<1>7. /\ u.effort \in [N -> 0 .. EffortMod - 1]
      /\ \A m \in t.nodes : u.effort[m] = t.effort[m]
      /\ \A k \in K : u.effort[k] = 0
  <2>1. u.effort = [m \in N |-> IF m \in t.nodes THEN t.effort[m] ELSE 0]
    BY DEF split
  <2>2. t.effort \in [t.nodes -> 0 .. EffortMod - 1] /\ 0 \in 0 .. EffortMod - 1
    BY ConstantsAssumption, SMTT(30) DEF TreeType, Status
  <2>3. \A k \in K : k \notin t.nodes
    OBVIOUS
  <2> HIDE DEF K
  <2> QED BY <2>1, <2>2, <2>3, Grow, SMTT(30)
<1>8. /\ u.round \in [N -> 0 .. EffortMod - 1]
      /\ \A m \in t.nodes : u.round[m] = t.round[m]
      /\ \A k \in K : u.round[k] = 0
  <2>1. u.round = [m \in N |-> IF m \in t.nodes THEN t.round[m] ELSE 0]
    BY DEF split
  <2>2. t.round \in [t.nodes -> 0 .. EffortMod - 1] /\ 0 \in 0 .. EffortMod - 1
    BY ConstantsAssumption, SMTT(30) DEF TreeType, Status
  <2>3. \A k \in K : k \notin t.nodes
    OBVIOUS
  <2> HIDE DEF K
  <2> QED BY <2>1, <2>2, <2>3, Grow, SMTT(30)
<1>9. /\ u.lit \in [N -> Lit \cup {NullLit}]
      /\ \A m \in t.nodes : u.lit[m] = t.lit[m]
      /\ u.lit[ka] = a /\ u.lit[kb] = Neg(a)
  <2>1. t.lit \in [t.nodes -> Lit \cup {NullLit}] /\ Neg(a) \in Lit
    BY NegLit DEF TreeType
  <2> QED BY <1>2, <2>1, SMTT(30)
<1>10. N \subseteq SUBSET Lit /\ Root \in N
  BY NegLit, SMTT(30) DEF TreeType
<1>11. K = {ka, kb} /\ N = t.nodes \cup {ka, kb}
  OBVIOUS
<1> HIDE DEF K, N
<1>12. TreeType(u)
  BY <1>1, <1>3, <1>4, <1>5, <1>6, <1>7, <1>8, <1>9, <1>10 DEF TreeType
<1> QED BY <1>1, <1>3, <1>4, <1>5, <1>8, <1>9, <1>11, <1>12, SMTT(30)

(* node::split on a leaf that is not closed, with an atom that is not on   *)
(* its path, keeps every invariant.                                        *)
LEMMA SplitGood ==
  ASSUME NEW F, NEW t, Good(t, F), Settled(t, Root), Leased(t),
         NEW n \in t.nodes, IsLeaf(t, n), ~ClosedIn(t, n),
         NEW a \in Lit, ~path_contains_atom(n, a),
         NEW u, u = split(t, n, a)
  PROVE  /\ Good(u, F) /\ Settled(u, Root) /\ Leased(u) /\ Keeps(t, u) /\ Grown(t, u)
         /\ RoundsOver(t) => RoundsOver(u)
<1> USE DEF Good
<1> DEFINE b == Neg(a)
           ka == n \cup {a}
           kb == n \cup {b}
<1>0. b = Neg(a) /\ ka = n \cup {a} /\ kb = n \cup {b}
  OBVIOUS
<1>1. a \in Lit /\ b \in Lit /\ a # b /\ Neg(b) = a /\ a \notin n /\ b \notin n
  BY NegLit DEF path_contains_atom
<1>2. n \subseteq Lit /\ IsFiniteSet(n) /\ Root \in t.nodes
  BY DEF TreeType, Shape
<1> HIDE DEF b, ka, kb
<1>3. /\ ka \notin t.nodes /\ kb \notin t.nodes
      /\ ka # Root /\ kb # Root /\ ka # kb
      /\ ka \ {a} = n /\ kb \ {b} = n
  <2>1. /\ ka # Root /\ kb # Root /\ ka # kb /\ ka # n /\ kb # n
        /\ n \subseteq ka /\ n \subseteq kb
    BY <1>0, <1>1 DEF Root
  <2>2. ka \ {a} = n /\ kb \ {b} = n
    BY <1>0, <1>1
  <2>3. \A m \in t.nodes : n \subseteq m => m = n
    BY DEF IsLeaf, Subtree
  <2> QED BY <2>1, <2>2, <2>3
<1>4. /\ u.nodes = t.nodes \cup {ka, kb}
      /\ \A m \in t.nodes :
            /\ u.lit[m] = t.lit[m] /\ u.status[m] = t.status[m]
            /\ u.core[m] = t.core[m] /\ u.workers[m] = t.workers[m]
      /\ u.lit[ka] = a /\ u.lit[kb] = b
      /\ \A k \in {ka, kb} : u.status[k] = "open" /\ u.workers[k] = 0
      /\ TreeType(u)
  BY <1>0, <1>3, SplitFacts, SMTT(30)
<1>5. TreeType(u)
  BY <1>4
<1>6. \A m \in t.nodes : Parent(u, m) = Parent(t, m)
  BY <1>4 DEF Parent
<1>7. Parent(u, ka) = n /\ Parent(u, kb) = n
  BY <1>3, <1>4 DEF Parent
<1>8. \A m \in t.nodes : n \subseteq m => m = n
  BY DEF IsLeaf, Subtree
<1>9. \A k \in {ka, kb} : n \subseteq k /\ k # n /\ \A m \in t.nodes : ~(k \subseteq m)
  <2>1. \A k \in {ka, kb} : n \subseteq k /\ k # n
    BY <1>0, <1>1, SMTT(30)
  <2>2. ASSUME NEW k \in {ka, kb}, NEW m \in t.nodes, k \subseteq m
        PROVE  FALSE
    <3>1. n \subseteq m
      BY <2>1, <2>2
    <3>2. m = n
      BY <3>1, <1>8
    <3> QED BY <3>2, <2>1, <2>2
  <2> QED BY <2>1, <2>2
<1>10. \A k \in {ka, kb} : \A m \in t.nodes : m \subseteq k => m \subseteq n
  <2> SUFFICES ASSUME NEW k \in {ka, kb}, NEW m \in t.nodes, m \subseteq k, ~(m \subseteq n)
               PROVE  FALSE
    OBVIOUS
  <2>1. n \subseteq m \/ \E l \in m : Neg(l) \in n
    BY DEF Shape
  <2>2. CASE n \subseteq m
    BY <2>2, <1>8
  <2>3. CASE \E l \in m : Neg(l) \in n
    <3>1. PICK l \in m : Neg(l) \in n
      BY <2>3
    <3>2. l \notin n
      BY <3>1 DEF Shape
    <3>3. l = a \/ l = b
      BY <1>0, <3>2
    <3> QED BY <3>1, <3>3, <1>0, <1>1
  <2> QED BY <2>1, <2>2, <2>3
<1>11. Shape(u)
  <2>1. u.lit[Root] = NullLit
    BY <1>2, <1>4 DEF Shape
  <2>2. IsFiniteSet(u.nodes)
    <3>1. u.nodes = (t.nodes \cup {ka}) \cup {kb}
      BY <1>4
    <3>2. IsFiniteSet(t.nodes)
      BY DEF Shape
    <3>3. IsFiniteSet(t.nodes \cup {ka})
      BY <3>2, FS_AddElement
    <3>4. IsFiniteSet((t.nodes \cup {ka}) \cup {kb})
      BY <3>3, FS_AddElement
    <3> QED BY <3>1, <3>4
  <2>3. \A m \in u.nodes : IsFiniteSet(m)
    <3>1. IsFiniteSet(ka) /\ IsFiniteSet(kb)
      BY <1>0, <1>2, FS_AddElement
    <3>2. \A m \in t.nodes : IsFiniteSet(m)
      BY DEF Shape
    <3> QED BY <3>1, <3>2, <1>4
  <2>4. \A m \in u.nodes : \A l \in m : Neg(l) \notin m
    <3>1. \A l \in n : l # b /\ l # a /\ Neg(l) # a /\ Neg(l) # b
      BY <1>1, <1>2, NegLit
    <3>2. \A l \in n : Neg(l) \notin n
      BY DEF Shape
    <3>3. \A l \in ka : Neg(l) \notin ka
      BY <3>1, <3>2, <1>0, <1>1
    <3>4. \A l \in kb : Neg(l) \notin kb
      BY <3>1, <3>2, <1>0, <1>1
    <3>5. \A m \in t.nodes : \A l \in m : Neg(l) \notin m
      BY DEF Shape
    <3> QED BY <3>3, <3>4, <3>5, <1>4
  <2>5. \A m, k \in u.nodes : m \subseteq k \/ k \subseteq m \/ \E l \in m : Neg(l) \in k
    <3>1. ASSUME NEW m \in t.nodes, NEW k \in {ka, kb}
          PROVE  m \subseteq k \/ ((\E l \in m : Neg(l) \in k) /\ (\E l \in k : Neg(l) \in m))
      <4>1. m \subseteq n \/ n \subseteq m \/ \E l \in m : Neg(l) \in n
        BY DEF Shape
      <4>2. n \subseteq k
        BY <1>9
      <4>3. CASE m \subseteq n \/ n \subseteq m
        <5>1. m \subseteq n
          BY <4>3, <1>8
        <5>2. m \subseteq k
          BY <5>1, <4>2
        <5> QED BY <5>2
      <4>4. CASE \E l \in m : Neg(l) \in n
        <5>1. PICK l \in m : Neg(l) \in n
          BY <4>4
        <5>2. l \in Lit /\ Neg(Neg(l)) = l
          BY NegLit DEF TreeType
        <5> QED BY <5>1, <5>2, <4>2
      <4> QED BY <4>1, <4>3, <4>4
    <3>2. (\E l \in ka : Neg(l) \in kb) /\ (\E l \in kb : Neg(l) \in ka)
      BY <1>0, <1>1
    <3>3. \A m, k \in t.nodes : m \subseteq k \/ k \subseteq m \/ \E l \in m : Neg(l) \in k
      BY DEF Shape
    <3> QED BY <3>1, <3>2, <3>3, <1>4, SMTT(30)
  <2>6. \A m \in u.nodes : \A l \in m : \E k \in u.nodes : k \subseteq m /\ u.lit[k] = l
    <3>1. ASSUME NEW m \in t.nodes, NEW l \in m
          PROVE  \E k \in t.nodes : k \subseteq m /\ u.lit[k] = l
      <4>1. PICK k \in t.nodes : k \subseteq m /\ t.lit[k] = l
        BY DEF Shape
      <4> QED BY <4>1, <1>4
    <3>2. ASSUME NEW m \in {ka, kb}, NEW l \in m
          PROVE  \E k \in u.nodes : k \subseteq m /\ u.lit[k] = l
      <4>1. CASE l \in n
        <5>1. PICK k \in t.nodes : k \subseteq n /\ u.lit[k] = l
          BY <4>1, <3>1
        <5> QED BY <5>1, <1>4, <1>9
      <4>2. CASE l \notin n
        <5>1. (m = ka /\ l = a) \/ (m = kb /\ l = b)
          BY <4>2, <1>0
        <5>2. u.lit[m] = l
          BY <5>1, <1>4
        <5> QED BY <5>2, <1>4
      <4> QED BY <4>1, <4>2
    <3> QED BY <3>1, <3>2, <1>4, SMTT(30)
  <2>7. ASSUME NEW m \in u.nodes \ {Root}
        PROVE  /\ u.lit[m] \in m
               /\ Parent(u, m) \in u.nodes
               /\ Parent(u, m) \cup {Neg(u.lit[m])} \in u.nodes
               /\ u.lit[Parent(u, m) \cup {Neg(u.lit[m])}] = Neg(u.lit[m])
    <3>1. CASE m \in t.nodes
      <4>1. m \in t.nodes \ {Root}
        BY <3>1
      <4>2. /\ t.lit[m] \in m
            /\ Parent(t, m) \in t.nodes
            /\ Parent(t, m) \cup {Neg(t.lit[m])} \in t.nodes
            /\ t.lit[Parent(t, m) \cup {Neg(t.lit[m])}] = Neg(t.lit[m])
        BY <4>1 DEF Shape
      <4> QED BY <4>1, <4>2, <1>4, <1>6
    <3>2. CASE m = ka
      BY <3>2, <1>0, <1>1, <1>4, <1>7
    <3>3. CASE m = kb
      BY <3>3, <1>0, <1>1, <1>4, <1>7
    <3> QED BY <3>1, <3>2, <3>3, <1>4
  <2> QED BY <2>1, <2>2, <2>3, <2>4, <2>5, <2>6, <2>7 DEF Shape
<1>12. (\A m \in t.nodes : ClosedIn(u, m) <=> ClosedIn(t, m)) /\ ~ClosedIn(u, ka) /\ ~ClosedIn(u, kb)
  BY <1>4 DEF ClosedIn
<1>13. DownClosed(u)
  BY <1>4, <1>9, <1>10, <1>12 DEF DownClosed
<1>14. CoresOK(u, F) /\ EmptyOK(u)
  BY <1>2, <1>4, <1>12 DEF CoresOK, EmptyOK
<1>15. Settled(u, Root)
  <2> SUFFICES ASSUME NEW p \in u.nodes, Children(u, p) # {}, ~ClosedIn(u, p),
                      \A k \in Children(u, p) : ClosedIn(u, k)
               PROVE  FALSE
    BY DEF Settled
  <2>1. ka \notin Children(u, p)
    BY <1>12
  <2>2. p # n
    BY <2>1, <1>3, <1>4, <1>7 DEF Children
  <2>3. Children(u, p) = Children(t, p)
    BY <2>2, <1>3, <1>4, <1>6, <1>7 DEF Children
  <2>4. p \in t.nodes
    <3>1. PICK k \in Children(t, p) : TRUE
      BY <2>3
    <3> QED BY <3>1, ParentFacts, SMTT(30) DEF Children
  <2>5. \A k \in Children(t, p) : ClosedIn(t, k)
    BY <2>3, <1>12 DEF Children
  <2> QED BY <2>3, <2>4, <2>5, <1>12 DEF Settled
<1>16. Leased(u)
  <2>1. \A k \in {ka, kb} : u.status[k] = "active" <=> u.workers[k] > 0
    BY <1>4, SMTT(30)
  <2> QED BY <2>1, <1>4, <1>12, SMTT(30) DEF Leased
<1>17. Keeps(t, u)
  <2> SUFFICES ASSUME NEW m \in t.nodes, Children(t, m) # {}
               PROVE  Children(u, m) = Children(t, m)
    BY <1>4, <1>12 DEF Keeps
  <2>1. PICK k \in Children(t, m) : TRUE
    OBVIOUS
  <2>2. k \in t.nodes \ {Root} /\ m = Parent(t, k)
    BY DEF Children
  <2>3. m # n
    BY <2>2, <1>8, ParentFacts
  <2> QED BY <2>3, <1>3, <1>4, <1>6, <1>7 DEF Children
<1>18. Grown(t, u)
  BY <1>4 DEF Grown, ClosedIn
<1>19. RoundsOver(t) => RoundsOver(u)
  <2>1. /\ \A m \in t.nodes : u.round[m] = t.round[m]
        /\ \A k \in {ka, kb} : u.round[k] = 0
    BY <1>0, <1>3, SplitFacts, SMTT(30)
  <2> QED BY <2>1, <1>4 DEF RoundsOver
<1> QED BY <1>5, <1>11, <1>13, <1>14, <1>15, <1>16, <1>17, <1>18, <1>19

(* Either outcome of try_split keeps every invariant.                      *)
LEMMA TrySplitGood ==
  ASSUME NEW F, NEW t, Good(t, F), Settled(t, Root), Leased(t), NEW n \in t.nodes,
         NEW a \in Lit, ~path_contains_atom(n, a), NEW e \in Effort,
         NEW u \in try_split(t, n, a, e)
  PROVE  /\ Good(u, F) /\ Settled(u, Root) /\ Leased(u) /\ Keeps(t, u) /\ Grown(t, u)
         /\ RoundsOver(t) /\ t.status[n] # "open" => RoundsOver(u)
<1>1. CASE is_lease_canceled(t, n)
  BY <1>1 DEF try_split, Keeps, Grown
<1>2. CASE ~is_lease_canceled(t, n)
  <2> DEFINE v == update_round_max_effort(t, n, e)
  <2>1. /\ TreeType(v) /\ Leased(v) /\ SameClosure(t, v) /\ v.workers = t.workers
        /\ RoundsOver(t) /\ t.status[n] # "open" => RoundsOver(v)
    BY EffortFacts, SMTT(30) DEF Good
  <2>2. Good(v, F) /\ Settled(v, Root) /\ Keeps(t, v)
    BY <2>1, SameClosureGood, SameClosureKeeps
  <2>3. CASE u = v
    BY <2>1, <2>2, <2>3 DEF Grown, SameClosure
  <2>4. CASE u # v
    <3>1. u = split(v, n, a) /\ should_split(v, n)
      BY <1>2, <2>4 DEF try_split
    <3>2. n \in v.nodes /\ IsLeaf(v, n) /\ ~ClosedIn(v, n)
      BY <2>1, <3>1 DEF should_split, SameClosure, ClosedIn
    <3> HIDE DEF v
    <3>3. /\ Good(u, F) /\ Settled(u, Root) /\ Leased(u) /\ Keeps(v, u) /\ Grown(v, u)
          /\ RoundsOver(v) => RoundsOver(u)
      BY <2>1, <2>2, <3>1, <3>2, SplitGood
    <3>4. Keeps(t, u)
      BY <2>2, <3>3, KeepsTransitive
    <3>5. Grown(t, u)
      BY <2>1, <3>3 DEF Grown, SameClosure
    <3> QED BY <2>1, <3>3, <3>4, <3>5
  <2> QED BY <2>3, <2>4
<1> QED BY <1>1, <1>2

(* A node that is not a leaf has a child.                                  *)
LEMMA SplitNodeHasChild ==
  ASSUME NEW t, TreeType(t), Shape(t), NEW n \in t.nodes, ~IsLeaf(t, n)
  PROVE  \E k \in t.nodes \ {Root} : Parent(t, k) = n
<1> DEFINE below == {m \in Subtree(t, n) : m # n}
           depths == {Depth(m) : m \in below}
<1>1. below # {}
  BY DEF IsLeaf, Subtree
<1>2. \A m \in below : m \in t.nodes /\ IsFiniteSet(m) /\ Depth(m) \in Nat /\ n \subseteq m /\ m # n
  BY FS_CardinalityType DEF Subtree, Shape, Depth
<1> HIDE DEF below
<1>3. depths \in SUBSET Nat /\ depths # {}
  BY <1>1, <1>2, SMTT(30)
<1>4. PICK d \in depths : \A e \in depths : d <= e
  <2> HIDE DEF depths
  <2> QED BY <1>3, NatMin
<1>5. PICK k \in below : Depth(k) = d
  OBVIOUS
<1>6. k \in t.nodes \ {Root}
  BY <1>2 DEF Root
<1>7. k \in Ancestors(t, k) /\ n \in Ancestors(t, k)
  BY <1>2 DEF Ancestors
<1> DEFINE p == Parent(t, k)
<1>8. p \in Ancestors(t, k) /\ Depth(k) \in Nat /\ Depth(p) = Depth(k) - 1
  BY <1>6, <1>7, ParentDepth
<1>9. n \subseteq p
  BY <1>2, <1>5, <1>6, KidChain
<1>10. p \notin below
  <2> SUFFICES ASSUME p \in below PROVE FALSE
    OBVIOUS
  <2>1. Depth(k) <= Depth(p)
    BY <1>4, <1>5
  <2> QED BY <2>1, <1>8, SMTT(30)
<1>11. p = n
  BY <1>8, <1>9, <1>10 DEF below, Subtree, Ancestors
<1> QED BY <1>6, <1>11
=============================================================================

--------------------------- MODULE BackbonesProofs --------------------------
(***************************************************************************)
(* Backbones and verdicts are sound for every formula, every number of        *)
(* threads and every schedule.                                                *)
(*                                                                         *)
(* The invariant adds to the properties what a thread is about to report: the *)
(* backbone it has read off a core, or the verdict.  A thread reasons from    *)
(* the backbones that it has asserted, which hold under the assumptions, and  *)
(* this is why what it finds holds under the assumptions, too.                *)
(***************************************************************************)
EXTENDS Backbones, FiniteSetTheorems, TLAPS

\* The leaves that name no prover go to Zenon.
USE ZenonT(30)

Sound(K) == \A l \in K, M \in formula : Asms \subseteq M => l \in M
Satisfiable == \E M \in formula : Asms \subseteq M

\* What a thread at l with locals r may report is right.
Pending(r, l) ==
    /\ Sound(r.found)
    /\ l = "sat" => Satisfiable
    /\ l = "unsat" => Refutes({}, Asms)

IInv ==
    /\ TypeOK /\ BackbonesSound /\ VerdictSound
    /\ \A b \in Thread : Pending(loc[b], pc[b])

-----------------------------------------------------------------------------
(* Literals and cores.                                                     *)

\* Min of two numbers is one of them, and no larger than either.
LEMMA MinOfTwo ==
    ASSUME NEW m \in Nat, NEW n \in Nat
    PROVE  Min({m, n}) \in Nat /\ Min({m, n}) <= m /\ Min({m, n}) <= n
<1>1. \E x \in {m, n} : \A y \in {m, n} : x =< y
  <2>1. CASE m <= n
    BY <2>1, SMTT(30)
  <2>2. CASE n <= m
    BY <2>2, SMTT(30)
  <2> QED
    BY <2>1, <2>2, SMTT(30)
<1>2. Min({m, n}) \in {m, n} /\ \A y \in {m, n} : Min({m, n}) =< y
  BY <1>1 DEF Min
<1> QED
  BY <1>2

\* Sets of literals are finite.
LEMMA FiniteLits ==
    ASSUME NEW S \in SUBSET Lit
    PROVE  IsFiniteSet(S) /\ Cardinality(S) \in Nat
<1>1. IsFiniteSet({TRUE} \cup {FALSE})
  BY FS_Singleton, FS_AddElement
<1>2. BOOLEAN = {TRUE} \cup {FALSE}
  BY Zenon
<1>3. IsFiniteSet(Lit)
  BY <1>1, <1>2, FS_Product, BackbonesAssumption DEF Lit
<1> QED
  BY <1>3, FS_Subset, FS_CardinalityType

\* Negation stays within the literals.
LEMMA NegLit ==
    ASSUME NEW l \in Lit
    PROVE  Neg(l) \in Lit
  BY DEF Lit, Neg

\* A model makes the negation of a literal true when it does not make it true.
LEMMA NegInModel ==
    ASSUME TypeOK, NEW M \in formula, NEW a \in Lit, a \notin M
    PROVE  Neg(a) \in M
<1>1. M \in Assignment
  BY BackbonesAssumption DEF TypeOK
<1> QED
  BY <1>1 DEF Assignment

\* If a core has one literal a beside the assumptions, Neg(a) is a backbone:
\* singleton cores, failed probes and units.
LEMMA CoreGivesBackbone ==
    ASSUME TypeOK, NEW K, Sound(K), NEW a \in Lit, NEW C,
           C \ {a} \subseteq Asms, Refutes(K, C)
    PROVE  Sound({Neg(a)})
<1> SUFFICES ASSUME NEW M \in formula, Asms \subseteq M
             PROVE  Neg(a) \in M
  BY DEF Sound
<1>1. K \subseteq M
  BY DEF Sound
<1>2. a \notin M
  BY <1>1 DEF Refutes
<1> QED
  BY <1>2, NegInModel

\* If a core has assumptions only, the assumptions are refuted.
LEMMA CoreGivesUnsat ==
    ASSUME NEW K, Sound(K), NEW C, C \subseteq Asms, Refutes(K, C)
    PROVE  Refutes({}, Asms)
  BY DEF Sound, Refutes

\* What the thread b knows is sound.
LEMMA KnownSound ==
    ASSUME IInv, NEW b \in Thread
    PROVE  Sound(known[b]) /\ Sound(backbones) /\ Sound(loc[b].found)
  BY DEF IInv, TypeOK, BackbonesSound, Sound, Pending

\* What the threads may report stays right while the formula is the same, if it is
\* right for the thread b that has moved.
LEMMA PendingStep ==
    ASSUME IInv, NEW b \in Thread, NEW r, NEW l, Pending(r, l),
           loc' = [loc EXCEPT ![b] = r], pc' = [pc EXCEPT ![b] = l], formula' = formula
    PROVE  \A c \in Thread : Pending(loc[c], pc[c])'
<1> SUFFICES ASSUME NEW c \in Thread
             PROVE  Pending(loc[c], pc[c])'
  OBVIOUS
<1>1. CASE c = b
  <2>1. loc'[c] = r /\ pc'[c] = l
    BY <1>1 DEF IInv, TypeOK
  <2> QED
    BY <2>1 DEF Pending, Sound, Satisfiable, Refutes
<1>2. CASE c # b
  <2>1. loc'[c] = loc[c] /\ pc'[c] = pc[c]
    BY <1>2 DEF IInv, TypeOK
  <2> QED
    BY <2>1 DEF IInv, Pending, Sound, Satisfiable, Refutes
<1> QED
  BY <1>1, <1>2

\* The same if no thread has moved.
LEMMA PendingKept ==
    ASSUME IInv, UNCHANGED <<loc, pc, formula>>
    PROVE  \A c \in Thread : Pending(loc[c], pc[c])'
  BY DEF IInv, Pending, Sound, Satisfiable, Refutes

\* A step of b that changes only its own locals keeps the invariant if what b may
\* report then is right.
LEMMA LocalStep ==
    ASSUME IInv, NEW b \in Thread, NEW r \in Locals, NEW l \in Location,
           r.epoch <= cancelEpoch, Pending(r, l),
           loc' = [loc EXCEPT ![b] = r], pc' = [pc EXCEPT ![b] = l],
           known' \in [Thread -> SUBSET backbones],
           UNCHANGED <<problem, verdict, limits, shared, queue, batches, sleeping>>
    PROVE  IInv'
<1>1. TypeOK'
  BY DEF IInv, TypeOK, problem, verdict, limits, shared, queue, batches
<1>2. BackbonesSound' /\ VerdictSound'
  BY DEF IInv, BackbonesSound, VerdictSound, Refutes, problem, verdict, shared
<1>3. \A c \in Thread : Pending(loc[c], pc[c])'
  BY PendingStep DEF problem
<1> QED
  BY <1>1, <1>2, <1>3 DEF IInv

\* The same for a step that changes nothing but where b is.
LEMMA MoveStep ==
    ASSUME IInv, NEW b \in Thread, NEW l \in Location \ {"sat", "unsat"},
           pc' = [pc EXCEPT ![b] = l], loc' = loc,
           known' \in [Thread -> SUBSET backbones],
           UNCHANGED <<problem, verdict, limits, shared, queue, batches, sleeping>>
    PROVE  IInv'
<1>1. loc[b] \in Locals /\ loc[b].epoch <= cancelEpoch /\ loc' = [loc EXCEPT ![b] = loc[b]]
  BY DEF IInv, TypeOK
<1>2. Pending(loc[b], l)
  BY DEF IInv, Pending
<1> QED
  BY <1>1, <1>2, LocalStep

-----------------------------------------------------------------------------
(* The locals.                                                             *)

\* The helpers leave locals that are well typed, with the same batch epoch and
\* the same report.
LEMMA HelpersTyped ==
    ASSUME NEW r \in Locals
    PROVE  /\ Cleared(r) \in Locals /\ Cleared(r).found = r.found /\ Cleared(r).epoch = r.epoch
           /\ Fallback(r) \in Locals /\ Fallback(r).found = r.found /\ Fallback(r).epoch = r.epoch
<1>1. Cleared(r) \in Locals /\ Cleared(r).found = r.found /\ Cleared(r).epoch = r.epoch
  BY DEF Cleared, Locals
<1>2. r.chunk \cap r.lits \in SUBSET Lit
  BY DEF Locals
<1> QED
  BY <1>1, <1>2 DEF Fallback, Locals

\* r with the candidates and the assumptions that a core leaves.
Shrunk(r, A, K) == [r EXCEPT !.asms = A, !.lits = K, !.delta = 1]

\* It is well typed, with the same batch epoch and the same report.
LEMMA ShrunkTyped ==
    ASSUME NEW r \in Locals, NEW A \in SUBSET Lit, NEW K \in SUBSET Lit
    PROVE  Shrunk(r, A, K) \in Locals /\ Shrunk(r, A, K).epoch = r.epoch
           /\ Shrunk(r, A, K).found = r.found
<1>1. Shrunk(r, A, K) \in Locals
  BY DEF Locals, Shrunk
<1>2. Shrunk(r, A, K).epoch = r.epoch /\ Shrunk(r, A, K).found = r.found
  BY DEF Locals, Shrunk
<1> QED
  BY <1>1, <1>2

\* Fresh locals are well typed.
LEMMA FreshTyped == Fresh \in Locals /\ Fresh.found = {} /\ Fresh.epoch = 0
  BY DEF Fresh, Locals

\* The facts about b's locals that the steps start from.
LEMMA LocFacts ==
    ASSUME IInv, NEW b \in Thread
    PROVE  /\ loc[b] \in Locals /\ loc[b].epoch <= cancelEpoch
           /\ loc[b].epoch \in Nat /\ cancelEpoch \in Nat /\ candEpoch \in Nat
           /\ Sound(loc[b].found) /\ pc[b] \in Location
           /\ known \in [Thread -> SUBSET backbones]
           /\ loc[b].lits \subseteq Lit /\ loc[b].asms \subseteq Lit
           /\ loc[b].chunk \subseteq Lit /\ loc[b].todo \subseteq Lit
           /\ loc[b].batch \subseteq Lit
  BY BackbonesAssumption, SMTT(30) DEF IInv, TypeOK, Pending, Locals

-----------------------------------------------------------------------------
(* The steps of a thread.                                                  *)

\* collect_shared_clauses keeps what b has asserted among the backbones.
LEMMA CollectTyped ==
    ASSUME IInv, NEW b \in Thread, collect_shared_clauses(b)
    PROVE  known' \in [Thread -> SUBSET backbones]
  BY DEF IInv, TypeOK, collect_shared_clauses

\* Reading the epochs.
LEMMA EpochSteps ==
    ASSUME IInv, NEW b \in Thread, take_cancel_epoch(b) \/ take_candidate_epoch(b)
    PROVE  IInv'
<1>1. CASE take_cancel_epoch(b)
  <2> DEFINE r == [loc[b] EXCEPT !.epoch = cancelEpoch]
  <2>1. r \in Locals /\ r.epoch <= cancelEpoch /\ Pending(r, "candEpoch")
    BY LocFacts, SMTT(30) DEF Locals, Pending
  <2>2. known' \in [Thread -> SUBSET backbones]
    BY <1>1, CollectTyped DEF take_cancel_epoch
  <2>3. "candEpoch" \in Location
    BY DEF Location
  <2> HIDE DEF r
  <2> QED
    BY <1>1, <2>1, <2>2, <2>3, LocalStep DEF take_cancel_epoch, set, goto, r
<1>2. CASE take_candidate_epoch(b)
  <2> DEFINE r == [loc[b] EXCEPT !.cand = candEpoch]
  <2>1. r \in Locals /\ r.epoch <= cancelEpoch /\ Pending(r, "filter")
    BY LocFacts DEF Locals, Pending
  <2>2. known' \in [Thread -> SUBSET backbones]
    BY <1>2, LocFacts DEF take_candidate_epoch
  <2>3. "filter" \in Location
    BY DEF Location
  <2> HIDE DEF r
  <2> QED
    BY <1>2, <2>1, <2>2, <2>3, LocalStep DEF take_candidate_epoch, set, goto, r
<1> QED
  BY <1>1, <1>2

\* The head of the loop over the chunks.
LEMMA FilterStep ==
    ASSUME IInv, NEW b \in Thread, filter_candidates(b)
    PROVE  IInv'
<1> DEFINE r == [loc[b] EXCEPT !.lits = {l \in loc[b].lits : ~is_global_backbone_or_negation(l)}]
<1>1. known' \in [Thread -> SUBSET backbones]
  BY LocFacts DEF filter_candidates
<1>2. CASE goto(b, "retry") /\ UNCHANGED loc
  <2>1. "retry" \in Location \ {"sat", "unsat"}
    BY DEF Location
  <2> QED
    BY <1>1, <1>2, <2>1, MoveStep DEF filter_candidates, goto
<1>3. CASE set(b, r) /\ goto(b, "units")
  <2>1. {l \in loc[b].lits : ~is_global_backbone_or_negation(l)} \in SUBSET Lit
    BY LocFacts
  <2>2. r \in Locals /\ r.epoch <= cancelEpoch /\ Pending(r, "units")
    BY <2>1, LocFacts DEF Locals, Pending
  <2>3. "units" \in Location
    BY DEF Location
  <2> HIDE DEF r
  <2> QED
    BY <1>1, <1>3, <2>2, <2>3, LocalStep DEF filter_candidates, set, goto
<1> QED
  BY <1>2, <1>3 DEF filter_candidates

\* A unit of the context of b is a backbone.
LEMMA UnitsSound ==
    ASSUME IInv, NEW b \in Thread, NEW l \in Lit, NEW u \in UnitBackbones(b, l)
    PROVE  u \in Lit /\ Sound({u})
<1>1. u \in Lit /\ Refutes(known[b], {Neg(u)})
  BY NegLit DEF UnitBackbones
<1>2. TypeOK /\ Sound(known[b])
  BY KnownSound DEF IInv
<1>3. ASSUME NEW M \in formula, Asms \subseteq M
      PROVE  u \in M
  <2>1. known[b] \subseteq M
    BY <1>2, <1>3 DEF Sound
  <2>2. Neg(u) \notin M
    BY <1>1, <2>1 DEF Refutes
  <2> QED
    BY <1>1, <1>2, <2>2, NegInModel
<1> QED
  BY <1>1, <1>3 DEF Sound

\* A candidate that is a unit.
LEMMA UnitStep ==
    ASSUME IInv, NEW b \in Thread, take_unit(b)
    PROVE  IInv'
<1>0. PICK l \in loc[b].lits : \E u \in UnitBackbones(b, l) :
           set(b, [loc[b] EXCEPT !.lits = @ \ {l}, !.found = {u}, !.ret = "units"])
  BY DEF take_unit
<1>1. PICK u \in UnitBackbones(b, l) :
           set(b, [loc[b] EXCEPT !.lits = @ \ {l}, !.found = {u}, !.ret = "units"])
  BY <1>0
<1> DEFINE r == [loc[b] EXCEPT !.lits = @ \ {l}, !.found = {u}, !.ret = "units"]
<1>2. u \in Lit /\ Sound({u})
  BY LocFacts, UnitsSound
<1>3. r \in Locals /\ r.epoch <= cancelEpoch /\ r.found = {u}
  BY <1>2, LocFacts DEF Locals
<1>4. "collect" \in Location /\ Pending(r, "collect")
  BY <1>2, <1>3 DEF Pending, Location
<1>5. known' \in [Thread -> SUBSET backbones]
  BY LocFacts DEF take_unit
<1>6. set(b, r)
  BY <1>1
<1> HIDE DEF r
<1> QED
  BY <1>3, <1>4, <1>5, <1>6, LocalStep DEF take_unit, set, goto

\* The choice of a chunk.
LEMMA ChunkStep ==
    ASSUME IInv, NEW b \in Thread, take_chunk(b)
    PROVE  IInv'
<1> DEFINE n == Min({ChunkSize * loc[b].delta, Cardinality(loc[b].lits)})
<1>1. PICK S \in Chunks(loc[b].lits, n) :
           set(b, [loc[b] EXCEPT !.chunk = S, !.size = n, !.asms = {Assumed(b, l) : l \in S}])
  BY DEF take_chunk
<1> DEFINE r == [loc[b] EXCEPT !.chunk = S, !.size = n, !.asms = {Assumed(b, l) : l \in S}]
<1>2. S \in SUBSET Lit
  BY LocFacts DEF Chunks
<1>3. {Assumed(b, l) : l \in S} \in SUBSET Lit
  BY <1>2, NegLit DEF Assumed
<1>4. n \in Nat
  <2>1. loc[b].delta \in Nat /\ ChunkSize \in Nat
    BY LocFacts, BackbonesAssumption DEF Locals
  <2>2. ChunkSize * loc[b].delta \in Nat
    BY <2>1, SMTT(30)
  <2>3. Cardinality(loc[b].lits) \in Nat
    BY LocFacts, FiniteLits
  <2> QED
    BY <2>2, <2>3, MinOfTwo
<1>5. set(b, r)
  BY <1>1
<1> HIDE DEF n
<1>6. r \in Locals /\ r.epoch <= cancelEpoch /\ Pending(r, "refine")
  BY <1>2, <1>3, <1>4, LocFacts DEF Locals, Pending
<1>7. known' \in [Thread -> SUBSET backbones]
  BY CollectTyped DEF take_chunk
<1>8. "refine" \in Location
  BY DEF Location
<1> HIDE DEF r
<1> QED
  BY <1>5, <1>6, <1>7, <1>8, LocalStep DEF take_chunk, set, goto

\* The step of b leaves the backbones and its assertions alone and takes b to l
\* with locals r that are well typed and have the same report.
LEMMA SilentStep ==
    ASSUME IInv, NEW b \in Thread, NEW r \in Locals, NEW l \in Location \ {"sat", "unsat"},
           r.epoch = loc[b].epoch, r.found = loc[b].found, set(b, r), goto(b, l), known' = known,
           UNCHANGED <<problem, verdict, limits, shared, queue, batches, sleeping>>
    PROVE  IInv'
<1>1. Pending(r, l) /\ r.epoch <= cancelEpoch /\ known' \in [Thread -> SUBSET backbones]
  BY LocFacts DEF Pending
<1> QED
  BY <1>1, LocalStep DEF set, goto

\* The unsat answer of a chunk.
LEMMA RefineUnsatStep ==
    ASSUME IInv, NEW b \in Thread, refine_unsat(b), known' = known,
           UNCHANGED <<problem, verdict, limits, shared, queue, batches, sleeping>>
    PROVE  IInv'
<1> DEFINE D(C) == C \cap loc[b].asms
           left(C) == loc[b].asms \ D(C)
           hit(C) == IF Cardinality(D(C)) = 1
                     THEN {l \in loc[b].chunk : Assumed(b, l) \in D(C)} ELSE {}
           r0(C) == Shrunk(loc[b], left(C), loc[b].lits \ hit(C))
           r(C) == IF left(C) = {} THEN Fallback(r0(C)) ELSE r0(C)
           next(C) == IF left(C) = {} THEN "probe" ELSE "refine"
           rn(C) == [loc[b] EXCEPT !.why = C, !.ret = "exit"]
           rb(C) == [r(C) EXCEPT !.found = {Neg(a) : a \in D(C)}, !.ret = next(C)]
<1>1. PICK C \in Cores(b, loc[b].asms) :
         IF D(C) = {} THEN set(b, rn(C)) /\ goto(b, "unsat")
         ELSE IF Cardinality(D(C)) = 1 THEN set(b, rb(C)) /\ goto(b, "collect")
         ELSE set(b, r(C)) /\ goto(b, next(C))
  BY DEF refine_unsat, Shrunk
<1>2. C \subseteq Asms \cup loc[b].asms /\ Refutes(known[b], C) /\ C \in SUBSET Lit
  BY LocFacts, BackbonesAssumption DEF Cores
<1>3. known' \in [Thread -> SUBSET backbones]
  BY LocFacts
<1>4. r0(C) \in Locals /\ r0(C).epoch = loc[b].epoch /\ r0(C).found = loc[b].found
  <2>1. left(C) \in SUBSET Lit /\ loc[b].lits \ hit(C) \in SUBSET Lit
    BY LocFacts
  <2>2. loc[b] \in Locals
    BY LocFacts
  <2> QED
    BY <2>1, <2>2, ShrunkTyped
<1>5. r(C) \in Locals /\ r(C).epoch = loc[b].epoch /\ r(C).found = loc[b].found
  <2> HIDE DEF r0
  <2> QED
    BY <1>4, HelpersTyped
<1>6. next(C) \in Location \ {"sat", "unsat"} /\ next(C) \in {"refine", "probe"}
  BY DEF Location
<1>7. CASE D(C) = {}
  <2>1. C \subseteq Asms
    BY <1>2, <1>7
  <2>2. Refutes({}, Asms)
    BY <1>2, <2>1, KnownSound, CoreGivesUnsat
  <2>3. rn(C) \in Locals /\ rn(C).epoch <= cancelEpoch /\ Pending(rn(C), "unsat")
    BY <1>2, <2>2, LocFacts DEF Locals, Pending
  <2>4. "unsat" \in Location
    BY DEF Location
  <2>5. set(b, rn(C)) /\ goto(b, "unsat")
    BY <1>1, <1>7
  <2> HIDE DEF rn
  <2> QED
    BY <1>3, <2>3, <2>4, <2>5, LocalStep DEF set, goto
<1>8. CASE D(C) # {} /\ Cardinality(D(C)) = 1
  <2>1. IsFiniteSet(D(C))
    <3>1. D(C) \in SUBSET Lit
      BY LocFacts
    <3> HIDE DEF D
    <3> QED
      BY <3>1, FiniteLits
  <2>2. PICK a : D(C) = {a}
    BY <1>8, <2>1, FS_Singleton
  <2>3. a \in Lit /\ C \ {a} \subseteq Asms /\ Neg(a) \in Lit
    BY <1>2, <2>2, LocFacts, NegLit
  <2>4. Sound({Neg(a)})
    BY <1>2, <2>3, KnownSound, CoreGivesBackbone DEF IInv
  <2>5. {Neg(x) : x \in D(C)} = {Neg(a)}
    BY <2>2
  <2>6. rb(C) \in Locals /\ rb(C).epoch = loc[b].epoch /\ rb(C).found = {Neg(a)}
    <3> HIDE DEF r, next, D
    <3> QED
      BY <1>5, <1>6, <2>3, <2>5 DEF Locals
  <2>7. set(b, rb(C)) /\ goto(b, "collect")
    BY <1>1, <1>8
  <2> HIDE DEF rb
  <2>8. Pending(rb(C), "collect") /\ rb(C).epoch <= cancelEpoch /\ "collect" \in Location
    BY <2>4, <2>6, LocFacts DEF Pending, Location
  <2> QED
    BY <1>3, <2>6, <2>7, <2>8, LocalStep DEF set, goto
<1>9. CASE D(C) # {} /\ Cardinality(D(C)) # 1
  <2>1. set(b, r(C)) /\ goto(b, next(C))
    BY <1>1, <1>9
  <2> HIDE DEF r, next
  <2> QED
    BY <1>5, <1>6, <2>1, SilentStep
<1> QED
  BY <1>7, <1>8, <1>9

\* The check of a chunk.
LEMMA RefineStep ==
    ASSUME IInv, NEW b \in Thread, refine(b)
    PROVE  IInv'
<1>1. loc[b] \in Locals /\ known' \in [Thread -> SUBSET backbones]
  BY LocFacts DEF refine
<1>2. {"exit", "filter", "probe"} \subseteq Location \ {"sat", "unsat"}
  BY DEF Location
<1>3. CASE (goto(b, "exit") \/ goto(b, "filter")) /\ set(b, Cleared(loc[b]))
  BY <1>1, <1>2, <1>3, HelpersTyped, SilentStep DEF refine
<1>4. CASE refine_undef(b)
  <2> DEFINE r == [Cleared(loc[b]) EXCEPT !.delta = @ + 1]
  <2>1. r \in Locals /\ r.epoch = loc[b].epoch /\ r.found = loc[b].found
    BY <1>1, HelpersTyped, SMTT(30) DEF Locals
  <2>2. \/ set(b, r) /\ goto(b, "filter")
        \/ set(b, Fallback(loc[b])) /\ goto(b, "probe")
    BY <1>4 DEF refine_undef
  <2> HIDE DEF r
  <2> QED
    BY <1>1, <1>2, <2>1, <2>2, HelpersTyped, SilentStep DEF refine
<1>5. CASE refine_sat(b)
  <2> DEFINE r == [loc[b] EXCEPT !.ret = "exit"]
  <2>1. r \in Locals /\ r.epoch <= cancelEpoch /\ r.found = loc[b].found
    BY LocFacts DEF Locals
  <2>2. Satisfiable
    BY <1>5 DEF refine_sat, HasModel, Satisfiable
  <2>3. Pending(r, "sat") /\ "sat" \in Location
    BY <2>1, <2>2, LocFacts DEF Pending, Location
  <2>4. set(b, r) /\ goto(b, "sat")
    BY <1>5 DEF refine_sat
  <2> HIDE DEF r
  <2> QED
    BY <1>1, <2>1, <2>3, <2>4, LocalStep DEF refine, set, goto
<1>6. CASE refine_unsat(b)
  BY <1>6, RefineUnsatStep DEF refine
<1> QED
  BY <1>3, <1>4, <1>5, <1>6 DEF refine

\* The probe of one candidate.
LEMMA ProbeLiteralStep ==
    ASSUME IInv, NEW b \in Thread, NEW l \in loc[b].todo, pc[b] = "probe", probe_literal(b, l),
           UNCHANGED <<problem, verdict, limits, shared, queue, batches, sleeping, known>>
    PROVE  IInv'
<1> DEFINE e == Assumed(b, l)
           r == Probed(b, l)
           rs == [r EXCEPT !.ret = "probe"]
           rc == [r EXCEPT !.found = {Neg(e)}, !.always = TRUE, !.ret = "probe"]
           ru(C) == [r EXCEPT !.why = C, !.ret = "probe"]
<1>1. l \in Lit /\ e \in Lit /\ Neg(e) \in Lit
  BY LocFacts, NegLit DEF Assumed
<1>2. r \in Locals /\ r.epoch = loc[b].epoch /\ r.found = loc[b].found
  BY LocFacts DEF Locals, Probed
<1>3. known' \in [Thread -> SUBSET backbones]
  BY LocFacts
<1>4. {"sat", "unsat", "collect", "probe"} \subseteq Location
  BY DEF Location
<1>5. pc' = pc => goto(b, "probe")
  BY DEF goto, IInv, TypeOK
<1>6. CASE set(b, r) /\ UNCHANGED pc
  <2> HIDE DEF r
  <2> QED
    BY <1>2, <1>4, <1>5, <1>6, SilentStep
<1>7. CASE HasModel(b, {e}) /\ set(b, rs) /\ goto(b, "sat")
  <2>1. Satisfiable
    BY <1>7 DEF HasModel, Satisfiable
  <2> HIDE DEF r
  <2>2. rs \in Locals /\ rs.epoch <= cancelEpoch /\ rs.found = loc[b].found
    BY <1>2, LocFacts DEF Locals
  <2>3. Pending(rs, "sat")
    BY <2>1, <2>2, LocFacts DEF Pending
  <2> HIDE DEF rs
  <2> QED
    BY <1>3, <1>4, <1>7, <2>2, <2>3, LocalStep DEF set, goto
<1>8. ASSUME NEW C \in Cores(b, {e}),
             IF e \in C THEN set(b, rc) /\ goto(b, "collect")
                        ELSE set(b, ru(C)) /\ goto(b, "unsat")
      PROVE  IInv'
  <2>1. C \ {e} \subseteq Asms /\ Refutes(known[b], C) /\ C \in SUBSET Lit
    BY <1>1, BackbonesAssumption DEF Cores
  <2>2. TypeOK /\ Sound(known[b]) /\ Sound(loc[b].found)
    BY KnownSound DEF IInv
  <2>3. CASE e \in C
    <3>1. Sound({Neg(e)})
      BY <1>1, <2>1, <2>2, CoreGivesBackbone
    <3> HIDE DEF r, e
    <3>2. rc \in Locals /\ rc.epoch <= cancelEpoch /\ rc.found = {Neg(e)}
      BY <1>1, <1>2, LocFacts DEF Locals
    <3>3. Pending(rc, "collect")
      BY <3>1, <3>2 DEF Pending
    <3> HIDE DEF rc
    <3> QED
      BY <1>3, <1>4, <1>8, <2>3, <3>2, <3>3, LocalStep DEF set, goto
  <2>4. CASE e \notin C
    <3>1. Refutes({}, Asms)
      BY <2>1, <2>2, <2>4, CoreGivesUnsat
    <3> HIDE DEF r, e
    <3>2. ru(C) \in Locals /\ ru(C).epoch <= cancelEpoch /\ ru(C).found = loc[b].found
      BY <1>2, <2>1, LocFacts DEF Locals
    <3>3. Pending(ru(C), "unsat")
      BY <2>2, <3>1, <3>2 DEF Pending
    <3> HIDE DEF ru
    <3> QED
      BY <1>3, <1>4, <1>8, <2>4, <3>2, <3>3, LocalStep DEF set, goto
  <2> QED
    BY <2>3, <2>4
<1> QED
  BY <1>6, <1>7, <1>8 DEF probe_literal

\* The loop over the candidates that are probed.
LEMMA ProbeStep ==
    ASSUME IInv, NEW b \in Thread, fallback_failed_literal_probe(b)
    PROVE  IInv'
<1>1. loc[b] \in Locals /\ known' \in [Thread -> SUBSET backbones] /\ pc[b] = "probe"
  BY LocFacts DEF fallback_failed_literal_probe
<1>2. CASE goto(b, AfterProbe(b)) /\ set(b, Cleared(loc[b]))
  <2>1. AfterProbe(b) \in Location \ {"sat", "unsat"}
    BY DEF AfterProbe, Location
  <2> QED
    BY <1>1, <1>2, <2>1, HelpersTyped, SilentStep DEF fallback_failed_literal_probe
<1>3. ASSUME NEW l \in loc[b].todo, set(b, Probed(b, l)), UNCHANGED pc
      PROVE  IInv'
  <2>1. Probed(b, l) \in Locals /\ Probed(b, l).epoch = loc[b].epoch
        /\ Probed(b, l).found = loc[b].found
    BY LocFacts DEF Locals, Probed
  <2>2. goto(b, "probe") /\ "probe" \in Location \ {"sat", "unsat"}
    BY <1>1, <1>3 DEF goto, IInv, TypeOK, Location
  <2> QED
    BY <1>3, <2>1, <2>2, SilentStep DEF fallback_failed_literal_probe
<1>4. ASSUME NEW l \in loc[b].todo, NEW u \in UnitBackbones(b, l),
             set(b, [Probed(b, l) EXCEPT !.found = {u}, !.ret = "probe"]), goto(b, "collect")
      PROVE  IInv'
  <2> DEFINE r == [Probed(b, l) EXCEPT !.found = {u}, !.ret = "probe"]
  <2>1. u \in Lit /\ Sound({u})
    BY LocFacts, UnitsSound
  <2>2. r \in Locals /\ r.epoch <= cancelEpoch /\ r.found = {u}
    BY <2>1, LocFacts DEF Locals, Probed
  <2>3. "collect" \in Location /\ Pending(r, "collect")
    BY <2>1, <2>2 DEF Pending, Location
  <2>4. set(b, r)
    BY <1>4
  <2> HIDE DEF r
  <2> QED
    BY <1>1, <1>4, <2>2, <2>3, <2>4, LocalStep DEF fallback_failed_literal_probe, set, goto
<1>5. ASSUME NEW l \in loc[b].todo, probe_literal(b, l)
      PROVE  IInv'
  BY <1>1, <1>5, ProbeLiteralStep DEF fallback_failed_literal_probe
<1> QED
  BY <1>2, <1>3, <1>4, <1>5 DEF fallback_failed_literal_probe

\* A new backbone is shared and asserted.
LEMMA CollectStep ==
    ASSUME IInv, NEW b \in Thread, collect_global_backbone(b)
    PROVE  IInv'
<1> DEFINE p == loc[b].retry /\ (loc[b].progress \/ loc[b].found \ backbones # {})
           r == [loc[b] EXCEPT !.found = {}, !.always = FALSE, !.ret = "wait", !.progress = p]
<1>1. loc[b].found \subseteq Lit /\ loc[b].ret \in Location \ {"sat", "unsat"}
  BY LocFacts DEF Locals, Location
<1>2. r \in Locals /\ r.epoch = loc[b].epoch /\ r.found = {}
  <2>1. p \in BOOLEAN
    OBVIOUS
  <2> HIDE DEF p
  <2> QED
    BY <2>1, LocFacts DEF Locals
<1>3. set(b, r) /\ goto(b, loc[b].ret)
  BY DEF collect_global_backbone
<1> HIDE DEF r
<1>4. Pending(r, loc[b].ret)
  BY <1>1, <1>2 DEF Pending, Sound
<1>5. known' \in [Thread -> SUBSET backbones']
  BY DEF IInv, TypeOK, collect_global_backbone
<1>6. TypeOK'
  BY <1>1, <1>2, <1>3, <1>5, SMTT(30)
     DEF IInv, TypeOK, collect_global_backbone, set, goto, problem, verdict, limits, queue, batches
<1>7. BackbonesSound'
  BY KnownSound DEF BackbonesSound, Sound, collect_global_backbone, problem
<1>8. VerdictSound'
  BY DEF IInv, VerdictSound, Refutes, collect_global_backbone, problem, verdict
<1>9. \A c \in Thread : Pending(loc[c], pc[c])'
  BY <1>3, <1>4, PendingStep DEF collect_global_backbone, set, goto, problem
<1> QED
  BY <1>6, <1>7, <1>8, <1>9 DEF IInv

-----------------------------------------------------------------------------
(* Steps that set the verdict.                                             *)

\* The verdict and what goes with it are typed and right.
VerdictOK ==
    /\ state \in {"running", "sat", "unsat", "unknown", "exception"}
    /\ core \subseteq Lit /\ canceled \in BOOLEAN
    /\ stopped \subseteq Thread /\ sleeping \subseteq Thread
    /\ VerdictSound

\* set_state installs a verdict that is right.
LEMMA SetState ==
    ASSUME IInv, formula' = formula, NEW over, NEW C \in SUBSET Lit,
           NEW s \in {"sat", "unsat", "unknown", "exception"},
           s = "sat" => Satisfiable, s = "unsat" => Refutes({}, Asms),
           set_state(s, over, C)
    PROVE  VerdictOK'
<1>1. CASE state \in over
  <2>1. state' = s /\ core' = C /\ cancel_background_threads
    BY <1>1 DEF set_state
  <2>2. VerdictSound'
    BY <2>1 DEF VerdictSound, Satisfiable, Refutes
  <2> QED
    BY <2>1, <2>2 DEF VerdictOK, IInv, TypeOK, cancel_background_threads
<1>2. CASE state \notin over
  <2>1. UNCHANGED <<verdict, stopped, sleeping>>
    BY <1>2 DEF set_state
  <2> QED
    BY <2>1 DEF VerdictOK, IInv, TypeOK, VerdictSound, Refutes, verdict
<1> QED
  BY <1>1, <1>2

\* set_canceled, set_unknown and a step without a verdict keep it right.
LEMMA KeepState ==
    ASSUME IInv, formula' = formula,
           set_canceled \/ set_unknown \/ UNCHANGED <<verdict, stopped, sleeping>>
    PROVE  VerdictOK'
<1>1. CASE set_canceled
  BY <1>1
     DEF set_canceled, cancel_background_threads, VerdictOK, IInv, TypeOK, VerdictSound, Refutes
<1>2. CASE set_unknown
  <2>1. CASE engine = "smt"
    <3>1. core \in SUBSET Lit /\ set_state("unknown", {"running"}, core)
      BY <1>2, <2>1 DEF set_unknown, IInv, TypeOK
    <3> QED
      BY <3>1, SetState
  <2>2. CASE engine # "smt"
    BY <1>2, <2>2 DEF set_unknown, VerdictOK, IInv, TypeOK, VerdictSound, Refutes
  <2> QED
    BY <2>1, <2>2
<1>3. CASE UNCHANGED <<verdict, stopped, sleeping>>
  BY <1>3 DEF VerdictOK, IInv, TypeOK, VerdictSound, Refutes, verdict
<1> QED
  BY <1>1, <1>2, <1>3

\* A step of b with a right verdict keeps the invariant.
LEMMA VerdictStep ==
    ASSUME IInv, VerdictOK', NEW b \in Thread, NEW r \in Locals, NEW l \in Location,
           r.epoch <= cancelEpoch, Pending(r, l), set(b, r), goto(b, l),
           UNCHANGED <<problem, main, shared, queue, batches, known>>
    PROVE  IInv'
<1>1. TypeOK'
  BY DEF IInv, TypeOK, VerdictOK, set, goto, problem, shared, queue, batches
<1>2. BackbonesSound' /\ VerdictSound'
  BY DEF IInv, BackbonesSound, VerdictOK, problem, shared
<1>3. \A c \in Thread : Pending(loc[c], pc[c])'
  BY PendingStep DEF problem, set, goto
<1> QED
  BY <1>1, <1>2, <1>3 DEF IInv

\* The same for a step that moves no thread.
LEMMA OutsideStep ==
    ASSUME IInv, VerdictOK', UNCHANGED <<problem, shared, queue, batches, known, pc, loc>>,
           main' \in 0 .. MaxCancel
    PROVE  IInv'
<1>1. TypeOK'
  BY DEF IInv, TypeOK, VerdictOK, problem, shared, queue, batches
<1>2. BackbonesSound' /\ VerdictSound'
  BY DEF IInv, BackbonesSound, VerdictOK, problem, shared
<1>3. \A c \in Thread : Pending(loc[c], pc[c])'
  BY PendingKept DEF problem
<1> QED
  BY <1>1, <1>2, <1>3 DEF IInv

\* set_sat and set_unsat of a backbone thread, and its end.
LEMMA ReportSteps ==
    ASSUME IInv, NEW b \in Thread, set_sat(b) \/ set_unsat(b) \/ exit_thread(b)
    PROVE  IInv'
<1>1. loc[b] \in Locals /\ loc[b].epoch <= cancelEpoch /\ Pending(loc[b], pc[b])
  BY LocFacts DEF IInv
<1>2. core \in SUBSET Lit /\ loc[b].why \in SUBSET Lit /\ loc[b].ret \in Location \ {"sat", "unsat"}
  BY <1>1 DEF IInv, TypeOK, Locals, Location
<1>3. CASE set_sat(b)
  <2> DEFINE r == [loc[b] EXCEPT !.ret = "wait"]
  <2>1. VerdictOK'
    BY <1>1, <1>2, <1>3, SetState DEF set_sat, Pending, problem
  <2>2. r \in Locals /\ r.epoch <= cancelEpoch /\ r.found = loc[b].found
    BY <1>1 DEF Locals
  <2>3. Pending(r, loc[b].ret)
    BY <1>1, <1>2, <2>2 DEF Pending
  <2>4. set(b, r)
    BY <1>3 DEF set_sat
  <2> HIDE DEF r
  <2> QED
    BY <1>2, <1>3, <2>1, <2>2, <2>3, <2>4, VerdictStep DEF set_sat
<1>4. CASE set_unsat(b)
  <2> DEFINE r == [loc[b] EXCEPT !.why = {}, !.ret = "wait"]
  <2>1. VerdictOK'
    BY <1>1, <1>2, <1>4, SetState DEF set_unsat, Pending, problem
  <2>2. r \in Locals /\ r.epoch <= cancelEpoch /\ r.found = loc[b].found
    BY <1>1 DEF Locals
  <2>3. Pending(r, loc[b].ret)
    BY <1>1, <1>2, <2>2 DEF Pending
  <2>4. set(b, r)
    BY <1>4 DEF set_unsat
  <2> HIDE DEF r
  <2> QED
    BY <1>2, <1>4, <2>1, <2>2, <2>3, <2>4, VerdictStep DEF set_unsat
<1>5. CASE exit_thread(b)
  <2>1. VerdictOK'
    BY <1>5, KeepState DEF exit_thread, problem
  <2>2. Fresh \in Locals /\ Fresh.epoch <= cancelEpoch /\ Pending(Fresh, "done")
    BY FreshTyped, LocFacts, SMTT(30) DEF Pending, Sound
  <2>3. "done" \in Location
    BY DEF Location
  <2> QED
    BY <1>5, <2>1, <2>2, <2>3, VerdictStep DEF exit_thread
<1> QED
  BY <1>3, <1>4, <1>5

\* The retry loop.
LEMMA RetryStep ==
    ASSUME IInv, NEW b \in Thread, retry_batch(b)
    PROVE  IInv'
<1> DEFINE left == {l \in loc[b].batch : ~is_global_backbone_or_negation(l)}
           r == [loc[b] EXCEPT !.lits = left, !.todo = left, !.retry = TRUE, !.progress = FALSE]
           next == IF left = {} THEN "finish" ELSE "probe"
<1>1. {"finish", "probe"} \subseteq Location \ {"sat", "unsat"}
  BY DEF Location
<1>2. CASE goto(b, "finish") /\ UNCHANGED <<known, loc>>
  <2>1. known' \in [Thread -> SUBSET backbones]
    BY <1>2, LocFacts
  <2> QED
    BY <1>1, <1>2, <2>1, MoveStep DEF retry_batch, goto
<1>3. CASE collect_shared_clauses(b) /\ set(b, r) /\ goto(b, next)
  <2>1. left \in SUBSET Lit /\ next \in {"finish", "probe"}
    BY LocFacts
  <2> HIDE DEF left, next
  <2>2. r \in Locals /\ r.epoch <= cancelEpoch /\ r.found = loc[b].found
    BY <2>1, LocFacts DEF Locals
  <2>3. Pending(r, next)
    BY <2>1, <2>2, LocFacts DEF Pending
  <2>4. known' \in [Thread -> SUBSET backbones]
    BY <1>3, CollectTyped
  <2>5. next \in Location
    BY <1>1, <2>1
  <2> HIDE DEF r
  <2> QED
    BY <1>3, <2>2, <2>3, <2>4, <2>5, LocalStep DEF retry_batch, set, goto
<1> QED
  BY <1>2, <1>3 DEF retry_batch

\* The end of a batch.
LEMMA FinishStep ==
    ASSUME IInv, NEW b \in Thread, finish_batch(b)
    PROVE  IInv'
<1> DEFINE l == IF BatchCanceled(b) THEN "wait" ELSE "cancelBatch"
<1>1. l \in Location \ {"sat", "unsat"}
  BY DEF Location
<1> HIDE DEF l
<1>2. Fresh \in Locals /\ Fresh.epoch <= cancelEpoch /\ Pending(Fresh, l)
  BY <1>1, FreshTyped, LocFacts, SMTT(30) DEF Pending, Sound
<1>3. known' \in [Thread -> SUBSET backbones]
  BY LocFacts DEF finish_batch
<1> QED
  BY <1>1, <1>2, <1>3, LocalStep DEF finish_batch, set, goto, l

\* The batch is canceled for the other threads.
LEMMA CancelBatchStep ==
    ASSUME IInv, NEW b \in Thread, cancel_current_backbone_batch(b)
    PROVE  IInv'
<1>1. loc[b] \in Locals /\ "wait" \in Location /\ loc' = [loc EXCEPT ![b] = loc[b]]
  BY LocFacts DEF Location, cancel_current_backbone_batch, IInv, TypeOK
<1>2. \A c \in Thread : loc'[c].epoch <= cancelEpoch'
  <2> SUFFICES ASSUME NEW c \in Thread
               PROVE  loc'[c].epoch <= cancelEpoch'
    OBVIOUS
  <2>1. loc[c].epoch \in Nat /\ cancelEpoch \in Nat /\ loc[c].epoch <= cancelEpoch
    BY LocFacts
  <2> QED
    BY <2>1, SMTT(30) DEF cancel_current_backbone_batch
<1>3. TypeOK'
  BY <1>1, <1>2, SMTT(30)
     DEF IInv, TypeOK, cancel_current_backbone_batch, goto, problem, verdict, limits, shared, queue
<1>4. BackbonesSound' /\ VerdictSound'
  BY ZenonT(30)
     DEF IInv, BackbonesSound, VerdictSound, Refutes, cancel_current_backbone_batch, problem,
         verdict, shared
<1>5. Pending(loc[b], "wait")
  BY LocFacts DEF Pending
<1>6. \A c \in Thread : Pending(loc[c], pc[c])'
  BY <1>1, <1>5, PendingStep DEF cancel_current_backbone_batch, goto, problem
<1> QED
  BY <1>3, <1>4, <1>6 DEF IInv

\* kSubset picks subsets.
LEMMA KSubsetPicks ==
    ASSUME NEW k, NEW S, NEW T \in kSubset(k, S)
    PROVE  T \subseteq S /\ Cardinality(T) = k
  BY DEF kSubset

\* A thread takes a batch, goes to sleep or leaves.
LEMMA WaitStep ==
    ASSUME IInv, NEW b \in Thread, wait_for_backbone_job(b)
    PROVE  IInv'
<1>1. /\ formula' = formula
      /\ UNCHANGED <<problem, verdict, limits, shared, candEpoch, cancelEpoch, known>>
  BY DEF wait_for_backbone_job, problem
<1>2. BackbonesSound' /\ VerdictSound'
  BY <1>1 DEF IInv, BackbonesSound, VerdictSound, Refutes, verdict, shared
<1>3. CASE goto(b, "exit") /\ UNCHANGED <<candidates, batch, batchId, last, sleeping, loc>>
  <2>1. known' \in [Thread -> SUBSET backbones] /\ "exit" \in Location \ {"sat", "unsat"}
    BY <1>1, LocFacts DEF Location
  <2> QED
    BY <1>1, <1>3, <2>1, MoveStep DEF goto, queue, batches
<1>4. CASE sleeping' = sleeping \cup {b} /\ UNCHANGED <<candidates, batch, batchId, last, pc, loc>>
  <2>1. TypeOK'
    BY <1>1, <1>4 DEF IInv, TypeOK, problem, verdict, limits, shared
  <2> QED
    BY <1>1, <1>2, <1>4, <2>1, PendingKept DEF IInv
<1>5. ASSUME /\ IF last[b] = batchId
                THEN /\ batch' \in kSubset(Min({BatchSize, Cardinality(candidates)}), candidates)
                     /\ candidates' = candidates \ batch'
                     /\ batchId' = batchId + 1
                     /\ sleeping' = {}
                ELSE UNCHANGED <<candidates, batch, batchId, sleeping>>
             /\ last' = [last EXCEPT ![b] = batchId']
             /\ set(b, [Fresh EXCEPT !.batch = batch', !.lits = batch'])
             /\ goto(b, "epoch")
      PROVE  IInv'
  <2> DEFINE r == [Fresh EXCEPT !.batch = batch', !.lits = batch']
  <2>1. candidates \in SUBSET Lit /\ batch \in SUBSET Lit /\ batchId \in Nat
    BY DEF IInv, TypeOK
  <2>2. candidates' \subseteq candidates /\ batch' \in SUBSET Lit /\ sleeping' \subseteq sleeping
    BY <1>5, <2>1, KSubsetPicks
  <2>3. Cardinality(candidates') <= MaxCandidates
    <3>1. IsFiniteSet(candidates) /\ Cardinality(candidates) \in Nat
      BY <2>1, FiniteLits
    <3>2. Cardinality(candidates') \in Nat /\ Cardinality(candidates') <= Cardinality(candidates)
      BY <2>2, <3>1, FS_Subset, FS_CardinalityType
    <3>3. Cardinality(candidates) <= MaxCandidates /\ MaxCandidates \in Nat
      BY BackbonesAssumption DEF IInv, TypeOK
    <3> QED
      BY <3>1, <3>2, <3>3, SMTT(30)
  <2>4. batchId' \in Nat /\ last' \in [Thread -> 0 .. batchId']
    <3>1. batchId' \in Nat /\ batchId <= batchId'
      BY <1>5, <2>1, SMTT(30)
    <3>2. last \in [Thread -> 0 .. batchId]
      BY DEF IInv, TypeOK
    <3> QED
      BY <1>5, <2>1, <3>1, <3>2, SMTT(30)
  <2>5. r \in Locals /\ r.epoch = 0 /\ r.found = {}
    BY <2>2 DEF Locals, Fresh
  <2>6. set(b, r) /\ goto(b, "epoch")
    BY <1>5
  <2> HIDE DEF r
  <2>7. "epoch" \in Location /\ Pending(r, "epoch")
    BY <2>5 DEF Location, Pending, Sound
  <2>8. loc' \in [Thread -> Locals] /\ pc' \in [Thread -> Location]
    BY <2>5, <2>6, <2>7 DEF set, goto, IInv, TypeOK
  <2>9. \A c \in Thread : loc'[c].epoch <= cancelEpoch'
    <3> SUFFICES ASSUME NEW c \in Thread
                 PROVE  loc'[c].epoch <= cancelEpoch'
      OBVIOUS
    <3>1. loc \in [Thread -> Locals] /\ cancelEpoch \in Nat /\ loc[c].epoch <= cancelEpoch
      BY DEF IInv, TypeOK
    <3>2. loc'[c] = IF c = b THEN r ELSE loc[c]
      BY <2>6, <3>1 DEF set
    <3> QED
      BY <1>1, <2>5, <3>1, <3>2, SMTT(30)
  <2>10. TypeOK'
    BY <1>1, <2>1, <2>2, <2>3, <2>4, <2>8, <2>9
       DEF IInv, TypeOK, problem, verdict, limits, shared
  <2> QED
    BY <1>1, <1>2, <2>6, <2>7, <2>10, PendingStep DEF set, goto, IInv
<1> QED
  BY <1>3, <1>4, <1>5 DEF wait_for_backbone_job

\* A check fails.
LEMMA FailSteps ==
    ASSUME IInv, NEW b \in Thread, CheckFails(b)
    PROVE  IInv'
<1>1. main \in 0 .. MaxCancel /\ core \in SUBSET Lit
  BY DEF IInv, TypeOK
<1>2. CASE check_exhausts(b)
  <2>1. VerdictOK'
    BY <1>2 DEF check_exhausts, VerdictOK, IInv, TypeOK, VerdictSound, Refutes, verdict, problem
  <2> QED
    BY <1>1, <1>2, <2>1, OutsideStep DEF check_exhausts
<1>3. CASE check_throws(b)
  <2>1. VerdictOK'
    BY <1>1, <1>3, SetState DEF check_throws, problem
  <2> QED
    BY <1>1, <1>3, <2>1, OutsideStep DEF check_throws
<1> QED
  BY <1>2, <1>3 DEF CheckFails

-----------------------------------------------------------------------------
(* The workers and the caller.                                             *)

\* The candidates that a worker offers fit into the queue.
LEMMA OfferStep ==
    ASSUME IInv, collect_backbone_candidates
    PROVE  IInv'
<1>1. PICK S \in SUBSET Proposed :
         LET new == {l \in S : ~is_global_backbone_or_negation(l)}
         IN  candidates' \in kSubset(Min({MaxCandidates, Cardinality(candidates \cup new)}),
                                     candidates \cup new)
  BY DEF collect_backbone_candidates
<1> DEFINE all == candidates \cup {l \in S : ~is_global_backbone_or_negation(l)}
<1>2. all \in SUBSET Lit
  BY BackbonesAssumption DEF IInv, TypeOK
<1>3. candidates' \in kSubset(Min({MaxCandidates, Cardinality(all)}), all)
  BY <1>1
<1> HIDE DEF all
<1>4. candidates' \subseteq Lit /\ Cardinality(candidates') = Min({MaxCandidates, Cardinality(all)})
  BY <1>2, <1>3, KSubsetPicks
<1>5. Cardinality(candidates') <= MaxCandidates
  <2>1. MaxCandidates \in Nat /\ Cardinality(all) \in Nat
    BY <1>2, FiniteLits, BackbonesAssumption
  <2> QED
    BY <1>4, <2>1, MinOfTwo
<1>6. candEpoch' \in 0 .. MaxOffers
  BY BackbonesAssumption, SMTT(30) DEF IInv, TypeOK, collect_backbone_candidates
<1>7. TypeOK'
  BY <1>4, <1>5, <1>6
     DEF IInv, TypeOK, collect_backbone_candidates, problem, verdict, limits, shared, batches
<1>8. BackbonesSound' /\ VerdictSound'
  BY DEF IInv, BackbonesSound, VerdictSound, Refutes, collect_backbone_candidates, problem,
         verdict, shared
<1>9. \A c \in Thread : Pending(loc[c], pc[c])'
  BY PendingKept DEF collect_backbone_candidates, problem
<1> QED
  BY <1>7, <1>8, <1>9 DEF IInv

\* A unit that a worker derives from sound backbones is sound.
LEMMA ShareStep ==
    ASSUME IInv, worker_shares_unit
    PROVE  IInv'
<1>1. PICK l \in Lit \ backbones :
         /\ Refutes(backbones, {Neg(l)})
         /\ backbones' = backbones \cup {l} /\ units' = units \cup {l}
  BY DEF worker_shares_unit
<1>2. Sound({l})
  <2> SUFFICES ASSUME NEW M \in formula, Asms \subseteq M
               PROVE  l \in M
    BY DEF Sound
  <2>1. backbones \subseteq M
    BY DEF IInv, BackbonesSound
  <2>2. Neg(l) \notin M
    BY <1>1, <2>1 DEF Refutes
  <2> QED
    BY <2>2, NegInModel DEF IInv
<1>3. known \in [Thread -> SUBSET backbones']
  BY <1>1 DEF IInv, TypeOK
<1>4. TypeOK'
  BY <1>1, <1>3
     DEF IInv, TypeOK, worker_shares_unit, problem, verdict, limits, queue, batches
<1>5. BackbonesSound'
  BY <1>1, <1>2 DEF IInv, BackbonesSound, Sound, worker_shares_unit, problem
<1>6. VerdictSound'
  BY DEF IInv, VerdictSound, Refutes, worker_shares_unit, problem, verdict
<1>7. \A c \in Thread : Pending(loc[c], pc[c])'
  BY PendingKept DEF worker_shares_unit, problem
<1> QED
  BY <1>4, <1>5, <1>6, <1>7 DEF IInv

\* The verdict of a worker.
LEMMA WorkerStep ==
    ASSUME IInv, worker_reports
    PROVE  IInv'
<1>1. main \in 0 .. MaxCancel /\ core \in SUBSET Lit /\ formula' = formula
      /\ UNCHANGED <<problem, main, shared, queue, batches, known, pc, loc>>
  BY DEF IInv, TypeOK, worker_reports, problem
<1>2. CASE (\E M \in formula : Asms \subseteq M) /\ set_state("sat", {"running", "unknown"}, core)
  <2>1. VerdictOK'
    BY <1>1, <1>2, SetState DEF Satisfiable
  <2> QED
    BY <1>1, <2>1, OutsideStep
<1>3. ASSUME NEW C \in SUBSET Asms, Refutes(backbones, C),
             set_state("unsat", {"running", "unknown"}, C)
      PROVE  IInv'
  <2>1. Refutes({}, Asms)
    <3>1. Sound(backbones)
      BY DEF IInv, BackbonesSound, Sound
    <3> QED
      BY <1>3, <3>1, CoreGivesUnsat
  <2>2. C \in SUBSET Lit
    BY BackbonesAssumption
  <2>3. VerdictOK'
    BY <1>1, <1>3, <2>1, <2>2, SetState
  <2> QED
    BY <1>1, <2>3, OutsideStep
<1>4. CASE set_unknown
  <2>1. VerdictOK'
    BY <1>1, <1>4, KeepState
  <2> QED
    BY <1>1, <2>1, OutsideStep
<1> QED
  BY <1>2, <1>3, <1>4 DEF worker_reports

\* Cancellation.
LEMMA CancelSteps ==
    ASSUME IInv, cancel_main \/ worker_stops
    PROVE  IInv'
<1>1. CASE cancel_main
  <2>1. VerdictOK'
    BY <1>1
       DEF cancel_main, VerdictOK, IInv, TypeOK, VerdictSound, Refutes, verdict, problem
  <2>2. main' \in 0 .. MaxCancel
    BY <1>1, BackbonesAssumption, SMTT(30) DEF cancel_main, IInv, TypeOK
  <2> QED
    BY <1>1, <2>1, <2>2, OutsideStep DEF cancel_main
<1>2. CASE worker_stops
  <2>1. VerdictOK'
    BY <1>2, KeepState DEF worker_stops, problem
  <2>2. main' \in 0 .. MaxCancel
    BY <1>2 DEF worker_stops, IInv, TypeOK
  <2> QED
    BY <1>2, <2>1, <2>2, OutsideStep DEF worker_stops
<1> QED
  BY <1>1, <1>2

-----------------------------------------------------------------------------
(* The theorems.                                                           *)

\* The initial states, with nothing shared and nothing to report.
LEMMA InitIInv == Init => IInv
<1> SUFFICES ASSUME Init PROVE IInv
  OBVIOUS
<1>1. Cardinality({}) = 0 /\ MaxCandidates \in Nat /\ MaxOffers \in Nat /\ MaxCancel \in Nat
  BY FS_EmptySet, BackbonesAssumption
<1>2. "wait" \in Location
  BY DEF Location
<1>3. \A b \in Thread : loc[b] = Fresh /\ pc[b] = "wait"
  BY DEF Init
<1>4. loc \in [Thread -> Locals] /\ pc \in [Thread -> Location]
  BY <1>2, FreshTyped DEF Init
<1>5. \A b \in Thread : loc[b].epoch <= cancelEpoch
  BY <1>3, FreshTyped, SMTT(30) DEF Init
<1>6. TypeOK
  <2>1. main \in 0 .. MaxCancel /\ candEpoch \in 0 .. MaxOffers /\ batchId \in Nat /\ cancelEpoch \in Nat
    BY <1>1, SMTT(30) DEF Init
  <2>2. last \in [Thread -> 0 .. batchId] /\ known \in [Thread -> SUBSET backbones]
    BY SMTT(30) DEF Init
  <2>3. candidates \subseteq Lit /\ Cardinality(candidates) <= MaxCandidates
    <3>1. candidates = {}
      BY DEF Init
    <3> QED
      BY <1>1, <3>1, SMTT(30)
  <2>4. core \subseteq Lit /\ backbones \subseteq Lit /\ units \subseteq backbones /\ batch \subseteq Lit
        /\ stopped \subseteq Thread /\ sleeping \subseteq Thread
    BY DEF Init
  <2>5. /\ formula \in Formulas /\ engine \in Engine /\ canceled \in BOOLEAN
        /\ state \in {"running", "sat", "unsat", "unknown", "exception"}
    BY DEF Init
  <2> QED
    BY <1>4, <1>5, <2>1, <2>2, <2>3, <2>4, <2>5 DEF TypeOK
<1>7. \A b \in Thread : Pending(loc[b], pc[b])
  BY <1>3, FreshTyped DEF Pending, Sound
<1> QED
  BY <1>6, <1>7 DEF IInv, BackbonesSound, VerdictSound, Init

\* Every step of Next keeps the invariant.
LEMMA NextIInv == IInv /\ [Next]_vars => IInv'
<1> SUFFICES ASSUME IInv, [Next]_vars PROVE IInv'
  OBVIOUS
<1>1. CASE Environment
  BY <1>1, OfferStep, ShareStep, WorkerStep, CancelSteps DEF Environment
<1>2. ASSUME NEW b \in Thread, ThreadStep(b)
      PROVE  IInv'
  BY <1>2, WaitStep, EpochSteps, FilterStep, UnitStep, ChunkStep, RefineStep, ProbeStep,
     CollectStep, ReportSteps, RetryStep, FinishStep, CancelBatchStep DEF ThreadStep
<1>3. ASSUME NEW b \in Thread, CheckFails(b)
      PROVE  IInv'
  BY <1>3, FailSteps
<1>4. CASE UNCHANGED vars
  <2>1. VerdictOK'
    BY <1>4
       DEF vars, limits, verdict, VerdictOK, IInv, TypeOK, VerdictSound, Refutes, problem
  <2>2. main' \in 0 .. MaxCancel
    BY <1>4 DEF vars, limits, IInv, TypeOK
  <2> QED
    BY <1>4, <2>1, <2>2, OutsideStep DEF vars
<1> QED
  BY <1>1, <1>2, <1>3, <1>4 DEF Next

\* The inductive invariant of the backbone threads and the batch manager.
THEOREM BackbonesInvariant == Spec => []IInv
  BY InitIInv, NextIInv, PTL DEF Spec

\* The queue of candidates never exceeds m_max_global_bb_candidates, no thread is
\* ahead of the epoch counter, and a context holds shared backbones only.
THEOREM BackbonesTypes == Spec => []TypeOK
<1>1. IInv => TypeOK
  BY DEF IInv
<1> QED
  BY <1>1, BackbonesInvariant, PTL

\* What collect_global_backbone and share_units publish holds in every model of
\* the formula under the assumptions, for any number of threads.
THEOREM BackbonesAreSound == Spec => []BackbonesSound
<1>1. IInv => BackbonesSound
  BY DEF IInv
<1> QED
  BY <1>1, BackbonesInvariant, PTL

\* set_sat and set_unsat of any thread are right about the formula under the
\* assumptions, though they reason from each other's backbones.
THEOREM VerdictsAreSound == Spec => []VerdictSound
<1>1. IInv => VerdictSound
  BY DEF IInv
<1> QED
  BY <1>1, BackbonesInvariant, PTL
=============================================================================

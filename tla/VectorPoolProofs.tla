-------------------------- MODULE VectorPoolProofs --------------------------
(***************************************************************************)
(* Proofs about the clause pool, for every size of the ring, every set of   *)
(* threads and every set of clauses: the heads always stand at whole vectors *)
(* that were shared, and the pool implements the lossy log.                 *)
(*                                                                         *)
(* The invariant follows the laps of the tail.  An entry of the log that    *)
(* belongs to the current lap lies before the tail; one of the lap before   *)
(* is intact as long as the tail has not reached it.  Entries of one lap    *)
(* follow each other without overlap, and each entry ends where the next    *)
(* begins, so that following the lengths leads from live entry to live      *)
(* entry, and from the last one to the tail.                                *)
(***************************************************************************)
EXTENDS VectorPool, TLAPS

\* The leaves that name no prover go to Zenon.
USE ZenonT(30)

Rec == [owner : Owner, lits : Vector, at : 0 .. Size - 1, lap : Nat]

\* The cells that entry k takes.
End(k) == log[k].at + Len(log[k].lits) + 2

\* Entries of one lap are in order and do not overlap.
Ordered ==
    \A k, j \in 1 .. Len(log) : k < j =>
        \/ log[k].lap < log[j].lap
        \/ log[k].lap = log[j].lap /\ End(k) <= log[j].at

\* The entries of the current lap are before the tail.
BeforeTail ==
    \A k \in 1 .. Len(log) :
        /\ log[k].lap <= lap
        /\ log[k].lap = lap => End(k) <= tail

\* Each entry begins where the one before it ends, and the tail is at the end
\* of the last one.
Chained ==
    /\ \A k \in 1 .. Len(log) - 1 : log[k + 1].at = Wrap(End(k))
    /\ Len(log) > 0 => tail = Wrap(End(Len(log)))

\* The cells of a live entry are as they were written.
Intact ==
    \A k \in 1 .. Len(log) : Live(k) =>
        /\ vectors[log[k].at] = log[k].owner
        /\ vectors[log[k].at + 1] = Len(log[k].lits)
        /\ \A j \in 1 .. Len(log[k].lits) : vectors[log[k].at + 1 + j] = log[k].lits[j]

StandsAt(o, k) == Live(k) /\ log[k].at = heads[o]

\* A head is at the tail or at a live entry, and at a live entry whenever the
\* reader has something to read.
HeadsLive ==
    \A o \in Owner :
        /\ atEnd[o] => heads[o] = tail
        /\ heads[o] = tail \/ \E k \in 1 .. Len(log) : StandsAt(o, k)
        /\ ~atEnd[o] /\ adding = <<>> => \E k \in 1 .. Len(log) : StandsAt(o, k)

IInv == TypeOK /\ Ordered /\ BeforeTail /\ Chained /\ Intact /\ HeadsLive

-----------------------------------------------------------------------------
(* Following the lengths.                                                  *)

\* A clause is a sequence of numbers, not empty and within the bound.
LEMMA VectorFacts ==
    ASSUME NEW v \in Vector
    PROVE  /\ v \in Seq(Nat) /\ Len(v) \in Nat /\ Len(v) >= 1 /\ Len(v) <= MaxLen
           /\ \A j \in 1 .. Len(v) : v[j] \in Nat
  <1>1. v \in Seq(Nat) /\ v # <<>> /\ Len(v) <= MaxLen
    BY PoolAssumption
  <1>2. Len(v) >= 1
    BY <1>1, SMTT(30)
  <1> QED
    BY <1>1, <1>2, SMTT(30)

\* The counters and positions are numbers.
LEMMA PoolNumbers ==
    ASSUME TypeOK
    PROVE  /\ Size \in Nat /\ Size > 0 /\ MaxLen \in Nat
           /\ lap \in Nat /\ tail \in Nat /\ tail < Size /\ Len(log) \in Nat
           /\ \A o \in Owner : heads[o] \in Nat /\ heads[o] < Size
  <1>1. Size \in Nat /\ Size > 0 /\ MaxLen \in Nat
    BY PoolAssumption, SMTT(30)
  <1>2. lap \in Nat /\ tail \in 0 .. Size - 1 /\ log \in Seq(Rec) /\ heads \in [Owner -> 0 .. Size - 1]
    BY DEF TypeOK, Rec
  <1> QED
    BY <1>1, <1>2, SMTT(30)

\* An entry of the log has the types of its fields.
LEMMA EntryFacts ==
    ASSUME TypeOK, NEW k \in 1 .. Len(log)
    PROVE  /\ log[k] \in Rec /\ log[k].owner \in Owner /\ log[k].owner \in Nat
           /\ log[k].lits \in Vector /\ log[k].at \in 0 .. Size - 1 /\ log[k].lap \in Nat
           /\ Len(log[k].lits) \in 1 .. MaxLen
           /\ End(k) \in Nat /\ End(k) <= Size + MaxLen + 1 /\ log[k].at + 2 < End(k)
  <1>0. log \in Seq(Rec)
    BY DEF TypeOK, Rec
  <1>1. log[k] \in Rec
    BY <1>0, SMTT(30)
  <1>2. /\ log[k].owner \in Owner /\ log[k].lits \in Vector
        /\ log[k].at \in 0 .. Size - 1 /\ log[k].lap \in Nat
    BY <1>1 DEF Rec
  <1>3. Len(log[k].lits) \in Nat /\ Len(log[k].lits) >= 1 /\ Len(log[k].lits) <= MaxLen
    BY <1>2, VectorFacts
  <1>4. Size \in Nat /\ MaxLen \in Nat
    BY PoolAssumption
  <1>5. log[k].owner \in Nat
    BY <1>2, PoolAssumption
  <1>6. Len(log[k].lits) \in 1 .. MaxLen
    BY <1>3, <1>4, SMTT(30)
  <1>7. log[k].at \in 0 .. Size - 1
    BY <1>2
  <1>8. End(k) \in Nat /\ End(k) <= Size + MaxLen + 1 /\ log[k].at + 2 < End(k)
    <2>1. \A m \in 0 .. Size - 1, n \in 1 .. MaxLen :
              m + n + 2 \in Nat /\ m + n + 2 <= Size + MaxLen + 1 /\ m + 2 < m + n + 2
      BY <1>4, SMTT(30)
    <2> QED
      BY <1>6, <1>7, <2>1 DEF End
  <1> QED
    BY <1>1, <1>2, <1>5, <1>6, <1>8

\* The entry after a live one is live: entries are overwritten oldest first.
LEMMA LiveSuccessor ==
    ASSUME IInv, NEW k \in 1 .. Len(log), k < Len(log), Live(k)
    PROVE  Live(k + 1)
  <1>1. k + 1 \in 1 .. Len(log) /\ k < k + 1
    BY SMTT(30) DEF IInv, TypeOK
  <1>2. /\ log[k].lap \in Nat /\ log[k + 1].lap \in Nat
        /\ log[k].at \in Nat /\ log[k + 1].at \in Nat /\ End(k) \in Nat
        /\ log[k].at < End(k)
    BY <1>1, EntryFacts, SMTT(30) DEF IInv
  <1>3. \/ log[k].lap < log[k + 1].lap
        \/ log[k].lap = log[k + 1].lap /\ End(k) <= log[k + 1].at
    BY <1>1 DEF IInv, Ordered
  <1>4. log[k + 1].lap <= lap
    BY <1>1 DEF IInv, BeforeTail
  <1>5. lap \in Nat /\ tail \in Nat
    BY PoolNumbers DEF IInv
  <1> QED
    BY <1>2, <1>3, <1>4, <1>5, SMTT(30) DEF Live

\* next leads from a live entry to the one after it, and from the last to the
\* tail.
LEMMA NextEntry ==
    ASSUME IInv, NEW k \in 1 .. Len(log), Live(k)
    PROVE  /\ k < Len(log) => next(log[k].at) = log[k + 1].at
           /\ k = Len(log) => next(log[k].at) = tail
  <1>1. vectors[log[k].at + 1] = Len(log[k].lits)
    BY DEF IInv, Intact
  <1>2. log[k].at \in Nat /\ Len(log[k].lits) \in Nat
    BY EntryFacts, SMTT(30) DEF IInv
  <1>3. log[k].at + 2 + Len(log[k].lits) = End(k)
    BY <1>2, SMTT(30) DEF End
  <1>4. next(log[k].at) = Wrap(End(k))
    BY <1>1, <1>3 DEF next
  <1>5. CASE k < Len(log)
    <2>1. k \in 1 .. Len(log) - 1
      BY <1>5, SMTT(30) DEF IInv, TypeOK
    <2> QED
      BY <1>4, <1>5, <2>1, SMTT(30) DEF IInv, Chained
  <1>6. CASE k = Len(log)
    BY <1>4, <1>6, SMTT(30) DEF IInv, Chained
  <1> QED
    BY <1>5, <1>6

\* No two live entries begin in the same cell.
LEMMA LiveUnique ==
    ASSUME IInv, NEW k \in 1 .. Len(log), NEW j \in 1 .. Len(log),
           Live(k), Live(j), log[k].at = log[j].at
    PROVE  k = j
  <1>1. /\ log[k].lap \in Nat /\ log[j].lap \in Nat /\ log[k].at \in Nat
        /\ End(k) \in Nat /\ End(j) \in Nat /\ log[k].at < End(k) /\ log[j].at < End(j)
    BY EntryFacts, SMTT(30) DEF IInv
  <1>2. /\ log[k].lap = lap => End(k) <= tail
        /\ log[j].lap = lap => End(j) <= tail
    BY DEF IInv, BeforeTail
  <1>0. lap \in Nat /\ tail \in Nat
    BY PoolNumbers DEF IInv
  <1>3. log[k].lap = log[j].lap
    <2>1. CASE log[k].lap = lap
      <3>1. ~(tail <= log[j].at)
        BY <1>0, <1>1, <1>2, <2>1, SMTT(30)
      <3> QED
        BY <2>1, <3>1 DEF Live
    <2>2. CASE log[j].lap = lap
      <3>1. ~(tail <= log[k].at)
        BY <1>0, <1>1, <1>2, <2>2, SMTT(30)
      <3> QED
        BY <2>2, <3>1 DEF Live
    <2>3. CASE log[k].lap + 1 = lap /\ log[j].lap + 1 = lap
      BY <1>0, <1>1, <2>3, SMTT(30)
    <2> QED
      BY <2>1, <2>2, <2>3 DEF Live
  <1>4. /\ k < j => End(k) <= log[j].at
        /\ j < k => End(j) <= log[k].at
    BY <1>1, <1>3, SMTT(30) DEF IInv, Ordered
  <1> QED
    BY <1>1, <1>4, SMTT(30)

-----------------------------------------------------------------------------
(* The step that writes a vector.                                          *)

\* add_vector appends one entry to the log, at the old tail.
LEMMA AddedEntry ==
    ASSUME IInv, add_vector
    PROVE  /\ adding \in Vector /\ mux \in Owner
           /\ log' \in Seq(Rec) /\ Len(log') = Len(log) + 1
           /\ \A k \in 1 .. Len(log) : log'[k] = log[k]
           /\ log'[Len(log) + 1] = [owner |-> mux, lits |-> adding, at |-> tail, lap |-> lap]
  <1>1. adding \in Vector /\ mux \in Owner
    BY DEF IInv, TypeOK, add_vector
  <1>2. log \in Seq(Rec) /\ tail \in 0 .. Size - 1 /\ lap \in Nat
    BY DEF IInv, TypeOK, Rec
  <1> DEFINE e == [owner |-> mux, lits |-> adding, at |-> tail, lap |-> lap]
  <1>3. e \in Rec
    BY <1>1, <1>2 DEF Rec
  <1>4. log' = Append(log, e)
    BY DEF add_vector
  <1> HIDE DEF e
  <1>5. /\ log' \in Seq(Rec) /\ Len(log') = Len(log) + 1
        /\ \A k \in 1 .. Len(log) : log'[k] = log[k]
        /\ log'[Len(log) + 1] = e
    BY <1>2, <1>3, <1>4, SMTT(30)
  <1> QED
    BY <1>1, <1>5 DEF e

\* Where the tail and the lap are after it.
LEMMA AddedTail ==
    ASSUME IInv, add_vector
    PROVE  /\ Len(adding) \in Nat /\ Len(adding) >= 1 /\ Len(adding) <= MaxLen
           /\ \/ tail + 2 + Len(adding) >= Size /\ tail' = 0 /\ lap' = lap + 1
              \/ /\ tail + 2 + Len(adding) < Size
                 /\ tail' = tail + 2 + Len(adding) /\ lap' = lap
  <1>1. Len(adding) \in Nat /\ Len(adding) >= 1 /\ Len(adding) <= MaxLen
    BY AddedEntry, VectorFacts
  <1>2. Size \in Nat /\ tail \in Nat
    BY PoolNumbers DEF IInv
  <1>3. /\ tail' = Wrap(tail + 2 + Len(adding))
        /\ lap' = IF tail + 2 + Len(adding) >= Size THEN lap + 1 ELSE lap
    BY DEF add_vector
  <1> QED
    BY <1>1, <1>2, <1>3, SMTT(30) DEF Wrap

\* The entries that are live after it were live before it, and their cells are
\* apart from those that are written; the new entry is live.
LEMMA LiveAfterAdd ==
    ASSUME IInv, add_vector
    PROVE  /\ \A k \in 1 .. Len(log) : Live(k)' =>
                 /\ Live(k)
                 /\ End(k) <= tail \/ tail + 2 + Len(adding) <= log[k].at
           /\ \A k \in Nat : k = Len(log) + 1 => Live(k)'
  <1>1. lap \in Nat /\ tail \in Nat /\ Size \in Nat /\ Len(log) \in Nat
    BY PoolNumbers DEF IInv
  <1>2. ASSUME NEW k \in 1 .. Len(log), Live(k)'
        PROVE  Live(k) /\ (End(k) <= tail \/ tail + 2 + Len(adding) <= log[k].at)
    <2>1. log'[k] = log[k]
      BY AddedEntry
    <2>2. log[k].lap \in Nat /\ log[k].at \in Nat
      BY EntryFacts, SMTT(30) DEF IInv
    <2>3. log[k].lap <= lap /\ (log[k].lap = lap => End(k) <= tail)
      BY DEF IInv, BeforeTail
    <2>4. log[k].lap = lap' \/ (log[k].lap + 1 = lap' /\ tail' <= log[k].at)
      BY <1>2, <2>1 DEF Live
    <2>5. CASE lap' = lap + 1
      BY <1>1, <2>2, <2>3, <2>4, <2>5, SMTT(30) DEF Live
    <2>6. CASE lap' = lap /\ tail' = tail + 2 + Len(adding)
      <3>1. Len(adding) \in Nat
        BY AddedTail
      <3> QED
        BY <1>1, <2>2, <2>3, <2>4, <2>6, <3>1, SMTT(30) DEF Live
    <2> QED
      BY <2>5, <2>6, AddedTail
  <1>3. ASSUME NEW k \in Nat, k = Len(log) + 1
        PROVE  Live(k)'
    <2>1. log'[k].at = tail /\ log'[k].lap = lap
      BY <1>3, AddedEntry, SMTT(30)
    <2>2. lap' = lap \/ (lap' = lap + 1 /\ tail' = 0)
      BY AddedTail
    <2> QED
      BY <1>1, <2>1, <2>2, SMTT(30) DEF Live
  <1> QED
    BY <1>2, <1>3

\* A reader that begin_add_vector leaves alone, or has moved out of the way,
\* stands at an entry that survives.
LEMMA HeadSurvives ==
    ASSUME IInv, add_vector, NEW o \in Owner, heads[o] # tail,
           NEW k \in 1 .. Len(log), StandsAt(o, k)
    PROVE  Live(k)'
  <1>1. lap \in Nat /\ tail \in Nat /\ Size \in Nat /\ heads[o] \in Nat
    BY PoolNumbers DEF IInv
  <1>2. ~(tail < heads[o] /\ heads[o] < tail + Len(adding) + 2)
    BY DEF add_vector, Overtaken
  <1>3. /\ log[k].lap \in Nat /\ log[k].at \in Nat /\ log[k].at < Size
        /\ log'[k] = log[k] /\ log[k].at = heads[o]
    <2>1. log[k].lap \in Nat /\ log[k].at \in 0 .. Size - 1
      BY EntryFacts DEF IInv
    <2>2. log'[k] = log[k]
      BY AddedEntry
    <2>3. log[k].at = heads[o]
      BY DEF StandsAt
    <2> QED
      BY <1>1, <2>1, <2>2, <2>3, SMTT(30)
  <1>4. Len(adding) \in Nat
    BY AddedTail
  <1>5. log[k].lap = lap \/ (log[k].lap + 1 = lap /\ tail <= log[k].at)
    BY DEF StandsAt, Live
  <1>6. CASE log[k].lap = lap
    <2>1. lap' = lap \/ (lap' = lap + 1 /\ tail' = 0)
      BY AddedTail
    <2> QED
      BY <1>1, <1>3, <1>6, <2>1, SMTT(30) DEF Live
  <1>7. CASE log[k].lap + 1 = lap /\ tail <= log[k].at
    <2>1. tail + Len(adding) + 2 <= log[k].at
      BY <1>1, <1>2, <1>3, <1>4, <1>7, SMTT(30)
    <2>2. tail + 2 + Len(adding) <= log[k].at
      BY <1>1, <1>3, <1>4, <2>1, SMTT(30)
    <2>3. tail + 2 + Len(adding) < Size
      BY <1>1, <1>3, <1>4, <2>2, SMTT(30)
    <2>4. lap' = lap /\ tail' = tail + 2 + Len(adding)
      BY <1>1, <1>4, <2>3, AddedTail, SMTT(30)
    <2> QED
      BY <1>3, <1>7, <2>2, <2>4 DEF Live
  <1> QED
    BY <1>5, <1>6, <1>7

-----------------------------------------------------------------------------
(* add_vector keeps the invariant: one lemma per conjunct.                  *)

\* The types after add_vector.
LEMMA AddTypes ==
    ASSUME IInv, add_vector
    PROVE  TypeOK'
  <1>1. /\ adding \in Vector /\ mux \in Nat /\ adding \in Seq(Nat)
        /\ Len(adding) \in Nat /\ Len(adding) <= MaxLen
    BY AddedEntry, VectorFacts, PoolAssumption
  <1>2. Size \in Nat /\ tail \in Nat /\ tail < Size /\ lap \in Nat /\ MaxLen \in Nat /\ Size > 0
    BY PoolNumbers DEF IInv
  <1>3. tail' \in 0 .. Size - 1 /\ lap' \in Nat
    BY <1>1, <1>2, AddedTail, SMTT(30)
  <1>4. vectors' \in [Cell -> Nat]
    <2>1. vectors \in [Cell -> Nat]
      BY DEF IInv, TypeOK
    <2>2. ASSUME NEW c \in Cell, tail + 2 <= c, c < tail + 2 + Len(adding)
          PROVE  adding[c - tail - 1] \in Nat
      <3>1. c \in Nat
        BY <1>2, SMTT(30) DEF Cell
      <3>2. c - tail - 1 \in 1 .. Len(adding)
        BY <1>1, <1>2, <2>2, <3>1, SMTT(30)
      <3> QED
        BY <1>1, <3>2, SMTT(30)
    <2>3. vectors' = [c \in Cell |-> IF c = tail THEN mux
                                    ELSE IF c = tail + 1 THEN Len(adding)
                                    ELSE IF tail + 2 <= c /\ c < tail + 2 + Len(adding)
                                    THEN adding[c - tail - 1] ELSE vectors[c]]
      BY DEF add_vector
    <2>4. ASSUME NEW c \in Cell
          PROVE  (IF c = tail THEN mux
                  ELSE IF c = tail + 1 THEN Len(adding)
                  ELSE IF tail + 2 <= c /\ c < tail + 2 + Len(adding)
                  THEN adding[c - tail - 1] ELSE vectors[c]) \in Nat
      BY <1>1, <2>1, <2>2
    <2> QED
      BY <2>3, <2>4
  <1>5. log' \in Seq(Rec)
    BY AddedEntry
  <1>6. heads' \in [Owner -> 0 .. Size - 1] /\ atEnd' \in [Owner -> BOOLEAN]
    BY DEF IInv, TypeOK, add_vector
  <1>7. mux' = NoOwner /\ adding' = <<>> /\ got' = got
    BY DEF add_vector
  <1>8. got \in [Owner -> Seq([owner : Nat, lits : Seq(Nat)])]
    BY DEF IInv, TypeOK
  <1> QED
    BY <1>3, <1>4, <1>5, <1>6, <1>7, <1>8 DEF TypeOK, Rec

\* The ends of the entries after add_vector.
LEMMA AddedEnds ==
    ASSUME IInv, add_vector
    PROVE  /\ \A k \in 1 .. Len(log) : End(k)' = End(k)
           /\ \A k \in Nat : k = Len(log) + 1 => End(k)' = tail + 2 + Len(adding)
  <1>1. tail \in Nat /\ Len(adding) \in Nat
    BY AddedTail, PoolNumbers DEF IInv
  <1>2. ASSUME NEW k \in 1 .. Len(log)
        PROVE  End(k)' = End(k)
    BY AddedEntry DEF End
  <1>3. ASSUME NEW k \in Nat, k = Len(log) + 1
        PROVE  End(k)' = tail + 2 + Len(adding)
    <2>1. log'[k].at = tail /\ log'[k].lits = adding
      BY <1>3, AddedEntry, SMTT(30)
    <2> QED
      BY <1>1, <2>1, SMTT(30) DEF End
  <1> QED
    BY <1>2, <1>3

\* The order of the entries after add_vector.
LEMMA AddOrder ==
    ASSUME IInv, add_vector
    PROVE  Ordered' /\ BeforeTail'
  <1>1. lap \in Nat /\ tail \in Nat /\ Size \in Nat /\ Len(log) \in Nat /\ Len(adding) \in Nat
    BY PoolNumbers, AddedTail DEF IInv
  <1>2. ASSUME NEW k \in 1 .. Len(log')
        PROVE  k \in 1 .. Len(log) \/ k = Len(log) + 1
    BY <1>1, AddedEntry, SMTT(30)
  <1>3. ASSUME NEW k \in 1 .. Len(log)
        PROVE  /\ log'[k] = log[k] /\ End(k)' = End(k) /\ End(k) \in Nat
               /\ log[k].lap \in Nat /\ log[k].lap <= lap /\ (log[k].lap = lap => End(k) <= tail)
    BY AddedEntry, AddedEnds, EntryFacts DEF IInv, BeforeTail
  <1>4. ASSUME NEW k \in Nat, k = Len(log) + 1
        PROVE  log'[k].at = tail /\ log'[k].lap = lap /\ End(k)' = tail + 2 + Len(adding)
    BY <1>4, AddedEntry, AddedEnds, SMTT(30)
  <1>5. Ordered'
    <2> SUFFICES ASSUME NEW k \in 1 .. Len(log'), NEW j \in 1 .. Len(log'), k < j
                 PROVE  \/ log'[k].lap < log'[j].lap
                        \/ log'[k].lap = log'[j].lap /\ End(k)' <= log'[j].at
      BY DEF Ordered
    <2>1. k \in 1 .. Len(log)
      BY <1>1, <1>2, AddedEntry, SMTT(30)
    <2>2. CASE j \in 1 .. Len(log)
      <3>1. log[k].lap < log[j].lap \/ (log[k].lap = log[j].lap /\ End(k) <= log[j].at)
        BY <2>1, <2>2 DEF IInv, Ordered
      <3> QED
        BY <1>3, <2>1, <2>2, <3>1
    <2>3. CASE j = Len(log) + 1
      <3>1. log'[j].at = tail /\ log'[j].lap = lap
        BY <1>1, <1>4, <2>3, SMTT(30)
      <3> QED
        BY <1>1, <1>3, <2>1, <3>1, SMTT(30)
    <2> QED
      BY <1>2, <2>2, <2>3
  <1>6. BeforeTail'
    <2> SUFFICES ASSUME NEW k \in 1 .. Len(log')
                 PROVE  log'[k].lap <= lap' /\ (log'[k].lap = lap' => End(k)' <= tail')
      BY DEF BeforeTail
    <2>0. \/ tail' = 0 /\ lap' = lap + 1
          \/ tail' = tail + 2 + Len(adding) /\ lap' = lap
      BY AddedTail
    <2>1. CASE k \in 1 .. Len(log)
      BY <1>1, <1>3, <2>0, <2>1, SMTT(30)
    <2>2. CASE k = Len(log) + 1
      <3>1. log'[k].lap = lap /\ End(k)' = tail + 2 + Len(adding)
        BY <1>1, <1>4, <2>2, SMTT(30)
      <3> QED
        BY <1>1, <2>0, <3>1, SMTT(30)
    <2> QED
      BY <1>2, <2>1, <2>2
  <1> QED
    BY <1>5, <1>6

\* Each entry still begins where the one before it ends.
LEMMA AddChain ==
    ASSUME IInv, add_vector
    PROVE  Chained'
  <1>1. Len(log) \in Nat /\ Len(log') = Len(log) + 1 /\ tail \in Nat /\ Len(adding) \in Nat
    BY PoolNumbers, AddedEntry, AddedTail DEF IInv
  <1>2. ASSUME NEW k \in 1 .. Len(log') - 1
        PROVE  log'[k + 1].at = Wrap(End(k)')
    <2>1. k \in 1 .. Len(log)
      BY <1>1, SMTT(30)
    <2>2. End(k)' = End(k)
      BY <2>1, AddedEnds
    <2>3. CASE k = Len(log)
      <3>1. log'[k + 1].at = tail
        BY <2>3, AddedEntry, SMTT(30)
      <3>2. tail = Wrap(End(k))
        BY <1>1, <2>1, <2>3, SMTT(30) DEF IInv, Chained
      <3> QED
        BY <2>2, <3>1, <3>2
    <2>4. CASE k # Len(log)
      <3>1. k \in 1 .. Len(log) - 1 /\ k + 1 \in 1 .. Len(log)
        BY <1>1, <2>1, <2>4, SMTT(30)
      <3>2. log[k + 1].at = Wrap(End(k)) /\ log'[k + 1] = log[k + 1]
        BY <3>1, AddedEntry DEF IInv, Chained
      <3> QED
        BY <2>2, <3>2
    <2> QED
      BY <2>3, <2>4
  <1>3. ASSUME NEW k \in Nat, k = Len(log')
        PROVE  tail' = Wrap(End(k)')
    <2>1. End(k)' = tail + 2 + Len(adding)
      BY <1>1, <1>3, AddedEnds
    <2> QED
      BY <2>1 DEF add_vector
  <1>4. tail' = Wrap(End(Len(log))')
    BY <1>1, <1>3, SMTT(30) DEF End
  <1> QED
    BY <1>2, <1>4 DEF Chained, Wrap

\* The entries that are live after add_vector are as they were written.
LEMMA AddIntact ==
    ASSUME IInv, add_vector
    PROVE  Intact'
  <1> SUFFICES ASSUME NEW k \in 1 .. Len(log'), Live(k)'
               PROVE  /\ vectors'[log'[k].at] = log'[k].owner
                      /\ vectors'[log'[k].at + 1] = Len(log'[k].lits)
                      /\ \A j \in 1 .. Len(log'[k].lits) :
                            vectors'[log'[k].at + 1 + j] = log'[k].lits[j]
    BY DEF Intact
  <1>1. /\ Len(log) \in Nat /\ Len(log') = Len(log) + 1 /\ tail \in Nat /\ tail < Size
        /\ Size \in Nat /\ MaxLen \in Nat /\ Len(adding) \in Nat /\ Len(adding) <= MaxLen
    BY PoolNumbers, AddedEntry, AddedTail DEF IInv
  <1>2. ASSUME NEW c \in Cell
        PROVE  vectors'[c] = IF c = tail THEN mux
                             ELSE IF c = tail + 1 THEN Len(adding)
                             ELSE IF tail + 2 <= c /\ c < tail + 2 + Len(adding)
                             THEN adding[c - tail - 1] ELSE vectors[c]
    BY DEF add_vector
  <1>3. CASE k \in 1 .. Len(log)
    <2>1. Live(k) /\ (End(k) <= tail \/ tail + 2 + Len(adding) <= log[k].at) /\ log'[k] = log[k]
      BY <1>3, LiveAfterAdd, AddedEntry
    <2>2. /\ vectors[log[k].at] = log[k].owner
          /\ vectors[log[k].at + 1] = Len(log[k].lits)
          /\ \A j \in 1 .. Len(log[k].lits) : vectors[log[k].at + 1 + j] = log[k].lits[j]
      BY <1>3, <2>1 DEF IInv, Intact
    <2>3. /\ log[k].at \in Nat /\ Len(log[k].lits) \in Nat
          /\ End(k) = log[k].at + Len(log[k].lits) + 2 /\ End(k) <= Size + MaxLen + 1
      BY <1>3, EntryFacts, SMTT(30) DEF IInv, End
    <2>4. PICK a \in Nat, n \in Nat :
             /\ a = log[k].at /\ n = Len(log[k].lits) /\ a + n + 2 <= Size + MaxLen + 1
             /\ a + n + 2 <= tail \/ tail + 2 + Len(adding) <= a
      BY <2>1, <2>3
    <2>5. a + n + 2 <= Size + MaxLen + 1 /\ (a + n + 2 <= tail \/ tail + 2 + Len(adding) <= a)
      BY <2>4
    <2>6. ASSUME NEW c \in Nat, a <= c, c < a + n + 2
          PROVE  vectors'[c] = vectors[c]
      <3>1. c \in Cell
        BY <1>1, <2>5, <2>6, SMTT(30) DEF Cell
      <3>2. ~(c = tail) /\ ~(c = tail + 1) /\ ~(tail + 2 <= c /\ c < tail + 2 + Len(adding))
        BY <1>1, <2>5, <2>6, SMTT(30)
      <3> QED
        BY <1>2, <3>1, <3>2
    <2>7. vectors'[a] = vectors[a] /\ vectors'[a + 1] = vectors[a + 1]
      BY <2>5, <2>6, SMTT(30)
    <2>8. ASSUME NEW j \in 1 .. n
          PROVE  vectors'[a + 1 + j] = vectors[a + 1 + j]
      <3>1. a + 1 + j \in Nat /\ a <= a + 1 + j /\ a + 1 + j < a + n + 2
        BY <2>5, SMTT(30)
      <3> QED
        BY <2>6, <3>1
    <2>9. /\ vectors[a] = log[k].owner /\ vectors[a + 1] = n
          /\ \A j \in 1 .. n : vectors[a + 1 + j] = log[k].lits[j]
      BY <2>2, <2>4
    <2>10. /\ vectors'[a] = log[k].owner /\ vectors'[a + 1] = n
           /\ \A j \in 1 .. n : vectors'[a + 1 + j] = log[k].lits[j]
      BY <2>7, <2>8, <2>9
    <2> QED
      BY <2>1, <2>4, <2>10
  <1>4. CASE k = Len(log) + 1
    <2>1. log'[k].at = tail /\ log'[k].owner = mux /\ log'[k].lits = adding
      BY <1>4, AddedEntry, SMTT(30)
    <2>2. tail \in Cell /\ tail + 1 \in Cell
      BY <1>1, SMTT(30) DEF Cell
    <2>3. vectors'[tail] = mux
      BY <1>2, <2>2
    <2>4. vectors'[tail + 1] = Len(adding)
      BY <1>1, <1>2, <2>2, SMTT(30)
    <2>5. ASSUME NEW j \in 1 .. Len(adding)
          PROVE  vectors'[tail + 1 + j] = adding[j]
      <3>1. tail + 1 + j \in Cell
        BY <1>1, SMTT(30) DEF Cell
      <3>2. /\ ~(tail + 1 + j = tail) /\ ~(tail + 1 + j = tail + 1)
            /\ tail + 2 <= tail + 1 + j /\ tail + 1 + j < tail + 2 + Len(adding)
        BY <1>1, SMTT(30)
      <3>3. vectors'[tail + 1 + j] = adding[(tail + 1 + j) - tail - 1]
        BY <1>2, <3>1, <3>2
      <3>4. (tail + 1 + j) - tail - 1 = j
        BY <1>1, SMTT(30)
      <3> QED
        BY <3>3, <3>4
    <2> QED
      BY <2>1, <2>3, <2>4, <2>5
  <1> QED
    BY <1>1, <1>3, <1>4, SMTT(30)

\* Every reader has the new entry ahead, and stands at a live one.
LEMMA AddHeads ==
    ASSUME IInv, add_vector
    PROVE  HeadsLive'
  <1>1. Len(log) \in Nat /\ Len(log') = Len(log) + 1
    BY PoolNumbers, AddedEntry DEF IInv
  <1>2. ASSUME NEW o \in Owner
        PROVE  \E k \in 1 .. Len(log') : StandsAt(o, k)'
    <2>1. heads' = heads
      BY DEF add_vector
    <2>2. CASE heads[o] = tail
      <3>1. PICK k \in Nat : k = Len(log) + 1
        BY <1>1, SMTT(30)
      <3>2. k \in 1 .. Len(log') /\ Live(k)' /\ log'[k].at = tail
        BY <1>1, <3>1, LiveAfterAdd, AddedEntry, SMTT(30)
      <3> QED
        BY <2>1, <2>2, <3>2 DEF StandsAt
    <2>3. CASE heads[o] # tail
      <3>1. PICK k \in 1 .. Len(log) : StandsAt(o, k)
        BY <2>3 DEF IInv, HeadsLive
      <3>2. Live(k)'
        BY <2>3, <3>1, HeadSurvives
      <3>3. log'[k] = log[k] /\ log[k].at = heads[o] /\ k \in 1 .. Len(log')
        BY <1>1, <3>1, AddedEntry, SMTT(30) DEF StandsAt
      <3> QED
        BY <2>1, <3>2, <3>3 DEF StandsAt
    <2> QED
      BY <2>2, <2>3
  <1>3. ASSUME NEW o \in Owner
        PROVE  ~atEnd'[o]
    BY DEF add_vector
  <1> QED
    BY <1>2, <1>3 DEF HeadsLive

-----------------------------------------------------------------------------
(* The steps, and what the pool promises.                                  *)

\* The steps other than add_vector leave the log and the cells alone, so that
\* only the types and the heads can change.
LEMMA LogUnchanged ==
    ASSUME IInv, UNCHANGED <<vectors, tail, log, lap>>
    PROVE  /\ Ordered' /\ BeforeTail' /\ Chained' /\ Intact'
           /\ \A k : Live(k)' = Live(k)
  <1>1. \A k : Live(k)' = Live(k)
    BY DEF Live
  <1>2. Ordered' /\ BeforeTail'
    BY DEF IInv, Ordered, BeforeTail, End
  <1>3. Chained'
    BY DEF IInv, Chained, End, Wrap
  <1>4. Intact'
    BY <1>1 DEF IInv, Intact
  <1> QED
    BY <1>1, <1>2, <1>3, <1>4

\* The head of o goes on from the live entry it stands at.
LEMMA HeadGoesOn ==
    ASSUME IInv, NEW o \in Owner, NEW k \in 1 .. Len(log), StandsAt(o, k)
    PROVE  /\ next(heads[o]) \in 0 .. Size - 1
           /\ \/ k = Len(log) /\ next(heads[o]) = tail
              \/ /\ k < Len(log) /\ k + 1 \in 1 .. Len(log)
                 /\ Live(k + 1) /\ log[k + 1].at = next(heads[o])
  <1>1. Live(k) /\ log[k].at = heads[o]
    BY DEF StandsAt
  <1>2. Len(log) \in Nat /\ tail \in 0 .. Size - 1
    BY PoolNumbers, SMTT(30) DEF IInv
  <1>3. CASE k = Len(log)
    BY <1>1, <1>2, <1>3, NextEntry
  <1>4. CASE k < Len(log)
    <2>1. k + 1 \in 1 .. Len(log)
      BY <1>2, <1>4, SMTT(30)
    <2>2. Live(k + 1) /\ log[k + 1].at = next(heads[o])
      BY <1>1, <1>4, LiveSuccessor, NextEntry
    <2>3. log[k + 1].at \in 0 .. Size - 1
      BY <2>1, EntryFacts DEF IInv
    <2> QED
      BY <1>4, <2>1, <2>2, <2>3
  <1> QED
    BY <1>2, <1>3, <1>4, SMTT(30)

\* A head that is overtaken stands at a live entry.
LEMMA OvertakenStands ==
    ASSUME IInv, NEW o \in Owner, Overtaken(o)
    PROVE  \E k \in 1 .. Len(log) : StandsAt(o, k)
  <1>1. heads[o] # tail
    BY PoolNumbers, SMTT(30) DEF IInv, Overtaken
  <1> QED
    BY <1>1 DEF IInv, HeadsLive

\* A reader that has something to read stands at a live entry.
LEMMA ReaderStands ==
    ASSUME IInv, NEW o \in Owner, adding = <<>>, heads[o] # tail \/ ~atEnd[o]
    PROVE  ~atEnd[o] /\ \E k \in 1 .. Len(log) : StandsAt(o, k)
  BY DEF IInv, HeadsLive

\* What a live entry looks like to a reader.
LEMMA ReadsEntry ==
    ASSUME IInv, NEW k \in 1 .. Len(log), Live(k)
    PROVE  /\ VectorAt(log[k].at) = [owner |-> log[k].owner, lits |-> log[k].lits]
           /\ vectors[log[k].at] = log[k].owner
  <1>1. /\ vectors[log[k].at] = log[k].owner
        /\ vectors[log[k].at + 1] = Len(log[k].lits)
        /\ \A j \in 1 .. Len(log[k].lits) : vectors[log[k].at + 1 + j] = log[k].lits[j]
    BY DEF IInv, Intact
  <1>2. log[k].lits \in Seq(Nat)
    BY EntryFacts, VectorFacts DEF IInv
  <1>3. [j \in 1 .. Len(log[k].lits) |-> vectors[log[k].at + 1 + j]] = log[k].lits
    <2> DEFINE v == log[k].lits
               f == [j \in 1 .. Len(v) |-> vectors[log[k].at + 1 + j]]
    <2>1. v \in Seq(Nat)
      BY <1>2
    <2>2. DOMAIN f = 1 .. Len(v) /\ \A j \in 1 .. Len(v) : f[j] = v[j]
      BY <1>1
    <2> HIDE DEF v, f
    <2>3. f = v
      <3>1. DOMAIN v = 1 .. Len(v) /\ v = [j \in 1 .. Len(v) |-> v[j]]
        BY <2>1, SMTT(30)
      <3>2. f = [j \in 1 .. Len(v) |-> f[j]]
        BY <2>2 DEF f
      <3> QED
        BY <2>2, <3>1, <3>2
    <2> QED
      BY <2>3 DEF v, f
  <1> QED
    BY <1>1, <1>3 DEF VectorAt

-----------------------------------------------------------------------------
(* The invariant is inductive.                                             *)

\* It holds at the start, when nothing has been shared.
LEMMA PoolInit ==
    ASSUME Init
    PROVE  IInv
  <1>1. Len(log) = 0
    BY DEF Init
  <1>2. TypeOK
    <2>1. Cell \in SUBSET Nat /\ 0 \in 0 .. Size - 1
      BY PoolAssumption, SMTT(30) DEF Cell
    <2>2. vectors \in [Cell -> Nat] /\ heads \in [Owner -> 0 .. Size - 1] /\ tail \in 0 .. Size - 1
      BY <2>1 DEF Init
    <2>3. /\ atEnd \in [Owner -> BOOLEAN] /\ mux \in Owner \cup {NoOwner}
          /\ adding = <<>> /\ lap \in Nat
      BY DEF Init
    <2>4. got \in [Owner -> Seq([owner : Nat, lits : Seq(Nat)])]
      <3>1. <<>> \in Seq([owner : Nat, lits : Seq(Nat)])
        BY SMTT(30)
      <3> QED
        BY <3>1 DEF Init
    <2>5. log \in Seq([owner : Owner, lits : Vector, at : 0 .. Size - 1, lap : Nat])
      BY SMTT(30) DEF Init
    <2> QED
      BY <2>2, <2>3, <2>4, <2>5 DEF TypeOK
  <1>3. Ordered /\ BeforeTail /\ Chained /\ Intact
    BY <1>1, SMTT(30) DEF Ordered, BeforeTail, Chained, Intact
  <1>4. HeadsLive
    BY DEF Init, HeadsLive
  <1> QED
    BY <1>2, <1>3, <1>4 DEF IInv

\* It is kept by every step.
LEMMA PoolStep ==
    ASSUME IInv, [Next]_vars
    PROVE  IInv'
  <1>1. CASE add_vector
    BY <1>1, AddTypes, AddOrder, AddChain, AddIntact, AddHeads DEF IInv
  <1>2. ASSUME NEW o \in Owner, NEW v \in Vector, begin_add_vector(o, v)
        PROVE  IInv'
    <2>1. UNCHANGED <<vectors, tail, heads, atEnd, got, log, lap>> /\ mux' = o /\ adding' = v
      BY <1>2 DEF begin_add_vector
    <2>2. TypeOK'
      <3>1. o # NoOwner
        BY PoolAssumption
      <3> QED
        BY <2>1, <3>1 DEF IInv, TypeOK
    <2>3. v # <<>>
      BY PoolAssumption
    <2>4. HeadsLive'
      BY <2>1, <2>3, LogUnchanged DEF IInv, HeadsLive, StandsAt
    <2> QED
      BY <2>1, <2>2, <2>4, LogUnchanged DEF IInv
  <1>3. ASSUME NEW o \in Owner, move_head(o)
        PROVE  IInv'
    <2>1. /\ UNCHANGED <<vectors, tail, atEnd, mux, adding, got, log, lap>>
          /\ adding # <<>> /\ Overtaken(o) /\ heads' = [heads EXCEPT ![o] = next(heads[o])]
      BY <1>3 DEF move_head
    <2>2. PICK k \in 1 .. Len(log) : StandsAt(o, k)
      BY <2>1, OvertakenStands
    <2>3. next(heads[o]) \in 0 .. Size - 1
      BY <2>2, HeadGoesOn
    <2>4. heads \in [Owner -> 0 .. Size - 1]
      BY DEF IInv, TypeOK
    <2>5. TypeOK'
      <3>1. heads' \in [Owner -> 0 .. Size - 1]
        BY <2>1, <2>3, <2>4
      <3> QED
        BY <2>1, <3>1 DEF IInv, TypeOK
    <2>6. HeadsLive'
      <3> SUFFICES ASSUME NEW x \in Owner
                   PROVE  /\ atEnd'[x] => heads'[x] = tail'
                          /\ heads'[x] = tail' \/ \E j \in 1 .. Len(log') : StandsAt(x, j)'
        BY <2>1 DEF HeadsLive
      <3>1. CASE x = o
        <4>1. heads'[x] = next(heads[o])
          BY <2>1, <2>4, <3>1
        <4>2. ~atEnd[o]
          BY <2>1, PoolNumbers, SMTT(30) DEF IInv, HeadsLive, Overtaken
        <4>3. heads'[x] = tail \/ \E j \in 1 .. Len(log) : Live(j) /\ log[j].at = heads'[x]
          BY <2>2, <4>1, HeadGoesOn
        <4> QED
          BY <2>1, <3>1, <4>2, <4>3, LogUnchanged DEF StandsAt
      <3>2. CASE x # o
        <4>1. heads'[x] = heads[x]
          BY <2>1, <2>4, <3>2
        <4> QED
          BY <2>1, <4>1, LogUnchanged DEF IInv, HeadsLive, StandsAt
      <3> QED
        BY <3>1, <3>2
    <2> QED
      BY <2>1, <2>5, <2>6, LogUnchanged DEF IInv
  <1>4. ASSUME NEW o \in Owner, get_clauses(o) \/ get_vector_none(o)
        PROVE  IInv'
    <2>1. UNCHANGED <<vectors, tail, heads, atEnd, adding, got, log, lap>>
      BY <1>4 DEF get_clauses, get_vector_none
    <2>2. mux' \in Owner \cup {NoOwner} /\ adding = <<>>
      BY <1>4 DEF get_clauses, get_vector_none, IInv, TypeOK
    <2>3. TypeOK'
      BY <2>1, <2>2 DEF IInv, TypeOK
    <2>4. HeadsLive'
      BY <2>1, LogUnchanged DEF IInv, HeadsLive, StandsAt
    <2> QED
      BY <2>1, <2>3, <2>4, LogUnchanged DEF IInv
  <1>5. ASSUME NEW o \in Owner, get_vector(o)
        PROVE  IInv'
    <2>1. /\ UNCHANGED <<vectors, tail, mux, adding, log, lap>> /\ adding = <<>>
          /\ heads[o] # tail \/ ~atEnd[o]
          /\ heads' = [heads EXCEPT ![o] = next(heads[o])]
          /\ atEnd' = [atEnd EXCEPT ![o] = (next(heads[o]) = tail)]
      BY <1>5 DEF get_vector
    <2>2. PICK k \in 1 .. Len(log) : StandsAt(o, k)
      BY <2>1, ReaderStands
    <2>3. next(heads[o]) \in 0 .. Size - 1
      BY <2>2, HeadGoesOn
    <2>4. heads \in [Owner -> 0 .. Size - 1] /\ atEnd \in [Owner -> BOOLEAN]
      BY DEF IInv, TypeOK
    <2>5. got' \in [Owner -> Seq([owner : Nat, lits : Seq(Nat)])]
      <3>1. got \in [Owner -> Seq([owner : Nat, lits : Seq(Nat)])]
        BY DEF IInv, TypeOK
      <3>2. VectorAt(heads[o]) = [owner |-> log[k].owner, lits |-> log[k].lits]
        BY <2>2, ReadsEntry DEF StandsAt
      <3>3. log[k].owner \in Nat /\ log[k].lits \in Seq(Nat)
        BY EntryFacts, VectorFacts DEF IInv
      <3>4. VectorAt(heads[o]) \in [owner : Nat, lits : Seq(Nat)]
        BY <3>2, <3>3, SMTT(30)
      <3>5. <<VectorAt(heads[o])>> \in Seq([owner : Nat, lits : Seq(Nat)])
        BY <3>4, SMTT(30)
      <3>6. got' = got \/ got' = [got EXCEPT ![o] = <<VectorAt(heads[o])>>]
        BY <1>5 DEF get_vector
      <3> QED
        BY <3>1, <3>5, <3>6
    <2>6. TypeOK'
      <3>1. heads' \in [Owner -> 0 .. Size - 1] /\ atEnd' \in [Owner -> BOOLEAN]
        BY <2>1, <2>3, <2>4
      <3> QED
        BY <2>1, <2>5, <3>1 DEF IInv, TypeOK
    <2>7. HeadsLive'
      <3> SUFFICES ASSUME NEW x \in Owner
                   PROVE  /\ atEnd'[x] => heads'[x] = tail'
                          /\ heads'[x] = tail' \/ \E j \in 1 .. Len(log') : StandsAt(x, j)'
                          /\ ~atEnd'[x] => \E j \in 1 .. Len(log') : StandsAt(x, j)'
        BY <2>1 DEF HeadsLive
      <3>1. CASE x = o
        <4>1. heads'[x] = next(heads[o]) /\ atEnd'[x] = (next(heads[o]) = tail)
          BY <2>1, <2>4, <3>1
        <4>2. heads'[x] = tail \/ \E j \in 1 .. Len(log) : Live(j) /\ log[j].at = heads'[x]
          BY <2>2, <4>1, HeadGoesOn
        <4> QED
          BY <2>1, <4>1, <4>2, LogUnchanged DEF StandsAt
      <3>2. CASE x # o
        <4>1. heads'[x] = heads[x] /\ atEnd'[x] = atEnd[x]
          BY <2>1, <2>4, <3>2
        <4> QED
          BY <2>1, <4>1, LogUnchanged DEF IInv, HeadsLive, StandsAt
      <3> QED
        BY <3>1, <3>2
    <2> QED
      BY <2>1, <2>6, <2>7, LogUnchanged DEF IInv
  <1>6. CASE UNCHANGED vars
    <2>1. TypeOK'
      BY <1>6 DEF IInv, TypeOK, vars
    <2>2. HeadsLive'
      BY <1>6, LogUnchanged DEF IInv, HeadsLive, StandsAt, vars
    <2> QED
      BY <1>6, <2>1, <2>2, LogUnchanged DEF IInv, vars
  <1> QED
    BY <1>1, <1>2, <1>3, <1>4, <1>5, <1>6 DEF Next, Step

\* The clause pool keeps its invariant, whatever the clauses, the size of the
\* ring and the interleaving of the threads.
THEOREM PoolInvariant == Spec => []IInv
  BY PoolInit, PoolStep, PTL DEF Spec

\* Every field of the pool has its type; in particular no head and no tail leaves
\* the ring.
THEOREM PoolTypes == Spec => []TypeOK
  <1>1. IInv => TypeOK
    BY DEF IInv
  <1> QED
    BY <1>1, PoolInvariant, PTL

\* Whatever a reader is about to read is a whole vector as it was shared: the
\* heads that begin_add_vector moves never end up inside a vector or on one that
\* is overwritten.
THEOREM HeadsAlwaysAligned == Spec => []HeadsAligned
  <1>1. ASSUME IInv
        PROVE  HeadsAligned
    <2> SUFFICES ASSUME NEW o \in Owner, heads[o] # tail \/ ~atEnd[o],
                        adding # <<>> => heads[o] # tail
                 PROVE  \E k \in 1 .. Len(log) :
                          /\ Live(k) /\ log[k].at = heads[o]
                          /\ VectorAt(heads[o]) = [owner |-> log[k].owner, lits |-> log[k].lits]
      BY DEF HeadsAligned
    <2>1. PICK k \in 1 .. Len(log) : StandsAt(o, k)
      BY <1>1 DEF IInv, HeadsLive
    <2>2. VectorAt(log[k].at) = [owner |-> log[k].owner, lits |-> log[k].lits]
      BY <1>1, <2>1, ReadsEntry DEF StandsAt
    <2> QED
      BY <2>1, <2>2 DEF StandsAt
  <1> QED
    BY <1>1, PoolInvariant, PTL

-----------------------------------------------------------------------------
(* The pool implements the lossy log.                                      *)

BarLog == [k \in 1 .. Len(log) |-> [owner |-> log[k].owner, lits |-> log[k].lits]]
BarPos == [o \in Owner |-> Pos(o)]

\* A reader that stands at entry k, and does not wait at the tail, is through
\* with the entries before k.
LEMMA PosOfReader ==
    ASSUME IInv, NEW o \in Owner, ~atEnd[o], adding # <<>> => heads[o] # tail,
           NEW k \in 1 .. Len(log), StandsAt(o, k)
    PROVE  Pos(o) = k - 1
  <1>1. Live(k) /\ log[k].at = heads[o]
    BY DEF StandsAt
  <1>2. \A j \in 1 .. Len(log) : Live(j) /\ log[j].at = heads[o] => j = k
    BY <1>1, LiveUnique
  <1>3. (CHOOSE j \in 1 .. Len(log) : Live(j) /\ log[j].at = heads[o]) = k
    BY <1>1, <1>2
  <1> QED
    BY <1>3 DEF Pos

\* The position of a reader is a position of the log.
LEMMA PosInLog ==
    ASSUME IInv, NEW o \in Owner
    PROVE  Pos(o) \in 0 .. Len(log)
  <1>1. Len(log) \in Nat
    BY PoolNumbers DEF IInv
  <1>2. CASE atEnd[o] \/ (adding # <<>> /\ heads[o] = tail)
    BY <1>1, <1>2, SMTT(30) DEF Pos
  <1>3. CASE ~atEnd[o] /\ (adding # <<>> => heads[o] # tail)
    <2>1. PICK k \in 1 .. Len(log) : StandsAt(o, k)
      BY <1>3 DEF IInv, HeadsLive
    <2>2. Pos(o) = k - 1
      BY <1>3, <2>1, PosOfReader
    <2> QED
      BY <1>1, <2>2, SMTT(30)
  <1> QED
    BY <1>2, <1>3

PosFacts ==
    \A o \in Owner :
        /\ Pos(o) \in 0 .. Len(log)
        /\ \A k \in 1 .. Len(log) :
              ~atEnd[o] /\ (adding # <<>> => heads[o] # tail) /\ StandsAt(o, k) => Pos(o) = k - 1

\* The two lemmas together, in a form that also speaks of the next state.
LEMMA PosKnown == IInv => PosFacts
  BY PosInLog, PosOfReader DEF PosFacts

\* Steps that move no position backwards and change neither the log nor what was
\* read are losses of the lossy log, or nothing.
LEMMA ForwardIsLoss ==
    ASSUME IInv, IInv', UNCHANGED <<log, got>>, \A o \in Owner : Pos(o) <= Pos(o)'
    PROVE  L!Lose
  <1>0. PosFacts'
    BY PosKnown, PTL
  <1>1. BarPos' \in [Owner -> 0 .. Len(BarLog')]
    <2>1. Len(BarLog') = Len(log')
      <3>1. Len(log') \in Nat
        BY PoolNumbers DEF IInv
      <3> QED
        BY <3>1, SMTT(30) DEF BarLog
    <2>2. \A o \in Owner : Pos(o)' \in 0 .. Len(log')
      BY <1>0 DEF PosFacts
    <2> QED
      BY <2>1, <2>2 DEF BarPos
  <1>2. \A o \in Owner : BarPos[o] <= BarPos'[o]
    BY DEF BarPos
  <1>3. BarLog' = BarLog
    BY DEF BarLog
  <1> QED
    BY <1>1, <1>2, <1>3 DEF L!Lose, L!Forward, BarLog, BarPos

\* A reader whose head is not moved keeps its position.
LEMMA SamePos ==
    ASSUME IInv, IInv', UNCHANGED <<tail, adding, log, lap>>, NEW x \in Owner,
           heads'[x] = heads[x], atEnd'[x] = atEnd[x]
    PROVE  Pos(x)' = Pos(x)
  <1>1. PosFacts /\ PosFacts'
    BY PosKnown, PTL
  <1>2. CASE atEnd[x] \/ (adding # <<>> /\ heads[x] = tail)
    BY <1>2 DEF Pos
  <1>3. CASE ~atEnd[x] /\ (adding # <<>> => heads[x] # tail)
    <2>1. PICK k \in 1 .. Len(log) : StandsAt(x, k)
      BY <1>3 DEF IInv, HeadsLive
    <2>2. StandsAt(x, k)'
      BY <2>1 DEF StandsAt, Live
    <2> QED
      BY <1>1, <1>3, <2>1, <2>2 DEF PosFacts
  <1> QED
    BY <1>2, <1>3

\* begin_add_vector loses what a reader a whole lap behind has not read.
LEMMA BeginLoses ==
    ASSUME IInv, IInv', NEW o \in Owner, NEW v \in Vector, begin_add_vector(o, v)
    PROVE  L!Lose
  <1>1. UNCHANGED <<vectors, tail, heads, atEnd, got, log, lap>> /\ adding = <<>>
    <2>1. mux = NoOwner
      BY DEF begin_add_vector
    <2>2. adding = <<>>
      BY <2>1 DEF IInv, TypeOK
    <2> QED
      BY <2>2 DEF begin_add_vector
  <1>2. PosFacts /\ PosFacts'
    BY PosKnown, PTL
  <1>3. Len(log) \in Nat
    BY PoolNumbers DEF IInv
  <1>4. ASSUME NEW x \in Owner
        PROVE  Pos(x) <= Pos(x)'
    <2>1. Pos(x) \in 0 .. Len(log)
      BY <1>2 DEF PosFacts
    <2>2. CASE atEnd'[x] \/ (adding' # <<>> /\ heads'[x] = tail')
      <3>1. Pos(x)' = Len(log)
        BY <1>1, <2>2 DEF Pos
      <3> QED
        BY <1>3, <2>1, <3>1, SMTT(30)
    <2>3. CASE ~atEnd'[x] /\ ~(adding' # <<>> /\ heads'[x] = tail')
      <3>1. Pos(x)' = Pos(x)
        BY <1>1, <2>3, SMTT(30) DEF Pos, Live
      <3> QED
        BY <1>3, <2>1, <3>1, SMTT(30)
    <2> QED
      BY <2>2, <2>3
  <1> QED
    BY <1>1, <1>4, ForwardIsLoss

\* A reader that comes to the tail has read the last entry: no live entry after
\* the one it read begins there.
LEMMA TailIsLast ==
    ASSUME IInv, NEW k \in 1 .. Len(log), k < Len(log), k + 1 \in 1 .. Len(log),
           Live(k), Live(k + 1)
    PROVE  log[k + 1].at # tail
  <1>1. /\ log[k].lap \in Nat /\ log[k + 1].lap \in Nat
        /\ log[k].at \in Nat /\ log[k + 1].at \in Nat
        /\ End(k) \in Nat /\ End(k + 1) \in Nat
        /\ log[k].at < End(k) /\ log[k + 1].at < End(k + 1)
    BY EntryFacts, SMTT(30) DEF IInv
  <1>2. log[k + 1].lap = lap => End(k + 1) <= tail
    BY DEF IInv, BeforeTail
  <1>3. log[k].lap < log[k + 1].lap \/ (log[k].lap = log[k + 1].lap /\ End(k) <= log[k + 1].at)
    BY SMTT(30) DEF IInv, Ordered
  <1>4. lap \in Nat /\ tail \in Nat
    BY PoolNumbers DEF IInv
  <1>5. /\ log[k].lap = lap \/ (log[k].lap + 1 = lap /\ tail <= log[k].at)
        /\ log[k + 1].lap = lap \/ (log[k + 1].lap + 1 = lap /\ tail <= log[k + 1].at)
    BY DEF Live
  <1> DEFINE a == log[k].at
             b == log[k + 1].at
             l == log[k].lap
             m == log[k + 1].lap
             e == End(k)
             f == End(k + 1)
  <1>6. /\ l \in Nat /\ m \in Nat /\ a \in Nat /\ b \in Nat /\ e \in Nat /\ f \in Nat
        /\ a < e /\ b < f /\ lap \in Nat /\ tail \in Nat
        /\ (m = lap => f <= tail) /\ (l < m \/ (l = m /\ e <= b))
        /\ (l = lap \/ (l + 1 = lap /\ tail <= a))
        /\ (m = lap \/ (m + 1 = lap /\ tail <= b))
    BY <1>1, <1>2, <1>3, <1>4, <1>5
  <1> HIDE DEF a, b, l, m, e, f
  <1>7. b # tail
    BY <1>6, SMTT(30)
  <1> QED
    BY <1>7 DEF b

\* move_head takes a reader past one entry, the one at which its head stands, and
\* leaves all other readers where they are.
LEMMA MovePos ==
    ASSUME IInv, IInv', NEW o \in Owner, move_head(o)
    PROVE  /\ \A x \in Owner : x # o => Pos(x)' = Pos(x)
           /\ \E k \in 1 .. Len(log) : StandsAt(o, k) /\ Pos(o) = k - 1 /\ Pos(o)' = k
  <1>1. /\ UNCHANGED <<vectors, tail, atEnd, mux, adding, got, log, lap>>
        /\ adding # <<>> /\ Overtaken(o) /\ heads' = [heads EXCEPT ![o] = next(heads[o])]
    BY DEF move_head
  <1>2. PosFacts /\ PosFacts'
    BY PosKnown, PTL
  <1>3. Len(log) \in Nat /\ heads \in [Owner -> 0 .. Size - 1]
    BY PoolNumbers DEF IInv, TypeOK
  <1>4. PICK k \in 1 .. Len(log) : StandsAt(o, k)
    BY <1>1, OvertakenStands
  <1>5. heads[o] # tail /\ ~atEnd[o]
    BY <1>1, PoolNumbers, SMTT(30) DEF IInv, HeadsLive, Overtaken
  <1>6. Pos(o) = k - 1
    BY <1>2, <1>4, <1>5 DEF PosFacts
  <1>7. heads'[o] = next(heads[o])
    BY <1>1, <1>3
  <1>8. Pos(o)' = k
    <2>1. CASE k = Len(log)
      <3>1. heads'[o] = tail
        BY <1>3, <1>4, <1>7, <2>1, HeadGoesOn, SMTT(30)
      <3> QED
        BY <1>1, <2>1, <3>1 DEF Pos
    <2>2. CASE k < Len(log)
      <3>1. PICK j \in 1 .. Len(log) : j = k + 1
        BY <1>3, <2>2, SMTT(30)
      <3>2. Live(k) /\ Live(j) /\ log[j].at = heads'[o]
        BY <1>4, <1>7, <2>2, <3>1, HeadGoesOn, SMTT(30) DEF StandsAt
      <3>3. heads'[o] # tail
        BY <2>2, <3>1, <3>2, TailIsLast
      <3>4. StandsAt(o, j)'
        BY <1>1, <3>2 DEF StandsAt, Live
      <3>5. Pos(o)' = j - 1
        BY <1>1, <1>2, <1>5, <3>3, <3>4 DEF PosFacts
      <3> QED
        BY <3>1, <3>5, SMTT(30)
    <2> QED
      BY <1>3, <2>1, <2>2, SMTT(30)
  <1>9. ASSUME NEW x \in Owner, x # o
        PROVE  Pos(x)' = Pos(x)
    <2>1. heads'[x] = heads[x]
      BY <1>1, <1>3, <1>9
    <2> QED
      BY <1>1, <2>1, SamePos
  <1> QED
    BY <1>4, <1>6, <1>8, <1>9

\* move_head loses the entry that will be overwritten.
LEMMA MoveLoses ==
    ASSUME IInv, IInv', NEW o \in Owner, move_head(o)
    PROVE  L!Lose
  <1>1. UNCHANGED <<got, log>>
    BY DEF move_head
  <1>2. ASSUME NEW x \in Owner
        PROVE  Pos(x) <= Pos(x)'
    <2>1. Pos(x) \in Nat
      BY PosInLog, SMTT(30)
    <2>2. CASE x # o
      BY <2>1, <2>2, MovePos, SMTT(30)
    <2>3. CASE x = o
      BY <2>3, MovePos, SMTT(30)
    <2> QED
      BY <2>2, <2>3
  <1> QED
    BY <1>1, <1>2, ForwardIsLoss

\* add_vector leaves every reader where it is in the log: one that stands at the tail
\* has the new entry before it, and the others keep the entry they stand at.
LEMMA AddKeepsPos ==
    ASSUME IInv, IInv', add_vector, NEW x \in Owner
    PROVE  Pos(x)' = Pos(x)
  <1>1. PosFacts /\ PosFacts'
    BY PosKnown, PTL
  <1>2. Len(log) \in Nat /\ Len(log') = Len(log) + 1
    BY PoolNumbers, AddedEntry DEF IInv
  <1>3. adding # <<>> /\ adding' = <<>> /\ heads' = heads /\ \A y \in Owner : atEnd'[y] = FALSE
    BY DEF add_vector
  <1>4. CASE heads[x] = tail
    <2>1. Pos(x) = Len(log)
      BY <1>3, <1>4 DEF Pos
    <2>2. PICK k \in 1 .. Len(log') : k = Len(log) + 1
      BY <1>2, SMTT(30)
    <2>3. Live(k)' /\ log'[k].at = tail
      BY <1>2, <2>2, LiveAfterAdd, AddedEntry, SMTT(30)
    <2>4. StandsAt(x, k)'
      BY <1>3, <1>4, <2>3 DEF StandsAt
    <2>5. Pos(x)' = k - 1
      BY <1>1, <1>3, <2>4 DEF PosFacts
    <2> QED
      BY <1>2, <2>1, <2>2, <2>5, SMTT(30)
  <1>5. CASE heads[x] # tail
    <2>1. PICK k \in 1 .. Len(log) : StandsAt(x, k)
      BY <1>5 DEF IInv, HeadsLive
    <2>2. Pos(x) = k - 1
      <3>1. ~atEnd[x]
        BY <1>5 DEF IInv, HeadsLive
      <3> QED
        BY <1>1, <1>5, <2>1, <3>1 DEF PosFacts
    <2>3. k \in 1 .. Len(log') /\ StandsAt(x, k)'
      BY <1>2, <1>3, <1>5, <2>1, HeadSurvives, AddedEntry, SMTT(30) DEF StandsAt
    <2>4. Pos(x)' = k - 1
      BY <1>1, <1>3, <2>3 DEF PosFacts
    <2> QED
      BY <2>2, <2>4
  <1> QED
    BY <1>4, <1>5

\* add_vector shares a clause: no reader loses its place.
LEMMA AddShares ==
    ASSUME IInv, IInv', add_vector
    PROVE  L!Share
  <1>1. PosFacts /\ PosFacts'
    BY PosKnown, PTL
  <1>2. Len(log) \in Nat /\ Len(log') = Len(log) + 1
    BY PoolNumbers, AddedEntry DEF IInv
  <1>3. /\ adding # <<>> /\ adding' = <<>> /\ heads' = heads /\ got' = got
        /\ \A x \in Owner : atEnd'[x] = FALSE
    BY DEF add_vector
  <1>4. ASSUME NEW x \in Owner
        PROVE  Pos(x) <= Pos(x)'
    <2>1. Pos(x) \in Nat
      BY PosInLog, SMTT(30)
    <2> QED
      BY <2>1, AddKeepsPos, SMTT(30)
  <1>5. BarLog' = Append(BarLog, [owner |-> mux, lits |-> adding])
    <2> DEFINE r == [owner |-> mux, lits |-> adding]
               n == Len(log)
    <2>1. BarLog' = [k \in 1 .. n + 1 |-> IF k = n + 1 THEN r ELSE BarLog[k]]
      <3>1. ASSUME NEW k \in 1 .. n + 1
            PROVE  [owner |-> log'[k].owner, lits |-> log'[k].lits]
                      = IF k = n + 1 THEN r ELSE BarLog[k]
        <4>1. CASE k = n + 1
          BY <4>1, AddedEntry, SMTT(30)
        <4>2. CASE k # n + 1
          <5>1. k \in 1 .. Len(log)
            BY <1>2, <4>2, SMTT(30)
          <5> QED
            BY <4>2, <5>1, AddedEntry DEF BarLog
        <4> QED
          BY <4>1, <4>2
      <3> QED
        BY <1>2, <3>1 DEF BarLog
    <2>2. Append(BarLog, r) = [k \in 1 .. n + 1 |-> IF k = n + 1 THEN r ELSE BarLog[k]]
      <3> DEFINE S == {BarLog[k] : k \in 1 .. n} \cup {r}
                 t == Append(BarLog, r)
      <3>1. BarLog \in Seq(S) /\ Len(BarLog) = n /\ r \in S
        BY <1>2, SMTT(30) DEF BarLog
      <3> HIDE DEF r, S, n
      <3>2. /\ t \in Seq(S) /\ Len(t) = n + 1 /\ t[n + 1] = r
            /\ \A k \in 1 .. n : t[k] = BarLog[k]
        BY <1>2, <3>1, SMTT(30)
      <3> HIDE DEF t
      <3>3. t = [k \in 1 .. n + 1 |-> t[k]]
        BY <3>2, SMTT(30)
      <3>4. n \in Nat
        BY <1>2 DEF n
      <3>5. \A k \in 1 .. n + 1 : t[k] = IF k = n + 1 THEN r ELSE BarLog[k]
        BY <3>2, <3>4, SMTT(30)
      <3> QED
        BY <3>3, <3>5 DEF t
    <2> QED
      BY <2>1, <2>2
  <1>6. Len(BarLog') = Len(log')
    BY <1>2, SMTT(30) DEF BarLog
  <1>7. BarPos' \in [Owner -> 0 .. Len(BarLog')]
    BY <1>1, <1>6 DEF BarPos, PosFacts
  <1>8. \A x \in Owner : BarPos[x] <= BarPos'[x]
    BY <1>4 DEF BarPos
  <1>9. mux \in Owner /\ adding \in Vector
    BY AddedEntry
  <1> QED
    BY <1>3, <1>5, <1>7, <1>8, <1>9 DEF L!Share, L!Forward, BarLog, BarPos

\* get_vector reads the next entry of the log.
LEMMA GetReads ==
    ASSUME IInv, IInv', NEW o \in Owner, get_vector(o)
    PROVE  L!Read(o)
  <1>1. /\ UNCHANGED <<vectors, tail, mux, adding, log, lap>> /\ adding = <<>>
        /\ heads[o] # tail \/ ~atEnd[o]
        /\ heads' = [heads EXCEPT ![o] = next(heads[o])]
        /\ atEnd' = [atEnd EXCEPT ![o] = (next(heads[o]) = tail)]
        /\ got' = IF vectors[heads[o]] = o THEN got
                  ELSE [got EXCEPT ![o] = <<VectorAt(heads[o])>>]
    BY DEF get_vector
  <1>2. heads \in [Owner -> 0 .. Size - 1] /\ atEnd \in [Owner -> BOOLEAN] /\ Len(log) \in Nat
    BY PoolNumbers DEF IInv, TypeOK
  <1>3. PosFacts /\ PosFacts'
    BY PosKnown, PTL
  <1>4. PICK k \in 1 .. Len(log) : StandsAt(o, k)
    BY <1>1, ReaderStands
  <1>5. Pos(o) = k - 1
    BY <1>1, <1>3, <1>4, ReaderStands DEF PosFacts
  <1>6. heads'[o] = next(heads[o]) /\ atEnd'[o] = (next(heads[o]) = tail)
    BY <1>1, <1>2
  <1>7. Pos(o)' = k
    <2>1. CASE k = Len(log)
      <3>1. next(heads[o]) = tail
        BY <1>2, <1>4, <2>1, HeadGoesOn, SMTT(30)
      <3>2. atEnd'[o]
        BY <1>6, <3>1
      <3> QED
        BY <1>1, <2>1, <3>2 DEF Pos
    <2>2. CASE k < Len(log)
      <3>1. PICK j \in 1 .. Len(log) : j = k + 1
        BY <1>2, <2>2, SMTT(30)
      <3>2. Live(k) /\ Live(j) /\ log[j].at = next(heads[o])
        BY <1>4, <2>2, <3>1, HeadGoesOn, SMTT(30) DEF StandsAt
      <3>3. next(heads[o]) # tail
        BY <2>2, <3>1, <3>2, TailIsLast
      <3>4. StandsAt(o, j)'
        BY <1>1, <1>6, <3>2 DEF StandsAt, Live
      <3>5. Pos(o)' = j - 1
        BY <1>1, <1>3, <1>6, <3>3, <3>4 DEF PosFacts
      <3> QED
        BY <1>2, <3>1, <3>5, SMTT(30)
    <2> QED
      BY <1>2, <2>1, <2>2, SMTT(30)
  <1>8. ASSUME NEW x \in Owner, x # o
        PROVE  Pos(x)' = Pos(x)
    <2>1. heads'[x] = heads[x] /\ atEnd'[x] = atEnd[x]
      BY <1>1, <1>2, <1>8
    <2> QED
      BY <1>1, <2>1, SamePos
  <1>9. BarPos' = [BarPos EXCEPT ![o] = BarPos[o] + 1]
    <2>1. BarPos[o] + 1 = k
      BY <1>2, <1>5, SMTT(30) DEF BarPos
    <2> QED
      BY <1>7, <1>8, <2>1 DEF BarPos
  <1>10. BarPos[o] + 1 = k /\ BarPos[o] < Len(BarLog) /\ BarLog' = BarLog
    BY <1>1, <1>2, <1>5, SMTT(30) DEF BarPos, BarLog
  <1>11. /\ BarLog[k] = VectorAt(heads[o]) /\ BarLog[k].owner = vectors[heads[o]]
    BY <1>4, ReadsEntry DEF BarLog, StandsAt
  <1>12. got' = IF BarLog[BarPos[o] + 1].owner = o THEN got
                ELSE [got EXCEPT ![o] = <<BarLog[BarPos[o] + 1]>>]
    BY <1>1, <1>10, <1>11
  <1> QED
    BY <1>9, <1>10, <1>12 DEF L!Read, BarLog, BarPos

\* The pool implements the lossy log: whatever the size of the ring and however
\* far the writers are ahead, get_vector gives a solver clauses that others have
\* shared, whole, in the order they were shared and none twice.
THEOREM PoolRefines == Spec => Refines
  <1>1. Init => L!Init
    <2> SUFFICES ASSUME Init
                 PROVE  L!Init
      OBVIOUS
    <2>1. log = <<>> /\ Len(log) = 0 /\ \A o \in Owner : Pos(o) = 0
      BY DEF Init, Pos
    <2>2. BarLog = <<>>
      BY <2>1, SMTT(30) DEF BarLog
    <2>3. BarPos = [o \in Owner |-> 0]
      BY <2>1 DEF BarPos
    <2> QED
      BY <2>2, <2>3 DEF Init, L!Init, BarLog, BarPos
  <1>2. ASSUME IInv, IInv', [Next]_vars
        PROVE  [L!Next]_(L!vars)
    <2>1. CASE add_vector
      BY <1>2, <2>1, AddShares DEF L!Next
    <2>2. ASSUME NEW o \in Owner, NEW v \in Vector, begin_add_vector(o, v)
          PROVE  L!Next
      BY <1>2, <2>2, BeginLoses DEF L!Next
    <2>3. ASSUME NEW o \in Owner, move_head(o)
          PROVE  L!Next
      BY <1>2, <2>3, MoveLoses DEF L!Next
    <2>4. ASSUME NEW o \in Owner, get_vector(o)
          PROVE  L!Next
      BY <1>2, <2>4, GetReads DEF L!Next
    <2>5. ASSUME UNCHANGED <<tail, heads, atEnd, adding, got, log, lap>>
          PROVE  L!Next
      <3>1. \A x \in Owner : Pos(x)' = Pos(x)
        BY <1>2, <2>5, SamePos
      <3>2. \A x \in Owner : Pos(x) \in Nat
        BY <1>2, PosInLog, SMTT(30)
      <3> QED
        BY <1>2, <2>5, <3>1, <3>2, ForwardIsLoss, SMTT(30) DEF L!Next
    <2>6. ASSUME NEW o \in Owner, get_clauses(o) \/ get_vector_none(o)
          PROVE  L!Next
      BY <2>5, <2>6 DEF get_clauses, get_vector_none
    <2>7. CASE UNCHANGED vars
      BY <2>5, <2>7 DEF vars
    <2> QED
      BY <1>2, <2>1, <2>2, <2>3, <2>4, <2>6, <2>7 DEF Next, Step
  <1> QED
    BY <1>1, <1>2, PoolInvariant, PTL DEF Spec, Refines, L!Spec

-----------------------------------------------------------------------------
(* What a reader loses.                                                    *)

\* Entry k is passed over by o, which was not exactly a lap behind.
Passed(o, k) == /\ Pos(o) < k /\ k <= Pos(o)'
                /\ ~(heads[o] = tail /\ mux = NoOwner)

\* It is read, or it lies where the new vector will be written.
ReadOrOverwritten(o, k) ==
    \/ mux = o /\ adding = <<>>
    \/ adding # <<>> /\ tail <= log[k].at /\ log[k].at < tail + Len(adding) + 2

\* A reader that keeps its position passes over nothing.
LEMMA NothingPassed ==
    ASSUME IInv, NEW o \in Owner, NEW k \in 1 .. Len(log), Pos(o)' = Pos(o)
    PROVE  ~Passed(o, k)
  <1>1. Pos(o) \in Nat
    BY PosInLog, SMTT(30)
  <1>2. k \in Nat
    BY SMTT(30)
  <1> QED
    BY <1>1, <1>2, SMTT(30) DEF Passed

\* A writer that begins leaves the readers where they are, but for those at the tail.
LEMMA BeginKeepsPos ==
    ASSUME IInv, NEW o \in Owner, NEW v \in Vector, begin_add_vector(o, v),
           NEW x \in Owner, heads[x] # tail
    PROVE  Pos(x)' = Pos(x)
  <1>1. UNCHANGED <<tail, heads, atEnd, log, lap>>
    BY DEF begin_add_vector
  <1>2. Pos(x)' = IF atEnd[x] THEN Len(log)
                  ELSE (CHOOSE k \in 1 .. Len(log) : Live(k) /\ log[k].at = heads[x]) - 1
    BY <1>1, SMTT(30) DEF Pos, Live
  <1>3. Pos(x) = IF atEnd[x] THEN Len(log)
                 ELSE (CHOOSE k \in 1 .. Len(log) : Live(k) /\ log[k].at = heads[x]) - 1
    BY SMTT(30) DEF Pos
  <1> QED
    BY <1>2, <1>3, SMTT(30)

\* A reader loses a clause only because it is overwritten, but for a reader exactly a
\* lap behind: begin_add_vector moves a head past the vectors on which the new one
\* will be written and past no other, whatever the size of the ring and however
\* vectors of different lengths lie in it.
THEOREM OnlyOverwrittenLost == Spec => LosesOnlyOverwritten
  <1> DEFINE A == \A o \in Owner, k \in 1 .. Len(log) : Passed(o, k) => ReadOrOverwritten(o, k)
  <1>1. ASSUME IInv, IInv', Next
        PROVE  A
    <2> SUFFICES ASSUME NEW x \in Owner, NEW k \in 1 .. Len(log), Passed(x, k)
                 PROVE  ReadOrOverwritten(x, k)
      OBVIOUS
    <2>1. CASE add_vector
      BY <1>1, <2>1, AddKeepsPos, NothingPassed
    <2>2. ASSUME NEW o \in Owner, NEW v \in Vector, begin_add_vector(o, v)
          PROVE  ReadOrOverwritten(x, k)
      <3>1. heads[x] # tail
        BY <2>2 DEF begin_add_vector, Passed
      <3> QED
        BY <1>1, <2>2, <3>1, BeginKeepsPos, NothingPassed
    <2>3. ASSUME NEW o \in Owner, move_head(o)
          PROVE  ReadOrOverwritten(x, k)
      <3>1. x = o
        BY <1>1, <2>3, MovePos, NothingPassed
      <3>2. PICK j \in 1 .. Len(log) : StandsAt(o, j) /\ Pos(o) = j - 1 /\ Pos(o)' = j
        BY <1>1, <2>3, MovePos
      <3>3. k = j
        BY <3>1, <3>2, SMTT(30) DEF Passed
      <3>4. adding # <<>> /\ tail < heads[o] /\ heads[o] < tail + Len(adding) + 2
        BY <2>3 DEF move_head, Overtaken
      <3>5. log[k].at = heads[o] /\ tail \in Nat /\ heads[o] \in Nat
        BY <1>1, <3>2, <3>3, PoolNumbers DEF StandsAt, IInv, TypeOK
      <3> QED
        BY <3>4, <3>5, SMTT(30) DEF ReadOrOverwritten
    <2>4. ASSUME NEW o \in Owner, get_vector(o)
          PROVE  ReadOrOverwritten(x, k)
      <3>1. CASE x = o
        BY <2>4, <3>1 DEF get_vector, ReadOrOverwritten
      <3>2. CASE x # o
        <4>1. heads \in [Owner -> 0 .. Size - 1] /\ atEnd \in [Owner -> BOOLEAN]
          BY <1>1 DEF IInv, TypeOK
        <4>2. /\ UNCHANGED <<tail, adding, log, lap>>
              /\ heads' = [heads EXCEPT ![o] = next(heads[o])]
              /\ atEnd' = [atEnd EXCEPT ![o] = (next(heads[o]) = tail)]
          BY <2>4 DEF get_vector
        <4>3. heads'[x] = heads[x] /\ atEnd'[x] = atEnd[x]
          BY <3>2, <4>1, <4>2
        <4> QED
          BY <1>1, <4>2, <4>3, SamePos, NothingPassed
      <3> QED
        BY <3>1, <3>2
    <2>5. ASSUME NEW o \in Owner, get_clauses(o) \/ get_vector_none(o)
          PROVE  ReadOrOverwritten(x, k)
      <3>1. UNCHANGED <<tail, heads, atEnd, adding, log, lap>>
        BY <2>5 DEF get_clauses, get_vector_none
      <3> QED
        BY <1>1, <3>1, SamePos, NothingPassed
    <2> QED
      BY <1>1, <2>1, <2>2, <2>3, <2>4, <2>5 DEF Next, Step
  <1>2. IInv /\ IInv' /\ [Next]_vars => [A]_vars
    BY <1>1
  <1>3. [][A]_vars => LosesOnlyOverwritten
    BY DEF LosesOnlyOverwritten, Passed, ReadOrOverwritten
  <1> HIDE DEF A
  <1> QED
    BY <1>2, <1>3, PoolInvariant, PTL DEF Spec
=============================================================================

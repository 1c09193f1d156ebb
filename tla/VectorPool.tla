----------------------------- MODULE VectorPool -----------------------------
(***************************************************************************)
(* The pool in which the threads of the parallel SAT solver exchange        *)
(* clauses (sat::parallel::vector_pool, sat/sat_parallel.cpp): one ring      *)
(* buffer of unsigned cells, in which a vector is its owner, its length and *)
(* its elements, and one head per reader.  A vector may run over the end of *)
(* the ring; the buffer is longer than the ring for that.  The writer       *)
(* overwrites what slow readers have not read, and first moves their heads. *)
(*                                                                         *)
(* share_clause and get_clauses hold the mutex throughout.  The loops that  *)
(* they run under it are modelled one iteration at a time.                  *)
(***************************************************************************)
EXTENDS Naturals, Sequences

CONSTANTS Owner,       \* the threads: the values of m_par_id
          Vector,      \* the clauses that are shared: sequences of literal indices
          Size,        \* m_size
          MaxLen,      \* bound: the longest clause that is shared
          MaxShare,    \* bound: how many clauses are shared
          NoOwner      \* the mutex is free

ASSUME PoolAssumption ==
    /\ Owner \subseteq Nat /\ NoOwner \notin Owner
    /\ Vector \subseteq Seq(Nat) /\ Size \in Nat \ {0} /\ MaxLen \in Nat
    /\ \A v \in Vector : v # <<>> /\ Len(v) <= MaxLen
    /\ MaxShare \in Nat

VARIABLES
    vectors,    \* m_vectors
    tail,       \* m_tail
    heads,      \* m_heads
    atEnd,      \* m_at_end
    mux,        \* who holds m_mux
    adding,     \* the clause being added; <<>> when the holder reads
    got,        \* the last clause each thread was given, <<>> at first
    log,        \* history: every clause shared, with its place in the buffer
    lap         \* history: how often the tail went back to 0

vars == <<vectors, tail, heads, atEnd, mux, adding, got, log, lap>>

Cell == 0 .. Size + MaxLen + 1

Init ==
    /\ vectors = [c \in Cell |-> 0] /\ tail = 0
    /\ heads = [o \in Owner |-> 0] /\ atEnd = [o \in Owner |-> TRUE]
    /\ mux = NoOwner /\ adding = <<>>
    /\ got = [o \in Owner |-> <<>>] /\ log = <<>> /\ lap = 0

\* Mutant: a vector that ends exactly at the end of the ring does not wrap.
Wrap_OffByOne(n) == IF n > Size THEN 0 ELSE n

Wrap(n) == IF n >= Size THEN 0 ELSE n

next(index) == Wrap(index + 2 + vectors[index + 1])

\* Mutant: the cells of the header are not part of what will be overwritten.
Overtaken_NoHeader(o) == tail < heads[o] /\ heads[o] < tail + Len(adding)

\* Mutant: a head just after what will be overwritten is moved too.
Overtaken_TooFar(o) == tail < heads[o] /\ heads[o] <= tail + Len(adding) + 2

\* The loop of begin_add_vector has to move the head of o.
Overtaken(o) == tail < heads[o] /\ heads[o] < tail + Len(adding) + 2

-----------------------------------------------------------------------------
(* share_clause(o, v): begin_add_vector, add_vector_elem, end_add_vector.   *)

begin_add_vector(o, v) ==
    /\ mux = NoOwner /\ Len(log) < MaxShare
    /\ mux' = o /\ adding' = v
    /\ UNCHANGED <<vectors, tail, heads, atEnd, got, log, lap>>

move_head(o) ==
    /\ adding # <<>> /\ Overtaken(o)
    /\ heads' = [heads EXCEPT ![o] = next(@)]
    /\ UNCHANGED <<vectors, tail, atEnd, mux, adding, got, log, lap>>

\* Mutant: the readers are not told that there is something to read.
add_vector_Silent ==
    LET n == Len(adding)
    IN  /\ adding # <<>> /\ \A o \in Owner : ~Overtaken(o)
        /\ vectors' = [c \in Cell |-> IF c = tail THEN mux
                                      ELSE IF c = tail + 1 THEN n
                                      ELSE IF tail + 2 <= c /\ c < tail + 2 + n
                                      THEN adding[c - tail - 1] ELSE vectors[c]]
        /\ tail' = Wrap(tail + 2 + n)
        /\ log' = Append(log, [owner |-> mux, lits |-> adding, at |-> tail, lap |-> lap])
        /\ lap' = IF tail + 2 + n >= Size THEN lap + 1 ELSE lap
        /\ mux' = NoOwner /\ adding' = <<>>
        /\ UNCHANGED <<heads, atEnd, got>>

\* The heads are out of the way: m_at_end is reset and the cells are written.
add_vector ==
    LET n == Len(adding)
    IN  /\ adding # <<>> /\ \A o \in Owner : ~Overtaken(o)
        /\ atEnd' = [o \in Owner |-> FALSE]
        /\ vectors' = [c \in Cell |-> IF c = tail THEN mux
                                      ELSE IF c = tail + 1 THEN n
                                      ELSE IF tail + 2 <= c /\ c < tail + 2 + n
                                      THEN adding[c - tail - 1] ELSE vectors[c]]
        /\ tail' = Wrap(tail + 2 + n)
        /\ log' = Append(log, [owner |-> mux, lits |-> adding, at |-> tail, lap |-> lap])
        /\ lap' = IF tail + 2 + n >= Size THEN lap + 1 ELSE lap
        /\ mux' = NoOwner /\ adding' = <<>>
        /\ UNCHANGED <<heads, got>>

-----------------------------------------------------------------------------
(* get_clauses(o): get_vector until there is nothing more to read.          *)

get_clauses(o) ==
    /\ mux = NoOwner /\ mux' = o
    /\ UNCHANGED <<vectors, tail, heads, atEnd, adding, got, log, lap>>

\* What get_vector finds at a head: get_owner, and get_length cells at get_ptr.
VectorAt(h) == [owner |-> vectors[h],
                lits |-> [j \in 1 .. vectors[h + 1] |-> vectors[h + 1 + j]]]

\* Mutant: m_at_end is left alone.
get_vector_KeepsAtEnd(o) ==
    LET head == heads[o]
    IN  /\ mux = o /\ adding = <<>>
        /\ head # tail \/ ~atEnd[o]
        /\ heads' = [heads EXCEPT ![o] = next(head)]
        /\ got' = IF vectors[head] = o THEN got
                  ELSE [got EXCEPT ![o] = <<VectorAt(head)>>]
        /\ UNCHANGED <<vectors, tail, atEnd, mux, adding, log, lap>>

\* One iteration of the loop in get_vector.  A vector of another thread is
\* returned, and get_vector called again; the thread's own is passed over.
get_vector(o) ==
    LET head == heads[o]
    IN  /\ mux = o /\ adding = <<>>
        /\ head # tail \/ ~atEnd[o]
        /\ heads' = [heads EXCEPT ![o] = next(head)]
        /\ atEnd' = [atEnd EXCEPT ![o] = (next(head) = tail)]
        /\ got' = IF vectors[head] = o THEN got
                  ELSE [got EXCEPT ![o] = <<VectorAt(head)>>]
        /\ UNCHANGED <<vectors, tail, mux, adding, log, lap>>

\* get_vector returns false, and get_clauses releases the mutex.
get_vector_none(o) ==
    /\ mux = o /\ adding = <<>> /\ heads[o] = tail /\ atEnd[o]
    /\ mux' = NoOwner
    /\ UNCHANGED <<vectors, tail, heads, atEnd, adding, got, log, lap>>

Step(o) ==
    \/ \E v \in Vector : begin_add_vector(o, v)
    \/ move_head(o) \/ get_clauses(o) \/ get_vector(o) \/ get_vector_none(o)

Next == add_vector \/ \E o \in Owner : Step(o)

\* A thread that holds the mutex goes on.
Holder == add_vector \/ \E o \in Owner : move_head(o) \/ get_vector(o) \/ get_vector_none(o)

Spec == Init /\ [][Next]_vars
FairSpec == Spec /\ WF_vars(Holder)

-----------------------------------------------------------------------------
(* The type invariant.                                                     *)
TypeOK ==
    /\ vectors \in [Cell -> Nat] /\ tail \in 0 .. Size - 1
    /\ heads \in [Owner -> 0 .. Size - 1] /\ atEnd \in [Owner -> BOOLEAN]
    /\ mux \in Owner \cup {NoOwner} /\ adding \in Vector \cup {<<>>}
    /\ (adding # <<>> => mux # NoOwner) /\ lap \in Nat
    /\ log \in Seq([owner : Owner, lits : Vector, at : 0 .. Size - 1, lap : Nat])
    /\ got \in [Owner -> Seq([owner : Nat, lits : Seq(Nat)])]

\* An entry of the log has not been overwritten: the tail has not come round to
\* it again.
Live(k) == \/ log[k].lap = lap
           \/ log[k].lap + 1 = lap /\ tail <= log[k].at

\* Wherever a reader's head is and however the writers have lapped it, get_vector
\* finds a whole vector there, as it was shared: begin_add_vector never leaves a
\* head inside a vector, or on one that is overwritten.
HeadsAligned ==
    \A o \in Owner :
        (heads[o] # tail \/ ~atEnd[o]) /\ (adding # <<>> => heads[o] # tail)
        => \E k \in 1 .. Len(log) :
              /\ Live(k) /\ log[k].at = heads[o]
              /\ VectorAt(heads[o]) = [owner |-> log[k].owner, lits |-> log[k].lits]

\* How far into the log a reader is.  A head at the tail waits for the vector
\* that is being added there, even when it was a whole lap behind.
Pos(o) ==
    IF atEnd[o] \/ (adding # <<>> /\ heads[o] = tail) THEN Len(log)
    ELSE (CHOOSE k \in 1 .. Len(log) : Live(k) /\ log[k].at = heads[o]) - 1

\* The pool is a lossy log: readers get clauses that were shared, in order, none
\* twice and none of their own.
L == INSTANCE LossyLog
       WITH log <- [k \in 1 .. Len(log) |-> [owner |-> log[k].owner, lits |-> log[k].lits]],
            pos <- [o \in Owner |-> Pos(o)]
Refines == L!Spec

\* A reader loses a clause only when it is overwritten.  The exception is a head
\* exactly a lap behind: begin_add_vector cannot tell it from one that has read
\* everything, and it loses the whole lap.
LosesOnlyOverwritten ==
    [][\A o \in Owner, k \in 1 .. Len(log) :
          /\ Pos(o) < k /\ k <= Pos(o)'
          /\ ~(heads[o] = tail /\ mux = NoOwner)
          => \/ mux = o /\ adding = <<>>
             \/ adding # <<>> /\ tail <= log[k].at /\ log[k].at < tail + Len(adding) + 2]_vars

\* Whoever takes the mutex gives it back: the loops of begin_add_vector and
\* get_vector end, wherever the heads are.
MutexReleased == mux # NoOwner ~> mux = NoOwner
=============================================================================

SPECIFICATION Spec
CONSTANTS
    atomP = atomP
    atomQ = atomQ
    atomR = atomR
    Atom = {atomP, atomR}
    Asms <- MCAsms
    Formulas <- MCThree
    Proposed <- MCProposedP
    Engine = {"smt"}
    Negated = {b1}
    Positive = {b2}
    MaxCandidates = 2
    BatchSize = 2
    ChunkSize = 1
    Outcome = {"undef", "exception", "exhausted"}
    MaxOffers = 2
    MaxWork = 4
    MaxCancel = 0
INVARIANTS TypeOK BackbonesSound VerdictSound

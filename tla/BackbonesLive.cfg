SPECIFICATION FairSpec
CONSTANTS
    atomP = atomP
    atomQ = atomQ
    atomR = atomR
    Atom = {atomP, atomQ, atomR}
    Asms <- MCAsms
    Formulas <- MCUnderR
    Proposed <- MCProposed
    Engine = {"tactic"}
    Negated = {b1}
    Positive = {b2}
    MaxCandidates = 2
    BatchSize = 2
    ChunkSize = 1
    Outcome = {"undef"}
    MaxOffers = 2
    MaxWork = 2
    MaxCancel = 1
PROPERTIES ThreadsEnd CandidatesTaken BatchEnds

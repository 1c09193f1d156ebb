SPECIFICATION Spec
CONSTANTS
    atomP = atomP
    atomQ = atomQ
    atomR = atomR
    Atom = {atomP, atomQ, atomR}
    Asms <- MCBothAsms
    Formulas <- MCJointly
    Proposed <- MCProposedP
    Engine = {"smt"}
    Negated = {b1}
    Positive = {b2}
    MaxCandidates = 2
    BatchSize = 2
    ChunkSize = 1
    Outcome = {"undef"}
    MaxOffers = 1
    MaxWork = 4
    MaxCancel = 0
INVARIANT CoreRefuted

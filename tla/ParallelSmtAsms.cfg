SPECIFICATION Spec
CONSTANTS
    atomP = atomP
    atomQ = atomQ
    atomR = atomR
    Atom = {atomP, atomR}
    NullLit = NullLit
    Asms <- MCAsms
    Formulas <- MCUnderRNotP
    SplitAtom = {atomP}
    MaxDepth = 1
    Effort = {1}
    EffortMod = 2
    EffortUnit = 1
    MaxWorkers = 3
    Engine = {"smt", "tactic"}
    Worker = {w1, w2, w3}
    minimizer = minimizer
    CoreMinimize = FALSE
    ShareUnits = TRUE
    Outcome = {"true", "false", "conflicts", "incomplete", "exception", "exhausted"}
    MaxCancel = 1
INVARIANTS TypeOK LeasesCounted CancelHeard
PROPERTIES Refines
SYMMETRY Symmetry

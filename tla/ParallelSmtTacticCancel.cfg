SPECIFICATION Spec
CONSTANTS
    atomP = atomP
    atomQ = atomQ
    atomR = atomR
    Atom = {atomP, atomQ}
    NullLit = NullLit
    Asms <- MCNoAsms
    Formulas <- MCNotP
    SplitAtom = {atomP}
    MaxDepth = 1
    Effort = {1}
    EffortMod = 2
    EffortUnit = 1
    MaxWorkers = 2
    Engine = {"tactic"}
    Worker = {w1, w2}
    minimizer = minimizer
    CoreMinimize = FALSE
    ShareUnits = TRUE
    Outcome = {"false", "conflicts"}
    MaxCancel = 1
INVARIANTS EndStateDecided
SYMMETRY Symmetry

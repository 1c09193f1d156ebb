SPECIFICATION Spec
CONSTANTS
    atomP = atomP
    atomQ = atomQ
    atomR = atomR
    Atom = {atomP, atomQ}
    NullLit = NullLit
    Asms <- MCNoAsms
    Formulas <- MCNotP
    SplitAtom = {atomP, atomQ}
    MaxDepth = 2
    Effort = {1}
    EffortMod = 2
    EffortUnit = 1
    MaxWorkers = 3
    Engine = {"smt"}
    Worker = {w1, w2, w3}
    minimizer = minimizer
    CoreMinimize = TRUE
    ShareUnits = FALSE
    Outcome = {"false", "conflicts"}
    MaxCancel = 0
INVARIANTS ClosedLeaseSignaled CancelBalanced
PROPERTIES Refines
SYMMETRY Symmetry

SPECIFICATION Spec
CONSTANTS
    atomP = atomP
    atomQ = atomQ
    atomR = atomR
    Atom = {atomP, atomR}
    NullLit = NullLit
    Asms <- MCAsms
    Formulas <- MCNotR
    SplitAtom = {atomP}
    MaxDepth = 1
    Effort = {1}
    EffortMod = 2
    EffortUnit = 1
    MaxWorkers = 3
    Engine = {"smt"}
    Worker = {w1, w2, w3}
    minimizer = minimizer
    CoreMinimize = TRUE
    ShareUnits = TRUE
    Outcome = {"false", "conflicts"}
    MaxCancel = 0
INVARIANTS NotUnreachable
SYMMETRY Symmetry

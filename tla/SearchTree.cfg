SPECIFICATION Spec
CONSTANTS
    atomP = atomP
    atomQ = atomQ
    atomR = atomR
    Atom = {atomP, atomQ, atomR}
    NullLit = NullLit
    Asms <- MCAsms
    Formulas <- MCFormulas
    SplitAtom = {atomP, atomQ}
    MaxDepth = 2
    Effort = {1}
    EffortMod = 2
    EffortUnit = 1
    MaxWorkers = 2
SYMMETRY SwapPQ
INVARIANTS TypeOK CoresSound ClosureComplete NoModelLost ActiveMeansLeased
PROPERTIES ClosedForever SplitOnce
CHECK_DEADLOCK FALSE

SPECIFICATION FairSpec
CONSTANTS
    atomP = atomP
    atomQ = atomQ
    atomR = atomR
    Atom = {atomP, atomR}
    NullLit = NullLit
    Asms <- MCAsms
    Formulas <- MCNotP
    SplitAtom = {atomP}
    MaxDepth = 1
    Effort = {1}
    EffortMod = 2
    EffortUnit = 1
    MaxWorkers = 3
    Engine = {"smt", "tactic"}
    Worker = {w1, w2}
    minimizer = minimizer
    CoreMinimize = TRUE
    ShareUnits = TRUE
    Outcome = {"true", "false", "conflicts", "incomplete", "exception"}
    MaxCancel = 1
PROPERTIES StopReturns CancelStops MinimizerReleased

SPECIFICATION Spec
CONSTANTS
    CountMod = 8
    RLimit = {0, 1}
    MaxCount = 3
    MaxInterrupts = 2
INVARIANTS TypeOK HandlersAlive LimitRestored CancelReported
PROPERTIES CancelEnds

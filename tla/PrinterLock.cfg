SPECIFICATION Spec
CONSTANTS
    Callers = {c1, c2, c3, c4}
    None = None
INVARIANTS
    MutualExclusion
    ChainInv
    NoLeak
PROPERTIES
    ImplementsFifoMutex

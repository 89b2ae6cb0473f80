CONSTANTS
    Readers = {r1, r2}
    Writers = {w1, w2}
    BIAS = 4
    NULL = NULL
    Timers = {t1, t2}
    Callers = {p1}
    TVR_BITS = 1
    TVN_BITS = 2
    MaxLag = 1
    CallTicks = {383, 510}
VIEW View
SYMMETRY Symmetry
SPECIFICATION MCSpec
INVARIANTS Exclusion NoBUG BiasNotStranded DelSyncQuiesces
PROPERTIES OnItsTick

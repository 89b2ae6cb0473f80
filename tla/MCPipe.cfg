CONSTANTS
    NULL = NULL
    Procs = {p1, p2, p3}
    PIPE_SIZE = 3
    PIPE_BUF = 3
    Counts = {1, 2, 4}
    MaxOpens = 3
SYMMETRY Symmetry
SPECIFICATION Spec
INVARIANTS EndsCounted NoMissedEvent

CONSTANTS
    NULL = NULL
    IPC_PRIVATE = private
    IPCMNI = 1
    SeqMax = 1
    Procs = {p1, p2, p3}
    NSems = 2
    SEMMNS = 2
    SEMVMX = 1
    SopLists <- MCPairs
    Vals = {1}
    MaxArrays = 1
VIEW View
SYMMETRY Symmetry
SPECIFICATION Spec
INVARIANTS TypeOK UndoBalanced NoMissedWakeup CountsWarrant

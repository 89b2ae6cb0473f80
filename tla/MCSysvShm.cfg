CONSTANTS
    NULL = NULL
    IPC_PRIVATE = private
    IPCMNI = 2
    SeqMax = 1
    t1 = t1
    t2 = t2
    t3 = t3
    m1 = m1
    m2 = m2
    Tasks <- MCTasks
    Mms <- MCMms
    MmOf <- MCMmOf
    FirstMm = m1
    Keys = {private, k1}
    Pages = {1}
    shm_ctlall = 3
    CopyFails = FALSE
    MaxSegs = 2
    MaxAreas = 2
VIEW View
SYMMETRY Symmetry
SPECIFICATION Spec
INVARIANTS AttachesCounted NothingLeaks

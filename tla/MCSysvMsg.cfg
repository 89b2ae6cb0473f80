CONSTANTS
    NULL = NULL
    IPC_PRIVATE = private
    EAGAIN = EAGAIN
    EIDRM = EIDRM
    E2BIG = E2BIG
    IPCMNI = 1
    SeqMax = 1
    Procs = {p1, p2, p3}
    Types = {1, 2}
    Sizes = {1}
    RcvTypes <- MCTypesModes
    RcvSizes = {0}
    RcvFlags <- MCFlagsModes
    QBytes = {1, 2}
    PermSets <- MCPermsFixed
    MSGMNB = 1
    MaxMsgs = 3
    MaxQueues = 1
VIEW View
SYMMETRY Symmetry
SPECIFICATION Spec
INVARIANTS MessageConserved NoMissedMessage NoMissedRoom RetryOnLiveQueue
PROPERTIES FifoPerType
CHECK_DEADLOCK FALSE

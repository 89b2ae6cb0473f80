CONSTANTS
    NULL = NULL
    IPC_PRIVATE = private
    EAGAIN = EAGAIN
    EIDRM = EIDRM
    E2BIG = E2BIG
    IPCMNI = 1
    SeqMax = 1
    Procs = {p1, p2}
    Types = {1}
    Sizes = {0, 1}
    RcvTypes <- MCTypesAny
    RcvSizes = {1}
    RcvFlags <- MCFlagsWait
    QBytes = {1, 2}
    PermSets <- MCPermSets
    MSGMNB = 1
    MaxMsgs = 3
    MaxQueues = 2
SPECIFICATION FairSpec
INVARIANTS Accounting SleepersPermitted
PROPERTIES RemovalReleases HandedIsReceived
CHECK_DEADLOCK FALSE

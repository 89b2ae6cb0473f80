CONSTANTS
    NULL = NULL
    IPC_PRIVATE = private
    IPCMNI = 1
    SeqMax = 1
    Procs = {p1, p2}
    NSems = 1
    SEMMNS = 1
    SEMVMX = 1
    SopLists <- MCRemoval
    Vals = {0, 1}
    MaxArrays = 2
SPECIFICATION FairSpec
INVARIANTS QueuedOnLiveArray
PROPERTIES UndoOnOwnArray NoWriteAfterFree RemovalReleases RetryHappens

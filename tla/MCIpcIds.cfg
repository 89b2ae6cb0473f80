CONSTANTS
    NULL = NULL
    IPC_PRIVATE = private
    IPCMNI = 2
    SeqMax = 1
    Procs = {p1, p2}
    Keys = {private, k1}
    InitSize = 1
    Limits = {1, 3}
    MaxCreate = 4
SYMMETRY Symmetry
SPECIFICATION Spec
INVARIANTS TypeOK CountersExact KeysUnique AccessInBounds NoEarlyReuse LookupSound
PROPERTIES RegistrySpec

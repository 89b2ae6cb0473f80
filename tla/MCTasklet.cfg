CONSTANTS
    NULL = NULL
    c1 = c1
    c2 = c2
    t = t
    b1 = b1
    b2 = b2
    Cpus = {c1, c2}
    Users = {u}
    Tasklets = {t}
    Bhs = {b1, b2}
    Sources <- MCSources
    Targets = {t, b1}
SPECIFICATION FairSpec
INVARIANTS LinkedOnce Serialized Quiesced
PROPERTIES ScheduledRuns

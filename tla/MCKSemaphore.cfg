CONSTANTS
    NULL = NULL
    Procs = {p1, p2, p3}
    Val = 1
    MaxPosts = 1
SPECIFICATION FairSpec
PROPERTIES SemaphoreSpec FreeUnitFound

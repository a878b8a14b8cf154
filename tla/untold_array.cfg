\* an array of objects that registered set_allocator
SPECIFICATION Spec
CONSTANTS
    t1 = t1
    t2 = t2
    a1 = a1
    a2 = a2
    a3 = a3
    NULL = NULL
    Untold = Untold
    pool = pool
    Threads = {t1, t2}
    Addr = {a1, a2, a3}
    Allocators = {pool}
    Uses <- MCUses
    Counts = {0, 2, 4}
    SizeOfT = 2
    SizeOfCount = 2
    SizeLimit = 8
SYMMETRY Symmetry
CHECK_DEADLOCK FALSE
INVARIANTS
    ToldFirst

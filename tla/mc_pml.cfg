\* two threads, every call through every allocator, 32-bit size_t (scaled)
CONSTANTS
    libc = libc
    pool = pool
    p = p
    q = q
    a = a
    b = b
    c = c
    Threads = {p, q}
    Addr = {a, b, c}
    Arenas = {libc, pool}
    Allocators <- MCAllocators
    NULL = NULL
    Libc = libc
    Emulate = Emulate
    Choices <- MCChoices
    Sizes = {1, 2}
    Counts = {2}
    SizeLimit = 4
    WideLimit = 16
    MaxSize = 2
SPECIFICATION Spec
SYMMETRY Symmetry
INVARIANTS TypeOK BlocksHeld UndefinedOnly LedgerExact SizeOrAssert
PROPERTIES ImplementsStore
CHECK_DEADLOCK FALSE

\* pml_realloc of a null pointer
CONSTANTS
    libc = libc
    pool = pool
    p = p
    q = q
    a = a
    b = b
    c = c
    Threads = {p, q}
    Addr = {a, b, c}
    Arenas = {libc, pool}
    Allocators <- MCAllocators
    NULL = NULL
    Libc = libc
    Emulate = Emulate
    Choices <- MCChoices
    Sizes = {1, 2}
    Counts = {2}
    SizeLimit = 4
    WideLimit = 16
    MaxSize = 2
SPECIFICATION Spec
SYMMETRY Symmetry
INVARIANTS ReallocAllocates
CHECK_DEADLOCK FALSE

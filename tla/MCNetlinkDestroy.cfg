SPECIFICATION Spec
CONSTANTS
    NULL = NULL
    i1 = i1
    i2 = i2
    a = a
    b = b
    c1 = c1
    c2 = c2
    Client = {c1, c2}
    Id = {i1}
    Contents <- SmallContents
    SocketSize = 2
    Failures = {}
INVARIANTS NoUseAfterFree
CHECK_DEADLOCK FALSE

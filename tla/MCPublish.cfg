SPECIFICATION Spec
CONSTANTS
    NULL = NULL
    l1 = l1
    l2 = l2
    host = host
    net = net
    peer = peer
    route = route
    n1 = n1
    n2 = n2
    up = up
    dn = dn
    a = a
    b = b
    Id = {l1, l2, peer, route}
    KindOf <- TheKinds
    On <- FirstLink
    Short = {}
    Content = {a}
    Flags = {up}
    Name = {n1, n2}
    V2 = FALSE
    SocketSize = 2
    Env = {"rename", "reroute", "refuse", "exit", "crash"}
INVARIANTS TypeOK Shown LinkReal NothingLeft CleanExit
SYMMETRY Symmetry

SPECIFICATION Spec
CONSTANTS
    NULL = NULL
    l1 = l1
    l2 = l2
    host = host
    net = net
    peer = peer
    route = route
    n1 = n1
    n2 = n2
    up = up
    dn = dn
    a = a
    b = b
    Id = {l1, net}
    KindOf <- TheKinds
    On <- FirstLink
    Short = {net}
    Content = {a}
    Flags = {up}
    Name = {n1, n2}
    V2 = TRUE
    SocketSize = 2
    Env = {}
INVARIANT AddressGone

SPECIFICATION Spec
CONSTANTS
    NULL = NULL
    p1 = p1
    p2 = p2
    g1 = g1
    g2 = g2
    q1 = q1
    h1 = h1
    bad = bad
    l1 = l1
    l2 = l2
    Index = {0, 1}
    Text <- Texts
    Addr <- Addrs
    Address <- AddressOf
    Link = {l1}
    LinkOf <- GatewayLink
    Candidates <- SharedCandidates
    Half = 4
    MaxQueue = 1
    Env = {"crash", "exit", "links", "edits_while_starting"}
INVARIANTS TypeOK TableValid KernelOwned

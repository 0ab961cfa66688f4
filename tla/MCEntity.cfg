SPECIFICATION Spec
CONSTANTS
    NULL = NULL
    a0 = a0
    b0 = b0
    hostA = hostA
    hostB = hostB
    eth0 = eth0
    inet = inet
    addr = addr
    Entry = {a0, b0}
    EntityOf <- Hosts
    ScopeOf <- Interfaces
    Addr = {addr}
    TextOf <- Texts
    MaxQueue = 2
    MaxNews = 1
    Env = {"crash", "exit"}
SYMMETRY Exchange
INVARIANTS TypeOK Shown NothingLeft
PROPERTIES KeepsListed

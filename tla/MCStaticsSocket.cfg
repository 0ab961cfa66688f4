SPECIFICATION Spec
CONSTANTS
    NULL = NULL
    four = four
    six = six
    eth = eth
    a = a
    b = b
    bad = bad
    Entry = {four}
    Four = {four}
    Unparsable = {}
    Link = {eth}
    LinkOf <- OneLink
    Value = {a, bad}
    Content <- Parsed
    Object = {a, b}
    Cached = FALSE
    MaxQueue = 1
    MaxNews = 1
    MaxIndex = 2
    Env = {"crash", "exit"}
INVARIANT SocketReady

SPECIFICATION Spec
CONSTANTS
    NULL = NULL
    four = four
    six = six
    eth = eth
    a = a
    b = b
    bad = bad
    Entry = {four, six}
    Four = {four}
    Unparsable = {}
    Link = {eth}
    LinkOf <- OneLink
    Value = {a, b, bad}
    Content <- Parsed
    Object = {a, b}
    Cached = TRUE
    MaxQueue = 2
    MaxNews = 2
    MaxIndex = 3
    Env = {"crash", "connect", "exit"}
INVARIANTS TypeOK Applied NothingStale
PROPERTIES KeepsConfigured

SPECIFICATION Spec
CONSTANTS
    NULL = NULL
    eth = eth
    Link = {eth}
    Setting <- Settings
    Candidates <- Values
    Groups <- Together
    Factory <- Unset
    MaxQueue = 2
    MaxNews = 2
    MaxIndex = 2
    Env = {"crash", "connect", "exit"}
INVARIANTS TypeOK Applied Reverted TwiceAtMost

SPECIFICATION FairSpec
CONSTANTS
    Workers = {w1, w2}
    Watchdogs = {d1}
    Calls = {c1}
    NoOwner = NoOwner
    NoCall = NoCall
    HeartbeatInterval = 1
    HeartbeatGrace = 1
    MaxFence = 7
    MaxFaults = 2
PROPERTY EventuallySettles
CHECK_DEADLOCK FALSE

SPECIFICATION FairSpec
CONSTANTS
    Waiters = {w1, w2}
    Voters = {v1, v2}
    Timeout = 2
    MaxSkew = 1
    MaxTime = 4
INVARIANTS VotesAreSound NeverEarly
PROPERTIES RowIsFinal WaitersLeave
CHECK_DEADLOCK FALSE

SPECIFICATION FairSpec
CONSTANTS
    Sessions = {s1, s2}
    MaxSeq = 4
    MaxClears = 0
    PageSize = 2
    MaxDrops = 1
    MaxRestarts = 1
INVARIANT RevocationIsPrompt
PROPERTIES ImplementsThreadLog EventuallyShown
CHECK_DEADLOCK FALSE

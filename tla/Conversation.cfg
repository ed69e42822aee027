SPECIFICATION Spec
CONSTANTS
    Foci = {"log", "session", "send"}
    Steers = 2
    MaxDeltas = 1
    Sessions = {s1, s2, s3}
    MaxSeq = 5
    MaxClears = 2
    Threads = {"t1", "t2"}
    Nonces = {"n1", "n2"}
    Replies = {"a1"}
    MaxThreadClears = 1
    None = None
    Contents = {t1, t2}
    Requests = {q1, q2, q3}
SYMMETRY Symmetry
INVARIANTS LogIsSound StreamIsWhole SendsAreSound
 
CHECK_DEADLOCK FALSE

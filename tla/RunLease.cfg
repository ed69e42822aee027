SPECIFICATION Spec
CONSTANTS
    Workers = {w1, w2}
    Watchdogs = {d1, d2}
    Calls = {c1}
    NoOwner = NoOwner
    NoCall = NoCall
    HeartbeatInterval = 1
    HeartbeatGrace = 1
    MaxFence = 4
    MaxFaults = 2
SYMMETRY Symmetry
INVARIANTS
    TypeOK
    OneWinnerPerFence
    AttemptsAgree
    RecoveryIsSound
    ToolEffectsAreSound
PROPERTIES
    OutcomeIsFinal
    ImplementsLifecycle
CHECK_DEADLOCK FALSE

SPECIFICATION Spec
CONSTANTS
    Foci = {"raced"}
    often = often
    seldom = seldom
    Untouched = Untouched
    Crons = {often, seldom}
    Fires <- MCFires
    Patches <- MCPatches
    Editors = {"ada"}
    Tests = {"t1"}
    Ticks = {k1, k2}
    MissGrace = 0
    MaxTime = 2
    MaxPassFaults = 1
    Captures = {c1, c2}
    Restores = {r1}
    SnapshotIds = {1, 2, 3}
    Files = {f}
    Retention = 1
    MaxClock = 1
    MaxCrashes = 1
    MaxFaults = 1
    MaxAlterations = 1
    MaxDays = 1
    Runs = {reclaimed, contender}
    contender = contender
    Calls = {key}
    NoCall = NoCall
    NoOne = NoOne
    LeaseTtl = 2
    MaxDuration = 2
    MaxFence = 2
    Clients = {"p", "q", "s", "t"}
    Kinds = {"boot", "grant", "stop"}
    IdleTimeout = 0
    MaxRestarts = 1
    MaxRefusals = 1
    MaxBoxDeaths = 1
    MaxProxyDeaths = 1
INVARIANT ParkedMeansGone
CHECK_DEADLOCK FALSE

SPECIFICATION Spec
CONSTANTS
    Foci = {"routine", "lease", "machine", "faulty", "snapshots"}
    often = often
    seldom = seldom
    Untouched = Untouched
    Crons = {often, seldom}
    Fires <- MCFires
    Patches <- MCPatches
    Editors = {"ada"}
    Tests = {"t1"}
    Ticks = {k1, k2}
    MissGrace = 0
    MaxTime = 2
    MaxPassFaults = 1
    Captures = {c1, c2}
    Restores = {r1}
    SnapshotIds = {1, 2, 3}
    Files = {f}
    Retention = 1
    MaxClock = 1
    MaxCrashes = 1
    MaxFaults = 1
    MaxAlterations = 1
    MaxDays = 1
    Runs = {reclaimed, contender}
    contender = contender
    Calls = {key}
    NoCall = NoCall
    NoOne = NoOne
    LeaseTtl = 2
    MaxDuration = 2
    MaxFence = 2
    Clients = {"p", "q"}
    Kinds = {"boot", "stop", "reset", "destroy", "exec", "grant", "revoke"}
    IdleTimeout = 1
    MaxRestarts = 1
    MaxRefusals = 1
    MaxBoxDeaths = 1
    MaxProxyDeaths = 1
SYMMETRY Symmetry
INVARIANTS LedgerMatchesRuns CommandOnce   SnapshotsAreSound
PROPERTIES OnlyLiveRoutinesFire CommitIsFenced
CHECK_DEADLOCK FALSE

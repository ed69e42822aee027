SPECIFICATION FairSpec
CONSTANTS
    Foci = {"notices", "routine", "machine", "lease", "session"}
    often = often
    seldom = seldom
    Untouched = Untouched
    Patches <- PausePatches
    Editors = {"ada"}
    MaxTime = 3
    NoOne = NoOne
    NoCall = NoCall
PROPERTIES
    HangIsSeen
    DueSlotsSettle
    
    IdleIsParked
    MachineIsFreed
    StopIsObeyed
CHECK_DEADLOCK FALSE

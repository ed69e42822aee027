SPECIFICATION FairSpec
CONSTANTS
    Foci = {"routine"}
    often = often
    seldom = seldom
    Untouched = Untouched
    Patches <- CronPatches
    Editors = {"ada"}
    MaxTime = 3
    NoOne = NoOne
    NoCall = NoCall
PROPERTY DueSlotsSettle
CHECK_DEADLOCK FALSE

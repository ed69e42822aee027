SPECIFICATION Spec
CONSTANTS
    Documents = {"d1", "d2", "d3"}
    Texts = {"x", "y"}
    Writers = {"w1", "w2"}
    MaxDocuments = 1
    MaxRevisions = 4
    Foci = {"watch"}
    Releases = {1}
    Services = {"api"}
    Destinations = {"o1", "o2"}
    Asks = {"a1"}
    Forgets = {"f1"}
    Putters = {"w1"}
    MaxPuts = 2
    MaxKeys = 1
    MaxSlips = 1
    Jobs = {"timer", "operator"}
    Watchdogs = {"p", "q"}
    Homes = {"h1"}
    RetentionDays = 1
    DrillInterval = 2
    Staleness = 1
    DrillStaleness = 2
    RunTimeout = 1
    RunLength = 1
    MaxRuns = 2
    MaxNow = 2
    MaxFaults = 2
    Dogs = {w1}
    Threshold = 1
    LeaseTtl = 2
    MaxAttempts = 2
    MaxEpisodes = 2
    WorkNotes = FALSE
PROPERTY StallIsSilence
CHECK_DEADLOCK FALSE

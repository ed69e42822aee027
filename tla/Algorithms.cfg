SPECIFICATION Spec
CONSTANTS
    Runs = {"r1", "r2"}
    Calls = {c1}
    Ids = {m1}
    Logs <- MCLogs
    MinutesPerHour = 2
    HoursPerDay = 3
    DaysPerWeek = 3
    DaysInMonth <- MCDaysInMonth
    Texts <- MCTexts
    Zones <- MCZones
    Origins <- MCOrigins
    HorizonDays = 10
    MaxShift = 12
    PreviewCount = 3
INVARIANTS SnapshotIsFaithful ScheduleIsExact
CHECK_DEADLOCK FALSE

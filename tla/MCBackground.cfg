CONSTANTS
    Tasks = {"c1", "c2"}
    Routed = {"c1"}
    Timed = {"c1", "c2"}
    MaxReads = 2
    Subs = {"s1", "s2", "s3"}
    Limit = 2
    MaxCancels = 2
    Alerts = {"a"}
    Contents = {"c", "d"}
    Url <- OnePage
    Texts = {"t"}
    ContentLimit = 1
    Cooldown = 1
    DedupeHours = 2
    DriftHours = 2
    ContextHours = 1
    ContextDay = 2
    QuotaMax = 1
    Day = 3
    MaxHours = 4
    MaxTicks = 2
    MaxPushes = 2
    Delegated = {"x", "y"}
    MaxSpawns = 2
SPECIFICATION BackSpec
CHECK_DEADLOCK FALSE
INVARIANTS NotTooOften ToldTruly
PROPERTIES EndsAreToldOnce 

SPECIFICATION Spec
CONSTANTS
    once = once
    cron = cron
    every = every
    Jobs <- JobsAll
    Period <- PeriodOf
    Cron <- JobsCron
    Soft <- JobsSoft
    MaxLead = 1
    Grace = 1
    MaxTime = 4
    MaxCrashes = 2
PROPERTIES CancelIsFinal

SPECIFICATION FairSpec
CONSTANTS
    once = once
    cron = cron
    every = every
    Jobs <- JobsAll
    Period <- PeriodOf
    Cron <- JobsCron
    Soft <- JobsSoft
    MaxLead = 1
    Grace = 1
    MaxTime = 3
    MaxCrashes = 1
INVARIANTS SchedulerInvariant
PROPERTIES OccurrencesAdvance OverIsOver OneShotEnds

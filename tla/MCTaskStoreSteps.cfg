CONSTANTS
    s1 = s1
    t1 = t1
    t2 = t2
    x1 = x1
    x2 = x2
    Sessions = {s1}
    Tasks = {t1}
    Steps = {x1, x2}
    Requests = {r1, r2}
    Attempts = {a1, a2}
    Instances = {i1, i2}
    SessionOf <- OneSession
    TaskOf <- OneTask
    ManualStatuses = {"failed", "skipped", "in_progress"}
    MaxAttemptNo = 2
    MaxEvents = 3
SYMMETRY Symmetry
SPECIFICATION Spec
INVARIANTS
    StepMirrorsAttempt
PROPERTIES
    LapsedLeaseIsDead
    WaitingSurvivesRecovery
CHECK_DEADLOCK FALSE

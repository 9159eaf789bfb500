CONSTANTS
    s1 = s1
    t1 = t1
    t2 = t2
    x1 = x1
    x2 = x2
    Sessions = {s1}
    Tasks = {t1, t2}
    Steps = {x1, x2}
    Requests = {r1, r2, r3}
    Attempts = {a1, a2, a3}
    Instances = {i1}
    SessionOf <- OneSession
    TaskOf <- StepEach
    ManualStatuses = {"pending", "failed"}
    MaxAttemptNo = 3
    MaxEvents = 3
SYMMETRY Symmetry
SPECIFICATION Spec
INVARIANTS
    ActiveAttemptNeedsActivePlan
    HistoryIsSound
PROPERTIES
    ImplementsLock
    SettledIsFinal
    UnretryableBlockIsHeld
CONSTRAINT ThreeOrTwoPlans
CHECK_DEADLOCK FALSE

SPECIFICATION TurnsSpec
INVARIANTS
    AttemptsHaveTurns SucceedsOnEvidence RestartsLeaveNothing
    CallsAreAnswered ToolsStayWithinPolicy ContextIsOfItsTurn
PROPERTIES SettledInTheEnd
CONSTANTS
    k1 = k1  t1 = t1  s1 = s1  s2 = s2  r1 = r1  r2 = r2  u1 = u1  u2 = u2  u3 = u3  a1 = a1
    Sessions = {k1}
    Tasks = {t1}
    Requests = {r1, r2}
    Instances = {i1, i2}
    SessionOf <- OneSession
    TaskOf <- OneTask
    TurnSession <- SessionOfTurn
    TurnRequest <- TwoMessages
    Index <- InOrder
    ManualStatuses = {}
    MaxAttemptNo = 2
    Steps = {s1}
    Turns = {u1, u2}
    Attempts = {a1, a2}
    MaxEvents = 6
    Overlap = TRUE
    Modes <- SomeModes
    Batches <- SomeBatches
    Kinds <- FourTurns
    Chats <- TwoChats
    AlwaysOn = {"tool_search", "shell"}
    Capacity = 1
    IterationLimit = 2
    Plans = 2
    RepeatLimit = 2
CHECK_DEADLOCK FALSE

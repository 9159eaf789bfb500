SPECIFICATION ToolsSpec
CONSTANTS
    write = write
    edit = edit
    file1 = file1
    o1 = o1
    Approvals <- Both
    Files <- OneFile
    Target <- TargetAll
    EditTool <- EditOnly
    ForStep <- EditOnly
    Procs = {p1}
    Others = {o1}
    Lifetime = 1
    MaxTime = 1
    MaxCrashes = 1
    Commands = {"ls"}
    Servers = {"p", "q"}
    MaxPreviews = 3
    MaxDeaths = 1
    Calls = {"c1", "c2"}
    Runnable = {"c1"}
    MaxBreaks = 1
    Paths <- TwoPaths
    Texts = {"old", "new"}
    m1 = m1
    m2 = m2
    Models = {m1, m2}
    MaxRuns = 2
    MaxEdits = 1
    n1 = n1
    n2 = n2
    Names = {n1, n2}
    MaxServerConns = 4
    MaxStops = 1
    Direct = {"d1", "d2", "d3"}
    Pooled = {"p1", "p2"}
    MaxConns = 4
INVARIANTS ApprovalIsTruthful CompletedIsExecuted ShellOutcomeIsTrue ApprovedCallsRunOnce
    ServersAreTracked CallsAreOwn
PROPERTIES ApplyIsAsShown ExecutedIsUndoable IndexMirrorsDisk
SYMMETRY Alike
CONSTRAINT OneClientAtATime
CHECK_DEADLOCK FALSE

CONSTANTS
    p1 = p1  p2 = p2  p3 = p3  s1 = s1  b1 = b1  x0 = x0  x1 = x1
    Procs <- MCProcs
    InitProc = p1
    ExitCodes = {0}
    NSem = 1
    SemIds <- MCSemIds
    SemInit = {0}
    NFd = 3
    FdArgs = {1}
    Pipes = {}
    PipeCap = 1
    Bytes = {0}
    MaxCount = 1
    MaxWrites = 2
    Calls = {"exit", "fork", "yield", "join", "sem", "up", "down", "sem_close", "write", "close", "dup", "kill", "shutdown"}
    NULL = NULL
SPECIFICATION FairSpec
INVARIANTS TypeOK EachProcessInOnePlace
PROPERTY ReadyEventuallyRuns
CHECK_DEADLOCK FALSE

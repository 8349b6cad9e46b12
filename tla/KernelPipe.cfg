CONSTANTS
    p1 = p1  p2 = p2  p3 = p3  s1 = s1  b1 = b1  x0 = x0  x1 = x1
    Procs <- MCProcs
    InitProc = p1
    ExitCodes = {0}
    NSem = 1
    SemIds = {}
    SemInit = {0}
    NFd = 5
    FdArgs = {3, 4}
    Pipes <- MCPipes
    PipeCap = 2
    Bytes <- MCBytes
    MaxCount = 1
    MaxWrites = 3
    Calls = {"exit", "fork", "pipe", "write", "read", "yield", "join", "close"}
    NULL = NULL
SPECIFICATION Spec
SYMMETRY PipeSymmetry
INVARIANTS EachProcessInOnePlace PipeAccounting
PROPERTY PipeRefinesChannel
CHECK_DEADLOCK FALSE

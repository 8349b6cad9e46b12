CONSTANTS
    s1 = s1
    Procs <- MCProcs
    InitProc = 1
    ExitCodes = {0}
    NSem = 1
    SemIds <- MCSemIds
    SemInit = {0}
    NFd = 3
    FdArgs = {1}
    Pipes = {}
    PipeCap = 1
    Bytes = {}
    MaxCount = 1
    MaxWrites = 1
    Calls = {}
    NULL = NULL
SPECIFICATION Spec0
INVARIANT OutputAsSpecified
PROPERTY InitCompletes

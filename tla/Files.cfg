CONSTANTS
    p1 = p1  p2 = p2  root = root  sbin = sbin  init = init
    Procs <- MCProcs
    InitProc = p1
    Nodes <- MCNodes
    Root = root
    NoNode = NoNode
    IsDir <- MCIsDir
    Find <- MCFind
    SizeOf <- MCSizeOf
    Names <- MCNames
    Paths <- MCPaths
    LookupPaths <- MCLookupPaths
    NFd = 4
    FdArgs = {0, 3}
    Counts = {0, 1, 2}
    ExitCodes = {0}
    MaxDescs = 4
    MaxReads = 4
    NULL = NULL
SPECIFICATION Spec
INVARIANTS TypeOK ReadsTileFile PathLookupAgrees
CHECK_DEADLOCK FALSE

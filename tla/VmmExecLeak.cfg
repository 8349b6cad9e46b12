CONSTANTS
    p1 = p1  p2 = p2
    NoFrame = 0
    Picks <- MCPicks
    Procs <- MCProcs
    Frames <- MCFrames
    InitProc = p1
    Modulus = 16
    UserLo = 8
    UserHi = 12
    StackSize = 1
    Sizes = {1}
    MmapAddrs = {0}
    Calls = {"mmap", "munmap", "fork", "exit", "execl"}
    InitImage <- MCInitImage
    Images <- MCImages
    MaxVmes = 5
    TablePages = 2
    Sentinel = 2
    BadPages = {0}
VIEW MCView
SPECIFICATION Spec
INVARIANT FramesExclusive
CHECK_DEADLOCK FALSE

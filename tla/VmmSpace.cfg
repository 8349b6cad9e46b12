CONSTANTS
    p1 = p1  p2 = p2
    NoFrame = 0
    Picks <- MCPicks
    Procs = {p1}
    Frames <- MCFrames
    InitProc = p1
    Modulus = 16
    UserLo = 8
    UserHi = 12
    StackSize = 1
    Sizes = {1, 2}
    MmapAddrs = {0, 9, 10}
    Calls = {"mmap", "munmap", "exit", "signal", "sigreturn"}
    InitImage <- MCInitImage
    Images <- MCImages
    MaxVmes = 5
    TablePages = 2
    Sentinel = 2
    BadPages = {0}
VIEW MCView
SPECIFICATION Spec
INVARIANTS TypeOK MappedInVme FramesExclusive OwnWritesVisible
CHECK_DEADLOCK FALSE

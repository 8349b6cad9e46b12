CONSTANTS
    Modulus = 16
    UserLo = 8
    UserHi = 15
    StackSize = 1
    Sizes = {0, 1, 2}
    InitImage <- MCInitImage
    Images <- MCImages
    MaxVmes = 6
    PageBytes = 1
    ElfHeaders = {}
SPECIFICATION SpecWithExec
INVARIANT SortedDisjoint

CONSTANTS
    Modulus = 16
    UserLo = 8
    UserHi = 14
    StackSize = 1
    Sizes = {0, 1, 2}
    InitImage <- MCInitImage
    Images <- MCImages
    MaxVmes = 6
    PageBytes = 2
    ElfHeaders <- MCElfHeaders
SPECIFICATION Spec
INVARIANTS TypeOK SortedDisjoint ContainsRangeIsCoverage DeepCopyPreserves
INVARIANT ExecMapsAcceptedImage
PROPERTIES FirstFitIsLowest

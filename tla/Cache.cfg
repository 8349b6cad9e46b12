CONSTANTS
    NNodes = 3
    Blocks = {1, 2, 3, 4}
    NoId = NoId
    Garbage = Garbage
    None = None
SPECIFICATION Spec
INVARIANTS TypeOK ListWellFormed
PROPERTY CacheRefinesLru

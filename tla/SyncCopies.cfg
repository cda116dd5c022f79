SPECIFICATION Spec
CONSTANTS
    None = None
    Root = Root
    Keys = {"a", "a.c", "a.c2", "a.c3", "a.c.c"}
    Dirs = {}
    Parent <- FlatParent
    Above <- FlatAbove
    Copies <- FlatCopies
    UserKeys = {"a"}
    Size <- DistinctSizes
    Second <- OwnSecond
    MaxMoves = 5
    MaxFaults = 0
    Faults = {}
    Busy = {}
    CreateDenied = {}
    DeleteDenied = {}
INVARIANTS CopiesKept

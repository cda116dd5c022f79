SPECIFICATION FairSpec
CONSTANTS
    None = None
    Root = Root
    Keys = {"a", "b", "a.c", "a.c2", "a.c3", "b.c", "b.c2", "b.c3", "a.c.c"}
    Dirs = {}
    Parent <- FlatParent
    Above <- FlatAbove
    Copies <- FlatCopies
    UserKeys = {"a", "b"}
    Size <- DistinctSizes
    Second <- OwnSecond
    MaxMoves = 4
    MaxFaults = 1
    Faults = {"abort", "download"}
    Busy = {}
    CreateDenied = {}
    DeleteDenied = {}
INVARIANTS TypeOK NoVersionLost NoFalseSync FixedPoint FewCopies RunsSucceed
PROPERTIES ErasedStaysErased Converges

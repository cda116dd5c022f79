SPECIFICATION Spec
CONSTANTS
    None = None
    Root = Root
    Keys = {"d/x", "d/x.c", "d/x.c2", "d/x.c3", "d/e/y", "d/e/y.c", "d/e/y.c2", "d/e/y.c3"}
    Dirs = {"d", "d/e"}
    Parent <- NestedParent
    Above <- NestedAbove
    Copies <- NestedCopies
    UserKeys = {"d/x", "d/e/y"}
    Size <- DistinctSizes
    Second <- OwnSecond
    MaxMoves = 4
    MaxFaults = 1
    Faults = {"abort", "call", "manifest"}
    Busy = {}
    CreateDenied = {Root}
    DeleteDenied = {"d"}
INVARIANTS TreesClosed FoldersSettle
PROPERTIES PromiseKept

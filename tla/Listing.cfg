SPECIFICATION SiSpec
CONSTANTS
    Folders = {"r", "a", "b", "c", "d", "e"}
    Root = "r"
    Subfolders <- Tree
    Requests <- Both
    MaxActive = 2
    MaxFailures = 2
    SiFiles = {"x1", "x2", "x3", "x4"}
    SiOrders <- Orders
    SiShapes <- Shapes
    SiAtFirst <- AtFirst
    SiPage = 4
    SiCaps = {2, 4}
    SiChanges = 2
INVARIANTS SiTypeOK SlotsUsed ListingTells
PROPERTIES ListingEnds
CHECK_DEADLOCK FALSE

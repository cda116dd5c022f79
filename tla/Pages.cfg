SPECIFICATION Spec
CONSTANTS
    RvFiles = {"a", "b", "c"}
    RvKind <- Kind
    RvPages = 2
    RvStatuses = {"approved"}
    RvLinks <- Links
    RvClicks = 3
    RvFlying = 1
    SpClicks = 2
    SpRuns = 1
    SpPolls = 2
    UpSessions = 2
    UpClicks = 3
    UpFlying = 2
    UpUploads = 1
    HmPupils = {"p", "q"}
    HmIncidents = 1
    HmClicks = 3
    HmFlying = 2
    CgKeys = {"k"}
    CgMaxFails = 2
    CgLock = 2
    CgWithin = 3
    CgCount = 2
    CgMaxEvents = 3
    CgHorizon = 6
    AlAccesses <- Viewing
    AlFold = 2
    AlRetention = 4
    AlMax = 3
    AlHorizon = 6
INVARIANTS PagesTypeOK PanesTell NotesTell CodesTell HomeTells GuardHolds AccessesFound
PROPERTIES BarGoes DashCatchesUp OnlyAsShown
CHECK_DEADLOCK FALSE

SPECIFICATION FairSpec
CONSTANTS
    Browsers = {b1, b2}
    Timer = Timer
    Courses = {k1}
    Uploads = {u1}
    None = None
    IdleLimit = 2
    SyncEvery = 2
    RetainEvery = 1
    Duration = 2
    MaxFailures = 1
INVARIANTS TypeOK OneRun
PROPERTIES RemovedStaysRemoved CookiesDie LockedInTheEnd RunsEnd

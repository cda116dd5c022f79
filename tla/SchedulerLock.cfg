SPECIFICATION Spec
CONSTANTS
    Browsers = {b1}
    Timer = Timer
    Courses = {k1}
    Uploads = {u1}
    None = None
    IdleLimit = 2
    SyncEvery = 2
    RetainEvery = 2
    Duration = 2
    MaxFailures = 0
PROPERTIES LockDeferred

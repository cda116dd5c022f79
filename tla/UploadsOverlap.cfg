SPECIFICATION Spec
CONSTANTS
    Sessions = {"s1"}
    Dirs = {"d1"}
    Dest <- TwoSessions
    Uploads = {"u1", "u2"}
    Into <- IntoFirst
    Pupil <- SamePupil
    Batch <- Names
    None = None
    MaxClock = 1
    MaxFaults = 0
    MaxErasures = 0
PROPERTIES EntriesKept

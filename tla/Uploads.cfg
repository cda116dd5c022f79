SPECIFICATION FairSpec
CONSTANTS
    Sessions = {"s1"}
    Dirs = {"d1"}
    Dest <- TwoSessions
    Uploads = {"u1", "u2"}
    Into <- IntoFirst
    Pupil <- SamePupil
    Batch <- Singles
    None = None
    MaxClock = 1
    MaxFaults = 1
    MaxErasures = 1
INVARIANTS TypeOK FilesFindable NotesBelong
PROPERTIES NoOverwrite RecordsKept ErasureComplete Answered OldDataGoes

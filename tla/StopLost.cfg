SPECIFICATION FairSpec
CONSTANTS
    s1 = s1
    Sessions = {s1}
    NoSession = NoSession
    MaxPending = 1
    MayCancel = FALSE
CHECK_DEADLOCK FALSE
PROPERTY
    StopEndsDaemon

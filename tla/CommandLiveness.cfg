SPECIFICATION FairSpec
CONSTANTS
    s1 = s1
    s2 = s2
    Sessions = {s1, s2}
    NoSession = NoSession
    MaxPending = 2
    MayCancel = FALSE
PROPERTIES
    StopHeard
    StartNoticed
    WaitersServed
CHECK_DEADLOCK FALSE

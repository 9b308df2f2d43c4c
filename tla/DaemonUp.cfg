
SPECIFICATION Spec
CONSTANTS
    s1 = s1
    Sessions = {s1}
    NoSession = NoSession
    MaxPending = 1
    MayCancel = FALSE
INVARIANT
    DaemonUpWhenActing
CHECK_DEADLOCK FALSE

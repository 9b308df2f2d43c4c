SPECIFICATION Spec
CONSTANTS
    s1 = s1
    s2 = s2
    Sessions = {s1, s2}
    NoSession = NoSession
    MaxPending = 1
    MayCancel = TRUE
SYMMETRY SessionSymmetry
INVARIANTS
    TypeOK
    LiveOnlyUnderHolder
    OpenWhileLive
    NoLostWakeup
    OwnSocketOnly
    HolderGoesOn
PROPERTIES
    DeviceKeptUntilOwnEnd
    LeaseSpec
CHECK_DEADLOCK FALSE

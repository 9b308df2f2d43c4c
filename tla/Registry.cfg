SPECIFICATION FairSpec
CONSTANTS
    d1 = d1
    d2 = d2
    c1 = c1
    c2 = c2
    r1 = r1
    Devices = {d1, d2}
    Clients = {c1, c2}
    Compatible = {c1}
    Requests = {r1}
    None = None
INVARIANTS
    TypeOK
    ListFollowsDevices
    AllowedIsGranted
    GrantIsNoticed
    DeniedByUserOnly
    ClientUpToDate
PROPERTY
    DeviceShown
CHECK_DEADLOCK FALSE

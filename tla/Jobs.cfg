SPECIFICATION FairSpec
CONSTANTS
    i1 = i1
    i2 = i2
    c1 = c1
    Installs = {i1, i2}
    Checks = {c1}
    None = None
INVARIANTS
    TypeOK
    OwnPackage
    PackageInPlace
    FilesRemoved
    HandlesReleased
PROPERTY
    Answered
CHECK_DEADLOCK FALSE

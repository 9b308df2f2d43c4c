SPECIFICATION FairSpec
CONSTANTS
    MaxEntries = 3
    MaxSize = 5
    BufferSize = 2
    Width = 4
INVARIANTS
    TypeOK
    FirstApplication
    SameLength
    CopyOfPackage
    AllSentIsTrue
    EndIsTold
    FilesClosed
PROPERTIES
    ProgressGrows
    ImplementsInstaller
    UploadEnds
CHECK_DEADLOCK FALSE

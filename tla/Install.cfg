SPECIFICATION FairSpec
CONSTANTS
    Kinds = {"ipa", "ipcc", "dir"}
    Chunks = 2
    MaxCalls = 3
INVARIANTS
    TypeOK
    ResultTellsAnswer
    NoStrayStatus
    ConnectionsReleasedOnce
    NoBufferSkipped
PROPERTY
    AnsweredCallEnds
CHECK_DEADLOCK FALSE

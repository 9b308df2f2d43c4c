SPECIFICATION FairSpec
CONSTANTS
    Kinds = {"ipa"}
    Chunks = 1
    MaxCalls = 1
PROPERTY
    RemovedPhoneEndsCall
CHECK_DEADLOCK FALSE

SPECIFICATION Spec
CONSTANTS
    Kinds = {"ipa"}
    Chunks = 1
    MaxCalls = 2
INVARIANT
    StaticsAreDefaults
CHECK_DEADLOCK FALSE

SPECIFICATION Spec
CONSTANTS
    Kinds = {"ipa"}
    Chunks = 1
    MaxCalls = 1
INVARIANT
    SuccessIsCompletion
CHECK_DEADLOCK FALSE

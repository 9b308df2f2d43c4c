SPECIFICATION Spec
CONSTANTS
    MaxEntries = 3
    MaxSize = 5
    BufferSize = 2
    Width = 4
INVARIANT
    StrayEntrySkipped
CHECK_DEADLOCK FALSE

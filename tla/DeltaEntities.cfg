CONSTANTS
    UPDATE_BACKUP = 4
    MaxSeq = 8
SPECIFICATION Spec
INVARIANTS RightFrame
PROPERTIES FeedsSnapshots
CHECK_DEADLOCK FALSE

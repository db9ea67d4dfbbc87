CONSTANTS
    MaxSize = 3
    MAX_BACK_BUFFERS = 2
    Sizes = {1, 2}
    MaxWrites = 5
SPECIFICATION Spec
PROPERTIES DroppedForGood
CHECK_DEADLOCK FALSE

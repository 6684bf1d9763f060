SPECIFICATION Spec
CONSTANTS
    Limit = 3
    MaxText = 7
INVARIANTS PiecesInOrder
CHECK_DEADLOCK FALSE

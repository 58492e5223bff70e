SPECIFICATION Spec
CONSTANTS
    Rows = {r1, r2, r3, r4}
    Flushes = {f1}
    Closes = {c1, c2}
    QueueMax = 1
    BatchMax = 2
    None = None
SYMMETRY RowSymmetry
INVARIANTS
    InOrder
    FlushCovers
    CloseCovers
    NoSendOnClosed
    BacklogBounded
    CallsSettle
CHECK_DEADLOCK FALSE

SPECIFICATION MCSpec
CONSTANTS
    Workers = {w1}
    Operators = {o1}
    Enrollments = {e1, e2}
    Pids = {p1, p2}
    None = None
    MaxRuns = 2
    MaxOrders = 1
SYMMETRY Symmetry
INVARIANTS
    TypeOK
    ShownWhole
    BookedOnce
    RetiredHasPacket
    VouchedByPreflight
    OnePreflight
PROPERTIES
    ShownInOrder
CHECK_DEADLOCK FALSE

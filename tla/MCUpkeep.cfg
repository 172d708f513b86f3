SPECIFICATION MCSpec
\* The bounds on deaths, stamps and events end a behaviour.
CHECK_DEADLOCK FALSE
CONSTANTS
    p1 = p1
    p2 = p2
    own = own
    other = other
    k1 = k1
    k2 = k2
    b1 = b1
    b2 = b2
    None = None
    Absent = Absent
    Torn = Torn
    Empty = Empty
    Lease = Lease
    Whole = Whole
    Procs = {p1, p2}
    Own = own
    Works = {own, other}
    Packets = {k1, k2}
    Returns = {b1, b2}
    Subjects = {1, 2}
    GroupSize = 1
    Tasks = {own}
    MaxChanges = 2
    MaxCrashes = 2
    MaxStamp = 4
    MaxTurns = 1
    MaxEvents = 2
    MaxStages = 4
    MaxMoves = 2
INVARIANTS ScratchConsistent TreeStaysOwned ManualConsistent ReconciliationConsistent
PROPERTIES RemovalSettles TreesKept StageForward JudgmentsKept

SPECIFICATION Spec
\* A settled task rests.
CHECK_DEADLOCK FALSE
CONSTANTS
    p1 = p1
    k1 = k1
    b1 = b1
    None = None
    Absent = Absent
    Torn = Torn
    Whole = Whole
    Procs = {p1}
    Packets = {k1}
    Returns = {b1}
    MaxCrashes = 1
    MaxStages = 4
    MaxMoves = 0
INVARIANTS TaskReadable

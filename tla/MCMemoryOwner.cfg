SPECIFICATION MCSpec
\* Processes rest when the invocations are used up.
CHECK_DEADLOCK FALSE
SYMMETRY MCSymmetry
CONSTANTS
    p1 = p1
    p2 = p2
    n1 = n1
    n2 = n2
    c1 = c1
    c2 = c2
    t1 = t1
    v1 = v1
    v2 = v2
    v3 = v3
    None = None
    Absent = Absent
    Torn = Torn
    Admitted = Admitted
    Done = Done
    Procs = {p1, p2}
    Advice = {n1}
    Decisions = {n2}
    Contents = {c1, c2}
    Tasks = {t1}
    Outcomes <- MCOutcomes
    Effects = {1, 2, 3}
    MaxCalls = 3
    MaxEdits = 1
    MaxCrashes = 1
    Tearing = TRUE
    Events = {v1, v2}
    Count = 1
    Age = 1
    MaxTime = 1
INVARIANTS MemoryConsistent CandidatesRecoverable
PROPERTIES SiblingsKept CommittedAsDecided LeaveKnowingly

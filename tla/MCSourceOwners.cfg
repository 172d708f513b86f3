SPECIFICATION MCSpec
\* Processes rest when the calls are used up.
CHECK_DEADLOCK FALSE
SYMMETRY MCSymmetry
CONSTANTS
    p1 = p1
    p2 = p2
    c1 = c1
    c2 = c2
    t1 = t1
    None = None
    Absent = Absent
    Torn = Torn
    Admitted = Admitted
    Done = Done
    Procs = {p1, p2}
    Kinds = {"configuration", "instructions", "system-intent"}
    Contents = {c1, c2}
    Tasks = {t1}
    Outcomes <- MCOutcomes
    Effects <- MCEffects
    MaxCalls = 2
    MaxEdits = 1
    MaxReturns = 1
    MaxCrashes = 1
    Tearing = TRUE
INVARIANTS SourcesConsistent
PROPERTIES LandsOnPreimage ResultsTrue

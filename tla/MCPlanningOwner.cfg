SPECIFICATION MCSpec
\* Processes rest when the plan has reached its bound.
CHECK_DEADLOCK FALSE
CONSTANTS
    p1 = p1
    p2 = p2
    m1 = m1
    m2 = m2
    None = None
    Absent = Absent
    Torn = Torn
    Admitted = Admitted
    Done = Done
    Edited = Edited
    Procs = {p1, p2}
    Materials = {m1, m2}
    Outcomes <- MCOutcomes
    Effects <- MCEffects
    MaxLength = 3
    MaxEdits = 1
    MaxTries = 1
    MaxCrashes = 2
    Tearing = TRUE
INVARIANTS PlanConsistent
PROPERTIES PostimageSettles ImplementsOwnerHistory RecoveryWritesNothing

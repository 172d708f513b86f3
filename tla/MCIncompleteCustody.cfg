SPECIFICATION Spec
\* Processes rest when nothing is offered and the bounds on the world are spent.
CHECK_DEADLOCK FALSE
CONSTANTS
    p1 = p1
    p2 = p2
    r1 = r1
    r2 = r2
    None = None
    Absent = Absent
    Torn = Torn
    Admitted = Admitted
    Done = Done
    Procs = {p1}
    Receipts = {r1, r2}
    Supersedes <- MCSupersedes
    Outcomes <- MCOutcomes
    Effects <- MCEffects
    Capacity = 2
    DieAt <- MCSeams
    Tearing = FALSE
    MaxCrashes = 1
    MaxChanges = 2
    MaxRetirements = 1
    MaxTries = 1

PROPERTY IncompleteCustodyKept

SPECIFICATION MCSpec
\* The bounds on edits and deaths end a behaviour: nothing else is left to do.
CHECK_DEADLOCK FALSE
SYMMETRY MCSymmetry
CONSTANTS
    p1 = p1
    p2 = p2
    d1 = d1
    d2 = d2
    f1 = f1
    f2 = f2
    None = None
    Absent = Absent
    Torn = Torn
    Admitted = Admitted
    Done = Done
    Procs = {p1, p2}
    Dispatches = {d1, d2}
    Prior <- MCPrior
    Files = {f1, f2}
    Effects <- MCEffects
    Outcomes <- MCOutcomes
    MaxEdits = 1
    MaxChanges = 1
    MaxCrashes = 1
    Tearing = TRUE
INVARIANTS FinishedWorkerRecoverable NothingElseInTheWay
PROPERTIES ImplementsDispatchOnce ReplacedAfterOutcome IntegratesWhole UsedWhileAssigned

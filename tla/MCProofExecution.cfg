SPECIFICATION FairSpec
CONSTANTS
    p1 = p1
    p2 = p2
    e1 = e1
    e2 = e2
    s1 = s1
    s2 = s2
    None = None
    Absent = Absent
    Torn = Torn
    Admitted = Admitted
    Procs = {p1, p2}
    Effects = {e1, e2}
    Subjects = {s1, s2}
    Reported = {}
    Statuses <- MCStatuses
    Outcomes <- MCOutcomes
    SubjectOf <- MCSubjectOf
    RepeatOf <- MCRepeatOf
INVARIANTS AtMostOneLaunch EvidenceComplete RepeatAfterTerminal
PROPERTIES ImplementsEffectOnce EveryAdmissionDecided

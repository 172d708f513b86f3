SPECIFICATION MCSpec
CONSTANTS
  c1 = c1
  c2 = c2
  unknown = unknown
  none = none
  Unknown = unknown
  None = none
  Callers <- MCCallers
  Contracts <- MCContracts
  Sources <- MCSources
  Owners <- MCOwners
  Domains <- MCDomains
  Answers = {0}
  Work = 0
  Retaining = {"reconcile"}
  Rank <- MCRank
  EnterFirst = {"reconcile-sources"}
  Intended <- MCIntended
  MaxChanges = 1
  MaxRepeats = 1
SYMMETRY Interchangeable
CHECK_DEADLOCK FALSE
INVARIANTS ReportsTrue GrantsUncontested
PROPERTIES PerformedAsOffered ReadyStayReady

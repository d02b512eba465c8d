\* Two editors, one handler at a time, with deletions.
CONSTANTS
  a = a  b = b  x = x  s1 = s1  s2 = s2
  Null = Null
  Entities <- TwoAndAWork
  Type <- TypeOf
  Related <- XRelated
  Sessions <- TwoSessions
  MaxCommits = 3
  MaxInFlight = 1
  OnePage = FALSE
  Deletions = TRUE
SPECIFICATION Spec
SYMMETRY EditorSymmetry
CHECK_DEADLOCK FALSE
INVARIANTS
  QueueOneType
  RedirectsAcyclic

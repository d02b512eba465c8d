\* One editor, one type with one of two attributes; three requests, two at a time, and
\* two connections; one statement fails and one crash.
CONSTANTS
  Workers = {w1, w2}
  PoolSize = 2
  Privs = {p, q}
  Labels = {l, m}
  Attributes = {a, b}
  FirstPrivs = p
  FirstLabel = l
  FirstAttributes = {a}
  MaxRequests = 3
  MaxFaults = 1
  MaxCrashes = 1
SPECIFICATION Spec
CHECK_DEADLOCK FALSE
INVARIANTS
  NothingOverwritten
PROPERTIES
  KeptOnlyWhen
  TypeAsAsked
  Answered

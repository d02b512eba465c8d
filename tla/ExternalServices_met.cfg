\* Two pages, two requests at a time and four in all, one fault.
CONSTANTS
  NoPage = NoPage
  Pages = {p1, p2}
  Jobs = {j1, j2}
  MaxRequests = 4
  MaxFaults = 1
SPECIFICATION Spec
CHECK_DEADLOCK FALSE
INVARIANTS
  ReviewsHold
PROPERTIES
  TokensKept
  AnsweredOrCut

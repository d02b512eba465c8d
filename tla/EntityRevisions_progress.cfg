\* Every submitted request ends.
CONSTANTS
  e1 = e1  e2 = e2  e3 = e3  n1 = n1  n2 = n2  bob = bob
  r1 = r1  r2 = r2  r3 = r3
  Null = Null  Absent = Absent
  Entities <- TwoEntities
  Names <- TwoNames
  Editors <- OneEditor
  Requests <- TwoRequests
  Seed <- SeedTwo
  SeedEditor = bob
  SeedName = n1
  MaxRevision = 4
  MaxInFlight = 2
  Verdicts <- ValidOrNot
  Outages = FALSE
SPECIFICATION FairSpec
CHECK_DEADLOCK FALSE
PROPERTY RequestsEnd

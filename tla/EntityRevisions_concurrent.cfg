\* Three requests at a time, all interleavings, and outages.
CONSTANTS
  e1 = e1  e2 = e2  e3 = e3  n1 = n1  n2 = n2  bob = bob
  r1 = r1  r2 = r2  r3 = r3
  Null = Null  Absent = Absent
  Entities <- TwoEntities
  Names <- TwoNames
  Editors <- OneEditor
  Requests <- ThreeRequests
  Seed <- SeedOne
  SeedEditor = bob
  SeedName = n1
  MaxRevision = 4
  MaxInFlight = 3
  Verdicts <- Valid
  Outages = TRUE
SPECIFICATION Spec
SYMMETRY RequestSymmetry
CHECK_DEADLOCK FALSE
INVARIANTS
  TypeOK
  MasterIsOwnRevision
  AncestryWellFounded
  NothingRecordedTwice
PROPERTIES
  StoreImplemented

\* One request at a time: what the handlers do when they do not overlap. Or: three entities,
\* five revisions, lists read two by two; two collections, read one by one, of which one is
\* changed meanwhile; two versions of a set of two; two requests to the web service, one
\* change and one fault; two or three types, two saves and two changes.
CONSTANTS
  e1 = e1  e2 = e2  e3 = e3  n1 = n1  n2 = n2  bob = bob
  r1 = r1  r2 = r2  r3 = r3
  Null = Null  Absent = Absent
  Entities <- ThreeEntities
  Names <- TwoNames
  Editors <- OneEditor
  Requests <- ThreeRequests
  Seed <- SeedTwo
  SeedEditor = bob
  SeedName = n1
  MaxRevision = 5
  MaxInFlight = 1
  Verdicts <- ValidOrNot
  Outages = FALSE
  Bbids = {"a", "b", "c"}
  Writers = {"x"}
  MostRevisions = 5
  Sizes = {2}
  MaxUrls = 9
  MaxAsked = 9
  Members = {"m1", "m2", "m3"}
  Readers = {"m1", "m2"}
  MaxTouches = 1
  Scalars = {0, 1, 2}
  Labels = {"a", "b"}
  MaxItems = 2
  AskedTypes = {"Work", "Edition", "EditionGroup"}
  AskedParams = {"format"}
  LookedUp = {"x"}
  ApiRequests = {1, 2}
  MaxEdits = 1
  MaxFaults = 1
  EntityKinds = {"A", "B"}
  FirstKind = "A"
  ChildOrders = {0, 1}
  MaxSaves = 2
  MaxChanges = 2
SPECIFICATION ReadersSpec
SYMMETRY RequestSymmetry
CHECK_DEADLOCK FALSE
INVARIANTS
  EditsCounted
  RelationshipsSymmetric
  IndexFresh
  ReadersHold
PROPERTIES
  HistoryLinear
  DeletionsHold

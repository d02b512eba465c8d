\* An owner, another editor, one collection, two entities of one of two types; three
\* requests, two at a time.
CONSTANTS
  c = c  o = o  x = x  a1 = a1  a2 = a2  A = A  B = B  w1 = w1  w2 = w2
  Null = Null  Gone = Gone
  Ids <- OneCollection
  Editors <- TwoEditors
  Entities <- TwoEntities
  Types <- TwoTypes
  TypeOf <- AllOfA
  Workers <- TwoWorkers
  MaxRequests = 3
SPECIFICATION Spec
CHECK_DEADLOCK FALSE
SYMMETRY Symmetry
INVARIANTS
  CollectionsHold
PROPERTIES
  MembersOnly

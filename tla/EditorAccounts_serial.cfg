\* Two accounts; one is older than the deliveries, and its owner
\* registers; requests one at a time.
CONSTANTS
  u1 = u1  u2 = u2  b1 = b1  w1 = w1  w2 = w2  n1 = n1  n2 = n2  d1 = d1
  Null = Null
  Deleted = Deleted
  Users <- TwoUsers
  Browsers <- OneBrowser
  Workers <- OneWorker
  Names <- TwoNames
  DisplayNames <- OneDisplayName
  MaxEditors = 3
  MaxDeliveries = 3
  Older <- OneOfTwo
  Registrants <- OneOfTwo
  Linking = FALSE
SPECIFICATION FairSpec
CHECK_DEADLOCK FALSE
INVARIANTS
  OneEditorPerUser
  CaughtUp
PROPERTIES
  DeletedStaysDeleted
  DeliveriesEnd

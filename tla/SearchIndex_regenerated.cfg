\* An author, a work by her, an edition group and a collection; two changes,
\* one regeneration asked for, one outage or crash.
CONSTANTS
  a = a  w = w  g = g  c = c
  site = site  api = api
  NoDoc = NoDoc
  Processes <- SiteOnly
  Site = site
  Authors <- OneAuthor
  Works <- OneWork
  Groups <- OneGroup
  AuthorOf <- ByAuthor
  Collections <- OneCollection
  MaxWrites = 2
  MaxReindex = 1
  MaxFaults = 1
SPECIFICATION FairSpec
CHECK_DEADLOCK FALSE
INVARIANTS
  FreshUnlessExcused
  MappedUnlessOverlapped
PROPERTIES
  CopyImplemented
  ReindexEnds

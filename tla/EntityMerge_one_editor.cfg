\* One editor who opens one page at a time; and one page, for two or three entities, with
\* two options chosen. A collection of at most two entities, one by the page; a search with
\* three results, one or two by the page, and a text that reads as it; two results of two
\* types, a collection of each type and one that is made.
CONSTANTS
  Null = Null
  Entities <- FiveEntities
  Type <- TypeOf
  Related <- WorksRelated
  Sessions = {s1}
  MaxCommits = 3
  MaxInFlight = 1
  OnePage = TRUE
  Deletions = FALSE
  Bbids <- ThreeBbids
  Linked <- ThreeLinked
  MaxPicks = 2
  CollectionSizes = {1}
  Sizes = {1, 2}
  MaxUrls = 2
  CollectionAsked = 1
  MaxAsked = 2
  Things = {"a", "b"}
  NoThing = "none"
  MaxPosts = 1
  MaxRows = 2
  Texts = {"x", "x&y"}
  SearchTypes = {"author"}
  Reads <- ReadAs
  Hits <- SomeHits
  Results = {"a", "b"}
  Kind <- KindOfHit
  EntityKinds = {"A", "B"}
  Old = {"ca", "cb"}
  New = {"n"}
  KindOf <- KindOfOld
  MaxAsks = 1
  MaxBatches = 2
SPECIFICATION PagesSpec
CHECK_DEADLOCK FALSE
CONSTRAINT StillTold
INVARIANTS
  RedirectedAreGone
  MergesKeepAll
  PagesHold

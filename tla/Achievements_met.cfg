\* Two changes of entities and the visit of one, on two days, two requests at a time; one
\* tier of each track, with a title for Revisionist's; two ranks and two forms; one crash.
CONSTANTS
  Revisionist = Revisionist  Creator = Creator  FunRunner = FunRunner  Explorer = Explorer
  r1 = r1  c1 = c1  f1 = f1  e1 = e1  ct = ct
  x = x  w1 = w1  w2 = w2
  NoTitle = NoTitle  NoAward = NoAward
  Awards <- AllAwards
  Titles <- OneTitle
  Tiers <- SmallTiers
  Window = 1
  Entities <- OneEntity
  MaxRank = 2
  Workers <- TwoWorkers
  Listed <- TwoListed
  MaxEdits = 2
  MaxDay = 1
  MaxPosts = 2
  MaxCrashes = 1
SPECIFICATION Spec
CHECK_DEADLOCK FALSE
SYMMETRY Symmetry
INVARIANTS
  UnlockedAsEarned
PROPERTIES
  RanksAsAsked

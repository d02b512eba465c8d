\* The unified form: two modals of any type, two works, two submissions, with one
\* statement that fails, one answer that gets lost and one revision of another editor.
\* The editor of one entity: a name that another entity has and one that none has, an
\* alias, a relationship with the second number of those that the page gives, and three
\* times something typed, added, saved, removed or undone.
\* The author credit: two authors, and four times a row added, removed or filled in, or
\* the credit turned off or on. The items of a series: two works, of which the second has
\* the larger id, and three times one added, numbered, dragged or removed, or a field
\* changed. The fields of a type: two editors, two fields that they change and two
\* submissions. The dialog for a relationship: three works, an author and two series, of
\* which two of a type are remembered, and four times something opened, chosen, typed or
\* pasted. The identifiers: those of an entity and of the unified form, texts of which
\* one is a link and some are ISBNs, and a few times something typed, chosen, ticked,
\* added or removed.
CONSTANTS
  None = None
  Types <- AllTypes
  MaxModals = 2
  MaxChoices = 2
  MaxSubmits = 2
  MaxFaults = 1
  MaxEdits = 1
  Texts = {blank, taken, free}
  NoText = blank
  Taken = {taken}
  FirstName = free
  OldAliases = {5}
  OldRows = {1}
  MaxActs = 3
  People <- Authors
  Pen = Pen
  OldCredit <- AuthorsInOrder
  MaxSteps = 4
  ItemsOf <- AuthorsAndWorks
  OldItems <- WorksInOrder
  OldIds <- IdsInOrder
  Ordinals = {1}
  MaxMoves = 3
  FieldEditors = {ed, eve}
  MaxPicks = 2
  MaxAnswers = 2
  Bases = {"odes", "poems"}
  Things <- ThingsToFind
  KindOf <- Kinds
  SeriesOf <- SeriesTypes
  KindsInOrder <- KindsByName
  RelTypes <- RelationTypes
  OldRelations <- OldRelationsOf
  Numerals = {"1"}
  MaxRecent = 2
  MaxTurns = 4
  MaxTaps = 4
SPECIFICATION FormsSpec
CHECK_DEADLOCK FALSE
INVARIANTS
  FormsHold
PROPERTIES
  BatchesHold
  FormsEnd
  SavedAsMeant

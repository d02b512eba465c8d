---------------------------- MODULE SeriesEditor ----------------------------
(***************************************************************************)
(* The items of a series on its page                                       *)
(* (src/client/entity-editor/series-section): chosen, numbered, dragged    *)
(* and removed, and shown by their numbers or in the order they were       *)
(* dragged to. They are relationships of one type for each type of entity, *)
(* kept apart from the others on the page and saved together with them.    *)
(*                                                                         *)
(* A row has 'n' and a number for a key: the id of its relationship, or    *)
(* the next number of a counter that starts at 0.                          *)
(***************************************************************************)
EXTENDS Naturals, FiniteSets, SequencesExt

CONSTANTS
  None,
  ItemsOf,   \* entities by their type
  OldItems,  \* those of the series that is edited, in the order of their ids
  OldIds,    \* the ids, in that order
  Ordinals,  \* numbers that are typed
  MaxMoves    \* bound: what is done to the items, and to the two fields

VARIABLES
  orderType,   \* by number, or in the order given
  seriesType,
  items,       \* seriesItems: rows in the order of the map
  picked,      \* seriesItem, targetEntity: what the search field has
  nextItem,    \* nextRowID
  held,        \* the items of the series
  shownLast,   \* history: entities with their numbers, as they were shown when the page was saved
  clashed,     \* history: a new row has taken the key of another
  disturbed,   \* history: items of the series were moved, or got new neighbours in their order
  switched,    \* history: the type was changed with an entity of another type in the search field
  moves        \* what the bound counts

vars == <<orderType, seriesType, items, picked, nextItem, held, shownLast, clashed, disturbed, switched, moves>>

SeriesTypes == DOMAIN ItemsOf
Entities == UNION {ItemsOf[t] : t \in SeriesTypes}
Orders == {"automatic", "manual"}

Item == [entity : Entities, number : Ordinals \cup {None}, position : Nat \cup {None}]
Row == [key : Nat, item : Item, added : BOOLEAN, removed : BOOLEAN]

\* The relationships of types 70 to 74 are the items.
ToItems(theItems) ==
  [i \in DOMAIN theItems |-> [key |-> OldIds[i], item |-> theItems[i], added |-> FALSE, removed |-> FALSE]]

OldSeries ==
  [i \in DOMAIN OldItems |-> [entity |-> OldItems[i], number |-> None, position |-> i - 1]]

Init ==
  /\ orderType \in Orders /\ seriesType \in SeriesTypes
  /\ held \in {<<>>, OldSeries}
  /\ \A i \in DOMAIN held : held[i].entity \in ItemsOf[seriesType]
  /\ items = ToItems(held)
  /\ picked = None /\ nextItem = 0
  /\ shownLast = None
  /\ clashed = FALSE /\ disturbed = FALSE /\ switched = FALSE
  /\ moves = 0

----------------------------------------------------------------------------
(* Order.                                                                  *)

\* What has no number, or no position, comes first.
Ordinal(value) == IF value = None THEN 0 ELSE value + 1
Rank(item, order) == Ordinal(IF order = "automatic" THEN item.number ELSE item.position)

\* sortRelationshipOrdinal, with a sort that leaves equals in their order.
Sorted(rows, order) ==
  LET Before(i, j) ==
        LET a == Rank(rows[i].item, order) b == Rank(rows[j].item, order)
        IN  a < b \/ (a = b /\ i < j)
      Place(i) == 1 + Cardinality({j \in DOMAIN rows : Before(j, i)})
  IN  [p \in DOMAIN rows |-> rows[CHOOSE i \in DOMAIN rows : Place(i) = p]]

Moved(rows, old, new) == InsertAt(RemoveAt(rows, old), new, rows[old])

Numbered(rows) == [i \in DOMAIN rows |-> [rows[i] EXCEPT !.item.position = i - 1]]

\* sortSeriesItems: it moves the first row to the first place when no places are given,
\* and fails when there is none.
SortItems(rows, order, old, new) ==
  IF rows = <<>> THEN rows ELSE Numbered(Moved(Sorted(rows, order), old, new))

Resorted(rows, order) == SortItems(rows, order, 1, 1)

Shown(rows, order) == SelectSeq(Sorted(rows, order), LAMBDA row : ~row.removed)

----------------------------------------------------------------------------
(* The reducer.                                                            *)

HasKey(rows, key) == \E i \in DOMAIN rows : rows[i].key = key

\* A row with the key of another takes its place.
WithRow(rows, row) ==
  IF HasKey(rows, row.key)
  THEN [i \in DOMAIN rows |-> IF rows[i].key = row.key THEN row ELSE rows[i]]
  ELSE Append(rows, row)

Without(rows, key) == SelectSeq(rows, LAMBDA row : row.key # key)

\* Wrong: an item of the series is taken from the page.
RemovedItem_Taken(rows, key) == Without(rows, key)

\* A row of the page goes; an item of the series is marked.
RemovedItem(rows, key) ==
  IF \E i \in DOMAIN rows : rows[i].key = key /\ rows[i].added THEN Without(rows, key)
  ELSE [i \in DOMAIN rows |-> IF rows[i].key = key THEN [rows[i] EXCEPT !.removed = TRUE] ELSE rows[i]]

AddedItem(rows, entity) ==
  WithRow(rows, [key |-> nextItem, added |-> TRUE, removed |-> FALSE,
                 item |-> [entity |-> entity, number |-> None, position |-> None]])

\* A number is that of a new row, which replaces the one it was typed in.
EditedItem(rows, row, number) ==
  RemovedItem(
    WithRow(rows, [row EXCEPT !.key = nextItem, !.added = TRUE, !.item.number = number]), row.key)

----------------------------------------------------------------------------
(* The section.                                                            *)

OnPage == shownLast = None
Move == OnPage /\ moves < MaxMoves /\ moves' = moves + 1
OnSeries(rows) == \E i \in DOMAIN rows : ~rows[i].added

ChooseOrder(order) ==
  /\ order # orderType /\ Move
  /\ orderType' = order
  /\ items' = IF order = "automatic" THEN Resorted(items, order) ELSE items
  /\ UNCHANGED <<seriesType, picked, nextItem, held, shownLast, clashed, disturbed, switched>>

\* Wrong: the type can be changed whatever is in the series.
CanChooseType_Always == TRUE

\* Rows that are marked count as well.
CanChooseType == items = <<>>

ChooseType(type) ==
  /\ CanChooseType /\ type # seriesType /\ Move
  /\ seriesType' = type
  /\ switched' = (switched \/ picked # None)
  /\ UNCHANGED <<orderType, items, picked, nextItem, held, shownLast, clashed, disturbed>>

\* The search finds entities of the type that the series has now.
Pick(entity) ==
  /\ entity \in ItemsOf[seriesType] /\ picked # entity /\ OnPage
  /\ picked' = entity
  /\ UNCHANGED <<orderType, seriesType, items, nextItem, held, shownLast, clashed, disturbed, switched, moves>>

Fresh(rows) ==
  /\ items' = Resorted(rows, orderType)
  /\ clashed' = (clashed \/ HasKey(items, nextItem))
  /\ disturbed' = (disturbed \/ (OnSeries(items) /\ orderType = "manual"))
  /\ nextItem' = nextItem + 1

Add ==
  /\ picked # None /\ Move
  /\ Fresh(AddedItem(items, picked))
  /\ picked' = None
  /\ UNCHANGED <<orderType, seriesType, held, shownLast, switched>>

TypeNumber(row, number) ==
  /\ ~row.removed /\ row.item.number # number /\ Move
  /\ Fresh(EditedItem(items, row, number))
  /\ UNCHANGED <<orderType, seriesType, picked, held, shownLast, switched>>

RemoveItem(row) ==
  /\ ~row.removed /\ Move
  /\ items' = RemovedItem(items, row.key)
  /\ UNCHANGED <<orderType, seriesType, picked, nextItem, held, shownLast, clashed, disturbed, switched>>

\* A row is dragged to the place of another, among all that there are.
Drag(old, new) ==
  /\ orderType = "manual" /\ {old, new} \subseteq DOMAIN items /\ old # new
  /\ LET rows == Sorted(items, orderType) IN ~rows[old].removed /\ ~rows[new].removed
  /\ Move
  /\ items' = SortItems(items, orderType, old, new)
  /\ disturbed' = (disturbed \/ OnSeries(items))
  /\ UNCHANGED <<orderType, seriesType, picked, nextItem, held, shownLast, clashed, switched>>

Gone(rows) == {rows[i].key : i \in {j \in DOMAIN rows : rows[j].removed}}
KeptRows(rows) == SelectSeq(ToItems(held), LAMBDA row : row.key \notin Gone(rows))
NewRows(rows) == SelectSeq(rows, LAMBDA row : row.added /\ ~row.removed)

\* Wrong: new items come before those of the series.
NextItems_NewFirst(rows) ==
  LET all == NewRows(rows) \o KeptRows(rows) IN [i \in DOMAIN all |-> all[i].item]

\* What the relationships of the series are when it is saved: of those it has, the ones
\* that are not marked, as they were; and the new ones.
NextItems(rows) ==
  LET all == KeptRows(rows) \o NewRows(rows) IN [i \in DOMAIN all |-> all[i].item]

Signs(rows) == [i \in DOMAIN rows |-> <<rows[i].item.entity, rows[i].item.number>>]

Save ==
  /\ OnPage
  /\ held' = NextItems(items)
  /\ shownLast' = Signs(Shown(items, orderType))
  /\ UNCHANGED <<orderType, seriesType, items, picked, nextItem, clashed, disturbed, switched, moves>>

Next ==
  \/ \E order \in Orders : ChooseOrder(order)
  \/ \E type \in SeriesTypes : ChooseType(type)
  \/ \E entity \in Entities : Pick(entity)
  \/ Add
  \/ \E row \in ToSet(items) :
       \/ \E number \in Ordinals \cup {None} : TypeNumber(row, number)
       \/ RemoveItem(row)
  \/ \E old, new \in 1 .. (Len(OldItems) + MaxMoves) : Drag(old, new)
  \/ Save

Spec == Init /\ [][Next]_vars

----------------------------------------------------------------------------
(* Properties.                                                             *)

\* Rows are rows, and the items are entities with numbers and places.
TypeOK ==
  /\ orderType \in Orders /\ seriesType \in SeriesTypes
  /\ items \in Seq(Row) /\ held \in Seq(Item)
  /\ picked \in Entities \cup {None}
  /\ nextItem \in Nat /\ moves \in 0 .. MaxMoves
  /\ clashed \in BOOLEAN /\ disturbed \in BOOLEAN /\ switched \in BOOLEAN

\* The items in the order in which they will be shown.
ShownAgain ==
  Signs(Sorted([i \in DOMAIN held |-> [item |-> held[i]]], orderType))

\* The items that are saved are those that the page showed, with their numbers, unless
\* the key of a new row was that of another.
ItemsAsShown ==
  shownLast # None /\ ~clashed =>
    /\ Len(held) = Len(shownLast)
    /\ ToSet(ShownAgain) = ToSet(shownLast)

\* And they are shown in the same order again. It is not so when items of the series
\* were dragged or, in an order that was given, got new neighbours: the places of those
\* that were there are not saved.
OrderAsShown ==
  shownLast # None /\ ~clashed /\ ~disturbed => ShownAgain = shownLast

\* All items are of the type of the series, unless the type was changed after an entity
\* was chosen and before it was added.
ItemsOfItsType ==
  ~switched => \A i \in DOMAIN held : held[i].entity \in ItemsOf[seriesType]

SeriesHolds == ItemsAsShown /\ OrderAsShown /\ ItemsOfItsType
=============================================================================

-------------------------- MODULE CollectionLists --------------------------
(***************************************************************************)
(* The lists of collections: all that are public, those changed last       *)
(* first; and an editor's, those made first first, of which others see the *)
(* public ones (server/helpers/collections.js, components/pages/           *)
(* collections.js, parts/collections-table.js). Both can be narrowed to a  *)
(* type of entities. Collections change while somebody reads.              *)
(***************************************************************************)
EXTENDS ListReader

CONSTANTS
  Made,          \* collections there may be, in the order of created_at
  Members,       \* editors
  Readers,       \* those of them who look at lists
  EntityTypes,
  MaxTouches     \* bound: changes of collections

VARIABLES
  collections,   \* those there are: owner, collaborators, type, whether public
  changed,       \* the order of last_modified
  touched,       \* history: what was changed while the list is read
  spoiled,       \* history: something left the list, or is in it more than once
  touches        \* what the bound counts

collectionVars == <<collections, changed, touched, spoiled, touches>>
listVars == <<collectionVars, readerVars>>

There == DOMAIN collections

Init ==
  /\ LET owner == CHOOSE m \in Members : TRUE
     IN collections \in [ToSet(Made) -> [owner : {owner}, with : {{}, Members \ {owner}},
                                         type : EntityTypes, public : BOOLEAN]]
  /\ changed = Made
  /\ touched = {} /\ spoiled = FALSE /\ touches = 0
  /\ ReaderInit

----------------------------------------------------------------------------
\* A list: whose it is (or Nothing, of all), who reads, the type (or Nothing).
Fits(c, type) == type = Nothing \/ collections[c].type = type

\* Wrong: those changed last are at the end.
OfAll_OldestFirst(type) ==
  SelectSeq(changed, LAMBDA c : c \in There /\ collections[c].public /\ Fits(c, type))

\* getOrderedPublicCollections
OfAll(type) ==
  SelectSeq(Reverse(changed), LAMBDA c : c \in There /\ collections[c].public /\ Fits(c, type))

Belongs(c, editor) == editor \in {collections[c].owner} \cup collections[c].with

\* The rows that the join makes of a collection: one for each collaborator, for its owner.
Rows(c, editor) ==
  IF collections[c].owner = editor THEN Max({1, Cardinality(collections[c].with)})
  ELSE IF editor \in collections[c].with THEN 1 ELSE 0

\* getOrderedCollectionsForEditorPage
OfEditor(editor, reader, type) ==
  LET mine == SelectSeq(Made, LAMBDA c :
                c \in There /\ (collections[c].public \/ reader = editor) /\ Fits(c, type))
  IN FlattenSeq([n \in DOMAIN mine |-> [k \in 1..Rows(mine[n], editor) |-> mine[n]]])

ListOf(l) == IF l.of = Nothing THEN OfAll(l.type) ELSE OfEditor(l.of, l.reader, l.type)

Crowded(rows) == Len(rows) # Cardinality(ToSet(rows))

Lists == [of : Members \cup {Nothing}, reader : Readers, type : {Nothing}]

Starts(l) ==
  /\ touched' = {} /\ spoiled' = Crowded(ListOf(l))
  /\ UNCHANGED <<collections, changed, touches>>

Open(l, size) == OpenList(l, ListOf(l), size) /\ Starts(l)

\* handleTypeChange: other parameters, so the pager begins anew.
ChooseType(type) ==
  /\ list # Nothing /\ pager.asked = <<>> /\ type # list.type
  /\ LET l == [list EXCEPT !.type = type]
     IN First(l, ListOf(l), pager.size) /\ Starts(l)

Reads ==
  /\ Turn \/ Arrives(ListOf(list)) \/ Leave
  /\ UNCHANGED collectionVars

----------------------------------------------------------------------------
\* What becomes of collections while a list is read.
Touch(c) ==
  /\ list # Nothing /\ touches < MaxTouches /\ touches' = touches + 1
  /\ touched' = touched \cup {c}
  /\ UNCHANGED readerVars

\* An item is added or removed: last_modified is now.
ChangeItems(c) ==
  /\ c \in There /\ Touch(c)
  /\ changed' = Append(SelectSeq(changed, LAMBDA x : x # c), c)
  /\ UNCHANGED <<collections, spoiled>>

\* It is edited.
Edit(c, public, with) ==
  /\ c \in There /\ Touch(c)
  /\ collections' = [collections EXCEPT ![c].public = public,
                                         ![c].with = with \ {collections[c].owner}]
  /\ changed' = Append(SelectSeq(changed, LAMBDA x : x # c), c)
  /\ spoiled' = (spoiled \/ Len(ListOf(list)') # Len(ListOf(list)))

Delete(c) ==
  /\ c \in There /\ Touch(c)
  /\ collections' = [x \in There \ {c} |-> collections[x]]
  /\ changed' = SelectSeq(changed, LAMBDA x : x # c)
  /\ spoiled' = (spoiled \/ c \in ToSet(ListOf(list)))

Next ==
  \/ \E l \in Lists, size \in Sizes : Open(l, size)
  \/ \E type \in EntityTypes \cup {Nothing} : ChooseType(type)
  \/ Reads
  \/ \E c \in There : ChangeItems(c) \/ Delete(c)
  \/ \E c \in There, public \in BOOLEAN, with \in {{}, Members} : Edit(c, public, with)

----------------------------------------------------------------------------
\* Who reads a list of collections to its end has seen all that were in it when they began,
\* but for those changed meanwhile; unless one left the list before its end was reached, or
\* an editor reads of their own collections with several collaborators.
CollectionsAllRead == AtEnd /\ ~spoiled => there \ touched \subseteq seen

\* Nobody else's page ever shows a collection that was private all along.
PrivateKept ==
  list # Nothing =>
    \A c \in seen \cap There :
      c \notin touched /\ ~collections[c].public => list.of # Nothing /\ list.reader = list.of

CollectionListsHold == CollectionsAllRead /\ PrivateKept
=============================================================================

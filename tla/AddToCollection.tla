-------------------------- MODULE AddToCollection --------------------------
(***************************************************************************)
(* Adding search results to collections: the rows that are ticked          *)
(* (src/client/components/pages/parts/search-results.js) and the modal     *)
(* that adds them to collections of the user, or to a new one              *)
(* (parts/add-to-collection-modal.js). The modal asks for the collections  *)
(* of the type of what is ticked whenever that type changes. What a        *)
(* request does at the server is in Collections.                           *)
(***************************************************************************)
EXTENDS Naturals, SequencesExt

CONSTANTS
  Results,      \* of the search
  Kind(_),      \* the type of a result
  EntityKinds,  \* those that collections are of
  Old, New,     \* ids of the user's collections and of those made here
  KindOf(_),    \* the type of an old one
  MaxAsks,      \* bound: requests for collections that are not answered
  MaxBatches    \* bound: submissions

VARIABLES
  ticked,      \* SearchResults: the rows, in the order they were ticked
  shown,       \* whether the modal is
  creating,    \* whether it shows the form of a new collection
  available,   \* collectionsAvailable
  asks,        \* requests for collections, by type, in the order they were sent
  chosen,      \* selectedCollections
  items,       \* of each collection; of the new ones that exist
  type,        \* of each new one
  batches,     \* what was submitted: a sequence
  inOrder      \* history: collections were always answered in the order they were asked for

addVars == <<ticked, shown, creating, available, asks, chosen, items, type, batches, inOrder>>

All == Old \cup New
No == "none"
TypeOf(c) == IF c \in Old THEN KindOf(c) ELSE type[c]

Init ==
  /\ ticked = <<>> /\ shown = FALSE /\ creating = FALSE
  /\ available = {} /\ asks = <<>> /\ chosen = {}
  /\ items = [c \in All |-> {}] /\ type = [c \in New |-> No]
  /\ batches = <<>> /\ inOrder = TRUE

----------------------------------------------------------------------------
(* The rows, and the collections there are for them.                       *)

First(rows) == IF rows = <<>> THEN No ELSE Kind(rows[1])

\* componentDidUpdate of the modal: nothing is asked for without a type, and what was asked
\* for before is not forgotten.
Ticks(rows) ==
  /\ ticked' = rows
  /\ IF First(rows) = First(ticked) THEN UNCHANGED <<asks, available>>
     ELSE IF rows = <<>> THEN available' = {} /\ UNCHANGED asks
     ELSE asks' = Append(asks, First(rows)) /\ UNCHANGED available
  /\ Len(asks') <= MaxAsks
  /\ UNCHANGED <<shown, creating, chosen, items, type, batches, inOrder>>

\* A row is ticked at most once.
Unticked(x) == RemoveAt(ticked, CHOOSE i \in DOMAIN ticked : ticked[i] = x)

\* toggleRow. Bound: not after collections were answered out of order.
Toggle(x) ==
  /\ ~shown /\ inOrder
  /\ Ticks(IF x \in ToSet(ticked) THEN Unticked(x) ELSE Append(ticked, x))

ClearSelected == ~shown /\ inOrder /\ Ticks(<<>>)

\* Editors, areas and collections have none.
ListOf(kind) == {c \in All : TypeOf(c) = kind}

\* Wrong: the collections are added to those that were there.
Received_More(list) == available \cup list

Received(list) == list

\* getCollections: the answers come in any order, and are all taken.
ReceiveCollections(i) ==
  /\ available' = Received(ListOf(asks[i]))
  /\ asks' = RemoveAt(asks, i)
  /\ inOrder' = (inOrder /\ i = 1 /\ ticked # <<>>)
  /\ UNCHANGED <<ticked, shown, creating, chosen, items, type, batches>>

\* Wrong: any rows.
MayOpen_Any == ticked # <<>>

\* handleAddToCollection of the results
MayOpen ==
  /\ ticked # <<>>
  /\ \A x \in ToSet(ticked) : Kind(x) = First(ticked)
  /\ First(ticked) \in EntityKinds

Open == ~shown /\ MayOpen /\ shown' = TRUE
        /\ UNCHANGED <<ticked, creating, available, asks, chosen, items, type, batches, inOrder>>
Close == shown /\ shown' = FALSE
         /\ UNCHANGED <<ticked, creating, available, asks, chosen, items, type, batches, inOrder>>

\* handleShowCollectionForm, handleShowAllCollections
ShowCreate(new) ==
  /\ shown /\ new # creating /\ creating' = new
  /\ UNCHANGED <<ticked, shown, available, asks, chosen, items, type, batches, inOrder>>

Choose(c) ==
  /\ shown /\ ~creating /\ c \in available
  /\ chosen' = IF c \in chosen THEN chosen \ {c} ELSE chosen \cup {c}
  /\ UNCHANGED <<ticked, shown, creating, available, asks, items, type, batches, inOrder>>

----------------------------------------------------------------------------
(* Submitting.                                                             *)

\* One request to each of the collections, all at once; done and failed are those that were
\* answered.
Batch(into, new) ==
  [into |-> into, on |-> ToSet(ticked), kind |-> First(ticked), new |-> new,
   done |-> {}, failed |-> {}, made |-> FALSE, told |-> No]

Submit(batch) ==
  /\ shown /\ Len(batches) < MaxBatches
  /\ \A i \in DOMAIN batches : batches[i].told # No
  /\ batches' = Append(batches, batch)
  /\ UNCHANGED <<ticked, shown, creating, available, asks, chosen, items, type, inOrder>>

\* handleAddToCollection of the modal
AddToChosen == ~creating /\ available # {} /\ chosen # {} /\ Submit(Batch(chosen, FALSE))

\* handleAddToNewCollection: it is created, and then added to.
AddToNew ==
  /\ creating
  /\ \E c \in New : type[c] = No /\ (\A i \in DOMAIN batches : c \notin batches[i].into)
                    /\ Submit(Batch({c}, TRUE))

\* The collection is created, whether the answer arrives or not.
Create(i) ==
  /\ batches[i].new /\ ~batches[i].made /\ batches[i].told = No
  /\ type' = [c \in New |-> IF c \in batches[i].into THEN batches[i].kind ELSE type[c]]
  /\ batches' = [batches EXCEPT ![i].made = TRUE]
  /\ UNCHANGED <<ticked, shown, creating, available, asks, chosen, items, inOrder>>

Unanswered(b) == IF b.new /\ ~b.made THEN {} ELSE b.into \ (b.done \cup b.failed)

\* router.post('/:collectionId/add'): refused if an entity is of another type.
Add(i, c, fails) ==
  /\ c \in Unanswered(batches[i]) /\ (batches[i].new => batches[i].told = No)
  /\ IF fails \/ TypeOf(c) # batches[i].kind
     THEN batches' = [batches EXCEPT ![i].failed = @ \cup {c}] /\ UNCHANGED items
     ELSE /\ batches' = [batches EXCEPT ![i].done = @ \cup {c}]
          /\ items' = [items EXCEPT ![c] = @ \cup batches[i].on]
  /\ UNCHANGED <<ticked, shown, creating, available, asks, chosen, type, inOrder>>

\* Wrong: success as soon as one request succeeds.
AllDone_One(b) == b.done # {}

AllDone(b) == b.done = b.into

\* Promise.all resolves
TellSuccess(i) ==
  /\ batches[i].told = No /\ AllDone(batches[i])
  /\ batches' = [batches EXCEPT ![i].told = "ok"]
  /\ chosen' = {} /\ shown' = FALSE
  /\ UNCHANGED <<ticked, creating, available, asks, items, type, inOrder>>

\* It rejects with the first failure, whatever becomes of the others.
TellError(i) ==
  /\ batches[i].told = No
  /\ batches[i].failed # {} \/ (batches[i].new /\ ~batches[i].made)
  /\ batches' = [batches EXCEPT ![i].told = "error"]
  /\ UNCHANGED <<ticked, shown, creating, available, asks, chosen, items, type, inOrder>>

----------------------------------------------------------------------------
Next ==
  \/ \E x \in Results : Toggle(x)
  \/ ClearSelected \/ Open \/ Close
  \/ \E i \in DOMAIN asks : ReceiveCollections(i)
  \/ \E new \in BOOLEAN : ShowCreate(new)
  \/ \E c \in All : Choose(c)
  \/ AddToChosen \/ AddToNew
  \/ \E i \in DOMAIN batches :
       Create(i) \/ TellSuccess(i) \/ TellError(i)
         \/ \E c \in All, fails \in BOOLEAN : Add(i, c, fails)

Spec == Init /\ [][Next]_addVars

TypeOK ==
  /\ IsInjective(ticked) /\ ToSet(ticked) \subseteq Results
  /\ available \subseteq All /\ chosen \subseteq All
  /\ \A c \in All : items[c] \subseteq Results

----------------------------------------------------------------------------
(* Properties.                                                             *)

\* Success is told only when every collection that was chosen, shown or not, holds all that
\* was ticked; an error only if a request did fail; and only what is of its type gets into a
\* collection. Asking again for what was done in part completes it.
AddedAsTold ==
  /\ \A i \in DOMAIN batches :
       LET batch == batches[i] IN
       /\ batch.told = "ok" => \A c \in batch.into : batch.on \subseteq items[c]
       /\ batch.told = "error" => batch.failed # {} \/ (batch.new /\ ~batch.made)
  /\ \A c \in All : \A x \in items[c] : Kind(x) = TypeOf(c)

\* The modal is open for rows of one type, and lists the collections of that type, as long as
\* answers come in the order of the requests.
ListedForType ==
  /\ shown => \A x \in ToSet(ticked) : Kind(x) = First(ticked) /\ Kind(x) \in EntityKinds
  /\ inOrder /\ asks = <<>> => /\ \A c \in available : TypeOf(c) = First(ticked)
                               /\ ListOf(First(ticked)) \cap Old \subseteq available

\* A new collection stays empty only if its maker was told of a failure, or is not told yet.
NewIsFilled ==
  \A c \in New : type[c] # No /\ items[c] = {} =>
    \E i \in DOMAIN batches : c \in batches[i].into /\ batches[i].told # "ok"

AddingHolds == AddedAsTold /\ ListedForType /\ NewIsFilled
=============================================================================

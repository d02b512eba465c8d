------------------------------ MODULE MCPages ------------------------------
(* The merge queue and pages of the browser for TLC: the queue and the     *)
(* handlers of EntityMerge, or one page: that of a merge, that of a        *)
(* collection, the search page, or the modal that adds search results to   *)
(* collections. A behaviour is that of one of them; the others do nothing. *)
EXTENDS EntityMerge, Sequences

CONSTANTS Bbids, Linked, MaxPicks,
          CollectionSizes, Sizes, MaxUrls, CollectionAsked, MaxAsked, Things, NoThing, MaxPosts,
          MaxRows, Texts, SearchTypes, Reads(_), Hits(_), Results, Kind(_), EntityKinds, Old, New,
          KindOf(_), MaxAsks, MaxBatches

VARIABLES part, type, merging, form, keystroke, chosen, dropped, answer, result, picks,
          pager, ticked, adding, rows, posts, alone, field, due, search, waited, cut,
          shown, creating, available, asks, held, batches, inOrder

ofMergePage == <<merging, keystroke, dropped, answer, result, picks>>
ofCollection == <<adding, rows, posts, alone>>
ofSearch == <<field, due, search, waited, cut>>
ofAdding == <<shown, creating, available, asks, batches, inOrder>>
shared == <<form, type, chosen, pager, ticked, held>>
pageVars == <<shared, ofMergePage, ofCollection, ofSearch, ofAdding>>

OfMerge == INSTANCE MergePage WITH None <- Null
OfCollection == INSTANCE CollectionPage WITH items <- held,
                                             MaxAsked <- CollectionAsked, Sizes <- CollectionSizes
OfSearch == INSTANCE SearchPage
OfAdding == INSTANCE AddToCollection WITH items <- held

----------------------------------------------------------------------------
(* What the pages take for granted of the values they are given.           *)

\* What the search page asks for, and what it is answered.
Asked == {OfSearch!Params(t) : t \in OfSearch!Found} \cup {OfSearch!Encoded(t) : t \in OfSearch!Found}
Hit == UNION {{Hits(params)[i] : i \in DOMAIN Hits(params)} : params \in Asked}

KindsFound == {Kind(r) : r \in Results}

\* Nothing is no value of a field.
MergeAssumption ==
  /\ Null \notin {"this", "that", "bare", "past", "early", "late", "ticked", "saved", "error"}
  /\ Null \notin BOOLEAN

CollectionAssumption ==
  /\ IsFiniteSet(Things) /\ NoThing \notin Things
  /\ OfSearch!Unread \notin Seq(Things)
  /\ CollectionSizes \subseteq Nat \ {0}

\* A text reads as one, the server answers with a list, and "unset" is not the name of a type.
SearchAssumption ==
  /\ \A t \in Texts : Reads(t) \in Texts
  /\ \A params \in Asked : Hits(params) \in Seq(Hit)
  /\ "unset" \notin SearchTypes
  /\ Sizes \subseteq Nat \ {0}

\* Collections are of types of entities, and are not made here if they are there.
AddingAssumption ==
  /\ Old \cap New = {}
  /\ \A c \in Old : KindOf(c) \in EntityKinds
  /\ "none" \notin EntityKinds /\ "none" \notin KindsFound

ASSUME PagesAssumption ==
  MergeAssumption /\ CollectionAssumption /\ SearchAssumption /\ AddingAssumption

----------------------------------------------------------------------------
(* The queue, or one of the pages.                                         *)

\* The variables of a page that is not shown.
Off == "off"
NoMergePage ==
  /\ merging = Off /\ keystroke = Off /\ dropped = Off
  /\ answer = Off /\ result = Off /\ picks = Off
NoCollection == adding = Off /\ rows = Off /\ posts = Off /\ alone = Off
NoSearch == field = Off /\ due = Off /\ search = Off /\ waited = Off /\ cut = Off
NoAdding ==
  shown = Off /\ creating = Off /\ available = Off /\ asks = Off /\ batches = Off /\ inOrder = Off

PagesInit ==
  /\ part \in {"queue", "merge", "collection", "search", "adding"}
  /\ Init
  /\ IF part = "merge" THEN OfMerge!Init ELSE NoMergePage
  /\ IF part = "collection" THEN OfCollection!Init ELSE NoCollection
  /\ IF part = "search" THEN OfSearch!Init ELSE NoSearch
  /\ IF part = "adding" THEN OfAdding!Init ELSE NoAdding
  /\ part # "merge" => form = Off
  /\ part \notin {"merge", "adding"} => type = Off /\ chosen = Off
  /\ part \notin {"collection", "search"} => pager = Off
  /\ part \notin {"collection", "adding"} => ticked = Off /\ held = Off

PagesNext ==
  \/ part = "queue" /\ Next /\ UNCHANGED <<part, pageVars>>
  \/ part = "merge" /\ OfMerge!Next
     /\ UNCHANGED <<part, vars, ofCollection, ofSearch, ofAdding, pager, ticked, held>>
  \/ part = "collection" /\ OfCollection!Next
     /\ UNCHANGED <<part, vars, ofMergePage, ofSearch, ofAdding, form, type, chosen>>
  \/ part = "search" /\ OfSearch!Next
     /\ UNCHANGED <<part, vars, ofMergePage, ofCollection, ofAdding, form, type, chosen,
                    ticked, held>>
  \/ part = "adding" /\ OfAdding!Next
     /\ UNCHANGED <<part, vars, ofMergePage, ofCollection, ofSearch, form, pager>>

PagesSpec == PagesInit /\ [][PagesNext]_<<part, vars, pageVars>>

\* The page of a merge shows and sends what it is to be, pages with results by the page, and
\* those that tick some of them, show what there is and do what they say (MergePage,
\* CollectionPage, SearchPage, AddToCollection).
PagesHold ==
  /\ part = "merge" => OfMerge!PageHolds
  /\ part = "collection" => OfCollection!CollectionHolds
  /\ part = "search" => OfSearch!SearchHolds
  /\ part = "adding" => OfAdding!AddingHolds
----------------------------------------------------------------------------
(* Values for TLC.                                                         *)

\* Bound: of a collection that others have changed, or whose page did not wait for an
\* answer, ShowsTheCollection says nothing; TLC does not go on from there.
StillTold == part = "collection" => alone

FiveEntities == {"a", "b", "c", "x", "y"}
\* Works and authors, and two authors with each other.
WorksRelated == {<<"a", "x">>, <<"b", "x">>, <<"x", "c">>, <<"b", "y">>, <<"c", "b">>}

\* Three authors and two works.
TypeOf(e) == IF e \in {"x", "y"} THEN "Work" ELSE "Author"

ThreeBbids == <<"a", "b", "c">>

\* With others, and with each other.
ThreeLinked == {<<"a", "x">>, <<"b", "x">>, <<"y", "c">>, <<"b", "a">>}

ReadAs(text) == IF text = "x&y" THEN "x" ELSE text
SomeHits(params) ==
  CASE params.text = "x" /\ params.type = "" -> <<1, 2, 3>>
    [] params.text = "x" -> <<2>>
    [] OTHER -> <<>>
KindOfHit(hit) == IF hit = "a" THEN "A" ELSE "B"
KindOfOld(i) == IF i = "ca" THEN "A" ELSE "B"
=============================================================================

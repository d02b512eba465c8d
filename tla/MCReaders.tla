----------------------------- MODULE MCReaders -----------------------------
(* The handlers of EntityRevisions for TLC, one request at a time, or one  *)
(* of those who read and show what they leave: the pages and lists of      *)
(* revisions, the rows of a difference, the lists of collections, the web  *)
(* service; or the forms on which types are made. A behaviour is that of   *)
(* one of them; the others do nothing.                                     *)
EXTENDS MCEntityRevisions

CONSTANTS Bbids, Writers, MostRevisions, Sizes, MaxUrls, MaxAsked,
          Members, Readers, MaxTouches,
          Scalars, Labels, MaxItems,
          AskedTypes, AskedParams, LookedUp, ApiRequests, MaxEdits, MaxFaults,
          EntityKinds, FirstKind, ChildOrders, MaxSaves, MaxChanges

VARIABLES part,
          revisions, redirects, list, pager, seen, there,
          collections, changed, touched, spoiled, touches,
          field, lhs, rhs,
          rels, redirect, columns, request, doubled, changes, faults,
          kind, types, form, sent, saves

ofReader == <<list, pager, seen, there>>
ofHistory == <<revisions, redirects>>
ofLists == <<collections, changed, touched, spoiled, touches>>
ofDiff == <<field, lhs, rhs>>
ofApi == <<rels, redirect, columns, request, doubled, faults>>
ofTypes == <<kind, types, form, sent, saves>>
readerParts == <<ofReader, ofHistory, ofLists, ofDiff, ofApi, ofTypes, changes>>

SeedOfLists == <<"a", "b", "c">>
TwoCollections == <<"c1", "c2">>
OneName == {"n"}

Alias(n, s, l, p) == [name |-> n, sortName |-> s, language |-> l, primary |-> p]
FourAliases == {Alias("m", "s", Null, FALSE), Alias("n", "s", "en", FALSE),
                Alias("n", "t", "fr", TRUE), Alias("m", "s", "en", TRUE)}
FourIdentifiers == {[type |-> t, value |-> v] : t \in {"t", "u"}, v \in {"1", "2"}}
SixRelationships == {[end |-> e, text |-> t] : e \in {"x", "y"}, t \in {Null, "1", "2"}}
FourCredits == {[name |-> n, joinPhrase |-> j] : n \in {"a", "b"}, j \in {"", "&"}}
ThreeItems == {[name |-> n] : n \in {"a", "b", "c"}}

\* Two works, an edition of one of them, its group and publisher, another publisher.
ApiEntities == {"w", "v", "x", "g", "p", "q"}
KindOf(e) == CASE e \in {"w", "v"} -> "Work" [] e = "x" -> "Edition" [] e = "g" -> "EditionGroup"
               [] OTHER -> "Publisher"
HasParam(e, param) == e \in {"w", "x", "p"}
ThreeRelationships == {<<"x", "w", 1>>, <<"x", "w", 2>>, <<"w", "v", 3>>}
GroupAndPublisher == "x" :> {"g", "p"}

OfHistory == INSTANCE RevisionPages WITH
  Entities <- Bbids, Seed <- SeedOfLists, Names <- OneName, Editors <- Writers,
  Gone <- Null, Nothing <- Null, MaxRevisions <- MostRevisions
OfLists == INSTANCE CollectionLists WITH
  Made <- TwoCollections, EntityTypes <- EntityKinds, Nothing <- Null, Sizes <- {1}
OfDiff == INSTANCE RevisionDiff WITH
  None <- Null, Aliases <- FourAliases, Identifiers <- FourIdentifiers,
  Relationships <- SixRelationships, Credits <- FourCredits, Members <- ThreeItems
OfApi == INSTANCE WebApi WITH
  None <- Null, Entities <- ApiEntities, TypeOf <- KindOf, Has <- HasParam,
  Possible <- ThreeRelationships, FirstColumns <- GroupAndPublisher, Requests <- ApiRequests,
  MaxChanges <- MaxEdits
OfTypes == INSTANCE TypeForms WITH None <- Null, EntityTypes <- EntityKinds, First <- FirstKind

\* The variables of a part that does nothing.
Off == "off"
NoReader == list = Off /\ pager = Off /\ seen = Off /\ there = Off
NoHistory == revisions = Off /\ redirects = Off
NoLists ==
  collections = Off /\ changed = Off /\ touched = Off /\ spoiled = Off /\ touches = Off
NoDiff == field = Off /\ lhs = Off /\ rhs = Off
NoApi ==
  rels = Off /\ redirect = Off /\ columns = Off /\ request = Off /\ doubled = Off /\ faults = Off
NoTypes == kind = Off /\ types = Off /\ form = Off /\ sent = Off /\ saves = Off

ReadersInit ==
  /\ part \in {"requests", "history", "lists", "diff", "api", "types"}
  /\ Init
  /\ IF part = "history" THEN OfHistory!Init ELSE NoHistory
  /\ IF part = "lists" THEN OfLists!Init ELSE NoLists
  /\ IF part = "diff" THEN OfDiff!Init ELSE NoDiff
  /\ IF part = "api" THEN OfApi!Init ELSE NoApi
  /\ IF part = "types" THEN OfTypes!Init ELSE NoTypes
  /\ part \notin {"history", "lists"} => NoReader
  /\ part \notin {"api", "types"} => changes = Off

ReadersNext ==
  \/ part = "requests" /\ Next /\ UNCHANGED <<part, readerParts>>
  \/ part = "history" /\ OfHistory!Next
     /\ UNCHANGED <<part, vars, ofLists, ofDiff, ofApi, ofTypes, changes>>
  \/ part = "lists" /\ OfLists!Next
     /\ UNCHANGED <<part, vars, ofHistory, ofDiff, ofApi, ofTypes, changes>>
  \/ part = "diff" /\ OfDiff!Next
     /\ UNCHANGED <<part, vars, ofReader, ofHistory, ofLists, ofApi, ofTypes, changes>>
  \/ part = "api" /\ OfApi!Next
     /\ UNCHANGED <<part, vars, ofReader, ofHistory, ofLists, ofDiff, ofTypes>>
  \/ part = "types" /\ OfTypes!Next
     /\ UNCHANGED <<part, vars, ofReader, ofHistory, ofLists, ofDiff, ofApi>>

ReadersSpec == ReadersInit /\ [][ReadersNext]_<<part, vars, readerParts>>

\* Pages, lists and the web service show what there is, and types are as their forms say
\* (RevisionPages, CollectionLists, RevisionDiff, WebApi, TypeForms).
ReadersHold ==
  /\ part = "history" => OfHistory!RevisionsHold
  /\ part = "lists" => OfLists!CollectionListsHold
  /\ part = "diff" => OfDiff!DiffTells
  /\ part = "api" => OfApi!ApiHolds
  /\ part = "types" => OfTypes!TypesHold
=============================================================================

------------------------------- MODULE WebApi -------------------------------
(***************************************************************************)
(* The web service that answers in JSON what the site shows (src/api):     *)
(* lookups of an entity, and browsing: the entities of one type that are   *)
(* related to an entity of another, or belong to it. A request loads the   *)
(* entity, then its relationships, then each related entity. The handlers  *)
(* are asynchronous functions that nobody waits for: an exception in one   *)
(* is not caught and ends the process (common/helpers/appCleanup.js).      *)
(* Editors change and merge entities meanwhile, in one step here.          *)
(***************************************************************************)
EXTENDS Naturals, FiniteSets

CONSTANTS
  Entities, TypeOf(_),
  Has(_, _),    \* whether the entity has what is asked for by a parameter
  Possible,     \* relationships there may be: <<source, target, id>>
  FirstColumns, \* of editions: their group and publishers
  None,
  AskedTypes, AskedParams, LookedUp,  \* what requests are about: types, parameters, ids
  Requests,     \* that are answered at the same time
  MaxChanges, MaxFaults  \* bounds

VARIABLES
  rels,      \* relationships that exist
  redirect,  \* of merged entities
  columns,   \* of editions: edition group and publishers, if any
  request,   \* what each request is at
  doubled,   \* history: a request met what its handler may not be able to list
  changes, faults  \* what the bounds count

apiVars == <<rels, redirect, columns, request, doubled, changes, faults>>

Of(e) == {r \in rels : e \in {r[1], r[2]}}
Redirected(e) == IF redirect[e] = None THEN e ELSE redirect[e]

----------------------------------------------------------------------------
(* What the routes load, print, and take as parameters.                    *)

AuthorRelations == {"alias", "disambiguation", "authorType", "gender", "beginArea", "endArea"}
EditionRelations == {"alias", "languages", "disambiguation", "format", "status",
                     "releaseEvents", "authorCredit", "publishers"}
EditionGroupRelations == {"alias", "disambiguation", "editionGroupType"}
PublisherRelations == {"alias", "disambiguation", "publisherType", "area"}
SeriesRelations == {"alias", "disambiguation", "orderingType"}

\* Wrong: the languages are printed, and were not loaded.
WorkRelations_NoLanguages == {"alias", "disambiguation", "workType"}

WorkRelations == {"alias", "languages", "disambiguation", "workType"}

Relations(type) ==
  CASE type = "Author" -> AuthorRelations
    [] type = "Edition" -> EditionRelations
    [] type = "EditionGroup" -> EditionGroupRelations
    [] type = "Publisher" -> PublisherRelations
    [] type = "Series" -> SeriesRelations
    [] type = "Work" -> WorkRelations

\* get...BasicInfo: what is not a column of the entity itself. What is absent is null.
AuthorInfo == {"alias", "authorType", "beginArea", "disambiguation", "endArea", "gender"}
EditionInfo == {"authorCredit", "alias", "disambiguation", "format", "languages", "publishers",
                "releaseEvents", "status"}
EditionGroupInfo == {"alias", "disambiguation", "editionGroupType"}
PublisherInfo == {"area", "alias", "disambiguation", "publisherType"}
SeriesInfo == {"alias", "disambiguation", "orderingType"}
WorkInfo == {"alias", "disambiguation", "languages", "workType"}

Info(type) ==
  CASE type = "Author" -> AuthorInfo
    [] type = "Edition" -> EditionInfo
    [] type = "EditionGroup" -> EditionGroupInfo
    [] type = "Publisher" -> PublisherInfo
    [] type = "Series" -> SeriesInfo
    [] type = "Work" -> WorkInfo

Item(e, type) == [entity |-> e, shown |-> Info(type) \cap Relations(type)]

\* The types one may browse by, and the parameters that filter.
BrowseAuthors == [by |-> {"Edition", "Author", "Series", "EditionGroup", "Work", "Publisher"},
                  params |-> {"type"}]
BrowseEditions == [by |-> {"Author", "Edition", "EditionGroup", "Series", "Work", "Publisher"},
                   params |-> {"format", "language"}]
BrowseEditionGroups == [by |-> {"Edition", "Series"}, params |-> {"type"}]
BrowsePublishers == [by |-> {"Author", "Edition", "Series", "Work", "Publisher"},
                     params |-> {"type", "area"}]
BrowseSeries == [by |-> {"Edition", "Author", "EditionGroup", "Work", "Publisher"},
                 params |-> {"orderingtype"}]
BrowseWorks == [by |-> {"Author", "Edition", "Series", "Work", "Publisher"},
                params |-> {"type", "language"}]

Browsed(type) ==
  CASE type = "Author" -> BrowseAuthors
    [] type = "Edition" -> BrowseEditions
    [] type = "EditionGroup" -> BrowseEditionGroups
    [] type = "Publisher" -> BrowsePublishers
    [] type = "Series" -> BrowseSeries
    [] type = "Work" -> BrowseWorks

Matches(e, given) == \A p \in given : Has(e, p)

----------------------------------------------------------------------------
Idle == [kind |-> "none", step |-> "idle"]

Init ==
  /\ rels \in SUBSET Possible
  /\ redirect = [e \in Entities |-> None]
  /\ columns \in {FirstColumns, [e \in DOMAIN FirstColumns |-> {}]}
  /\ request = [q \in Requests |-> Idle]
  /\ doubled = FALSE
  /\ changes = 0 /\ faults = 0

Goes(q, r) == request' = [request EXCEPT ![q] = r]
Served == UNCHANGED <<rels, redirect, columns, doubled, changes, faults>>
Ends(q, answer) == Goes(q, [request[q] EXCEPT !.step = "answered", !.answer = answer])
Refused(q) == Goes(q, [request[q] EXCEPT !.step = "refused"])

\* A statement of the request fails.
Fault == faults < MaxFaults /\ faults' = faults + 1
         /\ UNCHANGED <<rels, redirect, columns, doubled, changes>>

Asked(kind, type, by, bbid, given) ==
  [kind |-> kind, step |-> "asked", type |-> type, by |-> by, bbid |-> bbid, given |-> given,
   entity |-> None, rels |-> {}, columns |-> {}, left |-> {}, got |-> {}, answer |-> None,
   faulty |-> FALSE]

\* validateBrowseRequestQueryParameters: one type to browse by, of those of the route.
\* Bound: one browses, while others look up.
Browse(q, type, bbid, given) ==
  /\ request[q].step = "idle" /\ \A p \in Requests : request[p].kind # "browse"
  /\ LET by == TypeOf(bbid)
     IN by \in Browsed(type).by /\ Goes(q, Asked("browse", type, by, bbid, given))
  /\ Served

LookUp(q, bbid) ==
  /\ request[q].step = "idle"
  /\ Goes(q, Asked("lookup", TypeOf(bbid), TypeOf(bbid), bbid, {}))
  /\ Served

\* The exception that nobody catches: all requests of the process are lost.
ProcessEnds ==
  request' = [q \in Requests |-> IF request[q].step \in {"idle", "answered", "refused"} THEN request[q]
                                 ELSE [request[q] EXCEPT !.step = "lost"]]

\* What belongs to an entity otherwise than by a relationship.
Columns(type, e) ==
  IF e \in DOMAIN columns THEN {c \in columns[e] : TypeOf(c) = type}
  ELSE {x \in DOMAIN columns : type = "Edition" /\ e \in columns[x]}

\* Wrong: the entity is described as the source of each.
Directed_Forward(e, r) == [id |-> r[3], direction |-> "forward", other |-> r[2]]

\* getEntityRelationships
Directed(e, r) ==
  IF e = r[1] THEN [id |-> r[3], direction |-> "forward", other |-> r[2]]
  ELSE [id |-> r[3], direction |-> "backward", other |-> r[1]]

\* For the history: what a handler may not be able to list.
Awkward(q, e) ==
  \/ request[q].type = TypeOf(e)
  \/ \E r, s \in Of(e) : r # s /\ {r[1], r[2]} = {s[1], s[2]}
  \/ request[q].type = "EditionGroup" /\ TypeOf(e) = "Edition" /\ Columns("EditionGroup", e) = {}

\* makeEntityLoader: the entity an old id leads to, or an error.
Load(q) ==
  /\ request[q].step = "asked"
  /\ LET e == Redirected(request[q].bbid)
     IN IF request[q].kind = "lookup"
        THEN Ends(q, [bbid |-> e, item |-> Item(e, TypeOf(e)),
                      rels |-> {Directed(e, r) : r \in Of(e)}])
        ELSE Goes(q, [request[q] EXCEPT !.step = "loaded", !.entity = e, !.rels = Of(e),
                                        !.columns = Columns(request[q].type, e)])
  /\ doubled' = (doubled \/ (request[q].kind = "browse" /\ Awkward(q, Redirected(request[q].bbid))))
  /\ UNCHANGED <<rels, redirect, columns, changes, faults>>

\* Whatever fails, it was not found.
LoadFails(q) ==
  /\ request[q].step = "asked"
  /\ Fault /\ Refused(q)

\* Wrong: relationships of which the entity is the target are left out.
Related_OfSource(e, type, r) ==
  IF e = r[1] /\ TypeOf(r[2]) = type THEN r[2] ELSE None

\* The entity a relationship leads to. That may be the one it started from.
Related(e, type, r) ==
  IF e = r[1] /\ TypeOf(r[2]) = type THEN r[2]
  ELSE IF TypeOf(r[1]) = type THEN r[1] ELSE None

\* loadEntityRelationshipsForBrowse: the set that the entity had is not changed by an edit.
LoadRelationships(q) ==
  /\ request[q].step = "loaded"
  /\ LET my == request[q]
     IN Goes(q, [my EXCEPT !.step = "related",
                  !.left = {r \in my.rels : Related(my.entity, my.type, r) # None}])
  /\ Served

LoadRelationshipsFails(q) ==
  /\ request[q].step = "loaded"
  /\ Fault /\ Refused(q)

Left(q) == IF request[q].step = "related" THEN request[q].left ELSE {}

\* loadEntity
LoadRelated(q, r) ==
  /\ r \in Left(q)
  /\ LET my == request[q]
         e == Related(my.entity, my.type, r)
     IN Goes(q, [my EXCEPT !.left = @ \ {r},
                  !.got = IF Matches(e, my.given) THEN @ \cup {<<r, Item(e, my.type)>>} ELSE @])
  /\ Served

\* It returns nothing then, of which the filter cannot read anything.
LoadRelatedFails(q, r) ==
  /\ r \in Left(q)
  /\ Fault
  /\ IF request[q].given # {} THEN ProcessEnds
     ELSE Goes(q, [request[q] EXCEPT !.left = @ \ {r}, !.got = @ \cup {<<r, None>>},
                                     !.faulty = TRUE])

\* The list is made of the items, each with its relationship: when two are about the same
\* entity the second cannot be added to the first, and one that is nothing to no other.
CannotList(got) ==
  \E g, h \in got : g # h /\ (g[2] = None \/ (h[2] # None /\ g[2].entity = h[2].entity))

\* Publisher.editions is a query of its own, by the id that was asked for.
Belonging(q) ==
  LET my == request[q]
  IN IF my.type = "Edition" /\ my.by = "Publisher" THEN Columns("Edition", my.bbid)
     ELSE my.columns

Lacks(q) ==
  request[q].type = "EditionGroup" /\ request[q].by = "Edition" /\ request[q].columns = {}

\* An edition without a group has nothing in the place of it.
Answer(q) ==
  /\ request[q].step = "related" /\ request[q].left = {}
  /\ LET my == request[q]
     IN IF CannotList(my.got) \/ (Lacks(q) /\ my.given # {})
        THEN ProcessEnds
        ELSE Ends(q, [bbid |-> my.bbid,
                      related |-> {g[2] : g \in my.got},
                      belonging |-> {Item(e, my.type) : e \in {x \in Belonging(q) :
                                                                 Matches(x, my.given)}}
                                    \cup (IF Lacks(q) THEN {None} ELSE {})])
  /\ Served

----------------------------------------------------------------------------
(* Editors.                                                                *)

Change == changes < MaxChanges /\ changes' = changes + 1 /\ UNCHANGED <<request, doubled, faults>>

Relate(r) == Change /\ r \notin rels /\ rels' = rels \cup {r} /\ UNCHANGED <<redirect, columns>>
Unrelate(r) == Change /\ r \in rels /\ rels' = rels \ {r} /\ UNCHANGED <<redirect, columns>>

\* What the merged entity had is the other's.
Merge(e, into) ==
  /\ Change /\ e # into /\ TypeOf(e) = TypeOf(into)
  /\ redirect[e] = None /\ redirect[into] = None
  /\ LET Now(x) == IF x = e THEN into ELSE x
     IN /\ redirect' = [x \in Entities |-> IF x = e \/ redirect[x] = e THEN into ELSE redirect[x]]
        /\ rels' = {<<Now(r[1]), Now(r[2]), r[3]>> : r \in rels}
        /\ columns' = [x \in DOMAIN columns |-> {Now(c) : c \in columns[x]}]

----------------------------------------------------------------------------
Step(q) ==
  \/ Load(q) \/ LoadRelationships(q) \/ Answer(q)
  \/ \E r \in Left(q) : LoadRelated(q, r)

Fails(q) ==
  \/ LoadFails(q) \/ LoadRelationshipsFails(q)
  \/ \E r \in Left(q) : LoadRelatedFails(q, r)

Next ==
  \/ \E q \in Requests : Step(q) \/ Fails(q)
  \/ \E q \in Requests, e \in LookedUp : LookUp(q, e)
  \/ \E q \in Requests, e \in Entities, type \in AskedTypes :
       \E given \in SUBSET (Browsed(type).params \cap AskedParams) : Browse(q, type, e, given)
  \/ \E r \in Possible : Relate(r)
  \/ \E r \in rels : Unrelate(r)
  \/ \E e, into \in Entities : Merge(e, into)

----------------------------------------------------------------------------
(* Properties.                                                             *)

Other(e, r) == IF r[1] = e THEN r[2] ELSE r[1]

Listed(answer) == {i.entity : i \in answer.related \ {None}}

Browses == {q \in Requests : request[q].kind = "browse" /\ request[q].step = "answered"
                             /\ ~request[q].faulty}

\* Browsing lists, apart from the entity itself, those at the other end of the relationships
\* that the entity had when it was loaded, whichever end it is at: of the type asked for,
\* with what was asked for, whoever edits and whatever order they are loaded in.
BrowseComplete ==
  \A q \in Browses :
    LET my == request[q]
    IN Listed(my.answer) \ {my.entity} =
         {x \in {Other(my.entity, r) : r \in my.rels} \ {my.entity} :
            TypeOf(x) = my.type /\ Matches(x, my.given)}

\* An answer prints all it can of each entity, by whichever way that was loaded.
PrintsWhole ==
  /\ \A q \in Browses : \A i \in (request[q].answer.related \cup request[q].answer.belonging) \ {None} :
       i.shown = Info(TypeOf(i.entity))
  /\ \A q \in Requests :
       request[q].kind = "lookup" /\ request[q].step = "answered" =>
         request[q].answer.item.shown = Info(request[q].type)

\* Two lookups that describe the same relationship between two entities give it opposite
\* directions, and each the other.
LookupsAgree ==
  \A q, p \in {s \in Requests : request[s].kind = "lookup" /\ request[s].step = "answered"} :
    \A i \in request[q].answer.rels, j \in request[p].answer.rels :
      i.id = j.id /\ i.other = request[p].answer.bbid /\ j.other = request[q].answer.bbid
        /\ request[p].answer.bbid # request[q].answer.bbid => i.direction # j.direction

\* Requests are lost only after a statement failed, or one browsed an entity that has two
\* relationships with the same other, or is of the type asked for, or an edition without
\* its group.
LostOnlyWhen == (\E q \in Requests : request[q].step = "lost") => faults > 0 \/ doubled

ApiHolds == BrowseComplete /\ PrintsWhole /\ LookupsAgree /\ LostOnlyWhen
=============================================================================

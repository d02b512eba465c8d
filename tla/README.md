# BookBrainz site: specification, model checking and proofs

BookBrainz is a collaborative database of books. This directory holds TLA+
models of its web site, the TLC configurations that check them on small
instances, and TLAPS proofs of the results that matter most. Paths below are
relative to the repository: code is under `src/src/`, the schema of the
database and its triggers under `src/sql/`, tests under `src/test/`.

## The system

One Node process (Express 4) serves pages and forms; a second one serves the web
API. They keep no entity state of their own: PostgreSQL (through the
bookbrainz-data ORM, Bookshelf and Knex) holds entities, revisions, editors and
collections; ElasticSearch holds a document per entity, editor and collection;
Redis holds sessions and cached answers; MetaBrainz (OAuth, webhooks),
CritiqueBrainz and Wikimedia are reached over HTTP. Handlers are async
functions: everything between two `await`s runs alone, everything else
interleaves. Transactions are READ COMMITTED. Pages are React components, the
forms among them with a Redux store; a page works with what it was given when
it was opened.

| Component | State | Operations | What is hard | What makes it correct |
|---|---|---|---|---|
| Entity revisions (`routes/entity/entity.tsx`, `entityRouteUtils.tsx`, triggers) | `<entity>_header`, `<entity>_revision`, `revision`, `revision_parent`, `editor.revisions_applied`, search documents | create, edit, delete | overlapping transactions, entities loaded before the transaction, locks in varying order, an exit of the process in the middle | headers point to committed rows of the entity; ancestry is well founded; creations are unique; counts, relationships and index agree with the revisions |
| Merging (`routes/merge.ts`, `processMergeOperation`, `client/entity-editor/*-merge.tsx`) | the session's merge queue, `entity_redirect`, the form of the merge page | add, remove, cancel, submit; choose a value per field | queues of several editors over the same entities, redirects that chain | redirects lead to one live entity; no data is lost; what is saved was chosen |
| Editor accounts (`oauthWebhooks.ts`, `auth.ts`, `register.js`, `routes/editor.tsx`) | `editor` rows, sessions | OAuth login, registration, webhooks, profile, edit count | repeated deliveries; a deletion or a registration next to requests of the same editor | a deleted account stays deleted; one row per MetaBrainz user |
| Search index (`common/helpers/search.ts`) | the index, calls on their way, regenerations | index, bulk index with retry, delete, regenerate | swallowed errors, retries, regenerating while editing | a document is what its row was; it differs for long only for a reason |
| Collections (`collection.js`, `collectionRouteUtils.js`, `middleware.ts`) | `user_collection`, its items and collaborators | create, edit, delete, add and remove items and collaborators | rights and emptiness checked before they are used; statements at the same time without a transaction | items have the type of the collection; only owner and collaborators change it; answers are true |
| Achievements and ranks (`achievement.js`, `routes/editor.tsx`) | `achievement_unlock`, `title_unlock`, `_editor_entity_visits` | award after an edit or visit, rank on the profile | check then insert; days in a row | unlocked once, when earned, and not missed |
| Privileges and types (`routes/editor.tsx`, `typeRouteUtils.ts`, `adminLogs.ts`) | `editor.privs`, `admin_log`, relationship types and attributes, the pool of connections | change privileges, edit a type | whole rows saved, transactions that nobody ends | the log explains the privileges; a type is as its form says |
| CritiqueBrainz reviews (`critiquebrainz.ts`, `externalService.js`, `reviews.ts`, `cbReviewModal.tsx`) | a row of tokens per editor, tokens in pages | link, unlink, refresh, send a review | a grant ends the one before; refreshes that cross; lost answers | a linked editor can post; a review is made once |
| Unified form (`client/unified-form`, `process-unified-form.ts`) | the page's slices, the batch | modals, submission, a transaction per entity | answers that arrive later, a batch that fails in the middle | what was chosen is what the edition has; a batch is whole or reported |
| Entity editor (`client/entity-editor`) | the store of one page: names, aliases, relationships, sections | type, add, remove, undo, submit | one debouncer, lookups out of order, numbers of rows given twice | what is submitted is what is shown |
| Author credits, items of series, fields of a type, relationship dialog, identifiers and ISBN (below `client/entity-editor`, `unified-form/cover-tab`) | parts of the same store | as they are named | modals, rows that are keyed by counters, values loaded and saved by different code | what is saved is what was shown, and is shown again |
| Type editors (`client/components/forms/type-editor`, trees) | the form, the types | choose ends, parent, order; save | effects of React that change the form, types that others changed | the trees show each type that can be reached, once |
| Pages with lists (`pager.js`, `search.tsx`, `collection.js`, `revisions.js`, ...) | results, addresses in the history, what is ticked | turn, resize, back and forward, tick, add, remove | answers out of order, lists that change | what is shown belongs to the address; ticked items are those removed |
| Revision pages (`routes/revision.js`, `diffFormatters`, `helpers/revisions.ts`) | none of their own | show a revision, lists of revisions | history that goes on, merges, parents | a badge, a name and a row are true of the revision |
| Web API (`src/api`) | none | lookup, browse | rows that change between two reads, exceptions nobody catches | an answer is about the entity that was asked for |
| Cached lookups (`cache.ts`, `wikimedia.ts`) | entries in Redis | look up an article | an entry that is broken | not modelled |
| Pages and views | none | render | | not modelled |

How they interact: an edit (revisions) counts itself in the row of its editor
(accounts, privileges), sends a document to the index (search), and awards
(achievements). A merge is an edit of all it merges. A form of the browser
(entity editor, unified form, merge page) ends in one of these requests. Lists,
revision pages and the API read what requests commit while they run.

## The modules

| Module | What it is |
|---|---|
| `RevisionStore` | what the tables behind an entity promise, one committed revision at a time |
| `EntityRevisions` | the handlers that create, edit and delete entities, interleaved; implements `RevisionStore` |
| `EntityMerge` | merge queues, merge pages, the merge handler and its redirects |
| `MergePage` | one merge page in detail: its form, what its fields offer, what is saved |
| `EditorAccounts` | editors, their MetaBrainz accounts, webhooks, sessions and the requests that write a row of `editor` |
| `SearchCopy` | what an index is: a copy of rows, each as it was at some time |
| `SearchIndex` | documents, bulk requests, regenerations, outages; implements `SearchCopy` |
| `Collections` | requests about collections, statement by statement |
| `Achievements` | counting, unlocking tier by tier, ranks |
| `Administration` | privileges with their log, relationship types, connections |
| `ExternalServices` | grants of CritiqueBrainz, pages with tokens, reviews |
| `UnifiedForm` | the unified form with its modals, and the batch at the server |
| `EditorForms` | two of these forms for the modules that compose them: their constants with the assumptions, their variables, the definitions of `UnifiedForm` as `UF!` and of `EntityFields` as `Type!` |
| `EntityEditor` | the page of one entity: texts, aliases, relationships, submission |
| `AuthorCredit`, `SeriesEditor`, `EntityFields`, `RelationshipModal`, `Identifiers` | parts of that page by themselves; the last one with the ISBN of the unified form |
| `Pager` | operators: results by the page, addresses, requests on their way |
| `SearchPage`, `CollectionPage`, `AddToCollection` | pages with a pager, or with what is ticked in one |
| `ListReader` | somebody reads a list to its end while it changes |
| `RevisionPages`, `CollectionLists` | the lists of revisions and of collections, and the page of a revision |
| `RevisionDiff` | which rows the page of a revision makes of a change |
| `TypeForms` | the forms of types, and the trees |
| `WebApi` | lookups and browsing of the API |
| `MC...` | sets of model values, symmetry and bounds for TLC |
| `...Proofs` | inductive invariants and proofs of the module they are named after; `EntityMergeProofs` has those of `MCPages` too, `EntityRevisionsProofs` those of `UnifiedForm` and `EntityFields` |

Three of the MC modules compose. `MCEditorForms` opens one of seven pages, chosen at
the start: the unified form, the entity editor, or one of the parts by itself.
`MCPages` runs `EntityMerge`, or a merge page, the page of a collection, the
search page or the modal that adds to collections. `MCReaders` runs
`EntityRevisions`, or a reader of revision pages or collections, a difference,
the API or the forms of types. `SearchIndex` and `EntityRevisions` are shown to
implement the modules `SearchCopy` and `RevisionStore`.

The definitions named `X_Something` just before a definition `X` are wrong
variants of it: each shows that a property of the runs fails when the code is
changed that way.

### `RevisionStore`

Four variables for four tables; one action, `Record`: a new revision id with its
author, its parents among the recorded revisions, one row per touched entity,
and the header of each touched entity (no other) moved to it. A row with data
continues a row with data of the same entity unless it is the first.

### `EntityRevisions`

| Action | Code |
|---|---|
| `SubmitCreate`, `SubmitEdit`, `SubmitDelete`, `RefuseDelete` | the router's entity loader fills `res.locals.entity` (`middleware.ts` 295), the handler starts (`entityRouteUtils.tsx` 257, `entity.tsx` 419). An invalid form is answered and processing goes on, as in the code |
| `Begin` | the transaction opens, a revision id is allocated, relationship sets and changed properties are computed against the loaded entity (`entity.tsx` 1081-1120); no difference is an error |
| `Fetch` | the main and related entities are fetched, deleted ones dropped, the new values set (1122-1154) |
| `BeginDelete`, `RefuseBlankNote` | `deleteRelationships` and the deletion row (344-462) |
| `Save` | one UPDATE of an entity view; it waits for the header's lock (311-320) |
| `ReadCount`, `Commit` | the SELECT of the edit count; its UPDATE and the publication of everything the transaction wrote (`utils.ts` 122, `entity.tsx` 303-342) |
| `Finish`; `AnswerDelete`, `Unindex` | indexing and answer after the commit (1213-1217; `handler.js` 24) |
| `DeadlockVictim`, `Crash` | PostgreSQL aborts one of a cycle of waiting transactions; the process is killed |

`phase`, `task`, `loaded`, `trx` and `answer` are the local state of a request:
what was submitted, the entity as loaded, what the transaction has read and will
write, what was sent back. An error in a creation or an edit rejects a promise
nobody handles and the process exits (`appCleanup.js` 65): `ServerExit` ends
every request in flight. `sendPromiseResult` catches the errors of deletions.

Abstracted: one field `name` stands for all fields of an entity other than its
relationships, a relationship is the pair of its ends, a form adds or removes at
most one, the reads at the start of a transaction are one step, redirects (see
`EntityMerge`) are absent.

### `EntityMerge` and `MergePage`

| Action of `EntityMerge` | Code |
|---|---|
| `Add`, `Remove`, `Cancel` | `GET /merge/add`, `/remove`, `/cancel` (`merge.ts` 256-335): the queue in the session |
| `Submit` | `GET /merge/submit` (337-411): entities of the queue fetched again, redirects followed, the result put next to the stale keys; the page and its form (`entitiesToFormState`, 45-171) |
| `Close` | the editor leaves the page |
| `Load` | the merge handler starts: the router follows a redirect of the target or loads it (`middleware.ts` 271-305, `entityRouteUtils.tsx` 257) |
| `Process` | `processSingleEntity` up to the saves with `processMergeOperation` (`entity.tsx` 483-671, 1081-1156): which entities are written, and with what |
| `Commit` | redirects inserted, rows saved, the 'saved' hook that removes the data of the merged ones (637-683) |
| `Delete` | another editor's deletion (`entity.tsx` 419), when `Deletions` |
| `ServerExit` | as in `EntityRevisions` |

An entity has *aliases*, named by the entity that first had them, so that one can
see where they are after any number of merges, and *relationships*, the entities
at the other end, of any type: a relationship between two entities that are merged
becomes one of the target with itself. The ORM's `updateRelationshipSets` is
external: it recomputes the sets of the two sides separately. Requests of the queue are one step: the session is loaded and saved
by each. Following several redirects of one entity takes any of them. Left out:
search documents, the editions of merged edition groups and publishers, and
ordinary edits next to merges.

`MergePage` is the page of one such merge: `Choose` a value that a field offers
(`*-section-merge.tsx`, `merge-field.tsx`), `Submit` (`entity-merge.tsx` 70-172
and the transforms of the routes). A field holds the value of one of the
entities, a list what any of them has. Names, sort names, disambiguations and dates
go through the debouncer of the page (`controller.js` 47-55), which keeps the last
action: `Deliver` is its timer, `TypeElsewhere` a keystroke in the annotation or the
revision note, and a choice of another such field takes the place of the one before.
`Submit` sends the store as it is.

### `EditorAccounts`

| Action | Code |
|---|---|
| `SignUp`, `Rename`, `ChangeEmail`, `Leave` | external: MetaBrainz changes an account and queues a delivery |
| `Deliver` | `POST /webhooks/metabrainz/` (`webhooks.ts` 56-104): the handler fetches the editor of the account |
| `Answer` | the handler's write (`oauthWebhooks.ts` 58-139, `editor.ts` 15-48) and the answer, which may get lost |
| `Refuse` | a name that is taken: the write throws, 500 (`webhooks.ts` 108-114) |
| `SignIn`, `FinishSignIn` | `GET /cb` and `_updateMetaBrainzUser` (`auth.ts` 73-94, 153-173): fetch, then a save of what came with the sign-in only; a profile without an editor goes on to registration |
| `SignOut` | `GET /logout` |
| `Register` | `POST /register/handler` (`register.js` 95-149) |
| `Fetch`, `FinishProfile`, `FinishCount` | the profile form (`editor.tsx` 124-178) and the edit count of an edit (`utils.ts` 122-135): the whole row is fetched and the whole row is saved |

What the model takes from outside the repository: MetaBrainz sends a delivery
until it is answered with success, and the deliveries of one account in order
(the code relies on it: deliveries have no version); Bookshelf's `save` writes
every attribute of a fetched model unless it is told `{patch: true}`; passport's
`logIn` and `logOut` start a new session. `Workers` are requests in progress:
one worker means requests one at a time. `Older` are accounts from before the
webhooks, `Registrants` the accounts whose owners fill in the registration form.
Names that editors give themselves differ from MetaBrainz names in the runs;
MetaBrainz frees the name of an account that is renamed or deleted.

### `SearchIndex`

| Action | Code |
|---|---|
| `SaveEntity`, `OpenMerge`, `OpenGroup`, `Commit`, `Rollback`, `Delete` | what edits, merges (`entity.tsx` 637-671), new edition groups and deletions do to rows, with the calls they send after the commit (1198-1219) |
| `SaveCollection` | `collectionRouteUtils.js` 33-99 |
| `Deliver`, `Lose` | the document or its deletion arrives, in any order, or not (`search.ts` 453-480): errors are swallowed |
| `Reindex`; the steps of `Regenerate` | `routes/search.tsx` 149-160 and `generateIndex`: the index is deleted and made with its mappings, the rows are read kind by kind and sent |
| `BulkProgress`, `BulkUnanswered` | the bulk request, of which some documents are turned down and sent again after a while |
| `ServerDown`, `ServerUp`, `Crash` | the search server and the processes, each of which may find no index when it starts (`app.js` 116-123) |

A row has a version, which tells its names apart, and a state; a work's document
also has the version of its author, whom it names. `job` is the regeneration each
process is at, `calls` what has been sent, `excused` a history of the keys that may be
out of date, and why: a call that was lost or overtook another, an author renamed
after her works, a regeneration that read before and wrote after a change. The copy
that `SearchCopy` describes knows none of this: a document appears as its row was at
some time, or goes.

### `Collections`

Each request is a task whose statements run one after another, or at the same time
where the code starts them together (`Promise.all`): `Create`, `Edit`
(`collectionRouteUtils.js` 33-99), `Delete` (`collection.js` 227-251), `Add`,
`Remove`, `RemoveCollaborators` (the checks of `middleware.ts` 385-453 and
`auth.ts`, then the handler). `Run` is the next statement of one worker. `OpenPage`
is the form of editing, as old as it gets. `met` is a history: another request about
the same collection was running. What the model abstracts: names, descriptions, the
flag `public`, times.

### `Achievements`

`Edit` is the transaction of a change, which reads the editor's count of revisions;
`Commit` writes back one more than it read (`utils.ts` 122-135) and goes on to award, or
to nothing: after a deletion, or if another entity of the form is refused (`Follow`).
`Visit` has inserted a first visit and goes on to award. `Measure` counts for a track
(`achievement.js` 158-186), `Award` is one of the lookups and inserts of its tiers (which
interleave), first of the achievement and then of its title. `Rank`, `Fetch`, `Clear` and
`Set` are the form of the profile (`editor.tsx` 586-630). Tracks: the count of revisions
(`Revisionist`), the rows of a type whose revision has no parent (`Creator` stands for
six), entities visited (`Explorer`), days in a row (`FunRunner`, also for Marathoner). A
change has the parents of what its relationships change, and its entity's unless it is
created or deleted (`entity.tsx` 303-330): so not each creation counts for `Creator`, and
some deletions do. The database lists days in any order.

### `Administration`

A worker is a request that goes through the statements of a privileges form with
its log, the editor's own form, an edit's count, or the form of a relationship type
(`typeRouteUtils.ts` 39-107). `Begin`, `Step` and `Fault` (a statement fails)
move one; `free` is the pool of connections, `kept` those held by transactions that
nobody will end, `rowKept` and `goneKept` the locks they hold.

### `ExternalServices`

Grants are numbered; the last is the one that CritiqueBrainz (external) accepts. A page
is given a token when it opens (`OpenPage`), sends reviews with it (`Submit`), and the
server refreshes the grant of the row when it is old or a review was turned down
(`reviews.ts`, `critiquebrainz.ts`). `Connect`, `Authorise`, `Abandon`, `Disconnect`
are the page of services. A fault is a statement that fails, CritiqueBrainz
out of reach, its answer lost after it has acted, or the end of the process (`Crash`).
An error outside a `try` (`externalService.js` 113 and 142, `reviews.ts` 70, where
the token of a refresh that came to nothing is read) marks its request as `thrown`;
nothing else happens until `ServerExit` (`appCleanup.js` 65) has ended every request in
progress. What the process had sent to CritiqueBrainz may still take effect there
(`Late`), and nobody hears of it.

### The unified form and the entity editor

`UnifiedForm`: the page keeps one set of slices, and puts the edition aside while a
modal is open (`helpers.ts` 131-244); `SubmitModal` closes the modal at once, and
`AnswerCall` or `RefuseCall` come whenever they come. `Submit` posts a batch
(`submission-section/actions.ts` 118-250), which `Serve` takes through
`process-unified-form.ts`: each work in its own transaction, then the edition.
`EditTitle` is another editor's revision of a work.

`EntityEditor`: `TypeName`, `TypeSortName`, `TypeAlias` show a text at once, and
`Deliver` is the one debouncer (250 ms) that brings it to the store; `SendCheck` and
`AnswerAny` look a name up (of every type but editions, whose pages never warn); then the aliases in their modal, the relationships with
`Undo`, and the submission. `RelationshipModal` is the dialog behind
`OpenRelationship` and `SaveRelationship`: the other entity is picked from the search
or from those used recently (`recently-used.ts`), or its address is pasted and looked
up (`entity-search-field-option.tsx` 164-231); then one of the relationships that
`generateRelationshipSelection` offers, and a number. `AuthorCredit`, `SeriesEditor`
and `EntityFields` are the other sections: rows with join phrases, rows that are
numbered or dragged, and fields with what their types make of them from the page
through the transform to the entity and back, with two editors on the same entity.

`Identifiers` is the modal of identifiers (`identifier-editor/actions.ts`, `reducer.js`):
rows with keys, types and texts, where a text that fits the detection of a type
suggests it, and where texts, not types, wait for the debouncer, whose timer all the
rows share with the ISBN of the unified form (`cover-tab`). `TypeISBN` fills that
field, `TickBox` adds the number of the other length as a row or takes it away, and
`Submit` sends the rows and the field as one list.

### Lists, revision pages, types and the API

`Pager` has the operators of `pager.js`: `SearchPage` uses them for results,
`CollectionPage` for the items of a collection with what is ticked, `ListReader` for
somebody who reads a list page by page while it changes; `RevisionPages` and
`CollectionLists` are such lists. `AddToCollection` is what is ticked among
search results, on its way into collections. `RevisionDiff` has one variable, the
versions of a field, and says which rows the formatters of `diffFormatters` make of
a change; it is checked against what changed. `TypeForms` has the forms of types
with their effects, and the trees drawn of what was saved. `WebApi` takes a request
through the reads of `src/api`, with edits and merges in between; an exception
that nobody catches ends the process and all requests.

## Runs

| Run | Instance | Shows |
|---|---|---|
| `revisions_concurrent` | 2 entities, one there at the start; 3 overlapping valid requests; crashes | `TypeOK`, `MasterIsOwnRevision`, `AncestryWellFounded`, `NothingRecordedTwice`, and `StoreImplemented`, the refinement of `RevisionStore` |
| `revisions_serial` | 3 entities, two there; 3 requests one at a time, valid or not; no crash. Or one of the readers | `EditsCounted`, `RelationshipsSymmetric`, `IndexFresh`, `HistoryLinear`, `DeletionsHold`: true of requests that do not overlap, and of those only. `ReadersHold`: the pages of revisions and lists of collections show what was there when they read it, a difference shows what changed except where it is known not to, the API answers about the entity that was asked for, the trees show every type that can be reached |
| `revisions_progress` | overlapping requests, valid or not | `RequestsEnd`, under fairness |
| `merge_editors` | 2 editors with queues and pages, 3 entities, deletions; handlers one at a time | `QueueOneType`, `RedirectsAcyclic` (with overlapping handlers the second fails: two merges in opposite directions) |
| `merge_one_editor` | 1 editor with one page at a time, 5 entities, no deletions. Or one merge page, a collection's page, the search page, the modal for collections | `RedirectedAreGone`, `MergesKeepAll` (what the merged entities had is found where their redirects lead), `PagesHold` (what is saved of a merge page is what it shows; lists show what belongs to their address, and what is ticked in them is what is added or removed) |
| `accounts_serial` | 2 accounts, one older than the webhooks and registering; requests one at a time | `OneEditorPerUser`, `CaughtUp`, `DeletedStaysDeleted`, and `DeliveriesEnd` under fairness |
| `search_regenerated` | an author, her work, a group, a collection; 2 changes, 1 regeneration asked for, 1 outage or crash | `FreshUnlessExcused`, `MappedUnlessOverlapped`, `CopyImplemented`, the refinement of `SearchCopy`, and `ReindexEnds` under fairness |
| `collections_met` | 1 collection, 2 editors, 2 entities, 2 types; 3 requests, 2 at a time | `CollectionsHold` (types of items, true answers, errors that change nothing), `MembersOnly` |
| `achievements_met` | 2 changes of any kind, 1 visit, 2 days, 2 forms; 2 requests at a time; a crash | `UnlockedAsEarned`, `RanksAsAsked` |
| `administration_met` | 3 requests, 2 at a time, 2 connections, a failing statement, a crash | `NothingOverwritten`, `KeptOnlyWhen`, `TypeAsAsked`, and `Answered` under fairness |
| `editor_forms_met` | one of seven pages of forms | `FormsHold` (a modal's answer goes to its own field, what is sent is what is shown, credits, items and identifiers are as they were shown, a relationship is one that the dialog may offer), `BatchesHold`, `SavedAsMeant`, and `FormsEnd` under fairness |
| `external_services_met` | 2 pages, 4 requests, 2 at a time; 1 fault | `ReviewsHold`, `TokensKept`, and `AnsweredOrCut` under fairness |

Each property has its exceptions, which are part of its statement: they say what the
code does not promise, and each names what must have happened for it.

Bounds. `EntityRevisions`: two or three entities, three requests (enough for a
deletion and an edit to overlap and a third request to see the outcome), as many
revisions as requests plus those there at the start, two names, one editor.
`EntityMerge`: three merges are the fewest for a redirect that is followed twice and
then merged again; five entities (three authors related to two works) for aliases and
relationships, three (two authors and a work) where two editors multiply the states.
`EditorAccounts`: two accounts and two names, the fewest for a name to pass from one
to the other, three deliveries (created, renamed and deleted, or shared between the
two), any number of repeats of each. `SearchIndex`: two changes are the fewest for one
to overtake another or for a work and its author to change, one regeneration and one
fault the fewest for each to fall between any two other steps. `Collections`,
`Achievements`, `Administration`, `ExternalServices`: two requests at a time meet in
every pair of steps, and a third (or fourth) sees what they left. The pages: two of
everything that is numbered or ordered (modals, rows, items, tiers), three texts where
one is empty and one taken, and as many acts as the shortest behaviours that break a
wrong variant need, plus one. TLC does not go on (`StillTold`) from a collection's
page once others have changed the collection, or the page did not wait for an answer: of
what it shows then nothing is claimed, and the theorem has the rest. The trees of types have three levels at most, and the
relationship dialog a type below one that does not fit, a deprecated one, and one
below the items of a series.

Fairness. `EntityRevisions`: weak fairness of every step of a request. Node runs each
callback whose query has returned, PostgreSQL grants a lock once its holder is gone
and aborts a member of a cycle; no fairness is put on submissions or crashes.
`EditorAccounts`: weak fairness of the end of a request, strong fairness of sending a
delivery (it is sent again and again, to whatever worker is free) and of an answer
that arrives (not every answer gets lost). A delivery whose name another editor has
by then fails each time, and `DeliveriesEnd` says so. `SearchIndex`: weak fairness of
the steps of a regeneration, of a bulk request that is answered and of the search
server's return; the timers between attempts are steps. `Administration`, `ExternalServices`: weak fairness of the steps of
a request, in the second one with the answers of CritiqueBrainz that the step
waits for, and of the end of a process that an error nobody catches has reached. `MCEditorForms`: weak fairness of each batch at the server, and in the entity
editor of the debouncer, of the check of a name and of its answers; none of what a
person does. The lists and readers have no fairness: nothing is said of when they end.

`CHECK_DEADLOCK` is FALSE everywhere: with all requests over, or a bound reached,
nothing remains to do.

## Proofs

TLC checks small instances; the theorems are about every value of the constants that
the ASSUMEs of the modules allow. None of the invariants is inductive: what keeps it is
what a request has read earlier and what others have not done since. Each proof module
starts with the strengthening, a conjunction of named parts, shows of each action that
it keeps them (by lemmas about what a change of one request leaves alone), and derives
the properties at its end.

| Theorem | Property | Assumed besides |
|---|---|---|
| `EntityRevisionsProofs`: `TypeCorrect`, `Inductive`, `MastersAreOwnRevisions`, `AncestryIsWellFounded`, `NothingIsRecordedTwice` | those of `revisions_concurrent` | |
| `HandlersImplementStore` | `StoreImplemented` | |
| `EveryEditIsCounted`, `BothSidesAgree`, `NoEditIsLost`, `DeletedAltogether` | `EditsCounted`, `RelationshipsSymmetric`, `HistoryLinear`, `DeletionsHold` | requests one at a time, finitely many requests |
| `IndexIsFresh` | `IndexFresh` | and the process is not killed |
| `BatchesDoWhatTheySay`, `FormsAreKeptApart` (of `UnifiedForm`, its instance `UF`) | `BatchesHold`; the part `FormsKeptApart` of `FormsHold` | |
| `FieldsAsMeant` (of `EntityFields`, its instance `Type`) | `SavedAsMeant` | |
| `EntityMergeProofs`: `TypeCorrect`, `QueuesAreOfOneType` | `QueueOneType` | |
| `RedirectsAreAcyclic` | `RedirectsAcyclic` | one handler at a time, finitely many sessions |
| `MergedEntitiesAreGone` | `RedirectedAreGone` | and no deletions otherwise |
| `MergingKeepsAll` | `MergesKeepAll` | one session, which leaves its queue alone while a page is open; no deletions otherwise |
| `PagesDoAsTold` | `PagesHold` | |
| `EditorAccountsProofs`: `TypeCorrect` | | |
| `OneEditorPerAccount` | `OneEditorPerUser` | requests one at a time, nobody links accounts, those who register use one browser and have accounts older than the webhooks |
| `EditorsCatchUp` | `CaughtUp` | requests one at a time, nobody links accounts |
| `DeletedForGood` | `DeletedStaysDeleted` | requests one at a time |
| `SearchIndexProofs`: `TypesOfIndex`, `IndexIsCopy`, `FilledIndexIsMapped`, `OutOfDateForAReason` | `CopyImplemented`, `MappedUnlessOverlapped`, `FreshUnlessExcused` | |
| `CollectionsProofs`: `TypesOfCollections`, `CollectionsHoldAlways`, `OnlyMembersChange` | `CollectionsHold`, `MembersOnly` | |
| `AchievementsProofs`: `TypesOfAwards`, `AwardsAsEarned`, `ProfileShowsForm` | `UnlockedAsEarned`, `RanksAsAsked` | |
| `AdministrationProofs`: `RowsHold`, `LostOnlyWhen`, `AsAsked` | `NothingOverwritten`, `KeptOnlyWhen`, `TypeAsAsked` | |
| `ExternalServicesProofs`: `TypesOfServices`, `ReviewsHoldAlways`, `TokensKeptAlways` | `ReviewsHold`, `TokensKept` | |

**Entity revisions.** `IInv` adds for each request in flight (`RequestOK`, `WritesOK`):
its revision id is unused and its own; the parents it collected are committed; a row
with data that it will write is the first of an entity this request creates, or its
base is a committed row with data of the entity; the entity a request creates is no one
else's; the edit count it read is no more than the editor's revisions now. And for the
tables: unused ids left nothing behind, parents are committed, an entity without header
has no rows. Most actions go through `OneRequestMoves` (one request changes, the tables
do not); the commit is the heart (`CommitEffect`, `CommitKeepsAncestry`,
`CommitKeepsCreatedOnce`, `CommitKeepsOthers`). The refinement maps `Commit` to
`Record` and everything else to a stutter.

For requests one at a time `SerialInv` adds what the only request in flight may rely on
(`SerialOK`): what it loaded is the master row, the relationship sets it computed are
those of the rows now, the count it read is the count. What it is about to write is
described by the tables as they will be after the commit (`LiveAfter`, `RelsAfter`): it
continues the rows there are (`Continues`) and keeps the two sides of each relationship
together (`Relates`), which `FetchKeepsSerial` and `DeleteKeepsSerial` show of the sets
that the handlers compute. `RelatedExist` is needed for a deletion: the related entities
it detaches are all there. `Indexed` excuses the one name between its commit and the
answer (`Coming`); a process that is killed there leaves the index behind, hence the
last assumption.

**Merging.** A cycle needs a redirect into an entity that is redirected, and the
handler has seen at `Load` that its target is not. `MergeInv` keeps that (and that
the target is not among those merged into it) while the handler runs, which no other
handler disturbs. A set of entities all redirected into the set would contain the
new target, which is redirected nowhere (no induction over chains: a path is what every
set closed under redirects holds). `GoneInv` adds that the target is still there
at the commit, so that the 'saved' hook runs, and that what the handler writes was not
merged earlier. `QueueInv` needs neither: redirects stay within a type whatever
overlaps, because a handler merges what was in one queue. `KeepInv` is about one editor:
the queue holds entities that are there (`QueueLive`), an open page shows them as they are
(`PageFits`), and the handler writes what all of them have to the target, and the target
to what was related to any of them (`WritesAll`). After the commit, a path that came by a
merged entity ends at the target (`FinalsMerged`), which has its aliases. With a second
editor `PageFits` is what fails.

**Unified form.** At the end of `EntityRevisionsProofs`, because what the form posts is saved
as revisions; it reaches `UnifiedForm` as `MCEditorForms` does, through `EditorForms`,
which holds the assumptions on the constants. `BatchInv`: what the page knows of a work is so (`RowsTrue`), which
works a batch has yet to save and which have its author by now, what it has read of the
existing work unless it is known to be old (`BatchTrue`), and that submissions which may still
become an edition or have become one are no more than lost answers, buttons that were
turned on and the one the button waits for (`Counted`); that is what bounds the editions,
since no step but these enables the form. `SlicesInv`: whose entity the slices show (`Named`), that the
edition, shown or put aside, is what was wanted or will be when it is taken back
(`AsWanted`), and that two answers are awaited only after a modal's answer
turned the button on (`Flagged`): without it an answer could leave a form
enabled that another batch still waits for.

**Fields of an entity.** Also at the end of `EntityRevisionsProofs`. `FieldsInv` says of the
entity that its end, its begin and whether it ended go together (`RowOK`), and of each page
that a field not chosen holds what it was loaded with, but for the date that stands for
further release events, and that a chosen one is what was meant (`FormOK`, `Meant`): ending
that was ticked without a date means no date, an edition group that was emptied means one of
the edition's own. An end without having ended comes into a form only by choosing `ended`,
which is why an error can be laid to that. How old a page is does not matter, since `RowOK` is kept of what it was
loaded with.

**Pages with lists, and the merge page.** `PagesInv` has one invariant per page.
`MergePageInv`: a field has what was chosen in it or what it had at first, the latter
also where the debouncer has the choice or has dropped it (`FieldHas`, `Lost`),
lists have what any of the entities has, and whoever has not said whether something
ended has an end only where the field says so (`EndedOptions` follows from what the
entities can be). `CollectionInv`: as long as the editor is alone and no addition
has failed half-way, each
request on its way reads or has read the items there are, and what is ticked is
among them until an answer takes it away. `SearchInv`: for one who waits for each answer
(`Waits`), what is asked for, or else shown, is what the address says, and every address
of the history reads as it was written and is not after the results. `AddingInv`: what each batch has done, has failed
to do and has yet to do (`BatchHolds`), and who has made the collection of a new one
(`MadeOnce`). The sequences are taken apart by `RemovedAt`, `PageRead`, `PageOfRows`,
`PushedAt`; what `Without` leaves of the items is shown for every length by
`AllNumbers`: a set of numbers that lacks one has a least one missing
(`LeastNumber`, from `WFMin`), which is induction for one set instead of for any operator. The assumptions
(`PagesAssumption`, checked by TLC) are that nothing is no value, that a text
reads as one of the texts, that sizes of pages are not zero, and that there are finitely many
things.

**Editor accounts.** `AccountInv`: what the request in progress has read is still so
(`TaskCurrent`), most of all that an account for which no editor was found has none.
Accounts from before the webhooks are created by no delivery (`OlderKnown`), and who is
about to register one of them has no editor yet (`ProfilesCurrent`): a second browser is
what breaks it.
For the rest the deliveries matter: those of an account are in order, the hook in
progress handles the first (`HooksFirst`), and the one of a deletion is the last
(`MailInOrder`, `MailTrue`). Then a
handler that finds an editor of a deleted account clears it, and nothing that is
still in the queue can fill it again; a save with an old row would, and requests one
at a time exclude it. `SettledInv` follows the name: once nothing is on its
way, the last name of the account is the one in the row.

**Search index.** Three layers. `StoreInv`: versions only grow, what is on its way is
of a version that there was. `IndexInv`: as long as no regeneration was overlapped, the
index that one has made is the one it fills. `FreshInv`: a document differs from its row
only if a call that will correct it is on its way, or a regeneration has yet to read
the row or to deliver what it read, or the key is excused. That the
property speaks of quiet states only, and not of each state in which a key has
no call on its way, is because a regeneration holds old rows of keys nobody else
touches.

**Collections.** A request that met no other is described to the letter: which
statements it still has to run and what those before have done (`Progress`), what its
answer will mean (`Outcome`). Of one that met another only the statements it may still
run are known (`Shape`), and that is enough for the type of the items.

**Achievements.** `OnceInv`: what an open tier has looked up is still so unless another
request is at the track. `EarnedInv`: what is open or unlocked was earned;
`RunOfDays` shows that the count of days in a row never exceeds the longest run,
whatever order the database lists the days in (by the last index of the run and
cardinalities, without induction). `TransInv`: the count is at most the number of
revisions, and until transactions overlapped it is that number, also as the one that is
open has read it. `MissedInv`: each tier that may be expected is
unlocked, open, or still before the request that counts it. `RankInv` is about
requests to rank that never met: one holder per rank, and what one has found is still
there when it clears it.

**Administration.** `FreshRows`: what a request has read is the row, unless somebody
else has saved it since. `Unlogged`: while the log is empty the privileges are
everywhere the first ones. `Locks`: rows that a transaction has deleted are there
until its commit, and of one transaction only. `AloneForms`: how far a form about
the type is that no other has met.

**External services.** One request at most writes the row, unless a grant was obtained
across another; a page or request with an older grant than the accepted one is among
those the statement excuses. At the end of the process nobody is left to write, and
the row has the accepted grant or none unless one was on its way to it
(`ProcessEndKeeps`). Reviews are counted: what was sent, what is on its way and
what was made, by the cardinality of the requests at each step (hence
`JobsAssumption`).

### Only model-checked

- Liveness (`RequestsEnd`, `DeliveriesEnd`, `ReindexEnds`, `Answered`, `FormsEnd`,
  `AnsweredOrCut`) and what needs ENABLED: out of the prover's reach.
- `ReadersHold`, and `FormsHold` but for `FormsKeptApart`: about composed readers and
  forms, some of whose modules have RECURSIVE operators (the trees of types, the merges
  of aliases) or compute over sequences by folds and by operators of the community
  modules that the prover cannot expand.

## Disagreements with the repository's own words

None of these is a violated run: the properties carry what the code does not promise
as exceptions. A team would look at them first.

- *Resurrection* (`entity.tsx` 1136): an entity deleted while an edit of it is open
  gets data again, with the deletion behind it in its history.
- *A refused form is saved* (`entityRouteUtils.tsx` 265): the handler answers that
  the form is invalid and goes on saving.
- *An error is not answered* (`entity.tsx` 1117-1119): an edit without a change rejects a
  promise nobody handles; the process ends, with the requests in flight. The retry of
  an edit that was saved but not answered is refused in the same way.
- *Merging into the deleted* (`merge.ts` 288, `entity.tsx` 676): a queue survives the
  deletion of its entities.
- *A second editor* (`register.js` 114): registering twice makes two.
- *A revived editor* (`utils.ts` 132): the edit count saves a row read before the
  account was deleted; two overlapping counts become one (128).
- The revision of a deletion has no parent (`entity.tsx` 437); two overlapping merges
  in opposite directions redirect each entity to the other (673).
- Accounts: what is asked of CritiqueBrainz with a token that is no list has
  `token?.length` undefined (`externalService.js` 139-147); a refresh that fails is
  used as null (`reviews.ts` 70), which ends the process: of two reviews that refresh
  one grant, the second can end the first between its grant and the row.
- Achievements: days in a row are counted in the order the database lists them.
  "Create one author" (`create_type_data.sql` 7) counts revisions without parents
  (`achievement.js` 196-213): not an author created with a relationship to an entity
  that was there, but the deletion of an author without relationships. A deletion
  raises the count of revisions and awards nothing.
- Administration: the log shows what the form said was there, which may be stale.
- Unified form: the flag `submitted` is one for the page and its modals, so that an answer
  to a modal lets the page be submitted again while its submission is running.

### In the forms

- Aliases: keys of rows added are said to be distinct from all (`alias-editor/actions.ts`
  127); those of relationships are not (`n0` for the first of a new page,
  `edition.ts` 514, `author.ts` 307). "Undo last action" does not bring back the removal
  of a relationship that was on the site. Editing only an attribute keeps the
  old row's id (`relationship-editor.tsx` 234, `reducer.js` 62).
- Relationship dialog: types between entities of one type are offered twice per level;
  a type below one that does not fit is never offered; a pasted address or a recently
  used entity skips the filters (the entity itself, a series of another type); Enter
  that chooses a type also adds the relationship; an answer that arrives after the
  dialog was closed still enters the recently used.
- Author credit: leaving the modal with an empty added row leaves ` & ` dangling; emptying the
  first row drops its phrase; the toggle loses the credit.
- Series: positions of items already there are not saved after a drag; the entity that
  was picked stays when the type changes; keys `n<k>` can collide.
- Fields: unticking "Dissolved?" keeps the end date, which is sent and refused by a CHECK
  (`validators/publisher.ts` 45 says it is ignored); "ended" without a date sends
  `endDate=true`; clearing the format throws (`edition-section.tsx` 536); a stale
  page reverts fields it did not touch.
- Identifiers: unticking the box leaves its row if another ISBN was typed while it was ticked;
  with an ISBN that has no number of the other length (979) the box adds a row without one, which
  blocks the submission; ticking it within 250 ms of typing writes the stored ISBN
  back over the typed one.
- Merge page: editions with a publisher can never be merged (`validators/edition.ts` 73);
  choosing between differing sizes throws (`edition-section-merge.tsx` 335-358); "ended"
  from No to Yes sends `true`; a relationship between the merged becomes one with
  itself; a name, disambiguation or date is lost if another text or date, or the
  submission, follows within 250 ms, and the field then shows what is stored again.
- Types: a type can be its own parent and then vanishes from the tree; closing the
  modal forgets the parent; submitting twice creates twice.

### In the lists, revision pages and the API

- Search: going back to another search asks twice and shows what arrives last; `&`, `+`
  and `%` are sent as they are. Ticks made while a removal runs are forgotten; an item
  that others removed stays ticked and makes removals fail. Adding to a new
  collection again after a failure makes a second one.
- Lists: an editor's own collections are counted once per collaborator but shown once,
  so that a page is shorter and the later ones cannot be reached; a removal shifts
  the list, and the next page leaves one out.
- Revision pages: a changed `primary` always shows "No"; an addition to or removal from
  a set within a language shows nothing (`set.js` is given the change, not its item); a
  removed set, a changed gender, join phrase or first language shows nothing; a number 0
  is printed as nothing.
- API: browsing an entity with two relationships to the same other one throws outside of
  any handler, and the process ends with all requests in flight; a failure to load
  answers 404; the editions of a merged publisher are none under its old id.

## Not modelled

Cached lookups; pages and views (rendering); documents of areas and editors in the index
and the queries of the search; the tracks Sprinter and of release dates (as the others,
with times); alerts of unlocks; attributes of identifier types; the ORM, PostgreSQL,
ElasticSearch, Redis and MetaBrainz themselves, which appear as far as the code relies
on them. The components of `PROJECT.json` say the same part by part.

## The plan

Done: every component above except the two that are not modelled; the safety
properties of all state machines of the server that the runs check are proved, as far as
they hold for every value of the constants. So are the pages with lists,
the merge page, the unified form and the fields of an entity. Next: the readers (`TypeForms`, `RevisionPages`), then
the other forms of the browser one by one, `EntityEditor` first.

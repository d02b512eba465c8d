---------------------------- MODULE SearchIndex ----------------------------
(***************************************************************************)
(* The search index and what keeps it in step with the database            *)
(* (src/common/helpers/search.ts): the document that a request sends after *)
(* its commit, and the regeneration of the whole index, by an              *)
(* administrator (routes/search.tsx) or when a process starts and finds no *)
(* index (server/app.js and api/app.js).                                   *)
(*                                                                         *)
(* A row is what the document of an entity or a collection is made from;   *)
(* versions of a row tell its successive names apart. A work's document    *)
(* also names its author. The search server (external) answers or not, and *)
(* makes an index of its own accord for a document it has no index for.    *)
(***************************************************************************)
EXTENDS Naturals

CONSTANTS
  Authors, Works, Groups,  \* entities
  AuthorOf,                \* who wrote a work
  Collections,
  NoDoc,                   \* no document with that id
  Processes,               \* what connects to the index: the site and the API
  Site,
  MaxWrites,               \* bound: changes of rows
  MaxReindex,              \* bound: regenerations asked for
  MaxFaults                \* bound: outages of the search server and crashes

Entities == Authors \cup Works \cup Groups
Keys == Entities \cup Collections

ASSUME BoundAssumption ==
  MaxWrites \in Nat /\ MaxReindex \in Nat /\ MaxFaults \in Nat
ASSUME KeyAssumption ==
  /\ Authors \cap Works = {} /\ (Authors \cup Works) \cap Groups = {}
  /\ Entities \cap Collections = {}
  /\ AuthorOf \in [Works -> Authors]
ASSUME SiteAssumption == Site \in Processes

VARIABLES
  row,      \* version and state of each row
  docs,     \* the documents of the index
  index,    \* whether there is one: "none", "made" by the code, "implicit"
  up,       \* whether the search server answers
  calls,    \* index and delete requests of the site on their way
  job,      \* the regeneration each process is at
  excused,  \* history: keys whose document may be out of date, and why not
  writes, reindexings, faults  \* what the bounds count

vars == <<row, docs, index, up, calls, job, excused, writes, reindexings, faults>>

Scopes == {"allEntities", "Author", "Work", "EditionGroup", "Collection"}
Kinds == {"Author", "Work", "EditionGroup"}

KeysOf(kind) == CASE kind = "Author" -> Authors
                  [] kind = "Work" -> Works
                  [] kind = "EditionGroup" -> Groups

\* States of a row: "open" in a transaction that creates it and is not over,
\* "void" when that was rolled back, "merging" in a transaction that merges it
\* into another, "hidden" a collection that is not public, "gone" an entity
\* without data or a collection that was deleted.
States == {"absent", "open", "void", "live", "merging", "hidden", "gone"}

Version == 0..(MaxWrites + 1)
Document == [ver : Version, by : Version]
ASSUME SentinelAssumption == NoDoc \notin Nat /\ NoDoc \notin Document
Row == [ver : Version, state : States]
Call == [key : Keys, doc : Document \cup {NoDoc}]

Pcs == {"boot", "idle", "check", "delete", "create", "read", "bulk",
        "readCollections", "bulkCollections", "refresh", "done", "failed"}
Job == [pc : Pcs, scope : Scopes, unread : SUBSET Kinds,
        seen : [Keys -> Version], todo : SUBSET Keys,
        touched : SUBSET Keys,  \* history: what changed since it started
        alone : BOOLEAN]        \* history: no other ran meanwhile

Boot == [pc |-> "boot", scope |-> "allEntities", unread |-> {},
         seen |-> [k \in Keys |-> 0], todo |-> {}, touched |-> {}, alone |-> TRUE]

Init ==
  /\ row = [k \in Keys |-> IF k \in Authors THEN [ver |-> 1, state |-> "live"]
                           ELSE [ver |-> 0, state |-> "absent"]]
  /\ docs = [k \in Keys |-> NoDoc]
  /\ index = "none"
  /\ up = TRUE
  /\ calls = {}
  /\ job = [p \in Processes |-> Boot]
  /\ excused = Keys
  /\ writes = 0 /\ reindexings = 0 /\ faults = 0

\* What the query of a regeneration returns: rows with data, public collections.
Listed(k) == row[k].state \in {"live", "merging"}

Pending(k) == \E c \in calls : c.key = k

Running(p) == job[p].pc \notin {"boot", "idle", "done", "failed"}

\* The keys in S change while regenerations run.
Touch(S) ==
  [p \in Processes |-> [job[p] EXCEPT !.touched = IF Running(p) THEN @ \cup S ELSE @]]

----------------------------------------------------------------------------
(* Requests of the site.                                                   *)

\* Wrong: the document is made before the row is saved.
DocumentOf_Before(k) ==
  [ver |-> row[k].ver, by |-> IF k \in Works THEN row[AuthorOf[k]].ver ELSE 0]

\* getDocumentToIndex: only works name their author here; generateIndex does
\* the same for editions and edition groups.
DocumentOf(k) ==
  [ver |-> row'[k].ver, by |-> IF k \in Works THEN row[AuthorOf[k]].ver ELSE 0]

\* Two requests about one key on their way may arrive in any order.
Overtaking(k) == IF Pending(k) THEN {k} ELSE {}

Change(k, next) ==
  /\ writes < MaxWrites
  /\ writes' = writes + 1
  /\ row' = [row EXCEPT ![k] = next]
  /\ job' = Touch({k})
  /\ UNCHANGED <<docs, index, up, reindexings, faults>>

Send(k, doc) == calls' = calls \cup {[key |-> k, doc |-> doc]}

\* handleCreateOrEditEntity: the entity is indexed once its transaction is over.
SaveEntity(k) ==
  /\ \/ row[k].state = "live"
     \/ row[k].state = "absent" /\ k \notin Groups
  /\ Change(k, [ver |-> row[k].ver + 1, state |-> "live"])
  /\ Send(k, DocumentOf(k))
  /\ excused' = excused \cup Overtaking(k)

\* entityDeleteHandler, and the handler that deletes a collection.
Delete(k) ==
  /\ row[k].state \in {"live", "hidden"} /\ k \notin Authors
  /\ Change(k, [row[k] EXCEPT !.state = "gone"])
  /\ Send(k, NoDoc)
  /\ excused' = excused \cup Overtaking(k)

\* collectionCreateOrEditHandler: a new collection and one with a new name are
\* indexed, public or not; one that only becomes public is not.
SaveCollection(k, state, renamed) ==
  /\ row[k].state \in {"absent", "live", "hidden"}
  /\ row[k].state = "absent" => renamed
  /\ Change(k, [ver |-> IF renamed THEN row[k].ver + 1 ELSE row[k].ver,
                state |-> state])
  /\ IF renamed
     THEN Send(k, DocumentOf(k)) /\ excused' = excused \cup Overtaking(k)
     ELSE UNCHANGED calls /\ excused' = excused \cup {k}

\* indexAutoCreatedEditionGroup: the group that comes with a new edition is
\* indexed in the transaction that creates both.
OpenGroup(k) ==
  /\ row[k].state = "absent"
  /\ Change(k, [ver |-> 1, state |-> "open"])
  /\ Send(k, DocumentOf(k))
  /\ UNCHANGED excused

\* The 'saved' hook of a merge deletes the documents of the entities that are
\* merged, before the transaction is over.
OpenMerge(k) ==
  /\ row[k].state = "live" /\ k \notin Authors
  /\ Change(k, [row[k] EXCEPT !.state = "merging"])
  /\ Send(k, NoDoc)
  /\ excused' = excused \cup Overtaking(k)

\* The transaction ends once its calls are answered, with a commit or without.
Close(k, next) ==
  /\ row[k].state \in {"open", "merging"} /\ ~Pending(k)
  /\ row' = [row EXCEPT ![k].state = next]
  /\ job' = Touch({k})
  /\ UNCHANGED <<docs, index, up, calls, writes, reindexings, faults>>

Commit(k) ==
  /\ Close(k, IF row[k].state = "open" THEN "live" ELSE "gone")
  /\ UNCHANGED excused

Rollback(k) ==
  /\ Close(k, IF row[k].state = "open" THEN "void" ELSE "live")
  /\ excused' = excused \cup {k}

----------------------------------------------------------------------------
(* The search server.                                                      *)

\* A document for an index there is not makes one, without the mappings.
IndexAfter(S) == IF S # {} /\ index = "none" THEN "implicit" ELSE index

\* indexEntity, deleteEntity.
Deliver(c) ==
  /\ up
  /\ docs' = [docs EXCEPT ![c.key] = c.doc]
  /\ index' = IndexAfter(IF c.doc = NoDoc THEN {} ELSE {c.key})
  /\ calls' = calls \ {c}
  /\ job' = Touch({c.key})
  /\ UNCHANGED <<row, up, excused, writes, reindexings, faults>>

\* The error is logged, the request goes on.
Lose(c) ==
  /\ calls' = calls \ {c}
  /\ excused' = excused \cup {c.key}
  /\ job' = Touch({c.key})
  /\ UNCHANGED <<row, docs, index, up, writes, reindexings, faults>>

Fault ==
  /\ faults < MaxFaults
  /\ faults' = faults + 1
  /\ UNCHANGED <<docs, index, writes, reindexings>>

ServerDown ==
  /\ up
  /\ up' = FALSE
  /\ Fault
  /\ UNCHANGED <<row, calls, job, excused>>

ServerUp ==
  /\ ~up
  /\ up' = TRUE
  /\ UNCHANGED <<row, docs, index, calls, job, excused, writes, reindexings, faults>>

\* A process is killed and started again; the site loses its requests.
Crash(p) ==
  /\ Fault
  /\ LET lost == IF p = Site THEN {c.key : c \in calls} ELSE {}
         cut == {k \in Keys : p = Site /\ row[k].state \in {"open", "merging"}}
     IN /\ job' = [Touch(lost \cup cut) EXCEPT ![p] = Boot]
        /\ calls' = IF p = Site THEN {} ELSE calls
        /\ row' = [k \in Keys |-> IF k \notin cut THEN row[k] ELSE
             [row[k] EXCEPT !.state = IF @ = "open" THEN "void" ELSE "live"]]
        /\ excused' = IF Running(p) THEN Keys ELSE excused \cup lost \cup cut
  /\ UNCHANGED up

----------------------------------------------------------------------------
(* Regenerating the index.                                                 *)

Step(p, next) ==
  /\ job' = [job EXCEPT ![p] = next]
  /\ UNCHANGED <<row, up, calls, writes, faults>>

Others(p) == {q \in Processes \ {p} : Running(q)}

\* A regeneration that runs next to another writes what the other may have
\* deleted, or deletes what it has written.
Start(p, scope) ==
  /\ job' = [q \in Processes |->
       IF q = p
       THEN [Boot EXCEPT !.pc = "check", !.scope = scope, !.alone = Others(p) = {},
                         !.touched = {c.key : c \in calls}]
       ELSE [job[q] EXCEPT !.alone = @ /\ ~Running(q)]]
  /\ UNCHANGED <<row, docs, index, up, calls, excused, writes, faults>>

\* init: the index is generated if there is none.
StartProcess(p) ==
  /\ job[p].pc = "boot"
  /\ UNCHANGED reindexings
  /\ IF up /\ index = "none"
     THEN Start(p, "allEntities")
     ELSE /\ Step(p, [job[p] EXCEPT !.pc = "idle"])
          /\ UNCHANGED <<docs, index, excused>>

\* GET /search/reindex
Reindex(scope) ==
  /\ job[Site].pc \in {"idle", "done", "failed"}
  /\ reindexings < MaxReindex
  /\ reindexings' = reindexings + 1
  /\ Start(Site, scope)

Fail(p) ==
  /\ Step(p, [job[p] EXCEPT !.pc = "failed"])
  /\ excused' = Keys
  /\ UNCHANGED <<docs, index, reindexings>>

EntityKinds(scope) ==
  CASE scope = "allEntities" -> Kinds
    [] scope = "Collection" -> {}
    [] OTHER -> {"Author", scope}

\* Entities first; without a kind of entity the collections are next.
Reading(j) ==
  [j EXCEPT !.unread = EntityKinds(j.scope),
            !.pc = IF EntityKinds(j.scope) = {} THEN "readCollections" ELSE "read"]

Check(p) ==
  /\ job[p].pc = "check"
  /\ \/ ~up /\ Fail(p)
     \/ /\ up
        /\ Step(p, IF index = "none" THEN [job[p] EXCEPT !.pc = "create"]
                   ELSE IF job[p].scope = "allEntities"
                   THEN [job[p] EXCEPT !.pc = "delete"]
                   ELSE Reading(job[p]))
        /\ UNCHANGED <<docs, index, excused, reindexings>>

DeleteIndex(p) ==
  /\ job[p].pc = "delete"
  /\ \/ (~up \/ index = "none") /\ Fail(p)
     \/ /\ up /\ index # "none"
        /\ index' = "none"
        /\ docs' = [k \in Keys |-> NoDoc]
        /\ Step(p, [job[p] EXCEPT !.pc = "create"])
        /\ UNCHANGED <<excused, reindexings>>

\* Wrong: an index that is already there is good enough.
CreateIndex_Existing(p) ==
  /\ job[p].pc = "create"
  /\ \/ ~up /\ Fail(p)
     \/ /\ up
        /\ index' = IF index = "none" THEN "made" ELSE index
        /\ Step(p, Reading(job[p]))
        /\ UNCHANGED <<docs, excused, reindexings>>

CreateIndex(p) ==
  /\ job[p].pc = "create"
  /\ \/ (~up \/ index # "none") /\ Fail(p)
     \/ /\ up /\ index = "none"
        /\ index' = "made"
        /\ Step(p, Reading(job[p]))
        /\ UNCHANGED <<docs, excused, reindexings>>

\* Rows of one kind are read; the kinds in any order, then all are sent.
ReadRows(p, kind) ==
  /\ job[p].pc = "read" /\ kind \in job[p].unread
  /\ LET j == job[p]
         seen == [k \in Keys |->
                    IF k \in KeysOf(kind) /\ Listed(k) THEN row[k].ver ELSE j.seen[k]]
         last == j.unread = {kind}
     IN Step(p, [j EXCEPT !.seen = seen, !.unread = @ \ {kind},
                          !.pc = IF last THEN "bulk" ELSE @,
                          !.todo = IF last THEN {k \in Keys : seen[k] # 0} ELSE {}])
  /\ UNCHANGED <<docs, index, excused, reindexings>>

ReadCollections(p) ==
  /\ job[p].pc = "readCollections"
  /\ LET public == {k \in Collections : Listed(k)}
     IN Step(p, [job[p] EXCEPT !.pc = "bulkCollections", !.todo = public,
                   !.seen = [k \in Keys |-> IF k \in public THEN row[k].ver ELSE @[k]]])
  /\ UNCHANGED <<docs, index, excused, reindexings>>

\* The document made from what was read.
Rebuilt(p, k) ==
  [ver |-> job[p].seen[k],
   by |-> IF k \in Works THEN job[p].seen[AuthorOf[k]] ELSE 0]

\* Wrong: what the server had no room for is given up.
Repeat_Never(todo, accepted, refused) == {}

\* Wrong: everything is sent again while anything was.
Repeat_All(todo, accepted, refused) == todo

\* What is sent again after an answer: only what the server had no room for.
Repeat(todo, accepted, refused) == todo \ (accepted \cup refused)

\* _bulkIndexEntities: one attempt. The server takes some documents, refuses
\* others for good, has no room for the rest (429); or its answer is lost and
\* everything is sent again, at once.
Bulk(p, accepted, refused, answered) ==
  /\ job[p].pc \in {"bulk", "bulkCollections"} /\ up
  /\ accepted \cup refused # {}
  /\ docs' = [k \in Keys |-> IF k \in accepted THEN Rebuilt(p, k) ELSE docs[k]]
  /\ index' = IndexAfter(accepted)
  /\ Step(p, IF answered
             THEN [job[p] EXCEPT !.todo = Repeat(@, accepted, refused),
                                 !.touched = @ \cup refused]
             ELSE job[p])
  /\ UNCHANGED <<excused, reindexings>>

BulkDone(p) ==
  /\ job[p].pc \in {"bulk", "bulkCollections"} /\ job[p].todo = {}
  /\ Step(p, [job[p] EXCEPT !.pc =
       IF @ = "bulk" /\ job[p].scope = "allEntities" THEN "readCollections" ELSE "refresh"])
  /\ UNCHANGED <<docs, index, excused, reindexings>>

\* Errors of the refresh are logged. The documents of the keys nothing happened
\* to are now right, if the index was made anew.
Refresh(p) ==
  /\ job[p].pc = "refresh"
  /\ Step(p, [Boot EXCEPT !.pc = "done"])
  /\ excused' = IF job[p].alone
                THEN job[p].touched \cup {k \in Keys : row[k].state \in {"open", "merging"}} \cup
                       (IF job[p].scope = "allEntities" THEN {} ELSE excused)
                ELSE Keys
  /\ UNCHANGED <<docs, index, reindexings>>

Regenerate(p) ==
  \/ StartProcess(p) \/ Check(p) \/ DeleteIndex(p) \/ CreateIndex(p)
  \/ \E kind \in Kinds : ReadRows(p, kind)
  \/ ReadCollections(p) \/ BulkDone(p) \/ Refresh(p)

\* The server takes or refuses at least one document, and says so.
BulkProgress(p) ==
  \E accepted, refused \in SUBSET job[p].todo :
    accepted \cap refused = {} /\ Bulk(p, accepted, refused, TRUE)

BulkUnanswered(p) ==
  \E accepted \in SUBSET job[p].todo : Bulk(p, accepted, {}, FALSE)

Next ==
  \/ \E k \in Entities : SaveEntity(k) \/ OpenMerge(k)
  \/ \E k \in Keys : Delete(k) \/ Commit(k) \/ Rollback(k)
  \/ \E k \in Collections, state \in {"live", "hidden"}, renamed \in BOOLEAN :
       SaveCollection(k, state, renamed)
  \/ \E k \in Groups : OpenGroup(k)
  \/ \E c \in calls : Deliver(c) \/ Lose(c)
  \/ ServerDown \/ ServerUp
  \/ \E scope \in Scopes : Reindex(scope)
  \/ \E p \in Processes :
       Crash(p) \/ Regenerate(p) \/ BulkProgress(p) \/ BulkUnanswered(p)

Spec == Init /\ [][Next]_vars

\* Node takes every step that it can take. The search server comes back, and
\* when it is there it makes room for documents.
FairSpec ==
  /\ Spec
  /\ WF_vars(ServerUp)
  /\ \A p \in Processes : WF_vars(Regenerate(p)) /\ WF_vars(BulkProgress(p))

----------------------------------------------------------------------------
TypeOK ==
  /\ row \in [Keys -> Row]
  /\ docs \in [Keys -> Document \cup {NoDoc}]
  /\ index \in {"none", "made", "implicit"}
  /\ up \in BOOLEAN
  /\ calls \subseteq Call
  /\ job \in [Processes -> Job]
  /\ excused \subseteq Keys
  /\ writes \in 0..MaxWrites
  /\ reindexings \in 0..MaxReindex
  /\ faults \in 0..MaxFaults

Fresh(k) ==
  CASE row[k].state \in {"live", "merging"} ->
         /\ docs[k] # NoDoc
         /\ docs[k].ver = row[k].ver
         /\ k \in Works => docs[k].by # 0
    [] row[k].state \in {"absent", "void", "gone"} -> docs[k] = NoDoc
    [] OTHER -> TRUE

\* When no regeneration runs, a document is out of date only for a reason: a
\* request about it on its way or lost, two that crossed, a transaction that
\* did not commit, or a change while the index was last regenerated. Every
\* other row has the document of its last version (with its author, a work),
\* and what is gone has none: regenerating the index makes good all that was
\* lost before it (search.ts 363-660, entity.tsx 1213, handler.js 28).
FreshUnlessExcused ==
  (\A p \in Processes : ~Running(p)) =>
    \A k \in Keys \ excused : Pending(k) \/ row[k].state \in {"open", "merging"} \/ Fresh(k)

\* A regeneration that no other runs next to fills an index with the mappings
\* of the code, whatever documents arrive while there is none: one that comes
\* between deleting the index and creating it makes an index without them, and
\* the regeneration fails (search.ts 363-378).
MappedUnlessOverlapped ==
  \A p \in Processes :
    /\ job[p].pc \in {"read", "bulk", "readCollections", "bulkCollections", "refresh"}
    /\ job[p].scope = "allEntities" /\ job[p].alone
    => index = "made"

\* The index is a copy: each step of the code is one of SearchCopy's.
Copy == INSTANCE SearchCopy WITH
          version <- [k \in Keys |-> row[k].ver],
          shown <- [k \in Keys |-> IF docs[k] = NoDoc THEN NoDoc ELSE docs[k].ver]

CopyImplemented == Copy!Spec

\* A regeneration ends, whatever the server refuses and however often it goes
\* away, if it comes back: until then _bulkIndexEntities asks again and again.
ReindexEnds == \A p \in Processes : Running(p) ~> ~Running(p)
=============================================================================

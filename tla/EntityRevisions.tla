-------------------------- MODULE EntityRevisions --------------------------
(***************************************************************************)
(* Creating, editing and deleting entities: the request handlers           *)
(* handleCreateOrEditEntity / processSingleEntity and handleDelete of      *)
(* src/server/routes/entity/entity.tsx, running concurrently in one Node   *)
(* process against PostgreSQL.                                             *)
(*                                                                         *)
(* A request is submitted (the entity loader reads the entity into         *)
(* res.locals before the handler runs), opens a transaction, allocates a   *)
(* revision id, computes the new relationship sets, fetches the entities   *)
(* it will save, saves them one after the other, reads the editor's edit   *)
(* count and commits; then it updates the search index and answers.        *)
(* Transactions are READ COMMITTED: each read sees the last committed      *)
(* state, an UPDATE of an <entity>_header row waits for the transaction    *)
(* that updated it before, and what a transaction wrote is published by    *)
(* Commit. Each step below is the code between two points where another    *)
(* request can run.                                                        *)
(***************************************************************************)
EXTENDS Naturals, Sequences, FiniteSets, Functions

CONSTANTS
  Entities,     \* bbids
  Names,        \* default alias, disambiguation, ...: one field stands for all
  Editors,
  Requests,
  Null,         \* SQL NULL / undefined
  Absent,       \* no such row, nothing there
  Seed,         \* entities in the database at the start, in order of creation
  SeedEditor, SeedName,
  MaxRevision,  \* bound: ids the revision sequence can hand out
  MaxInFlight,  \* bound: requests being processed at the same time
  Verdicts,     \* outcomes of the validation of a submitted form to explore
  Outages       \* whether the process may be killed at any time

Data == [name : Names, rels : SUBSET Entities]
Ids == 1..MaxRevision

ASSUME SentinelAssumption ==
  /\ Null # Absent
  /\ {Null, Absent} \cap (Names \cup Editors \cup Entities \cup Data) = {}

ASSUME BoundAssumption ==
  /\ MaxRevision \in Nat
  /\ MaxInFlight \in Nat
  /\ Verdicts \subseteq BOOLEAN
  /\ Outages \in BOOLEAN

ASSUME FiniteAssumption == IsFiniteSet(Entities)

ASSUME SeedAssumption ==
  /\ Seed \in Seq(Entities)
  /\ Len(Seed) \in 0..MaxRevision
  /\ \A i, j \in DOMAIN Seed : Seed[i] = Seed[j] => i = j
  /\ SeedEditor \in Editors
  /\ SeedName \in Names

VARIABLES
  \* committed contents of the database
  entityRevision,    \* <entity>_revision: what revision i says of entity e
  header,            \* <entity>_header.master_revision_id, 0 if none
  parents,           \* revision_parent
  author,            \* revision.author_id, Absent if there is no such revision
  revisionsApplied,  \* editor.revisions_applied
  nextId,            \* the sequence behind revision.id (never rolled back)
  \* ElasticSearch
  searchIndex,       \* name in the document of e; Null if it has no name
  \* requests
  phase, task, loaded, trx, answer

tables == <<entityRevision, header, parents, author, revisionsApplied>>
requestVars == <<phase, task, loaded, trx, answer>>
vars == <<entityRevision, header, parents, author, revisionsApplied, nextId,
          searchIndex, phase, task, loaded, trx, answer>>

SeedData == [name |-> SeedName, rels |-> {}]

----------------------------------------------------------------------------
(* Reading the tables.                                                     *)

\* The row of the master revision, as the <entity> views select it.
Master(e) == entityRevision[e][header[e]]

Exists(e) == header[e] # 0

\* A deleted entity is one whose master row has no data_id.
Live(e) == Exists(e) /\ Master(e) # Null

Rels(e) == IF Live(e) THEN Master(e).rels ELSE {}

Committed == {i \in Ids : author[i] # Absent}

----------------------------------------------------------------------------
(* The state of one request.                                               *)

NoTask == [kind |-> Absent, editor |-> Absent, main |-> Absent,
           name |-> Absent, add |-> {}, drop |-> {}, valid |-> TRUE]

NoTrx == [id |-> 0, name |-> Absent,
          keys |-> {}, sets |-> [e \in Entities |-> {}],
          base |-> [e \in Entities |-> 0],
          write |-> [e \in Entities |-> Absent],
          queue |-> <<>>, count |-> 0]

InFlight == {r \in Requests : phase[r] \notin {"idle", "ended"}}

\* The header rows that request r has updated and not yet committed.
Holds(r, e) == /\ phase[r] \in {"saving", "counted"}
               /\ trx[r].write[e] # Absent
               /\ e \notin Range(trx[r].queue)

WaitsFor(r) == IF phase[r] = "saving" /\ trx[r].queue # <<>>
               THEN {q \in Requests \ {r} : Holds(q, Head(trx[r].queue))}
               ELSE {}

\* PostgreSQL aborts one transaction of a cycle of waiting ones.
InCycle(r) == \E S \in SUBSET Requests :
  /\ r \in S
  /\ \A q \in S : WaitsFor(q) # {} /\ WaitsFor(q) \subseteq S
  /\ \A q \in S : \E p \in S : q \in WaitsFor(p)

Init ==
  /\ entityRevision = [e \in Entities |-> [i \in Ids |->
       IF i \in DOMAIN Seed /\ Seed[i] = e THEN SeedData ELSE Absent]]
  /\ header = [e \in Entities |->
       IF \E i \in DOMAIN Seed : Seed[i] = e
       THEN CHOOSE i \in DOMAIN Seed : Seed[i] = e ELSE 0]
  /\ parents = [i \in Ids |-> {}]
  /\ author = [i \in Ids |-> IF i \in DOMAIN Seed THEN SeedEditor ELSE Absent]
  /\ revisionsApplied = [ed \in Editors |->
       IF ed = SeedEditor THEN Len(Seed) ELSE 0]
  /\ nextId = Len(Seed) + 1
  /\ searchIndex = [e \in Entities |->
       IF \E i \in DOMAIN Seed : Seed[i] = e THEN SeedName ELSE Absent]
  /\ phase = [r \in Requests |-> "idle"]
  /\ task = [r \in Requests |-> NoTask]
  /\ loaded = [r \in Requests |-> Null]
  /\ trx = [r \in Requests |-> NoTrx]
  /\ answer = [r \in Requests |-> "none"]

----------------------------------------------------------------------------
(* How a request ends.                                                     *)

Ended(r, reply) ==
  /\ phase' = [phase EXCEPT ![r] = "ended"]
  /\ task' = [task EXCEPT ![r] = NoTask]
  /\ loaded' = [loaded EXCEPT ![r] = Null]
  /\ trx' = [trx EXCEPT ![r] = NoTrx]
  /\ answer' = [answer EXCEPT ![r] = reply]

\* A promise rejected inside handleCreateOrEditEntity is handled by nobody
\* (Express 4 ignores the promise a handler returns), so Node raises it as an
\* uncaught exception and appCleanup exits the process: every request in
\* flight is dropped and its transaction rolled back.
ServerExit ==
  /\ phase' = [r \in Requests |-> IF r \in InFlight THEN "ended" ELSE phase[r]]
  /\ task' = [r \in Requests |-> IF r \in InFlight THEN NoTask ELSE task[r]]
  /\ loaded' = [r \in Requests |-> IF r \in InFlight THEN Null ELSE loaded[r]]
  /\ trx' = [r \in Requests |-> IF r \in InFlight THEN NoTrx ELSE trx[r]]
  /\ UNCHANGED answer

\* An error thrown by r: a deletion answers it (sendPromiseResult), a creation
\* or an edit brings the process down.
Fail(r) == IF task[r].kind = "delete" THEN Ended(r, "error") ELSE ServerExit

----------------------------------------------------------------------------
(* Submission: the router loads the entity, the handler starts.            *)

Accept(r, t, data) ==
  /\ phase[r] = "idle"
  /\ Cardinality(InFlight) < MaxInFlight
  /\ phase' = [phase EXCEPT ![r] = "loaded"]
  /\ task' = [task EXCEPT ![r] = t]
  /\ loaded' = [loaded EXCEPT ![r] = data]
  \* A form that fails validation is answered with the error, but the handler
  \* goes on (no return after sendErrorAsJSON).
  /\ answer' = [answer EXCEPT ![r] =
       IF t.kind # "delete" /\ ~t.valid THEN "error" ELSE "none"]
  /\ UNCHANGED trx

Task(kind, ed, e, name, add, drop, valid) ==
  [kind |-> kind, editor |-> ed, main |-> e, name |-> name,
   add |-> add, drop |-> drop, valid |-> valid]

\* At most one entity of a set: the relationship a form adds or removes.
AtMostOne(S) == {{}} \cup {{f} : f \in S}

Existing == {f \in Entities : Exists(f)}

SubmitCreate(r) ==
  /\ \E ed \in Editors, e \in Entities, name \in Names, valid \in Verdicts :
     \E add \in AtMostOne(Existing) :
       /\ ~Exists(e)  \* a fresh uuid
       /\ \A q \in Requests : task[q].main # e
       /\ Accept(r, Task("create", ed, e, name, add, {}, valid), Null)
  /\ UNCHANGED <<tables, nextId, searchIndex>>

\* The submitted name is whatever the form held, which may be stale.
SubmitEdit(r) ==
  /\ \E ed \in Editors, e \in Existing, name \in Names, valid \in Verdicts :
     \E add \in AtMostOne(Existing \ (Rels(e) \cup {e})),
        drop \in AtMostOne(Rels(e)) :
       /\ add = {} \/ drop = {}
       /\ Accept(r, Task("edit", ed, e, name, add, drop, valid), Master(e))
  /\ UNCHANGED <<tables, nextId, searchIndex>>

\* valid: a note explains the deletion.
SubmitDelete(r) ==
  /\ \E ed \in Editors, e \in Existing, valid \in Verdicts :
       /\ Live(e)
       /\ Accept(r, Task("delete", ed, e, Absent, {}, {}, valid), Master(e))
  /\ UNCHANGED <<tables, nextId, searchIndex>>

\* 'This entity has already been deleted'
RefuseDelete(r) ==
  /\ phase[r] = "idle"
  /\ \E e \in Existing : ~Live(e)
  /\ Ended(r, "error")
  /\ UNCHANGED <<tables, nextId, searchIndex>>

----------------------------------------------------------------------------
(* Creation and edit: revision id, relationship sets, changed properties.  *)

\* Wrong variant: only the main entity loses a removed relationship.
NextRelationshipSets_OneSided(t, own) ==
  [e \in Entities |->
     IF e = t.main THEN (own \cup t.add) \ t.drop
     ELSE IF e \in t.add THEN Rels(e) \cup {t.main}
     ELSE Rels(e)]

\* The relationship sets of the entities on either side of what the form adds
\* and removes; that of the main entity starts from the set it was loaded with.
\* RelatedBBIDs are the keys of the object the code calls relationshipSets.
NextRelationshipSets(t, own) ==
  [e \in Entities |->
     IF e = t.main THEN (own \cup t.add) \ t.drop
     ELSE IF e \in t.add THEN Rels(e) \cup {t.main}
     ELSE Rels(e) \ {t.main}]

RelatedBBIDs(t) ==
  IF t.add \cup t.drop = {} THEN {} ELSE {t.main} \cup t.add \cup t.drop

\* Wrong variant: a name unlike that of a deleted entity reads as undefined.
ChangedName_Undefined(t, data) ==
  IF data = Null THEN Null
  ELSE IF data.name = t.name THEN Absent ELSE t.name

\* Only what differs from the entity as it was loaded is set.
ChangedName(t, data) ==
  IF data # Null /\ data.name = t.name THEN Absent ELSE t.name

OwnRels(data) == IF data = Null THEN {} ELSE data.rels

NoUpdatedField(t, data) ==
  ChangedName(t, data) = Absent /\ RelatedBBIDs(t) = {}

Begin(r) ==
  /\ phase[r] = "loaded" /\ task[r].kind # "delete"
  /\ nextId \in Ids
  /\ nextId' = nextId + 1
  /\ IF NoUpdatedField(task[r], loaded[r])
     THEN Fail(r)
     ELSE /\ phase' = [phase EXCEPT ![r] = "begun"]
          /\ trx' = [trx EXCEPT ![r] = [NoTrx EXCEPT
               !.id = nextId,
               !.name = ChangedName(task[r], loaded[r]),
               !.keys = RelatedBBIDs(task[r]),
               !.sets = NextRelationshipSets(task[r], OwnRels(loaded[r]))]]
          /\ UNCHANGED <<task, loaded, answer>>
  /\ UNCHANGED <<tables, searchIndex>>

\* The orders in which a set of entities can be saved.
Orders(S) == {q \in [1..Cardinality(S) -> S] : Range(q) = S}

IsNew(t, e) == t.kind = "create" /\ e = t.main

\* A model of e as fetched in the transaction; empty if it has no data.
Fetched(e) == IF Live(e) THEN Master(e) ELSE [name |-> Null, rels |-> {}]

\* What is saved for e: the row just fetched, with the changed name and the
\* relationship set set on it.
Updated(t, x, e) ==
  [name |-> IF e = t.main /\ x.name # Absent THEN x.name ELSE Fetched(e).name,
   rels |-> IF e \in x.keys THEN x.sets[e] ELSE Fetched(e).rels]

\* Wrong variant: deleted entities are saved like others.
Savable_Deleted(t, e) == IsNew(t, e) \/ Exists(e)

\* "Don't try to modify 'deleted' entities": the entities kept for saving.
Savable(t, e) == IsNew(t, e) \/ Live(e)

\* fetchOrCreateMainEntity and fetchEntitiesForRelationships.
Fetch(r) ==
  LET t == task[r]
      x == trx[r]
      saved == {e \in x.keys \cup {t.main} : Savable(t, e)}
      others == saved \ {t.main}
  IN /\ phase[r] = "begun"
     /\ phase' = [phase EXCEPT ![r] = "saving"]
     /\ \E order \in Orders(others) :
          trx' = [trx EXCEPT ![r] = [x EXCEPT
            !.base = [e \in Entities |->
               IF e \in saved /\ ~IsNew(t, e) THEN header[e] ELSE 0],
            !.write = [e \in Entities |->
               IF e \in saved THEN Updated(t, x, e) ELSE Absent],
            !.queue = IF t.main \in saved THEN Append(order, t.main)
                      ELSE order]]
     /\ UNCHANGED <<tables, nextId, searchIndex, task, loaded, answer>>

----------------------------------------------------------------------------
(* Deletion: detach the related entities, then the deletion row.           *)

\* Wrong variant: only entities with other relationships are detached.
Detached_Rest(t, data) ==
  {e \in OwnRels(data) \ {t.main} : Live(e) /\ Rels(e) \ {t.main} # {}}

\* The entities related to the one being deleted, with a relationship set.
Detached(t, data) ==
  {e \in OwnRels(data) \ {t.main} : Live(e) /\ Rels(e) # {}}

\* deleteRelationships works from the relationships the entity was loaded with.
\* When the other side no longer has the relationship, nothing in its set is
\* marked as removed; whether the ORM then returns a set for it (kept) or none
\* (relationshipSetId is set to null) is outside src.
BeginDelete(r) ==
  LET t == task[r]
      others == Detached(t, loaded[r])
  IN /\ phase[r] = "loaded" /\ t.kind = "delete" /\ t.valid
     /\ nextId \in Ids
     /\ nextId' = nextId + 1
     /\ phase' = [phase EXCEPT ![r] = "saving"]
     /\ \E order \in Orders(others),
           wiped \in SUBSET {e \in others : t.main \notin Rels(e)} :
          trx' = [trx EXCEPT ![r] = [NoTrx EXCEPT
            !.id = nextId,
            !.base = [e \in Entities |-> IF e \in others THEN header[e] ELSE 0],
            !.write = [e \in Entities |->
               IF e = t.main THEN Null
               ELSE IF e \in others
               THEN [Master(e) EXCEPT !.rels =
                       IF e \in wiped THEN {} ELSE Rels(e) \ {t.main}]
               ELSE Absent],
            !.queue = <<t.main>> \o order]]
     /\ UNCHANGED <<tables, searchIndex, task, loaded, answer>>

\* 'A revision note is required when deleting an entity'
RefuseBlankNote(r) ==
  /\ phase[r] = "loaded" /\ task[r].kind = "delete" /\ ~task[r].valid
  /\ Fail(r)
  /\ UNCHANGED <<tables, nextId, searchIndex>>

----------------------------------------------------------------------------
(* saveEntitiesAndFinishRevision and the commit.                           *)

\* One UPDATE (or INSERT) of an entity view; the trigger updates the header.
Save(r) ==
  /\ phase[r] = "saving" /\ trx[r].queue # <<>>
  /\ WaitsFor(r) = {}
  /\ trx' = [trx EXCEPT ![r].queue = Tail(@)]
  /\ UNCHANGED <<tables, nextId, searchIndex, phase, task, loaded, answer>>

\* Wrong variant: the count is incremented outside the transaction.
ReadCount_Immediate(r) ==
  /\ phase[r] = "saving" /\ trx[r].queue = <<>>
  /\ phase' = [phase EXCEPT ![r] = "counted"]
  /\ trx' = [trx EXCEPT ![r].count = revisionsApplied[task[r].editor]]
  /\ revisionsApplied' = [revisionsApplied EXCEPT ![task[r].editor] = @ + 1]
  /\ UNCHANGED <<entityRevision, header, parents, author,
                 nextId, searchIndex, task, loaded, answer>>

\* incrementEditorEditCountById: the SELECT ...
ReadCount(r) ==
  /\ phase[r] = "saving" /\ trx[r].queue = <<>>
  /\ phase' = [phase EXCEPT ![r] = "counted"]
  /\ trx' = [trx EXCEPT ![r].count = revisionsApplied[task[r].editor]]
  /\ UNCHANGED <<tables, nextId, searchIndex, task, loaded, answer>>

\* Wrong variants: the parents are read after the entities are given the new
\* revision id; entities without relationship changes have no parent; no parents.
ParentRevisionIds_AfterSet(x) ==
  {IF x.write[e] = Absent THEN 0 ELSE x.id : e \in Entities} \ {0}

ParentRevisionIds_Related(x) == {x.base[e] : e \in x.keys} \ {0}

ParentRevisionIds_None(x) == {}

\* The parents are the revisions of the entities passed in, as fetched; the
\* deleted entity is not among them.
ParentRevisionIds(x) == {x.base[e] : e \in Entities} \ {0}

\* Wrong variants: the header of an entity that is not saved moves as well; the
\* header of a deleted entity is not moved.
Touched_Dropped(x) == {e \in Entities : x.write[e] # Absent} \cup x.keys

Touched_Saved(x) == {e \in Entities : x.write[e] \notin {Null, Absent}}

\* The entities whose header the revision moves: by the trigger of each saved
\* view, by hand for the deleted entity.
Touched(x) == {e \in Entities : x.write[e] # Absent}

\* Wrong variant: a revision that updates no existing entity is not counted.
CountAfter_Updates(x) ==
  IF \A e \in Entities : x.base[e] = 0 THEN x.count ELSE x.count + 1

CountAfter(x) == x.count + 1

\* ... and the UPDATE, with the transaction's other writes, made visible.
Commit(r) ==
  LET t == task[r]
      x == trx[r]
  IN /\ phase[r] = "counted"
     /\ phase' = [phase EXCEPT ![r] = "committed"]
     /\ author' = [author EXCEPT ![x.id] = t.editor]
     /\ parents' = [parents EXCEPT ![x.id] = ParentRevisionIds(x)]
     /\ entityRevision' = [e \in Entities |->
          [entityRevision[e] EXCEPT ![x.id] = x.write[e]]]
     /\ header' = [e \in Entities |->
          IF e \in Touched(x) THEN x.id ELSE header[e]]
     /\ revisionsApplied' = [revisionsApplied EXCEPT ![t.editor] = CountAfter(x)]
     /\ UNCHANGED <<nextId, searchIndex, task, loaded, trx, answer>>

----------------------------------------------------------------------------
(* After the commit.                                                       *)

\* Wrong variant: the entity is indexed as it was loaded with the request.
Finish_Stale(r) ==
  LET t == task[r]
  IN /\ phase[r] = "committed" /\ t.kind # "delete"
     /\ searchIndex' = [searchIndex EXCEPT ![t.main] =
          IF loaded[r] = Null THEN t.name ELSE loaded[r].name]
     /\ IF answer[r] = "none" THEN Ended(r, "ok") ELSE ServerExit
     /\ UNCHANGED <<tables, nextId>>

\* Wrong variant: nobody answers if the entity itself was found deleted, and not saved.
Finish_Saved(r) ==
  LET t == task[r]
      row == trx[r].write[t.main]
  IN /\ phase[r] = "committed" /\ t.kind # "delete" /\ row # Absent
     /\ searchIndex' = [searchIndex EXCEPT ![t.main] = row.name]
     /\ IF answer[r] = "none" THEN Ended(r, "ok") ELSE ServerExit
     /\ UNCHANGED <<tables, nextId>>

\* search.indexEntity of the saved entity (one found deleted was not saved and
\* is indexed without a name), then the answer; answering a second time throws.
Finish(r) ==
  LET t == task[r]
      row == trx[r].write[t.main]
  IN /\ phase[r] = "committed" /\ t.kind # "delete"
     /\ searchIndex' = [searchIndex EXCEPT ![t.main] =
          IF row = Absent THEN Null ELSE row.name]
     /\ IF answer[r] = "none" THEN Ended(r, "ok") ELSE ServerExit
     /\ UNCHANGED <<tables, nextId>>

AnswerDelete(r) ==
  /\ phase[r] = "committed" /\ task[r].kind = "delete"
  /\ phase' = [phase EXCEPT ![r] = "answered"]
  /\ answer' = [answer EXCEPT ![r] = "ok"]
  /\ UNCHANGED <<tables, nextId, searchIndex, task, loaded, trx>>

\* search.deleteEntity, called back once the answer is sent.
Unindex(r) ==
  /\ phase[r] = "answered"
  /\ searchIndex' = [searchIndex EXCEPT ![task[r].main] = Absent]
  /\ Ended(r, "ok")
  /\ UNCHANGED <<tables, nextId>>

----------------------------------------------------------------------------
(* Failures.                                                               *)

DeadlockVictim(r) ==
  /\ InCycle(r)
  /\ Fail(r)
  /\ UNCHANGED <<tables, nextId, searchIndex>>

Crash ==
  /\ Outages
  /\ InFlight # {}
  /\ ServerExit
  /\ UNCHANGED <<tables, nextId, searchIndex>>

----------------------------------------------------------------------------

Submit(r) ==
  SubmitCreate(r) \/ SubmitEdit(r) \/ SubmitDelete(r) \/ RefuseDelete(r)

Step(r) ==
  \/ Begin(r) \/ Fetch(r) \/ BeginDelete(r) \/ RefuseBlankNote(r)
  \/ Save(r) \/ ReadCount(r) \/ Commit(r)
  \/ Finish(r) \/ AnswerDelete(r) \/ Unindex(r)
  \/ DeadlockVictim(r)

Next == (\E r \in Requests : Submit(r) \/ Step(r)) \/ Crash

Spec == Init /\ [][Next]_vars

\* Node runs every callback whose query has returned, and PostgreSQL grants
\* locks and detects deadlocks; nothing obliges anyone to submit a request.
Fairness == \A r \in Requests : WF_vars(Step(r))

FairSpec == Spec /\ Fairness
----------------------------------------------------------------------------
(* Properties.                                                             *)

Kinds == {"create", "edit", "delete"}

Phases == {"idle", "loaded", "begun", "saving", "counted", "committed",
           "answered", "ended"}

TaskType ==
  [kind : Kinds, editor : Editors, main : Entities, name : Names \cup {Absent},
   add : SUBSET Entities, drop : SUBSET Entities, valid : BOOLEAN]

TrxType ==
  [id : Ids \cup {0}, name : Names \cup {Absent},
   keys : SUBSET Entities, sets : [Entities -> SUBSET Entities],
   base : [Entities -> Ids \cup {0}],
   write : [Entities -> Data \cup {Null, Absent}],
   queue : Seq(Entities), count : Nat]

TypeOK ==
  /\ entityRevision \in [Entities -> [Ids -> Data \cup {Null, Absent}]]
  /\ header \in [Entities -> Ids \cup {0}]
  /\ parents \in [Ids -> SUBSET Ids]
  /\ author \in [Ids -> Editors \cup {Absent}]
  /\ revisionsApplied \in [Editors -> Nat]
  /\ nextId \in 1..(MaxRevision + 1)
  /\ searchIndex \in [Entities -> Names \cup {Null, Absent}]
  /\ phase \in [Requests -> Phases]
  /\ task \in [Requests -> TaskType \cup {NoTask}]
  /\ loaded \in [Requests -> Data \cup {Null}]
  /\ trx \in [Requests -> TrxType]
  /\ answer \in [Requests -> {"none", "ok", "error"}]

(* What holds whatever the interleaving. *)

\* The master revision of an entity is a committed revision that has a row for
\* that very entity: the views, which join header and <entity>_revision, never
\* lose an entity, however its updates race (create_triggers.sql).
MasterIsOwnRevision ==
  \A e \in Entities : Exists(e) =>
    /\ header[e] \in Committed
    /\ Master(e) # Absent

\* The revision graph is well founded: among any revisions one has no parent
\* among them. Revision ids do not order the graph (a transaction allocates its
\* id before it fetches its parents), so this is not a comparison of ids.
AncestryWellFounded ==
  \A S \in SUBSET Ids : S # {} => \E i \in S : parents[i] \cap S = {}

\* i has data of e and continues no revision that has.
FirstOf(e, i) ==
  /\ entityRevision[e][i] \in Data
  /\ \A p \in parents[i] : entityRevision[e][p] \notin Data

\* An entity is created once: of its revisions with data one only has no parent
\* with data of the entity. The revision page calls such a revision the
\* creation (diffRevisionsWithParents), and no edit, raced by another edit or
\* by a deletion, comes to look like one.
CreatedOnce ==
  \A e \in Entities : \A i, j \in Ids : FirstOf(e, i) /\ FirstOf(e, j) => i = j

\* An editor's edit count is never more than the revisions they made; it can be
\* less, see EditsCounted (incrementEditorEditCountById).
NoEditOvercounted ==
  \A ed \in Editors :
    revisionsApplied[ed] <= Cardinality({i \in Ids : author[i] = ed})

\* However requests overlap, no entity is created twice and no edit counted twice.
NothingRecordedTwice == CreatedOnce /\ NoEditOvercounted

\* The tables change one whole revision at a time: the handlers implement the
\* abstract store.
Store == INSTANCE RevisionStore

StoreImplemented == Store!Spec

(* What holds when requests do not overlap (MaxInFlight = 1). *)

\* The edit count is the number of revisions.
EditsCounted ==
  \A ed \in Editors :
    revisionsApplied[ed] = Cardinality({i \in Ids : author[i] = ed})

\* Both sides of a relationship between entities that are not deleted have it
\* (getNextRelationshipSets, deleteRelationships).
RelationshipsSymmetric ==
  \A e, f \in Entities :
    Live(e) /\ Live(f) => (f \in Rels(e) <=> e \in Rels(f))

\* A deletion removes the entity from the relationships of all others
\* (deleteRelationships).
DeletionDetaches ==
  [][\A e \in Entities :
       Live(e) /\ ~Live(e)' => \A f \in Entities : e \notin Rels(f)']_vars

\* No edit is lost: a revision that becomes master of an entity it does not
\* delete has the previous master among its parents.
HistoryLinear ==
  [][\A e \in Entities :
       /\ Exists(e)
       /\ header'[e] # header[e]
       /\ Master(e)' # Null
       => header[e] \in parents'[header'[e]]]_vars

\* A deleted entity is not modified (the filter on dataId, and the conflict
\* error of handleDelete).
DeletedIsFinal ==
  [][\A e \in Entities :
       Exists(e) /\ ~Live(e) => header'[e] = header[e]]_vars

\* A deletion is complete, and it is final.
DeletionsHold == DeletionDetaches /\ DeletedIsFinal

\* With nothing under way the search index has the name of every entity that
\* is not deleted.
IndexFresh ==
  InFlight = {} => \A e \in Entities : Live(e) => searchIndex[e] = Master(e).name

(* Progress. *)

\* A submitted request ends, whatever it has to wait for.
RequestsEnd ==
  \A r \in Requests : phase[r] = "loaded" ~> phase[r] = "ended"
=============================================================================

---------------------------- MODULE EntityMerge ----------------------------
(***************************************************************************)
(* Merging entities: the merge queue kept in each editor's session         *)
(* (src/server/routes/merge.ts), the merge page, and the merge handler     *)
(* (makeEntityCreateOrEditHandler with isMergeHandler, processSingleEntity *)
(* and processMergeOperation), for editors working at the same time.       *)
(*                                                                         *)
(* An editor collects entities in the queue, opens the merge page, which   *)
(* shows what the entities have and with it a form for the target, and     *)
(* submits the form. The handler deletes the others and redirects them to  *)
(* the target; what they had lives on only in what the form says.          *)
(*                                                                         *)
(* What an entity has is its aliases, here the bbids of the entities that  *)
(* first had them, and its relationships, here the entities at the other   *)
(* end. Requests that a page sends (add, remove, cancel, submit) are one   *)
(* step; the handler is three: what the router loads, what the transaction *)
(* reads, what it commits.                                                 *)
(***************************************************************************)
EXTENDS Naturals, FiniteSets

CONSTANTS
  Entities,
  Type(_),      \* the type of an entity
  Related,      \* the relationships at the start: a set of pairs
  Sessions,     \* one per editor
  Null,         \* SQL NULL, undefined
  MaxCommits,   \* bound: transactions that commit
  MaxInFlight,  \* bound: handlers running at the same time
  OnePage,      \* whether a session leaves its queue alone while a page is open
  Deletions     \* whether editors delete entities as well

Row == [aliases : SUBSET Entities, rels : SUBSET Entities]

ASSUME SentinelAssumption == Null \notin Row

ASSUME BoundAssumption ==
  /\ MaxCommits \in Nat
  /\ MaxInFlight \in Nat
  /\ OnePage \in BOOLEAN
  /\ Deletions \in BOOLEAN

ASSUME RelatedAssumption == Related \subseteq Entities \X Entities

VARIABLES
  row,       \* master row of an entity, Null if it has no data
  redirect,  \* entity_redirect
  queue,     \* session.mergeQueue: the keys of mergingEntities
  page,      \* the merge page open in a session
  handler,   \* the merge handler running for a session
  commits    \* transactions committed

vars == <<row, redirect, queue, page, handler, commits>>

NoPage == [target |-> Null, shown |-> {}, aliases |-> {}, added |-> {}]

NoHandler == [phase |-> "idle", target |-> Null, loaded |-> Null,
              isMerge |-> FALSE, merging |-> {},
              write |-> [e \in Entities |-> Null], saved |-> {}]

Init ==
  /\ row = [e \in Entities |->
       [aliases |-> {e},
        rels |-> {f \in Entities : {<<e, f>>, <<f, e>>} \cap Related # {}}]]
  /\ redirect = {}
  /\ queue = [s \in Sessions |-> {}]
  /\ page = [s \in Sessions |-> NoPage]
  /\ handler = [s \in Sessions |-> NoHandler]
  /\ commits = 0

----------------------------------------------------------------------------
(* Redirects and rows.                                                     *)

Live(e) == row[e] # Null

Blank == [aliases |-> {}, rels |-> {}]

RowOrBlank(e) == IF Live(e) THEN row[e] ELSE Blank

Redirected(e) == \E f \in Entities : <<e, f>> \in redirect

\* The entities that following redirects from e can come by.
Path(e) ==
  {f \in Entities : \A S \in SUBSET Entities :
     e \in S /\ (\A d \in redirect : d[1] \in S => d[2] \in S) => f \in S}

\* Where recursivelyGetRedirectBBID can end: of several redirects of one entity
\* it follows any, and on a cycle it never ends.
Finals(e) == {f \in Path(e) : ~Redirected(f)}

Idle(s) == handler[s].phase = "idle"

\* The queue of a session changes while no handler of the session runs and, on
\* request, while it has no merge page open.
QueueFree(s) == Idle(s) /\ (OnePage => page[s] = NoPage)

----------------------------------------------------------------------------
(* The merge queue.                                                        *)

\* Wrong variant: an entity of another type joins the queue.
Add_AnyType(s, e) ==
  /\ QueueFree(s)
  /\ e \notin queue[s]
  /\ \E f \in Finals(e) :
       /\ Live(f)
       /\ queue' = [queue EXCEPT ![s] = @ \cup {f}]
  /\ UNCHANGED <<row, redirect, page, handler, commits>>

\* GET /merge/add/:bbid. An entity in the queue, or deleted, changes nothing;
\* one of another type starts a new queue.
Add(s, e) ==
  /\ QueueFree(s)
  /\ e \notin queue[s]
  /\ \E f \in Finals(e) :
       /\ Live(f)
       /\ queue' = [queue EXCEPT ![s] =
            {f} \cup {g \in @ : \A h \in @ : Type(h) = Type(f)}]
  /\ UNCHANGED <<row, redirect, page, handler, commits>>

\* GET /merge/remove/:bbid
Remove(s, e) ==
  /\ QueueFree(s)
  /\ e \in queue[s]
  /\ queue' = [queue EXCEPT ![s] = @ \ {e}]
  /\ UNCHANGED <<row, redirect, page, handler, commits>>

\* GET /merge/cancel
Cancel(s) ==
  /\ QueueFree(s)
  /\ queue' = [queue EXCEPT ![s] = {}]
  /\ UNCHANGED <<row, redirect, page, handler, commits>>

\* entitiesToFormState: the form for target when the page shows the entities S.
\* A relationship of another one is offered as an added one of the target; if
\* both ends are among the entities, as one of the target with itself.
Form(target, S) ==
  [target |-> target,
   shown |-> S,
   aliases |-> UNION {RowOrBlank(e).aliases : e \in S},
   added |-> {IF f \in S THEN target ELSE f :
                f \in UNION {RowOrBlank(e).rels : e \in S \ {target}}}]

\* GET /merge/submit: the entities of the queue are fetched again, redirects
\* followed, and put into the queue next to those that were there. Two that
\* have become one are a conflict.
Submit(s) ==
  /\ Idle(s)
  /\ OnePage => page[s] = NoPage
  /\ Cardinality(queue[s]) >= 2
  /\ \E fetched \in [queue[s] -> Entities] :
       /\ \A e \in queue[s] : fetched[e] \in Finals(e)
       /\ LET S == {fetched[e] : e \in queue[s]}
          IN /\ queue' = [queue EXCEPT ![s] = @ \cup S]
             /\ IF Cardinality(S) < Cardinality(queue[s])
                THEN UNCHANGED page
                ELSE \E target \in S :
                       page' = [page EXCEPT ![s] = Form(target, S)]
  /\ UNCHANGED <<row, redirect, handler, commits>>

Close(s) ==
  /\ Idle(s)
  /\ page[s] # NoPage
  /\ page' = [page EXCEPT ![s] = NoPage]
  /\ UNCHANGED <<row, redirect, queue, handler, commits>>

----------------------------------------------------------------------------
(* The merge handler.                                                      *)

\* The process exits (see EntityRevisions): all handlers are gone.
ServerExit ==
  /\ handler' = [s \in Sessions |-> NoHandler]
  /\ page' = [s \in Sessions |-> IF Idle(s) THEN page[s] ELSE NoPage]
  /\ UNCHANGED <<row, redirect, queue, commits>>

\* Wrong variant: a redirected target is merged into.
Load_Redirected(s) ==
  LET t == page[s].target
  IN /\ Idle(s) /\ page[s] # NoPage
     /\ Cardinality({q \in Sessions : ~Idle(q)}) < MaxInFlight
     /\ handler' = [handler EXCEPT ![s] = [NoHandler EXCEPT
          !.phase = "loaded",
          !.target = t,
          !.loaded = row[t],
          !.isMerge = Cardinality(queue[s]) >= 2,
          !.merging = queue[s] \ {t}]]
     /\ UNCHANGED <<row, redirect, queue, page, commits>>

\* POST /<type>/:bbid/merge/handler: the router redirects the request of a
\* merged target (which loses the form), or loads the target. Without a queue
\* the form is handled as an ordinary edit of the target.
Load(s) ==
  LET t == page[s].target
  IN /\ Idle(s) /\ page[s] # NoPage
     /\ Cardinality({q \in Sessions : ~Idle(q)}) < MaxInFlight
     /\ IF Redirected(t)
        THEN /\ page' = [page EXCEPT ![s] = NoPage]
             /\ UNCHANGED handler
        ELSE /\ handler' = [handler EXCEPT ![s] = [NoHandler EXCEPT
                  !.phase = "loaded",
                  !.target = t,
                  !.loaded = row[t],
                  !.isMerge = Cardinality(queue[s]) >= 2,
                  !.merging = queue[s] \ {t}]]
             /\ UNCHANGED page
     /\ UNCHANGED <<row, redirect, queue, commits>>

\* The keys of relationshipSets, before the merge adds to them.
Keys(p) == IF p.added = {} THEN {} ELSE {p.target} \cup p.added

\* Wrong variant: relationships to merged entities are not detached.
NextRels_Attached(h, p, e) ==
  IF e \notin Keys(p) THEN RowOrBlank(e).rels
  ELSE IF e = p.target
  THEN (IF h.loaded = Null THEN {} ELSE h.loaded.rels) \cup p.added
  ELSE RowOrBlank(e).rels \cup {p.target}

\* The relationships of e after the transaction. Those in Keys get the added
\* relationships and lose those to merged entities; another entity e related to
\* a merged one (as it is now) loses that relationship only.
NextRels(h, p, e) ==
  LET merged == IF h.isMerge THEN h.merging ELSE {}
      own == IF e = p.target
             THEN (IF h.loaded = Null THEN {} ELSE h.loaded.rels) \cup p.added
             ELSE RowOrBlank(e).rels \cup {p.target}
  IN IF e \in Keys(p) THEN own \ merged ELSE RowOrBlank(e).rels \ merged

\* The entities other than the target and the merged ones to be saved: at the
\* other end of an added relationship, or of one of a merged entity.
Others(h, p) ==
  LET related == IF h.isMerge
                 THEN UNION {RowOrBlank(m).rels : m \in h.merging} ELSE {}
  IN {e \in Keys(p) \cup related : Live(e) /\ ~Redirected(e)}
       \ ({p.target} \cup h.merging)

\* Wrong variant: the aliases of the form are added to those the target has.
NextAliases_Kept(h, p) == row[p.target].aliases

\* The changed properties are found against the target as it was loaded.
NextAliases(h, p) ==
  IF h.loaded # Null /\ p.aliases = h.loaded.aliases
  THEN row[p.target].aliases
  ELSE p.aliases

\* Wrong variant: the merged entities keep their data.
MergedRow_Kept(h, p, e) == row[e]

\* The 'saved' hook of the target removes the data of the merged entities. If
\* the target was found deleted it is not saved, the hook does not run, and the
\* merged entities are saved, with an empty row if they had none: without what is
\* detached from their sets, all of it if the form has added to them.
MergedRow(h, p, e) ==
  IF Live(h.target) THEN Null
  ELSE [RowOrBlank(e) EXCEPT !.rels = IF e \in Keys(p) THEN {} ELSE @ \ h.merging]

\* processSingleEntity and processMergeOperation up to the saves.
Process(s) ==
  LET h == handler[s]
      p == page[s]
      t == h.target
      merged == IF h.isMerge THEN h.merging ELSE {}
      main == IF Live(t) THEN {t} ELSE {}
      saved == main \cup Others(h, p) \cup merged
  IN /\ h.phase = "loaded"
     /\ IF \/ h.isMerge /\ t \notin queue[s]
           \/ /\ ~h.isMerge
              /\ h.loaded # Null /\ p.aliases = h.loaded.aliases
              /\ p.added = {}
        THEN ServerExit
        ELSE /\ handler' = [handler EXCEPT ![s] = [h EXCEPT
                  !.phase = "saving",
                  !.saved = saved,
                  !.write = [e \in Entities |->
                    IF e \in merged THEN MergedRow(h, p, e)
                    ELSE IF e \in main
                    THEN [aliases |-> NextAliases(h, p),
                          rels |-> NextRels(h, p, e)]
                    ELSE IF e \in saved
                    THEN [row[e] EXCEPT !.rels = NextRels(h, p, e)]
                    ELSE Null]]]
             /\ UNCHANGED <<row, redirect, queue, page, commits>>

\* The redirects are inserted, which fails if one is there already; the rows
\* are saved; the hook has cleared the queue if the target was saved.
Commit(s) ==
  LET h == handler[s]
      new == IF h.isMerge THEN h.merging \X {h.target} ELSE {}
  IN /\ h.phase = "saving"
     /\ commits < MaxCommits
     /\ IF new \cap redirect # {}
        THEN ServerExit
        ELSE /\ redirect' = redirect \cup new
             /\ row' = [e \in Entities |->
                  IF e \in h.saved THEN h.write[e] ELSE row[e]]
             /\ queue' = [queue EXCEPT ![s] =
                  IF h.isMerge /\ h.target \in h.saved THEN {} ELSE @]
             /\ page' = [page EXCEPT ![s] = NoPage]
             /\ handler' = [handler EXCEPT ![s] = NoHandler]
             /\ commits' = commits + 1

----------------------------------------------------------------------------
(* Deletion by any editor (EntityRevisions has it in detail).              *)

Delete(e) ==
  /\ Deletions
  /\ commits < MaxCommits
  /\ Live(e) /\ ~Redirected(e)
  /\ row' = [f \in Entities |->
       IF f = e \/ ~Live(f) THEN IF f = e THEN Null ELSE row[f]
       ELSE [row[f] EXCEPT !.rels = @ \ {e}]]
  /\ commits' = commits + 1
  /\ UNCHANGED <<redirect, queue, page, handler>>

Next ==
  \/ \E s \in Sessions :
       \/ \E e \in Entities : Add(s, e) \/ Remove(s, e)
       \/ Cancel(s) \/ Submit(s) \/ Close(s)
       \/ Load(s) \/ Process(s) \/ Commit(s)
  \/ \E e \in Entities : Delete(e)

Spec == Init /\ [][Next]_vars
----------------------------------------------------------------------------
(* Properties.                                                             *)

HandlerType ==
  [phase : {"idle", "loaded", "saving"}, target : Entities \cup {Null},
   loaded : Row \cup {Null}, isMerge : BOOLEAN, merging : SUBSET Entities,
   write : [Entities -> Row \cup {Null}], saved : SUBSET Entities]

TypeOK ==
  /\ row \in [Entities -> Row \cup {Null}]
  /\ redirect \subseteq Entities \X Entities
  /\ queue \in [Sessions -> SUBSET Entities]
  /\ page \in [Sessions -> [target : Entities \cup {Null},
                            shown : SUBSET Entities,
                            aliases : SUBSET Entities,
                            added : SUBSET Entities]]
  /\ handler \in [Sessions -> HandlerType]
  /\ commits \in 0..MaxCommits

\* A queue holds entities of one type, whatever was merged while it was filled
\* (router.get('/add/:bbid') starts a new queue for another type, /submit adds
\* what redirects lead to).
QueueOneType ==
  \A s \in Sessions : \A e, f \in queue[s] : Type(e) = Type(f)

\* Following redirects ends (recursivelyGetRedirectBBID and
\* recursivelyGetMergedEntitiesBBIDs recurse until they find no more): among
\* any entities one is redirected to none of them. Handlers one at a time.
RedirectsAcyclic ==
  \A S \in SUBSET Entities :
    S # {} => \E e \in S : \A f \in S : <<e, f>> \notin redirect

\* A merged entity has no data of its own left (the 'saved' hook of
\* processMergeOperation). Handlers one at a time, no deletions.
RedirectedAreGone ==
  \A e \in Entities : Redirected(e) => ~Live(e)

\* Wherever the redirects of an entity lead, its aliases are there, although it is
\* the form alone that carries them over (entitiesToFormState). One editor, no
\* deletions, and the queue left alone while a page is open: with two editors the
\* older of two pages undoes what the other has carried over.
NothingLost ==
  \A e \in Entities : \A f \in Finals(e) :
    Live(f) /\ e \in row[f].aliases

\* Relationships are seen from both ends, and no entity is related to one that
\* has been merged away (the detaching in processMergeOperation and the sets from
\* getNextRelationshipSets together). One editor, no deletions. Entities that were
\* related to each other leave one that is related to itself.
RelationshipsFollow ==
  \A e, f \in Entities :
    Live(e) /\ f \in row[e].rels => Live(f) /\ e \in row[f].rels

\* A merge keeps what the merged entities had.
MergesKeepAll == NothingLost /\ RelationshipsFollow
=============================================================================

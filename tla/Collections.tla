---------------------------- MODULE Collections ----------------------------
(***************************************************************************)
(* Collections of entities (src/server/routes/collection.js): an owner,    *)
(* collaborators, items of one type. A request loads the collection, is    *)
(* refused or not by what it loaded, and then runs its statements, each a  *)
(* transaction of its own, some at the same time.                          *)
(*                                                                         *)
(* The form names a collaborator by id and text. The text is not the one    *)
(* that is loaded if he was picked from the search field, or renamed since  *)
(* the page was opened: he is then another person than the one loaded.      *)
(***************************************************************************)
EXTENDS Naturals, Sequences

CONSTANTS
  Ids,          \* of collections
  Editors, Entities, Types,
  TypeOf,       \* the type of an entity
  Null, Gone,   \* no collection yet; a collection that was deleted
  Workers,      \* requests at the same time
  MaxRequests   \* bound: requests

ASSUME BoundAssumption == MaxRequests \in Nat
ASSUME EntityAssumption == TypeOf \in [Entities -> Types]
ASSUME SentinelAssumption ==
  /\ Null # Gone
  /\ \A r \in [owner : Editors, type : Types] : r # Null /\ r # Gone

VARIABLES
  row,            \* user_collection
  items,          \* user_collection_item
  collaborators,  \* user_collection_collaborator
  page,           \* the form each editor has open
  task,           \* the request each worker is at, or was at last
  crossed,        \* history: collections whose type changed while others wrote
  requests        \* what the bound counts

vars == <<row, items, collaborators, page, task, crossed, requests>>
tables == <<row, items, collaborators>>

Row == [owner : Editors, type : Types]
Page == [coll : Ids, type : Types, fixed : BOOLEAN, people : SUBSET Editors]
Op == {"save", "join", "leave", "put", "take", "touch", "destroy"}
Statement == [op : Op, on : SUBSET (Editors \cup Entities)]

\* What a request loads, and what it is asked for.
Loaded == [row : Row \cup {Null}, items : SUBSET Entities, people : SUBSET Editors]
Task == [kind : {"none", "edit", "delete", "add", "remove", "leave"},
         coll : Ids \cup {Null}, user : Editors \cup {Null}, loaded : Loaded,
         type : Types \cup {Null}, people : SUBSET Editors, others : SUBSET Editors,
         on : SUBSET (Editors \cup Entities),
         now : SUBSET Statement,          \* statements that run at the same time
         later : Seq(SUBSET Statement),   \* those that run after them
         failed : BOOLEAN, answer : {"none", "ok", "error"},
         met : BOOLEAN]  \* history: another request of the collection met it

Nothing == [row |-> Null, items |-> {}, people |-> {}]
Idle == [kind |-> "none", coll |-> Null, user |-> Null, loaded |-> Nothing,
         type |-> Null, people |-> {}, others |-> {}, on |-> {}, now |-> {}, later |-> <<>>,
         failed |-> FALSE, answer |-> "ok", met |-> FALSE]

Init ==
  /\ row = [i \in Ids |-> Null]
  /\ items = [i \in Ids |-> {}] /\ collaborators = [i \in Ids |-> {}]
  /\ page = [e \in Editors |-> Null]
  /\ task = [w \in Workers |-> Idle]
  /\ crossed = {}
  /\ requests = 0

Exists(i) == row[i] \notin {Null, Gone}
Running(w) == task[w].answer = "none"

----------------------------------------------------------------------------
(* Loading, and what is refused.                                           *)

\* The type cannot be chosen on the page of a collection with items.
OpenPage(e, i) ==
  /\ Exists(i) /\ row[i].owner = e
  /\ page' = [page EXCEPT ![e] = [coll |-> i, type |-> row[i].type,
                                  fixed |-> items[i] # {}, people |-> collaborators[i]]]
  /\ UNCHANGED <<tables, task, crossed, requests>>

Begin(w, t) ==
  /\ ~Running(w) /\ requests < MaxRequests
  /\ requests' = requests + 1
  /\ LET others == {v \in Workers \ {w} : Running(v) /\ task[v].coll = t.coll}
     IN task' = [v \in Workers |->
          CASE v = w -> [t EXCEPT !.met = others # {}]
            [] v \in others -> [task[v] EXCEPT !.met = @ \/ t.answer = "none"]
            [] OTHER -> IF Running(v) THEN task[v] ELSE Idle]
  /\ UNCHANGED <<tables, crossed>>

\* makeCollectionLoader
Load(i) == [row |-> row[i], items |-> items[i], people |-> collaborators[i]]

Stmt(op, on) == [op |-> op, on |-> on]

Ask(kind, e, i, on, now, later) ==
  [Idle EXCEPT !.kind = kind, !.coll = i, !.user = e, !.on = on, !.now = now,
               !.later = later, !.answer = "none", !.loaded = Load(i)]

\* An answered request is kept to be compared with the tables, unless another
\* one met it.
Answered(t, answer) ==
  IF t.met THEN Idle
  ELSE [t EXCEPT !.user = Null, !.now = {}, !.later = <<>>, !.failed = FALSE,
                 !.answer = answer, !.loaded = IF answer = "ok" THEN Nothing ELSE @]

Refused(t) == Answered([t EXCEPT !.type = Null, !.people = {}, !.others = {}, !.on = {}], "error")

\* Wrong: everyone on the form is new.
Joining_All(loaded, kept, others) == kept \cup others

\* newlyAddedCollaborators: not loaded with that id and text.
Joining(loaded, kept, others) == (kept \ loaded) \cup others

\* removedCollaborators: loaded, and not on the form with that id and text.
Leaving(loaded, kept) == loaded \ kept

\* A form: the row first, then everyone at once. People on the form are kept
\* as they were shown, or others.
Form(e, i, type, kept, others) ==
  LET loaded == collaborators[i]
      each == {Stmt("join", {x}) : x \in Joining(loaded, kept, others)} \cup
                {Stmt("leave", {x}) : x \in Leaving(loaded, kept)}
  IN [Ask("edit", e, i, {}, {Stmt("save", {})}, IF each = {} THEN <<>> ELSE <<each>>)
      EXCEPT !.type = type, !.people = kept \cup others, !.others = others]

Create(w, e, i, type, others) ==
  /\ row[i] = Null /\ \A v \in Workers : task[v].coll # i
  /\ Begin(w, Form(e, i, type, {}, others))
  /\ UNCHANGED page

\* Wrong: a collection may always get another type.
TypeAllowed_Any(i, type) == TRUE

\* A collection that has items when it is loaded keeps its type.
TypeAllowed(i, type) == items[i] = {} \/ type = row[i].type

\* isCollectionOwner, then collectionCreateOrEditHandler.
Edit(w, e, kept, others, type) ==
  LET i == page[e].coll
      t == Form(e, i, type, kept, others)
  IN /\ page[e] # Null
     /\ kept \subseteq page[e].people \ others
     /\ page[e].fixed => type = page[e].type
     /\ Exists(i)
     /\ Begin(w, IF row[i].owner = e /\ TypeAllowed(i, type) THEN t ELSE Refused(t))
     /\ page' = [page EXCEPT ![e] = Null]

Delete(w, e, i) ==
  LET t == Ask("delete", e, i, {}, {Stmt("destroy", {})}, <<>>)
  IN /\ Exists(i)
     /\ Begin(w, IF row[i].owner # e THEN Refused(t) ELSE t)
     /\ UNCHANGED page

\* isCollectionOwnerOrCollaborator
MayChangeItems(e, i) == e = row[i].owner \/ e \in collaborators[i]

\* One item after the other, and the time after each.
Add(w, e, i, list) ==
  LET on == {list[k] : k \in DOMAIN list}
      wave(k) == IF k % 2 = 1 THEN {Stmt("put", {list[(k + 1) \div 2]})} ELSE {Stmt("touch", {})}
      later == [k \in 1..(2 * Len(list) - 1) |-> wave(k + 1)]
      t == Ask("add", e, i, on, wave(1), later)
  IN /\ Exists(i)
     /\ Begin(w, IF MayChangeItems(e, i) /\ (\A b \in on : TypeOf[b] = row[i].type)
                 THEN t ELSE Refused(t))
     /\ UNCHANGED page

Remove(w, e, i, on) ==
  LET t == Ask("remove", e, i, on, {Stmt("take", on)}, <<{Stmt("touch", {})}>>)
  IN /\ Exists(i)
     /\ Begin(w, IF MayChangeItems(e, i) /\ on \subseteq items[i] THEN t ELSE Refused(t))
     /\ UNCHANGED page

\* Wrong: any collaborator may remove others.
MayRemove_Collaborator(e, i, on) == e = row[i].owner \/ e \in collaborators[i]

\* The owner may remove anyone, a collaborator only himself.
MayRemove(e, i, on) == e = row[i].owner \/ on = {e}

RemoveCollaborators(w, e, i, on) ==
  LET t == Ask("leave", e, i, on, {Stmt("leave", on)}, <<{Stmt("touch", {})}>>)
  IN /\ Exists(i)
     /\ Begin(w, IF MayRemove(e, i, on) /\ on \subseteq collaborators[i]
                 THEN t ELSE Refused(t))
     /\ UNCHANGED page

----------------------------------------------------------------------------
(* The statements.                                                         *)

\* Wrong: the loop over the items ends with the first duplicate.
AfterDuplicate_Break(later) == <<>>

\* What follows an item that was there already: the loop goes on with the next
\* one, without noting the time.
AfterDuplicate(later) == Tail(later)

\* The request of w is done with s. The first failure answers it, and what was
\* started with s still goes on.
Finish(w, s, failed, later) ==
  LET t == task[w]
      fails == t.failed \/ failed
  IN task' = [task EXCEPT ![w] =
       IF t.now # {s} THEN [t EXCEPT !.now = @ \ {s}, !.failed = fails]
       ELSE IF fails THEN Answered(t, "error")
       ELSE IF later = <<>> THEN Answered(t, "ok")
       ELSE [t EXCEPT !.now = Head(later), !.later = Tail(later)]]

Starting(w, op) == {s \in task[w].now : s.op = op}

\* A new row, or an update of a row that has to be there. Bookshelf rejects an
\* update or a delete of no row.
Save(w, s) ==
  LET t == task[w]
      i == t.coll
      new == [owner |-> t.user, type |-> t.type]
  IN /\ UNCHANGED <<items, collaborators>>
     /\ \/ /\ t.loaded.row = Null \/ Exists(i)
           /\ row' = [row EXCEPT ![i] = IF t.loaded.row = Null THEN new
                                        ELSE [@ EXCEPT !.type = t.type]]
           /\ crossed' = IF t.met /\ Exists(i) /\ row[i].type # t.type
                         THEN crossed \cup {i} ELSE crossed
           /\ Finish(w, s, FALSE, t.later)
        \/ /\ t.loaded.row # Null /\ ~Exists(i)
           /\ Finish(w, s, TRUE, <<>>)
           /\ UNCHANGED <<row, crossed>>

\* The primary key of the pair, and a foreign key to the collection.
Join(w, s) ==
  LET i == task[w].coll
      fails == ~Exists(i) \/ s.on \subseteq collaborators[i]
  IN /\ collaborators' = IF fails THEN collaborators
                         ELSE [collaborators EXCEPT ![i] = @ \cup s.on]
     /\ Finish(w, s, fails, task[w].later)
     /\ UNCHANGED <<row, items, crossed>>

Leave(w, s) ==
  LET i == task[w].coll
  IN /\ collaborators' = [collaborators EXCEPT ![i] = @ \ s.on]
     /\ Finish(w, s, collaborators[i] \cap s.on = {}, task[w].later)
     /\ UNCHANGED <<row, items, crossed>>

\* A duplicate is no error.
Put(w, s) ==
  LET i == task[w].coll
      later == task[w].later
  IN /\ UNCHANGED <<row, collaborators, crossed>>
     /\ \/ ~Exists(i) /\ Finish(w, s, TRUE, <<>>) /\ UNCHANGED items
        \/ /\ Exists(i) /\ s.on \subseteq items[i]
           /\ Finish(w, s, FALSE, AfterDuplicate(later))
           /\ UNCHANGED items
        \/ /\ Exists(i) /\ ~(s.on \subseteq items[i])
           /\ items' = [items EXCEPT ![i] = @ \cup s.on]
           /\ Finish(w, s, FALSE, later)

Take(w, s) ==
  LET i == task[w].coll
  IN /\ items' = [items EXCEPT ![i] = @ \ s.on]
     /\ Finish(w, s, items[i] \cap s.on = {}, task[w].later)
     /\ UNCHANGED <<row, collaborators, crossed>>

\* lastModified
Touch(w, s) ==
  /\ Finish(w, s, ~Exists(task[w].coll), task[w].later)
  /\ UNCHANGED <<tables, crossed>>

\* With ON DELETE CASCADE.
Destroy(w, s) ==
  LET i == task[w].coll
  IN /\ row' = [row EXCEPT ![i] = Gone]
     /\ items' = [items EXCEPT ![i] = {}]
     /\ collaborators' = [collaborators EXCEPT ![i] = {}]
     /\ Finish(w, s, ~Exists(i), task[w].later)
     /\ UNCHANGED crossed

Run(w) ==
  /\ Running(w)
  /\ \/ \E s \in Starting(w, "save") : Save(w, s)
     \/ \E s \in Starting(w, "join") : Join(w, s)
     \/ \E s \in Starting(w, "leave") : Leave(w, s)
     \/ \E s \in Starting(w, "put") : Put(w, s)
     \/ \E s \in Starting(w, "take") : Take(w, s)
     \/ \E s \in Starting(w, "touch") : Touch(w, s)
     \/ \E s \in Starting(w, "destroy") : Destroy(w, s)
  /\ UNCHANGED <<page, requests>>

\* The items of a request come in any order, each once.
Lists == {list \in UNION {[1..n -> Entities] : n \in 1..2} :
            \A j, k \in DOMAIN list : list[j] = list[k] => j = k}

Next ==
  \/ \E e \in Editors, i \in Ids : OpenPage(e, i)
  \/ \E w \in Workers, e \in Editors :
       \/ \E i \in Ids, type \in Types, others \in SUBSET Editors : Create(w, e, i, type, others)
       \/ \E kept, others \in SUBSET Editors, type \in Types : Edit(w, e, kept, others, type)
       \/ \E i \in Ids : Delete(w, e, i)
       \/ \E i \in Ids, list \in Lists : Add(w, e, i, list)
       \/ \E i \in Ids, on \in (SUBSET Entities) \ {{}} : Remove(w, e, i, on)
       \/ \E i \in Ids, on \in (SUBSET Editors) \ {{}} : RemoveCollaborators(w, e, i, on)
  \/ \E w \in Workers : Run(w)

Spec == Init /\ [][Next]_vars

----------------------------------------------------------------------------
TypeOK ==
  /\ row \in [Ids -> Row \cup {Null, Gone}]
  /\ items \in [Ids -> SUBSET Entities]
  /\ collaborators \in [Ids -> SUBSET Editors]
  /\ page \in [Editors -> Page \cup {Null}]
  /\ task \in [Workers -> Task]
  /\ crossed \subseteq Ids
  /\ requests \in 0..MaxRequests

\* A collection holds entities of its type, unless its type was changed by a
\* request that met another one: what is added, and whether there is something
\* that the type must agree with, was looked up before (middleware.ts 385,
\* collectionRouteUtils.js 46).
ItemsOfType ==
  \A i \in Ids \ crossed : \A b \in items[i] : TypeOf[b] = row[i].type

\* What is answered with success is so, unless another request came between:
\* the people and the type of the form, each of the entities added, none of
\* those removed (collectionRouteUtils.js 59-94, collection.js 253-346).
AnswersHold ==
  \A w \in Workers : LET t == task[w]
                         i == t.coll
    IN t.answer = "ok" /\ ~t.met =>
         CASE t.kind = "edit" -> /\ row[i].type = t.type
                                 /\ collaborators[i] = t.people
           [] t.kind = "add" -> t.on \subseteq items[i]
           [] t.kind = "remove" -> t.on \cap items[i] = {}
           [] t.kind = "leave" -> t.on \cap collaborators[i] = {}
           [] t.kind = "delete" -> row[i] = Gone
           [] OTHER -> TRUE

\* Someone of the form was loaded with another text.
Relabelled(t) == t.others \cap t.loaded.people # {}

\* A request answered with an error has changed nothing, unless another one
\* came between, or somebody on the form was renamed or picked again: he is then
\* inserted and deleted at the same time, and may be lost (64-85).
ErrorsChangeNothing ==
  \A w \in Workers : LET t == task[w]
                         i == t.coll
    IN t.answer = "error" /\ ~t.met /\ ~Relabelled(t) =>
         /\ row[i] = t.loaded.row /\ items[i] = t.loaded.items
         /\ collaborators[i] = t.loaded.people

\* Answers are true: success means what was asked for, an error that nothing changed.
AnswersTrue == AnswersHold /\ ErrorsChangeNothing

\* A collection holds entities of its type, and answers are true.
CollectionsHold == ItemsOfType /\ AnswersTrue

\* Only the owner changes a collection and its people, but a collaborator may leave; only
\* the owner and collaborators change its items, and whoever is neither any more only
\* with a request that met the one that removed him (auth.ts 218-237, collection.js
\* 322-334).
MembersOnly ==
  [][\A i \in Ids : row[i] # Null /\ <<row[i], items[i], collaborators[i]>>' #
                                     <<row[i], items[i], collaborators[i]>> =>
       \E w \in Workers :
         /\ Running(w) /\ task[w].coll = i
         /\ \/ task[w].met
            \/ task[w].user = row[i].owner
            \/ row'[i] = row[i] /\ task[w].user \in collaborators[i] /\
                 collaborators'[i] \in {collaborators[i], collaborators[i] \ {task[w].user}}]_vars
=============================================================================

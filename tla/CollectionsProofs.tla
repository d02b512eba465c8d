------------------------- MODULE CollectionsProofs -------------------------
(***************************************************************************)
(* Proofs about Collections, for any collections, editors, entities and    *)
(* number of requests at the same time: a collection holds entities of its *)
(* type, answers are true, and only members change a collection.           *)
(*                                                                         *)
(* Each request is followed by what its statements have still to do and    *)
(* what those before have done, a function of the request and of the rows  *)
(* of its collection. It is known only of requests that met no other one   *)
(* (Progress, Outcome); of the others only which statements they may still *)
(* run is known (Shape), and that is enough for the type of the items.     *)
(***************************************************************************)
EXTENDS Collections, TLAPS

----------------------------------------------------------------------------
(* What a request has still to do.                                         *)

Joins(t) == Joining(t.loaded.people, t.people \ t.others, t.others)
Leaves(t) == Leaving(t.loaded.people, t.people \ t.others)
JoinOf(x) == Stmt("join", {x})
LeaveOf(x) == Stmt("leave", {x})
Each(t) == {JoinOf(x) : x \in Joins(t)} \cup {LeaveOf(x) : x \in Leaves(t)}
PutOf(b) == Stmt("put", {b})
Touching == {Stmt("touch", {})}

\* The row of the form is to be written, or it was and people are not all done.
AtRow(t) == /\ t.now = {Stmt("save", {})}
            /\ t.later = IF Each(t) = {} THEN <<>> ELSE <<Each(t)>>
AtPeople(t) == t.now \subseteq Each(t) /\ t.later = <<>>

\* One statement and then the time.
AtFirst(t, op) == t.now = {Stmt(op, t.on)} /\ t.later = <<Touching>>
AtTime(t) == t.now = Touching /\ t.later = <<>>

\* Entities that are still to be added.
AtLast(t, b) == t.now = {PutOf(b)} /\ t.later = <<Touching>>
BeforeLast(t, b) == t.now = Touching /\ t.later = <<{PutOf(b)}, Touching>>
AtStart(t, a, b) == t.now = {PutOf(a)} /\ t.later = <<Touching, {PutOf(b)}, Touching>>

Shape(t) ==
  \/ /\ t.kind = "edit" /\ t.type \in Types /\ t.others \subseteq t.people
     /\ AtRow(t) \/ AtPeople(t)
  \/ t.kind = "delete" /\ t.now = {Stmt("destroy", {})} /\ t.later = <<>>
  \/ /\ t.kind = "add" /\ t.on \subseteq Entities
     /\ \/ AtTime(t)
        \/ \E b \in t.on : AtLast(t, b) \/ BeforeLast(t, b)
        \/ \E a, b \in t.on : AtStart(t, a, b)
  \/ t.kind = "remove" /\ (AtFirst(t, "take") \/ AtTime(t))
  \/ t.kind = "leave" /\ (AtFirst(t, "leave") \/ AtTime(t))

----------------------------------------------------------------------------
(* What a request that met no other one has done to its collection, which  *)
(* now has the row r, the items its and the collaborators people.          *)

\* Who is a collaborator while the statements now on the people of a form run,
\* none of which has failed: those to be removed are there until they are, those to
\* be added are not until they are. One who is to be both has to go first.
PeopleSoFar(t, now, people) ==
  \A x \in Editors :
    IF x \in Joins(t)
    THEN IF JoinOf(x) \in now
         THEN x \in people <=> x \in Leaves(t) /\ LeaveOf(x) \in now
         ELSE x \in people /\ LeaveOf(x) \notin now
    ELSE IF x \in Leaves(t) THEN x \in people <=> LeaveOf(x) \in now
         ELSE x \in people <=> x \in t.loaded.people

\* Nothing yet.
Untouched(t, r, its, people) ==
  r = t.loaded.row /\ its = t.loaded.items /\ people = t.loaded.people

EditProgress(t, r, its, people) ==
  \/ /\ AtRow(t)
     /\ Untouched(t, r, its, people)
     /\ ~t.failed
     /\ r = Null \/ (r \in Row /\ r.owner = t.user /\ (its = {} \/ r.type = t.type))
  \/ /\ AtPeople(t)
     /\ r = [owner |-> t.user, type |-> t.type]
     /\ t.failed => Relabelled(t)
     /\ ~t.failed => PeopleSoFar(t, t.now, people)

Progress(t, r, its, people) ==
  \/ t.kind = "edit" /\ EditProgress(t, r, its, people)
  \/ t.kind # "edit" /\ ~t.failed /\ r \in Row /\
       \/ t.kind = "delete" /\ r.owner = t.user
       \/ /\ t.kind = "add"
          /\ t.user = r.owner \/ t.user \in people
          /\ \/ AtTime(t) /\ t.on \subseteq its
             \/ \E b \in t.on : /\ AtLast(t, b) \/ BeforeLast(t, b)
                                /\ t.on \ {b} \subseteq its
             \/ \E a, b \in t.on : AtStart(t, a, b) /\ t.on \ {a, b} \subseteq its
       \/ /\ t.kind = "remove"
          /\ t.user = r.owner \/ t.user \in people
          /\ \/ AtFirst(t, "take") /\ t.on # {} /\ t.on \subseteq its
             \/ AtTime(t) /\ t.on \cap its = {}
       \/ /\ t.kind = "leave"
          /\ \/ /\ AtFirst(t, "leave") /\ t.on # {} /\ t.on \subseteq people
                /\ t.user = r.owner \/ t.on = {t.user}
             \/ AtTime(t) /\ t.on \cap people = {}

\* What an answer says of the rows of the collection.
Outcome(t, r, its, people) ==
  /\ t.answer = "ok" =>
       /\ t.kind = "edit" => r.type = t.type /\ people = t.people
       /\ t.kind = "add" => t.on \subseteq its
       /\ t.kind = "remove" => t.on \cap its = {}
       /\ t.kind = "leave" => t.on \cap people = {}
       /\ t.kind = "delete" => r = Gone
  /\ t.answer = "error" /\ ~Relabelled(t) => Untouched(t, r, its, people)

----------------------------------------------------------------------------
(* The invariant.                                                          *)

Shapes ==
  \A w \in Workers : /\ task[w].kind # "none" => task[w].coll \in Ids
                     /\ task[w].kind = "none" => task[w].answer = "ok"
                     /\ Running(w) => task[w].user \in Editors /\ Shape(task[w])
Progresses == \A w \in Workers : LET t == task[w]
                                     i == t.coll
  IN Running(w) /\ ~t.met => Progress(t, row[i], items[i], collaborators[i])
Outcomes == \A w \in Workers : LET t == task[w]
                                   i == t.coll
  IN ~Running(w) /\ t.kind # "none" /\ ~t.met =>
       Outcome(t, row[i], items[i], collaborators[i])

\* Two requests of one collection that run at the same time have met, and an
\* answer that none came between is followed by no other request.
Alone ==
  \A w, v \in Workers :
    w # v /\ task[w].kind # "none" /\ Running(v) /\ task[v].coll = task[w].coll =>
      task[w].met /\ (Running(w) => task[v].met)

\* A collection that is to be made has no other request.
Unborn ==
  \A w \in Workers : LET t == task[w]
    IN Running(w) /\ t.kind = "edit" /\ t.loaded.row = Null /\ AtRow(t) =>
         row[t.coll] = Null /\ \A v \in Workers \ {w} : Running(v) => task[v].coll # t.coll

NoItems == \A i \in Ids : ~Exists(i) => items[i] = {}

\* What is being added was of the type of the collection, which has it still.
AddsOfType ==
  \A w \in Workers : LET t == task[w]
    IN Running(w) /\ t.kind = "add" /\ Exists(t.coll) /\ t.coll \notin crossed =>
         \A b \in t.on : TypeOf[b] = row[t.coll].type

IInv ==
  TypeOK /\ Shapes /\ Progresses /\ Outcomes /\ Alone /\ Unborn /\ NoItems /\ ItemsOfType /\ AddsOfType

----------------------------------------------------------------------------
(* Requests as records.                                                    *)

\* What stays the same of a request while it runs, but that others met it.
SameRequest(n, t) ==
  /\ n.kind = t.kind /\ n.coll = t.coll /\ n.user = t.user /\ n.loaded = t.loaded
  /\ n.type = t.type /\ n.people = t.people /\ n.others = t.others /\ n.on = t.on
  /\ n.answer = t.answer

LEMMA SameEach ==
  ASSUME NEW t, NEW n, SameRequest(n, t)
  PROVE  Joins(n) = Joins(t) /\ Leaves(n) = Leaves(t) /\ Each(n) = Each(t)
         /\ Relabelled(n) = Relabelled(t)
BY DEF SameRequest, Joins, Leaves, Each, Relabelled

LEMMA SameState ==
  ASSUME NEW t, NEW n, SameRequest(n, t), n.now = t.now, n.later = t.later,
         n.failed = t.failed,
         NEW r, NEW its, NEW people
  PROVE  /\ Shape(n) <=> Shape(t)
         /\ Progress(n, r, its, people) <=> Progress(t, r, its, people)
         /\ Outcome(n, r, its, people) <=> Outcome(t, r, its, people)
         /\ AtRow(n) <=> AtRow(t)
<1>1. Joins(n) = Joins(t) /\ Leaves(n) = Leaves(t) /\ Each(n) = Each(t)
      /\ Relabelled(n) = Relabelled(t)
  BY SameEach
<1>2. AtRow(n) <=> AtRow(t)
  BY <1>1 DEF AtRow
<1>3. AtPeople(n) <=> AtPeople(t)
  BY <1>1 DEF AtPeople
<1>4. PeopleSoFar(n, n.now, people) <=> PeopleSoFar(t, t.now, people)
  BY <1>1 DEF PeopleSoFar, SameRequest
<1>5. Untouched(n, r, its, people) <=> Untouched(t, r, its, people)
  BY DEF Untouched, SameRequest
<1>6. EditProgress(n, r, its, people) <=> EditProgress(t, r, its, people)
  BY <1>1, <1>2, <1>3, <1>4, <1>5 DEF EditProgress, SameRequest
<1>7. /\ AtTime(n) <=> AtTime(t)
      /\ AtFirst(n, "take") <=> AtFirst(t, "take")
      /\ AtFirst(n, "leave") <=> AtFirst(t, "leave")
  BY DEF AtTime, AtFirst, SameRequest
<1>8. \A a, b : /\ AtLast(n, b) <=> AtLast(t, b)
                /\ BeforeLast(n, b) <=> BeforeLast(t, b)
                /\ AtStart(n, a, b) <=> AtStart(t, a, b)
  BY DEF AtLast, BeforeLast, AtStart
<1>9. Shape(n) <=> Shape(t)
  BY <1>2, <1>3, <1>7, <1>8 DEF Shape, SameRequest
<1>10. Progress(n, r, its, people) <=> Progress(t, r, its, people)
  BY <1>6, <1>7, <1>8 DEF Progress, SameRequest
<1>11. Outcome(n, r, its, people) <=> Outcome(t, r, its, people)
  BY <1>1, <1>5 DEF Outcome, SameRequest
<1> QED
  BY <1>2, <1>9, <1>10, <1>11

LEMMA Statements ==
  /\ \A op \in Op, on \in SUBSET (Editors \cup Entities) : Stmt(op, on) \in Statement
  /\ \A op, on : Stmt(op, on).op = op /\ Stmt(op, on).on = on
  /\ \A b : PutOf(b).op = "put" /\ PutOf(b).on = {b}
  /\ \A x : JoinOf(x).op = "join" /\ JoinOf(x).on = {x}
  /\ \A x : LeaveOf(x).op = "leave" /\ LeaveOf(x).on = {x}
BY DEF Stmt, Statement, PutOf, JoinOf, LeaveOf

LEMMA PutsDiffer ==
  ASSUME NEW b, NEW c, {PutOf(b)} = {PutOf(c)}
  PROVE  b = c
<1>1. PutOf(b) = PutOf(c)
  OBVIOUS
<1>2. PutOf(b).on = {b} /\ PutOf(c).on = {c}
  BY Statements
<1>3. {b} = {c}
  BY <1>1, <1>2
<1> QED
  BY <1>3

LEMMA IdleTyped == Idle \in Task /\ Nothing \in Loaded
BY DEF Idle, Nothing, Task, Loaded

LEMMA TaskFields ==
  ASSUME NEW t \in Task
  PROVE  /\ t.kind \in {"none", "edit", "delete", "add", "remove", "leave"}
         /\ t.coll \in Ids \cup {Null} /\ t.user \in Editors \cup {Null}
         /\ t.loaded \in Loaded /\ t.loaded.row \in Row \cup {Null}
         /\ t.loaded.items \subseteq Entities /\ t.loaded.people \subseteq Editors
         /\ t.type \in Types \cup {Null} /\ t.people \subseteq Editors
         /\ t.others \subseteq Editors /\ t.on \subseteq Editors \cup Entities
         /\ t.now \subseteq Statement /\ t.later \in Seq(SUBSET Statement)
         /\ t.failed \in BOOLEAN /\ t.answer \in {"none", "ok", "error"} /\ t.met \in BOOLEAN
BY DEF Task, Loaded

LEMMA MetOnly ==
  ASSUME NEW t \in Task, NEW met \in BOOLEAN, NEW n, n = [t EXCEPT !.met = met]
  PROVE  /\ n \in Task /\ SameRequest(n, t) /\ n.met = met
         /\ n.now = t.now /\ n.later = t.later /\ n.failed = t.failed
BY DEF Task, SameRequest

LEMMA AnsweredFields ==
  ASSUME NEW t \in Task, NEW answer \in {"ok", "error"}, NEW n, n = Answered(t, answer)
  PROVE  /\ n \in Task /\ n.answer # "none"
         /\ t.met => n = Idle
         /\ ~t.met => /\ n.answer = answer /\ n.kind = t.kind /\ n.coll = t.coll
                      /\ n.type = t.type /\ n.people = t.people /\ n.others = t.others
                      /\ n.on = t.on /\ n.met = FALSE
                      /\ answer = "error" => n.loaded = t.loaded
<1>1. CASE t.met
  BY <1>1, IdleTyped DEF Answered, Idle
<1>2. CASE ~t.met
  <2> DEFINE l == IF answer = "ok" THEN Nothing ELSE t.loaded
  <2>1. l \in Loaded
    BY IdleTyped, TaskFields
  <2>2. n = [t EXCEPT !.user = Null, !.now = {}, !.later = <<>>, !.failed = FALSE,
                      !.answer = answer, !.loaded = l]
    BY <1>2 DEF Answered
  <2>3. l = t.loaded \/ answer = "ok"
    OBVIOUS
  <2> HIDE DEF l
  <2>3a. /\ Null \in Editors \cup {Null} /\ {} \in SUBSET Statement
         /\ <<>> \in Seq(SUBSET Statement) /\ answer \in {"none", "ok", "error"}
    OBVIOUS
  <2>4. n \in Task
    BY <2>1, <2>2, <2>3a DEF Task
  <2>5. /\ n.answer = answer /\ n.kind = t.kind /\ n.coll = t.coll /\ n.type = t.type
        /\ n.people = t.people /\ n.others = t.others /\ n.on = t.on /\ n.met = t.met
        /\ n.loaded = l
    BY <2>2 DEF Task
  <2> QED
    BY <1>2, <2>3, <2>4, <2>5, TaskFields
<1> QED
  BY <1>1, <1>2, TaskFields

----------------------------------------------------------------------------
(* A statement of a request is done.                                       *)

\* The request goes on with the next statement, or it is answered.
Next1(t, n, failed, later, s) ==
  \/ /\ SameRequest(n, t) /\ n.met = t.met
     /\ \/ /\ t.now # {s} /\ n.now = t.now \ {s} /\ n.later = t.later
           /\ n.failed <=> t.failed \/ failed
        \/ /\ t.now = {s} /\ ~t.failed /\ ~failed /\ later # <<>> /\ ~n.failed
           /\ n.now = Head(later) /\ n.later = Tail(later)
  \/ /\ t.now = {s} /\ t.met /\ n = Idle
  \/ /\ t.now = {s} /\ ~t.met
     /\ n.kind = t.kind /\ n.coll = t.coll /\ n.type = t.type /\ n.people = t.people
     /\ n.others = t.others /\ n.on = t.on /\ n.met = FALSE
     /\ \/ n.answer = "ok" /\ ~t.failed /\ ~failed /\ later = <<>>
        \/ n.answer = "error" /\ (t.failed \/ failed) /\ n.loaded = t.loaded

LEMMA Finished ==
  ASSUME TypeOK, NEW w \in Workers, Running(w), NEW s \in task[w].now,
         NEW failed \in BOOLEAN, NEW later \in Seq(SUBSET Statement),
         Finish(w, s, failed, later)
  PROVE  /\ task' \in [Workers -> Task]
         /\ \A v \in Workers \ {w} : task'[v] = task[v]
         /\ Next1(task[w], task'[w], failed, later, s)
<1> DEFINE t == task[w]
           n == task'[w]
<1>1. t \in Task /\ task \in [Workers -> Task]
  BY DEF TypeOK
<1>2. t.now \subseteq Statement /\ t.later \in Seq(SUBSET Statement) /\ t.failed \in BOOLEAN
      /\ t.answer = "none"
  BY <1>1, TaskFields DEF Running
<1>3. CASE t.now # {s}
  <2>1. task' = [task EXCEPT ![w] = [t EXCEPT !.now = t.now \ {s}, !.failed = t.failed \/ failed]]
    BY <1>3 DEF Finish
  <2>2. n = [t EXCEPT !.now = t.now \ {s}, !.later = t.later, !.failed = t.failed \/ failed]
    BY <2>1, <1>1 DEF Task
  <2>3. /\ n \in Task /\ SameRequest(n, t) /\ n.met = t.met
        /\ n.now = t.now \ {s} /\ n.later = t.later /\ n.failed = (t.failed \/ failed)
    <3> DEFINE f == t.failed \/ failed
               m == t.now \ {s}
    <3>1. f \in BOOLEAN /\ m \in SUBSET Statement /\ n = [t EXCEPT !.now = m, !.later = t.later, !.failed = f]
      BY <1>2, <2>2
    <3> HIDE DEF f, m, t, n
    <3>2. /\ n \in Task /\ SameRequest(n, t) /\ n.met = t.met
          /\ n.now = m /\ n.later = t.later /\ n.failed = f
      BY <3>1, <1>1, <1>2 DEF Task, SameRequest
    <3> QED
      BY <3>2 DEF f, m
  <2>4. /\ task' \in [Workers -> Task] /\ \A v \in Workers \ {w} : task'[v] = task[v]
    BY <2>1, <2>3, <1>1
  <2> QED
    BY <2>3, <2>4, <1>3 DEF Next1
<1>4. CASE t.now = {s} /\ (t.failed \/ failed)
  <2>1. task' = [task EXCEPT ![w] = Answered(t, "error")]
    BY <1>4 DEF Finish
  <2>2. n = Answered(t, "error")
    BY <2>1, <1>1
  <2> HIDE DEF t, n
  <2>3. /\ n \in Task /\ n.answer # "none"
        /\ t.met => n = Idle
        /\ ~t.met => /\ n.answer = "error" /\ n.kind = t.kind /\ n.coll = t.coll
                     /\ n.type = t.type /\ n.people = t.people /\ n.others = t.others
                     /\ n.on = t.on /\ n.met = FALSE /\ n.loaded = t.loaded
    BY <2>2, <1>1, AnsweredFields
  <2> USE DEF t, n
  <2>4. /\ task' \in [Workers -> Task] /\ \A v \in Workers \ {w} : task'[v] = task[v]
    BY <2>1, <2>2, <2>3, <1>1
  <2> QED
    BY <2>3, <2>4, <1>4 DEF Next1
<1>5. CASE t.now = {s} /\ ~t.failed /\ ~failed /\ later = <<>>
  <2>1. task' = [task EXCEPT ![w] = Answered(t, "ok")]
    BY <1>5 DEF Finish
  <2>2. n = Answered(t, "ok")
    BY <2>1, <1>1
  <2> HIDE DEF t, n
  <2>3. /\ n \in Task /\ n.answer # "none"
        /\ t.met => n = Idle
        /\ ~t.met => /\ n.answer = "ok" /\ n.kind = t.kind /\ n.coll = t.coll
                     /\ n.type = t.type /\ n.people = t.people /\ n.others = t.others
                     /\ n.on = t.on /\ n.met = FALSE
    BY <2>2, <1>1, AnsweredFields
  <2> USE DEF t, n
  <2>4. /\ task' \in [Workers -> Task] /\ \A v \in Workers \ {w} : task'[v] = task[v]
    BY <2>1, <2>2, <2>3, <1>1
  <2> QED
    BY <2>3, <2>4, <1>5 DEF Next1
<1>6. CASE t.now = {s} /\ ~t.failed /\ ~failed /\ later # <<>>
  <2>1. task' = [task EXCEPT ![w] = [t EXCEPT !.now = Head(later), !.later = Tail(later)]]
    BY <1>6 DEF Finish
  <2>2. Head(later) \in SUBSET Statement /\ Tail(later) \in Seq(SUBSET Statement)
    BY <1>6
  <2>3. n = [t EXCEPT !.now = Head(later), !.later = Tail(later), !.failed = t.failed]
    BY <2>1, <1>1 DEF Task
  <2>4. /\ n \in Task /\ SameRequest(n, t) /\ n.met = t.met
        /\ n.now = Head(later) /\ n.later = Tail(later) /\ n.failed = t.failed
    <3> DEFINE h == Head(later)
               l == Tail(later)
    <3>1. h \in SUBSET Statement /\ l \in Seq(SUBSET Statement)
          /\ n = [t EXCEPT !.now = h, !.later = l, !.failed = t.failed]
      BY <2>2, <2>3
    <3> HIDE DEF h, l, t, n
    <3>2. /\ n \in Task /\ SameRequest(n, t) /\ n.met = t.met
          /\ n.now = h /\ n.later = l /\ n.failed = t.failed
      BY <3>1, <1>1, <1>2 DEF Task, SameRequest
    <3> QED
      BY <3>2 DEF h, l
  <2>5. /\ task' \in [Workers -> Task] /\ \A v \in Workers \ {w} : task'[v] = task[v]
    BY <2>1, <2>4, <1>1
  <2> QED
    BY <2>4, <2>5, <1>6 DEF Next1
<1> QED
  BY <1>3, <1>4, <1>5, <1>6

\* What becomes of a request t with a statement, its collection then having the
\* row r, the items its and the collaborators people.
Kept(n, t, r, its, people) ==
  \/ /\ SameRequest(n, t) /\ n.met = t.met
     /\ Shape(n)
     /\ ~AtRow(n)
     /\ ~t.met => Progress(n, r, its, people)
  \/ n = Idle
  \/ /\ n.answer # "none" /\ n.kind = t.kind /\ n.coll = t.coll /\ ~t.met
     /\ Outcome(n, r, its, people)

\* The invariants about requests, when one of them is done with a statement
\* that changed rows of its collection only.
LEMMA StepKeeps ==
  ASSUME IInv, NEW w \in Workers, Running(w),
         task' \in [Workers -> Task],
         \A v \in Workers \ {w} : task'[v] = task[v],
         NEW i, i = task[w].coll,
         \A j \in Ids \ {i} : row'[j] = row[j] /\ items'[j] = items[j]
                              /\ collaborators'[j] = collaborators[j],
         Kept(task'[w], task[w], row'[i], items'[i], collaborators'[i])
  PROVE  Shapes' /\ Progresses' /\ Outcomes' /\ Alone' /\ Unborn'
<1> DEFINE n == task'[w]
<1>0a. task[w].answer = "none" /\ task[w].user \in Editors /\ Shape(task[w])
  BY DEF IInv, Shapes, Running
<1>1. task[w].kind # "none"
  BY <1>0a DEF Shape
<1>0. i \in Ids /\ task[w].answer = "none" /\ task[w].user \in Editors /\ Shape(task[w])
  BY <1>0a, <1>1 DEF IInv, Shapes
<1>2. n = Idle => n.answer = "ok" /\ n.kind = "none"
  BY DEF Idle
<1>3. n.answer = "none" => /\ SameRequest(n, task[w]) /\ n.met = task[w].met /\ Shape(n)
                           /\ ~AtRow(n) /\ n.kind # "none" /\ n.coll = i
                           /\ ~n.met => Progress(n, row'[i], items'[i], collaborators'[i])
  BY <1>2, <1>1 DEF SameRequest, Kept
<1>4. n.answer # "none" => \/ n.kind = "none" /\ n.answer = "ok"
                           \/ /\ n.kind # "none" /\ n.coll = i /\ ~task[w].met
                              /\ Outcome(n, row'[i], items'[i], collaborators'[i])
  BY <1>2, <1>0, <1>1 DEF SameRequest, Kept
<1> HIDE DEF n
<1>5. Shapes'
  <2> SUFFICES ASSUME NEW v \in Workers
               PROVE  /\ task'[v].kind # "none" => task'[v].coll \in Ids
                      /\ task'[v].kind = "none" => task'[v].answer = "ok"
                      /\ task'[v].answer = "none" => task'[v].user \in Editors /\ Shape(task'[v])
    BY DEF Shapes, Running
  <2>1. CASE v = w
    BY <2>1, <1>0, <1>3, <1>4 DEF SameRequest, n
  <2>2. CASE v # w
    BY <2>2 DEF IInv, Shapes, Running
  <2> QED
    BY <2>1, <2>2
\* Requests of the same collection that run besides have met it.
<1>6. \A v \in Workers \ {w} : task[v].kind # "none" /\ task[v].coll = i =>
        task[v].met /\ (Running(v) => task[w].met)
  <2> TAKE v \in Workers \ {w}
  <2> HAVE task[v].kind # "none" /\ task[v].coll = i
  <2>1. task[v].met
    BY DEF IInv, Alone
  <2>2. Running(v) => task[w].met
    BY <1>1 DEF IInv, Alone
  <2> QED
    BY <2>1, <2>2
<1>7. \A v \in Workers : Running(v) => task[v].coll \in Ids /\ task[v].kind # "none"
  BY DEF IInv, Shapes, Shape
<1>8. Progresses'
  <2> SUFFICES ASSUME NEW v \in Workers, task'[v].answer = "none", ~task'[v].met
               PROVE  LET j == task'[v].coll
                      IN Progress(task'[v], row'[j], items'[j], collaborators'[j])
    BY DEF Progresses, Running
  <2>1. CASE v = w
    BY <2>1, <1>3 DEF n
  <2>2. CASE v # w
    <3>1. task'[v] = task[v] /\ Running(v)
      BY <2>2 DEF Running
    <3>2. task[v].coll \in Ids \ {i}
      BY <2>2, <3>1, <1>6, <1>7
    <3>3. LET j == task[v].coll IN Progress(task[v], row[j], items[j], collaborators[j])
      BY <3>1 DEF IInv, Progresses
    <3> QED
      BY <3>1, <3>2, <3>3
  <2> QED
    BY <2>1, <2>2
<1>9. Outcomes'
  <2> SUFFICES ASSUME NEW v \in Workers, task'[v].answer # "none", task'[v].kind # "none",
                      ~task'[v].met
               PROVE  LET j == task'[v].coll
                      IN Outcome(task'[v], row'[j], items'[j], collaborators'[j])
    BY DEF Outcomes, Running
  <2>1. CASE v = w
    BY <2>1, <1>4 DEF n
  <2>2. CASE v # w
    <3>1. task'[v] = task[v] /\ ~Running(v)
      BY <2>2 DEF Running
    <3>2. task[v].coll # i
      BY <2>2, <3>1, <1>6
    <3>3. LET j == task[v].coll IN Outcome(task[v], row[j], items[j], collaborators[j])
      BY <3>1 DEF IInv, Outcomes
    <3>4. task[v].coll \in Ids
      BY <3>1 DEF IInv, Shapes
    <3> QED
      BY <3>1, <3>2, <3>3, <3>4
  <2> QED
    BY <2>1, <2>2
<1>10. Alone'
  <2> SUFFICES ASSUME NEW u \in Workers, NEW v \in Workers, u # v, task'[u].kind # "none",
                      task'[v].answer = "none", task'[v].coll = task'[u].coll
               PROVE  task'[u].met /\ (task'[u].answer = "none" => task'[v].met)
    BY DEF Alone, Running
  <2>1. CASE u # w /\ v # w
    BY <2>1 DEF IInv, Alone, Running
  <2>2. CASE v = w
    <3>1. task[v].met = task'[v].met /\ task'[v].coll = i /\ task'[u] = task[u]
      BY <2>2, <1>3 DEF n
    <3> QED
      BY <2>2, <3>1, <1>6 DEF Running
  <2>3. CASE u = w
    <3>1. task'[v] = task[v] /\ Running(v) /\ v \in Workers \ {w}
      BY <2>3 DEF Running
    <3>2. task[v].kind # "none"
      BY <3>1, <1>7
    <3>3. n.coll = i /\ (n.answer = "none" => n.met = task[w].met)
          /\ (n.answer # "none" => ~task[w].met)
      BY <2>3, <1>3, <1>4 DEF n
    <3>4. task[v].met /\ task[w].met
      BY <3>1, <3>2, <3>3, <1>6, <2>3 DEF n
    <3> QED
      BY <2>3, <3>1, <3>3, <3>4 DEF n
  <2> QED
    BY <2>1, <2>2, <2>3
<1>11. Unborn'
  <2> SUFFICES ASSUME NEW v \in Workers, task'[v].answer = "none", task'[v].kind = "edit",
                      task'[v].loaded.row = Null, AtRow(task'[v])
               PROVE  /\ row'[task'[v].coll] = Null
                      /\ \A u \in Workers \ {v} : task'[u].answer = "none" =>
                           task'[u].coll # task'[v].coll
    BY DEF Unborn, Running
  <2>1. v # w
    BY <1>3 DEF n
  <2>2. task'[v] = task[v] /\ Running(v)
    BY <2>1 DEF Running
  <2>3. row[task[v].coll] = Null /\ \A u \in Workers \ {v} : Running(u) => task[u].coll # task[v].coll
    BY <2>2 DEF IInv, Unborn
  <2>4. task[v].coll # i /\ task[v].coll \in Ids
    BY <2>1, <2>2, <2>3, <1>7
  <2>5. ASSUME NEW u \in Workers \ {v}, task'[u].answer = "none"
        PROVE  task'[u].coll # task'[v].coll
    <3>1. CASE u = w
      BY <3>1, <2>5, <2>2, <2>4, <1>3 DEF n
    <3>2. CASE u # w
      BY <3>2, <2>5, <2>2, <2>3 DEF Running
    <3> QED
      BY <3>1, <3>2
  <2> QED
    BY <2>2, <2>3, <2>4, <2>5
<1> QED
  BY <1>5, <1>8, <1>9, <1>10, <1>11

----------------------------------------------------------------------------
(* What the statements of a request are.                                   *)

LEMMA Tuples ==
  /\ \A x : Head(<<x>>) = x /\ Tail(<<x>>) = <<>> /\ <<x>> # <<>>
  /\ \A x, y : Head(<<x, y>>) = x /\ Tail(<<x, y>>) = <<y>> /\ <<x, y>> # <<>>
  /\ \A x, y, z : /\ Head(<<x, y, z>>) = x /\ Tail(<<x, y, z>>) = <<y, z>>
                  /\ <<x, y, z>> # <<>>
<1>1. \A x : Head(<<x>>) = x /\ Tail(<<x>>) = <<>> /\ <<x>> # <<>>
  OBVIOUS
<1>2. \A x, y : Head(<<x, y>>) = x /\ Tail(<<x, y>>) = <<y>> /\ <<x, y>> # <<>>
  OBVIOUS
<1>3. \A x, y, z : /\ Head(<<x, y, z>>) = x /\ Tail(<<x, y, z>>) = <<y, z>>
                   /\ <<x, y, z>> # <<>>
  OBVIOUS
<1> QED
  BY <1>1, <1>2, <1>3

LEMMA EachIs ==
  ASSUME NEW t, NEW s \in Each(t)
  PROVE  \/ \E x \in Joins(t) : s = JoinOf(x) /\ s.op = "join" /\ s.on = {x}
         \/ \E x \in Leaves(t) : s = LeaveOf(x) /\ s.op = "leave" /\ s.on = {x}
BY DEF Each, JoinOf, LeaveOf, Stmt

\* The statement tells what request it is of and where that request is.
LEMMA ByOp ==
  ASSUME NEW t, Shape(t), NEW s \in t.now
  PROVE  /\ s.op = "save" => t.kind = "edit" /\ AtRow(t) /\ t.now = {s} /\ t.type \in Types
         /\ s.op = "join" => /\ t.kind = "edit" /\ AtPeople(t)
                             /\ \E x \in Joins(t) : s = JoinOf(x) /\ s.on = {x}
         /\ s.op = "leave" => \/ /\ t.kind = "edit" /\ AtPeople(t)
                                 /\ \E x \in Leaves(t) : s = LeaveOf(x) /\ s.on = {x}
                              \/ /\ t.kind = "leave" /\ AtFirst(t, "leave")
                                 /\ t.now = {s} /\ s.on = t.on
         /\ s.op = "put" => /\ t.kind = "add" /\ t.now = {s}
                            /\ \E b \in t.on : /\ s = PutOf(b) /\ s.on = {b}
                                               /\ \/ AtLast(t, b)
                                                  \/ \E c \in t.on : AtStart(t, b, c)
         /\ s.op = "take" => /\ t.kind = "remove" /\ AtFirst(t, "take")
                             /\ t.now = {s} /\ s.on = t.on
         /\ s.op = "touch" => /\ t.now = {s}
                              /\ \/ AtTime(t) /\ t.kind \in {"add", "remove", "leave"}
                                 \/ t.kind = "add" /\ \E b \in t.on : BeforeLast(t, b)
         /\ s.op = "destroy" => t.kind = "delete" /\ t.now = {s} /\ t.later = <<>>
<1>1. CASE t.kind = "edit" /\ AtRow(t) /\ t.type \in Types
  <2>1. s = Stmt("save", {}) /\ t.now = {s}
    BY <1>1 DEF AtRow
  <2> QED
    BY <1>1, <2>1, Statements
<1>2. CASE t.kind = "edit" /\ AtPeople(t)
  <2>1. s \in Each(t)
    BY <1>2 DEF AtPeople
  <2> QED
    BY <2>1, <1>2, EachIs
<1>3. CASE t.kind = "delete" /\ t.now = {Stmt("destroy", {})} /\ t.later = <<>>
  <2>1. s = Stmt("destroy", {}) /\ t.now = {s}
    BY <1>3
  <2> QED
    BY <1>3, <2>1, Statements
<1>4. CASE t.kind \in {"add", "remove", "leave"} /\ AtTime(t)
  <2>1. s = Stmt("touch", {}) /\ t.now = {s}
    BY <1>4 DEF AtTime, Touching
  <2> QED
    BY <1>4, <2>1, Statements
<1>5. CASE t.kind = "add" /\ \E b \in t.on : AtLast(t, b)
  <2>1. PICK b \in t.on : AtLast(t, b)
    BY <1>5
  <2>2. s = Stmt("put", {b}) /\ s = PutOf(b) /\ t.now = {s}
    BY <2>1 DEF AtLast, PutOf
  <2> QED
    <3>1. s.op = "put" /\ s.on = {b}
      BY <2>2, Statements
    <3> QED
      BY <1>5, <2>1, <2>2, <3>1
<1>6. CASE t.kind = "add" /\ \E b \in t.on : BeforeLast(t, b)
  <2>1. s = Stmt("touch", {}) /\ t.now = {s}
    BY <1>6 DEF BeforeLast, Touching
  <2> QED
    BY <1>6, <2>1, Statements
<1>7. CASE t.kind = "add" /\ \E a, b \in t.on : AtStart(t, a, b)
  <2>1. PICK a \in t.on, b \in t.on : AtStart(t, a, b)
    BY <1>7
  <2>2. s = Stmt("put", {a}) /\ s = PutOf(a) /\ t.now = {s}
    BY <2>1 DEF AtStart, PutOf
  <2> QED
    <3>1. s.op = "put" /\ s.on = {a}
      BY <2>2, Statements
    <3> QED
      BY <1>7, <2>1, <2>2, <3>1
<1>8. CASE t.kind = "remove" /\ AtFirst(t, "take")
  <2>1. s = Stmt("take", t.on) /\ t.now = {s}
    BY <1>8 DEF AtFirst
  <2> QED
    BY <1>8, <2>1, Statements
<1>9. CASE t.kind = "leave" /\ AtFirst(t, "leave")
  <2>1. s = Stmt("leave", t.on) /\ t.now = {s}
    BY <1>9 DEF AtFirst
  <2> QED
    BY <1>9, <2>1, Statements
<1> QED
  BY <1>1, <1>2, <1>3, <1>4, <1>5, <1>6, <1>7, <1>8, <1>9 DEF Shape

\* A row is no sentinel.
LEMMA Rows == Null \notin Row /\ Gone \notin Row /\ Null # Gone
BY SentinelAssumption DEF Row

LEMMA RunningOne ==
  ASSUME IInv, NEW w \in Workers, NEW s \in task[w].now, Running(w)
  PROVE  /\ task[w] \in Task /\ task[w].coll \in Ids /\ task[w].user \in Editors
         /\ Shape(task[w]) /\ s \in Statement
         /\ ~task[w].met => LET i == task[w].coll
                            IN Progress(task[w], row[i], items[i], collaborators[i])
<1>1. task[w] \in Task
  BY DEF IInv, TypeOK
<1>2. Shape(task[w]) /\ task[w].user \in Editors
  BY DEF IInv, Shapes
<1>3. task[w].coll \in Ids
  BY <1>2 DEF IInv, Shapes, Shape
<1>4. ~task[w].met => LET i == task[w].coll
                      IN Progress(task[w], row[i], items[i], collaborators[i])
  BY DEF IInv, Progresses
<1>5. s \in Statement
  BY <1>1, TaskFields
<1> QED
  BY <1>1, <1>2, <1>3, <1>4, <1>5

LEMMA IdleAnswer == Idle.answer = "ok" /\ Idle.kind = "none"
BY DEF Idle

\* Statements that leave the rows and the items alone.
LEMMA SameItems ==
  ASSUME IInv, NEW w \in Workers, UNCHANGED <<row, items, crossed>>,
         \A v \in Workers \ {w} : task'[v] = task[v],
         NEW r, NEW its, NEW people, Kept(task'[w], task[w], r, its, people)
  PROVE  NoItems' /\ ItemsOfType' /\ AddsOfType'
<1>1. NoItems' /\ ItemsOfType'
  BY DEF IInv, NoItems, ItemsOfType, Exists
<1>2. AddsOfType'
  <2> SUFFICES ASSUME NEW v \in Workers, task'[v].answer = "none", task'[v].kind = "add",
                      Exists(task'[v].coll), task'[v].coll \notin crossed,
                      NEW b \in task'[v].on
               PROVE  TypeOf[b] = row[task'[v].coll].type
    BY DEF AddsOfType, Running, Exists
  <2>1. /\ task'[v].coll = task[v].coll /\ task'[v].kind = task[v].kind
        /\ task'[v].on = task[v].on /\ Running(v)
    BY IdleAnswer DEF SameRequest, Running, Kept
  <2> QED
    BY <2>1 DEF IInv, AddsOfType
<1> QED
  BY <1>1, <1>2

----------------------------------------------------------------------------
(* Each statement.                                                         *)

LEMMA TouchKeeps ==
  ASSUME IInv, NEW w \in Workers, Running(w), NEW s \in Starting(w, "touch"), Touch(w, s),
         UNCHANGED <<page, requests>>
  PROVE  IInv'
<1> DEFINE t == task[w]
           n == task'[w]
           i == task[w].coll
           fails == ~Exists(task[w].coll)
<1>1. s \in t.now /\ s.op = "touch"
  BY DEF Starting
<1>2. /\ t \in Task /\ i \in Ids /\ Shape(t)
      /\ ~t.met => Progress(t, row[i], items[i], collaborators[i])
  BY <1>1, RunningOne
<1>3. t.later \in Seq(SUBSET Statement) /\ fails \in BOOLEAN /\ Finish(w, s, fails, t.later)
  BY <1>2, TaskFields DEF Touch
<1>4. /\ task' \in [Workers -> Task]
      /\ \A v \in Workers \ {w} : task'[v] = task[v]
      /\ Next1(t, n, fails, t.later, s)
  BY <1>1, <1>3, Finished DEF IInv
<1>5. /\ t.now = {s}
      /\ \/ AtTime(t) /\ t.kind \in {"add", "remove", "leave"}
         \/ t.kind = "add" /\ \E b \in t.on : BeforeLast(t, b)
  BY <1>1, <1>2, ByOp
<1>9. UNCHANGED <<row, items, collaborators, crossed>>
  BY DEF Touch, tables
<1>10. SUFFICES Kept(n, t, row[i], items[i], collaborators[i])
  <2>1. Shapes' /\ Progresses' /\ Outcomes' /\ Alone' /\ Unborn'
    BY <1>2, <1>4, <1>9, <1>10, StepKeeps
  <2>2. NoItems' /\ ItemsOfType' /\ AddsOfType'
    BY <1>4, <1>9, <1>10, SameItems
  <2>3. TypeOK'
    BY <1>4, <1>9 DEF IInv, TypeOK
  <2> QED
    BY <2>1, <2>2, <2>3 DEF IInv
<1>6. ~t.met => ~t.failed /\ ~fails
  <2>1. ~t.met => ~t.failed /\ row[i] \in Row
    BY <1>2, <1>5 DEF Progress
  <2> QED
    BY <2>1, Rows DEF Exists
<1>7. CASE AtTime(t) /\ t.kind \in {"add", "remove", "leave"}
  <2>1. t.later = <<>>
    BY <1>7 DEF AtTime
  <2>2. CASE t.met
    BY <1>4, <1>5, <2>1, <2>2 DEF Next1, Kept
  <2>3. CASE ~t.met
    <3>1. n.answer = "ok" /\ n.kind = t.kind /\ n.coll = t.coll /\ n.on = t.on
      BY <1>4, <1>5, <1>6, <2>1, <2>3 DEF Next1
    <3>2. /\ t.kind = "add" => t.on \subseteq items[i]
          /\ t.kind = "remove" => t.on \cap items[i] = {}
          /\ t.kind = "leave" => t.on \cap collaborators[i] = {}
      <4>1. \A b : ~AtLast(t, b) /\ ~BeforeLast(t, b)
        BY <1>7, Tuples DEF AtTime, AtLast, BeforeLast
      <4>2. ~AtFirst(t, "take") /\ ~AtFirst(t, "leave")
        BY <1>7, Tuples DEF AtTime, AtFirst
      <4>3. \A a, b : ~AtStart(t, a, b)
        BY <1>7, Tuples DEF AtTime, AtStart
      <4> QED
        BY <1>2, <1>7, <2>3, <4>1, <4>2, <4>3 DEF Progress
    <3>3. Outcome(n, row[i], items[i], collaborators[i])
      BY <1>7, <3>1, <3>2 DEF Outcome
    <3> QED
      BY <2>3, <3>1, <3>3 DEF Kept
  <2>4. Kept(n, t, row[i], items[i], collaborators[i])
    BY <2>2, <2>3
  <2> QED
    BY <2>4
<1>8. CASE t.kind = "add" /\ \E b \in t.on : BeforeLast(t, b)
  <2>1. PICK b \in t.on : BeforeLast(t, b)
    BY <1>8
  <2>2. /\ t.later # <<>> /\ Head(t.later) = {PutOf(b)} /\ Tail(t.later) = <<Touching>>
    BY <2>1, Tuples DEF BeforeLast
  <2>3. CASE n = Idle
    BY <2>3 DEF Kept
  <2>4. CASE n # Idle
    <3>1. SameRequest(n, t) /\ n.met = t.met /\ ~n.failed /\ AtLast(n, b)
      <4>1. t.met \/ (~t.failed /\ ~fails)
        BY <1>6
      <4> QED
        BY <1>4, <1>5, <2>2, <2>4, <4>1 DEF Next1, AtLast
    <3>2. Shape(n)
      BY <1>2, <1>8, <3>1 DEF Shape, SameRequest
    <3>3. ~AtRow(n)
      <4>1. PutOf(b) # Stmt("save", {})
        BY Statements
      <4> QED
        BY <3>1, <4>1 DEF AtLast, AtRow
    <3>4. ASSUME ~t.met
          PROVE  Progress(n, row[i], items[i], collaborators[i])
      <4>1. /\ row[i] \in Row /\ (t.user = row[i].owner \/ t.user \in collaborators[i])
        BY <1>2, <1>8, <3>4 DEF Progress
      <4>2. t.on \ {b} \subseteq items[i]
        <5>1. ~AtTime(t) /\ \A c, d : ~AtLast(t, c) /\ ~AtStart(t, c, d)
          BY <2>1, Tuples DEF BeforeLast, AtTime, AtLast, AtStart, Touching, PutOf, Stmt
        <5>2. PICK c \in t.on : BeforeLast(t, c) /\ t.on \ {c} \subseteq items[i]
          BY <1>2, <1>8, <3>4, <5>1 DEF Progress
        <5>3. c = b
          <6>1. {PutOf(c)} = {PutOf(b)}
            BY <2>1, <5>2, Tuples DEF BeforeLast
          <6> QED
            BY <6>1, PutsDiffer
        <5> QED
          BY <5>2, <5>3
      <4> QED
        BY <1>8, <2>1, <3>1, <4>1, <4>2 DEF Progress, SameRequest
    <3> QED
      BY <3>1, <3>2, <3>3, <3>4 DEF Kept
  <2> QED
    BY <2>3, <2>4
<1> QED
  BY <1>5, <1>7, <1>8

\* An add that is at its last item, and one that is at the first of two.
LEMMA AtOneItem ==
  ASSUME NEW t, NEW b, AtLast(t, b), t.kind = "add",
         NEW r, NEW its, NEW people, Progress(t, r, its, people)
  PROVE  t.on \ {b} \subseteq its
<1>1. /\ ~AtTime(t)
      /\ \A c, d : ~AtStart(t, c, d) /\ ~BeforeLast(t, d)
  BY Tuples DEF AtLast, AtTime, AtStart, BeforeLast
<1>2. PICK c \in t.on : AtLast(t, c) /\ t.on \ {c} \subseteq its
  BY <1>1 DEF Progress
<1>3. c = b
  BY <1>2, PutsDiffer DEF AtLast
<1> QED
  BY <1>2, <1>3

LEMMA AtTwoItems ==
  ASSUME NEW t, NEW a, NEW b, AtStart(t, a, b), t.kind = "add",
         NEW r, NEW its, NEW people, Progress(t, r, its, people)
  PROVE  t.on \ {a, b} \subseteq its
<1>1. /\ ~AtTime(t)
      /\ \A d : ~AtLast(t, d) /\ ~BeforeLast(t, d)
  BY Tuples DEF AtLast, AtTime, AtStart, BeforeLast
<1>2. PICK c \in t.on, d \in t.on : AtStart(t, c, d) /\ t.on \ {c, d} \subseteq its
  BY <1>1 DEF Progress
<1>3. {PutOf(a)} = {PutOf(c)} /\ {PutOf(b)} = {PutOf(d)}
  BY <1>2 DEF AtStart
<1>4. c = a /\ d = b
  BY <1>3, PutsDiffer
<1> QED
  BY <1>2, <1>4

\* What is being added stays of the type of a row that stays.
LEMMA AddsKept ==
  ASSUME IInv, NEW w \in Workers, UNCHANGED <<row, crossed>>,
         \A v \in Workers \ {w} : task'[v] = task[v],
         NEW r, NEW its, NEW people, Kept(task'[w], task[w], r, its, people)
  PROVE  AddsOfType'
<1> SUFFICES ASSUME NEW v \in Workers, task'[v].answer = "none", task'[v].kind = "add",
                    Exists(task'[v].coll), task'[v].coll \notin crossed,
                    NEW b \in task'[v].on
             PROVE  TypeOf[b] = row[task'[v].coll].type
  BY DEF AddsOfType, Running, Exists
<1>1. /\ task'[v].coll = task[v].coll /\ task'[v].kind = task[v].kind
      /\ task'[v].on = task[v].on /\ Running(v)
  BY IdleAnswer DEF SameRequest, Running, Kept
<1> QED
  BY <1>1 DEF IInv, AddsOfType

\* The next statement of an add is touch; here it is one on an item.
LEMMA PutKeeps ==
  ASSUME IInv, NEW w \in Workers, Running(w), NEW s \in Starting(w, "put"), Put(w, s),
         UNCHANGED <<page, requests>>
  PROVE  IInv'
<1> DEFINE t == task[w]
           n == task'[w]
           i == task[w].coll
<1>1. s \in t.now /\ s.op = "put"
  BY DEF Starting
<1>2. /\ t \in Task /\ i \in Ids /\ Shape(t)
      /\ ~t.met => Progress(t, row[i], items[i], collaborators[i])
  BY <1>1, RunningOne
<1>3. /\ t.later \in Seq(SUBSET Statement) /\ t.on \subseteq Editors \cup Entities
  BY <1>2, TaskFields
<1>4. t.kind = "add" /\ t.now = {s}
  BY <1>1, <1>2, ByOp
<1>5. PICK b \in t.on : /\ s = PutOf(b) /\ s.on = {b}
                        /\ AtLast(t, b) \/ \E c \in t.on : AtStart(t, b, c)
  BY <1>1, <1>2, ByOp
<1>6. /\ UNCHANGED <<row, collaborators, crossed>>
      /\ items' = items \/ (Exists(i) /\ items' = [items EXCEPT ![i] = items[i] \cup {b}])
  BY <1>5 DEF Put
\* What is left, with the item there or not.
<1>7. \E fails \in BOOLEAN, later \in {<<>>, Tail(t.later), t.later} :
        /\ Finish(w, s, fails, later)
        /\ fails \/ b \in items'[i]
        /\ fails => ~Exists(i)
        /\ ~fails => later \in {Tail(t.later), t.later}
  <2>0. items \in [Ids -> SUBSET Entities]
    BY DEF IInv, TypeOK
  <2>1. CASE ~Exists(i) /\ Finish(w, s, TRUE, <<>>)
    BY <2>1
  <2>2. CASE Exists(i) /\ s.on \subseteq items[i] /\ Finish(w, s, FALSE, AfterDuplicate(t.later)) /\ UNCHANGED items
    BY <2>2, <1>5 DEF AfterDuplicate
  <2>3. CASE /\ Exists(i) /\ items' = [items EXCEPT ![i] = items[i] \cup s.on]
             /\ Finish(w, s, FALSE, t.later)
    BY <2>0, <2>3, <1>2, <1>5
  <2> QED
    BY <2>1, <2>2, <2>3 DEF Put
<1>8. PICK fails \in BOOLEAN, later \in {<<>>, Tail(t.later), t.later} :
        /\ Finish(w, s, fails, later)
        /\ fails \/ b \in items'[i]
        /\ fails => ~Exists(i)
        /\ ~fails => later \in {Tail(t.later), t.later}
  BY <1>7
<1>9. t.later # <<>>
  BY <1>5, Tuples DEF AtLast, AtStart
<1>10. later \in Seq(SUBSET Statement)
  <2>1. Tail(t.later) \in Seq(SUBSET Statement) /\ <<>> \in Seq(SUBSET Statement)
    BY <1>3, <1>9
  <2> QED
    BY <2>1, <1>3, <1>8
<1>11. /\ task' \in [Workers -> Task]
       /\ \A v \in Workers \ {w} : task'[v] = task[v]
       /\ Next1(t, n, fails, later, s)
  BY <1>1, <1>8, <1>10, Finished DEF IInv
\* The type of the item, if the collection has it now.
<1>12. NoItems' /\ ItemsOfType' /\ TypeOK'
  <2>1. items \in [Ids -> SUBSET Entities]
    BY DEF IInv, TypeOK
  <2>2. CASE items' = items
    BY <2>2, <1>6, <1>11 DEF IInv, NoItems, ItemsOfType, Exists, TypeOK
  <2>3. CASE Exists(i) /\ items' = [items EXCEPT ![i] = items[i] \cup {b}]
    <3>1. i \notin crossed => TypeOf[b] = row[i].type
      BY <2>3, <1>4, <1>5 DEF IInv, AddsOfType
    <3>2. b \in Entities
      BY <1>2, <1>4, <1>5 DEF Shape
    <3>3. items' \in [Ids -> SUBSET Entities]
      BY <2>1, <2>3, <3>2
    <3>4. \A j \in Ids : items'[j] = IF j = i THEN items[i] \cup {b} ELSE items[j]
      BY <2>1, <2>3
    <3>5. NoItems'
      BY <2>3, <3>4, <1>6 DEF IInv, NoItems, Exists
    <3>6. ItemsOfType'
      BY <3>1, <3>4, <1>6 DEF IInv, ItemsOfType
    <3> QED
      BY <3>3, <3>5, <3>6, <1>6, <1>11 DEF IInv, TypeOK
  <2> QED
    BY <1>6, <2>2, <2>3
\* The request goes on with another item or the time, or is answered.
<1>13. \/ ~fails /\ t.later = <<Touching>> /\ later \in {<<>>, <<Touching>>} /\ AtLast(t, b)
       \/ ~fails /\ \E c \in t.on :
            /\ AtStart(t, b, c)
            /\ later \in {<<{PutOf(c)}, Touching>>, <<Touching, {PutOf(c)}, Touching>>}
       \/ fails
  <2>1. CASE AtLast(t, b) /\ ~fails
    <3>1. t.later = <<Touching>> /\ Tail(t.later) = <<>>
      BY <2>1, Tuples DEF AtLast
    <3> QED
      BY <2>1, <3>1, <1>8
  <2>2. CASE ~fails /\ \E c \in t.on : AtStart(t, b, c)
    <3>1. PICK c \in t.on : AtStart(t, b, c)
      BY <2>2
    <3>2. /\ t.later = <<Touching, {PutOf(c)}, Touching>>
          /\ Tail(t.later) = <<{PutOf(c)}, Touching>>
      BY <3>1, Tuples DEF AtStart
    <3>3. later \in {<<{PutOf(c)}, Touching>>, <<Touching, {PutOf(c)}, Touching>>}
      BY <2>2, <3>2, <1>8
    <3> QED
      BY <2>2, <3>1, <3>3
  <2> QED
    BY <2>1, <2>2, <1>5
<1>14. items[i] \subseteq items'[i] /\ (~fails => b \in items'[i])
  <2>1. items \in [Ids -> SUBSET Entities]
    BY DEF IInv, TypeOK
  <2> QED
    BY <2>1, <1>2, <1>6, <1>8
<1>15. ASSUME ~t.met
       PROVE  /\ ~t.failed /\ ~fails /\ row[i] \in Row
              /\ t.user = row[i].owner \/ t.user \in collaborators[i]
  BY <1>2, <1>4, <1>8, <1>15, Rows DEF Progress, Exists
<1>16. Kept(n, t, row[i], items'[i], collaborators[i])
  <2>1. CASE n = Idle
    BY <2>1 DEF Kept
  <2>2. CASE n # Idle /\ ~fails /\ AtLast(t, b) /\ later = <<>>
    <3>1. ~t.met /\ n.answer = "ok" /\ n.kind = t.kind /\ n.coll = t.coll /\ n.on = t.on
      BY <2>2, <1>4, <1>11, <1>15 DEF Next1
    <3>2. t.on \ {b} \subseteq items[i]
      BY <3>1, <2>2, <1>2, <1>4, AtOneItem
    <3>3. Outcome(n, row[i], items'[i], collaborators[i])
      BY <3>1, <3>2, <2>2, <1>4, <1>14 DEF Outcome
    <3> QED
      BY <3>1, <3>3 DEF Kept
  <2>3. CASE n # Idle /\ ~fails /\ AtLast(t, b) /\ later = <<Touching>>
    <3>1. SameRequest(n, t) /\ n.met = t.met /\ ~n.failed /\ AtTime(n)
      BY <2>3, <1>4, <1>11, <1>15, Tuples DEF Next1, AtTime
    <3>2. Shape(n)
      BY <3>1, <1>2, <1>4 DEF Shape, SameRequest
    <3>3. ~AtRow(n)
      <4>1. Stmt("touch", {}) # Stmt("save", {})
        BY Statements
      <4> QED
        BY <3>1, <4>1 DEF AtTime, Touching, AtRow
    <3>4. ~t.met => t.on \ {b} \subseteq items[i]
      BY <2>3, <1>2, <1>4, AtOneItem
    <3>5. ~t.met => Progress(n, row[i], items'[i], collaborators[i])
      BY <3>1, <3>4, <2>3, <1>4, <1>14, <1>15 DEF Progress, SameRequest
    <3> QED
      BY <3>1, <3>2, <3>3, <3>5 DEF Kept
  <2>4. CASE n # Idle /\ ~fails /\ \E c \in t.on :
               /\ AtStart(t, b, c)
               /\ later \in {<<{PutOf(c)}, Touching>>, <<Touching, {PutOf(c)}, Touching>>}
    <3>1. PICK c \in t.on :
            /\ AtStart(t, b, c)
            /\ later \in {<<{PutOf(c)}, Touching>>, <<Touching, {PutOf(c)}, Touching>>}
      BY <2>4
    <3>2. /\ SameRequest(n, t) /\ n.met = t.met /\ ~n.failed
          /\ AtLast(n, c) \/ BeforeLast(n, c)
      <4>0. later # <<>>
        BY <3>1, Tuples
      <4>1. SameRequest(n, t) /\ n.met = t.met /\ ~n.failed
            /\ n.now = Head(later) /\ n.later = Tail(later)
        BY <2>4, <4>0, <1>4, <1>11, <1>15 DEF Next1
      <4>2. CASE later = <<{PutOf(c)}, Touching>>
        BY <4>1, <4>2, Tuples DEF AtLast
      <4>3. CASE later = <<Touching, {PutOf(c)}, Touching>>
        BY <4>1, <4>3, Tuples DEF BeforeLast
      <4> QED
        BY <3>1, <4>1, <4>2, <4>3
    <3>3. Shape(n)
      BY <3>2, <1>2, <1>4 DEF Shape, SameRequest
    <3>4. ~AtRow(n)
      <4>1. Stmt("touch", {}) # Stmt("save", {}) /\ PutOf(c) # Stmt("save", {})
        BY Statements
      <4> QED
        BY <3>2, <4>1 DEF AtLast, BeforeLast, Touching, AtRow
    <3>5. ~t.met => t.on \ {b, c} \subseteq items[i]
      BY <3>1, <1>2, <1>4, AtTwoItems
    <3>6. ~t.met => Progress(n, row[i], items'[i], collaborators[i])
      BY <3>2, <3>5, <1>4, <1>14, <1>15 DEF Progress, SameRequest
    <3> QED
      BY <3>2, <3>3, <3>4, <3>6 DEF Kept
  <2>5. CASE n # Idle /\ fails
    BY <2>5, <1>4, <1>11, <1>15 DEF Next1
  <2> QED
    BY <2>1, <2>2, <2>3, <2>4, <2>5, <1>13
<1>17. Shapes' /\ Progresses' /\ Outcomes' /\ Alone' /\ Unborn'
  <2>1. \A j \in Ids \ {i} : items'[j] = items[j]
    <3>1. items \in [Ids -> SUBSET Entities]
      BY DEF IInv, TypeOK
    <3> QED
      BY <3>1, <1>6
  <2> QED
    BY <2>1, <1>2, <1>6, <1>11, <1>16, StepKeeps
<1>18. AddsOfType'
  BY <1>6, <1>11, <1>16, AddsKept
<1> QED
  BY <1>12, <1>17, <1>18 DEF IInv

LEMMA TakeKeeps ==
  ASSUME IInv, NEW w \in Workers, Running(w), NEW s \in Starting(w, "take"), Take(w, s),
         UNCHANGED <<page, requests>>
  PROVE  IInv'
<1> DEFINE t == task[w]
           n == task'[w]
           i == task[w].coll
           fails == items[i] \cap s.on = {}
<1>1. s \in t.now /\ s.op = "take"
  BY DEF Starting
<1>2. /\ t \in Task /\ i \in Ids /\ Shape(t)
      /\ ~t.met => Progress(t, row[i], items[i], collaborators[i])
  BY <1>1, RunningOne
<1>3. t.later \in Seq(SUBSET Statement) /\ fails \in BOOLEAN /\ Finish(w, s, fails, t.later)
  BY <1>2, TaskFields DEF Take
<1>4. /\ task' \in [Workers -> Task]
      /\ \A v \in Workers \ {w} : task'[v] = task[v]
      /\ Next1(t, n, fails, t.later, s)
  BY <1>1, <1>3, Finished DEF IInv
<1>5. t.kind = "remove" /\ AtFirst(t, "take") /\ t.now = {s} /\ s.on = t.on
  BY <1>1, <1>2, ByOp
<1>6. /\ UNCHANGED <<row, collaborators, crossed>>
      /\ items \in [Ids -> SUBSET Entities] /\ items' = [items EXCEPT ![i] = items[i] \ t.on]
  BY <1>5 DEF Take, IInv, TypeOK
<1>7. /\ items' \in [Ids -> SUBSET Entities]
      /\ \A j \in Ids : items'[j] = IF j = i THEN items[i] \ t.on ELSE items[j]
  BY <1>6
<1>8. NoItems' /\ ItemsOfType' /\ TypeOK'
  <2>1. \A j \in Ids : items'[j] \subseteq items[j]
    BY <1>7
  <2>2. NoItems'
    BY <2>1, <1>6 DEF IInv, NoItems, Exists
  <2>3. ItemsOfType'
    BY <2>1, <1>6 DEF IInv, ItemsOfType
  <2> QED
    BY <2>2, <2>3, <1>4, <1>6, <1>7 DEF IInv, TypeOK
<1>9. t.later = <<Touching>>
  BY <1>5 DEF AtFirst
<1>10. ASSUME ~t.met
       PROVE  /\ ~t.failed /\ ~fails /\ row[i] \in Row
              /\ t.user = row[i].owner \/ t.user \in collaborators[i]
  <2>1. ~AtTime(t)
    BY <1>9, Tuples DEF AtTime
  <2> QED
    BY <2>1, <1>2, <1>5, <1>10 DEF Progress
<1>11. Kept(n, t, row[i], items'[i], collaborators[i])
  <2>1. CASE n = Idle
    BY <2>1 DEF Kept
  <2>2. CASE n # Idle
    <3>1. SameRequest(n, t) /\ n.met = t.met /\ ~n.failed /\ AtTime(n)
      BY <2>2, <1>4, <1>5, <1>9, <1>10, Tuples DEF Next1, AtTime
    <3>2. Shape(n)
      BY <3>1, <1>5 DEF Shape, SameRequest
    <3>3. ~AtRow(n)
      <4>1. Stmt("touch", {}) # Stmt("save", {})
        BY Statements
      <4> QED
        BY <3>1, <4>1 DEF AtTime, Touching, AtRow
    <3>4. t.on \cap items'[i] = {}
      BY <1>2, <1>7
    <3>5. ~t.met => Progress(n, row[i], items'[i], collaborators[i])
      BY <3>1, <3>4, <1>5, <1>10 DEF Progress, SameRequest
    <3> QED
      BY <3>1, <3>2, <3>3, <3>5 DEF Kept
  <2> QED
    BY <2>1, <2>2
<1>12. Shapes' /\ Progresses' /\ Outcomes' /\ Alone' /\ Unborn'
  BY <1>2, <1>4, <1>6, <1>7, <1>11, StepKeeps
<1>13. AddsOfType'
  BY <1>4, <1>6, <1>11, AddsKept
<1> QED
  BY <1>8, <1>12, <1>13 DEF IInv

LEMMA DestroyKeeps ==
  ASSUME IInv, NEW w \in Workers, Running(w), NEW s \in Starting(w, "destroy"), Destroy(w, s),
         UNCHANGED <<page, requests>>
  PROVE  IInv'
<1> DEFINE t == task[w]
           n == task'[w]
           i == task[w].coll
           fails == ~Exists(i)
<1>1. s \in t.now /\ s.op = "destroy"
  BY DEF Starting
<1>2. /\ t \in Task /\ i \in Ids /\ Shape(t)
      /\ ~t.met => Progress(t, row[i], items[i], collaborators[i])
  BY <1>1, RunningOne
<1>3. t.later \in Seq(SUBSET Statement) /\ fails \in BOOLEAN /\ Finish(w, s, fails, t.later)
  BY <1>2, TaskFields DEF Destroy
<1>4. /\ task' \in [Workers -> Task]
      /\ \A v \in Workers \ {w} : task'[v] = task[v]
      /\ Next1(t, n, fails, t.later, s)
  BY <1>1, <1>3, Finished DEF IInv
<1>5. t.kind = "delete" /\ t.now = {s} /\ t.later = <<>>
  BY <1>1, <1>2, ByOp
<1>6. /\ row \in [Ids -> Row \cup {Null, Gone}] /\ items \in [Ids -> SUBSET Entities]
      /\ collaborators \in [Ids -> SUBSET Editors]
      /\ row' = [row EXCEPT ![i] = Gone] /\ items' = [items EXCEPT ![i] = {}]
      /\ collaborators' = [collaborators EXCEPT ![i] = {}] /\ crossed' = crossed
  BY DEF Destroy, IInv, TypeOK
<1>7. /\ row' \in [Ids -> Row \cup {Null, Gone}] /\ items' \in [Ids -> SUBSET Entities]
      /\ collaborators' \in [Ids -> SUBSET Editors]
      /\ row'[i] = Gone /\ items'[i] = {} /\ collaborators'[i] = {}
      /\ \A j \in Ids \ {i} : row'[j] = row[j] /\ items'[j] = items[j]
                              /\ collaborators'[j] = collaborators[j]
  BY <1>2, <1>6
<1>8. NoItems' /\ ItemsOfType' /\ TypeOK'
  <2>1. NoItems'
    BY <1>7 DEF IInv, NoItems, Exists
  <2>2. ItemsOfType'
    BY <1>6, <1>7 DEF IInv, ItemsOfType
  <2> QED
    BY <2>1, <2>2, <1>4, <1>6, <1>7 DEF IInv, TypeOK
<1>9. ~t.met => ~t.failed /\ ~fails
  BY <1>2, <1>5, Rows DEF Progress, Exists
<1>10. Kept(n, t, row'[i], items'[i], collaborators'[i])
  <2>1. CASE n = Idle
    BY <2>1 DEF Kept
  <2>2. CASE n # Idle
    <3>1. ~t.met /\ n.answer = "ok" /\ n.kind = "delete" /\ n.coll = t.coll
      BY <2>2, <1>4, <1>5, <1>9 DEF Next1
    <3> QED
      BY <3>1, <1>5, <1>7 DEF Kept, Outcome
  <2> QED
    BY <2>1, <2>2
<1>11. Shapes' /\ Progresses' /\ Outcomes' /\ Alone' /\ Unborn'
  BY <1>2, <1>4, <1>7, <1>10, StepKeeps
<1>12. AddsOfType'
  <2> SUFFICES ASSUME NEW v \in Workers, task'[v].answer = "none", task'[v].kind = "add",
                      row'[task'[v].coll] \notin {Null, Gone}, task'[v].coll \notin crossed,
                      NEW b \in task'[v].on
               PROVE  TypeOf[b] = row'[task'[v].coll].type
    BY <1>6 DEF AddsOfType, Running, Exists
  <2>1. /\ task'[v].coll = task[v].coll /\ task'[v].kind = task[v].kind
        /\ task'[v].on = task[v].on /\ Running(v)
    BY <1>4, <1>10, IdleAnswer DEF SameRequest, Running, Kept
  <2>2. task[v].coll \in Ids
    BY <2>1 DEF IInv, Shapes
  <2>3. task[v].coll # i
    BY <2>1, <1>7
  <2> QED
    BY <2>1, <2>2, <2>3, <1>7 DEF IInv, AddsOfType, Exists
<1> QED
  BY <1>8, <1>11, <1>12 DEF IInv

\* A form when its last statement has run, and a statement of a form.
LEMMA PeopleAtLast ==
  ASSUME NEW t \in Task, NEW people \in SUBSET Editors, PeopleSoFar(t, {}, people),
         t.others \subseteq t.people
  PROVE  people = t.people
<1>1. t.people \subseteq Editors /\ t.others \subseteq Editors /\ t.loaded.people \subseteq Editors
  BY TaskFields
<1> SUFFICES ASSUME NEW x \in Editors
             PROVE  x \in people <=> x \in t.people
  BY <1>1
<1>2. x \in people <=> x \in Joins(t) \/ (x \notin Leaves(t) /\ x \in t.loaded.people)
  BY DEF PeopleSoFar
<1>3. t.others \cap (t.people \ t.others) = {}
  OBVIOUS
<1> QED
  BY <1>2 DEF Joins, Leaves, Joining, Leaving

LEMMA OneEach ==
  /\ \A x, y : JoinOf(x) = JoinOf(y) => x = y
  /\ \A x, y : LeaveOf(x) = LeaveOf(y) => x = y
  /\ \A x, y : JoinOf(x) # LeaveOf(y)
<1>1. ASSUME NEW x, NEW y, JoinOf(x) = JoinOf(y)
      PROVE  x = y
  <2>1. JoinOf(x).on = {x} /\ JoinOf(y).on = {y}
    BY Statements
  <2>2. {x} = {y}
    BY <1>1, <2>1
  <2> QED
    BY <2>2
<1>2. ASSUME NEW x, NEW y, LeaveOf(x) = LeaveOf(y)
      PROVE  x = y
  <2>1. LeaveOf(x).on = {x} /\ LeaveOf(y).on = {y}
    BY Statements
  <2>2. {x} = {y}
    BY <1>2, <2>1
  <2> QED
    BY <2>2
<1>3. ASSUME NEW x, NEW y
      PROVE  JoinOf(x) # LeaveOf(y)
  <2>1. JoinOf(x).op = "join" /\ LeaveOf(y).op = "leave"
    BY Statements
  <2> QED
    BY <2>1
<1> QED
  BY <1>1, <1>2, <1>3

LEMMA JoinStep ==
  ASSUME NEW t \in Task, t.now \subseteq Each(t), NEW people \in SUBSET Editors,
         PeopleSoFar(t, t.now, people), NEW x \in Joins(t), JoinOf(x) \in t.now
  PROVE  /\ x \in people => Relabelled(t)
         /\ x \notin people => PeopleSoFar(t, t.now \ {JoinOf(x)}, people \cup {x})
<1>0. x \in Editors
  BY TaskFields DEF Joins, Joining
<1>1. x \in people <=> x \in Leaves(t) /\ LeaveOf(x) \in t.now
  BY <1>0 DEF PeopleSoFar
<1>2. x \in people => Relabelled(t)
  BY <1>1 DEF Joins, Joining, Leaves, Leaving, Relabelled
<1>3. ASSUME x \notin people
      PROVE  PeopleSoFar(t, t.now \ {JoinOf(x)}, people \cup {x})
  <2> SUFFICES ASSUME NEW y \in Editors
               PROVE  IF y \in Joins(t)
                      THEN IF JoinOf(y) \in t.now \ {JoinOf(x)}
                           THEN y \in people \cup {x} <=>
                                  y \in Leaves(t) /\ LeaveOf(y) \in t.now \ {JoinOf(x)}
                           ELSE y \in people \cup {x} /\ LeaveOf(y) \notin t.now \ {JoinOf(x)}
                      ELSE IF y \in Leaves(t)
                           THEN y \in people \cup {x} <=> LeaveOf(y) \in t.now \ {JoinOf(x)}
                           ELSE y \in people \cup {x} <=> y \in t.loaded.people
    BY DEF PeopleSoFar
  <2>1. LeaveOf(x) \in t.now => x \in Leaves(t)
    <3> SUFFICES ASSUME LeaveOf(x) \in Each(t)
                 PROVE  x \in Leaves(t)
      OBVIOUS
    <3>1. PICK z \in Leaves(t) : LeaveOf(x) = LeaveOf(z)
      BY OneEach DEF Each
    <3> QED
      BY <3>1, OneEach
  <2>2. CASE y = x
    BY <2>1, <2>2, <1>1, <1>3
  <2>3. CASE y # x
    BY <2>3, OneEach DEF PeopleSoFar
  <2> QED
    BY <2>2, <2>3
<1> QED
  BY <1>2, <1>3

LEMMA LeaveStep ==
  ASSUME NEW t \in Task, NEW people \in SUBSET Editors,
         PeopleSoFar(t, t.now, people), NEW x \in Leaves(t), LeaveOf(x) \in t.now
  PROVE  /\ x \in people
         /\ PeopleSoFar(t, t.now \ {LeaveOf(x)}, people \ {x})
<1>0. x \in Editors
  BY TaskFields DEF Leaves, Leaving
<1>1. x \in people /\ (x \in Joins(t) => JoinOf(x) \in t.now)
  BY <1>0 DEF PeopleSoFar
<1>2. PeopleSoFar(t, t.now \ {LeaveOf(x)}, people \ {x})
  <2> SUFFICES ASSUME NEW y \in Editors
               PROVE  IF y \in Joins(t)
                      THEN IF JoinOf(y) \in t.now \ {LeaveOf(x)}
                           THEN y \in people \ {x} <=>
                                  y \in Leaves(t) /\ LeaveOf(y) \in t.now \ {LeaveOf(x)}
                           ELSE y \in people \ {x} /\ LeaveOf(y) \notin t.now \ {LeaveOf(x)}
                      ELSE IF y \in Leaves(t)
                           THEN y \in people \ {x} <=> LeaveOf(y) \in t.now \ {LeaveOf(x)}
                           ELSE y \in people \ {x} <=> y \in t.loaded.people
    BY DEF PeopleSoFar
  <2>1. CASE y = x
    BY <2>1, <1>1, OneEach
  <2>2. CASE y # x
    BY <2>2, OneEach DEF PeopleSoFar
  <2> QED
    BY <2>1, <2>2
<1> QED
  BY <1>1, <1>2

\* A statement of a form on one of its people, which leaves the collaborators
\* that are so.
LEMMA PeopleStep ==
  ASSUME NEW t \in Task, Shape(t), t.kind = "edit", AtPeople(t), NEW s \in t.now, NEW n, NEW r, NEW its,
         NEW fails \in BOOLEAN, Next1(t, n, fails, t.later, s),
         NEW so \in SUBSET Editors,
         ~t.met => /\ r = [owner |-> t.user, type |-> t.type]
                   /\ t.failed => Relabelled(t)
                   /\ ~t.failed => IF fails THEN Relabelled(t)
                                   ELSE PeopleSoFar(t, t.now \ {s}, so)
  PROVE  Kept(n, t, r, its, so)
<1>1. t.later = <<>> /\ t.now \subseteq Each(t)
  BY DEF AtPeople
<1>2. CASE n = Idle
  BY <1>2 DEF Kept
<1>3. CASE n # Idle /\ t.now = {s}
  <2>1. /\ ~t.met /\ n.kind = t.kind /\ n.coll = t.coll /\ n.type = t.type
        /\ n.people = t.people /\ n.others = t.others
        /\ \/ n.answer = "ok" /\ ~t.failed /\ ~fails
           \/ n.answer = "error" /\ (t.failed \/ fails) /\ n.loaded = t.loaded
    BY <1>1, <1>3 DEF Next1
  <2>2. CASE n.answer = "ok"
    <3>1. PeopleSoFar(t, {}, so)
      <4>1. t.now \ {s} = {}
        BY <1>3
      <4> QED
        BY <2>1, <2>2, <4>1
    <3>2. so = t.people
      BY <3>1, PeopleAtLast DEF Shape
    <3>3. r.type = t.type
      BY <2>1
    <3> QED
      BY <2>1, <2>2, <3>2, <3>3 DEF Kept, Outcome
  <2>3. CASE n.answer = "error"
    <3>1. Relabelled(n)
      BY <2>1, <2>3 DEF Relabelled
    <3> QED
      BY <2>1, <2>3, <3>1 DEF Kept, Outcome
  <2> QED
    BY <2>1, <2>2, <2>3
<1>4. CASE n # Idle /\ t.now # {s}
  <2>1. /\ SameRequest(n, t) /\ n.met = t.met /\ n.now = t.now \ {s} /\ n.later = t.later
        /\ n.failed <=> t.failed \/ fails
    BY <1>4 DEF Next1
  <2>2. Joins(n) = Joins(t) /\ Leaves(n) = Leaves(t) /\ Each(n) = Each(t)
        /\ Relabelled(n) = Relabelled(t)
    BY <2>1, SameEach
  <2>3. AtPeople(n)
    BY <2>1, <2>2, <1>1 DEF AtPeople
  <2>4. t.type \in Types
    BY DEF Shape
  <2>5. Shape(n)
    BY <2>1, <2>3, <2>4 DEF Shape, SameRequest
  <2>6. ~AtRow(n)
    <3>1. Stmt("save", {}) \notin Each(t)
      <4>1. Stmt("save", {}).op = "save"
        BY Statements
      <4> QED
        BY <4>1, EachIs
    <3> QED
      BY <3>1, <2>1, <1>1 DEF AtRow
  <2>7. ~t.met /\ ~n.failed => PeopleSoFar(n, n.now, so)
    <3>1. n.loaded = t.loaded
      BY <2>1 DEF SameRequest
    <3> QED
      BY <2>1, <2>2, <3>1 DEF PeopleSoFar
  <2>8. ~t.met => Progress(n, r, its, so)
    BY <2>1, <2>2, <2>3, <2>7 DEF Progress, EditProgress, SameRequest
  <2> QED
    BY <2>1, <2>5, <2>6, <2>8 DEF Kept
<1> QED
  BY <1>2, <1>3, <1>4

\* A request that met no other one removes someone, alone or with others.
LEMMA LeaveKeeps ==
  ASSUME IInv, NEW w \in Workers, Running(w), NEW s \in Starting(w, "leave"), Leave(w, s),
         UNCHANGED <<page, requests>>
  PROVE  IInv'
<1> DEFINE t == task[w]
           n == task'[w]
           i == task[w].coll
           fails == collaborators[i] \cap s.on = {}
<1>1. s \in t.now /\ s.op = "leave"
  BY DEF Starting
<1>2. /\ t \in Task /\ i \in Ids /\ Shape(t)
      /\ ~t.met => Progress(t, row[i], items[i], collaborators[i])
  BY <1>1, RunningOne
<1>3. t.later \in Seq(SUBSET Statement) /\ fails \in BOOLEAN /\ Finish(w, s, fails, t.later)
  BY <1>2, TaskFields DEF Leave
<1>4. /\ task' \in [Workers -> Task]
      /\ \A v \in Workers \ {w} : task'[v] = task[v]
      /\ Next1(t, n, fails, t.later, s)
  BY <1>1, <1>3, Finished DEF IInv
<1>5. /\ UNCHANGED <<row, items, crossed>>
      /\ collaborators \in [Ids -> SUBSET Editors]
      /\ collaborators' = [collaborators EXCEPT ![i] = collaborators[i] \ s.on]
  BY DEF Leave, IInv, TypeOK
<1>6. /\ collaborators' \in [Ids -> SUBSET Editors]
      /\ collaborators'[i] = collaborators[i] \ s.on
      /\ \A j \in Ids \ {i} : collaborators'[j] = collaborators[j]
  BY <1>2, <1>5
<1>7. SUFFICES Kept(n, t, row[i], items[i], collaborators'[i])
  <2>1. Shapes' /\ Progresses' /\ Outcomes' /\ Alone' /\ Unborn'
    BY <1>2, <1>4, <1>5, <1>6, <1>7, StepKeeps
  <2>2. NoItems' /\ ItemsOfType' /\ AddsOfType'
    BY <1>4, <1>5, <1>7, SameItems
  <2>3. TypeOK'
    BY <1>4, <1>5, <1>6 DEF IInv, TypeOK
  <2> QED
    BY <2>1, <2>2, <2>3 DEF IInv
<1>8. CASE n = Idle
  BY <1>8 DEF Kept
<1>9. CASE n # Idle /\ t.kind = "leave"
  <2>1. AtFirst(t, "leave") /\ t.now = {s} /\ s.on = t.on
    BY <1>1, <1>2, <1>9, ByOp
  <2>2. t.later = <<Touching>> /\ ~AtTime(t)
    BY <2>1, Tuples DEF AtFirst, AtTime
  <2>3. ~t.met => ~t.failed /\ ~fails /\ row[i] \in Row
    BY <2>1, <2>2, <1>2, <1>9 DEF Progress
  <2>4. SameRequest(n, t) /\ n.met = t.met /\ ~n.failed /\ AtTime(n)
    BY <2>1, <2>2, <2>3, <1>4, <1>9, Tuples DEF Next1, AtTime
  <2>5. Shape(n)
    BY <2>4, <1>9 DEF Shape, SameRequest
  <2>6. ~AtRow(n)
    <3>1. Stmt("touch", {}) # Stmt("save", {})
      BY Statements
    <3> QED
      BY <2>4, <3>1 DEF AtTime, Touching, AtRow
  <2>7. t.on \cap collaborators'[i] = {}
    BY <2>1, <1>6
  <2>8. ~t.met => Progress(n, row[i], items[i], collaborators'[i])
    BY <2>3, <2>4, <2>7, <1>9 DEF Progress, SameRequest
  <2> QED
    BY <2>4, <2>5, <2>6, <2>8 DEF Kept
<1>10. CASE n # Idle /\ t.kind # "leave"
  <2>1. PICK x \in Leaves(t) : s = LeaveOf(x) /\ s.on = {x}
    BY <1>1, <1>2, <1>10, ByOp
  <2>2. t.kind = "edit" /\ AtPeople(t)
    BY <1>1, <1>2, <1>10, ByOp
  <2>3. collaborators[i] \in SUBSET Editors /\ collaborators'[i] \in SUBSET Editors
    BY <1>2, <1>5, <1>6
  <2>4. ASSUME ~t.met
        PROVE  /\ row[i] = [owner |-> t.user, type |-> t.type]
               /\ t.failed => Relabelled(t)
               /\ ~t.failed => PeopleSoFar(t, t.now, collaborators[i])
    <3>1. ~AtRow(t)
      BY <1>1, Statements DEF AtRow
    <3> QED
      BY <3>1, <2>2, <2>4, <1>2 DEF Progress, EditProgress
  <2>5. ASSUME ~t.met, ~t.failed
        PROVE  ~fails /\ PeopleSoFar(t, t.now \ {s}, collaborators'[i])
    <3>1. x \in collaborators[i] /\ PeopleSoFar(t, t.now \ {s}, collaborators[i] \ {x})
      BY ZenonT(40), <1>1, <1>2, <2>1, <2>3, <2>4, <2>5, LeaveStep
    <3> QED
      BY <3>1, <2>1, <1>6
  <2> QED
    BY <1>1, <1>2, <1>3, <1>4, <2>2, <2>3, <2>4, <2>5, PeopleStep
<1> QED
  BY <1>8, <1>9, <1>10

LEMMA JoinKeeps ==
  ASSUME IInv, NEW w \in Workers, Running(w), NEW s \in Starting(w, "join"), Join(w, s),
         UNCHANGED <<page, requests>>
  PROVE  IInv'
<1> DEFINE t == task[w]
           n == task'[w]
           i == task[w].coll
           fails == ~Exists(i) \/ s.on \subseteq collaborators[i]
<1>1. s \in t.now /\ s.op = "join"
  BY DEF Starting
<1>2. /\ t \in Task /\ i \in Ids /\ Shape(t)
      /\ ~t.met => Progress(t, row[i], items[i], collaborators[i])
  BY <1>1, RunningOne
<1>3. t.later \in Seq(SUBSET Statement) /\ fails \in BOOLEAN /\ Finish(w, s, fails, t.later)
  BY <1>2, TaskFields DEF Join
<1>4. /\ task' \in [Workers -> Task]
      /\ \A v \in Workers \ {w} : task'[v] = task[v]
      /\ Next1(t, n, fails, t.later, s)
  BY <1>1, <1>3, Finished DEF IInv
<1>5. t.kind = "edit" /\ AtPeople(t) /\ \E x \in Joins(t) : s = JoinOf(x) /\ s.on = {x}
  BY <1>1, <1>2, ByOp
<1>6. PICK x \in Joins(t) : s = JoinOf(x) /\ s.on = {x}
  BY <1>5
<1>7. x \in Editors
  BY <1>2, TaskFields DEF Joins, Joining
<1>8. /\ UNCHANGED <<row, items, crossed>>
      /\ collaborators \in [Ids -> SUBSET Editors]
      /\ collaborators' = IF fails THEN collaborators
                          ELSE [collaborators EXCEPT ![i] = collaborators[i] \cup {x}]
  BY <1>6 DEF Join, IInv, TypeOK
<1>9. /\ collaborators' \in [Ids -> SUBSET Editors]
      /\ collaborators'[i] = IF fails THEN collaborators[i] ELSE collaborators[i] \cup {x}
      /\ \A j \in Ids \ {i} : collaborators'[j] = collaborators[j]
  BY <1>2, <1>7, <1>8
<1>10. SUFFICES Kept(n, t, row[i], items[i], collaborators'[i])
  <2>1. Shapes' /\ Progresses' /\ Outcomes' /\ Alone' /\ Unborn'
    BY <1>2, <1>4, <1>8, <1>9, <1>10, StepKeeps
  <2>2. NoItems' /\ ItemsOfType' /\ AddsOfType'
    BY <1>4, <1>8, <1>10, SameItems
  <2>3. TypeOK'
    BY <1>4, <1>8, <1>9 DEF IInv, TypeOK
  <2> QED
    BY <2>1, <2>2, <2>3 DEF IInv
<1>11. collaborators[i] \in SUBSET Editors /\ collaborators'[i] \in SUBSET Editors
  BY <1>2, <1>8, <1>9
<1>12. ASSUME ~t.met
       PROVE  /\ row[i] = [owner |-> t.user, type |-> t.type] /\ row[i] \in Row
              /\ t.failed => Relabelled(t)
              /\ ~t.failed => PeopleSoFar(t, t.now, collaborators[i])
  <2>1. ~AtRow(t)
    BY <1>1, Statements DEF AtRow
  <2>2. row[i] = [owner |-> t.user, type |-> t.type]
        /\ (t.failed => Relabelled(t))
        /\ (~t.failed => PeopleSoFar(t, t.now, collaborators[i]))
    BY <2>1, <1>2, <1>5, <1>12 DEF Progress, EditProgress
  <2>3. t.user \in Editors /\ t.type \in Types
    BY <1>1, <1>2, <1>5, RunningOne DEF Shape
  <2> QED
    BY <2>2, <2>3 DEF Row
<1>13. ASSUME ~t.met, ~t.failed
       PROVE  IF fails THEN Relabelled(t) ELSE PeopleSoFar(t, t.now \ {s}, collaborators'[i])
  <2>1. /\ x \in collaborators[i] => Relabelled(t)
        /\ x \notin collaborators[i] => PeopleSoFar(t, t.now \ {s}, collaborators[i] \cup {x})
    BY <1>1, <1>2, <1>5, <1>6, <1>11, <1>12, <1>13, JoinStep DEF AtPeople
  <2>2. Exists(i)
    BY <1>12, <1>13, Rows DEF Exists
  <2> QED
    BY <2>1, <2>2, <1>6, <1>9
<1> QED
  BY <1>1, <1>2, <1>3, <1>4, <1>5, <1>11, <1>12, <1>13, PeopleStep

LEMMA PeopleAtFirst ==
  ASSUME NEW t \in Task
  PROVE  PeopleSoFar(t, Each(t), t.loaded.people)
<1> SUFFICES ASSUME NEW x \in Editors
             PROVE  IF x \in Joins(t)
                    THEN IF JoinOf(x) \in Each(t)
                         THEN x \in t.loaded.people <=> x \in Leaves(t) /\ LeaveOf(x) \in Each(t)
                         ELSE x \in t.loaded.people /\ LeaveOf(x) \notin Each(t)
                    ELSE IF x \in Leaves(t)
                         THEN x \in t.loaded.people <=> LeaveOf(x) \in Each(t)
                         ELSE x \in t.loaded.people <=> x \in t.loaded.people
  BY DEF PeopleSoFar
<1>1. x \in Joins(t) => JoinOf(x) \in Each(t)
  BY DEF Each
<1>2. x \in Leaves(t) => LeaveOf(x) \in Each(t)
  BY DEF Each
<1>3. x \in Leaves(t) => x \in t.loaded.people
  BY DEF Leaves, Leaving
<1>4. x \in Joins(t) /\ x \in t.loaded.people => x \in Leaves(t)
  BY DEF Joins, Leaves, Joining, Leaving
<1> QED
  BY <1>1, <1>2, <1>3, <1>4

LEMMA SaveKeeps ==
  ASSUME IInv, NEW w \in Workers, Running(w), NEW s \in Starting(w, "save"), Save(w, s),
         UNCHANGED <<page, requests>>
  PROVE  IInv'
<1> DEFINE t == task[w]
           n == task'[w]
           i == task[w].coll
           new == [owner |-> t.user, type |-> t.type]
<1>1. s \in t.now /\ s.op = "save"
  BY DEF Starting
<1>2. /\ t \in Task /\ i \in Ids /\ Shape(t) /\ t.user \in Editors
      /\ ~t.met => Progress(t, row[i], items[i], collaborators[i])
  BY <1>1, RunningOne
<1>3. t.later \in Seq(SUBSET Statement) /\ <<>> \in Seq(SUBSET Statement)
  BY <1>2, TaskFields
<1>4. t.kind = "edit" /\ AtRow(t) /\ t.now = {s} /\ t.type \in Types
  BY <1>1, <1>2, ByOp
<1>5. ~t.met => /\ Untouched(t, row[i], items[i], collaborators[i])
                /\ ~t.failed
                /\ row[i] = Null \/ (row[i] \in Row /\ row[i].owner = t.user
                                     /\ (items[i] = {} \/ row[i].type = t.type))
  <2>1. ~AtPeople(t)
    <3>1. Stmt("save", {}) \notin Each(t)
      <4>1. Stmt("save", {}).op = "save"
        BY Statements
      <4> QED
        BY <4>1, EachIs
    <3> QED
      BY <3>1, <1>4 DEF AtRow, AtPeople
  <2> QED
    BY <2>1, <1>2, <1>4 DEF Progress, EditProgress
<1>6. /\ row \in [Ids -> Row \cup {Null, Gone}] /\ items \in [Ids -> SUBSET Entities]
      /\ collaborators \in [Ids -> SUBSET Editors] /\ crossed \subseteq Ids
      /\ UNCHANGED <<items, collaborators>>
  BY DEF IInv, TypeOK, Save
\* A row is written.
<1>7. CASE /\ t.loaded.row = Null \/ Exists(i)
           /\ row' = [row EXCEPT ![i] = IF t.loaded.row = Null THEN new
                                        ELSE [row[i] EXCEPT !.type = t.type]]
           /\ crossed' = IF t.met /\ Exists(i) /\ row[i].type # t.type
                         THEN crossed \cup {i} ELSE crossed
           /\ Finish(w, s, FALSE, t.later)
  <2>1. Exists(i) => row[i] \in Row
    BY <1>2, <1>6 DEF Exists
  <2>2. new \in Row /\ new.type = t.type
    BY <1>2, <1>4 DEF Row
  <2>3. row[i] \in Row => /\ [row[i] EXCEPT !.type = t.type] \in Row
                          /\ [row[i] EXCEPT !.type = t.type].type = t.type
                          /\ [row[i] EXCEPT !.type = t.type].owner = row[i].owner
    BY <1>4 DEF Row
  <2>4. row'[i] = IF t.loaded.row = Null THEN new ELSE [row[i] EXCEPT !.type = t.type]
    BY <1>2, <1>6, <1>7
  <2>5. row'[i] \in Row /\ row'[i].type = t.type
    BY <1>7, <2>1, <2>2, <2>3, <2>4
  <2>6. /\ row' \in [Ids -> Row \cup {Null, Gone}]
        /\ \A j \in Ids \ {i} : row'[j] = row[j]
    BY <1>2, <1>6, <1>7, <2>4, <2>5
  <2>7. /\ task' \in [Workers -> Task]
        /\ \A v \in Workers \ {w} : task'[v] = task[v]
        /\ Next1(t, n, FALSE, t.later, s)
    BY <1>1, <1>3, <1>7, Finished DEF IInv
  <2>8. crossed' \subseteq Ids /\ crossed \subseteq crossed'
    BY <1>2, <1>6, <1>7
  <2>9. ~t.met => row'[i] = [owner |-> t.user, type |-> t.type]
    <3>1. CASE t.loaded.row = Null
      BY <3>1, <2>4
    <3>2. CASE t.loaded.row # Null /\ ~t.met
      <4>1. row[i] \in Row /\ row[i].owner = t.user
        BY <3>2, <1>5 DEF Untouched
      <4>2. row'[i] = [row[i] EXCEPT !.type = t.type]
        BY <3>2, <2>4
      <4> QED
        BY <4>1, <4>2 DEF Row
    <3> QED
      BY <3>1, <3>2
  <2>10. ~t.met => PeopleSoFar(t, Each(t), collaborators[i]) /\ ~t.failed
    BY <1>2, <1>5, PeopleAtFirst DEF Untouched
  <2>11. Kept(n, t, row'[i], items[i], collaborators[i])
    <3>1. CASE n = Idle
      BY <3>1 DEF Kept
    <3>2. CASE n # Idle /\ Each(t) = {}
      <4>1. t.later = <<>>
        BY <3>2, <1>4 DEF AtRow
      <4>2. /\ ~t.met /\ n.answer = "ok" /\ n.kind = t.kind /\ n.coll = t.coll
            /\ n.type = t.type /\ n.people = t.people
        BY <3>2, <4>1, <1>4, <1>5, <2>7 DEF Next1
      <4>3. collaborators[i] = t.people
        <5>1. PeopleSoFar(t, {}, collaborators[i])
          BY <2>10, <3>2, <4>2
        <5>2. collaborators[i] \in SUBSET Editors
          BY <1>2, <1>6
        <5> QED
          BY <5>1, <5>2, <1>2, <1>4, PeopleAtLast DEF Shape
      <4> QED
        BY <4>2, <4>3, <2>5, <1>4 DEF Kept, Outcome
    <3>3. CASE n # Idle /\ Each(t) # {}
      <4>1. t.later = <<Each(t)>>
        BY <3>3, <1>4 DEF AtRow
      <4>2. /\ SameRequest(n, t) /\ n.met = t.met /\ ~n.failed
            /\ n.now = Each(t) /\ n.later = <<>>
        BY <3>3, <4>1, <1>4, <1>5, <2>7, Tuples DEF Next1
      <4>3. Joins(n) = Joins(t) /\ Leaves(n) = Leaves(t) /\ Each(n) = Each(t)
        BY <4>2, SameEach
      <4>4. AtPeople(n)
        BY <4>2, <4>3 DEF AtPeople
      <4>5. ~AtRow(n)
        <5>1. Stmt("save", {}) \notin Each(t)
          <6>1. Stmt("save", {}).op = "save"
            BY Statements
          <6> QED
            BY <6>1, EachIs
        <5> QED
          BY <5>1, <4>2 DEF AtRow
      <4>6. Shape(n)
        BY <4>2, <4>4, <1>2, <1>4 DEF Shape, SameRequest
      <4>7. ~t.met => PeopleSoFar(n, n.now, collaborators[i])
        <5>1. n.loaded = t.loaded
          BY <4>2 DEF SameRequest
        <5> QED
          BY <5>1, <4>2, <4>3, <2>10 DEF PeopleSoFar
      <4>8. ~t.met => Progress(n, row'[i], items[i], collaborators[i])
        BY <4>2, <4>4, <4>7, <2>9, <1>4 DEF Progress, EditProgress, SameRequest
      <4> QED
        BY <4>2, <4>5, <4>6, <4>8 DEF Kept
    <3> QED
      BY <3>1, <3>2, <3>3
  <2>12. Shapes' /\ Progresses' /\ Outcomes' /\ Alone' /\ Unborn'
    BY <1>2, <1>6, <2>6, <2>7, <2>11, StepKeeps
  \* One that is to be made has no items and no other request.
  <2>13. t.loaded.row = Null =>
           items[i] = {} /\ \A v \in Workers \ {w} : Running(v) => task[v].coll # i
    <3>1. t.loaded.row = Null => row[i] = Null /\ \A v \in Workers \ {w} : Running(v) => task[v].coll # i
      BY <1>4 DEF IInv, Unborn
    <3> QED
      BY <3>1, <1>2 DEF IInv, NoItems, Exists
  <2>14. NoItems'
    BY <2>5, <2>6, <1>6, Rows DEF IInv, NoItems, Exists
  <2>15. ItemsOfType'
    <3> SUFFICES ASSUME NEW j \in Ids \ crossed', NEW b \in items[j]
                 PROVE  TypeOf[b] = row'[j].type
      BY <1>6 DEF ItemsOfType
    <3>1. CASE j # i
      BY <3>1, <2>6, <2>8 DEF IInv, ItemsOfType
    <3>2. CASE j = i
      <4>1. t.loaded.row # Null /\ Exists(i)
        BY <3>2, <2>13, <1>7
      <4>2. TypeOf[b] = row[i].type
        BY <3>2, <2>8 DEF IInv, ItemsOfType
      <4>3. row[i].type = t.type
        <5>1. CASE t.met
          BY <5>1, <4>1, <3>2, <1>7
        <5>2. CASE ~t.met
          BY <5>2, <4>1, <3>2, <1>5 DEF Exists
        <5> QED
          BY <5>1, <5>2
      <4> QED
        BY <3>2, <4>2, <4>3, <2>5
    <3> QED
      BY <3>1, <3>2
  <2>16. AddsOfType'
    <3> SUFFICES ASSUME NEW v \in Workers, task'[v].answer = "none", task'[v].kind = "add",
                        row'[task'[v].coll] \notin {Null, Gone}, task'[v].coll \notin crossed',
                        NEW b \in task'[v].on
                 PROVE  TypeOf[b] = row'[task'[v].coll].type
      BY DEF AddsOfType, Running, Exists
    <3>1. /\ task'[v].coll = task[v].coll /\ task'[v].kind = task[v].kind
          /\ task'[v].on = task[v].on /\ Running(v)
      BY <2>7, <2>11, IdleAnswer DEF SameRequest, Running, Kept
    <3>2. task[v].coll \in Ids /\ v # w
      BY <3>1, <1>4 DEF IInv, Shapes
    <3>3. CASE task[v].coll # i
      BY <3>1, <3>2, <3>3, <2>6, <2>8 DEF IInv, AddsOfType, Exists
    <3>4. CASE task[v].coll = i
      <4>1. t.loaded.row # Null /\ Exists(i)
        BY <3>1, <3>2, <3>4, <2>13, <1>7
      <4>2. t.met
        BY <3>1, <3>2, <3>4, <1>4 DEF IInv, Alone
      <4>3. row[i].type = t.type
        BY <3>1, <3>4, <4>1, <4>2, <1>7
      <4>4. TypeOf[b] = row[i].type
        BY <3>1, <3>4, <4>1, <2>8 DEF IInv, AddsOfType
      <4> QED
        BY <3>1, <3>4, <4>3, <4>4, <2>5
    <3> QED
      BY <3>3, <3>4
  <2>17. TypeOK'
    BY <1>6, <2>6, <2>7, <2>8 DEF IInv, TypeOK
  <2> QED
    BY <2>12, <2>14, <2>15, <2>16, <2>17 DEF IInv
\* There is none: it met the request that deleted it.
<1>8. CASE /\ t.loaded.row # Null /\ ~Exists(i)
           /\ Finish(w, s, TRUE, <<>>)
           /\ UNCHANGED <<row, crossed>>
  <2>1. t.met
    BY <1>5, <1>8, Rows DEF Untouched, Exists
  <2>2. /\ task' \in [Workers -> Task]
        /\ \A v \in Workers \ {w} : task'[v] = task[v]
        /\ Next1(t, n, TRUE, <<>>, s)
    BY <1>1, <1>3, <1>8, Finished DEF IInv
  <2>3. Kept(n, t, row[i], items[i], collaborators[i])
    BY <2>1, <2>2, <1>4 DEF Next1, Kept
  <2>4. Shapes' /\ Progresses' /\ Outcomes' /\ Alone' /\ Unborn'
    BY <1>2, <1>6, <1>8, <2>2, <2>3, StepKeeps
  <2>5. NoItems' /\ ItemsOfType' /\ AddsOfType'
    BY <1>6, <1>8, <2>2, <2>3, SameItems
  <2>6. TypeOK'
    BY <1>6, <1>8, <2>2 DEF IInv, TypeOK
  <2> QED
    BY <2>4, <2>5, <2>6 DEF IInv
<1> QED
  BY <1>7, <1>8 DEF Save

----------------------------------------------------------------------------
(* A request begins.                                                       *)

\* It is ready to run, or was refused.
Ready(t) ==
  LET i == t.coll
  IN \/ /\ t.answer = "none" /\ t.user \in Editors /\ Shape(t)
        /\ Progress(t, row[i], items[i], collaborators[i])
        /\ t.kind = "add" => \A b \in t.on : TypeOf[b] = row[i].type
        /\ \/ Exists(i) /\ t.loaded.row # Null
           \/ row[i] = Null /\ \A v \in Workers : task[v].coll # i
     \/ t.answer = "error" /\ Untouched(t, row[i], items[i], collaborators[i])

LEMMA BeginKeeps ==
  ASSUME IInv, NEW w \in Workers, NEW t \in Task, Begin(w, t), t.kind # "none", ~t.met,
         t.coll \in Ids, Ready(t), page' \in [Editors -> Page \cup {Null}]
  PROVE  IInv'
<1> DEFINE i == t.coll
           others == {v \in Workers \ {w} : Running(v) /\ task[v].coll = t.coll}
           meets == t.answer = "none"
<1>1. /\ task' = [v \in Workers |->
                   CASE v = w -> [t EXCEPT !.met = others # {}]
                     [] v \in others -> [task[v] EXCEPT !.met = task[v].met \/ meets]
                     [] OTHER -> IF Running(v) THEN task[v] ELSE Idle]
      /\ UNCHANGED <<row, items, collaborators, crossed>>
      /\ requests' = requests + 1 /\ requests < MaxRequests
  BY DEF Begin, tables
<1>2. task \in [Workers -> Task]
  BY DEF IInv, TypeOK
<1>3. /\ task'[w] \in Task /\ SameRequest(task'[w], t) /\ task'[w].met = (others # {})
      /\ task'[w].now = t.now /\ task'[w].later = t.later /\ task'[w].failed = t.failed
  <2>1. task'[w] = [t EXCEPT !.met = others # {}]
    BY <1>1
  <2> DEFINE m == others # {}
  <2>2. task'[w] = [t EXCEPT !.met = m] /\ m \in BOOLEAN
    BY <2>1
  <2> HIDE DEF m, others
  <2>3. /\ task'[w] \in Task /\ SameRequest(task'[w], t) /\ task'[w].met = m
        /\ task'[w].now = t.now /\ task'[w].later = t.later /\ task'[w].failed = t.failed
    BY <2>2 DEF Task, SameRequest
  <2> QED
    BY <2>3 DEF m
<1>4. ASSUME NEW v \in Workers \ {w}
      PROVE  \/ /\ Running(v) /\ task[v].coll = i
                /\ task'[v] \in Task /\ SameRequest(task'[v], task[v])
                /\ task'[v].met = (task[v].met \/ meets)
                /\ task'[v].now = task[v].now /\ task'[v].later = task[v].later
                /\ task'[v].failed = task[v].failed
             \/ Running(v) /\ task[v].coll # i /\ task'[v] = task[v]
             \/ ~Running(v) /\ task'[v] = Idle
  <2>1. CASE v \in others
    <3>1. task'[v] = [task[v] EXCEPT !.met = task[v].met \/ meets]
      BY <1>1, <2>1
    <3> DEFINE m == task[v].met \/ meets
               u == task[v]
    <3>2. task'[v] = [u EXCEPT !.met = m] /\ m \in BOOLEAN /\ u \in Task
      BY <3>1, <1>2
    <3> HIDE DEF m, u
    <3>3. /\ task'[v] \in Task /\ SameRequest(task'[v], u) /\ task'[v].met = m
          /\ task'[v].now = u.now /\ task'[v].later = u.later /\ task'[v].failed = u.failed
      BY <3>2 DEF Task, SameRequest
    <3> QED
      BY <3>3, <2>1 DEF m, u
  <2>2. CASE v \notin others
    BY <1>1, <2>2
  <2> QED
    BY <2>1, <2>2
<1>5. \A v \in Workers : task'[v] \in Task
  BY <1>2, <1>3, <1>4, IdleTyped
<1>6. TypeOK'
  <2>1. task' \in [Workers -> Task]
    BY <1>1, <1>5
  <2>2. requests' \in 0..MaxRequests
    BY <1>1, BoundAssumption DEF IInv, TypeOK
  <2> QED
    BY <1>1, <2>1, <2>2 DEF IInv, TypeOK
<1> HIDE DEF others
<1>7. \A v \in Workers : task[v].kind # "none" => task[v].coll \in Ids
  BY DEF IInv, Shapes
\* What is so of a request that runs on.
<1>8. ASSUME NEW v \in Workers \ {w}, task'[v].answer = "none"
      PROVE  /\ Running(v) /\ SameRequest(task'[v], task[v])
             /\ task[v].met => task'[v].met
             /\ task[v].coll = i /\ meets => task'[v].met
             /\ Shape(task'[v]) /\ task'[v].user \in Editors /\ task'[v].kind # "none"
             /\ ~task'[v].met => LET j == task'[v].coll
                                 IN Progress(task'[v], row[j], items[j], collaborators[j])
             /\ AtRow(task'[v]) <=> AtRow(task[v])
  <2>1. /\ Running(v) /\ SameRequest(task'[v], task[v])
        /\ task'[v].now = task[v].now /\ task'[v].later = task[v].later
        /\ task'[v].failed = task[v].failed
        /\ task[v].met => task'[v].met
        /\ task[v].coll = i /\ meets => task'[v].met
    BY <1>4, <1>8, IdleAnswer DEF SameRequest
  <2>2. /\ Shape(task[v]) /\ task[v].user \in Editors
        /\ ~task[v].met => LET j == task[v].coll
                           IN Progress(task[v], row[j], items[j], collaborators[j])
    BY <2>1 DEF IInv, Shapes, Progresses
  <2>3. /\ Shape(task'[v]) <=> Shape(task[v])
        /\ AtRow(task'[v]) <=> AtRow(task[v])
        /\ LET j == task[v].coll
           IN Progress(task'[v], row[j], items[j], collaborators[j]) <=>
              Progress(task[v], row[j], items[j], collaborators[j])
    BY <2>1, SameState
  <2>4. Shape(task'[v]) => task'[v].kind # "none"
    BY DEF Shape
  <2> QED
    BY <2>1, <2>2, <2>3, <2>4 DEF SameRequest
<1>9. \A v \in Workers \ {w} : task'[v].answer # "none" => task'[v].kind = "none"
  BY <1>4, IdleAnswer DEF Running, SameRequest
<1>10. /\ Shape(task'[w]) <=> Shape(t)
       /\ AtRow(task'[w]) <=> AtRow(t)
       /\ Progress(task'[w], row[i], items[i], collaborators[i]) <=>
          Progress(t, row[i], items[i], collaborators[i])
       /\ Outcome(task'[w], row[i], items[i], collaborators[i]) <=>
          Outcome(t, row[i], items[i], collaborators[i])
  BY <1>3, SameState
<1>11. /\ task'[w].coll = i /\ task'[w].kind = t.kind /\ task'[w].answer = t.answer
       /\ task'[w].user = t.user /\ task'[w].loaded = t.loaded /\ task'[w].on = t.on
  BY <1>3 DEF SameRequest
<1>12. Shapes'
  <2> SUFFICES ASSUME NEW v \in Workers
               PROVE  /\ task'[v].kind # "none" => task'[v].coll \in Ids
                      /\ task'[v].kind = "none" => task'[v].answer = "ok"
                      /\ task'[v].answer = "none" => task'[v].user \in Editors /\ Shape(task'[v])
    BY DEF Shapes, Running
  <2>1. CASE v = w
    BY <2>1, <1>10, <1>11 DEF Ready
  <2>2. CASE v # w
    <3>1. task'[v].kind # "none" => task'[v].coll = task[v].coll /\ task'[v].kind = task[v].kind
      BY <2>2, <1>4, IdleAnswer DEF SameRequest
    <3>2. task'[v].kind = "none" => task'[v].answer = "ok"
      BY <2>2, <1>4, <1>8, IdleAnswer DEF SameRequest, Running
    <3> QED
      BY <2>2, <3>1, <3>2, <1>7, <1>8
  <2> QED
    BY <2>1, <2>2
<1>13. Progresses'
  <2> SUFFICES ASSUME NEW v \in Workers, task'[v].answer = "none", ~task'[v].met
               PROVE  LET j == task'[v].coll
                      IN Progress(task'[v], row[j], items[j], collaborators[j])
    BY <1>1 DEF Progresses, Running
  <2>1. CASE v = w
    BY <2>1, <1>10, <1>11 DEF Ready
  <2>2. CASE v # w
    BY <2>2, <1>8
  <2> QED
    BY <2>1, <2>2
<1>14. Outcomes'
  <2> SUFFICES ASSUME NEW v \in Workers, task'[v].answer # "none", task'[v].kind # "none"
               PROVE  LET j == task'[v].coll
                      IN Outcome(task'[v], row[j], items[j], collaborators[j])
    BY <1>1 DEF Outcomes, Running
  <2>1. v = w
    BY <1>9
  <2>2. t.answer = "error" /\ Untouched(t, row[i], items[i], collaborators[i])
    BY <2>1, <1>11 DEF Ready
  <2> QED
    BY <2>1, <2>2, <1>10, <1>11 DEF Outcome
<1>15. \A v \in Workers \ {w} : Running(v) /\ task[v].coll = i => task'[w].met
  BY <1>3 DEF others
<1>16. Alone'
  <2> SUFFICES ASSUME NEW u \in Workers, NEW v \in Workers, u # v, task'[u].kind # "none",
                      task'[v].answer = "none", task'[v].coll = task'[u].coll
               PROVE  task'[u].met /\ (task'[u].answer = "none" => task'[v].met)
    BY DEF Alone, Running
  <2>1. CASE u = w
    <3>1. Running(v) /\ task[v].coll = i /\ (meets => task'[v].met)
      BY <2>1, <1>8, <1>11 DEF SameRequest
    <3> QED
      BY <2>1, <3>1, <1>11, <1>15
  <2>2. CASE u # w
    <3>1. task'[u].answer = "none"
      BY <2>2, <1>9
    <3>2. Running(u) /\ SameRequest(task'[u], task[u]) /\ (task[u].met => task'[u].met)
          /\ (task[u].coll = i /\ meets => task'[u].met) /\ task'[u].kind # "none"
      BY <2>2, <3>1, <1>8
    <3>3. CASE v = w
      <4>1. task[u].coll = i /\ meets
        BY <3>2, <3>3, <1>11 DEF SameRequest
      <4> QED
        BY <2>2, <3>2, <3>3, <4>1, <1>15
    <3>4. CASE v # w
      <4>1. Running(v) /\ SameRequest(task'[v], task[v]) /\ (task[v].met => task'[v].met)
        BY <3>4, <1>8
      <4>2. task[u].kind # "none" /\ task[v].coll = task[u].coll
        BY <3>2, <4>1 DEF SameRequest
      <4>3. task[u].met /\ task[v].met
        BY <3>2, <4>1, <4>2 DEF IInv, Alone
      <4> QED
        BY <3>2, <4>1, <4>3
    <3> QED
      BY <3>3, <3>4
  <2> QED
    BY <2>1, <2>2
<1>17. Unborn'
  <2> SUFFICES ASSUME NEW v \in Workers, task'[v].answer = "none", task'[v].kind = "edit",
                      task'[v].loaded.row = Null, AtRow(task'[v])
               PROVE  /\ row[task'[v].coll] = Null
                      /\ \A u \in Workers \ {v} : task'[u].answer = "none" =>
                           task'[u].coll # task'[v].coll
    BY <1>1 DEF Unborn, Running
  <2>1. CASE v = w
    <3>1. row[i] = Null /\ \A u \in Workers : task[u].coll # i
      BY <2>1, <1>11 DEF Ready
    <3> QED
      BY <2>1, <3>1, <1>8, <1>11 DEF SameRequest
  <2>2. CASE v # w
    <3>1. Running(v) /\ SameRequest(task'[v], task[v]) /\ AtRow(task[v])
      BY <2>2, <1>8
    <3>2. /\ row[task[v].coll] = Null /\ task'[v].coll = task[v].coll
          /\ \A u \in Workers \ {v} : Running(u) => task[u].coll # task[v].coll
      BY <3>1 DEF IInv, Unborn, SameRequest
    <3>3. ASSUME NEW u \in Workers \ {v}, task'[u].answer = "none"
          PROVE  task'[u].coll # task'[v].coll
      <4>1. CASE u = w
        BY <3>2, <3>3, <4>1, <1>11 DEF Ready, Exists
      <4>2. CASE u # w
        BY <3>2, <3>3, <4>2, <1>8 DEF SameRequest
      <4> QED
        BY <4>1, <4>2
    <3> QED
      BY <3>2, <3>3
  <2> QED
    BY <2>1, <2>2
<1>18. NoItems' /\ ItemsOfType'
  BY <1>1 DEF IInv, NoItems, ItemsOfType, Exists
<1>19. AddsOfType'
  <2> SUFFICES ASSUME NEW v \in Workers, task'[v].answer = "none", task'[v].kind = "add",
                      row[task'[v].coll] \notin {Null, Gone}, task'[v].coll \notin crossed,
                      NEW b \in task'[v].on
               PROVE  TypeOf[b] = row[task'[v].coll].type
    BY <1>1 DEF AddsOfType, Running, Exists
  <2>1. CASE v = w
    BY <2>1, <1>11 DEF Ready
  <2>2. CASE v # w
    <3>1. Running(v) /\ SameRequest(task'[v], task[v])
      BY <2>2, <1>8
    <3> QED
      BY <3>1 DEF IInv, AddsOfType, Exists, SameRequest
  <2> QED
    BY <2>1, <2>2
<1> QED
  BY <1>6, <1>12, <1>13, <1>14, <1>16, <1>17, <1>18, <1>19 DEF IInv

----------------------------------------------------------------------------
(* What a request is when it begins.                                       *)

IsAsked(t, kind, e, i, on, now, later) ==
  /\ t.kind = kind /\ t.coll = i /\ t.user = e /\ t.on = on /\ t.now = now
  /\ t.later = later /\ t.answer = "none" /\ ~t.met /\ ~t.failed /\ t.others = {}
  /\ t.loaded = Load(i)

IsForm(t, e, i, type, kept, others) ==
  /\ t.kind = "edit" /\ t.coll = i /\ t.user = e /\ t.answer = "none"
  /\ ~t.met /\ ~t.failed /\ t.loaded = Load(i) /\ t.type = type
  /\ t.people = kept \cup others /\ t.others = others /\ AtRow(t)

AskedKinds == {"edit", "delete", "add", "remove", "leave"}

LEMMA KindsAsked ==
  /\ "edit" \in AskedKinds /\ "delete" \in AskedKinds /\ "add" \in AskedKinds
  /\ "remove" \in AskedKinds /\ "leave" \in AskedKinds
BY DEF AskedKinds

LEMMA AskIs ==
  ASSUME TypeOK, NEW kind \in AskedKinds,
         NEW e \in Editors, NEW i \in Ids, row[i] # Gone,
         NEW on \in SUBSET (Editors \cup Entities),
         NEW now \in SUBSET Statement, NEW later \in Seq(SUBSET Statement),
         NEW t, t = Ask(kind, e, i, on, now, later)
  PROVE  t \in Task /\ IsAsked(t, kind, e, i, on, now, later)
<1> DEFINE l == Load(i)
<1>1. l \in Loaded
  BY DEF TypeOK, Load, Loaded
<1> HIDE DEF l
<1> DEFINE u == [Idle EXCEPT !.kind = kind, !.coll = i, !.user = e, !.on = on]
<1>2. t = [u EXCEPT !.now = now, !.later = later, !.answer = "none", !.loaded = l]
  BY DEF Ask, l
<1>3. Idle \in Task /\ Idle.met = FALSE /\ Idle.failed = FALSE /\ Idle.others = {}
  BY IdleTyped DEF Idle
<1>4. /\ u \in Task /\ u.kind = kind /\ u.coll = i /\ u.user = e /\ u.on = on
      /\ u.met = FALSE /\ u.failed = FALSE /\ u.others = {}
  <2>1. /\ kind \in {"none", "edit", "delete", "add", "remove", "leave"}
        /\ i \in Ids \cup {Null} /\ e \in Editors \cup {Null}
    BY DEF AskedKinds
  <2> QED
    BY <1>3, <2>1 DEF Task
<1> HIDE DEF u
<1>5. t \in Task
  BY <1>1, <1>2, <1>4 DEF Task
<1>6. t.now = now /\ t.later = later /\ t.answer = "none" /\ t.loaded = l
  BY <1>2, <1>4 DEF Task
<1>7. /\ t.kind = u.kind /\ t.coll = u.coll /\ t.user = u.user /\ t.on = u.on
      /\ t.others = u.others
  BY <1>2, <1>4 DEF Task
<1>8. t.met = u.met /\ t.failed = u.failed
  BY <1>2, <1>4 DEF Task
<1> QED
  BY <1>4, <1>5, <1>6, <1>7, <1>8 DEF l, IsAsked

LEMMA RefusedIs ==
  ASSUME NEW t \in Task, ~t.met, NEW n, n = Refused(t)
  PROVE  /\ n \in Task /\ n.kind = t.kind /\ n.coll = t.coll /\ n.answer = "error" /\ ~n.met
         /\ n.loaded = t.loaded
<1> DEFINE u == [t EXCEPT !.type = Null, !.people = {}, !.others = {}, !.on = {}]
<1>1. /\ u \in Task /\ u.met = t.met /\ u.kind = t.kind /\ u.coll = t.coll /\ u.loaded = t.loaded
  BY DEF Task
<1> HIDE DEF u
<1>2. n = Answered(u, "error")
  BY DEF Refused, u
<1>4. /\ n \in Task /\ n.answer = "error" /\ n.kind = u.kind /\ n.coll = u.coll /\ ~n.met
      /\ n.loaded = u.loaded
  BY <1>1, <1>2, AnsweredFields
<1> QED
  BY <1>1, <1>4

LEMMA LoadIs ==
  ASSUME NEW i, NEW t, t.loaded = Load(i)
  PROVE  Untouched(t, row[i], items[i], collaborators[i]) /\ t.loaded.row = row[i]
         /\ t.loaded.people = collaborators[i]
BY DEF Load, Untouched

LEMMA Waves ==
  /\ \A op \in Op, on \in SUBSET (Editors \cup Entities) : {Stmt(op, on)} \in SUBSET Statement
  /\ Touching \in SUBSET Statement
  /\ \A b \in Entities : {PutOf(b)} \in SUBSET Statement
  /\ \A x \in Editors : JoinOf(x) \in Statement /\ LeaveOf(x) \in Statement
BY Statements DEF Touching, PutOf, JoinOf, LeaveOf, Op

\* A refused request.
LEMMA RefusedKeeps ==
  ASSUME IInv, NEW w \in Workers, NEW t \in Task, ~t.met, t.kind # "none", t.coll \in Ids,
         t.loaded = Load(t.coll), Begin(w, Refused(t)), page' \in [Editors -> Page \cup {Null}]
  PROVE  IInv'
<1> DEFINE n == Refused(t)
<1>2. Begin(w, n) /\ n = Refused(t)
  OBVIOUS
<1> HIDE DEF n
<1>1. n \in Task /\ n.kind = t.kind /\ n.coll = t.coll /\ n.answer = "error" /\ ~n.met
      /\ n.loaded = t.loaded
  BY <1>2, RefusedIs
<1>3. Ready(n)
  BY <1>1, LoadIs DEF Ready
<1> QED
  BY <1>1, <1>2, <1>3, BeginKeeps

LEMMA FormIs ==
  ASSUME TypeOK, NEW e \in Editors, NEW i \in Ids, row[i] # Gone, NEW type \in Types,
         NEW kept \in SUBSET Editors, NEW others \in SUBSET Editors, kept \cap others = {},
         NEW t, t = Form(e, i, type, kept, others)
  PROVE  t \in Task /\ IsForm(t, e, i, type, kept, others)
<1> DEFINE loaded == collaborators[i]
           each == {Stmt("join", {x}) : x \in Joining(loaded, kept, others)} \cup
                     {Stmt("leave", {x}) : x \in Leaving(loaded, kept)}
           later == IF each = {} THEN <<>> ELSE <<each>>
           now == {Stmt("save", {})}
           u == Ask("edit", e, i, {}, now, later)
<1>1. loaded \subseteq Editors
  BY DEF TypeOK
<1>2. each \in SUBSET Statement
  <2>1. \A x \in Joining(loaded, kept, others) \cup Leaving(loaded, kept) : x \in Editors
    BY <1>1 DEF Joining, Leaving
  <2>2. \A x \in Editors : Stmt("join", {x}) \in Statement /\ Stmt("leave", {x}) \in Statement
    BY Waves DEF JoinOf, LeaveOf
  <2> QED
    BY <2>1, <2>2
<1>3. later \in Seq(SUBSET Statement)
  <2> HIDE DEF each
  <2>1. <<each>> \in Seq(SUBSET Statement) /\ <<>> \in Seq(SUBSET Statement)
    BY <1>2
  <2> QED
    BY <2>1
<1>4. now \in SUBSET Statement /\ {} \in SUBSET (Editors \cup Entities)
  BY Waves DEF Op
<1>5. t = [u EXCEPT !.type = type, !.people = kept \cup others, !.others = others]
  BY DEF Form
<1>5a. u = Ask("edit", e, i, {}, now, later)
  OBVIOUS
<1> HIDE DEF later, now, u
<1>6. u \in Task /\ IsAsked(u, "edit", e, i, {}, now, later)
  BY <1>3, <1>4, <1>5a, KindsAsked, AskIs
<1>6a. /\ u.kind = "edit" /\ u.coll = i /\ u.user = e /\ u.now = now /\ u.later = later
       /\ u.answer = "none" /\ ~u.met /\ ~u.failed /\ u.loaded = Load(i)
  BY <1>6 DEF IsAsked
<1>7. t \in Task
  <2>1. kept \cup others \in SUBSET Editors /\ type \in Types \cup {Null}
    OBVIOUS
  <2> QED
    BY <1>5, <1>6, <2>1 DEF Task
<1>7a. /\ t.kind = u.kind /\ t.coll = u.coll /\ t.user = u.user /\ t.now = u.now
       /\ t.later = u.later /\ t.answer = u.answer /\ t.loaded = u.loaded
       /\ t.type = type /\ t.people = kept \cup others /\ t.others = others
  BY <1>5, <1>6 DEF Task
<1>7b. t.met = u.met /\ t.failed = u.failed
  BY <1>5, <1>6 DEF Task
<1>8. t.people \ t.others = kept /\ t.loaded.people = loaded
  BY <1>6a, <1>7a, LoadIs
<1>9. Each(t) = each
  BY <1>7a, <1>8 DEF Each, Joins, Leaves, JoinOf, LeaveOf
<1>10. AtRow(t)
  BY <1>6a, <1>7a, <1>9 DEF AtRow, now, later
<1> QED
  BY <1>6a, <1>7, <1>7a, <1>7b, <1>10 DEF IsForm

----------------------------------------------------------------------------
(* The requests.                                                           *)

LEMMA CreateKeeps ==
  ASSUME IInv, NEW w \in Workers, NEW e \in Editors, NEW i \in Ids, NEW type \in Types,
         NEW others \in SUBSET Editors, Create(w, e, i, type, others)
  PROVE  IInv'
<1> DEFINE t == Form(e, i, type, {}, others)
<1>1. row[i] = Null /\ (\A v \in Workers : task[v].coll # i) /\ Begin(w, t) /\ page' = page
  BY DEF Create
<1>1a. t = Form(e, i, type, {}, others)
  OBVIOUS
<1> HIDE DEF t
<1>1b. t \in Task /\ IsForm(t, e, i, type, {}, others)
  <2>1. row[i] # Gone /\ {} \in SUBSET Editors /\ {} \cap others = {} /\ TypeOK
    BY <1>1, Rows DEF IInv
  <2> QED
    BY <2>1, <1>1a, FormIs
<1>2. /\ t \in Task /\ t.kind = "edit" /\ t.coll = i /\ t.user = e /\ t.answer = "none"
      /\ ~t.met /\ ~t.failed /\ t.loaded = Load(i) /\ t.type = type
      /\ t.others \subseteq t.people /\ AtRow(t)
  BY <1>1b DEF IsForm
<1>3. Progress(t, row[i], items[i], collaborators[i])
  BY <1>1, <1>2, LoadIs DEF Progress, EditProgress
<1>4. Ready(t)
  BY <1>1, <1>2, <1>3 DEF Ready, Shape
<1> QED
  BY <1>1, <1>2, <1>4, BeginKeeps DEF IInv, TypeOK

LEMMA EditKeeps ==
  ASSUME IInv, NEW w \in Workers, NEW e \in Editors, NEW kept \in SUBSET Editors,
         NEW others \in SUBSET Editors, NEW type \in Types, Edit(w, e, kept, others, type)
  PROVE  IInv'
<1> DEFINE i == page[e].coll
           t == Form(e, i, type, kept, others)
<1>1. /\ page[e] # Null /\ kept \cap others = {} /\ Exists(i)
      /\ Begin(w, IF row[i].owner = e /\ TypeAllowed(i, type) THEN t ELSE Refused(t))
      /\ page' = [page EXCEPT ![e] = Null]
  BY DEF Edit
<1>2. i \in Ids
  BY <1>1 DEF IInv, TypeOK, Page
<1>3. page' \in [Editors -> Page \cup {Null}]
  BY <1>1 DEF IInv, TypeOK
<1>4a. t = Form(e, i, type, kept, others)
  OBVIOUS
<1> HIDE DEF t
<1>4b. t \in Task /\ IsForm(t, e, i, type, kept, others)
  <2>1. row[i] # Gone /\ TypeOK
    BY <1>1 DEF IInv, Exists
  <2> QED
    BY <2>1, <1>1, <1>2, <1>4a, FormIs
<1>4. /\ t \in Task /\ t.kind = "edit" /\ t.coll = i /\ t.user = e /\ t.answer = "none"
      /\ ~t.met /\ ~t.failed /\ t.loaded = Load(i) /\ t.type = type
      /\ t.others \subseteq t.people /\ AtRow(t)
  BY <1>4b DEF IsForm
<1>5. CASE row[i].owner = e /\ TypeAllowed(i, type)
  <2>1. row[i] \in Row /\ (items[i] = {} \/ row[i].type = type)
    BY <1>1, <1>2, <1>5 DEF IInv, TypeOK, Exists, TypeAllowed
  <2>2. Untouched(t, row[i], items[i], collaborators[i]) /\ t.loaded.row = row[i]
    BY <1>4, LoadIs
  <2>3. Progress(t, row[i], items[i], collaborators[i])
    BY <1>4, <1>5, <2>1, <2>2 DEF Progress, EditProgress
  <2>4. Ready(t)
    BY <1>1, <1>4, <2>2, <2>3 DEF Ready, Shape, Exists
  <2> QED
    BY <1>1, <1>2, <1>3, <1>4, <1>5, <2>4, BeginKeeps
<1>6. CASE ~(row[i].owner = e /\ TypeAllowed(i, type))
  BY <1>1, <1>2, <1>3, <1>4, <1>6, RefusedKeeps
<1> QED
  BY <1>5, <1>6

LEMMA DeleteKeeps ==
  ASSUME IInv, NEW w \in Workers, NEW e \in Editors, NEW i \in Ids, Delete(w, e, i)
  PROVE  IInv'
<1> DEFINE now == {Stmt("destroy", {})}
           t == Ask("delete", e, i, {}, now, <<>>)
<1>1. /\ Exists(i) /\ Begin(w, IF row[i].owner # e THEN Refused(t) ELSE t) /\ page' = page
  BY DEF Delete
<1>2. now \in SUBSET Statement /\ <<>> \in Seq(SUBSET Statement)
      /\ {} \in SUBSET (Editors \cup Entities)
  BY Waves DEF Op
<1>2a. t = Ask("delete", e, i, {}, now, <<>>)
  OBVIOUS
<1> HIDE DEF t
<1>2b. t \in Task /\ IsAsked(t, "delete", e, i, {}, now, <<>>)
  <2> HIDE DEF now
  <2>1. row[i] # Gone /\ TypeOK
    BY <1>1 DEF IInv, Exists
  <2> QED
    BY <2>1, <1>2, <1>2a, KindsAsked, AskIs
<1>3. /\ t \in Task /\ t.kind = "delete" /\ t.coll = i /\ t.user = e /\ t.answer = "none"
      /\ ~t.met /\ ~t.failed /\ t.loaded = Load(i) /\ t.now = now /\ t.later = <<>>
  BY <1>2b DEF IsAsked
<1>4. page' \in [Editors -> Page \cup {Null}] /\ row[i] \in Row
  BY <1>1 DEF IInv, TypeOK, Exists
<1>5. CASE row[i].owner = e
  <2>1. Progress(t, row[i], items[i], collaborators[i])
    BY <1>3, <1>4, <1>5 DEF Progress
  <2>2. Ready(t)
    BY <1>1, <1>3, <2>1, LoadIs DEF Ready, Shape, Exists
  <2> QED
    BY <1>1, <1>3, <1>4, <1>5, <2>2, BeginKeeps
<1>6. CASE row[i].owner # e
  BY <1>1, <1>3, <1>4, <1>6, RefusedKeeps
<1> QED
  BY <1>5, <1>6

LEMMA RemoveKeeps ==
  ASSUME IInv, NEW w \in Workers, NEW e \in Editors, NEW i \in Ids,
         NEW on \in (SUBSET Entities) \ {{}}, Remove(w, e, i, on)
  PROVE  IInv'
<1> DEFINE now == {Stmt("take", on)}
           t == Ask("remove", e, i, on, now, <<Touching>>)
           allowed == MayChangeItems(e, i) /\ on \subseteq items[i]
<1>1. /\ Exists(i) /\ Begin(w, IF allowed THEN t ELSE Refused(t)) /\ page' = page
  BY DEF Remove, Touching
<1>0. on # {} /\ on \in SUBSET (Editors \cup Entities)
  OBVIOUS
<1>2. now \in SUBSET Statement /\ <<Touching>> \in Seq(SUBSET Statement)
      /\ on \in SUBSET (Editors \cup Entities) /\ on # {}
  BY <1>0, Waves DEF Op
<1>2a. t = Ask("remove", e, i, on, now, <<Touching>>)
  OBVIOUS
<1> HIDE DEF t
<1>2b. t \in Task /\ IsAsked(t, "remove", e, i, on, now, <<Touching>>)
  <2> HIDE DEF now
  <2>1. row[i] # Gone /\ TypeOK
    BY <1>1 DEF IInv, Exists
  <2> QED
    BY <2>1, <1>2, <1>2a, KindsAsked, AskIs
<1>3. /\ t \in Task /\ t.kind = "remove" /\ t.coll = i /\ t.user = e /\ t.answer = "none"
      /\ ~t.met /\ ~t.failed /\ t.loaded = Load(i) /\ t.on = on
      /\ t.now = now /\ t.later = <<Touching>>
  BY <1>2b DEF IsAsked
<1>4. page' \in [Editors -> Page \cup {Null}] /\ row[i] \in Row
  BY <1>1 DEF IInv, TypeOK, Exists
<1>5. CASE allowed
  <2>1. AtFirst(t, "take")
    BY <1>3 DEF AtFirst
  <2>2. Progress(t, row[i], items[i], collaborators[i])
    BY <1>2, <1>3, <1>4, <1>5, <2>1 DEF Progress, MayChangeItems
  <2>3. Ready(t)
    BY <1>1, <1>3, <2>1, <2>2, LoadIs DEF Ready, Shape, Exists
  <2> QED
    BY <1>1, <1>3, <1>4, <1>5, <2>3, BeginKeeps
<1>6. CASE ~allowed
  BY <1>1, <1>3, <1>4, <1>6, RefusedKeeps
<1> QED
  BY <1>5, <1>6

LEMMA RemoveCollaboratorsKeeps ==
  ASSUME IInv, NEW w \in Workers, NEW e \in Editors, NEW i \in Ids,
         NEW on \in (SUBSET Editors) \ {{}}, RemoveCollaborators(w, e, i, on)
  PROVE  IInv'
<1> DEFINE now == {Stmt("leave", on)}
           t == Ask("leave", e, i, on, now, <<Touching>>)
           allowed == MayRemove(e, i, on) /\ on \subseteq collaborators[i]
<1>1. /\ Exists(i) /\ Begin(w, IF allowed THEN t ELSE Refused(t)) /\ page' = page
  BY DEF RemoveCollaborators, Touching
<1>0. on # {} /\ on \in SUBSET (Editors \cup Entities)
  OBVIOUS
<1>2. now \in SUBSET Statement /\ <<Touching>> \in Seq(SUBSET Statement)
      /\ on \in SUBSET (Editors \cup Entities) /\ on # {}
  BY <1>0, Waves DEF Op
<1>2a. t = Ask("leave", e, i, on, now, <<Touching>>)
  OBVIOUS
<1> HIDE DEF t
<1>2b. t \in Task /\ IsAsked(t, "leave", e, i, on, now, <<Touching>>)
  <2> HIDE DEF now
  <2>1. row[i] # Gone /\ TypeOK
    BY <1>1 DEF IInv, Exists
  <2> QED
    BY <2>1, <1>2, <1>2a, KindsAsked, AskIs
<1>3. /\ t \in Task /\ t.kind = "leave" /\ t.coll = i /\ t.user = e /\ t.answer = "none"
      /\ ~t.met /\ ~t.failed /\ t.loaded = Load(i) /\ t.on = on
      /\ t.now = now /\ t.later = <<Touching>>
  BY <1>2b DEF IsAsked
<1>4. page' \in [Editors -> Page \cup {Null}] /\ row[i] \in Row
  BY <1>1 DEF IInv, TypeOK, Exists
<1>5. CASE allowed
  <2>1. AtFirst(t, "leave")
    BY <1>3 DEF AtFirst
  <2>2. Progress(t, row[i], items[i], collaborators[i])
    BY <1>2, <1>3, <1>4, <1>5, <2>1 DEF Progress, MayRemove
  <2>3. Ready(t)
    BY <1>1, <1>3, <2>1, <2>2, LoadIs DEF Ready, Shape, Exists
  <2> QED
    BY <1>1, <1>3, <1>4, <1>5, <2>3, BeginKeeps
<1>6. CASE ~allowed
  BY <1>1, <1>3, <1>4, <1>6, RefusedKeeps
<1> QED
  BY <1>5, <1>6

\* The statements of an add of one entity, and of two.
LEMMA AddWaves ==
  ASSUME NEW list \in Lists
  PROVE  LET wave(k) == IF k % 2 = 1 THEN {Stmt("put", {list[(k + 1) \div 2]})}
                        ELSE {Stmt("touch", {})}
             later == [k \in 1..(2 * Len(list) - 1) |-> wave(k + 1)]
             on == {list[k] : k \in DOMAIN list}
         IN \/ \E a \in Entities : /\ on = {a} /\ wave(1) = {PutOf(a)} /\ later = <<Touching>>
            \/ \E a, b \in Entities :
                 /\ on = {a, b} /\ wave(1) = {PutOf(a)}
                 /\ later = <<Touching, {PutOf(b)}, Touching>>
<1> DEFINE wave(k) == IF k % 2 = 1 THEN {Stmt("put", {list[(k + 1) \div 2]})}
                      ELSE {Stmt("touch", {})}
           later == [k \in 1..(2 * Len(list) - 1) |-> wave(k + 1)]
           on == {list[k] : k \in DOMAIN list}
<1> SUFFICES \/ \E a \in Entities : on = {a} /\ wave(1) = {PutOf(a)} /\ later = <<Touching>>
             \/ \E a, b \in Entities : /\ on = {a, b} /\ wave(1) = {PutOf(a)}
                                       /\ later = <<Touching, {PutOf(b)}, Touching>>
  OBVIOUS
<1>1. PICK n \in 1..2 : list \in [1..n -> Entities]
  BY DEF Lists
<1>2. Len(list) = n /\ DOMAIN list = 1..n
  BY <1>1
<1>3. wave(1) = {PutOf(list[1])} /\ wave(2) = Touching /\ wave(3) = {PutOf(list[2])}
      /\ wave(4) = Touching
  BY DEF PutOf, Touching
<1> HIDE DEF wave
<1>4. CASE n = 1
  <2>1. later = [k \in 1..1 |-> wave(k + 1)]
    BY <1>2, <1>4
  <2>2. later = <<wave(2)>>
    BY <2>1
  <2>3. on = {list[1]} /\ list[1] \in Entities
    BY <1>1, <1>2, <1>4
  <2> QED
    BY <1>3, <2>2, <2>3
<1>5. CASE n = 2
  <2>1. later = [k \in 1..3 |-> wave(k + 1)]
    BY <1>2, <1>5
  <2>2. later = <<wave(2), wave(3), wave(4)>>
    BY SMTT(20), <2>1
  <2>3. on = {list[1], list[2]} /\ list[1] \in Entities /\ list[2] \in Entities
    BY <1>1, <1>2, <1>5
  <2> QED
    BY <1>3, <2>2, <2>3
<1>6. n = 1 \/ n = 2
  OBVIOUS
<1> HIDE DEF later, on
<1> QED
  BY <1>4, <1>5, <1>6

LEMMA AddKeeps ==
  ASSUME IInv, NEW w \in Workers, NEW e \in Editors, NEW i \in Ids,
         NEW list \in Lists, Add(w, e, i, list)
  PROVE  IInv'
<1> DEFINE wave(k) == IF k % 2 = 1 THEN {Stmt("put", {list[(k + 1) \div 2]})}
                      ELSE {Stmt("touch", {})}
           now == wave(1)
           later == [k \in 1..(2 * Len(list) - 1) |-> wave(k + 1)]
           on == {list[k] : k \in DOMAIN list}
           t == Ask("add", e, i, on, now, later)
           allowed == MayChangeItems(e, i) /\ \A b \in on : TypeOf[b] = row[i].type
<1>1. /\ Exists(i) /\ Begin(w, IF allowed THEN t ELSE Refused(t)) /\ page' = page
  BY DEF Add
<1>2. \/ \E a \in Entities : on = {a} /\ now = {PutOf(a)} /\ later = <<Touching>>
      \/ \E a, b \in Entities : /\ on = {a, b} /\ now = {PutOf(a)}
                                /\ later = <<Touching, {PutOf(b)}, Touching>>
  BY AddWaves
<1> HIDE DEF on, now, later
<1>3. /\ now \in SUBSET Statement /\ later \in Seq(SUBSET Statement)
      /\ on \in SUBSET (Editors \cup Entities) /\ on \subseteq Entities
  <2>1. CASE \E a \in Entities : on = {a} /\ now = {PutOf(a)} /\ later = <<Touching>>
    BY <2>1, Waves
  <2>2. CASE \E a, b \in Entities : /\ on = {a, b} /\ now = {PutOf(a)}
                                    /\ later = <<Touching, {PutOf(b)}, Touching>>
    BY <2>2, Waves
  <2> QED
    BY <1>2, <2>1, <2>2
<1>3a. t = Ask("add", e, i, on, now, later)
  OBVIOUS
<1> HIDE DEF t
<1>3b. t \in Task /\ IsAsked(t, "add", e, i, on, now, later)
  <2>1. row[i] # Gone /\ TypeOK
    BY <1>1 DEF IInv, Exists
  <2> QED
    BY <2>1, <1>3, <1>3a, KindsAsked, AskIs
<1>4. /\ t \in Task /\ t.kind = "add" /\ t.coll = i /\ t.user = e /\ t.answer = "none"
      /\ ~t.met /\ ~t.failed /\ t.loaded = Load(i) /\ t.on = on
      /\ t.now = now /\ t.later = later
  BY <1>3b DEF IsAsked
<1>5. page' \in [Editors -> Page \cup {Null}] /\ row[i] \in Row
  BY <1>1 DEF IInv, TypeOK, Exists
<1>6. CASE allowed
  <2>1. \/ \E b \in t.on : AtLast(t, b) /\ t.on \ {b} \subseteq items[i]
        \/ \E a, b \in t.on : AtStart(t, a, b) /\ t.on \ {a, b} \subseteq items[i]
    <3>1. CASE \E a \in Entities : on = {a} /\ now = {PutOf(a)} /\ later = <<Touching>>
      BY <1>4, <3>1 DEF AtLast
    <3>2. CASE \E a, b \in Entities : /\ on = {a, b} /\ now = {PutOf(a)}
                                      /\ later = <<Touching, {PutOf(b)}, Touching>>
      BY <1>4, <3>2 DEF AtStart
    <3> QED
      BY <1>2, <3>1, <3>2
  <2>2. Progress(t, row[i], items[i], collaborators[i])
    BY <1>4, <1>5, <1>6, <2>1 DEF Progress, MayChangeItems
  <2>3. Shape(t)
    BY <1>3, <1>4, <2>1 DEF Shape
  <2>4. Ready(t)
    BY <1>1, <1>4, <1>6, <2>2, <2>3, LoadIs DEF Ready, Exists
  <2> QED
    BY <1>1, <1>4, <1>5, <1>6, <2>4, BeginKeeps
<1>7. CASE ~allowed
  BY <1>1, <1>4, <1>5, <1>7, RefusedKeeps
<1> QED
  BY <1>6, <1>7

----------------------------------------------------------------------------
(* The theorems.                                                           *)

LEMMA OpenPageKeeps ==
  ASSUME IInv, NEW e \in Editors, NEW i \in Ids, OpenPage(e, i)
  PROVE  IInv'
<1>1. UNCHANGED <<row, items, collaborators, task, crossed, requests>>
  BY DEF OpenPage, tables
<1>2. page' \in [Editors -> Page \cup {Null}]
  <2> DEFINE p == [coll |-> i, type |-> row[i].type,
                   fixed |-> items[i] # {}, people |-> collaborators[i]]
  <2>1. row[i].type \in Types /\ collaborators[i] \subseteq Editors
    BY DEF IInv, TypeOK, OpenPage, Exists, Row
  <2>2. p \in Page
    BY <2>1 DEF Page
  <2>3. page' = [page EXCEPT ![e] = p]
    BY DEF OpenPage
  <2> HIDE DEF p
  <2> QED
    BY <2>2, <2>3 DEF IInv, TypeOK
<1>3. TypeOK'
  BY <1>1, <1>2 DEF IInv, TypeOK
<1>4. Shapes' /\ Progresses' /\ Outcomes' /\ Alone' /\ Unborn'
  BY <1>1 DEF IInv, Shapes, Progresses, Outcomes, Alone, Unborn, Running
<1>5. NoItems' /\ ItemsOfType' /\ AddsOfType'
  BY <1>1 DEF IInv, NoItems, ItemsOfType, AddsOfType, Running, Exists
<1> QED
  BY <1>3, <1>4, <1>5 DEF IInv

LEMMA InitKeeps == Init => IInv
<1> SUFFICES ASSUME Init
             PROVE  IInv
  OBVIOUS
<1>1. \A w \in Workers : task[w] = Idle
  BY DEF Init
<1>2. TypeOK
  BY IdleTyped, BoundAssumption DEF Init, TypeOK
<1>3. Idle.kind = "none" /\ Idle.answer = "ok"
  BY DEF Idle
<1>4. Shapes /\ Progresses /\ Outcomes /\ Alone /\ Unborn /\ AddsOfType
  BY <1>1, <1>3 DEF Shapes, Progresses, Outcomes, Alone, Unborn, AddsOfType, Running
<1>5. NoItems /\ ItemsOfType
  BY DEF Init, NoItems, ItemsOfType
<1> QED
  BY <1>2, <1>4, <1>5 DEF IInv

LEMMA NextKeeps == IInv /\ [Next]_vars => IInv'
<1> SUFFICES ASSUME IInv, [Next]_vars
             PROVE  IInv'
  OBVIOUS
<1>1. ASSUME NEW e \in Editors, NEW i \in Ids, OpenPage(e, i)
      PROVE  IInv'
  BY <1>1, OpenPageKeeps
<1>2. ASSUME NEW w \in Workers, NEW e \in Editors, NEW i \in Ids, NEW type \in Types,
             NEW others \in SUBSET Editors, Create(w, e, i, type, others)
      PROVE  IInv'
  BY <1>2, CreateKeeps
<1>3. ASSUME NEW w \in Workers, NEW e \in Editors, NEW kept \in SUBSET Editors,
             NEW others \in SUBSET Editors, NEW type \in Types, Edit(w, e, kept, others, type)
      PROVE  IInv'
  BY <1>3, EditKeeps
<1>4. ASSUME NEW w \in Workers, NEW e \in Editors, NEW i \in Ids, Delete(w, e, i)
      PROVE  IInv'
  BY <1>4, DeleteKeeps
<1>5. ASSUME NEW w \in Workers, NEW e \in Editors, NEW i \in Ids, NEW list \in Lists,
             Add(w, e, i, list)
      PROVE  IInv'
  BY <1>5, AddKeeps
<1>6. ASSUME NEW w \in Workers, NEW e \in Editors, NEW i \in Ids,
             NEW on \in (SUBSET Entities) \ {{}}, Remove(w, e, i, on)
      PROVE  IInv'
  BY <1>6, RemoveKeeps
<1>7. ASSUME NEW w \in Workers, NEW e \in Editors, NEW i \in Ids,
             NEW on \in (SUBSET Editors) \ {{}}, RemoveCollaborators(w, e, i, on)
      PROVE  IInv'
  BY <1>7, RemoveCollaboratorsKeeps
<1>8. ASSUME NEW w \in Workers, Run(w)
      PROVE  IInv'
  <2>1. UNCHANGED <<page, requests>>
    BY <1>8 DEF Run
  <2>2. Running(w)
    BY <1>8 DEF Run
  <2>3. ASSUME NEW s \in Starting(w, "save"), Save(w, s)
        PROVE  IInv'
    BY <2>1, <2>2, <2>3, SaveKeeps
  <2>4. ASSUME NEW s \in Starting(w, "join"), Join(w, s)
        PROVE  IInv'
    BY <2>1, <2>2, <2>4, JoinKeeps
  <2>5. ASSUME NEW s \in Starting(w, "leave"), Leave(w, s)
        PROVE  IInv'
    BY <2>1, <2>2, <2>5, LeaveKeeps
  <2>6. ASSUME NEW s \in Starting(w, "put"), Put(w, s)
        PROVE  IInv'
    BY <2>1, <2>2, <2>6, PutKeeps
  <2>7. ASSUME NEW s \in Starting(w, "take"), Take(w, s)
        PROVE  IInv'
    BY <2>1, <2>2, <2>7, TakeKeeps
  <2>8. ASSUME NEW s \in Starting(w, "touch"), Touch(w, s)
        PROVE  IInv'
    BY <2>1, <2>2, <2>8, TouchKeeps
  <2>9. ASSUME NEW s \in Starting(w, "destroy"), Destroy(w, s)
        PROVE  IInv'
    BY <2>1, <2>2, <2>9, DestroyKeeps
  <2> QED
    BY <1>8, <2>3, <2>4, <2>5, <2>6, <2>7, <2>8, <2>9 DEF Run
<1>9. CASE UNCHANGED vars
  <2>1. UNCHANGED <<row, items, collaborators, page, task, crossed, requests>>
    BY <1>9 DEF vars
  <2>2. TypeOK'
    BY <2>1 DEF IInv, TypeOK
  <2>3. Shapes' /\ Progresses' /\ Outcomes' /\ Alone' /\ Unborn'
    BY <2>1 DEF IInv, Shapes, Progresses, Outcomes, Alone, Unborn, Running
  <2>4. NoItems' /\ ItemsOfType' /\ AddsOfType'
    BY <2>1 DEF IInv, NoItems, ItemsOfType, AddsOfType, Running, Exists
  <2> QED
    BY <2>2, <2>3, <2>4 DEF IInv
<1> QED
  BY <1>1, <1>2, <1>3, <1>4, <1>5, <1>6, <1>7, <1>8, <1>9 DEF Next

LEMMA IInvInvariant == Spec => []IInv
<1>1. Init => IInv
  BY InitKeeps
<1>2. IInv /\ [Next]_vars => IInv'
  BY NextKeeps
<1> QED
  BY <1>1, <1>2, PTL DEF Spec

\* The rows, the forms and the requests are of their types in every reachable
\* state of Collections: no statement leaves half a row (collectionRouteUtils.js).
THEOREM TypesOfCollections == Spec => []TypeOK
<1>1. IInv => TypeOK
  BY DEF IInv
<1> QED
  BY <1>1, IInvInvariant, PTL

LEMMA AnswersAreTrue == IInv => CollectionsHold
<1> SUFFICES ASSUME IInv
             PROVE  ItemsOfType /\ AnswersHold /\ ErrorsChangeNothing
  BY DEF CollectionsHold, AnswersTrue
<1>1. ItemsOfType
  BY DEF IInv
<1>2. ASSUME NEW w \in Workers, task[w].answer \in {"ok", "error"}, ~task[w].met,
             task[w].kind # "none"
      PROVE  LET i == task[w].coll
             IN Outcome(task[w], row[i], items[i], collaborators[i])
  BY <1>2 DEF IInv, Outcomes, Running
<1>3. \A w \in Workers : task[w].kind \in {"none", "edit", "delete", "add", "remove", "leave"}
  BY TaskFields DEF IInv, TypeOK
<1>4. AnswersHold
  <2> SUFFICES ASSUME NEW w \in Workers, task[w].answer = "ok", ~task[w].met
               PROVE  LET t == task[w]
                          i == t.coll
                      IN /\ t.kind = "edit" => row[i].type = t.type /\ collaborators[i] = t.people
                         /\ t.kind = "add" => t.on \subseteq items[i]
                         /\ t.kind = "remove" => t.on \cap items[i] = {}
                         /\ t.kind = "leave" => t.on \cap collaborators[i] = {}
                         /\ t.kind = "delete" => row[i] = Gone
    BY <1>3 DEF AnswersHold
  <2> QED
    BY <1>2 DEF Outcome
\* An error of no request is not kept; one of a request is.
<1>5. ErrorsChangeNothing
  <2> SUFFICES ASSUME NEW w \in Workers, task[w].answer = "error", ~task[w].met,
                      ~Relabelled(task[w])
               PROVE  LET t == task[w]
                          i == t.coll
                      IN Untouched(t, row[i], items[i], collaborators[i])
    BY DEF ErrorsChangeNothing, Untouched
  <2>1. task[w].kind # "none"
    BY DEF IInv, Shapes
  <2> QED
    BY <1>2, <2>1 DEF Outcome
<1> QED
  BY <1>1, <1>4, <1>5

\* However requests come between one another, a collection holds entities of its
\* type unless a request that met another one changed that type, a request that met
\* no other one and is answered with success has done all that was asked, and one
\* answered with an error nothing (collectionRouteUtils.js 46-94, collection.js
\* 253-346).
THEOREM CollectionsHoldAlways == Spec => []CollectionsHold
BY IInvInvariant, AnswersAreTrue, PTL

----------------------------------------------------------------------------
(* Who changes a collection.                                               *)

\* What Progress says of the one who asked.
Entitled(t, r, people) ==
  \/ r = Null
  \/ t.user = r.owner
  \/ t.kind \in {"add", "remove"} /\ t.user \in people
  \/ t.kind = "leave" /\ t.on = {t.user} /\ t.user \in people
  \/ t.kind = "leave" /\ t.on \cap people = {}

LEMMA ProgressEntitled ==
  ASSUME NEW t, NEW r, NEW its, NEW people, Progress(t, r, its, people)
  PROVE  Entitled(t, r, people)
<1>1. CASE t.kind = "edit"
  BY <1>1 DEF Progress, EditProgress, Entitled
<1>2. CASE t.kind = "delete"
  BY <1>2 DEF Progress, Entitled
<1>3. CASE t.kind \in {"add", "remove"}
  BY <1>3 DEF Progress, Entitled
<1>4. CASE t.kind = "leave"
  BY <1>4 DEF Progress, Entitled
<1> QED
  BY <1>1, <1>2, <1>3, <1>4 DEF Progress

MemberStep(w, i) ==
  /\ Running(w) /\ task[w].coll = i
  /\ \/ task[w].met
     \/ task[w].user = row[i].owner
     \/ row'[i] = row[i] /\ task[w].user \in collaborators[i] /\
          collaborators'[i] \in {collaborators[i], collaborators[i] \ {task[w].user}}

LEMMA RunsOfMembers ==
  ASSUME IInv, NEW w \in Workers, Run(w), NEW i \in Ids, row[i] # Null,
         <<row[i], items[i], collaborators[i]>>' # <<row[i], items[i], collaborators[i]>>
  PROVE  MemberStep(w, i)
<1> DEFINE t == task[w]
<1>1. Running(w)
  BY DEF Run
<1>2. /\ t.coll \in Ids /\ Shape(t)
      /\ ~t.met => Progress(t, row[t.coll], items[t.coll], collaborators[t.coll])
  BY <1>1 DEF IInv, Shapes, Progresses, Shape
<1>3. /\ row \in [Ids -> Row \cup {Null, Gone}] /\ items \in [Ids -> SUBSET Entities]
      /\ collaborators \in [Ids -> SUBSET Editors]
  BY DEF IInv, TypeOK
\* Each statement is one of its kinds of requests, and leaves other rows alone.
<1>4. PICK op, s :
        /\ op \in Op /\ s \in Starting(w, op)
        /\ \/ op = "save" /\ Save(w, s)
           \/ op = "join" /\ Join(w, s)
           \/ op = "leave" /\ Leave(w, s)
           \/ op = "put" /\ Put(w, s)
           \/ op = "take" /\ Take(w, s)
           \/ op = "touch" /\ Touch(w, s)
           \/ op = "destroy" /\ Destroy(w, s)
  BY DEF Run, Op
<1>5. s \in t.now /\ s.op = op
  BY <1>4 DEF Starting
<1>6. t.coll = i
  <2>1. CASE op = "save"
    BY <1>2, <1>3, <1>4, <2>1 DEF Save
  <2>2. CASE op = "join"
    BY <1>2, <1>3, <1>4, <2>2 DEF Join
  <2>3. CASE op = "leave"
    BY <1>2, <1>3, <1>4, <2>3 DEF Leave
  <2>4. CASE op = "put"
    BY <1>2, <1>3, <1>4, <2>4 DEF Put
  <2>5. CASE op = "take"
    BY <1>2, <1>3, <1>4, <2>5 DEF Take
  <2>6. CASE op = "touch"
    BY <1>2, <1>3, <1>4, <2>6 DEF Touch, tables
  <2>7. CASE op = "destroy"
    BY <1>2, <1>3, <1>4, <2>7 DEF Destroy
  <2> QED
    BY <1>4, <2>1, <2>2, <2>3, <2>4, <2>5, <2>6, <2>7
<1>7. ~t.met => Entitled(t, row[i], collaborators[i])
  BY <1>2, <1>6, ProgressEntitled
<1>8. /\ op = "save" => t.kind = "edit"
      /\ op = "join" => t.kind = "edit"
      /\ op = "leave" => t.kind = "edit" \/ (t.kind = "leave" /\ s.on = t.on)
      /\ op = "put" => t.kind = "add"
      /\ op = "take" => t.kind = "remove"
      /\ op = "destroy" => t.kind = "delete"
  BY <1>2, <1>5, ByOp
<1>9. CASE t.met \/ t.user = row[i].owner
  BY <1>1, <1>6, <1>9 DEF MemberStep
<1>10. CASE ~t.met /\ t.user # row[i].owner
  <2>1. \/ t.kind \in {"add", "remove"} /\ t.user \in collaborators[i]
        \/ t.kind = "leave" /\ t.on = {t.user} /\ t.user \in collaborators[i]
        \/ t.kind = "leave" /\ t.on \cap collaborators[i] = {}
    BY <1>7, <1>10 DEF Entitled
  <2>2. CASE op = "put"
    BY <1>1, <1>4, <1>6, <1>8, <2>1, <2>2 DEF Put, MemberStep
  <2>3. CASE op = "take"
    BY <1>1, <1>4, <1>6, <1>8, <2>1, <2>3 DEF Take, MemberStep
  <2>4. CASE op = "leave"
    <3>1. /\ UNCHANGED <<row, items>> /\ s.on = t.on /\ t.kind = "leave"
          /\ collaborators'[i] = collaborators[i] \ t.on
      BY <1>2, <1>3, <1>4, <1>6, <1>8, <2>1, <2>4 DEF Leave
    <3>2. t.on = {t.user} /\ t.user \in collaborators[i]
      BY <2>1, <3>1
    <3> QED
      BY <1>1, <1>6, <3>1, <3>2 DEF MemberStep
  <2>5. CASE op = "touch"
    BY <1>4, <2>5 DEF Touch, tables
  <2> QED
    BY <1>4, <1>8, <2>1, <2>2, <2>3, <2>4, <2>5 DEF Op
<1> QED
  BY <1>9, <1>10

\* Only a request changes a collection, and only one of a member: of the owner, or of
\* a collaborator who changes items or removes himself. Whoever is no member any more
\* when a statement of his runs met the request that removed him (auth.ts 218-237,
\* collection.js 322-334).
THEOREM OnlyMembersChange == Spec => MembersOnly
<1> DEFINE Safe == \A i \in Ids :
             row[i] # Null /\ <<row[i], items[i], collaborators[i]>>' #
                                <<row[i], items[i], collaborators[i]>> =>
               \E w \in Workers : MemberStep(w, i)
<1>1. IInv /\ [Next]_vars => [Safe]_vars
  <2> SUFFICES ASSUME IInv, Next, NEW i \in Ids, row[i] # Null,
                      <<row[i], items[i], collaborators[i]>>' #
                        <<row[i], items[i], collaborators[i]>>
               PROVE  \E w \in Workers : MemberStep(w, i)
    OBVIOUS
  <2>1. CASE \E w \in Workers : Run(w)
    BY <2>1, RunsOfMembers
  <2>2. CASE ~\E w \in Workers : Run(w)
    <3>1. ASSUME NEW w \in Workers, NEW t, Begin(w, t)
          PROVE  UNCHANGED tables
      BY <3>1 DEF Begin
    <3>2. ASSUME NEW w \in Workers, NEW e \in Editors, NEW j, NEW x, NEW y, NEW z,
                 \/ Create(w, e, j, x, y) \/ Edit(w, e, x, y, z) \/ Delete(w, e, j)
                 \/ Add(w, e, j, x) \/ Remove(w, e, j, x) \/ RemoveCollaborators(w, e, j, x)
          PROVE  UNCHANGED tables
      BY <3>1, <3>2 DEF Create, Edit, Delete, Add, Remove, RemoveCollaborators
    <3>3. ASSUME NEW e, NEW j, OpenPage(e, j)
          PROVE  UNCHANGED tables
      BY <3>3 DEF OpenPage
    <3>4. UNCHANGED tables
      BY <2>2, <3>2, <3>3 DEF Next
    <3> QED
      BY <3>4 DEF tables
  <2> QED
    BY <2>1, <2>2
<1>2. [Safe]_vars <=>
        [\A i \in Ids : row[i] # Null /\ <<row[i], items[i], collaborators[i]>>' #
                                     <<row[i], items[i], collaborators[i]>> =>
          \E w \in Workers :
            /\ Running(w) /\ task[w].coll = i
            /\ \/ task[w].met
               \/ task[w].user = row[i].owner
               \/ row'[i] = row[i] /\ task[w].user \in collaborators[i] /\
                    collaborators'[i] \in {collaborators[i], collaborators[i] \ {task[w].user}}]_vars
  BY DEF MemberStep
<1> HIDE DEF Safe
<1> QED
  BY <1>1, <1>2, IInvInvariant, PTL DEF Spec, MembersOnly
=============================================================================

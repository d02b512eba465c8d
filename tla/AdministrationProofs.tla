------------------------ MODULE AdministrationProofs ------------------------
(***************************************************************************)
(* Proofs about Administration, for any number of requests at a time and   *)
(* of connections, whatever fails and however often the server is          *)
(* restarted: what the row of an editor says, when connections are lost,   *)
(* and what an answer to the form of a type means.                         *)
(***************************************************************************)
EXTENDS Administration, TLAPS

----------------------------------------------------------------------------
(* The inductive invariant.                                                *)

PrivsForm == [old : Privs, new : Privs]
TypeForm == [old : SUBSET Attributes, new : SUBSET Attributes, label : Labels]
RowType == [privs : Privs, edits : Nat]

\* Each kind of request has its steps and its form, and keeps a connection from one
\* of the steps on. Rows are deleted by one that removed attributes.
Shape(t) ==
  /\ \/ t.kind = "idle" /\ t.conns = 0 /\ ~t.fresh
     \/ /\ t.kind = "privs" /\ t.step \in {"begin", "fetch", "save", "log", "commit"}
        /\ t.form \in PrivsForm /\ t.form.old # t.form.new
        /\ t.conns = IF t.step = "begin" THEN 0 ELSE 1
     \/ /\ t.kind = "profile" /\ t.step \in {"fetch", "save", "write"}
        /\ t.conns = IF t.step = "write" THEN 1 ELSE 0
     \/ /\ t.kind = "edit" /\ t.step \in {"begin", "fetch", "save", "commit"}
        /\ t.conns = IF t.step = "begin" THEN 0 ELSE 1
     \/ /\ t.kind = "type" /\ t.step \in {"begin", "fetch", "save", "remove", "add"}
        /\ t.form \in TypeForm
        /\ t.conns = IF t.step = "begin" THEN 0 ELSE 1
  /\ ~(t.kind = "type" /\ t.step = "add") => t.gone = NoRows

\* TypeOK without the bounds of what counts connections.
TypeInv ==
  /\ editor \in RowType
  /\ log \in Seq(PrivsForm)
  /\ type \in [label : Labels, attrs : [Attributes -> Nat]]
  /\ task \in [Workers -> Task]
  /\ free \in Nat
  /\ kept \in [Ends -> Nat] /\ rowKept \in BOOLEAN /\ goneKept \subseteq Attributes
  /\ shown \in [privs : SUBSET Privs, attrs : SUBSET SUBSET Attributes]
  /\ counted \in Nat /\ stale \in BOOLEAN
  /\ requests \in Nat /\ faults \in Nat /\ crashes \in Nat

Shapes == \A w \in Workers : Shape(task[w])

\* What is read is what is there, until somebody else saves the row.
FreshRow(t, ed) ==
  /\ t.kind \in {"privs", "profile", "edit"} /\ t.step \in {"save", "write"} => t.row = ed
  /\ t.kind = "privs" /\ t.step \in {"log", "commit"} =>
       t.row = [ed EXCEPT !.privs = t.form.new]
  /\ t.kind = "edit" /\ t.step = "commit" => t.row = [ed EXCEPT !.edits = @ + 1]
FreshRows == \A w \in Workers : task[w].fresh => FreshRow(task[w], editor)

\* Until privileges have been logged they are everywhere the first ones.
FirstSeen(t) ==
  /\ t.kind = "privs" => t.form.old = FirstPrivs
  /\ \/ t.kind = "privs" /\ t.step = "save"
     \/ t.kind = "profile" /\ t.step \in {"save", "write"}
     \/ t.kind = "edit" /\ t.step \in {"save", "commit"}
     => t.row.privs = FirstPrivs
Unlogged ==
  log = <<>> => /\ editor.privs = FirstPrivs /\ shown.privs \subseteq {FirstPrivs}
                /\ \A w \in Workers : FirstSeen(task[w])

\* Deleted rows are there until the transaction is committed, and are of one
\* transaction only.
Locks ==
  \A a \in Attributes : \A w \in Workers :
    /\ task[w].gone[a] <= type.attrs[a]
    /\ \A v \in Workers : task[w].gone[a] > 0 /\ task[v].gone[a] > 0 => v = w

\* How far a form about the type is that no other has met.
Sofar(t, attrs) ==
  IF t.step = "add"
  THEN /\ t.todo \subseteq Added(t)
       /\ attrs = Once(t.form.old \cup (Added(t) \ t.todo))
       /\ t.gone = Once(Removed(t))
  ELSE attrs = Once(t.form.old)
AloneForms ==
  \A w \in Workers : task[w].kind = "type" /\ task[w].alone =>
    /\ \A v \in Workers \ {w} : task[v].kind # "type"
    /\ task[w].step \in {"remove", "add"} => type.label = task[w].form.label
    /\ Sofar(task[w], type.attrs)

IInv ==
  /\ TypeInv /\ Shapes /\ FreshRows /\ NothingOverwritten /\ Unlogged /\ Locks /\ AloneForms

----------------------------------------------------------------------------
(* Requests as records.                                                    *)

\* A request that another one has met, or whose row another one has saved.
Weaker(n, t) ==
  /\ n.kind = t.kind /\ n.step = t.step /\ n.form = t.form /\ n.row = t.row
  /\ n.todo = t.todo /\ n.conns = t.conns /\ n.wrote = t.wrote /\ n.gone = t.gone
  /\ n.fresh => t.fresh
  /\ n.alone => t.alone

OthersWeaker(w) == \A v \in Workers \ {w} : Weaker(task'[v], task[v])

LEMMA IdleTyped ==
  /\ Idle \in Task /\ Shape(Idle) /\ NoRow \in RowType /\ NoRows \in [Attributes -> Nat]
  /\ Idle.kind = "idle" /\ ~Idle.fresh /\ ~Idle.alone /\ Idle.gone = NoRows /\ FirstSeen(Idle)
<1>1. NoRow \in RowType /\ NoRows \in [Attributes -> Nat]
  BY FirstAssumption DEF NoRow, RowType, NoRows
<1>2. <<>> \in Form /\ {} \in SUBSET Attributes
  BY DEF Form
<1>3. Idle \in Task
  BY <1>1, <1>2 DEF Idle, Task, RowType
<1>4. /\ Idle.kind = "idle" /\ ~Idle.fresh /\ ~Idle.alone /\ Idle.gone = NoRows /\ Idle.conns = 0
  BY DEF Idle
<1>5. Shape(Idle) /\ FirstSeen(Idle)
  BY <1>4 DEF Shape, FirstSeen
<1> QED
  BY <1>1, <1>3, <1>4, <1>5

LEMMA TaskFields ==
  ASSUME NEW t \in Task
  PROVE  /\ t.kind \in Kinds \cup {"idle"} /\ t.form \in Form /\ t.row \in RowType
         /\ t.step \in {"begin", "fetch", "save", "write", "log", "remove", "add", "commit"}
         /\ t.todo \subseteq Attributes /\ t.conns \in {0, 1} /\ t.wrote \in BOOLEAN
         /\ t.gone \in [Attributes -> Nat] /\ t.fresh \in BOOLEAN /\ t.alone \in BOOLEAN
<1>1. 0..1 = {0, 1}
  OBVIOUS
<1> QED
  BY <1>1 DEF Task, RowType

LEMMA WeakerKeeps ==
  ASSUME NEW t, NEW n, Weaker(n, t)
  PROVE  /\ Shape(t) => Shape(n)
         /\ FirstSeen(t) <=> FirstSeen(n)
         /\ \A ed : FreshRow(t, ed) <=> FreshRow(n, ed)
         /\ \A attrs : Sofar(t, attrs) <=> Sofar(n, attrs)
<1>1. Shape(t) => Shape(n)
  BY DEF Weaker, Shape
<1>2. FirstSeen(t) <=> FirstSeen(n)
  BY DEF Weaker, FirstSeen
<1>3. \A ed : FreshRow(t, ed) <=> FreshRow(n, ed)
  BY DEF Weaker, FreshRow
<1>4. \A attrs : Sofar(t, attrs) <=> Sofar(n, attrs)
  BY DEF Weaker, Sofar, Added, Removed
<1> QED
  BY <1>1, <1>2, <1>3, <1>4

----------------------------------------------------------------------------
(* What a step of one request has to keep, part by part.                   *)

LEMMA ShapesKept ==
  ASSUME Shapes, NEW w \in Workers, OthersWeaker(w), Shape(task'[w])
  PROVE  Shapes'
<1> SUFFICES ASSUME NEW v \in Workers
             PROVE  Shape(task'[v])
  BY DEF Shapes
<1>1. CASE v = w
  BY <1>1
<1>2. CASE v # w
  <2>1. Shape(task[v]) /\ Weaker(task'[v], task[v])
    BY <1>2 DEF Shapes, OthersWeaker
  <2> QED
    BY <2>1, WeakerKeeps
<1> QED
  BY <1>1, <1>2

LEMMA FreshKept ==
  ASSUME FreshRows, NEW w \in Workers, OthersWeaker(w),
         editor' = editor \/ \A v \in Workers \ {w} : ~task'[v].fresh,
         task'[w].fresh => FreshRow(task'[w], editor')
  PROVE  FreshRows'
<1> SUFFICES ASSUME NEW v \in Workers, task'[v].fresh
             PROVE  FreshRow(task'[v], editor')
  BY DEF FreshRows
<1>1. CASE v = w
  BY <1>1
<1>2. CASE v # w
  <2>1. Weaker(task'[v], task[v]) /\ editor' = editor
    BY <1>2 DEF OthersWeaker
  <2>2. FreshRow(task[v], editor)
    BY <2>1 DEF Weaker, FreshRows
  <2> QED
    BY <2>1, <2>2, WeakerKeeps
<1> QED
  BY <1>1, <1>2

LEMMA UnloggedKept ==
  ASSUME Unlogged, NEW w \in Workers, OthersWeaker(w),
         log' = <<>> => /\ log = <<>> /\ FirstSeen(task'[w])
                        /\ editor'.privs = FirstPrivs /\ shown'.privs \subseteq {FirstPrivs}
  PROVE  Unlogged'
<1> SUFFICES ASSUME log' = <<>>, NEW v \in Workers
             PROVE  FirstSeen(task'[v])
  BY DEF Unlogged
<1>1. CASE v = w
  BY <1>1
<1>2. CASE v # w
  <2>1. Weaker(task'[v], task[v]) /\ FirstSeen(task[v])
    BY <1>2 DEF OthersWeaker, Unlogged
  <2> QED
    BY <2>1, WeakerKeeps
<1> QED
  BY <1>1, <1>2

LEMMA LocksKept ==
  ASSUME Locks, NEW w \in Workers, OthersWeaker(w),
         task \in [Workers -> Task], task' \in [Workers -> Task],
         type.attrs \in [Attributes -> Nat], type'.attrs \in [Attributes -> Nat],
         \A a \in Attributes :
           /\ task'[w].gone[a] <= type'.attrs[a]
           /\ \A v \in Workers \ {w} :
                /\ task[v].gone[a] > 0 => type'.attrs[a] >= type.attrs[a]
                /\ task[v].gone[a] > 0 => task'[w].gone[a] = 0
  PROVE  Locks'
<1>1. \A v \in Workers, a \in Attributes : task[v].gone[a] \in Nat /\ task'[v].gone[a] \in Nat
  BY TaskFields
<1>2. \A v \in Workers \ {w} : task'[v].gone = task[v].gone
  BY DEF OthersWeaker, Weaker
<1>3. ASSUME NEW a \in Attributes, NEW u \in Workers
      PROVE  task'[u].gone[a] <= type'.attrs[a]
  <2>1. CASE u = w
    BY <2>1
  <2>2. CASE u # w
    <3>1. task[u].gone[a] <= type.attrs[a] /\ task'[u].gone = task[u].gone
      BY <1>2, <2>2 DEF Locks
    <3>2. task[u].gone[a] > 0 => type'.attrs[a] >= type.attrs[a]
      BY <2>2
    <3>3. type.attrs[a] \in Nat /\ type'.attrs[a] \in Nat /\ task[u].gone[a] \in Nat
      BY <1>1
    <3> QED
      BY <3>1, <3>2, <3>3
  <2> QED
    BY <2>1, <2>2
<1>4. ASSUME NEW a \in Attributes, NEW u \in Workers, NEW v \in Workers,
             task'[u].gone[a] > 0, task'[v].gone[a] > 0
      PROVE  v = u
  <2>1. CASE u # w /\ v # w
    BY <1>2, <1>4, <2>1 DEF Locks
  <2>2. CASE u = w /\ v # w
    BY <1>2, <1>4, <2>2
  <2>3. CASE u # w /\ v = w
    BY <1>2, <1>4, <2>3
  <2> QED
    BY <2>1, <2>2, <2>3
<1> QED
  BY <1>3, <1>4 DEF Locks

\* What a request is to others, when it is about the type and none met it.
AloneForm(n, w, ty) ==
  /\ n.step \in {"remove", "add"} => ty.label = n.form.label
  /\ Sofar(n, ty.attrs)

LEMMA AloneKept ==
  ASSUME AloneForms, NEW w \in Workers, OthersWeaker(w),
         \/ type' = type
         \/ task[w].kind = "type",
         task'[w].kind = "type" => task[w].kind = "type" \/
           \A v \in Workers \ {w} : task'[v].kind = "type" => ~task'[v].alone,
         task'[w].kind = "type" /\ task'[w].alone =>
           /\ \A v \in Workers \ {w} : task[v].kind # "type"
           /\ AloneForm(task'[w], w, type')
  PROVE  AloneForms'
<1> SUFFICES ASSUME NEW u \in Workers, task'[u].kind = "type", task'[u].alone
             PROVE  /\ \A v \in Workers \ {u} : task'[v].kind # "type"
                    /\ AloneForm(task'[u], u, type')
  BY DEF AloneForms, AloneForm
<1>1. \A v \in Workers \ {w} : task'[v].kind = task[v].kind
  BY DEF OthersWeaker, Weaker
<1>2. CASE u = w
  BY <1>1, <1>2
<1>3. CASE u # w
  <2>1. Weaker(task'[u], task[u]) /\ task[u].kind = "type" /\ task[u].alone
    BY <1>3 DEF OthersWeaker, Weaker
  <2>2. /\ \A v \in Workers \ {u} : task[v].kind # "type"
        /\ AloneForm(task[u], u, type)
    BY <2>1 DEF AloneForms, AloneForm
  <2>3. type' = type
    BY <1>3, <2>2
  <2>4. AloneForm(task'[u], u, type')
    BY <2>1, <2>2, <2>3, WeakerKeeps DEF AloneForm, Weaker
  <2>5. \A v \in Workers \ {u} : task'[v].kind # "type"
    BY <1>1, <1>3, <2>1, <2>2
  <2> QED
    BY <2>4, <2>5
<1> QED
  BY <1>2, <1>3

\* A step that leaves the tables and what is known of them alone.
Quiet == UNCHANGED <<editor, log, type, shown, counted, stale>>

\* Rows a request has deleted, and that no other one has.
OwnRows(n, w) ==
  \A a \in Attributes :
    /\ n.gone[a] <= type.attrs[a]
    /\ \A v \in Workers \ {w} : task[v].gone[a] > 0 => n.gone[a] = 0

LEMMA QuietKeeps ==
  ASSUME IInv, TypeInv', Quiet, NEW w \in Workers, OthersWeaker(w), Shape(task'[w]),
         task'[w].fresh => FreshRow(task'[w], editor),
         log = <<>> => FirstSeen(task'[w]),
         OwnRows(task'[w], w),
         task'[w].kind = "type" => task[w].kind = "type" \/
           \A v \in Workers \ {w} : task'[v].kind = "type" => ~task'[v].alone,
         task'[w].kind = "type" /\ task'[w].alone =>
           /\ \A v \in Workers \ {w} : task[v].kind # "type"
           /\ AloneForm(task'[w], w, type)
  PROVE  IInv'
<1>1. /\ editor' = editor /\ log' = log /\ type' = type /\ shown' = shown
      /\ counted' = counted /\ stale' = stale
  BY DEF Quiet
<1>2. Shapes'
  BY ShapesKept DEF IInv
<1>3. FreshRows'
  BY <1>1, FreshKept DEF IInv
<1>4. Unlogged'
  BY <1>1, UnloggedKept DEF IInv, Unlogged
<1>5. NothingOverwritten'
  BY <1>1 DEF IInv, NothingOverwritten
<1>6. Locks'
  <2>1. /\ task \in [Workers -> Task] /\ task' \in [Workers -> Task]
        /\ type.attrs \in [Attributes -> Nat] /\ type'.attrs \in [Attributes -> Nat]
    BY <1>1 DEF IInv, TypeInv
  <2>2. \A a \in Attributes : type'.attrs[a] >= type.attrs[a]
    BY <1>1, <2>1
  <2> QED
    BY <1>1, <2>1, <2>2, LocksKept DEF IInv, OwnRows
<1>7. AloneForms'
  BY <1>1, AloneKept DEF IInv
<1> QED
  BY <1>2, <1>3, <1>4, <1>5, <1>6, <1>7 DEF IInv

LEMMA NoRowsOwned ==
  ASSUME IInv, NEW w \in Workers, NEW n, n.gone = NoRows
  PROVE  OwnRows(n, w)
BY DEF NoRows, OwnRows, IInv, TypeInv

LEMMA IdleKeeps ==
  ASSUME IInv, TypeInv', Quiet, NEW w \in Workers, OthersWeaker(w), task'[w] = Idle
  PROVE  IInv'
BY IdleTyped, NoRowsOwned, QuietKeeps

\* The next step of a request that deletes no rows.
LEMMA StepKeeps ==
  ASSUME IInv, TypeInv', Quiet, NEW w \in Workers, OthersWeaker(w), Shape(task'[w]),
         task'[w].kind = task[w].kind, task'[w].gone = NoRows,
         task'[w].fresh => FreshRow(task'[w], editor),
         log = <<>> => FirstSeen(task'[w]),
         task'[w].alone => task[w].alone,
         task[w].kind = "type" => /\ task[w].form = task'[w].form
                                  /\ task[w].step \in {"begin", "fetch"}
                                  /\ task'[w].step \in {"fetch", "save"}
  PROVE  IInv'
<1>1. task'[w].kind = "type" /\ task'[w].alone =>
        /\ \A v \in Workers \ {w} : task[v].kind # "type"
        /\ AloneForm(task'[w], w, type)
  <2> HAVE task'[w].kind = "type" /\ task'[w].alone
  <2>1. /\ \A v \in Workers \ {w} : task[v].kind # "type"
        /\ Sofar(task[w], type.attrs)
    BY DEF IInv, AloneForms
  <2> QED
    BY <2>1 DEF AloneForm, Sofar
<1> QED
  BY <1>1, NoRowsOwned, QuietKeeps

\* One request goes on, the others stay as they are.
LEMMA OneStep ==
  ASSUME task \in [Workers -> Task], NEW w \in Workers, NEW n \in Task,
         task' = [task EXCEPT ![w] = n]
  PROVE  /\ task' \in [Workers -> Task] /\ task'[w] = n /\ OthersWeaker(w)
         /\ \A v \in Workers \ {w} : task'[v] = task[v]
BY DEF OthersWeaker, Weaker

----------------------------------------------------------------------------
(* The steps.                                                              *)

LEMMA InitKeeps == Init => IInv
<1> SUFFICES ASSUME Init PROVE IInv
  OBVIOUS
<1>1. \A w \in Workers : task[w] = Idle
  BY DEF Init
<1>2. \A S \in SUBSET Attributes : Once(S) \in [Attributes -> Nat]
  BY DEF Once
<1>3. TypeInv
  <2>1. /\ editor \in RowType /\ log \in Seq(PrivsForm)
        /\ type \in [label : Labels, attrs : [Attributes -> Nat]]
    BY <1>2, IdleTyped, FirstAssumption DEF Init
  <2>2. task \in [Workers -> Task]
    BY IdleTyped DEF Init
  <2>3. /\ free \in Nat /\ kept \in [Ends -> Nat] /\ rowKept \in BOOLEAN
        /\ goneKept \subseteq Attributes
    BY BoundAssumption DEF Init
  <2>4. shown \in [privs : SUBSET Privs, attrs : SUBSET SUBSET Attributes]
    BY FirstAssumption DEF Init
  <2>5. counted \in Nat /\ requests \in Nat /\ faults \in Nat /\ crashes \in Nat
    BY DEF Init
  <2>6. stale \in BOOLEAN
    BY DEF Init
  <2> QED
    BY <2>1, <2>2, <2>3, <2>4, <2>5, <2>6 DEF TypeInv
<1>4. Shapes /\ FreshRows /\ AloneForms
  BY <1>1, IdleTyped DEF Shapes, FreshRows, AloneForms
<1>5. Unlogged /\ NothingOverwritten
  BY <1>1, IdleTyped DEF Init, Unlogged, NothingOverwritten, NoRow
<1>6. Locks
  BY <1>1, <1>3, IdleTyped DEF Locks, NoRows, TypeInv
<1> QED
  BY <1>3, <1>4, <1>5, <1>6 DEF IInv

\* A request that comes in.
LEMMA RequestKeeps ==
  ASSUME IInv, NEW w \in Workers, NEW kind \in Kinds, NEW form \in Form,
         NEW step \in {"begin", "fetch"}, Request(w, kind, form, step),
         kind = "profile" <=> step = "fetch",
         kind = "privs" => form \in PrivsForm /\ form.old # form.new /\ form.old \in shown.privs,
         kind = "type" => form \in TypeForm
  PROVE  IInv'
<1> DEFINE others == {v \in Workers : task[v].kind = "type" /\ kind = "type"}
           alone == others = {} /\ kind = "type" /\ type.attrs = Once(form.old)
           n == [Idle EXCEPT !.kind = kind, !.form = form, !.step = step, !.alone = alone]
<1>1. /\ task' = [v \in Workers |-> IF v = w THEN n
                    ELSE IF v \in others THEN [task[v] EXCEPT !.alone = FALSE] ELSE task[v]]
      /\ Quiet /\ UNCHANGED <<free, kept, rowKept, goneKept, faults, crashes>>
      /\ requests' = requests + 1 /\ task[w].kind = "idle"
  BY DEF Request, Quiet, tables
<1>2. alone \in BOOLEAN
  OBVIOUS
<1> HIDE DEF alone
<1>3. n \in Task
  BY <1>2, IdleTyped DEF Task
<1>4. /\ n.kind = kind /\ n.form = form /\ n.step = step /\ n.conns = 0 /\ ~n.fresh
      /\ n.gone = NoRows /\ n.alone = alone
  BY DEF Idle
<1> HIDE DEF n, others
<1>5. \A v \in Workers \ {w} :
        IF v \in others THEN task'[v] = [task[v] EXCEPT !.alone = FALSE]
        ELSE task'[v] = task[v]
  BY <1>1
<1>6. task \in [Workers -> Task]
  BY DEF IInv, TypeInv
<1>7. \A t \in Task : /\ [t EXCEPT !.alone = FALSE] \in Task
                      /\ Weaker([t EXCEPT !.alone = FALSE], t)
                      /\ ~[t EXCEPT !.alone = FALSE].alone
  BY DEF Task, Weaker
<1>8. OthersWeaker(w) /\ \A v \in Workers \ {w} : task'[v] \in Task
  <2> SUFFICES ASSUME NEW v \in Workers \ {w}
               PROVE  Weaker(task'[v], task[v]) /\ task'[v] \in Task
    BY DEF OthersWeaker
  <2>1. CASE v \in others
    BY <1>5, <1>6, <1>7, <2>1
  <2>2. CASE v \notin others
    BY <1>5, <1>6, <2>2 DEF Weaker
  <2> QED
    BY <2>1, <2>2
<1>9. task'[w] = n /\ task' \in [Workers -> Task]
  BY <1>1, <1>3, <1>8
<1>10. TypeInv'
  BY <1>1, <1>9 DEF IInv, TypeInv, Quiet
<1>11. Shape(n)
  BY <1>4 DEF Shape, Kinds
<1>12. log = <<>> => FirstSeen(n)
  <2> HAVE log = <<>>
  <2>1. kind = "privs" => form.old = FirstPrivs
    BY DEF IInv, Unlogged
  <2> QED
    BY <1>4, <2>1 DEF FirstSeen
<1>13. kind = "type" => \A v \in Workers \ {w} : task'[v].kind = "type" => ~task'[v].alone
  <2> SUFFICES ASSUME kind = "type", NEW v \in Workers \ {w}, task'[v].kind = "type"
               PROVE  ~task'[v].alone
    OBVIOUS
  <2>1. task[v].kind = "type"
    BY <1>8 DEF OthersWeaker, Weaker
  <2>2. v \in others
    BY <2>1 DEF others
  <2> QED
    BY <1>5, <1>6, <1>7, <2>2
<1>14. n.kind = "type" /\ n.alone =>
         /\ \A v \in Workers \ {w} : task[v].kind # "type"
         /\ AloneForm(n, w, type)
  <2> HAVE n.kind = "type" /\ n.alone
  <2>1. others = {} /\ kind = "type" /\ type.attrs = Once(form.old)
    BY <1>4 DEF alone
  <2> QED
    BY <1>4, <2>1 DEF AloneForm, Sofar, others
<1> QED
  BY <1>1, <1>4, <1>8, <1>9, <1>10, <1>11, <1>12, <1>13, <1>14, NoRowsOwned, QuietKeeps

LEMMA BeginKeeps ==
  ASSUME IInv, NEW w \in Workers, Begin(w)
  PROVE  IInv'
<1>1. CASE ChangePrivs(w)
  <2>1. PICK old \in shown.privs, new \in Privs :
          old # new /\ Request(w, "privs", [old |-> old, new |-> new], "begin")
    BY <1>1 DEF ChangePrivs
  <2> DEFINE form == [old |-> old, new |-> new]
  <2>2. old \in Privs
    BY DEF IInv, TypeInv
  <2>3. form \in PrivsForm /\ form \in Form /\ form.old = old /\ form.new = new
    BY <2>2 DEF PrivsForm, Form
  <2>4. Request(w, "privs", form, "begin")
    BY <2>1
  <2> HIDE DEF form
  <2> QED
    BY <2>1, <2>3, <2>4, RequestKeeps DEF Kinds
<1>2. CASE EditProfile(w)
  BY <1>2, RequestKeeps DEF EditProfile, Kinds, Form
<1>3. CASE Edit(w)
  BY <1>3, RequestKeeps DEF Edit, Kinds, Form
<1>4. CASE EditType(w)
  <2>1. PICK old \in shown.attrs, new \in SUBSET Attributes, label \in Labels :
          Request(w, "type", [old |-> old, new |-> new, label |-> label], "begin")
    BY <1>4 DEF EditType
  <2> DEFINE form == [old |-> old, new |-> new, label |-> label]
  <2>2. old \in SUBSET Attributes
    BY DEF IInv, TypeInv
  <2>3. form \in TypeForm /\ form \in Form
    BY <2>2 DEF TypeForm, Form
  <2>4. Request(w, "type", form, "begin")
    BY <2>1
  <2> HIDE DEF form
  <2> QED
    BY <2>3, <2>4, RequestKeeps DEF Kinds
<1> QED
  BY <1>1, <1>2, <1>3, <1>4 DEF Begin

LEMMA QuietTyped ==
  ASSUME TypeInv, Quiet, task' \in [Workers -> Task], free' \in Nat,
         kept' \in [Ends -> Nat], rowKept' \in BOOLEAN, goneKept' \subseteq Attributes,
         requests' = requests, faults' \in Nat, crashes' \in Nat
  PROVE  TypeInv'
BY DEF TypeInv, Quiet

LEMMA Tables ==
  ASSUME UNCHANGED <<tables, shown, counted, stale>>
  PROVE  Quiet
BY DEF tables, Quiet

\* It is answered and its transaction is left, with what it has deleted.
Left(w, end) == \E deleted \in SUBSET Attributes : Abandoned(w, end, deleted)

LEMMA FailsLeft ==
  ASSUME NEW w, Fails(w)
  PROVE  Ended(w) \/ Left(w, "failed")
BY DEF Fails, Left

\* A request is answered, whether its transaction is ended or left.
LEMMA EndedTyped ==
  ASSUME TypeInv, NEW w \in Workers, Ended(w) \/ \E end \in Ends : Left(w, end)
  PROVE  /\ task' = [task EXCEPT ![w] = Idle] /\ free' \in Nat /\ kept' \in [Ends -> Nat]
         /\ rowKept' \in BOOLEAN /\ goneKept' \subseteq Attributes
<1>1. task[w].conns \in Nat /\ task[w].wrote \in BOOLEAN
  <2>1. task[w] \in Task
    BY DEF TypeInv
  <2>2. task[w].conns \in {0, 1} /\ task[w].wrote \in BOOLEAN
    BY <2>1, TaskFields
  <2> QED
    BY <2>2
<1>2. CASE Ended(w)
  BY <1>1, <1>2 DEF Ended, TypeInv
<1>3. ASSUME NEW end \in Ends, Left(w, end)
      PROVE  /\ task' = [task EXCEPT ![w] = Idle] /\ free' \in Nat /\ kept' \in [Ends -> Nat]
             /\ rowKept' \in BOOLEAN /\ goneKept' \subseteq Attributes
  <2>1. task' = [task EXCEPT ![w] = Idle] /\ free' \in Nat
    BY <1>3 DEF Left, Abandoned, TypeInv
  <2>2. kept' \in [Ends -> Nat]
    BY <1>1, <1>3 DEF Left, Abandoned, TypeInv
  <2>3. rowKept' \in BOOLEAN
    BY <1>1, <1>3 DEF Left, Abandoned, TypeInv
  <2>4. goneKept' \subseteq Attributes
    BY <1>3 DEF Left, Abandoned, TypeInv
  <2> QED
    BY <2>1, <2>2, <2>3, <2>4
<1> QED
  BY <1>2, <1>3

\* An answer that changes no table.
LEMMA QuietEnd ==
  ASSUME IInv, NEW w \in Workers, Ended(w) \/ \E end \in Ends : Left(w, end), Quiet,
         requests' = requests, faults' \in Nat, crashes' \in Nat
  PROVE  IInv'
<1>1. /\ task' = [task EXCEPT ![w] = Idle] /\ free' \in Nat /\ kept' \in [Ends -> Nat]
      /\ rowKept' \in BOOLEAN /\ goneKept' \subseteq Attributes
  BY EndedTyped DEF IInv
<1>2. task' \in [Workers -> Task] /\ task'[w] = Idle /\ OthersWeaker(w)
  BY <1>1, IdleTyped, OneStep DEF IInv, TypeInv
<1>3. TypeInv'
  BY <1>1, <1>2, QuietTyped DEF IInv
<1> QED
  BY <1>2, <1>3, IdleKeeps

LEMMA FailsKeeps ==
  ASSUME IInv, NEW w \in Workers, Fails(w), faults' \in Nat
  PROVE  IInv'
<1>1. Ended(w) \/ \E end \in Ends : Left(w, end)
  BY FailsLeft DEF Ends
<1>2. Quiet /\ requests' = requests /\ crashes' \in Nat
  BY Tables DEF Fails, IInv, TypeInv
<1> QED
  BY <1>1, <1>2, QuietEnd

\* A request goes on and nothing else happens.
LEMMA QuietStep ==
  ASSUME IInv, NEW w \in Workers, NEW n \in Task, task' = [task EXCEPT ![w] = n],
         free' \in Nat, UNCHANGED <<tables, kept, rowKept, goneKept, shown, counted, stale, bounds>>,
         Shape(n), n.kind = task[w].kind, n.gone = NoRows,
         n.fresh => FreshRow(n, editor),
         log = <<>> => FirstSeen(n),
         n.alone => task[w].alone,
         task[w].kind = "type" => /\ task[w].form = n.form
                                  /\ task[w].step \in {"begin", "fetch"}
                                  /\ n.step \in {"fetch", "save"}
  PROVE  IInv'
<1>1. task' \in [Workers -> Task] /\ task'[w] = n /\ OthersWeaker(w)
  BY OneStep DEF IInv, TypeInv
<1>2. Quiet /\ UNCHANGED <<requests, faults, crashes>>
  BY Tables DEF bounds
<1>3. TypeInv'
  BY <1>1, <1>2, QuietTyped DEF IInv, TypeInv
<1> QED
  BY <1>1, <1>2, <1>3, StepKeeps

\* What IInv says of one request.
LEMMA OfOne ==
  ASSUME IInv, NEW w \in Workers
  PROVE  /\ task[w] \in Task /\ Shape(task[w])
         /\ task[w].fresh => FreshRow(task[w], editor)
         /\ log = <<>> => FirstSeen(task[w])
         /\ ~(task[w].kind = "type" /\ task[w].step = "add") => task[w].gone = NoRows
BY DEF IInv, TypeInv, Shapes, FreshRows, Unlogged, Shape

LEMMA ConnectKeeps ==
  ASSUME IInv, NEW w \in Workers,
         \/ \E kind \in {"privs", "edit", "type"} : Connect(w, kind, "begin", "fetch")
         \/ Connect(w, "profile", "save", "write")
  PROVE  IInv'
<1> DEFINE t == task[w]
<1>1. PICK next :
        /\ \/ t.kind \in {"privs", "edit", "type"} /\ t.step = "begin" /\ next = "fetch"
           \/ t.kind = "profile" /\ t.step = "save" /\ next = "write"
        /\ Connect(w, t.kind, t.step, next)
  BY DEF Connect, At
<1> DEFINE n == [t EXCEPT !.step = next, !.conns = t.conns + 1]
<1>2. /\ t \in Task /\ Shape(t) /\ (t.fresh => FreshRow(t, editor))
      /\ (log = <<>> => FirstSeen(t)) /\ t.gone = NoRows
  BY <1>1, OfOne
<1>3. t.conns = 0
  BY <1>1, <1>2 DEF Shape
<1>4. task' = [task EXCEPT ![w] = n]
  BY <1>1 DEF Connect, IInv, TypeInv
<1>5. free' \in Nat /\ UNCHANGED <<tables, kept, rowKept, goneKept, shown, counted, stale, bounds>>
  BY <1>1 DEF Connect, Take, IInv, TypeInv
<1>6. /\ n \in Task /\ n.step = next /\ n.conns = 1 /\ n.kind = t.kind /\ n.form = t.form
      /\ n.row = t.row /\ n.gone = t.gone /\ n.fresh = t.fresh /\ n.alone = t.alone
  <2> HIDE DEF t
  <2>1. n = [t EXCEPT !.step = next, !.conns = 1] /\ 1 \in 0..1
    BY <1>3
  <2> HIDE DEF n
  <2> QED
    BY <1>1, <1>2, <2>1 DEF Task
<1> HIDE DEF n, t
<1>7. Shape(n)
  BY <1>1, <1>2, <1>6 DEF Shape
<1>8. n.fresh => FreshRow(n, editor)
  BY <1>1, <1>2, <1>6 DEF FreshRow
<1>9. log = <<>> => FirstSeen(n)
  BY <1>1, <1>2, <1>6 DEF FirstSeen
<1>10. t.kind = "type" => t.form = n.form /\ t.step \in {"begin", "fetch"} /\ n.step \in {"fetch", "save"}
  BY <1>1, <1>6
<1> QED
  BY <1>2, <1>4, <1>5, <1>6, <1>7, <1>8, <1>9, <1>10, QuietStep DEF t

LEMMA FetchKeeps ==
  ASSUME IInv, NEW w \in Workers, Fetch(w)
  PROVE  IInv'
<1> DEFINE t == task[w]
<1>1. /\ t.kind \in {"privs", "profile", "edit"} /\ t.step = "fetch"
      /\ UNCHANGED <<tables, shown, counted, stale, bounds>>
  BY DEF Fetch
<1>2. CASE t.kind = "privs" /\ NoChange(t)
  <2>1. \E end \in Ends : Left(w, end)
    BY <1>2 DEF Fetch, Ends, Left
  <2>2. Quiet /\ requests' = requests /\ faults' \in Nat /\ crashes' \in Nat
    BY <1>1, Tables DEF bounds, IInv, TypeInv
  <2> QED
    BY <2>1, <2>2, QuietEnd
<1>3. CASE ~(t.kind = "privs" /\ NoChange(t))
  <2> DEFINE n == [t EXCEPT !.step = "save", !.row = editor, !.fresh = TRUE]
  <2>1. task' = [task EXCEPT ![w] = n] /\ UNCHANGED <<free, kept, rowKept, goneKept>>
    BY <1>3 DEF Fetch, IInv, TypeInv
  <2>2. /\ t \in Task /\ Shape(t) /\ (log = <<>> => FirstSeen(t)) /\ t.gone = NoRows
    BY <1>1, OfOne
  <2>3. editor \in RowType /\ free \in Nat
    BY DEF IInv, TypeInv
  <2> HIDE DEF t
  <2>4. /\ n \in Task /\ n.step = "save" /\ n.row = editor /\ n.conns = t.conns /\ n.kind = t.kind
        /\ n.form = t.form /\ n.gone = t.gone /\ n.alone = t.alone
    BY <2>2, <2>3 DEF Task, RowType
  <2> HIDE DEF n
  <2>5. Shape(n)
    BY <1>1, <2>2, <2>4 DEF Shape
  <2>6. FreshRow(n, editor)
    BY <2>4 DEF FreshRow
  <2>7. log = <<>> => FirstSeen(n)
    BY <1>1, <2>2, <2>4 DEF FirstSeen, IInv, Unlogged
  <2> QED
    BY <1>1, <2>1, <2>2, <2>3, <2>4, <2>5, <2>6, <2>7, QuietStep DEF t
<1> QED
  BY <1>2, <1>3

LEMMA WriteKeeps ==
  ASSUME IInv, NEW w \in Workers, Write(w)
  PROVE  IInv'
<1> DEFINE t == task[w]
           next == IF t.kind = "privs" THEN "log" ELSE "commit"
           r == Saved(t)
           n == [t EXCEPT !.wrote = TRUE, !.row = r, !.step = next]
<1>1. /\ t.kind \in {"privs", "edit"} /\ t.step = "save"
      /\ UNCHANGED <<tables, free, kept, rowKept, goneKept, shown, counted, stale, bounds>>
  BY DEF Write, At
<1>2. task' = [task EXCEPT ![w] = n]
  BY DEF Write, IInv, TypeInv
<1>3. /\ t \in Task /\ Shape(t) /\ (log = <<>> => FirstSeen(t)) /\ t.gone = NoRows
      /\ (t.fresh => FreshRow(t, editor))
  BY <1>1, OfOne
<1>4. free \in Nat /\ editor \in RowType
  BY DEF IInv, TypeInv
<1> HIDE DEF t
<1>5. t.row \in RowType /\ (t.kind = "privs" => t.form.new \in Privs)
  BY <1>1, <1>3, TaskFields DEF Shape, PrivsForm
<1>6. r = IF t.kind = "privs" THEN [t.row EXCEPT !.privs = t.form.new]
          ELSE [t.row EXCEPT !.edits = t.row.edits + 1]
  BY <1>1, <1>5 DEF Saved, RowType
<1>7. r \in RowType /\ (t.kind = "edit" => r.privs = t.row.privs)
  BY <1>1, <1>5, <1>6 DEF RowType
<1> HIDE DEF r
<1>8. /\ n \in Task /\ n.row = r /\ n.conns = t.conns /\ n.kind = t.kind /\ n.step = next
      /\ n.form = t.form /\ n.gone = t.gone /\ n.alone = t.alone /\ n.fresh = t.fresh
  BY <1>3, <1>7 DEF Task, RowType
<1> HIDE DEF n
<1>9. Shape(n)
  BY <1>1, <1>3, <1>8 DEF Shape
<1>10. n.fresh => FreshRow(n, editor)
  <2> HAVE n.fresh
  <2>1. t.row = editor
    BY <1>1, <1>3, <1>8 DEF FreshRow
  <2> QED
    BY <1>1, <1>6, <1>8, <2>1 DEF FreshRow
<1>11. log = <<>> => FirstSeen(n)
  BY <1>1, <1>3, <1>7, <1>8 DEF FirstSeen
<1> QED
  BY <1>1, <1>2, <1>3, <1>4, <1>8, <1>9, <1>10, <1>11, QuietStep DEF t

LEMMA LogKeeps ==
  ASSUME IInv, NEW w \in Workers, Log(w)
  PROVE  IInv'
<1> DEFINE t == task[w]
           n == [t EXCEPT !.step = "commit"]
<1>1. /\ t.kind = "privs" /\ t.step = "log"
      /\ UNCHANGED <<tables, free, kept, rowKept, goneKept, shown, counted, stale, bounds>>
  BY DEF Log, At
<1>2. task' = [task EXCEPT ![w] = n]
  BY DEF Log, IInv, TypeInv
<1>3. /\ t \in Task /\ Shape(t) /\ (log = <<>> => FirstSeen(t)) /\ t.gone = NoRows
      /\ (t.fresh => FreshRow(t, editor)) /\ free \in Nat
  BY <1>1, OfOne DEF IInv, TypeInv
<1> HIDE DEF t
<1>4. /\ n \in Task /\ n.row = t.row /\ n.conns = t.conns /\ n.kind = t.kind /\ n.step = "commit"
      /\ n.form = t.form /\ n.gone = t.gone /\ n.alone = t.alone /\ n.fresh = t.fresh
  BY <1>3 DEF Task
<1> HIDE DEF n
<1>5. Shape(n)
  BY <1>1, <1>3, <1>4 DEF Shape
<1>6. (n.fresh => FreshRow(n, editor)) /\ (log = <<>> => FirstSeen(n))
  BY <1>1, <1>3, <1>4 DEF FreshRow, FirstSeen
<1> QED
  BY <1>1, <1>2, <1>3, <1>4, <1>5, <1>6, QuietStep DEF t

LEMMA FetchTypeKeeps ==
  ASSUME IInv, NEW w \in Workers, FetchType(w)
  PROVE  IInv'
<1> DEFINE t == task[w]
           n == [t EXCEPT !.step = "save"]
<1>1. /\ t.kind = "type" /\ t.step = "fetch"
      /\ UNCHANGED <<tables, free, kept, rowKept, goneKept, shown, counted, stale, bounds>>
  BY DEF FetchType, At
<1>2. task' = [task EXCEPT ![w] = n]
  BY DEF FetchType, IInv, TypeInv
<1>3. t \in Task /\ Shape(t) /\ t.gone = NoRows /\ free \in Nat
  BY <1>1, OfOne DEF IInv, TypeInv
<1> HIDE DEF t
<1>4. /\ n \in Task /\ n.row = t.row /\ n.conns = t.conns /\ n.kind = t.kind /\ n.step = "save"
      /\ n.form = t.form /\ n.gone = t.gone /\ n.alone = t.alone /\ n.fresh = t.fresh
  BY <1>3 DEF Task
<1> HIDE DEF n
<1>5. Shape(n)
  BY <1>1, <1>3, <1>4 DEF Shape
<1>6. FreshRow(n, editor) /\ FirstSeen(n)
  BY <1>1, <1>4 DEF FreshRow, FirstSeen
<1> QED
  BY <1>1, <1>2, <1>3, <1>4, <1>5, <1>6, QuietStep DEF t

LEMMA OnceIs ==
  /\ \A S : Once(S) \in [Attributes -> Nat]
  /\ \A S : \A a \in Attributes : Once(S)[a] = IF a \in S THEN 1 ELSE 0
BY DEF Once

LEMMA RemoveAttributesKeeps ==
  ASSUME IInv, NEW w \in Workers, RemoveAttributes(w)
  PROVE  IInv'
<1> DEFINE t == task[w]
           gone == [a \in Attributes |-> IF a \in Removed(t) THEN type.attrs[a] ELSE 0]
           todo == Added(t)
           n == [t EXCEPT !.step = "add", !.todo = todo, !.gone = gone]
<1>1. /\ t.kind = "type" /\ t.step = "remove"
      /\ UNCHANGED <<tables, shown, counted, stale, bounds>>
      /\ \A a \in Removed(t) : ~AttributeLocked(a)
  BY DEF RemoveAttributes, At
<1>2. CASE ~(Removed(t) \subseteq Present)
  <2>1. \E end \in Ends : Left(w, end)
    BY <1>2 DEF RemoveAttributes, Ends, Left, Present
  <2>2. Quiet /\ requests' = requests /\ faults' \in Nat /\ crashes' \in Nat
    BY <1>1, Tables DEF bounds, IInv, TypeInv
  <2> QED
    BY <2>1, <2>2, QuietEnd
<1>3. CASE Removed(t) \subseteq Present
  <2>1. task' = [task EXCEPT ![w] = n] /\ UNCHANGED <<free, kept, rowKept, goneKept>>
    BY <1>3 DEF RemoveAttributes, IInv, TypeInv
  <2>2. t \in Task /\ Shape(t) /\ t.form \in TypeForm /\ type.attrs \in [Attributes -> Nat]
    BY <1>1, OfOne DEF IInv, TypeInv, Shape
  <2>3. gone \in [Attributes -> Nat] /\ todo \in SUBSET Attributes
    BY <2>2 DEF TypeForm, Added
  <2>4. \A a \in Removed(t), v \in Workers : ~(task[v].gone[a] > 0)
    BY <1>1 DEF AttributeLocked
  <2>5. \A a \in Attributes : gone[a] = IF a \in Removed(t) THEN type.attrs[a] ELSE 0
    OBVIOUS
  <2>6. t.alone => /\ \A v \in Workers \ {w} : task[v].kind # "type"
                   /\ type.label = t.form.label /\ Sofar(t, type.attrs)
    BY <1>1 DEF IInv, AloneForms
  <2>7. todo = Added(t)
    OBVIOUS
  <2> HIDE DEF gone, todo, t
  <2>8. /\ n \in Task /\ n.step = "add" /\ n.gone = gone /\ n.todo = todo /\ n.kind = t.kind
        /\ n.form = t.form /\ n.alone = t.alone /\ n.fresh = t.fresh /\ n.conns = t.conns
    BY <2>2, <2>3 DEF Task
  <2> HIDE DEF n
  <2>9. Shape(n) /\ FreshRow(n, editor) /\ FirstSeen(n)
    BY <1>1, <2>2, <2>8 DEF Shape, FreshRow, FirstSeen
  <2>10. OwnRows(n, w)
    BY <2>2, <2>4, <2>5, <2>8 DEF OwnRows
  <2>11. n.kind = "type" /\ n.alone =>
           (\A v \in Workers \ {w} : task[v].kind # "type") /\ AloneForm(n, w, type)
    <3> HAVE n.kind = "type" /\ n.alone
    <3>1. type.attrs = Once(t.form.old) /\ type.label = t.form.label
      BY <1>1, <2>6, <2>8 DEF Sofar
    <3>2. Added(n) = todo /\ Removed(n) = Removed(t)
      BY <2>7, <2>8 DEF Added, Removed
    <3>3. gone = Once(Removed(t))
      <4>1. \A a \in Attributes : gone[a] = Once(Removed(t))[a]
        BY <2>5, <3>1, OnceIs DEF Removed
      <4> QED
        BY <2>3, <4>1, OnceIs
    <3>4. t.form.old \cup (Added(n) \ n.todo) = t.form.old
      BY <2>8, <3>2
    <3>5. Sofar(n, type.attrs)
      BY <2>8, <3>1, <3>2, <3>3, <3>4 DEF Sofar
    <3> QED
      BY <2>6, <2>8, <3>1, <3>5 DEF AloneForm
  <2>12. task' \in [Workers -> Task] /\ task'[w] = n /\ OthersWeaker(w)
    BY <2>1, <2>8, OneStep DEF IInv, TypeInv
  <2>13. Quiet /\ UNCHANGED <<requests, faults, crashes>>
    BY <1>1, Tables DEF bounds
  <2>14. TypeInv'
    BY <2>1, <2>12, <2>13, QuietTyped DEF IInv, TypeInv
  <2> QED
    BY <1>1, <2>8, <2>9, <2>10, <2>11, <2>12, <2>13, <2>14, QuietKeeps DEF t
<1> QED
  BY <1>2, <1>3

\* A statement about the type changes it for no other form that is alone.
LEMMA TypeStep ==
  ASSUME IInv, NEW w \in Workers, task[w].kind = "type", NEW n \in Task,
         task' = [task EXCEPT ![w] = n],
         UNCHANGED <<editor, log, counted, stale, bounds>>, shown'.privs = shown.privs,
         TypeInv', Shape(n), n.kind = "idle" \/ (n.kind = "type" /\ n.fresh = task[w].fresh),
         \A a \in Attributes :
           /\ n.gone[a] <= type'.attrs[a]
           /\ \A v \in Workers \ {w} :
                task[v].gone[a] > 0 => type'.attrs[a] >= type.attrs[a] /\ n.gone[a] = 0,
         n.kind = "type" /\ n.alone => task[w].alone /\ AloneForm(n, w, type')
  PROVE  IInv'
<1>1. task' \in [Workers -> Task] /\ task'[w] = n /\ OthersWeaker(w)
  BY OneStep DEF IInv, TypeInv
<1>2. Shapes'
  BY <1>1, ShapesKept DEF IInv
<1>3. FreshRow(n, editor) /\ FirstSeen(n)
  BY DEF FreshRow, FirstSeen
<1>4. FreshRows'
  BY <1>1, <1>3, FreshKept DEF IInv
<1>5. Unlogged' /\ NothingOverwritten'
  BY <1>1, <1>3, UnloggedKept DEF IInv, Unlogged, NothingOverwritten
<1>6. Locks'
  <2>1. /\ task \in [Workers -> Task]
        /\ type.attrs \in [Attributes -> Nat] /\ type'.attrs \in [Attributes -> Nat]
    BY DEF IInv, TypeInv
  <2> QED
    BY <1>1, <2>1, LocksKept DEF IInv
<1>7. AloneForms'
  <2>1. task[w].alone => \A v \in Workers \ {w} : task[v].kind # "type"
    BY DEF IInv, AloneForms
  <2> QED
    BY <1>1, <2>1, AloneKept DEF IInv
<1> QED
  BY <1>2, <1>4, <1>5, <1>6, <1>7 DEF IInv

LEMMA SaveTypeKeeps ==
  ASSUME IInv, NEW w \in Workers, SaveType(w)
  PROVE  IInv'
<1> DEFINE t == task[w]
           n == [t EXCEPT !.step = "remove"]
<1>1. /\ t.kind = "type" /\ t.step = "save" /\ task' = [task EXCEPT ![w] = n]
      /\ UNCHANGED <<editor, log, free, kept, rowKept, goneKept, shown, counted, stale, bounds>>
      /\ type' = [type EXCEPT !.label = t.form.label]
  BY DEF SaveType, At, IInv, TypeInv
<1>2. t \in Task /\ Shape(t) /\ t.gone = NoRows /\ t.form \in TypeForm
  BY <1>1, OfOne DEF Shape
<1>3. t.alone => Sofar(t, type.attrs)
  BY <1>1 DEF IInv, AloneForms
<1> HIDE DEF t
<1>4. /\ n \in Task /\ n.conns = t.conns /\ n.kind = t.kind /\ n.step = "remove"
      /\ n.form = t.form /\ n.gone = t.gone /\ n.alone = t.alone /\ n.fresh = t.fresh
  BY <1>2 DEF Task
<1> HIDE DEF n
<1>5. type \in [label : Labels, attrs : [Attributes -> Nat]]
  BY DEF IInv, TypeInv
<1>6. type'.attrs = type.attrs /\ type'.label = t.form.label
      /\ type' \in [label : Labels, attrs : [Attributes -> Nat]]
  BY <1>1, <1>2, <1>5 DEF TypeForm
<1>7. Shape(n)
  BY <1>1, <1>2, <1>4 DEF Shape
<1>8. AloneForm(n, w, type') \/ ~n.alone
  BY <1>1, <1>3, <1>4, <1>6 DEF AloneForm, Sofar
<1>9. TypeInv'
  <2>1. task' \in [Workers -> Task]
    BY <1>1, <1>4 DEF IInv, TypeInv
  <2> QED
    BY <1>1, <1>6, <2>1 DEF IInv, TypeInv, bounds
<1>10. \A a \in Attributes : n.gone[a] <= type'.attrs[a] /\ n.gone[a] = 0
                             /\ type'.attrs[a] >= type.attrs[a]
  BY <1>2, <1>4, <1>5, <1>6 DEF NoRows
<1> QED
  BY <1>1, <1>4, <1>7, <1>8, <1>9, <1>10, TypeStep DEF t

LEMMA AddAttributeKeeps ==
  ASSUME IInv, NEW w \in Workers, AddAttribute(w)
  PROVE  IInv'
<1> DEFINE t == task[w]
<1>1. PICK b \in t.todo :
        /\ type' = [type EXCEPT !.attrs[b] = @ + 1]
        /\ task' = [task EXCEPT ![w].todo = @ \ {b}]
  BY DEF AddAttribute
<1> DEFINE todo == t.todo \ {b}
           n == [t EXCEPT !.todo = todo]
<1>2. /\ t.kind = "type" /\ t.step = "add"
      /\ shown' = [shown EXCEPT !.attrs = @ \cup {Present'}]
      /\ UNCHANGED <<editor, log, free, kept, rowKept, goneKept, counted, stale, bounds>>
  BY DEF AddAttribute, At
<1>3. task' = [task EXCEPT ![w] = n]
  BY <1>1 DEF IInv, TypeInv
<1>4. t \in Task /\ Shape(t) /\ t.form \in TypeForm
  BY <1>2, OfOne DEF Shape
<1>5. t.alone => /\ type.label = t.form.label /\ Sofar(t, type.attrs)
  BY <1>2 DEF IInv, AloneForms
<1>6. \A a \in Attributes : /\ t.gone[a] <= type.attrs[a]
        /\ \A v \in Workers \ {w} : task[v].gone[a] > 0 => ~(t.gone[a] > 0)
  BY DEF IInv, Locks
<1> HIDE DEF t
<1>7. todo \in SUBSET Attributes /\ b \in Attributes /\ t.gone \in [Attributes -> Nat]
  BY <1>4, TaskFields
<1>7a. todo = t.todo \ {b}
  OBVIOUS
<1> HIDE DEF todo
<1>8. /\ n \in Task /\ n.conns = t.conns /\ n.kind = t.kind /\ n.step = t.step /\ n.todo = todo
      /\ n.form = t.form /\ n.gone = t.gone /\ n.alone = t.alone /\ n.fresh = t.fresh
  BY <1>4, <1>7 DEF Task
<1> HIDE DEF n
<1>9. type \in [label : Labels, attrs : [Attributes -> Nat]]
  BY DEF IInv, TypeInv
<1>10. /\ type'.label = type.label
       /\ \A a \in Attributes : type'.attrs[a] = IF a = b THEN type.attrs[a] + 1 ELSE type.attrs[a]
       /\ type'.attrs \in [Attributes -> Nat]
       /\ type' \in [label : Labels, attrs : [Attributes -> Nat]]
  BY <1>1, <1>7, <1>9
<1>11. Shape(n)
  BY <1>2, <1>4, <1>8 DEF Shape
<1>12. n.alone => AloneForm(n, w, type')
  <2> HAVE n.alone
  <2>1. /\ type.label = t.form.label /\ t.todo \subseteq Added(t)
        /\ type.attrs = Once(t.form.old \cup (Added(t) \ t.todo)) /\ t.gone = Once(Removed(t))
    BY <1>2, <1>5, <1>8 DEF Sofar
  <2>2. Added(n) = Added(t) /\ Removed(n) = Removed(t)
    BY <1>8 DEF Added, Removed
  <2>3. b \in Added(t) /\ b \notin t.form.old /\ todo \subseteq Added(t)
    BY <1>1, <1>7a, <2>1 DEF Added
  <2>4. type'.attrs = Once(t.form.old \cup (Added(t) \ todo))
    <3> DEFINE S == t.form.old \cup (Added(t) \ t.todo)
               R == t.form.old \cup (Added(t) \ todo)
    <3>1. R = S \cup {b} /\ b \notin S /\ type.attrs = Once(S)
      BY <1>1, <1>7a, <2>1, <2>3 DEF Added
    <3> HIDE DEF R, S
    <3>2. \A a \in Attributes : type'.attrs[a] = Once(R)[a]
      BY <1>10, <3>1, OnceIs
    <3>3. type'.attrs = Once(R)
      BY <1>10, <3>2, OnceIs
    <3> QED
      BY <3>3 DEF R
  <2>5. Sofar(n, type'.attrs)
    BY <1>2, <1>8, <2>1, <2>2, <2>3, <2>4 DEF Sofar
  <2> QED
    BY <1>8, <1>10, <2>1, <2>5 DEF AloneForm
<1>13. TypeInv'
  <2>1. task' \in [Workers -> Task]
    BY <1>3, <1>8 DEF IInv, TypeInv
  <2>2. shown' \in [privs : SUBSET Privs, attrs : SUBSET SUBSET Attributes]
    BY <1>2 DEF Present, IInv, TypeInv
  <2> QED
    BY <1>2, <1>10, <2>1, <2>2 DEF IInv, TypeInv, bounds
<1>14. shown'.privs = shown.privs
  BY <1>2 DEF IInv, TypeInv
<1>15. \A v \in Workers, a \in Attributes : task[v].gone[a] \in Nat
  BY TaskFields DEF IInv, TypeInv
<1>16. \A a \in Attributes :
         /\ n.gone[a] <= type'.attrs[a]
         /\ \A v \in Workers \ {w} :
              task[v].gone[a] > 0 => type'.attrs[a] >= type.attrs[a] /\ n.gone[a] = 0
  BY <1>6, <1>7, <1>8, <1>9, <1>10
<1> QED
  BY <1>2, <1>3, <1>8, <1>11, <1>12, <1>13, <1>14, <1>16, TypeStep DEF t

LEMMA CommitTypeKeeps ==
  ASSUME IInv, NEW w \in Workers, CommitType(w)
  PROVE  IInv'
<1> DEFINE t == task[w]
<1>1. /\ t.kind = "type" /\ Ended(w)
      /\ type' = [type EXCEPT !.attrs = [a \in Attributes |-> @[a] - t.gone[a]]]
      /\ shown' = [shown EXCEPT !.attrs = @ \cup {Present'}]
      /\ UNCHANGED <<editor, log, counted, stale, bounds>>
  BY DEF CommitType, At
<1>2. type \in [label : Labels, attrs : [Attributes -> Nat]]
  BY DEF IInv, TypeInv
<1>3. \A a \in Attributes : /\ t.gone[a] <= type.attrs[a] /\ t.gone[a] \in Nat
        /\ \A v \in Workers \ {w} : task[v].gone[a] > 0 => ~(t.gone[a] > 0)
  BY OfOne, TaskFields DEF IInv, Locks
<1> DEFINE attrs == [a \in Attributes |-> type.attrs[a] - t.gone[a]]
<1>4. \A a \in Attributes : type.attrs[a] - t.gone[a] \in Nat
  BY <1>2, <1>3
<1>5. attrs \in [Attributes -> Nat] /\ \A a \in Attributes : attrs[a] = type.attrs[a] - t.gone[a]
  BY <1>4
<1>6. type' = [type EXCEPT !.attrs = attrs]
  BY <1>1, <1>2
<1> HIDE DEF attrs
<1>7. type' \in [label : Labels, attrs : [Attributes -> Nat]] /\ type'.attrs = attrs
  BY <1>2, <1>5, <1>6
<1>8. task' = [task EXCEPT ![w] = Idle] /\ free' \in Nat /\ kept' \in [Ends -> Nat]
      /\ rowKept' \in BOOLEAN /\ goneKept' \subseteq Attributes
  BY <1>1, EndedTyped DEF IInv
<1>9. TypeInv'
  <2>1. task' \in [Workers -> Task]
    BY <1>8, IdleTyped DEF IInv, TypeInv
  <2>2. shown' \in [privs : SUBSET Privs, attrs : SUBSET SUBSET Attributes]
    BY <1>1 DEF Present, IInv, TypeInv
  <2> QED
    BY <1>1, <1>7, <1>8, <2>1, <2>2 DEF IInv, TypeInv, bounds
<1>10. shown'.privs = shown.privs
  BY <1>1 DEF IInv, TypeInv
<1>11. \A a \in Attributes :
         /\ Idle.gone[a] <= type'.attrs[a]
         /\ \A v \in Workers \ {w} :
              task[v].gone[a] > 0 => type'.attrs[a] >= type.attrs[a] /\ Idle.gone[a] = 0
  <2>1. \A a \in Attributes : Idle.gone[a] = 0 /\ type'.attrs[a] = type.attrs[a] - t.gone[a]
                              /\ type'.attrs[a] \in Nat /\ type.attrs[a] \in Nat
    BY <1>2, <1>5, <1>7, IdleTyped DEF NoRows
  <2>2. \A a \in Attributes, v \in Workers \ {w} :
          task[v].gone[a] > 0 => t.gone[a] = 0
    BY <1>3
  <2> HIDE DEF t
  <2> QED
    BY <2>1, <2>2
<1> QED
  BY <1>1, <1>8, <1>9, <1>10, <1>11, IdleTyped, TypeStep

\* The row of the editor is saved by a request, which is answered.
LEMMA OvertakenTyped ==
  ASSUME TypeInv, NEW w \in Workers, task' = [Overtaken(w) EXCEPT ![w] = Idle]
  PROVE  /\ task' \in [Workers -> Task] /\ task'[w] = Idle /\ OthersWeaker(w)
         /\ \A v \in Workers \ {w} : ~task'[v].fresh
<1>1. task \in [Workers -> Task]
  BY DEF TypeInv
<1>2. \A t \in Task : /\ [t EXCEPT !.fresh = FALSE] \in Task
                      /\ Weaker([t EXCEPT !.fresh = FALSE], t)
                      /\ ~[t EXCEPT !.fresh = FALSE].fresh
  BY DEF Task, Weaker
<1>3. \A v \in Workers \ {w} : task'[v] = [task[v] EXCEPT !.fresh = FALSE]
  BY DEF Overtaken
<1>4. task'[w] = Idle /\ DOMAIN task' = Workers
  BY DEF Overtaken
<1>5. \A v \in Workers \ {w} : task'[v] \in Task /\ Weaker(task'[v], task[v]) /\ ~task'[v].fresh
  BY <1>1, <1>2, <1>3
<1>6. task' = [v \in Workers |-> task'[v]]
  BY DEF Overtaken
<1>7. \A v \in Workers : task'[v] \in Task
  BY <1>4, <1>5, IdleTyped
<1> QED
  BY <1>4, <1>5, <1>6, <1>7 DEF OthersWeaker

LEMMA RowSaved ==
  ASSUME IInv, NEW w \in Workers, TypeInv', task' = [Overtaken(w) EXCEPT ![w] = Idle],
         type' = type, NothingOverwritten',
         log' = <<>> => /\ log = <<>> /\ editor'.privs = FirstPrivs
                        /\ shown'.privs \subseteq {FirstPrivs}
  PROVE  IInv'
<1>1. /\ task' \in [Workers -> Task] /\ task'[w] = Idle /\ OthersWeaker(w)
      /\ \A v \in Workers \ {w} : ~task'[v].fresh
  BY OvertakenTyped DEF IInv
<1>2. Shapes' /\ FreshRows' /\ Unlogged'
  BY <1>1, IdleTyped, ShapesKept, FreshKept, UnloggedKept DEF IInv
<1>3. Locks'
  <2>1. /\ task \in [Workers -> Task]
        /\ type.attrs \in [Attributes -> Nat] /\ type'.attrs \in [Attributes -> Nat]
    BY DEF IInv, TypeInv
  <2>2. \A a \in Attributes : Idle.gone[a] = 0 /\ type'.attrs[a] >= type.attrs[a]
                              /\ Idle.gone[a] <= type'.attrs[a]
    BY <2>1, IdleTyped DEF NoRows
  <2> QED
    BY <1>1, <2>1, <2>2, LocksKept DEF IInv
<1>4. AloneForms'
  BY <1>1, IdleTyped, AloneKept DEF IInv
<1> QED
  BY <1>2, <1>3, <1>4 DEF IInv

LEMMA WriteProfileKeeps ==
  ASSUME IInv, NEW w \in Workers, WriteProfile(w)
  PROVE  IInv'
<1> DEFINE t == task[w]
<1>1. /\ t.kind = "profile" /\ t.step = "write" /\ free' = free + 1
      /\ task' = [Overtaken(w) EXCEPT ![w] = Idle]
      /\ shown' = [shown EXCEPT !.privs = @ \cup {editor'.privs}]
      /\ editor' = Saved(t) /\ stale' = (stale \/ ~t.fresh)
      /\ UNCHANGED <<log, type, kept, rowKept, goneKept, counted, bounds>>
  BY DEF WriteProfile, At
<1>2. /\ t \in Task /\ (t.fresh => FreshRow(t, editor)) /\ (log = <<>> => FirstSeen(t))
  BY OfOne
<1>3. t.row \in RowType /\ t.fresh \in BOOLEAN
  BY <1>2, TaskFields
<1> HIDE DEF t
<1>4. editor' = t.row
  BY <1>1 DEF Saved
<1>5. TypeInv'
  <2>1. task' \in [Workers -> Task]
    BY <1>1, OvertakenTyped DEF IInv
  <2>2. editor' \in RowType /\ editor'.privs \in Privs
    BY <1>3, <1>4 DEF RowType
  <2>3. shown' \in [privs : SUBSET Privs, attrs : SUBSET SUBSET Attributes]
    BY <1>1, <2>2 DEF IInv, TypeInv
  <2>4. stale' \in BOOLEAN /\ free' \in Nat
    BY <1>1, <1>3 DEF IInv, TypeInv
  <2> QED
    BY <1>1, <2>1, <2>2, <2>3, <2>4 DEF IInv, TypeInv, bounds
<1>6. NothingOverwritten'
  <2> SUFFICES ASSUME ~stale' PROVE editor' = editor /\ ~stale
    BY <1>1 DEF IInv, NothingOverwritten
  <2> QED
    BY <1>1, <1>2, <1>4 DEF FreshRow
<1>7. log' = <<>> => /\ log = <<>> /\ editor'.privs = FirstPrivs
                     /\ shown'.privs \subseteq {FirstPrivs}
  <2> HAVE log' = <<>>
  <2>1. log = <<>> /\ editor'.privs = FirstPrivs
    BY <1>1, <1>2, <1>4 DEF FirstSeen
  <2>2. shown.privs \subseteq {FirstPrivs} /\ shown'.privs = shown.privs \cup {editor'.privs}
    BY <1>1, <2>1 DEF IInv, TypeInv, Unlogged
  <2> QED
    BY <2>1, <2>2
<1> QED
  BY <1>1, <1>5, <1>6, <1>7, RowSaved

LEMMA CommitKeeps ==
  ASSUME IInv, NEW w \in Workers, Commit(w)
  PROVE  IInv'
<1> DEFINE t == task[w]
<1>1. /\ t.kind \in {"privs", "edit"} /\ t.step = "commit" /\ free' = free + t.conns
      /\ task' = [Overtaken(w) EXCEPT ![w] = Idle]
      /\ shown' = [shown EXCEPT !.privs = @ \cup {editor'.privs}]
      /\ editor' = t.row /\ stale' = (stale \/ ~t.fresh)
      /\ log' = IF t.kind = "privs" THEN Append(log, t.form) ELSE log
      /\ counted' = IF t.kind = "edit" THEN counted + 1 ELSE counted
      /\ UNCHANGED <<type, kept, rowKept, goneKept, bounds>>
  BY DEF Commit, At, Logged
<1>2. /\ t \in Task /\ Shape(t) /\ (t.fresh => FreshRow(t, editor))
      /\ (log = <<>> => FirstSeen(t))
  BY OfOne
<1>3. t.row \in RowType /\ t.fresh \in BOOLEAN /\ t.conns \in Nat
  BY <1>2, TaskFields
<1>4. /\ log \in Seq(PrivsForm) /\ counted \in Nat /\ editor \in RowType
      /\ free \in Nat /\ stale \in BOOLEAN
      /\ shown \in [privs : SUBSET Privs, attrs : SUBSET SUBSET Attributes]
  BY DEF IInv, TypeInv
<1> HIDE DEF t
<1>5. t.kind = "privs" => /\ t.form \in PrivsForm
                          /\ log' \in Seq(PrivsForm) /\ log' # <<>>
                          /\ log'[Len(log')] = t.form
  BY <1>1, <1>2, <1>4 DEF Shape
<1>6. TypeInv'
  <2>1. task' \in [Workers -> Task]
    BY <1>1, OvertakenTyped DEF IInv
  <2>2. editor' \in RowType /\ editor'.privs \in Privs
    BY <1>1, <1>3 DEF RowType
  <2>3. shown' \in [privs : SUBSET Privs, attrs : SUBSET SUBSET Attributes]
    BY <1>1, <1>4, <2>2
  <2>4. stale' \in BOOLEAN
    BY <1>1, <1>3, <1>4
  <2>5. free' \in Nat /\ counted' \in Nat /\ log' \in Seq(PrivsForm)
    BY <1>1, <1>3, <1>4, <1>5
  <2> QED
    BY <1>1, <2>1, <2>2, <2>3, <2>4, <2>5 DEF IInv, TypeInv, bounds
<1>7. NothingOverwritten'
  <2> SUFFICES ASSUME ~stale'
               PROVE  /\ editor'.privs = IF log' = <<>> THEN FirstPrivs ELSE log'[Len(log')].new
                      /\ editor'.edits = counted'
    BY DEF NothingOverwritten
  <2>1. /\ editor.privs = IF log = <<>> THEN FirstPrivs ELSE log[Len(log)].new
        /\ editor.edits = counted /\ FreshRow(t, editor)
    BY <1>1, <1>2 DEF IInv, NothingOverwritten
  <2>2. CASE t.kind = "privs"
    <3>1. editor' = [editor EXCEPT !.privs = t.form.new]
      BY <1>1, <2>1, <2>2 DEF FreshRow
    <3>2. editor'.privs = t.form.new /\ editor'.edits = editor.edits
      BY <1>4, <3>1 DEF RowType
    <3> QED
      BY <1>1, <1>5, <2>1, <2>2, <3>2
  <2>3. CASE t.kind = "edit"
    <3>1. editor' = [editor EXCEPT !.edits = @ + 1]
      BY <1>1, <2>1, <2>3 DEF FreshRow
    <3>2. editor'.privs = editor.privs /\ editor'.edits = editor.edits + 1
      BY <1>4, <3>1 DEF RowType
    <3> QED
      BY <1>1, <2>1, <2>3, <3>2
  <2> QED
    BY <1>1, <2>2, <2>3
<1>8. log' = <<>> => /\ log = <<>> /\ editor'.privs = FirstPrivs
                     /\ shown'.privs \subseteq {FirstPrivs}
  <2> HAVE log' = <<>>
  <2>1. t.kind = "edit" /\ log = <<>>
    BY <1>1, <1>5
  <2>2. editor'.privs = FirstPrivs
    BY <1>1, <1>2, <2>1 DEF FirstSeen
  <2>3. shown.privs \subseteq {FirstPrivs} /\ shown'.privs = shown.privs \cup {editor'.privs}
    BY <1>1, <1>4, <2>1 DEF IInv, Unlogged
  <2> QED
    BY <2>1, <2>2, <2>3
<1> QED
  BY <1>1, <1>6, <1>7, <1>8, RowSaved

LEMMA CrashKeeps ==
  ASSUME IInv, Crash
  PROVE  IInv'
<1>1. /\ task' = [w \in Workers |-> Idle] /\ free' = PoolSize /\ kept' = [e \in Ends |-> 0]
      /\ rowKept' = FALSE /\ goneKept' = {} /\ crashes' = crashes + 1
      /\ UNCHANGED <<tables, shown, counted, stale, requests, faults>>
  BY DEF Crash
<1>2. \A w \in Workers : task'[w] = Idle
  BY <1>1
<1>3. Quiet
  BY <1>1, Tables
<1>4. TypeInv'
  <2>1. task' \in [Workers -> Task]
    BY <1>1, IdleTyped
  <2>2. free' \in Nat /\ kept' \in [Ends -> Nat] /\ rowKept' \in BOOLEAN
        /\ goneKept' \subseteq Attributes
    BY <1>1, BoundAssumption
  <2>3. crashes' \in Nat
    BY <1>1 DEF IInv, TypeInv
  <2> QED
    BY <1>1, <1>3, <2>1, <2>2, <2>3 DEF IInv, TypeInv, Quiet
<1>5. Shapes' /\ FreshRows' /\ AloneForms'
  BY <1>2, IdleTyped DEF Shapes, FreshRows, AloneForms
<1>6. Unlogged' /\ NothingOverwritten'
  BY <1>2, <1>3, IdleTyped DEF IInv, Unlogged, NothingOverwritten, Quiet
<1>7. Locks'
  BY <1>2, <1>4, IdleTyped DEF Locks, NoRows, TypeInv
<1> QED
  BY <1>4, <1>5, <1>6, <1>7 DEF IInv

LEMMA NextKeeps ==
  ASSUME IInv, [Next]_vars
  PROVE  IInv'
<1>1. CASE UNCHANGED vars
  BY <1>1 DEF vars, IInv, TypeInv, Shapes, FreshRows, NothingOverwritten, Unlogged, Locks,
              AloneForms
<1>2. CASE Crash
  BY <1>2, CrashKeeps
<1>3. ASSUME NEW w \in Workers, Begin(w) PROVE IInv'
  BY <1>3, BeginKeeps
<1>4. ASSUME NEW w \in Workers, Step(w) PROVE IInv'
  <2>1. CASE TimeOut(w)
    BY <2>1, FailsKeeps DEF TimeOut, IInv, TypeInv
  <2> QED
    BY <1>4, <2>1, ConnectKeeps, FetchKeeps, WriteKeeps, WriteProfileKeeps, LogKeeps, CommitKeeps,
       FetchTypeKeeps, SaveTypeKeeps, RemoveAttributesKeeps, AddAttributeKeeps, CommitTypeKeeps
    DEF Step
<1>5. ASSUME NEW w \in Workers, Fault(w) PROVE IInv'
  BY <1>5, FailsKeeps DEF Fault, IInv, TypeInv
<1> QED
  BY <1>1, <1>2, <1>3, <1>4, <1>5 DEF Next

LEMMA IInvInvariant == Spec => []IInv
<1>1. IInv /\ [Next]_vars => IInv'
  BY NextKeeps
<1> QED
  BY InitKeeps, <1>1, PTL DEF Spec

----------------------------------------------------------------------------
(* What follows.                                                           *)

\* The privileges are those of the last row of the log and every edit is counted,
\* until some request saves the whole row from what it read before another one saved
\* it, as editor.save() of the handlers in editor.tsx and of incrementEditorEditCount do.
THEOREM RowsHold == Spec => []NothingOverwritten
<1>1. IInv => NothingOverwritten
  BY DEF IInv
<1> QED
  BY IInvInvariant, <1>1, PTL

\* A step of one request leaves the others with what they are about.
LEMMA KindsKept ==
  ASSUME IInv, NEW w \in Workers, Begin(w) \/ Step(w) \/ Fault(w)
  PROVE  \A v \in Workers \ {w} : task'[v].kind = task[v].kind
<1>1. task \in [Workers -> Task]
  BY DEF IInv, TypeInv
<1>2. \A v \in Workers : [task[v] EXCEPT !.fresh = FALSE].kind = task[v].kind
                         /\ [task[v] EXCEPT !.alone = FALSE].kind = task[v].kind
  BY <1>1 DEF Task
<1>3. ASSUME NEW kind, NEW form, NEW step, Request(w, kind, form, step)
      PROVE  \A v \in Workers \ {w} : task'[v].kind = task[v].kind
  BY <1>2, <1>3 DEF Request
<1>4. ASSUME Fails(w) PROVE \A v \in Workers \ {w} : task'[v].kind = task[v].kind
  BY <1>1, <1>4 DEF Fails, Ended, Left, Abandoned
<1>5. ASSUME \/ \E kind \in {"privs", "edit", "type"} : Connect(w, kind, "begin", "fetch")
             \/ Connect(w, "profile", "save", "write")
             \/ Fetch(w) \/ Write(w) \/ Log(w) \/ FetchType(w) \/ SaveType(w)
             \/ RemoveAttributes(w) \/ AddAttribute(w) \/ CommitType(w)
      PROVE  \A v \in Workers \ {w} : task'[v] = task[v]
  BY <1>1, <1>5 DEF Connect, Fetch, Write, Log, FetchType, SaveType, RemoveAttributes,
                    AddAttribute, CommitType, Ended, Abandoned
<1>6. ASSUME WriteProfile(w) \/ Commit(w)
      PROVE  \A v \in Workers \ {w} : task'[v].kind = task[v].kind
  BY <1>2, <1>6 DEF WriteProfile, Commit, Overtaken
<1>7. CASE Begin(w)
  BY <1>3, <1>7 DEF Begin, ChangePrivs, EditProfile, Edit, EditType
<1>8. CASE Step(w)
  BY <1>4, <1>5, <1>6, <1>8 DEF Step, TimeOut
<1>9. CASE Fault(w)
  BY <1>4, <1>9 DEF Fault
<1> QED
  BY <1>7, <1>8, <1>9

\* What a step does to the transactions that nobody will end.
Unkept ==
  /\ kept'["refused"] > kept["refused"] => log # <<>>
  /\ kept'["failed"] > kept["failed"] =>
       \/ faults' > faults
       \/ free = 0
       \/ \E w \in Workers : task[w].kind = "type" /\ ~task[w].alone

LEMMA KeptSame ==
  ASSUME IInv, kept' = kept
  PROVE  Unkept
BY DEF Unkept, IInv, TypeInv, Ends

LEMMA KeptAbandoned ==
  ASSUME IInv, NEW w \in Workers, NEW end \in Ends, Left(w, end)
  PROVE  \A e \in Ends : e # end => ~(kept'[e] > kept[e])
BY DEF Left, Abandoned, IInv, TypeInv

LEMMA KeptFetch ==
  ASSUME IInv, NEW w \in Workers, Fetch(w)
  PROVE  Unkept
<1> DEFINE t == task[w]
<1>1. CASE t.kind = "privs" /\ NoChange(t)
  <2>1. Left(w, "refused")
    BY <1>1 DEF Fetch, Left
  <2>2. Shape(t) /\ (log = <<>> => FirstSeen(t)) /\ t.step = "fetch"
    BY OfOne DEF Fetch
  <2>3. log # <<>>
    BY <1>1, <2>2 DEF NoChange, Shape, FirstSeen, IInv, Unlogged
  <2> QED
    BY <2>1, <2>3, KeptAbandoned DEF Unkept, Ends
<1>2. CASE ~(t.kind = "privs" /\ NoChange(t))
  BY <1>2, KeptSame DEF Fetch
<1> QED
  BY <1>1, <1>2

\* The rows to be deleted are there when a form that met no other deletes them.
LEMMA AloneRemoves ==
  ASSUME IInv, NEW w \in Workers, At(w, "type", "remove"), task[w].alone
  PROVE  Removed(task[w]) \subseteq Present
<1>1. type.attrs = Once(task[w].form.old)
  BY DEF IInv, AloneForms, Sofar, At
<1>2. Shape(task[w]) /\ task[w].form \in TypeForm
  BY OfOne DEF Shape, At
<1>3. \A a \in Removed(task[w]) : a \in Attributes /\ a \in task[w].form.old
  BY <1>2 DEF Removed, TypeForm
<1>4. \A a \in Removed(task[w]) : type.attrs[a] = 1
  BY <1>1, <1>3, OnceIs
<1> QED
  BY <1>3, <1>4 DEF Present

LEMMA KeptRemove ==
  ASSUME IInv, NEW w \in Workers, RemoveAttributes(w)
  PROVE  Unkept
<1>1. CASE Removed(task[w]) \subseteq Present
  BY <1>1, KeptSame DEF RemoveAttributes
<1>2. CASE ~(Removed(task[w]) \subseteq Present)
  <2>1. Left(w, "failed") /\ task[w].kind = "type" /\ ~task[w].alone
    BY <1>2, AloneRemoves DEF RemoveAttributes, At, Left, Present
  <2> QED
    BY <2>1, KeptAbandoned DEF Unkept, Ends
<1> QED
  BY <1>1, <1>2

LEMMA KeptFails ==
  ASSUME IInv, NEW w \in Workers, Fails(w), faults' > faults \/ free = 0
  PROVE  Unkept
<1>1. CASE Left(w, "failed")
  BY <1>1, KeptAbandoned DEF Unkept, Ends
<1>2. CASE Ended(w)
  BY <1>2, KeptSame DEF Ended
<1> QED
  BY <1>1, <1>2, FailsLeft

LEMMA KeptNext ==
  ASSUME IInv, Next
  PROVE  Unkept
<1>1. CASE Crash
  <2>1. kept' = [e \in Ends |-> 0] /\ kept \in [Ends -> Nat]
    BY <1>1 DEF Crash, IInv, TypeInv
  <2>2. \A e \in Ends : ~(kept'[e] > kept[e])
    BY <2>1
  <2> QED
    BY <2>2 DEF Unkept, Ends
<1>2. ASSUME NEW w \in Workers, Begin(w) PROVE Unkept
  <2>1. kept' = kept
    BY <1>2 DEF Begin, ChangePrivs, EditProfile, Edit, EditType, Request
  <2> QED
    BY <2>1, KeptSame
<1>3. ASSUME NEW w \in Workers, Step(w) PROVE Unkept
  <2>1. CASE TimeOut(w)
    BY <2>1, KeptFails DEF TimeOut
  <2>2. CASE ~(TimeOut(w) \/ Fetch(w) \/ RemoveAttributes(w))
    <3>1. kept' = kept
      BY <1>3, <2>2 DEF Step, Connect, Write, WriteProfile, Log, Commit, FetchType, SaveType,
                        AddAttribute, CommitType, Ended
    <3> QED
      BY <3>1, KeptSame
  <2> QED
    BY <2>1, <2>2, KeptFetch, KeptRemove
<1>4. ASSUME NEW w \in Workers, Fault(w) PROVE Unkept
  <2>1. faults' > faults
    BY <1>4 DEF Fault, IInv, TypeInv
  <2> QED
    BY <1>4, <2>1, KeptFails DEF Fault
<1> QED
  BY <1>1, <1>2, <1>3, <1>4 DEF Next

\* A connection is lost by a refusal only after privileges have been changed, since the
\* page shows what the handler of /editor/privs/edit compares with; and by a failure only
\* if a statement failed, no connection was left, or two forms about the type met or one
\* came from an old page.
THEOREM LostOnlyWhen == Spec => KeptOnlyWhen
<1>1. IInv /\ [Next]_vars => [Unkept]_vars
  BY KeptNext
<1>2. Spec => [][Unkept]_vars
  BY IInvInvariant, <1>1, PTL DEF Spec
<1> QED
  BY <1>2 DEF KeptOnlyWhen, Unkept

\* What the answer to a form about the type means.
AnswerOf(form) ==
  IF free' > free THEN type' = [label |-> form.label, attrs |-> Once(form.new)]
  ELSE form.old \subseteq Present'

LEMMA AnswerFails ==
  ASSUME IInv, NEW w \in Workers, task[w].kind = "type", task[w].alone, type' = type,
         free' = free
  PROVE  AnswerOf(task[w].form)
<1> DEFINE old == task[w].form.old
<1>1. Shape(task[w]) /\ task[w].form \in TypeForm
  BY OfOne DEF Shape
<1>2. Sofar(task[w], type.attrs)
  BY DEF IInv, AloneForms
<1>3. PICK S : old \subseteq S /\ type.attrs = Once(S)
  BY <1>2 DEF Sofar
<1>4. old \subseteq Attributes
  BY <1>1 DEF TypeForm
<1>5. \A a \in old : a \in Attributes /\ type'.attrs[a] = 1
  BY <1>3, <1>4, OnceIs
<1>6. old \subseteq Present'
  BY <1>5 DEF Present
<1>7. ~(free' > free)
  BY DEF IInv, TypeInv
<1> QED
  BY <1>6, <1>7 DEF AnswerOf

LEMMA AnswerCommit ==
  ASSUME IInv, NEW w \in Workers, task[w].alone, CommitType(w)
  PROVE  AnswerOf(task[w].form)
<1> DEFINE t == task[w]
<1>1. /\ t.kind = "type" /\ t.step = "add" /\ t.todo = {} /\ free' = free + t.conns
      /\ type' = [type EXCEPT !.attrs = [a \in Attributes |-> @[a] - t.gone[a]]]
  BY DEF CommitType, At, Ended
<1>2. Shape(t) /\ t.form \in TypeForm /\ t.conns = 1
  BY <1>1, OfOne DEF Shape
<1>3. /\ type.label = t.form.label
      /\ type.attrs = Once(t.form.old \cup (Added(t) \ t.todo)) /\ t.gone = Once(Removed(t))
  BY <1>1 DEF IInv, AloneForms, Sofar
<1>4. free' > free
  BY <1>1, <1>2 DEF IInv, TypeInv
<1>5. type \in [label : Labels, attrs : [Attributes -> Nat]]
  BY DEF IInv, TypeInv
<1> DEFINE attrs == [a \in Attributes |-> type.attrs[a] - t.gone[a]]
           S == t.form.old \cup (Added(t) \ t.todo)
           R == Removed(t)
           new == t.form.new
<1>6. type' = [type EXCEPT !.attrs = attrs]
  BY <1>1, <1>5
<1>7. \A a \in Attributes : attrs[a] = type.attrs[a] - t.gone[a]
  OBVIOUS
<1>8. \A a \in Attributes : (a \in new <=> a \in S /\ a \notin R) /\ (a \in R => a \in S)
  BY <1>1 DEF Added, Removed
<1>9. type.attrs = Once(S) /\ t.gone = Once(R) /\ DOMAIN attrs = Attributes
      /\ attrs = [a \in Attributes |-> attrs[a]]
  BY <1>3
<1> HIDE DEF attrs, S, R
<1>10. \A a \in Attributes : attrs[a] = Once(new)[a]
  <2> SUFFICES ASSUME NEW a \in Attributes PROVE attrs[a] = Once(new)[a]
    OBVIOUS
  <2>1. attrs[a] = (IF a \in S THEN 1 ELSE 0) - (IF a \in R THEN 1 ELSE 0)
    BY <1>7, <1>9, OnceIs
  <2>2. Once(new)[a] = IF a \in new THEN 1 ELSE 0
    BY OnceIs
  <2> QED
    BY <1>8, <2>1, <2>2
<1>11. attrs = Once(new)
  BY <1>9, <1>10 DEF Once
<1>12. type' = [label |-> t.form.label, attrs |-> Once(new)]
  BY <1>3, <1>5, <1>6, <1>11
<1> QED
  BY <1>4, <1>12 DEF AnswerOf

LEMMA AnswerStep ==
  ASSUME IInv, NEW w \in Workers, task[w].kind = "type", task[w].alone,
         Begin(w) \/ Step(w) \/ Fault(w), task'[w] = Idle
  PROVE  AnswerOf(task[w].form)
<1>1. task \in [Workers -> Task] /\ task[w] \in Task /\ task[w].conns \in Nat /\ free \in Nat
  BY OfOne, TaskFields DEF IInv, TypeInv
<1>2. task'[w].kind # "type"
  BY IdleTyped
<1>3. ASSUME Fails(w) PROVE AnswerOf(task[w].form)
  <2>1. type' = type
    BY <1>3 DEF Fails, tables
  <2>2. free' = free
    BY <1>1, <1>3 DEF Fails, Left, Abandoned, Ended, TypeInv
  <2> QED
    BY <2>1, <2>2, AnswerFails
<1>4. CASE Begin(w)
  BY <1>4 DEF Begin, ChangePrivs, EditProfile, Edit, EditType, Request
<1>5. CASE Fault(w)
  BY <1>3, <1>5 DEF Fault
<1>6. CASE RemoveAttributes(w)
  <2>1. Removed(task[w]) \subseteq Present
    BY <1>6, AloneRemoves DEF RemoveAttributes
  <2>2. task'[w].kind = task[w].kind
    BY <1>1, <1>6, <2>1 DEF RemoveAttributes, Task
  <2> QED
    BY <1>2, <2>2
<1>7. ASSUME \/ \E kind \in {"privs", "edit", "type"} : Connect(w, kind, "begin", "fetch")
             \/ Connect(w, "profile", "save", "write")
             \/ Fetch(w) \/ Write(w) \/ WriteProfile(w) \/ Log(w) \/ Commit(w)
             \/ FetchType(w) \/ SaveType(w) \/ AddAttribute(w)
      PROVE  FALSE
  <2>1. \/ Connect(w, "type", "begin", "fetch") \/ FetchType(w) \/ SaveType(w) \/ AddAttribute(w)
    BY <1>7 DEF Connect, Fetch, Write, WriteProfile, Log, Commit, At
  <2>2. task'[w].kind = task[w].kind
    BY <1>1, <2>1 DEF Connect, FetchType, SaveType, AddAttribute, Task
  <2> QED
    BY <1>2, <2>2
<1> QED
  BY <1>3, <1>4, <1>5, <1>6, <1>7, AnswerCommit DEF Step, TimeOut

\* An answer that all went well, to a form about a type that met no other and whose page
\* was current, means just the attributes and the label of the form; an error leaves the
\* attributes that were there (relationshipTypeCreateOrEditHandler and the handlers like it).
THEOREM AsAsked == Spec => TypeAsAsked
<1> DEFINE A == \A w \in Workers :
              task[w].kind = "type" /\ task[w].alone /\ task'[w] = Idle /\ crashes' = crashes =>
                AnswerOf(task[w].form)
<1>1. IInv /\ Next => A
  <2> SUFFICES ASSUME IInv, Next, NEW w \in Workers, task[w].kind = "type", task[w].alone,
                      task'[w] = Idle, crashes' = crashes
               PROVE  AnswerOf(task[w].form)
    OBVIOUS
  <2>1. CASE Crash
    BY <2>1 DEF Crash, IInv, TypeInv
  <2>2. CASE \E v \in Workers : Begin(v) \/ Step(v) \/ Fault(v)
    <3>1. PICK v \in Workers : Begin(v) \/ Step(v) \/ Fault(v)
      BY <2>2
    <3>2. v = w
      BY <3>1, KindsKept, IdleTyped
    <3> QED
      BY <3>1, <3>2, AnswerStep
  <2> QED
    BY <2>1, <2>2 DEF Next
<1>2. Spec => [][A]_vars
  BY IInvInvariant, <1>1, PTL DEF Spec
<1> QED
  BY <1>2 DEF TypeAsAsked, AnswerOf
=============================================================================

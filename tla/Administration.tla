--------------------------- MODULE Administration ---------------------------
(***************************************************************************)
(* What administrators do to an editor's privileges and to a type of       *)
(* relationships (src/server/routes/editor.tsx, helpers/typeRouteUtils.ts, *)
(* helpers/adminLogs.ts), and the connections it takes. Each process has a *)
(* pool of them: a statement of its own takes one for as long as it runs,  *)
(* a transaction until it is committed or rolled back. Who waits too long  *)
(* for one gets an error.                                                  *)
(*                                                                         *)
(* The same row of the editor is saved, as a whole, by the editor's form   *)
(* and by every edit, which counts itself in its transaction.              *)
(***************************************************************************)
EXTENDS Naturals, Sequences, FiniteSets

CONSTANTS
  Workers,      \* requests at the same time
  PoolSize,     \* connections
  Privs, Labels, Attributes,
  FirstPrivs, FirstLabel, FirstAttributes,
  MaxRequests, MaxFaults, MaxCrashes  \* bounds

ASSUME BoundAssumption == {PoolSize, MaxRequests, MaxFaults, MaxCrashes} \subseteq Nat
ASSUME FirstAssumption ==
  FirstPrivs \in Privs /\ FirstLabel \in Labels /\ FirstAttributes \subseteq Attributes

VARIABLES
  editor,    \* the row: privs, and how many edits were applied
  log,       \* the rows of admin_log
  type,      \* label, and of each attribute the number of rows
  task,      \* the request each worker is at
  free,      \* connections in the pool
  kept,      \* transactions that nobody will end: how many, by what became of them
  rowKept,   \* one of them has written the editor's row
  goneKept,  \* attributes whose rows they have deleted
  shown,     \* what pages that may still be open show: privileges, attributes
  counted,   \* history: edits that were committed
  stale,     \* history: the row was saved from what was read before another save
  requests, faults, crashes  \* what the bounds count

vars == <<editor, log, type, task, free, kept, rowKept, goneKept, shown, counted,
          stale, requests, faults, crashes>>
tables == <<editor, log, type>>
bounds == <<requests, faults, crashes>>

Kinds == {"privs", "profile", "edit", "type"}
Ends == {"refused", "failed"}

Form == [old : Privs, new : Privs] \cup
        [old : SUBSET Attributes, new : SUBSET Attributes, label : Labels] \cup {<<>>}

Task == [kind : Kinds \cup {"idle"},
         step : {"begin", "fetch", "save", "write", "log", "remove", "add", "commit"},
         form : Form,
         row : [privs : Privs, edits : Nat],  \* as it was read, or is to be written
         todo : SUBSET Attributes,            \* still to be added
         conns : 0..1,                        \* connections it keeps
         wrote : BOOLEAN,                     \* its transaction has the row
         gone : [Attributes -> Nat],          \* and has deleted so many rows of these
         fresh : BOOLEAN,    \* history: nobody saved the row since it was read
         alone : BOOLEAN]    \* history: no other edit of the type met it, its page was current

Present == {a \in Attributes : type.attrs[a] > 0}
Once(attributes) == [a \in Attributes |-> IF a \in attributes THEN 1 ELSE 0]
NoRows == [a \in Attributes |-> 0]
NoRow == [privs |-> FirstPrivs, edits |-> 0]
Idle == [kind |-> "idle", step |-> "begin", form |-> <<>>, row |-> NoRow, todo |-> {},
         conns |-> 0, wrote |-> FALSE, gone |-> NoRows, fresh |-> FALSE, alone |-> FALSE]

Init ==
  /\ editor = NoRow
  /\ log = <<>>
  /\ type = [label |-> FirstLabel,
             attrs |-> Once(FirstAttributes)]
  /\ task = [w \in Workers |-> Idle]
  /\ free = PoolSize
  /\ kept = [e \in Ends |-> 0] /\ rowKept = FALSE /\ goneKept = {}
  /\ shown = [privs |-> {FirstPrivs}, attrs |-> {FirstAttributes}]
  /\ counted = 0 /\ stale = FALSE
  /\ requests = 0 /\ faults = 0 /\ crashes = 0

At(w, kind, step) == task[w].kind = kind /\ task[w].step = step

----------------------------------------------------------------------------
(* Requests and their connections.                                         *)

Request(w, kind, form, step) ==
  /\ task[w].kind = "idle" /\ requests < MaxRequests
  /\ requests' = requests + 1
  /\ LET others == {v \in Workers : task[v].kind = "type" /\ kind = "type"}
     IN task' = [v \in Workers |->
          IF v = w THEN [Idle EXCEPT !.kind = kind, !.form = form, !.step = step,
                           !.alone = others = {} /\ kind = "type" /\ type.attrs = Once(form.old)]
          ELSE IF v \in others THEN [task[v] EXCEPT !.alone = FALSE] ELSE task[v]]
  /\ UNCHANGED <<tables, free, kept, rowKept, goneKept, shown, counted, stale, faults, crashes>>

\* The modal lets an administrator submit other privileges than it showed.
ChangePrivs(w) ==
  \E old \in shown.privs, new \in Privs :
    old # new /\ Request(w, "privs", [old |-> old, new |-> new], "begin")

EditProfile(w) == Request(w, "profile", <<>>, "fetch")

Edit(w) == Request(w, "edit", <<>>, "begin")

\* The form sends the attributes that the page showed along with the new ones.
EditType(w) ==
  \E old \in shown.attrs, new \in SUBSET Attributes, label \in Labels :
    Request(w, "type", [old |-> old, new |-> new, label |-> label], "begin")

Take == free > 0 /\ free' = free - 1

\* The connection of a transaction, or of a statement that may have to wait for a row.
Connect(w, kind, step, next) ==
  /\ At(w, kind, step)
  /\ Take
  /\ task' = [task EXCEPT ![w].step = next, ![w].conns = @ + 1]
  /\ UNCHANGED <<tables, kept, rowKept, goneKept, shown, counted, stale, bounds>>

\* The request is answered; the transaction has ended.
Ended(w) ==
  /\ free' = free + task[w].conns
  /\ task' = [task EXCEPT ![w] = Idle]
  /\ UNCHANGED <<kept, rowKept, goneKept>>

\* It is answered, and the transaction is left as it is, with the rows that it has
\* deleted of some attributes.
Abandoned(w, end, deleted) ==
  /\ task' = [task EXCEPT ![w] = Idle]
  /\ kept' = [kept EXCEPT ![end] = @ + task[w].conns]
  /\ rowKept' = (rowKept \/ task[w].wrote)
  /\ goneKept' = goneKept \cup deleted
  /\ UNCHANGED free

\* Handlers that call transaction() without a function have to end it themselves,
\* and do not when they fail.
Fails(w) ==
  /\ IF task[w].kind \in {"privs", "type"} /\ task[w].conns > 0
     THEN Abandoned(w, "failed", {a \in Attributes : task[w].gone[a] > 0}) ELSE Ended(w)
  /\ UNCHANGED <<tables, shown, counted, stale, requests, crashes>>

\* Wrong: only the connections of transactions are waited for with a limit.
Waiting_Begin(w) == \E kind \in {"privs", "edit", "type"} : At(w, kind, "begin")

Waiting(w) ==
  \/ \E kind \in {"privs", "edit", "type"} : At(w, kind, "begin")
  \/ \E step \in {"fetch", "save"} : At(w, "profile", step)
  \/ \E step \in {"fetch", "save", "add"} : At(w, "type", step)

\* acquireConnectionTimeout.
TimeOut(w) == Waiting(w) /\ free = 0 /\ Fails(w) /\ UNCHANGED faults

\* A statement fails.
Fault(w) ==
  /\ task[w].conns > 0
  /\ faults < MaxFaults /\ faults' = faults + 1
  /\ Fails(w)

----------------------------------------------------------------------------
(* The row of the editor.                                                  *)

\* Wrong: compared with what the page showed.
NoChange_Old(t) == editor.privs = t.form.old

NoChange(t) == editor.privs = t.form.new

Fetch(w) ==
  /\ task[w].kind \in {"privs", "profile", "edit"} /\ task[w].step = "fetch"
  /\ task[w].kind = "profile" => free > 0
  /\ IF task[w].kind = "privs" /\ NoChange(task[w])
     THEN Abandoned(w, "refused", {})
     ELSE /\ task' = [task EXCEPT ![w].step = "save", ![w].row = editor, ![w].fresh = TRUE]
          /\ UNCHANGED <<free, kept, rowKept, goneKept>>
  /\ UNCHANGED <<tables, shown, counted, stale, bounds>>

\* save() writes every column as it was read, with what was changed.
Saved(t) ==
  CASE t.kind = "privs" -> [t.row EXCEPT !.privs = t.form.new]
    [] t.kind = "edit" -> [t.row EXCEPT !.edits = @ + 1]
    [] t.kind = "profile" -> t.row

\* Whoever writes the row waits for the transaction that wrote it.
RowLocked == rowKept \/ \E w \in Workers : task[w].wrote

Overtaken(w) == [v \in Workers |-> IF v = w THEN task[v] ELSE [task[v] EXCEPT !.fresh = FALSE]]

\* In a transaction.
Write(w) ==
  /\ At(w, "privs", "save") \/ At(w, "edit", "save")
  /\ ~RowLocked
  /\ task' = [task EXCEPT ![w].wrote = TRUE, ![w].row = Saved(task[w]),
                          ![w].step = IF task[w].kind = "privs" THEN "log" ELSE "commit"]
  /\ UNCHANGED <<tables, free, kept, rowKept, goneKept, shown, counted, stale, bounds>>

\* By itself.
WriteProfile(w) ==
  /\ At(w, "profile", "write")
  /\ ~RowLocked
  /\ editor' = Saved(task[w])
  /\ stale' = (stale \/ ~task[w].fresh)
  /\ free' = free + 1
  /\ task' = [Overtaken(w) EXCEPT ![w] = Idle]
  /\ shown' = [shown EXCEPT !.privs = @ \cup {editor'.privs}]
  /\ UNCHANGED <<log, type, kept, rowKept, goneKept, counted, bounds>>

\* createAdminLog.
Log(w) ==
  /\ At(w, "privs", "log")
  /\ task' = [task EXCEPT ![w].step = "commit"]
  /\ UNCHANGED <<tables, free, kept, rowKept, goneKept, shown, counted, stale, bounds>>

\* Wrong: the row is written, the log is not.
Logged_Not(t) == log

Logged(t) == IF t.kind = "privs" THEN Append(log, t.form) ELSE log

Commit(w) ==
  /\ At(w, "privs", "commit") \/ At(w, "edit", "commit")
  /\ editor' = task[w].row
  /\ log' = Logged(task[w])
  /\ counted' = IF task[w].kind = "edit" THEN counted + 1 ELSE counted
  /\ free' = free + task[w].conns
  /\ task' = [Overtaken(w) EXCEPT ![w] = Idle]
  /\ shown' = [shown EXCEPT !.privs = @ \cup {editor'.privs}]
  /\ stale' = (stale \/ ~task[w].fresh)
  /\ UNCHANGED <<type, kept, rowKept, goneKept, bounds>>

----------------------------------------------------------------------------
(* The type. Its transaction has a connection, and is used to remove       *)
(* attributes only: the other statements take one more each.               *)

FetchType(w) ==
  /\ At(w, "type", "fetch") /\ free > 0
  /\ task' = [task EXCEPT ![w].step = "save"]
  /\ UNCHANGED <<tables, free, kept, rowKept, goneKept, shown, counted, stale, bounds>>

SaveType(w) ==
  /\ At(w, "type", "save") /\ free > 0
  /\ type' = [type EXCEPT !.label = task[w].form.label]
  /\ task' = [task EXCEPT ![w].step = "remove"]
  /\ UNCHANGED <<editor, log, free, kept, rowKept, goneKept, shown, counted, stale, bounds>>

Removed(t) == t.form.old \ t.form.new

\* Wrong: what is there already is added again.
Added_All(t) == t.form.new

Added(t) == t.form.new \ t.form.old

AttributeLocked(a) == a \in goneKept \/ \E w \in Workers : task[w].gone[a] > 0

\* A delete of no row is an error; those that were started with it are still run.
RemoveAttributes(w) ==
  /\ At(w, "type", "remove")
  /\ \A a \in Removed(task[w]) : ~AttributeLocked(a)
  /\ IF Removed(task[w]) \subseteq Present
     THEN /\ task' = [task EXCEPT ![w].step = "add", ![w].todo = Added(task[w]),
                ![w].gone = [a \in Attributes |-> IF a \in Removed(task[w]) THEN type.attrs[a] ELSE 0]]
          /\ UNCHANGED <<free, kept, rowKept, goneKept>>
     ELSE Abandoned(w, "failed", Removed(task[w]) \cap Present)
  /\ UNCHANGED <<tables, shown, counted, stale, bounds>>

AddAttribute(w) ==
  /\ At(w, "type", "add") /\ free > 0
  /\ \E a \in task[w].todo :
       /\ type' = [type EXCEPT !.attrs[a] = @ + 1]
       /\ task' = [task EXCEPT ![w].todo = @ \ {a}]
  /\ shown' = [shown EXCEPT !.attrs = @ \cup {Present'}]
  /\ UNCHANGED <<editor, log, free, kept, rowKept, goneKept, counted, stale, bounds>>

CommitType(w) ==
  /\ At(w, "type", "add") /\ task[w].todo = {}
  /\ type' = [type EXCEPT !.attrs = [a \in Attributes |-> @[a] - task[w].gone[a]]]
  /\ shown' = [shown EXCEPT !.attrs = @ \cup {Present'}]
  /\ Ended(w)
  /\ UNCHANGED <<editor, log, counted, stale, bounds>>

----------------------------------------------------------------------------
\* The server is restarted: the database rolls back what was left.
Crash ==
  /\ crashes < MaxCrashes /\ crashes' = crashes + 1
  /\ task' = [w \in Workers |-> Idle]
  /\ free' = PoolSize
  /\ kept' = [e \in Ends |-> 0] /\ rowKept' = FALSE /\ goneKept' = {}
  /\ UNCHANGED <<tables, shown, counted, stale, requests, faults>>

Begin(w) == ChangePrivs(w) \/ EditProfile(w) \/ Edit(w) \/ EditType(w)

Step(w) ==
  \/ \E kind \in {"privs", "edit", "type"} : Connect(w, kind, "begin", "fetch")
  \/ Connect(w, "profile", "save", "write")
  \/ Fetch(w) \/ Write(w) \/ WriteProfile(w) \/ Log(w) \/ Commit(w)
  \/ FetchType(w) \/ SaveType(w) \/ RemoveAttributes(w) \/ AddAttribute(w) \/ CommitType(w)
  \/ TimeOut(w)

Next == Crash \/ \E w \in Workers : Begin(w) \/ Step(w) \/ Fault(w)

\* Statements are run and answered, and who waits for a connection gets one or an error.
Fairness == \A w \in Workers : WF_vars(Step(w))

Spec == Init /\ [][Next]_vars /\ Fairness

----------------------------------------------------------------------------
(* Properties.                                                             *)

TypeOK ==
  /\ editor \in [privs : Privs, edits : Nat]
  /\ log \in Seq([old : Privs, new : Privs])
  /\ type \in [label : Labels, attrs : [Attributes -> Nat]]
  /\ task \in [Workers -> Task]
  /\ free \in 0..PoolSize
  /\ kept \in [Ends -> 0..PoolSize] /\ rowKept \in BOOLEAN /\ goneKept \subseteq Attributes
  /\ shown \in [privs : SUBSET Privs, attrs : SUBSET SUBSET Attributes]
  /\ counted \in Nat /\ stale \in BOOLEAN
  /\ {requests, faults, crashes} \subseteq Nat

\* A connection is lost by a refusal only if some administrator has changed the
\* privileges since the page of another was opened, and by a failure only if a
\* statement failed, no connection was left to go on with, or a form about the type
\* met another or was filled in on a page that was not current.
KeptOnlyWhen ==
  [][/\ kept'["refused"] > kept["refused"] => log # <<>>
     /\ kept'["failed"] > kept["failed"] =>
          \/ faults' > faults
          \/ free = 0
          \/ \E w \in Workers : task[w].kind = "type" /\ ~task[w].alone]_vars

\* The privileges are those of the last row of the log, and every edit is counted,
\* unless some request saved the whole row from what it had read before another
\* request saved it: then an editor's form, an edit or an administrator writes back
\* the privileges or the count of before, and the log says otherwise.
NothingOverwritten ==
  ~stale => /\ editor.privs = IF log = <<>> THEN FirstPrivs ELSE log[Len(log)].new
            /\ editor.edits = counted

\* An answer that all went well, to a form about the type that no other met and
\* whose page was current, means just the attributes of the form, each once, and
\* its label; an error leaves all the attributes that were there, though the label
\* may be new and attributes may have been added.
TypeAsAsked ==
  [][\A w \in Workers :
       task[w].kind = "type" /\ task[w].alone /\ task'[w] = Idle /\ crashes' = crashes =>
         LET form == task[w].form
             ok == free' > free
         IN IF ok THEN type' = [label |-> form.label, attrs |-> Once(form.new)]
            ELSE form.old \subseteq Present']_vars

\* Every request is answered in the end, unless it waits for rows that a failed
\* transaction has locked for good.
Answered ==
  \A w \in Workers :
    task[w].kind # "idle" ~> \/ task[w].kind = "idle"
                             \/ rowKept /\ task[w].kind \in {"privs", "profile", "edit"}
                             \/ goneKept # {} /\ task[w].kind = "type"
=============================================================================

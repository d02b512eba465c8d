---------------------------- MODULE UnifiedForm ----------------------------
(***************************************************************************)
(* The form that creates an edition with all that belongs to it            *)
(* (src/client/unified-form, its submission in entity-editor, and          *)
(* src/server/routes/entity/process-unified-form.ts). The page keeps one   *)
(* set of slices for whatever is being entered: while an author, a group,  *)
(* a publisher or a work is created in a modal, the edition is put aside.  *)
(* A modal is closed as soon as it is submitted, its answer comes when it  *)
(* comes. The form itself is posted as a batch, whose entities the server  *)
(* saves one by one, each in a transaction of its own.                     *)
(*                                                                         *)
(* Entities are numbers: n is what the n-th modal creates, Existing is one *)
(* found by the search. The credit has one row. Left out: series.          *)
(***************************************************************************)
EXTENDS Naturals, SequencesExt

CONSTANTS
  None,
  Types,       \* of modals that are opened
  MaxModals, MaxChoices, MaxSubmits, MaxFaults, MaxEdits  \* bounds

ModalTypes == {"author", "editionGroup", "publisher", "work"}

VARIABLES
  form,      \* the slices: what is shown
  dumped,    \* Editions.e0: the edition while a modal is open
  group0,    \* EditionGroups.eg0
  works,     \* Works: the rows, in their order
  modal,     \* the open modal, None without one
  calls,     \* modals that were submitted and not answered
  left,      \* the page went to the new edition
  batches,   \* the form's submissions, in their order
  saves,     \* works saved by a batch: <<batch, work, author>>
  editions,  \* batches that saved their edition
  title,     \* of the existing work, as a version
  wanted,    \* history: what the user chose and was told of, for the edition
  givenUp,   \* history: another group was chosen, but not with the select
  mixed,     \* history: modals that were open when the answer to an author came
  strayed,   \* history: the form's own error came while a modal was open
  cleared,   \* history: how often a modal's answer enabled a form that waits
  opened, chosen, faults, lost, edits  \* what the bounds count

edition == <<form, dumped, group0, works, modal>>
server == <<saves, editions, title>>
history == <<wanted, givenUp, mixed, strayed, cleared>>
bounds == <<opened, chosen, faults, lost, edits>>
vars == <<edition, calls, left, batches, server, history, bounds>>

Existing == 0
Entities == Existing .. MaxModals
Modals == 1 .. MaxModals
Optional == Entities \cup {None}

\* name says whose name the name section holds: the edition's, or that of modal n.
EditionName == 0
Form == [name : Entities, author : Optional, group : Optional,
         publishers : SUBSET Entities, submitted : BOOLEAN]
Modal == [n : Modals, type : ModalTypes, authors : SUBSET Entities]
Call == [n : Modals, type : ModalTypes, name : Entities, author : Optional,
         authors : SUBSET Entities]
Row == [work : Entities, checked : BOOLEAN, authors : SUBSET Entities]
Batch == [name : Entities, author : Optional,
          ticked : SUBSET Entities,         \* works that are to have the author
          todo : SUBSET (Nat \X Entities),  \* rows still to be saved: <<place, work>>
          step : {"sent", "open", "refused", "failed", "saved"},
          waiting : BOOLEAN,                \* the page has had no answer
          read : 0 .. MaxEdits,             \* the existing work's title
          stale : BOOLEAN]                  \* history: it was saved since

FirstForm == [name |-> EditionName, author |-> Existing, group |-> None,
              publishers |-> {}, submitted |-> FALSE]
FirstWanted == [author |-> Existing, group |-> None, publishers |-> {}]

Init ==
  /\ form = FirstForm
  /\ dumped = None /\ group0 = None /\ modal = None
  /\ works = << >> /\ calls = {} /\ left = FALSE
  /\ batches = << >> /\ saves = {} /\ editions = {} /\ title = 0
  /\ wanted = FirstWanted
  /\ givenUp = FALSE /\ mixed = {} /\ strayed = FALSE /\ cleared = 0
  /\ opened = 0 /\ chosen = 0 /\ faults = 0 /\ lost = 0 /\ edits = 0

\* The authors a work has in the database: the existing one had the existing author.
AuthorsOf(w) ==
  {s[3] : s \in {s \in saves : s[2] = w}} \cup
  (IF w = Existing THEN {Existing} ELSE {})

----------------------------------------------------------------------------
(* The edition, with no modal open.                                        *)

Idle == ~left /\ modal = None

Choose ==
  /\ Idle
  /\ chosen + opened < MaxChoices
  /\ chosen' = chosen + 1
  /\ UNCHANGED <<opened, faults, lost, edits>>

\* An author found by the search, in the row of the credit.
PickAuthor ==
  /\ Choose
  /\ form' = [form EXCEPT !.author = Existing]
  /\ wanted' = [wanted EXCEPT !.author = Existing]
  /\ UNCHANGED <<dumped, group0, works, modal, calls, left, batches, server,
                 givenUp, mixed, strayed, cleared>>

ChooseGroup(g) ==
  /\ Choose
  /\ form' = [form EXCEPT !.group = g]
  /\ wanted' = [wanted EXCEPT !.group = g]
  /\ UNCHANGED <<dumped, works, modal, calls, left, batches, server,
                 mixed, strayed, cleared>>

\* With the select, which clears what was created.
PickGroup ==
  /\ ChooseGroup(Existing)
  /\ group0' = None
  /\ givenUp' = FALSE

\* With the list of groups of the same name, or the button that leaves the group to
\* the server: neither clears it.
ReplaceGroup ==
  /\ \E g \in {Existing, None} : ChooseGroup(g)
  /\ givenUp' = (givenUp \/ group0 # None)
  /\ UNCHANGED group0

ChangeWorks(rows) ==
  /\ Choose
  /\ works' = rows
  /\ UNCHANGED <<form, dumped, group0, modal, calls, left, batches, server, history>>

Found(checked) == [work |-> Existing, checked |-> checked, authors |-> AuthorsOf(Existing)]

PickWork == ChangeWorks(Append(works, Found(TRUE)))

ChangeWork(i) == ChangeWorks(ReplaceAt(works, i, Found(works[i].checked)))
RemoveWork(i) == ChangeWorks(RemoveAt(works, i))
ToggleWork(i) == ChangeWorks([works EXCEPT ![i].checked = ~@])

----------------------------------------------------------------------------
(* Modals.                                                                 *)

\* What the slices are reset to for the entity of modal n.
Blank(n, type) ==
  [name |-> n,
   author |-> IF type = "editionGroup" THEN None ELSE form.author,
   group |-> None, publishers |-> {}, submitted |-> FALSE]

\* The edition is put aside.
Aside == form

\* dumpEdition, and what is known of the entity.
Open(type, authors) ==
  /\ Idle
  /\ opened < MaxModals /\ chosen + opened < MaxChoices
  /\ opened' = opened + 1
  /\ modal' = [n |-> opened + 1, type |-> type, authors |-> authors]
  /\ dumped' = Aside
  /\ form' = Blank(opened + 1, type)
  /\ UNCHANGED <<group0, works, calls, left, batches, server, history, chosen, faults, lost, edits>>

OpenModal(type) == Open(type, {})

\* Another work with what row i says.
DuplicateWork(i) == Open("work", works[i].authors)

Loaded_AsItWas == dumped
Loaded_Enabled == [dumped EXCEPT !.submitted = FALSE,
                                 !.group = IF group0 # None THEN group0 ELSE @]
\* The edition as it was put aside; a group that was created goes into it.
Loaded == [dumped EXCEPT !.group = IF group0 # None THEN group0 ELSE @]

\* loadEdition
Close ==
  /\ form' = Loaded
  /\ dumped' = None
  /\ modal' = None
  /\ UNCHANGED <<group0, works, left, batches, server, history, bounds>>

CloseModal ==
  /\ ~left /\ modal # None
  /\ Close
  /\ UNCHANGED calls

Posted_Late == Loaded
\* What is sent is read before the edition is loaded.
Posted == form

SubmitModal ==
  /\ ~left /\ modal # None
  /\ calls' = calls \cup {[n |-> modal.n, type |-> modal.type, name |-> Posted.name,
                           author |-> Posted.author, authors |-> modal.authors]}
  /\ Close

\* The addition of entity n, to whatever the slices describe now.
Added(type, n) ==
  CASE type = "author"       -> [form EXCEPT !.author = n]
    [] type = "editionGroup" -> [form EXCEPT !.group = n]
    [] type = "publisher"    -> [form EXCEPT !.publishers = @ \cup {n}]
    [] type = "work"         -> form

\* The entity was created: addAuthor, addEditionGroup, addPublisher or addWork.
AnswerCall(c) ==
  /\ ~left
  /\ calls' = calls \ {c}
  /\ form' = [Added(c.type, c.n) EXCEPT !.submitted = FALSE]
  /\ group0' = IF c.type = "editionGroup" THEN c.n ELSE group0
  /\ works' = IF c.type = "work"
              THEN Append(works, [work |-> c.n, checked |-> TRUE, authors |-> c.authors])
              ELSE works
  /\ saves' = IF c.type = "work" THEN saves \cup {<<0, c.n, a>> : a \in c.authors} ELSE saves
  /\ wanted' = CASE c.type = "editionGroup"               -> [wanted EXCEPT !.group = c.n]
                 [] c.type = "author" /\ modal = None     -> [wanted EXCEPT !.author = c.n]
                 [] c.type = "publisher" /\ modal = None  -> [wanted EXCEPT !.publishers = @ \cup {c.n}]
                 [] OTHER                                 -> wanted
  /\ givenUp' = (givenUp /\ c.type # "editionGroup")
  /\ mixed' = IF c.type = "author" /\ modal # None THEN mixed \cup {modal.n} ELSE mixed
  /\ cleared' = IF form.submitted THEN cleared + 1 ELSE cleared
  /\ UNCHANGED <<dumped, modal, left, batches, editions, title, strayed, bounds>>

\* It was not, or the answer got lost.
RefuseCall(c) ==
  /\ ~left
  /\ calls' = calls \ {c}
  /\ form' = [form EXCEPT !.submitted = FALSE]
  /\ cleared' = IF form.submitted THEN cleared + 1 ELSE cleared
  /\ UNCHANGED <<dumped, group0, works, modal, left, batches, server,
                 wanted, givenUp, mixed, strayed, bounds>>

----------------------------------------------------------------------------
(* The submission of the form.                                             *)

Lacks_Unchecked(row, author) == TRUE
\* The row's work is not known to have the author. Only authors found by the search
\* have the identifier that is looked for.
Lacks(row, author) == author # Existing \/ author \notin row.authors

Enabled_Always == TRUE
Enabled == ~form.submitted

\* The page sends its works, then the edition.
Submit ==
  /\ Idle /\ Enabled
  /\ Len(batches) < MaxSubmits
  /\ form' = [form EXCEPT !.submitted = TRUE]
  /\ LET ticked == {i \in DOMAIN works : works[i].checked}
         changed == {i \in ticked : Lacks(works[i], form.author)}
     IN  batches' = Append(batches,
           [name |-> form.name, author |-> form.author,
            ticked |-> {works[i].work : i \in ticked},
            todo |-> {<<i, works[i].work>> : i \in changed},
            step |-> "sent", waiting |-> TRUE, read |-> 0, stale |-> FALSE])
  /\ UNCHANGED <<dumped, group0, works, modal, calls, left, server, history, bounds>>

\* Work w is saved: what the open batches have fetched of it is old.
Overtaken(w) ==
  [b \in DOMAIN batches |->
     [batches[b] EXCEPT !.stale = @ \/ (w = Existing /\ batches[b].step = "open")]]

Ended(b, step) ==
  [batches EXCEPT ![b].step = step, ![b].read = 0, ![b].stale = FALSE]

Served == UNCHANGED <<edition, calls, left, history, opened, chosen, lost, edits>>

Fetched_AtFirst == 0
\* preprocessForm fetches each work that is not new, and puts what was posted over it.
Fetched == title

\* The row that comes next.
First(rows) == CHOOSE r \in rows : \A q \in rows : r[1] <= q[1]

Receive(b) ==
  /\ batches[b].step = "sent"
  /\ batches' = [batches EXCEPT ![b].step = "open", ![b].read = Fetched]
  /\ Served
  /\ UNCHANGED <<server, faults>>

\* The next entity, in a transaction of its own: a work is saved as it was fetched,
\* with the author.
SaveWork(b) ==
  /\ batches[b].step = "open" /\ batches[b].todo # {}
  /\ LET row == First(batches[b].todo)
         w == row[2]
     IN  /\ saves' = saves \cup {<<b, w, batches[b].author>>}
         /\ title' = IF w = Existing THEN batches[b].read ELSE title
         /\ batches' = [Overtaken(w) EXCEPT ![b].todo = @ \ {row}]
  /\ Served
  /\ UNCHANGED <<editions, faults>>

\* Nothing differs: 'No Updated Field'.
RefuseWork(b) ==
  /\ batches[b].step = "open" /\ batches[b].todo # {}
  /\ LET w == First(batches[b].todo)[2]
     IN  /\ batches[b].author \in AuthorsOf(w)
         /\ w = Existing => batches[b].read = title
  /\ batches' = Ended(b, "refused")
  /\ Served
  /\ UNCHANGED <<server, faults>>

Due_Early(b) == TRUE
\* The edition comes last.
Due(b) == batches[b].todo = {}

SaveEdition(b) ==
  /\ batches[b].step = "open" /\ Due(b)
  /\ editions' = editions \cup {b}
  /\ batches' = Ended(b, "saved")
  /\ Served
  /\ UNCHANGED <<saves, title, faults>>

\* A transaction is rolled back: what was saved before stays.
Fail(b) ==
  /\ batches[b].step \in {"sent", "open"} /\ faults + lost < MaxFaults
  /\ faults' = faults + 1
  /\ batches' = [Ended(b, "failed") EXCEPT ![b].todo = {}]
  /\ Served
  /\ UNCHANGED server

Reenabled_Not == form
\* The page gets an error: whatever form it shows can be submitted again.
Reenabled == [form EXCEPT !.submitted = FALSE]

Excuse(b) ==
  /\ ~left
  /\ batches[b].waiting
  /\ batches' = [batches EXCEPT ![b].waiting = FALSE]
  /\ form' = Reenabled
  /\ strayed' = (strayed \/ modal # None)
  /\ UNCHANGED <<dumped, group0, works, modal, calls, left, server,
                 wanted, givenUp, mixed, cleared, opened, chosen, faults, edits>>

AnswerError(b) ==
  /\ batches[b].step \in {"refused", "failed"}
  /\ Excuse(b)
  /\ UNCHANGED lost

\* The connection breaks, the server goes on.
LoseAnswer(b) ==
  /\ faults + lost < MaxFaults
  /\ lost' = lost + 1
  /\ Excuse(b)

\* The page goes to the edition, and with it goes what it kept.
Answer(b) ==
  /\ ~left
  /\ batches[b].waiting /\ batches[b].step = "saved"
  /\ batches' = [batches EXCEPT ![b].waiting = FALSE]
  /\ left' = TRUE
  /\ form' = FirstForm /\ wanted' = FirstWanted
  /\ dumped' = None /\ group0' = None /\ modal' = None
  /\ works' = << >> /\ calls' = {} /\ givenUp' = FALSE
  /\ UNCHANGED <<server, mixed, strayed, cleared, bounds>>

\* Another editor's revision of the existing work, while a batch is being saved: at any
\* other time it is nothing to the page.
EditTitle ==
  /\ \E b \in DOMAIN batches : batches[b].step = "open"
  /\ edits < MaxEdits
  /\ edits' = edits + 1
  /\ title' = edits + 1
  /\ batches' = Overtaken(Existing)
  /\ UNCHANGED <<edition, calls, left, saves, editions, history, opened, chosen, faults, lost>>

----------------------------------------------------------------------------

Serve(b) == Receive(b) \/ SaveWork(b) \/ RefuseWork(b) \/ SaveEdition(b)

Next ==
  \/ PickAuthor \/ PickGroup \/ ReplaceGroup \/ PickWork
  \/ \E i \in DOMAIN works :
       ChangeWork(i) \/ RemoveWork(i) \/ ToggleWork(i) \/ DuplicateWork(i)
  \/ \E t \in Types : OpenModal(t)
  \/ CloseModal \/ SubmitModal
  \/ \E c \in calls : AnswerCall(c) \/ RefuseCall(c)
  \/ Submit
  \/ \E b \in DOMAIN batches :
       Serve(b) \/ Fail(b) \/ AnswerError(b) \/ LoseAnswer(b) \/ Answer(b)
  \/ EditTitle

\* The server goes on with what it has received, and its answers arrive.
Fairness ==
  \A b \in 1 .. MaxSubmits :
    WF_vars(b \in DOMAIN batches /\ (Serve(b) \/ AnswerError(b) \/ Answer(b)))

Spec == Init /\ [][Next]_vars /\ Fairness

----------------------------------------------------------------------------

\* The state is well formed, and the edition is put aside exactly while a modal is open
\* (unified-form/helpers.ts).
TypeOK ==
  /\ form \in Form
  /\ dumped \in Form \cup {None}
  /\ group0 \in Optional
  /\ works \in Seq(Row)
  /\ modal \in Modal \cup {None}
  /\ (modal = None) <=> (dumped = None)
  /\ calls \subseteq Call
  /\ left \in BOOLEAN
  /\ batches \in Seq(Batch) /\ Len(batches) <= MaxSubmits
  /\ saves \subseteq (0 .. MaxSubmits) \X Entities \X Optional
  /\ editions \subseteq DOMAIN batches
  /\ {title, edits} \subseteq 0 .. MaxEdits
  /\ wanted \in [author : Optional, group : Optional, publishers : SUBSET Entities]
  /\ {givenUp, strayed} \subseteq BOOLEAN
  /\ mixed \subseteq Modals /\ opened \in 0 .. MaxModals /\ cleared \in Nat
  /\ {faults, lost, faults + lost} \subseteq 0 .. MaxFaults /\ chosen \in 0 .. MaxChoices

\* One set of slices serves many entities, and still each is created from its own: a
\* modal posts what was entered in it, the form the edition. A group gets no author
\* that nobody gave it, unless the answer to another modal came while its own was open.
PostsItsOwn ==
  /\ \A c \in calls : /\ c.name = c.n
                      /\ c.type = "editionGroup" /\ c.n \notin mixed => c.author = None
  /\ \A b \in DOMAIN batches : batches[b].name = EditionName

\* Putting the edition aside and taking it back loses nothing: it has the author,
\* group and publishers that were chosen or created, whatever modals came in between,
\* except for authors and publishers whose answer came while a modal was open. A group
\* that was replaced without the select may come back instead of the new choice.
DraftAsWanted ==
  modal = None /\ ~left =>
    /\ form.author = wanted.author
    /\ form.publishers = wanted.publishers
    /\ form.group = wanted.group \/ (givenUp /\ form.group = group0)

\* The button is off while a submission waits for its answer, and only then: except
\* that the answer to a modal turns it on, and that an error which finds a modal open
\* turns on the modal's, leaving the form's off for good.
FlagTruthful ==
  modal = None /\ ~left =>
    LET Waiting == \E b \in DOMAIN batches : batches[b].waiting
    IN  /\ form.submitted => Waiting \/ strayed
        /\ Waiting => form.submitted \/ cleared > 0

\* The slices that all the forms of the page share keep them apart.
FormsKeptApart == PostsItsOwn /\ DraftAsWanted /\ FlagTruthful

\* However often it is submitted, a form creates one edition: one more for each answer
\* that got lost, and for each time a modal's answer turned the button on.
OneEdition == Cardinality(editions) <= 1 + lost + cleared

\* The batch is not one transaction, but when the edition is there, then every work
\* that was ticked has its author.
WholeBatch ==
  \A b \in editions : \A w \in batches[b].ticked : batches[b].author \in AuthorsOf(w)

\* 'No Updated Field' means that this page has saved the work with this author before: in
\* an earlier batch that failed later on, for another row, or as a duplicate of a work.
RefusedOnlyAgain ==
  \A b \in DOMAIN batches : batches[b].step = "refused" =>
    \E s \in saves : s[2] = First(batches[b].todo)[2] /\ s[3] = batches[b].author

\* Crediting the author takes back another editor's revision of a work only if that
\* was made after the server received the form.
TitleKept ==
  [][title' # title =>
       \/ edits' # edits
       \/ \E b \in DOMAIN batches : batches[b].stale /\ batches'[b].todo # batches[b].todo]_vars

\* Whoever has submitted the form leaves it or can submit it again, unless an error
\* found a modal open.
Answered ==
  (form.submitted /\ Idle /\ ~strayed)
    ~> (left \/ ~form.submitted \/ modal # None \/ strayed)
=============================================================================

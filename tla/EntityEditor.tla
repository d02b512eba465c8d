---------------------------- MODULE EntityEditor ----------------------------
(***************************************************************************)
(* The page on which one entity is created or edited                       *)
(* (src/client/entity-editor), for every type of entity: the name section  *)
(* with its warning of duplicates, the aliases in their modal, the         *)
(* relationships with their editor and the undo button, the submission.    *)
(*                                                                         *)
(* What is typed is shown at once and reaches the store when the keyboard  *)
(* has been quiet for 250 ms: there is one timer for all text fields, and  *)
(* it keeps the last action only. Names are looked up after 500 ms; the    *)
(* answers come in any order, or not at all. (The name of an edition is    *)
(* not looked up: of its page the model has the rest, and what it says of  *)
(* checks and matches does not apply.)                                     *)
(*                                                                         *)
(* The sort name stands for the other fields of text, whole for what else  *)
(* a row of the aliases needs; for the identifiers see Identifiers.        *)
(***************************************************************************)
EXTENDS Naturals, SequencesExt

CONSTANTS
  None,
  Texts,       \* what can be typed
  NoText,       \* the empty one
  Taken,       \* names that another entity has
  FirstName,   \* of the entity that is edited
  OldAliases,  \* ids of its aliases
  OldRows,     \* ids of its relationships
  MaxActs  \* bound: what is typed, added, saved, removed and undone

VARIABLES
  shown,    \* the text fields as the page shows them
  stored,   \* and as the store has them
  pending,  \* the action that waits for the keyboard to be quiet
  aliases,  \* aliasEditor: rows by their key
  open,     \* what is open above the page
  rows,     \* relationships by the number in their key
  last,     \* lastRelationships
  timer,    \* a name to be looked up
  checks,   \* names being looked up, as they were sent
  matches,  \* exactMatches: the name whose owners the page warns of
  creates,  \* whether the entity is a new one
  submitted,
  away,     \* the page has gone to the entity
  skipped,  \* history: fields (or an alias) whose action was replaced by another's
  kept,     \* history: aliases that were added and neither removed nor empty
  revived,  \* history: aliases whose text arrived after they were gone
  meant,   \* history: the relationships the editor has made of them
  recorded, \* history: what they were when last was kept
  asked,    \* history: whether the last name sent was answered, and in its turn
  nextAlias, nextRow,  \* counters
  acts      \* what the bound counts

texts == <<shown, stored, pending, skipped>>
aliasing == <<aliases, kept, revived, nextAlias>>
relating == <<rows, last, meant, recorded, nextRow>>
naming == <<timer, checks, matches, asked>>
ending == <<creates, submitted, away>>
vars == <<texts, aliasing, relating, naming, ending, open, acts>>

Fields == {"name", "sortName"}
Typed(field, key, text) == [field |-> field, key |-> key, text |-> text]

\* 'n0', 'n1', ... for new aliases; old ones have their id for a key.
Key(new, n) == [new |-> new, n |-> n]
AliasKeys == [new : {TRUE}, n : 0..MaxActs] \cup [new : {FALSE}, n : OldAliases]
Alias == [name : Texts, whole : BOOLEAN]

\* A relationship, by where it comes from; also the row that shows it.
Site(n) == [added |-> FALSE, n |-> n]
Added(n) == [added |-> TRUE, n |-> n]
Relationships == [added : {FALSE}, n : OldRows] \cup [added : {TRUE}, n : 0..(MaxActs + 1)]

\* What a page starts with has a key of another kind, 'i0'.
Given == MaxActs + 1
Numbers == OldRows \cup 0..Given

\* A row has its number in it once more, which is that of another one when the fields
\* were taken from there.
Row == [id : Numbers, of : Relationships \cup {None}, removed : BOOLEAN]
Fresh(n, relationship) == [id |-> n, of |-> relationship, removed |-> FALSE]

\* What is open above the page.
Nothing == [what |-> "nothing", row |-> None]
TheAliases == [what |-> "aliases", row |-> None]
Relationship(n) == [what |-> "relationship", row |-> n]

Page(text, theAliases, theRows) ==
  /\ shown = [f \in Fields |-> text] /\ stored = shown
  /\ aliases = [k \in {Key(FALSE, a) : a \in theAliases} |-> [name |-> text, whole |-> TRUE]]
  /\ rows = [n \in {r.n : r \in theRows} |-> Fresh(n, CHOOSE r \in theRows : r.n = n)]

\* A page for a new entity: from nothing, or from another one with the same name, to
\* which it will be related. The page treats the name as if it had been typed.
NewPage ==
  /\ creates = TRUE
  /\ Page(NoText, {}, {}) \/ Page(FirstName, {}, {Added(Given)})
  /\ timer = shown.name /\ pending = Typed("name", None, shown.name)

OldPage ==
  /\ creates = FALSE
  /\ Page(FirstName, OldAliases, {Site(n) : n \in OldRows})
  /\ timer = None /\ pending = None

Init ==
  /\ NewPage \/ OldPage
  /\ skipped = {}
  /\ open = Nothing
  /\ last = None
  /\ checks = <<>> /\ matches = None
  /\ submitted = FALSE /\ away = FALSE
  /\ kept = DOMAIN aliases /\ revived = {}
  /\ meant = {rows[n].of : n \in DOMAIN rows} /\ recorded = meant
  /\ asked = "not"
  /\ nextAlias = 0 /\ nextRow = 0
  /\ acts = 0

\* A row that says nothing but 'removed' makes a page that creates an entity fail.
Blanked == creates /\ \E n \in DOMAIN rows : rows[n].of = None

There == ~away /\ ~Blanked
OnPage == open = Nothing /\ There

----------------------------------------------------------------------------
(* Text, which reaches the store later.                                    *)

\* Wrong: the timer stays with what it was started for.
Debounce_First(action) == pending' = IF pending = None THEN action ELSE pending

\* The debouncer keeps the last action, whatever the one before was for.
Debounce(action) == pending' = action

Act == acts < MaxActs /\ acts' = acts + 1

Keystroke(field, key, text) ==
  /\ Act
  /\ Debounce(Typed(field, key, text))
  /\ skipped' = (IF pending = None THEN skipped ELSE skipped \cup {pending.field}) \ {field}

TypeName(text) ==
  /\ OnPage /\ text # shown.name
  /\ Keystroke("name", None, text)
  /\ shown' = [shown EXCEPT !.name = text]
  /\ timer' = text
  /\ asked' = "not"
  /\ UNCHANGED <<stored, aliasing, relating, checks, matches, ending, open>>

TypeSortName(text) ==
  /\ OnPage /\ text # shown.sortName
  /\ Keystroke("sortName", None, text)
  /\ shown' = [shown EXCEPT !.sortName = text]
  /\ UNCHANGED <<stored, aliasing, relating, naming, ending, open>>

\* The button copies the name that is in the store.
CopyName == TypeSortName(stored.name)

Filled(k, text) ==
  IF k \in DOMAIN aliases THEN [aliases EXCEPT ![k].name = text]
  ELSE [j \in DOMAIN aliases \cup {k} |->
         IF j = k THEN [name |-> text, whole |-> FALSE] ELSE aliases[j]]

\* setIn makes the row of an alias again if it has been removed.
Deliver ==
  /\ pending # None /\ ~away
  /\ pending' = None
  /\ IF pending.field \in Fields
     THEN stored' = [stored EXCEPT ![pending.field] = pending.text] /\ UNCHANGED <<aliases, revived>>
     ELSE /\ aliases' = Filled(pending.key, pending.text) /\ UNCHANGED stored
          /\ revived' = revived \cup ({pending.key} \ DOMAIN aliases)
  /\ UNCHANGED <<shown, skipped, kept, nextAlias, relating, naming, ending, open, acts>>

----------------------------------------------------------------------------
(* The warning that the name exists.                                       *)

\* Wrong: of a blank name nothing is said.
Due_Named == timer \notin {None, NoText}

Due == timer # None

\* Of a blank name the page knows the answer.
SendCheck ==
  /\ Due /\ ~away
  /\ timer' = None
  /\ IF timer = NoText
     THEN matches' = None /\ asked' = "answered" /\ UNCHANGED checks
     ELSE checks' = Append(checks, timer) /\ asked' = "sent" /\ UNCHANGED matches
  /\ UNCHANGED <<texts, aliasing, relating, ending, open, acts>>

\* History: the name that was sent last; an answer to an earlier one may follow.
Newest(i) == asked = "sent" /\ i = Len(checks)

\* Wrong: the page warns whatever the answer.
MatchesOf_Any(name) == name

\* Wrong: an answer that says nobody has the name is ignored.
MatchesOf_Kept(name) == IF name \in Taken THEN name ELSE matches

MatchesOf(name) == IF name \in Taken THEN name ELSE None

AnswerCheck(i) ==
  /\ i \in DOMAIN checks /\ ~away
  /\ checks' = RemoveAt(checks, i)
  /\ matches' = MatchesOf(checks[i])
  /\ asked' = CASE Newest(i) -> "answered"
                [] ~Newest(i) /\ asked = "answered" -> "overtaken"
                [] OTHER -> asked
  /\ UNCHANGED <<texts, aliasing, relating, timer, ending, open, acts>>

FailCheck(i) ==
  /\ i \in DOMAIN checks /\ ~away
  /\ checks' = RemoveAt(checks, i)
  /\ asked' = IF Newest(i) THEN "overtaken" ELSE asked
  /\ UNCHANGED <<texts, aliasing, relating, timer, matches, ending, open, acts>>

----------------------------------------------------------------------------
(* Aliases.                                                                *)

NewAlias ==
  /\ aliases' = [k \in DOMAIN aliases \cup {Key(TRUE, nextAlias)} |->
       IF k = Key(TRUE, nextAlias) THEN [name |-> NoText, whole |-> FALSE] ELSE aliases[k]]
  /\ kept' = kept \cup {Key(TRUE, nextAlias)}
  /\ nextAlias' = nextAlias + 1
  /\ UNCHANGED <<texts, revived, relating, naming, ending>>

\* The button opens the modal and adds a row.
OpenAliases == OnPage /\ Act /\ NewAlias /\ open' = TheAliases

AddAlias == open = TheAliases /\ There /\ Act /\ NewAlias /\ UNCHANGED open

TypeAlias(k, text) ==
  /\ open = TheAliases /\ There /\ k \in DOMAIN aliases
  /\ Keystroke("alias", k, text)
  /\ UNCHANGED <<shown, stored, aliasing, relating, naming, ending, open>>

CompleteAlias(k) ==
  /\ open = TheAliases /\ There /\ k \in DOMAIN aliases /\ ~aliases[k].whole
  /\ aliases' = [aliases EXCEPT ![k].whole = TRUE]
  /\ UNCHANGED <<texts, kept, revived, nextAlias, relating, naming, ending, open, acts>>

Without(k) == [j \in DOMAIN aliases \ {k} |-> aliases[j]]

RemoveAlias(k) ==
  /\ open = TheAliases /\ There /\ Act /\ k \in DOMAIN aliases
  /\ aliases' = Without(k)
  /\ kept' = kept \ {k} /\ revived' = revived \ {k}
  /\ UNCHANGED <<texts, nextAlias, relating, naming, ending, open>>

Unnamed == {k \in DOMAIN aliases : aliases[k].name = NoText}

\* Wrong: all rows that are not complete are removed.
Emptied_All == {k \in DOMAIN aliases : ~aliases[k].whole}

Emptied == Unnamed

\* Closing removes the rows without a name, also one whose name is still to come.
CloseAliases ==
  /\ open = TheAliases /\ There
  /\ open' = Nothing
  /\ aliases' = [k \in DOMAIN aliases \ Emptied |-> aliases[k]]
  /\ kept' = kept \ Unnamed /\ revived' = revived \ Unnamed
  /\ UNCHANGED <<texts, nextAlias, relating, naming, ending, acts>>

----------------------------------------------------------------------------
(* Relationships.                                                          *)

Listed == {n \in DOMAIN rows : ~rows[n].removed}
Shown == {rows[n].of : n \in Listed}

\* Editing starts from the fields of a row, with the number among them.
OpenRelationship(n) ==
  /\ OnPage /\ n \in Listed \cup {None}
  /\ open' = Relationship(n)
  /\ UNCHANGED <<texts, aliasing, relating, naming, ending, acts>>

CloseRelationship ==
  /\ open.what = "relationship" /\ There
  /\ open' = Nothing
  /\ UNCHANGED <<texts, aliasing, relating, naming, ending, acts>>

\* Wrong: a row of the site goes like one of the page.
Dropped_Always(n) == Restrict(rows, DOMAIN rows \ {n})

\* A row of the site is marked, one of the page goes; without such a row, the mark is
\* made all the same.
Dropped(n) ==
  IF n \in DOMAIN rows
  THEN IF rows[n].of # None /\ rows[n].of.added
       THEN Restrict(rows, DOMAIN rows \ {n})
       ELSE [rows EXCEPT ![n].removed = TRUE]
  ELSE (n :> [id |-> n, of |-> None, removed |-> TRUE]) @@ rows

\* New rows are numbered from 0, those of the site have its ids. Unless its type or its
\* entity is chosen again, a relationship keeps the number it had in it.
SaveRelationship(again) ==
  /\ open.what = "relationship" /\ There /\ Act
  /\ again \/ open.row # None
  /\ LET edited == open.row
         rest == IF edited = None THEN rows ELSE Dropped(rows[edited].id)
         row == [Fresh(nextRow, Added(nextRow)) EXCEPT
                   !.id = IF again THEN nextRow ELSE rows[edited].id]
     IN /\ rows' = (nextRow :> row) @@ rest
        /\ meant' = {Added(nextRow)} \cup
                    (meant \ (IF edited = None THEN {} ELSE {rows[edited].of}))
  /\ last' = rows /\ recorded' = meant
  /\ nextRow' = nextRow + 1
  /\ open' = Nothing
  /\ UNCHANGED <<texts, aliasing, naming, ending>>

\* Only the removal of a new row is recorded.
RemoveRelationship(n) ==
  /\ OnPage /\ Act /\ n \in Listed
  /\ rows' = Dropped(n)
  /\ meant' = meant \ {rows[n].of}
  /\ IF rows[n].of.added THEN last' = rows /\ recorded' = meant ELSE UNCHANGED <<last, recorded>>
  /\ UNCHANGED <<texts, aliasing, nextRow, naming, ending, open>>

Undo ==
  /\ OnPage /\ Act /\ last # None
  /\ rows' = last /\ last' = None
  /\ meant' = recorded
  /\ UNCHANGED <<texts, aliasing, recorded, nextRow, naming, ending, open>>

----------------------------------------------------------------------------
(* Submission.                                                             *)

\* Another entity of the name is not an obstacle, nor a disambiguation required.
Valid ==
  /\ NoText \notin {stored.name, stored.sortName}
  /\ \A k \in DOMAIN aliases : aliases[k].name # NoText /\ aliases[k].whole

Submit ==
  /\ OnPage /\ Valid /\ ~submitted
  /\ submitted' = TRUE
  /\ UNCHANGED <<texts, aliasing, relating, naming, creates, away, open, acts>>

\* The page goes to the entity, wherever the editor has got to meanwhile. The server
\* fails at a row that says nothing but 'removed'.
Succeed ==
  /\ submitted /\ ~away
  /\ \A n \in DOMAIN rows : rows[n].of # None
  /\ away' = TRUE
  /\ UNCHANGED <<texts, aliasing, relating, naming, creates, submitted, open, acts>>

Refuse ==
  /\ submitted /\ ~away
  /\ submitted' = FALSE
  /\ UNCHANGED <<texts, aliasing, relating, naming, creates, away, open, acts>>

AnswerAny == \E i \in 1..(MaxActs + 1) : AnswerCheck(i) \/ FailCheck(i)

Next ==
  \/ \E t \in Texts : TypeName(t) \/ TypeSortName(t)
  \/ CopyName \/ Deliver \/ SendCheck \/ AnswerAny
  \/ OpenAliases \/ AddAlias \/ CloseAliases
  \/ \E k \in AliasKeys : \/ CompleteAlias(k) \/ RemoveAlias(k)
                          \/ \E t \in Texts : TypeAlias(k, t)
  \/ \E n \in Numbers \cup {None} : OpenRelationship(n)
  \/ \E n \in Numbers : RemoveRelationship(n)
  \/ \E again \in BOOLEAN : SaveRelationship(again)
  \/ CloseRelationship \/ Undo
  \/ Submit \/ Succeed \/ Refuse

\* The timers expire, and requests are answered or fail.
Fairness == WF_vars(Deliver) /\ WF_vars(SendCheck) /\ WF_vars(AnswerAny)

Spec == Init /\ [][Next]_vars /\ Fairness

----------------------------------------------------------------------------
(* Properties.                                                             *)

\* The state is well formed (the reducers of entity-editor/*/reducer.js).
TypeOK ==
  /\ shown \in [Fields -> Texts] /\ stored \in [Fields -> Texts]
  /\ pending \in {None} \cup [field : Fields \cup {"alias"}, key : AliasKeys \cup {None}, text : Texts]
  /\ skipped \subseteq Fields \cup {"alias"}
  /\ DOMAIN aliases \subseteq AliasKeys /\ \A k \in DOMAIN aliases : aliases[k] \in Alias
  /\ kept \cup revived \subseteq AliasKeys
  /\ open \in {Nothing, TheAliases} \cup {Relationship(n) : n \in Numbers \cup {None}}
  /\ \A table \in {rows, last} \ {None} :
       DOMAIN table \subseteq Numbers /\ \A n \in DOMAIN table : table[n] \in Row
  /\ meant \cup recorded \subseteq Relationships
  /\ timer \in Texts \cup {None} /\ matches \in Taken \cup {None}
  /\ checks \in Seq(Texts) /\ asked \in {"not", "sent", "answered", "overtaken"}
  /\ {creates, submitted, away} \subseteq BOOLEAN
  /\ {acts, nextAlias, nextRow} \subseteq 0..MaxActs

\* What is submitted is what the page shows: a field differs from the store only while
\* its action waits, or for good when another field was typed in before its 250 ms were
\* over (one debouncer for all fields, name-section/actions.ts).
ShownIsStored ==
  \A f \in Fields : shown[f] # stored[f] =>
    f \in skipped \/ (pending # None /\ pending.field = f /\ pending.text = shown[f])

\* Numbers that the site and the page have both given.
Contested == {n \in OldRows : ~creates /\ n < nextRow}

\* What the server makes of the form: what is marked is removed, what is new is added.
Saved ==
  ({Site(n) : n \in IF creates THEN {} ELSE OldRows} \ {rows[n].of : n \in DOMAIN rows \ Listed})
    \cup {r \in Shown : r.added}

\* However relationships are added, edited, removed and undone, the page shows and the
\* server saves those that the editor has made of them: except for one that took its
\* number from another row, which further editing leaves in place, and for numbers given
\* twice, whose row of the site is overwritten (relationship-editor/reducer.js).
RelationshipsAsMeant ==
  /\ \A n \in Listed : rows[n].of \in meant \/ rows[n].id # n
  /\ \A r \in meant : r \in Shown \/ r.n \in Contested
  /\ Shown \subseteq Saved
  /\ \A r \in Saved \ Shown : r.n \in Contested

\* When the last name was looked up (that of an edition never is), the page warns of
\* exactly the entities that have the name it shows, if the answer was not overtaken by
\* an earlier one's and did not fail (checkIfNameExists).
WarnsOfTheName ==
  timer = None /\ asked = "answered" =>
    matches = IF shown.name \in Taken THEN shown.name ELSE None

\* An alias that was removed, or left without a name, is not sent with the form, unless
\* what was typed in it arrived afterwards (alias-editor/reducer.js, setIn).
AliasesAsKept == DOMAIN aliases = kept \cup revived

\* What the page shows is what its form holds and the server gets.
SentAsShown == ShownIsStored /\ RelationshipsAsMeant /\ AliasesAsKept /\ WarnsOfTheName

Behind == shown # stored \/ timer # None

CaughtUp ==
  \/ away
  \/ /\ timer = None /\ asked # "sent"
     /\ \A f \in Fields : shown[f] = stored[f] \/ f \in skipped

\* When the editor has stopped typing, the store catches up with the page, except with a
\* field that was skipped, and the page knows whether the name is taken, unless the
\* request failed or an earlier answer came last.
CaughtUpAtLast == Behind ~> CaughtUp
=============================================================================

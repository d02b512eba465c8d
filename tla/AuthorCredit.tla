---------------------------- MODULE AuthorCredit ----------------------------
(***************************************************************************)
(* The author credit of an edition or an edition group                     *)
(* (src/client/entity-editor/author-credit-editor): the authors as the     *)
(* cover names them, each with the phrase that joins it to the next one.   *)
(* It is edited in a modal, where the phrases appear by themselves, or     *)
(* turned off; it is loaded from what was saved, and saved again.          *)
(*                                                                         *)
(* An author stands for its name as well; what is typed arrives at once.   *)
(* The rest of the page is in EntityFields.                                *)
(***************************************************************************)
EXTENDS Naturals, SequencesExt

CONSTANTS
  None,
  People,    \* authors
  Pen,       \* a name that an author is credited with
  OldCredit, \* of the edition, when it has one: authors in their order
  MaxSteps    \* bound: what is done to the rows, and turned off and on

VARIABLES
  saved,    \* the author credit of the edition, None when it has none
  section,  \* creditSection: whether it is to have one
  credit,   \* authorCreditEditor: rows in the order of their keys
  enabled,  \* authorCreditEnable
  modal,    \* authorCreditEditorVisible
  written,  \* history: the page has saved it
  byHand,   \* history: somebody typed a phrase, or emptied the first of several rows
  left,     \* history: a row was left empty in the modal, after one with a phrase
  steps     \* what the bound counts

vars == <<saved, section, credit, enabled, modal, written, byHand, left, steps>>

\* '', ' & ', ', ', and anything else.
Phrases == {"", "and", "comma", "typed"}
Automatic(phrase) == phrase # "typed"

NoName == "noName"
Emptied == "emptied"  \* what the selection field leaves in 'author' when it is cleared
Names == People \cup {Pen, NoName}

Row == [author : People \cup {None, Emptied}, name : Names, join : Phrases, byItself : BOOLEAN]
EmptyRow == [author |-> None, name |-> NoName, join |-> "", byItself |-> TRUE]

Name == [author : People, name : People \cup {Pen}, join : Phrases]

\* The credit in what the page starts with: rows by their position; an empty one, to be
\* filled, when there is to be a credit and there is none.
ToRows(names, on) ==
  CASE ~on -> <<>>
    [] names = None -> <<EmptyRow>>
    [] OTHER -> [i \in DOMAIN names |->
         [author |-> names[i].author, name |-> names[i].name, join |-> names[i].join, byItself |-> TRUE]]

Joined(authors) ==
  [i \in DOMAIN authors |-> [author |-> authors[i], name |-> authors[i],
     join |-> CASE i = Len(authors) -> "" [] i = Len(authors) - 1 -> "and" [] OTHER -> "comma"]]

\* An edition from before there were credits has none, and is to have one.
Init ==
  /\ \/ saved = Joined(OldCredit) /\ section = TRUE
     \/ saved = None /\ section \in BOOLEAN
  /\ credit = ToRows(saved, section) /\ enabled = section
  /\ modal = FALSE
  /\ written = FALSE /\ byHand = FALSE /\ left = FALSE
  /\ steps = 0

----------------------------------------------------------------------------
(* The reducer.                                                            *)

\* The phrase of a row when another one comes after it: one that is there by itself gives
\* way, which row 2 from the end of them loses its '&'.
JoinedBy(row, phrase) ==
  IF row.byItself /\ Automatic(row.join) THEN [row EXCEPT !.join = phrase] ELSE row

\* Wrong: the row before the new one keeps the phrase it has.
WithRow_Bare(rows) == Append(rows, EmptyRow)

WithRow(rows) ==
  LET n == Len(rows) + 1
  IN  [i \in 1 .. n |->
         CASE i = n -> EmptyRow
           [] i = n - 1 -> JoinedBy(rows[i], "and")
           [] i = n - 2 -> JoinedBy(rows[i], "comma")
           [] OTHER -> rows[i]]

WithoutPhrase(rows) ==
  IF rows = <<>> THEN rows ELSE [rows EXCEPT ![Len(rows)].join = ""]

\* Wrong: the row that is now the last one keeps its phrase.
WithoutRow_Joined(rows, i) == IF i = 1 THEN [rows EXCEPT ![1] = EmptyRow] ELSE RemoveAt(rows, i)

\* The first row is emptied, not removed.
WithoutRow(rows, i) ==
  IF i = 1 THEN [rows EXCEPT ![1] = EmptyRow] ELSE WithoutPhrase(RemoveAt(rows, i))

WithAuthor(rows, i, author) == [rows EXCEPT ![i].author = author, ![i].name = author]
WithNobody(rows, i) == [rows EXCEPT ![i].author = Emptied, ![i].name = NoName]

IsEmpty(row) == row.author = None /\ row.name = NoName /\ row.join = ""

WithoutEmptyRows(rows) == <<Head(rows)>> \o SelectSeq(Tail(rows), LAMBDA row : ~IsEmpty(row))

----------------------------------------------------------------------------
(* The section, and its modal.                                             *)

Step == steps < MaxSteps /\ steps' = steps + 1
StaysThere == UNCHANGED <<saved, section, enabled, written>>

\* Outside the modal there is one field, for a credit of one author under the author's name.
IsEditable ==
  /\ enabled /\ Len(credit) = 1
  /\ credit[1].name = (IF credit[1].author \in {None, Emptied} THEN NoName ELSE credit[1].author)

ChooseAuthor(i, author) ==
  /\ i \in DOMAIN credit
  /\ modal \/ IsEditable
  /\ Step
  /\ credit' = WithAuthor(credit, i, author)
  /\ StaysThere /\ UNCHANGED <<modal, byHand, left>>

ClearAuthor(i) ==
  /\ modal /\ i \in DOMAIN credit /\ credit[i].author \in People
  /\ Step
  /\ credit' = WithNobody(credit, i)
  /\ StaysThere /\ UNCHANGED <<modal, byHand, left>>

TypeName(i, name) ==
  /\ modal /\ i \in DOMAIN credit
  /\ Step
  /\ credit' = [credit EXCEPT ![i].name = name]
  /\ StaysThere /\ UNCHANGED <<modal, byHand, left>>

TypePhrase(i, phrase) ==
  /\ modal /\ i \in DOMAIN credit
  /\ Step
  /\ credit' = [credit EXCEPT ![i].join = phrase, ![i].byItself = FALSE]
  /\ byHand' = TRUE
  /\ StaysThere /\ UNCHANGED <<modal, left>>

AddRow ==
  /\ modal /\ Step
  /\ credit' = WithRow(credit)
  /\ StaysThere /\ UNCHANGED <<modal, byHand, left>>

RemoveRow(i) ==
  /\ modal /\ i \in DOMAIN credit
  /\ Step
  /\ credit' = WithoutRow(credit, i)
  /\ byHand' = (byHand \/ (i = 1 /\ Len(credit) > 1))
  /\ StaysThere /\ UNCHANGED <<modal, left>>

OpenModal ==
  /\ ~modal /\ enabled
  /\ modal' = TRUE
  /\ credit' = IF credit = <<>> THEN WithRow(credit) ELSE credit
  /\ StaysThere /\ UNCHANGED <<byHand, left, steps>>

\* What is removed here takes no phrase with it: the one before it stays.
CloseModal ==
  /\ modal /\ modal' = FALSE
  /\ credit' = WithoutEmptyRows(credit)
  /\ left' = (left \/ Len(credit') < Len(credit))
  /\ StaysThere /\ UNCHANGED <<byHand, steps>>

Toggle ==
  /\ ~modal /\ Step
  /\ enabled' = ~enabled
  /\ credit' = IF enabled THEN <<>> ELSE <<EmptyRow>>
  /\ UNCHANGED <<saved, section, modal, written, byHand, left>>

----------------------------------------------------------------------------
(* Saving.                                                                 *)

\* Wrong: a row needs a name only.
ValidRow_Named(row) == row.name # NoName
ValidRow(row) == row.author \in People /\ row.name # NoName

ValidCredit == IF enabled THEN credit # <<>> /\ (\A i \in DOMAIN credit : ValidRow(credit[i])) ELSE credit = <<>>

ToNames(rows) ==
  [i \in DOMAIN rows |-> [author |-> rows[i].author, name |-> rows[i].name, join |-> rows[i].join]]

\* Wrong: the credit stays when the edition is to have none.
NextCredit_Kept(names, on) == IF on THEN names ELSE saved

\* processAuthorCredit
NextCredit(names, on) == IF on THEN names ELSE None

\* The page goes to the edition when it is saved, and can be opened again.
Save ==
  /\ ~modal /\ ValidCredit
  /\ <<NextCredit(ToNames(credit), enabled), enabled>> # <<saved, section>>
  /\ saved' = NextCredit(ToNames(credit), enabled)
  /\ section' = enabled
  /\ written' = TRUE
  /\ credit' = ToRows(saved', section') /\ enabled' = section'
  /\ UNCHANGED <<modal, byHand, left, steps>>

\* The page is opened again without saving.
Reopen ==
  /\ credit # ToRows(saved, section) \/ enabled # section
  /\ credit' = ToRows(saved, section) /\ enabled' = section /\ modal' = FALSE
  /\ UNCHANGED <<saved, section, written, byHand, left, steps>>

Next ==
  \/ \E i \in 1 .. (Len(OldCredit) + MaxSteps) :
       \/ \E author \in People : ChooseAuthor(i, author)
       \/ ClearAuthor(i)
       \/ \E name \in {Pen, NoName} : TypeName(i, name)
       \/ \E phrase \in {"", "typed"} : TypePhrase(i, phrase)
       \/ RemoveRow(i)
  \/ AddRow
  \/ OpenModal \/ CloseModal
  \/ Toggle
  \/ Save
  \/ Reopen

Spec == Init /\ [][Next]_vars

----------------------------------------------------------------------------
(* Properties.                                                             *)

\* Rows are rows; a credit that is saved has nothing but authors with names.
TypeOK ==
  /\ saved = None \/ saved \in Seq(Name)
  /\ section \in BOOLEAN /\ enabled \in BOOLEAN /\ modal \in BOOLEAN
  /\ credit \in Seq(Row)
  /\ written \in BOOLEAN /\ byHand \in BOOLEAN /\ left \in BOOLEAN
  /\ steps \in 0 .. MaxSteps

\* Unless somebody typed a phrase, emptied the first of several rows, or left an empty
\* row in the modal, a credit reads 'a, b & c': a phrase after each but the last.
ReadsWell ==
  saved # None /\ ~byHand /\ ~left =>
    \A i \in DOMAIN saved : (saved[i].join = "") <=> (i = Len(saved))

\* What the page has saved is what the edition is to have: authors, each with a name, or
\* no credit at all.
CreditOrNone ==
  written => IF section THEN saved # None /\ saved # <<>> /\ (\A i \in DOMAIN saved : saved[i] \in Name)
             ELSE saved = None

CreditHolds == ReadsWell /\ CreditOrNone
=============================================================================

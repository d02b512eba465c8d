---------------------------- MODULE EntityFields ----------------------------
(***************************************************************************)
(* The fields of an entity on their way round: from the entity to a page,  *)
(* through the section of its type, in the body of a submission, and to    *)
(* the entity again. A submission has all fields, those of a page that was *)
(* opened before somebody else's revision as well.                         *)
(*                                                                         *)
(* What is typed is here when the store has it (EntityEditor); author      *)
(* credits and the items of series are in AuthorCredit and SeriesEditor,   *)
(* names, aliases and relationships in EntityEditor. A submission is one   *)
(* step: what two of them do to each other is in EntityRevisions.          *)
(***************************************************************************)
EXTENDS Naturals, Sequences, Functions

CONSTANTS
  None,
  Editors,
  MaxPicks,   \* bound: fields that are changed, on all pages
  MaxAnswers  \* bound: submissions

EntityTypes == {"author", "edition", "editionGroup", "publisher", "work"}

VARIABLES
  type,     \* of the entity
  data,     \* its fields
  pages,    \* the page that each editor has open, None without one
  answers,  \* how submissions were answered, and to whom
  picks     \* what the bound counts

vars == <<type, data, pages, answers, picks>>

----------------------------------------------------------------------------
(* Fields.                                                                 *)

\* What the actions of a section change. The size is height, width, depth and weight.
AuthorActions == {"type", "gender", "beginArea", "beginDate", "endArea", "endDate", "ended"}
EditionActions ==
  {"editionGroup", "publishers", "releaseDate", "format", "languages", "status", "size", "pages"}
EditionGroupActions == {"type"}
PublisherActions == {"area", "type", "beginDate", "endDate", "ended"}
WorkActions == {"type", "languages"}
AnnotationActions == {"annotation"}
NameActions == {"disambiguation"}

Common == AnnotationActions \cup NameActions

Own ==
  [author |-> AuthorActions, edition |-> EditionActions, editionGroup |-> EditionGroupActions,
   publisher |-> PublisherActions, work |-> WorkActions]

Fields(t) == Own[t] \cup Common

Dates == {"beginDate", "endDate"}

\* A set of release events with more than a date: further events, or an area.
MoreThanDate == "more"

\* What can be chosen on a page.
Choices(t, f) ==
  CASE f = "ended" -> BOOLEAN
    [] f \in Dates -> {None, "early", "late"}
    [] f = "format" -> {None, "print", "eBook"}
    [] t = "author" /\ f = "type" -> {None, "person", "group"}
    [] OTHER -> {None, "this", "that"}

\* Without an edition group an edition gets one of its own.
OwnGroup == "own"

Blank(t) ==
  [f \in Fields(t) |-> CASE f = "ended" -> FALSE [] f = "editionGroup" -> OwnGroup [] OTHER -> None]

Filled(t) ==
  [f \in Fields(t) |->
     CASE f = "ended" -> TRUE
       [] f = "releaseDate" -> MoreThanDate
       [] f = "beginDate" -> "early"
       [] f = "endDate" -> "late"
       [] f = "format" -> "print"
       [] t = "author" /\ f = "type" -> "person"
       [] OTHER -> "this"]

\* Wrong: the page does not know the gender.
AuthorToForm_Ungendered(d) == [Restrict(d, AuthorActions \cup Common) EXCEPT !.gender = None]

AuthorToForm(d) == Restrict(d, AuthorActions \cup Common)

\* The date of the first release event stands for all of them.
EditionToForm(d) ==
  [Restrict(d, EditionActions \cup Common) EXCEPT !.releaseDate = IF @ = MoreThanDate THEN "this" ELSE @]

EditionGroupToForm(d) == Restrict(d, EditionGroupActions \cup Common)
PublisherToForm(d) == Restrict(d, PublisherActions \cup Common)
WorkToForm(d) == Restrict(d, WorkActions \cup Common)

ToForm(d) ==
  CASE type = "author" -> AuthorToForm(d)
    [] type = "edition" -> EditionToForm(d)
    [] type = "editionGroup" -> EditionGroupToForm(d)
    [] type = "publisher" -> PublisherToForm(d)
    [] type = "work" -> WorkToForm(d)

\* 'physicalEnable': the page of an edition without a size does not let it be entered.
Physical(d) == type = "edition" /\ (d.size # None \/ d.pages # None)

\* What an editor has chosen is kept by the field: a history.
Load(d) ==
  [form |-> ToForm(d), loaded |-> d, chosen |-> [f \in {} |-> None], physical |-> Physical(d)]

Init ==
  /\ type \in EntityTypes
  /\ data \in {Blank(type), Filled(type)}
  /\ pages = [e \in Editors |-> None]
  /\ answers = <<>>
  /\ picks = 0

----------------------------------------------------------------------------
(* A page.                                                                 *)

Open(e) ==
  /\ pages[e] = None
  /\ Len(answers) < MaxAnswers
  /\ pages' = [pages EXCEPT ![e] = Load(data)]
  /\ UNCHANGED <<type, data, answers, picks>>

\* What was chosen, with the latest choice.
Over(chosen, choice) ==
  [f \in DOMAIN chosen \cup DOMAIN choice |-> IF f \in DOMAIN choice THEN choice[f] ELSE chosen[f]]

\* The editor chooses, and the form of the page becomes another.
Pick(e, choice, form, physical) ==
  pages' = [pages EXCEPT ![e] =
    [form |-> form, loaded |-> @.loaded, chosen |-> Over(@.chosen, choice), physical |-> physical]]

Value(f, v) == [g \in {f} |-> v]
PickOf(e, f, v, form) == Pick(e, Value(f, v), form, pages[e].physical)

\* 'ended' without the date: what is put in the place of it.
Ticked == "ticked"

\* Wrong: the end stays where it was.
AuthorReducer_Kept(form, f, v) == [form EXCEPT ![f] = v]

\* Whether the author has ended decides on the end.
AuthorReducer(form, f, v) ==
  IF f = "ended"
  THEN [form EXCEPT !.ended = v, !.endArea = None, !.endDate = IF v THEN Ticked ELSE None]
  ELSE [form EXCEPT ![f] = v]

AuthorShows(form) ==
  (AuthorActions \ {"gender", "endDate", "endArea"})
    \cup (IF form.type = "group" THEN {} ELSE {"gender"})
    \cup (IF form.ended THEN {"endDate", "endArea"} ELSE {})

PickOfAuthor(e, f, v) ==
  /\ f \in AuthorShows(pages[e].form)
  /\ LET with == IF f = "ended" THEN {"endDate", "endArea"} ELSE {}
         choice == [g \in {f} \cup with |-> IF g = f THEN v ELSE None]
     IN  Pick(e, choice, AuthorReducer(pages[e].form, f, v), pages[e].physical)

\* Clearing the format fails half way: whether the size can be entered stays as it was.
PhysicalAfter(page, f, v) == IF f = "format" /\ v # None THEN v # "eBook" ELSE page.physical

EditionShows(page) == IF page.physical THEN EditionActions ELSE EditionActions \ {"size"}

EditionReducer(form, f, v) == [form EXCEPT ![f] = v]

PickOfEdition(e, f, v) ==
  /\ f \in EditionShows(pages[e])
  /\ LET group == IF f = "editionGroup" /\ v = None THEN OwnGroup ELSE v
     IN  Pick(e, Value(f, group), EditionReducer(pages[e].form, f, v), PhysicalAfter(pages[e], f, v))

PublisherShows(form) == IF form.ended THEN PublisherActions ELSE PublisherActions \ {"endDate"}

\* The end stays as it was when the publisher has not ended after all.
PublisherReducer(form, f, v) == [form EXCEPT ![f] = v]

PickOfPublisher(e, f, v) ==
  /\ f \in PublisherShows(pages[e].form)
  /\ PickOf(e, f, v, PublisherReducer(pages[e].form, f, v))

EditionGroupReducer(form, f, v) == [form EXCEPT ![f] = v]

PickOfEditionGroup(e, f, v) ==
  /\ f \in EditionGroupActions
  /\ PickOf(e, f, v, EditionGroupReducer(pages[e].form, f, v))

WorkReducer(form, f, v) == [form EXCEPT ![f] = v]

PickOfWork(e, f, v) ==
  /\ f \in WorkActions
  /\ PickOf(e, f, v, WorkReducer(pages[e].form, f, v))

PickOfAny(e, f, v) ==
  /\ f \in Common
  /\ PickOf(e, f, v, [pages[e].form EXCEPT ![f] = v])

Choose(e, f, v) ==
  /\ pages[e] # None /\ pages[e].form[f] # v
  /\ picks < MaxPicks /\ picks' = picks + 1
  /\ \/ type = "author" /\ PickOfAuthor(e, f, v)
     \/ type = "edition" /\ PickOfEdition(e, f, v)
     \/ type = "editionGroup" /\ PickOfEditionGroup(e, f, v)
     \/ type = "publisher" /\ PickOfPublisher(e, f, v)
     \/ type = "work" /\ PickOfWork(e, f, v)
     \/ PickOfAny(e, f, v)
  /\ UNCHANGED <<type, data, answers>>

----------------------------------------------------------------------------
(* Its submission.                                                         *)

\* Wrong: an end before the begin is one that begins later.
DateIsBefore_Always(begin, end) == TRUE

DateIsBefore(begin, end) == ~(begin = "late" /\ end = "early")

ValidAuthor(form) == DateIsBefore(form.beginDate, form.endDate)

\* 'Dissolved date will be ignored'
ValidPublisher(form) == ~form.ended \/ DateIsBefore(form.beginDate, form.endDate)

Valid(form) ==
  CASE type = "author" -> ValidAuthor(form)
    [] type = "publisher" -> ValidPublisher(form)
    [] OTHER -> TRUE

\* What the routes pick from the body, and what the sets of the entity are made of.
AuthorProps == {"type", "gender", "beginArea", "beginDate", "endDate", "ended", "endArea"}
EditionProps == {"editionGroup", "size", "pages", "format", "status"}
EditionGroupProps == {"type"}
PublisherProps == {"type", "area", "beginDate", "endDate", "ended"}
WorkProps == {"type"}

EditionSets == {"languages", "publishers", "releaseDate"}
WorkSets == {"languages"}

Props(t) ==
  CASE t = "author" -> AuthorProps
    [] t = "edition" -> EditionProps \cup EditionSets
    [] t = "editionGroup" -> EditionGroupProps
    [] t = "publisher" -> PublisherProps
    [] t = "work" -> WorkProps \cup WorkSets

\* Wrong: the annotation of an entity cannot be removed.
NextAnnotation_Kept(body) == IF body.annotation = None THEN data.annotation ELSE body.annotation

\* An empty annotation is none.
NextAnnotation(body) == body.annotation

\* The data the entity gets, from what was sent.
NextData(body) ==
  [f \in Fields(type) |->
     CASE f = "annotation" -> NextAnnotation(body)
       [] f = "disambiguation" -> body[f]
       [] f = "editionGroup" -> IF body[f] = None THEN OwnGroup ELSE body[f]
       [] f \in Props(type) \ {"editionGroup"} -> body[f]
       [] OTHER -> data[f]]

\* The constraint of the tables of authors and of publishers.
EndHasEnded(d) == "ended" \in DOMAIN d /\ d.endDate # None => d.ended

Answered(e, answer) == answers' = Append(answers, [to |-> e, with |-> answer])

Close(e) == pages' = [pages EXCEPT ![e] = None]

\* A date that is none is no date to the library, or an error.
Reads(body) ==
  IF "endDate" \in DOMAIN body /\ body.endDate = Ticked THEN {[body EXCEPT !.endDate = None]} ELSE {body}

Fails(body) ==
  /\ "endDate" \in DOMAIN body
  /\ body.endDate = Ticked \/ ~EndHasEnded(body)

Submitting(e) ==
  /\ pages[e] # None /\ Len(answers) < MaxAnswers
  /\ Valid(pages[e].form)

\* The page goes to the entity.
Saved(e) ==
  /\ Submitting(e)
  /\ \E body \in Reads(pages[e].form) :
       /\ NextData(body) # data /\ EndHasEnded(NextData(body))
       /\ data' = NextData(body)
  /\ Answered(e, "saved") /\ Close(e)
  /\ UNCHANGED <<type, picks>>

\* 'No Updated Field'
NothingNew(e) ==
  /\ Submitting(e)
  /\ \E body \in Reads(pages[e].form) : NextData(body) = data
  /\ Answered(e, "nothing")
  /\ UNCHANGED <<type, data, pages, picks>>

Failed(e) ==
  /\ Submitting(e)
  /\ Fails(pages[e].form)
  /\ Answered(e, "error")
  /\ UNCHANGED <<type, data, pages, picks>>

Next ==
  \E e \in Editors :
    \/ Open(e)
    \/ \E f \in Fields(type) : \E v \in Choices(type, f) : Choose(e, f, v)
    \/ Saved(e)
    \/ NothingNew(e)
    \/ Failed(e)

Spec == Init /\ [][Next]_vars

----------------------------------------------------------------------------
(* Properties.                                                             *)

\* Fields are those of the type, on the pages as in the entity.
TypeOK ==
  /\ type \in EntityTypes /\ DOMAIN data = Fields(type)
  /\ \A e \in Editors : pages[e] # None => DOMAIN pages[e].form = Fields(type)
  /\ picks \in 0 .. MaxPicks /\ Len(answers) <= MaxAnswers

LastAnswer == answers'[Len(answers')]
AnswerGiven == answers' # answers

\* A revision changes the fields that its editor chose: the others are as they were,
\* unless the page was opened before they were changed, or the field holds more than the
\* page does.
ChangesAreTheirs ==
  AnswerGiven =>
    LET page == pages[LastAnswer.to]
    IN  \A f \in Fields(type) :
          data'[f] # data[f] =>
            f \in DOMAIN page.chosen \/ page.loaded[f] # data[f] \/ data[f] = MoreThanDate

\* What an editor chose last is what the entity has once the submission is answered,
\* with 'No Updated Field' as well, and an error is about whether somebody has ended.
SavedAsChosen ==
  AnswerGiven =>
    LET page == pages[LastAnswer.to]
    IN  IF LastAnswer.with = "error" THEN "ended" \in DOMAIN page.chosen
        ELSE \A f \in DOMAIN page.chosen : data'[f] = page.chosen[f]

\* Nobody ends before the begin, nor without having ended.
EndsHold ==
  "ended" \in DOMAIN data =>
    /\ data.beginDate = "late" => data.endDate # "early"
    /\ data.endDate # None => data.ended
    /\ "endArea" \in DOMAIN data /\ data.endArea # None => data.ended

FieldsHold == [][ChangesAreTheirs /\ SavedAsChosen]_vars /\ []EndsHold
=============================================================================

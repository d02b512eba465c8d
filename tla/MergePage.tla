----------------------------- MODULE MergePage -----------------------------
(***************************************************************************)
(* The merge page in detail, for one editor and one merge: the form it is  *)
(* opened with (entitiesToFormState in src/server/routes/merge.ts), what   *)
(* its fields offer and show (the sections *-merge.tsx, MergeField), and   *)
(* what is saved of it. Which entities are merged, and what editors do to  *)
(* each other, is in EntityMerge, where the form is only its aliases and   *)
(* relationships.                                                          *)
(*                                                                         *)
(* A field of the form holds the value of one of the entities; lists hold  *)
(* what any of them has. The first of the entities is the target. Texts    *)
(* and dates reach the store by the debouncer of the page, which has one   *)
(* timer and one action for all of them.                                   *)
(***************************************************************************)
EXTENDS Naturals, Sequences, FiniteSets, FiniteSetsExt

CONSTANTS
  None,
  Bbids,     \* of the entities to merge, the target first
  Linked,    \* their relationships: a set of pairs
  MaxPicks   \* bound: options chosen

MergeTypes == {"author", "edition", "editionGroup", "publisher", "series", "work"}

VARIABLES
  type,      \* of all the entities
  merging,   \* the entities, the target first
  form,      \* the store of the page
  keystroke, \* what the debouncer holds: a field and its value, or nothing
  chosen,    \* what the editor has chosen, by field: a history
  dropped,   \* fields whose last choice the debouncer has dropped: a history
  answer,    \* to the submission
  result,    \* what has become of the target
  picks      \* what the bound counts

vars == <<type, merging, form, keystroke, chosen, dropped, answer, result, picks>>

----------------------------------------------------------------------------
(* The entities.                                                           *)

\* What the sections offer a choice of. The size is depth, height, pages, weight and width.
NameFields == {"name", "sortName", "language", "disambiguation"}
AuthorFields == {"type", "gender", "beginDate", "endDate", "beginArea", "endArea", "ended"}
EditionFields ==
  {"authorCredit", "size", "editionGroup", "format", "publisher", "releaseDate", "status"}
EditionGroupFields == {"authorCredit", "type"}
PublisherFields == {"area", "beginDate", "endDate", "ended", "type"}
SeriesFields == {"seriesType", "orderType"}
WorkFields == {"type"}

Fields(t) ==
  NameFields \cup
  CASE t = "author" -> AuthorFields
    [] t = "edition" -> EditionFields
    [] t = "editionGroup" -> EditionGroupFields
    [] t = "publisher" -> PublisherFields
    [] t = "series" -> SeriesFields
    [] t = "work" -> WorkFields

Lists(t) ==
  {"aliases", "identifiers"} \cup
  CASE t \in {"edition", "work"} -> {"languages"} [] t = "series" -> {"items"} [] OTHER -> {}

Dates == {"beginDate", "endDate"}

\* What is never absent.
Given == {"name", "sortName", "language", "seriesType", "orderType"}

\* Entities that have everything, everything else, nothing, or only an end.
Kinds == {"this", "that", "bare", "past"}

Particular ==
  [ended     |-> [this |-> TRUE, that |-> FALSE, bare |-> FALSE, past |-> TRUE],
   beginDate |-> [this |-> "early", that |-> "late", bare |-> None, past |-> None],
   endDate   |-> [this |-> "late", that |-> None, bare |-> None, past |-> "early"],
   endArea   |-> [this |-> "this", that |-> None, bare |-> None, past |-> None],
   publisher |-> [this |-> "this", that |-> None, bare |-> None, past |-> None]]

Value(k, f) ==
  IF f \in DOMAIN Particular THEN Particular[f][k]
  ELSE IF f \in Given \/ k \in {"this", "that"} THEN k ELSE None

\* Two entities have an identifier in common; every one has an alias of its own next to
\* its name, and an item.
ListOf(k, i, l) ==
  CASE l = "aliases" -> {k, Bbids[i]}
    [] l = "items" -> {[of |-> k, key |-> i]}
    [] l = "identifiers" -> {"shared", k}
    [] l = "languages" -> (IF k = "bare" THEN {} ELSE {k})

Entity(t, k, i) ==
  [f \in Fields(t) \cup Lists(t) |-> IF f \in Lists(t) THEN ListOf(k, i, f) ELSE Value(k, f)]

Positions == 1 .. Len(merging)
Merged == {Bbids[i] : i \in Positions}
Target == Bbids[1]

----------------------------------------------------------------------------
(* The form.                                                               *)

\* Wrong: the last of the entities that has a value gives it.
First_Last(entities, f) ==
  LET having == {i \in DOMAIN entities : entities[i][f] # None}
  IN  IF having = {} THEN None ELSE entities[Max(having)][f]

\* The first of the entities that has a value gives it.
First(entities, f) ==
  LET having == {i \in DOMAIN entities : entities[i][f] # None}
  IN  IF having = {} THEN None ELSE entities[Min(having)][f]

Firsts(t, entities) == [f \in Fields(t) |-> First(entities, f)]

\* Wrong: whether the target has ended decides.
AuthorSection_AsIs(entities) == Firsts("author", entities)

\* An author has ended where one of them has an end.
AuthorSection(entities) ==
  [Firsts("author", entities) EXCEPT
     !.ended = First(entities, "endArea") # None \/ First(entities, "endDate") # None \/ @]

PublisherSection(entities) ==
  [Firsts("publisher", entities) EXCEPT !.ended = First(entities, "endDate") # None \/ @]

EditionSection(entities) == Firsts("edition", entities)
EditionGroupSection(entities) == Firsts("editionGroup", entities)
SeriesSection(entities) == Firsts("series", entities)
WorkSection(entities) == Firsts("work", entities)

Section(t, entities) ==
  CASE t = "author" -> AuthorSection(entities)
    [] t = "edition" -> EditionSection(entities)
    [] t = "editionGroup" -> EditionGroupSection(entities)
    [] t = "publisher" -> PublisherSection(entities)
    [] t = "series" -> SeriesSection(entities)
    [] t = "work" -> WorkSection(entities)

\* Aliases, identifiers, languages and items of all, each once.
Collected(t, entities) == [l \in Lists(t) |-> UNION {entities[i][l] : i \in DOMAIN entities}]

\* Wrong: the other end stays what it was.
Redirected_Source(b) == b

\* The target stands in for the entities that are merged into it.
Redirected(b) == IF b \in Merged THEN Target ELSE b

\* The relationships of the entities, and which of them are new to the target.
Relationships ==
  {[source |-> Redirected(r[1]), target |-> Redirected(r[2]),
    isAdded |-> {r[1], r[2]} \cap (Merged \ {Target}) # {}] :
     r \in {l \in Linked : {l[1], l[2]} \cap Merged # {}}}

\* entitiesToFormState
FormState(t, entities) ==
  [f \in Fields(t) \cup Lists(t) |->
     IF f \in Lists(t) THEN Collected(t, entities)[f] ELSE Section(t, entities)[f]]

Init ==
  /\ type \in MergeTypes
  /\ \E n \in 2 .. Len(Bbids) : \E kinds \in [1 .. n -> Kinds] :
       merging = [i \in 1 .. n |-> Entity(type, kinds[i], i)]
  /\ form = FormState(type, merging)
  /\ keystroke = <<>>
  /\ chosen = <<>>
  /\ dropped = {}
  /\ answer = None
  /\ result = <<>>
  /\ picks = 0

----------------------------------------------------------------------------
(* The fields of the page.                                                 *)

Options(f) == {merging[i][f] : i \in Positions} \ {None}

\* With at most one option a field is a text that cannot be changed.
ReadOnly(f) == Cardinality(Options(f)) <= 1

Visible(f) == f \in {"endDate", "endArea"} => form.ended

\* Whether the option that is selected is found among the options. A date is looked for
\* with its label; what the server made of an edition group or a publisher has its alias.
Recognised(f) ==
  CASE f \in Dates -> FALSE
    [] f \in {"editionGroup", "publisher"} -> f \in DOMAIN chosen
    [] OTHER -> TRUE

\* What a field shows.
Shown(f) ==
  IF ReadOnly(f) THEN (IF Options(f) = {} THEN None ELSE CHOOSE v \in Options(f) : TRUE)
  ELSE IF Recognised(f) /\ form[f] \in Options(f) THEN form[f] ELSE None

\* 'ended' without the date: what is put in the place of it.
Ticked == "ticked"

AuthorReduced(f, v) ==
  IF f = "ended"
  THEN [form EXCEPT !.ended = v, !.endArea = None, !.endDate = IF v THEN Ticked ELSE None]
  ELSE [form EXCEPT ![f] = v]

\* The size is taken from an event, and there is none: it stays as it is.
EditionReduced(f, v) == IF f = "size" THEN form ELSE [form EXCEPT ![f] = v]

Reduced(f, v) ==
  CASE type = "author" -> AuthorReduced(f, v)
    [] type = "edition" -> EditionReduced(f, v)
    [] OTHER -> [form EXCEPT ![f] = v]

\* What is dispatched through the debouncer.
Debounced == {"name", "sortName", "disambiguation", "releaseDate"} \cup Dates

\* Wrong: the debouncer keeps the first action.
Held_First(f, v) == IF keystroke = <<>> THEN [g \in {f} |-> v] ELSE keystroke

\* The debouncer keeps the last action, whatever the one before was for.
Held(f, v) == [g \in {f} |-> v]

\* What the store does not know of: dropped, or still held.
Lost == dropped \cup DOMAIN keystroke

\* An option is chosen; texts and dates go to the debouncer.
Choose(f, v) ==
  /\ answer = None /\ picks < MaxPicks
  /\ Visible(f) /\ ~ReadOnly(f) /\ v \in Options(f)
  /\ \/ f \in Debounced /\ keystroke' = Held(f, v) /\ dropped' = Lost \ {f} /\ UNCHANGED form
     \/ f \notin Debounced /\ form' = Reduced(f, v) /\ UNCHANGED <<keystroke, dropped>>
  /\ chosen' = [g \in DOMAIN chosen \cup {f} |-> IF g = f THEN v ELSE chosen[g]]
  /\ picks' = picks + 1
  /\ UNCHANGED <<type, merging, answer, result>>

\* A keystroke in the annotation or in the revision note takes the place of what is held.
TypeElsewhere ==
  /\ answer = None /\ keystroke # <<>>
  /\ keystroke' = <<>> /\ dropped' = Lost
  /\ UNCHANGED <<type, merging, form, chosen, answer, result, picks>>

\* A quarter of a second without another.
Deliver ==
  /\ answer = None
  /\ \E f \in DOMAIN keystroke : form' = Reduced(f, keystroke[f])
  /\ keystroke' = <<>>
  /\ UNCHANGED <<type, merging, chosen, dropped, answer, result, picks>>

----------------------------------------------------------------------------
(* The submission.                                                         *)

DateIsBefore(begin, end) == ~(begin = "late" /\ end = "early")

\* A publisher of an edition is one option where a map of them is expected.
Valid ==
  CASE type = "author" -> DateIsBefore(form.beginDate, form.endDate)
    [] type = "publisher" -> ~form.ended \/ DateIsBefore(form.beginDate, form.endDate)
    [] type = "edition" -> form.authorCredit # None /\ form.publisher = None
    [] type = "editionGroup" -> form.authorCredit # None
    [] OTHER -> TRUE

\* Wrong: only the aliases next to the name.
Aliases_Shown(f) == f.aliases \ {f.name}

\* The name is the first of the aliases.
Aliases(f) == {f.name} \cup f.aliases

\* The target after the merge.
NextTarget ==
  [f \in DOMAIN form \cup {"relationships"} |->
     CASE f = "relationships" -> Relationships
       [] f = "aliases" -> Aliases(form)
       [] OTHER -> form[f]]

\* The constraint of the tables of authors and of publishers.
EndHasEnded == form.endDate # None => form.ended

\* A date that is none is no date to the library, or an error.
Stored ==
  IF type = "author" /\ form.endDate = Ticked THEN {[NextTarget EXCEPT !.endDate = None]} ELSE {NextTarget}

Fails == type \in {"author", "publisher"} /\ (form.endDate = Ticked \/ ~EndHasEnded)

\* The store is sent as it is, without what the debouncer holds.
Submit ==
  /\ answer = None /\ Valid
  /\ \/ answer' = "saved" /\ result' \in Stored /\ (Fails => form.endDate = Ticked)
     \/ answer' = "error" /\ Fails /\ UNCHANGED result
  /\ UNCHANGED <<type, merging, form, keystroke, chosen, dropped, picks>>

Next ==
  \/ \E f \in Fields(type) : \E v \in Options(f) : Choose(f, v)
  \/ TypeElsewhere
  \/ Deliver
  \/ Submit

Spec == Init /\ [][Next]_vars

----------------------------------------------------------------------------
(* Properties.                                                             *)

Saved == answer = "saved"

\* What the page shows, in a text or as selected, is what it sends, except for the end
\* of an author once somebody has said whether there was one. A choice that has not
\* reached the store is not shown either: the field shows what is stored (MergeField).
ShownIsSent ==
  \A f \in Fields(type) :
    Visible(f) /\ (ReadOnly(f) \/ Shown(f) # None) =>
      \/ Shown(f) = form[f]
      \/ type = "author" /\ f \in {"endDate", "endArea"} /\ "ended" \in DOMAIN chosen

\* The target keeps what it had unless something else was chosen, gets what was chosen,
\* and has nothing that none of the entities had; an end makes it ended. Of what is
\* chosen the size of an edition is ignored, and an end by what is chosen after it; and
\* a text or a date is lost to a keystroke in another one, or to the submission, less
\* than a quarter of a second later.
MergedAsChosen ==
  Saved => \A f \in Fields(type) :
    /\ result[f] \in Options(f) \cup {None}
    /\ f \in DOMAIN chosen \ ({"size", "endDate", "endArea"} \cup Lost) => result[f] = chosen[f]
    /\ {f, "ended"} \cap DOMAIN chosen = {} /\ f # "ended" =>
         result[f] \in (IF merging[1][f] # None THEN {merging[1][f]}
                       ELSE IF Options(f) = {} THEN {None} ELSE Options(f))

\* The end is not before the begin, nor without having ended, and the database refuses
\* no merge unless somebody has chosen whether there was an end.
MergedEndsHold ==
  /\ answer = "error" => "ended" \in DOMAIN chosen
  /\ Saved /\ type \in {"author", "publisher"} =>
       /\ (result.beginDate = "late" => result.endDate # "early")
       /\ (result.endDate # None => result.ended)

\* Nobody's name, alias, identifier, language, item or relationship with others is lost.
\* Entities that were related to each other leave one that is related to itself.
ListsKept ==
  Saved =>
    /\ \A i \in Positions :
         /\ merging[i].name \in result.aliases
         /\ \A l \in Lists(type) : merging[i][l] \subseteq result[l]
    /\ \A r \in Linked :
         {r[1], r[2]} \cap Merged # {} /\ {r[1], r[2]} \ Merged # {} =>
           \E s \in result.relationships : {s.source, s.target} = ({r[1], r[2]} \ Merged) \cup {Target}
    /\ \A s \in result.relationships :
         /\ s.source # s.target \/ \E r \in Linked : {r[1], r[2]} \subseteq Merged
         /\ {s.source, s.target} \cap Merged = {Target}

\* A series has items of its own type, if all that were merged had the same.
ItemsFit ==
  Saved /\ type = "series" /\ ReadOnly("seriesType") =>
    \A item \in result.items : item.of = result.seriesType

PageHolds == ShownIsSent /\ MergedAsChosen /\ MergedEndsHold /\ ListsKept /\ ItemsFit
=============================================================================

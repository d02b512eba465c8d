--------------------------- MODULE MCEditorForms ---------------------------
(* The pages of forms for TLC: the unified form, the editor of one entity, *)
(* and by themselves its author credit, the items of a series, the fields  *)
(* of its type, the dialog for a relationship and the identifiers. A       *)
(* behaviour is that of the page that was opened; the others do nothing.   *)
EXTENDS EditorForms

CONSTANTS
  Texts, NoText, Taken, FirstName, OldAliases, OldRows, MaxActs,
  People, Pen, OldCredit, MaxSteps,
  ItemsOf, OldItems, OldIds, Ordinals, MaxMoves,
  Bases, Things, KindOf, SeriesOf, KindsInOrder, RelTypes, OldRelations, Numerals, MaxRecent, MaxTurns,
  MaxTaps

ASSUME ActsAssumption == {MaxActs, MaxSteps, MaxMoves, MaxPicks, MaxAnswers, MaxTurns, MaxTaps} \subseteq Nat
ASSUME RecentAssumption == MaxRecent \in Nat \ {0}
ASSUME TextAssumption ==
  NoText \in Texts \ Taken /\ Taken \subseteq Texts /\ FirstName \in Texts \ {NoText} /\ None \notin Texts
ASSUME IdAssumption == OldAliases \cup OldRows \subseteq Nat /\ None \notin Nat
ASSUME CreditAssumption ==
  /\ OldCredit \in Seq(People) /\ OldCredit # <<>>
  /\ None \notin People /\ Pen \notin People \cup {None}
ASSUME ItemsAssumption ==
  /\ Ordinals \subseteq Nat
  /\ Len(OldIds) = Len(OldItems) /\ IsInjective(OldIds)

VARIABLES
  page,
  shown, stored, pending, aliases, open, rows, last, timer, checks, matches,
  creates, submitted, away, skipped, kept, revived, meant, recorded, asked,
  nextAlias, nextRow, acts,
  saved, section, credit, enabled, creditModal, written, byHand, creditLeft, steps,
  orderType, seriesType, items, picked, nextItem, held, shownLast, clashed,
  disturbed, switched, moves,
  base, made, dialog, edited, target, relation, number, recent, lookups, dialogs,
  used, pasted, typed, turns,
  unified, isbnField, isbn, autoISBN, autoAdded, identifiers, visible, due, nextId, sent,
  values, typeChosen, replaced, returned, boxed, forgotten, touched, taps

\* An ISBN of both lengths and one that has no short form, a link and the identifier in it.
Numbers == {"short", "long", "979"}
TextsOfIdentifiers == Numbers \cup {NoText, "link", "id"}
ValidIdentifiers ==
  {<<"ISBN-10", "short">>, <<"ISBN-13", "long">>, <<"ISBN-13", "979">>, <<"Wikidata", "id">>}
IsbnTypes == [t \in TextsOfIdentifiers |->
  CASE t = "short" -> "ISBN-10" [] t \in {"long", "979"} -> "ISBN-13" [] OTHER -> None]
GuessedTypes == [IsbnTypes EXCEPT !["link"] = "Wikidata"]
ValuesIn == [t \in Numbers \cup {"link"} |-> IF t = "link" THEN "id" ELSE t]
OtherLengths == "ISBN-10" :> "ISBN-13" @@ "ISBN-13" :> "ISBN-10"
OtherNumbers == "short" :> "long" @@ "long" :> "short" @@ "979" :> None

Entity == INSTANCE EntityEditor
Credit == INSTANCE AuthorCredit WITH modal <- creditModal, left <- creditLeft
Series == INSTANCE SeriesEditor
Dialog == INSTANCE RelationshipModal
Ids == INSTANCE Identifiers WITH
  Texts <- TextsOfIdentifiers, Types <- {"ISBN-10", "ISBN-13", "Wikidata"},
  GuessOf <- GuessedTypes, ValueIn <- ValuesIn, Fits <- ValidIdentifiers,
  IsbnOf <- IsbnTypes, OtherType <- OtherLengths, OtherNumber <- OtherNumbers,
  FirstRows <- <<<<"Wikidata", "id">>>>, skipped <- replaced

unifiedVars ==
  <<form, dumped, group0, works, modal, calls, left, batches, saves, editions, title,
    wanted, givenUp, mixed, strayed, cleared, opened, chosen, faults, lost, edits>>
entityVars ==
  <<shown, stored, pending, aliases, open, rows, last, timer, checks, matches,
    creates, submitted, away, skipped, kept, revived, meant, recorded, asked,
    nextAlias, nextRow, acts>>
creditVars == <<saved, section, credit, enabled, creditModal, written, byHand, creditLeft, steps>>
seriesVars ==
  <<orderType, seriesType, items, picked, nextItem, held, shownLast, clashed,
    disturbed, switched, moves>>
typeVars == <<type, data, pages, answers, picks>>
dialogVars ==
  <<base, made, dialog, edited, target, relation, number, recent, lookups, dialogs,
    used, pasted, typed, turns>>
idVars ==
  <<unified, isbnField, isbn, autoISBN, autoAdded, identifiers, visible, due, nextId, sent,
    values, typeChosen, replaced, returned, boxed, forgotten, touched, taps>>
allVars == <<page, unifiedVars, entityVars, creditVars, seriesVars, typeVars, dialogVars, idVars>>

AllTypes == {"author", "editionGroup", "publisher", "work"}
Authors == {"ann", "bob"}
AuthorsInOrder == <<"ann", "bob">>
AuthorsAndWorks == [author |-> {"ann"}, work |-> {"odes", "epodes"}]
WorksInOrder == <<"odes", "epodes">>
IdsInOrder == <<1, 7>>

\* The entities of the dialog: works, an author, a series of works and one of authors.
Kinds == [odes |-> "Work", epodes |-> "Work", satires |-> "Work", horace |-> "Author",
          poems |-> "Series", poets |-> "Series"]
SeriesTypes == [poems |-> "Work", poets |-> "Author"]
ThingsToFind == DOMAIN Kinds
KindsByName == <<"Author", "Series", "Work">>

\* A type with two below it, of which one is for authors; one that is not used any more;
\* one for authors; one for the items of a series with one below it.
RelationType(from, to, parent, order, attributes) ==
  [source |-> from, target |-> to, parent |-> parent, childOrder |-> order,
   attributes |-> attributes, deprecated |-> FALSE, items |-> FALSE]
RelationTypes ==
  <<RelationType("Work", "Work", None, 2, {"number"}),
    RelationType("Work", "Work", 1, 1, {}),
    RelationType("Author", "Work", 1, 2, {}),
    [RelationType("Work", "Work", None, 1, {}) EXCEPT !.deprecated = TRUE],
    RelationType("Author", "Work", None, 1, {"number"}),
    [RelationType("Work", "Series", None, 1, {"number", "position"}) EXCEPT !.items = TRUE],
    RelationType("Work", "Series", 6, 1, {})>>
OldRelationsOf ==
  {[relation |-> [type |-> 4, source |-> "epodes", target |-> "odes"], number |-> "[]"],
   [relation |-> [type |-> 6, source |-> "odes", target |-> "poems"], number |-> "1"]}

\* One of the states that the pages which are not open could start in.
FormsInit ==
  /\ page \in {"unified", "entity", "credit", "series", "type", "dialog", "identifiers"}
  /\ UF!Init /\ Entity!Init /\ Credit!Init /\ Series!Init /\ Type!Init /\ Dialog!Init /\ Ids!Init
  /\ page # "entity" => ~creates
  /\ page # "credit" => ~section
  /\ page # "series" => held = <<>> /\ orderType = "manual" /\ seriesType = "work"
  /\ page # "dialog" => base = "odes" /\ made = None
  /\ page # "type" => type = "work" /\ data = Type!Blank("work")
  /\ page # "identifiers" => unified

UnifiedPage == page = "unified" /\ UNCHANGED <<page, entityVars, creditVars, seriesVars, typeVars, dialogVars, idVars>>
EntityPage == page = "entity" /\ UNCHANGED <<page, unifiedVars, creditVars, seriesVars, typeVars, dialogVars, idVars>>
CreditPage == page = "credit" /\ UNCHANGED <<page, unifiedVars, entityVars, seriesVars, typeVars, dialogVars, idVars>>
SeriesPage == page = "series" /\ UNCHANGED <<page, unifiedVars, entityVars, creditVars, typeVars, dialogVars, idVars>>
TypePage == page = "type" /\ UNCHANGED <<page, unifiedVars, entityVars, creditVars, seriesVars, dialogVars, idVars>>
DialogPage == page = "dialog" /\ UNCHANGED <<page, unifiedVars, entityVars, creditVars, seriesVars, typeVars, idVars>>
IdsPage == page = "identifiers" /\ UNCHANGED <<page, unifiedVars, entityVars, creditVars, seriesVars, typeVars, dialogVars>>

FormsNext ==
  \/ UnifiedPage /\ UF!Next
  \/ EntityPage /\ Entity!Next
  \/ CreditPage /\ Credit!Next
  \/ SeriesPage /\ Series!Next
  \/ TypePage /\ Type!Next
  \/ DialogPage /\ Dialog!Next
  \/ IdsPage /\ Ids!Next

FormsFairness ==
  /\ \A b \in 1 .. MaxSubmits :
       WF_unifiedVars(page = "unified" /\ b \in DOMAIN batches /\ (UF!Serve(b) \/ UF!AnswerError(b) \/ UF!Answer(b)))
  /\ WF_entityVars(page = "entity" /\ Entity!Deliver)
  /\ WF_entityVars(page = "entity" /\ Entity!SendCheck)
  /\ WF_entityVars(page = "entity" /\ Entity!AnswerAny)

FormsSpec == FormsInit /\ [][FormsNext]_allVars /\ FormsFairness

\* Whoever has submitted a unified form can go on, and the store and the warning of an
\* entity's page catch up with what was typed.
FormsEnd == UF!Answered /\ Entity!CaughtUpAtLast

\* What a form has is what its pages show and what was meant, whatever was opened, typed,
\* numbered or removed in between: a modal's entity goes to its own field, an author credit
\* reads well, the items of a series are as they were shown, what is submitted of an entity
\* is what its page shows, and a relationship is one that the dialog shows and may offer
\* (UnifiedForm, EntityEditor, AuthorCredit, SeriesEditor, RelationshipModal); identifiers
\* are sent as they were typed, and the ISBN with the number of its other length (Identifiers).
FormsHold ==
  /\ UF!FormsKeptApart
  /\ Entity!SentAsShown
  /\ Credit!CreditHolds
  /\ Series!SeriesHolds
  /\ Dialog!ModalHolds
  /\ Ids!IdentifiersHold
=============================================================================

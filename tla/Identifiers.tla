---------------------------- MODULE Identifiers ----------------------------
(***************************************************************************)
(* The identifiers of an entity on its page                                *)
(* (src/client/entity-editor/identifier-editor) and, on the unified form,  *)
(* the ISBN of the edition (src/client/unified-form/cover-tab): a field,   *)
(* whose number is sent as one more identifier, and a box that adds the    *)
(* same number of the other length to the identifiers.                     *)
(*                                                                         *)
(* A text that looks like an identifier of some type, such as a link, is   *)
(* replaced by what is in it and suggests the type. Texts reach the store  *)
(* when the keyboard has been quiet for 250 ms, by the one timer that the  *)
(* page has (EntityEditor); types, rows and the box at once.               *)
(***************************************************************************)
EXTENDS Naturals, FiniteSets, SequencesExt

CONSTANTS
  None,
  Texts,       \* what can be typed
  NoText,      \* the empty one
  Types,       \* of identifiers
  GuessOf,     \* the type whose detection a text fits, or None
  ValueIn,     \* of a text with such a type: the identifier in it
  Fits,        \* <<type, value>> whose value fits the validation of the type
  IsbnOf,      \* the type of a text that is an ISBN, or None
  OtherType,   \* of the types of ISBNs: the other one
  OtherNumber, \* of an ISBN: the number of the other length, or None (979)
  FirstRows,   \* identifiers of an entity that is edited
  MaxTaps      \* bound: what is typed, chosen, added and removed

VARIABLES
  unified,     \* whether the page is the unified form
  isbnField,   \* the text in the field
  isbn,        \* ISBN: type and value
  autoISBN,    \* whether the box is ticked
  autoAdded,   \* autoAddedISBN: the key it was told for the row, or None
  identifiers, \* identifierEditor: rows in their order
  visible,     \* whether the identifier editor is
  due,         \* the action that waits for the keyboard to be quiet
  nextId,      \* nextIdentifierRowId
  sent,        \* what was submitted last
  values,      \* history: of rows there should be, what was typed last
  typeChosen,      \* history: of rows there are, the type that was chosen
  skipped,     \* history: rows, or the ISBN, whose text was replaced by another's
  returned,    \* history: rows whose text arrived after they were gone
  boxed,       \* history: rows that the box added
  forgotten,   \* history: of these, the ones it was told another key for since
  touched,     \* history: a row was changed since the ISBN was typed
  taps         \* what the bound counts

isbnVars == <<isbnField, isbn, autoISBN>>
history == <<values, typeChosen, returned, boxed, forgotten>>
vars == <<unified, isbnVars, autoAdded, identifiers, visible, due, nextId, sent, skipped,
          touched, taps, history>>

\* 'n0', 'n1', ... for new rows; old ones have their id for a key.
NewKey == <<"n", nextId>>
OldKey(i) == <<"", i>>
Row(key, type, value) == [key |-> key, type |-> type, value |-> value]

TheISBN == <<"ISBN", 0>>
Elsewhere == <<"elsewhere", 0>>
Waits(of, value, type) == [of |-> of, value |-> value, type |-> type]

KeysOf(rows) == {rows[i].key : i \in DOMAIN rows}
Keys == KeysOf(identifiers)
Without(key) == SelectSeq(identifiers, LAMBDA row : row.key # key)

Init ==
  /\ unified \in BOOLEAN
  /\ isbnField = NoText /\ isbn = [type |-> None, value |-> NoText]
  /\ autoISBN = FALSE /\ autoAdded = None
  /\ identifiers = IF unified THEN <<>> ELSE
       [i \in DOMAIN FirstRows |-> Row(OldKey(i), FirstRows[i][1], FirstRows[i][2])]
  /\ visible = FALSE /\ due = None /\ nextId = 0 /\ sent = None
  /\ values = [k \in Keys |-> (CHOOSE i \in Range(identifiers) : i.key = k).value]
  /\ typeChosen = [k \in Keys |-> (CHOOSE i \in Range(identifiers) : i.key = k).type]
  /\ skipped = {} /\ returned = {} /\ boxed = {} /\ forgotten = {} /\ touched = FALSE
  /\ taps = 0

Tap == taps < MaxTaps /\ taps' = taps + 1
OnPage == ~visible
InEditor == visible

\* The debouncer keeps the last action, whatever the one before was for.
Debounce(action) == due' = action

\* History: whose text is never written.
Replaced == IF due = None THEN {} ELSE {due.of}

----------------------------------------------------------------------------
(* The ISBN of the edition.                                                *)

First(rows, type) == SelectInSeq(rows, LAMBDA row : row.type = type)

\* Wrong: a row is added whatever there is.
OtherAdded_Twice(rows, type, value) == Append(rows, Row(NewKey, type, value))

\* The first row of the type is overwritten.
OtherAdded(rows, type, value) ==
  IF First(rows, type) = 0 THEN Append(rows, Row(NewKey, type, value))
  ELSE [rows EXCEPT ![First(rows, type)].value = value]

\* History: rows that are gone.
Forget(gone) ==
  /\ values' = Restrict(values, DOMAIN values \ gone)
  /\ typeChosen' = Restrict(typeChosen, DOMAIN typeChosen \ gone)
  /\ returned' = returned \ gone /\ boxed' = boxed \ gone /\ forgotten' = forgotten \ gone

\* The box is told the new key, also when a row was overwritten.
AddOther(rows, type, value) ==
  LET there == KeysOf(rows)
      key == IF First(rows, type) = 0 THEN NewKey ELSE rows[First(rows, type)].key
  IN /\ identifiers' = OtherAdded(rows, type, value)
     /\ autoAdded' = NewKey /\ nextId' = nextId + 1
     /\ values' = (key :> value) @@ Restrict(values, DOMAIN values \cap there)
     /\ typeChosen' = (key :> type) @@ Restrict(typeChosen, DOMAIN typeChosen \cap there)
     /\ returned' = returned \cap there
     /\ boxed' = (boxed \cap there) \cup ({key} \ there)
     /\ forgotten' = (forgotten \cup boxed) \cap there

NoOther(rows, key) ==
  /\ identifiers' = rows
  /\ autoAdded' = key
  /\ Forget(Keys \ KeysOf(rows))
  /\ UNCHANGED nextId

\* The same number in the other length, with its type.
Other(text) == [type |-> OtherType[IsbnOf[text]], value |-> OtherNumber[text]]

\* The type is known at once, the number when the keyboard is quiet.
WriteISBN(text, ticked, rows, key) ==
  /\ isbn' = [isbn EXCEPT !.type = IsbnOf[text]]
  /\ IF ticked /\ IsbnOf[text] # None
     THEN AddOther(rows, Other(text).type, Other(text).value)
     ELSE NoOther(rows, key)
  /\ Debounce(Waits(TheISBN, text, None))
  /\ touched' = FALSE

TypeISBN(text) ==
  /\ unified /\ OnPage /\ Tap /\ text # isbnField
  /\ isbnField' = text
  /\ WriteISBN(text, autoISBN, identifiers, autoAdded)
  /\ skipped' = (skipped \cup Replaced) \ {TheISBN}
  /\ UNCHANGED <<unified, autoISBN, visible, sent>>

\* The box takes away the row it added, and types the ISBN that is in the store again,
\* over one that still waits.
TickBox ==
  /\ unified /\ OnPage /\ Tap /\ isbn.type # None
  /\ autoISBN' = ~autoISBN
  /\ WriteISBN(isbn.value, ~autoISBN, Without(autoAdded), None)
  /\ skipped' = skipped \cup Replaced
  /\ UNCHANGED <<unified, isbnField, visible, sent>>

----------------------------------------------------------------------------
(* The identifier editor.                                                  *)

AddRow ==
  /\ identifiers' = Append(identifiers, Row(NewKey, None, NoText))
  /\ nextId' = nextId + 1
  /\ values' = (NewKey :> NoText) @@ values
  /\ UNCHANGED <<unified, isbnVars, autoAdded, due, sent, typeChosen, skipped, returned, boxed,
                 forgotten, touched>>

\* The button shows the editor and adds a row.
OpenEditor == OnPage /\ Tap /\ AddRow /\ visible' = TRUE
AddIdentifier == InEditor /\ Tap /\ AddRow /\ UNCHANGED visible

\* The type a text looks like.
Guess(text) == GuessOf[text]

\* Wrong: the text is taken as it is.
Read_Whole(text) == text

Read(text) == IF Guess(text) = None THEN text ELSE ValueIn[text]

TypeValue(key, text) ==
  /\ InEditor /\ Tap /\ key \in Keys
  /\ Debounce(Waits(key, Read(text), Guess(text)))
  /\ skipped' = (skipped \cup Replaced) \ {key}
  /\ values' = (key :> IF GuessOf[text] = None THEN text ELSE ValueIn[text]) @@ values
  /\ touched' = TRUE
  /\ UNCHANGED <<unified, isbnVars, autoAdded, identifiers, visible, nextId, sent, typeChosen,
                 returned, boxed, forgotten>>

ChooseType(key, type) ==
  /\ InEditor /\ Tap
  /\ \E i \in DOMAIN identifiers :
       /\ identifiers[i].key = key /\ identifiers[i].type # type
       /\ identifiers' = [identifiers EXCEPT ![i].type = type]
  /\ typeChosen' = (key :> type) @@ typeChosen
  /\ touched' = TRUE
  /\ UNCHANGED <<unified, isbnVars, autoAdded, visible, due, nextId, sent, values, skipped,
                 returned, boxed, forgotten>>

RemoveIdentifier(key) ==
  /\ InEditor /\ Tap /\ key \in Keys
  /\ identifiers' = Without(key)
  /\ Forget({key})
  /\ touched' = TRUE
  /\ UNCHANGED <<unified, isbnVars, autoAdded, visible, due, nextId, sent, skipped>>

\* Wrong: rows without a type go as well.
Filled_Typed == SelectSeq(identifiers, LAMBDA row : row.value # NoText /\ row.type # None)

Filled == SelectSeq(identifiers, LAMBDA row : row.value # NoText)

\* Closing removes the rows without a value, also one whose value is still to come.
CloseEditor ==
  /\ InEditor
  /\ visible' = FALSE
  /\ identifiers' = Filled
  /\ Forget({row.key : row \in {row \in Range(identifiers) : row.value = NoText}})
  /\ UNCHANGED <<unified, isbnVars, autoAdded, due, nextId, sent, skipped, touched, taps>>

----------------------------------------------------------------------------
(* The keyboard is quiet; the page is submitted.                           *)

\* Some other field of the page.
TypeElsewhere ==
  /\ OnPage /\ Tap
  /\ Debounce(Waits(Elsewhere, NoText, None))
  /\ skipped' = skipped \cup (Replaced \ {Elsewhere})
  /\ UNCHANGED <<unified, isbnVars, autoAdded, identifiers, visible, nextId, sent, touched,
                 history>>

\* Wrong: the suggestion replaces the type.
TypeBy_Text(type) == IF due.type = None THEN type ELSE due.type

\* A type that the editor has chosen stays.
TypeBy(type) == IF type = None THEN due.type ELSE type

\* setIn makes a row again that has been removed.
Written ==
  IF due.of \in Keys
  THEN [i \in DOMAIN identifiers |->
         IF identifiers[i].key = due.of
         THEN Row(due.of, TypeBy(identifiers[i].type), due.value) ELSE identifiers[i]]
  ELSE Append(identifiers, Row(due.of, due.type, due.value))

Deliver ==
  /\ due # None
  /\ due' = None
  /\ CASE due.of = TheISBN -> /\ isbn' = [isbn EXCEPT !.value = due.value]
                              /\ UNCHANGED <<identifiers, returned>>
       [] due.of = Elsewhere -> UNCHANGED <<isbn, identifiers, returned>>
       [] OTHER -> /\ identifiers' = Written
                   /\ returned' = returned \cup ({due.of} \ Keys)
                   /\ UNCHANGED isbn
  /\ UNCHANGED <<unified, isbnField, autoISBN, autoAdded, visible, nextId, sent, values, typeChosen,
                 skipped, boxed, forgotten, touched, taps>>

\* Wrong: an ISBN need not be one.
ValidISBN_Any == TRUE

ValidISBN == isbn.type # None \/ isbn.value = NoText

ValidIdentifiers ==
  \A i \in DOMAIN identifiers :
    /\ identifiers[i].value \notin {None, NoText} /\ identifiers[i].type # None
    /\ <<identifiers[i].type, identifiers[i].value>> \in Fits

\* The ISBN is added to what is sent, with another key.
Submit ==
  /\ OnPage /\ ValidISBN /\ ValidIdentifiers
  /\ sent' = [isbn |-> IF isbn.type = None THEN None ELSE <<isbn.type, isbn.value>>,
              as |-> isbnField,
              early |-> TheISBN \in skipped \/ (due # None /\ due.of = TheISBN)]
  /\ UNCHANGED <<unified, isbnVars, autoAdded, identifiers, visible, due, nextId, skipped,
                 touched, taps, history>>

Next ==
  \/ \E t \in Texts : TypeISBN(t)
  \/ TickBox \/ OpenEditor \/ AddIdentifier \/ CloseEditor
  \/ \E k \in Keys : \/ RemoveIdentifier(k)
                     \/ \E t \in Texts : TypeValue(k, t)
                     \/ \E type \in Types : ChooseType(k, type)
  \/ TypeElsewhere \/ Deliver \/ Submit

Spec == Init /\ [][Next]_vars

----------------------------------------------------------------------------
(* Properties.                                                             *)

\* The state is well formed (identifier-editor/reducer.js, cover-tab/reducer.ts).
TypeOK ==
  /\ isbnField \in Texts /\ isbn.type \in Types \cup {None} /\ isbn.value \in Texts
  /\ \A i \in DOMAIN identifiers :
       /\ identifiers[i].type \in Types \cup {None}
       /\ identifiers[i].value \in Texts \cup {None}
  /\ Cardinality(Keys) = Len(identifiers)
  /\ {unified, autoISBN, visible, touched} \subseteq BOOLEAN
  /\ {nextId, taps} \subseteq Nat

Waiting(of) == due # None /\ due.of = of

\* The ISBN of the form is the one in its field, with the type of that number, unless
\* its text was replaced: by that of another field, or by the box, which types the stored
\* one again (isbn-field.tsx).
IsbnAsTyped ==
  unified /\ TheISBN \notin skipped =>
    /\ isbn.type = IsbnOf[isbnField]
    /\ isbn.value # isbnField => Waiting(TheISBN) /\ due.value = isbnField

\* What is sent as an ISBN is what the field had in it, with its type, if it was quiet.
SentAsTyped ==
  sent # None /\ ~sent.early =>
    sent.isbn = IF sent.as = NoText THEN None ELSE <<IsbnOf[sent.as], sent.as>>

\* There are the rows that were added and not removed or left empty, each once and with
\* what was typed in it last, except for a text that was replaced or still waits, and for
\* rows whose text arrived when they were gone (identifier-editor/reducer.js).
RowsAsTyped ==
  /\ Keys = DOMAIN values \cup returned
  /\ \A row \in Range(identifiers) : row.key \in DOMAIN values =>
       row.value = values[row.key] \/ row.key \in skipped \/ Waiting(row.key)

\* A type that was chosen by hand, or that the box gave to its row, stays until another
\* is chosen, whatever is typed in the row (UPDATE_IDENTIFIER_VALUE).
TypesAsChosen ==
  \A row \in Range(identifiers) : row.key \in DOMAIN typeChosen => row.type = typeChosen[row.key]

\* While the box is ticked there is the number of the other length of the ISBN in the
\* field, unless the identifiers were changed since, or the ISBN's text was replaced.
OtherIsThere ==
  autoISBN /\ isbn.type # None /\ TheISBN \notin skipped /\ ~touched =>
    \E row \in Range(identifiers) :
      row.type = OtherType[isbn.type] /\ row.value = OtherNumber[isbnField]

\* A row that the box added goes with it, unless another ISBN was typed or the box ticked
\* again since: of that the box is told a key, if no row has it.
BoxedGoes ==
  \A key \in Keys \cap (boxed \ forgotten) : autoISBN /\ autoAdded = key

IdentifiersHold ==
  TypeOK /\ IsbnAsTyped /\ SentAsTyped /\ RowsAsTyped /\ TypesAsChosen /\ OtherIsThere /\ BoxedGoes
=============================================================================

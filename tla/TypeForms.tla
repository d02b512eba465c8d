----------------------------- MODULE TypeForms -----------------------------
(***************************************************************************)
(* The forms on which administrators make and edit types of relationships  *)
(* and of identifiers (src/client/components/forms/type-editor) and the    *)
(* pages that show them as trees (components/pages/parts/                  *)
(* relationship-types-tree.tsx, identifier-types-tree.tsx). A type is for  *)
(* a source and a target, or for one kind of entity; it may have a parent, *)
(* which has to be for the same. Texts, the flag of deprecated types and   *)
(* the messages of the forms are left out; a relationship type's           *)
(* attributes are in Administration.                                       *)
(***************************************************************************)
EXTENDS Naturals, SequencesExt

CONSTANTS
  EntityTypes,  \* the kinds of entities
  First,        \* the one that the first type is for
  None,         \* no entity type, or no parent
  ChildOrders,  \* values for childOrder
  MaxSaves, MaxChanges  \* bounds: saves; changes made on a form

VARIABLES
  kind,    \* of types that are edited: those of relationships or of identifiers
  types,   \* the rows, by id
  form,    \* the page, or None: what it was opened for, its state
  sent,    \* requests that were not answered: a sequence
  saves, changes  \* what the bounds count

typeVars == <<kind, types, form, sent, saves, changes>>

Ends == IF kind = "relationship" THEN {"source", "target"} ELSE {"entity"}
Ids == DOMAIN types

\* typed: the order came from its field, as a text. It is a number again once saved.
Default == [ends |-> [e \in Ends |-> None], parent |-> None, order |-> 0, typed |-> FALSE]
TypeFor(ends) == [Default EXCEPT !.ends = ends]

Init ==
  /\ kind \in {"relationship", "identifier"}
  /\ \E ends \in [Ends -> EntityTypes] :
       types = <<TypeFor([e \in Ends |-> First]), TypeFor(ends)>>
  /\ form = None /\ sent = <<>>
  /\ saves = 0 /\ changes = 0

----------------------------------------------------------------------------
(* The form. What its effects do is part of each action.                   *)

Removed(data) == [data EXCEPT !.parent = None, !.order = 0, !.typed = FALSE]

\* Wrong: the source alone is compared.
Fits_Source(known, parent, ends) ==
  \A e \in Ends \ {"target"} : ends[e] # None => known[parent].ends[e] = ends[e]

Fits(known, parent, ends) ==
  \A e \in Ends : ends[e] # None => known[parent].ends[e] = ends[e]

\* The effect on the entity types, which is also run when the page is shown.
Checked(f) ==
  IF f.data.parent = None \/ Fits(f.known, f.data.parent, f.data.ends) THEN f
  ELSE [f EXCEPT !.data = Removed(@), !.selected = None]

\* Parents one can choose: an identifier type is not offered as its own.
Options(f) ==
  {i \in DOMAIN f.known : Fits(f.known, i, f.data.ends)} \
    (IF kind = "identifier" THEN {f.id} ELSE {})

Opened(id, data) ==
  Checked([id |-> id, base |-> data, data |-> data, known |-> types,
           modal |-> FALSE, selected |-> data.parent])

Open(id) ==
  /\ form = None
  /\ form' = Opened(id, types[id])
  /\ UNCHANGED <<kind, types, sent, saves, changes>>

OpenNew ==
  /\ form = None
  /\ form' = Opened(None, Default)
  /\ UNCHANGED <<kind, types, sent, saves, changes>>

Changed(f) ==
  /\ changes < MaxChanges /\ changes' = changes + 1
  /\ form' = f
  /\ UNCHANGED <<kind, types, sent, saves>>

Shown(modal) == form # None /\ form.modal = modal

\* The selects cannot be cleared.
ChooseEntityType(end, type) ==
  /\ Shown(FALSE)
  /\ Changed(Checked([form EXCEPT !.data.ends[end] = type]))

TypeOrder(n) ==
  /\ Shown(FALSE)
  /\ Changed([form EXCEPT !.data.order = n, !.data.typed = TRUE])

RemoveParent ==
  /\ Shown(FALSE) /\ form.data.parent # None
  /\ Changed([form EXCEPT !.data = Removed(@), !.selected = None])

\* handleAddParent, handleEditParent
OpenModal ==
  /\ Shown(FALSE)
  /\ form' = [form EXCEPT !.modal = TRUE]
  /\ UNCHANGED <<kind, types, sent, saves, changes>>

SelectParent(i) ==
  /\ Shown(TRUE) /\ i \in Options(form)
  /\ Changed([form EXCEPT !.selected = i])

\* The selection is forgotten, the parent is not.
CloseModal ==
  /\ Shown(TRUE)
  /\ form' = [form EXCEPT !.modal = FALSE, !.selected = None]
  /\ UNCHANGED <<kind, types, sent, saves, changes>>

SubmitModal ==
  /\ Shown(TRUE) /\ form.selected # None
  /\ form' = [form EXCEPT !.modal = FALSE, !.data.parent = form.selected]
  /\ UNCHANGED <<kind, types, sent, saves, changes>>

----------------------------------------------------------------------------
(* Submission. The button is not disabled while a request is on its way.   *)

Valid(data) == \A e \in Ends : data.ends[e] # None

Submit ==
  /\ Shown(FALSE)
  /\ Valid(form.data) /\ form.data # form.base
  /\ saves + Len(sent) < MaxSaves
  /\ sent' = Append(sent, [id |-> form.id, data |-> form.data, known |-> form.known])
  /\ UNCHANGED <<kind, types, form, saves, changes>>

Saved(id, data) ==
  LET row == [data EXCEPT !.typed = FALSE]
  IN types' = IF id = None THEN Append(types, row) ELSE [types EXCEPT ![id] = row]

\* The row is written as a whole, and the browser goes back to where it came from.
Save(n) ==
  /\ n \in DOMAIN sent
  /\ Saved(sent[n].id, sent[n].data)
  /\ sent' = RemoveAt(sent, n)
  /\ form' = None
  /\ saves' = saves + 1
  /\ UNCHANGED <<kind, changes>>

\* The page stays as it is.
Fail(n) ==
  /\ n \in DOMAIN sent
  /\ sent' = RemoveAt(sent, n)
  /\ saves' = saves + 1
  /\ UNCHANGED <<kind, types, form, changes>>

\* Somebody else, on a page of their own, gives a type other ends or a parent that fits.
\* Bound: before any other save.
SaveOther(id, ends, parent) ==
  /\ saves = 0 /\ sent = <<>> /\ saves' = 1
  /\ parent # None => Fits(types, parent, ends) /\ (kind = "identifier" => parent # id)
  /\ Saved(id, [types[id] EXCEPT !.ends = ends, !.parent = parent])
  /\ UNCHANGED <<kind, form, sent, changes>>

----------------------------------------------------------------------------
(* The trees. A page has the types for one kind of entity, or for a pair.  *)

\* Wrong: types from the second of the pair to the first are not asked for.
Page_Directed(between) ==
  {i \in Ids : {types[i].ends[e] : e \in Ends} = between
               /\ \A e \in Ends \ {"target"} : types[i].ends[e] = CHOOSE t \in between : TRUE}

Page(between) == {i \in Ids : {types[i].ends[e] : e \in Ends} = between}

\* Wrong: in the order of their ids.
Children_ById(page, parent) ==
  SetToSortSeq({i \in page : types[i].parent = parent}, <)

Children(page, parent) ==
  SetToSortSeq({i \in page : types[i].parent = parent},
    LAMBDA i, j : types[i].order < types[j].order
                  \/ (types[i].order = types[j].order /\ i < j))

\* Each row is a type and how far it is indented.
Tree(page) ==
  LET size == Cardinality(page)
      Under[n \in 0..size, parent \in page \cup {None}] ==
        LET children == Children(page, parent)
        IN IF n = 0 THEN <<>>
           ELSE FlattenSeq([k \in DOMAIN children |->
                  <<[id |-> children[k], indent |-> size - n]>> \o Under[n - 1, children[k]]])
  IN Under[size, None]

----------------------------------------------------------------------------
Next ==
  \/ \E id \in Ids : Open(id)
  \/ OpenNew
  \/ \E end \in Ends, type \in EntityTypes : ChooseEntityType(end, type)
  \/ \E n \in ChildOrders : TypeOrder(n)
  \/ RemoveParent \/ OpenModal \/ CloseModal \/ SubmitModal
  \/ \E i \in Ids : SelectParent(i)
  \/ Submit
  \/ \E n \in DOMAIN sent : Save(n) \/ Fail(n)
  \/ \E id \in Ids, ends \in [Ends -> EntityTypes], parent \in Ids \cup {None} :
       SaveOther(id, ends, parent)

----------------------------------------------------------------------------
\* What a form sends is for chosen entities, and its parent, as the page knew it, for the
\* same: whatever was chosen first, on a type that had a parent or was given one.
SentFits ==
  \A n \in DOMAIN sent :
    LET data == sent[n].data
    IN /\ \A e \in Ends : data.ends[e] \in EntityTypes
       /\ data.parent # None => sent[n].known[data.parent].ends = data.ends

\* The page of its entities shows a type, once, when its parents do not go round in a circle
\* and are all on that page; then each is below its parent, and in order.
TreesHold ==
  \A t, u \in EntityTypes :
    LET page == Page({t, u})
        rows == Tree(page)
        Up[n \in 0..Cardinality(page), i \in Ids \cup {None}] ==
          IF n = 0 \/ i = None THEN i ELSE Up[n - 1, types[i].parent]
        Above(i) == {Up[n, i] : n \in 0..Cardinality(page)}
    IN /\ \A i \in Ids :
            Cardinality({k \in DOMAIN rows : rows[k].id = i}) =
              IF /\ {types[i].ends[e] : e \in Ends} = {t, u}
                 /\ None \in Above(i)
                 /\ \A j \in Above(i) \ {None} : {types[j].ends[e] : e \in Ends} = {t, u}
              THEN 1 ELSE 0
       /\ \A k \in DOMAIN rows :
            LET parent == types[rows[k].id].parent
                outer == {j \in 1..(k - 1) : rows[j].indent < rows[k].indent}
            IN IF rows[k].indent = 0 THEN parent = None
               ELSE outer # {} /\ rows[CHOOSE j \in outer : \A h \in outer : h <= j].id = parent
       /\ \A j, k \in DOMAIN rows :
            j < k /\ types[rows[j].id].parent = types[rows[k].id].parent =>
              types[rows[j].id].order <= types[rows[k].id].order

TypesHold == SentFits /\ TreesHold
=============================================================================

------------------------- MODULE RelationshipModal -------------------------
(***************************************************************************)
(* The dialog in which a relationship of the page's entity is made or      *)
(* edited (src/client/entity-editor/relationship-editor), with its search  *)
(* for the other entity (common/entity-search-field-option.tsx) and the    *)
(* entities used recently, which the browser keeps for all its pages       *)
(* (unified-form/common/recently-used.ts).                                 *)
(*                                                                         *)
(* What the search finds for a text is any entity that it does not hide.   *)
(* A text that is an address is looked up instead, and its entity chosen   *)
(* as soon as the answer comes. What the page does with a relationship     *)
(* that was made, and where it lists it, is EntityEditor.                  *)
(***************************************************************************)
EXTENDS Naturals, SequencesExt, TLC

CONSTANTS
  None,
  Bases,        \* entities that a page may be about
  Things,       \* entities that can be found, their types and what a series is of
  KindOf, SeriesOf,
  KindsInOrder, \* the types of entities, by their names
  RelTypes,     \* types of relationships by id: the types of their ends, parent, childOrder,
                  \* attributes, whether deprecated and for the items of a series
  OldRelations, \* relationships that a page may start with
  Numerals,     \* texts for the attribute number
  MaxRecent,    \* bound of the code: 10
  MaxTurns      \* bound: what is opened, chosen, typed, looked up and added

VARIABLES
  base,      \* the page's entity
  made,      \* the relationship that was made last, or that the page came with
  dialog,    \* which dialog it is, 0 when none is shown
  edited,    \* the relationship it was opened for, None for a new one
  target, relation, number,  \* the state of the dialog
  recent,    \* recently_used: entities of a type, the last used first
  lookups,   \* addresses being looked up, each from its dialog
  dialogs,   \* counter
  used,      \* history: all that was used, the last first
  pasted,    \* history: what was chosen other than from the search
  typed,     \* history: a number was typed in this dialog
  turns      \* what the bound counts

dialogVars == <<dialog, edited, target, relation, number, typed>>
recentVars == <<recent, used>>
vars == <<base, made, dialogVars, recentVars, lookups, dialogs, pasted, turns>>

\* An attribute without a text, and one that the edited relationship did not have.
Blank == ""
Absent == "[]"

Joined(type, source, end) == [type |-> type, source |-> source, target |-> end]
Made(theRelation, theNumber) == [relation |-> theRelation, number |-> theNumber]
OtherEnd(r) == IF r.source = base THEN r.target ELSE r.source
Has(r, attribute) == attribute \in RelTypes[r.type].attributes

Init ==
  /\ base \in Bases
  /\ made \in {None} \cup {m \in OldRelations : base \in {m.relation.source, m.relation.target}}
  /\ dialog = 0 /\ dialogs = 0
  /\ edited = None /\ target = None /\ relation = None /\ number = Blank /\ typed = FALSE
  /\ recent = [k \in ToSet(KindsInOrder) |-> <<>>] /\ used = <<>>
  /\ lookups = {}
  /\ pasted = IF made = None THEN {} ELSE {OtherEnd(made.relation)}
  /\ turns = 0

Turn == turns < MaxTurns /\ turns' = turns + 1

----------------------------------------------------------------------------
(* What can be chosen.                                                     *)

Ends(type) == <<RelTypes[type].source, RelTypes[type].target>>

\* The items of a series are related to it by the series' own section.
ForItems(type) == KindOf[base] = "Series" /\ RelTypes[type].items

Living == {t \in DOMAIN RelTypes : ~RelTypes[t].deprecated}

OtherKinds ==
  UNION {LET ends == Ends(t) IN
         IF ends[1] = KindOf[base] THEN {ends[2]} ELSE IF ends[2] = KindOf[base] THEN {ends[1]} ELSE {}
         : t \in {u \in Living : ~ForItems(u)}}

\* The search hides the page's entity, and series of entities of another type.
Hidden(e) == e = base \/ (KindOf[e] = "Series" /\ SeriesOf[e] # KindOf[base])

Searchable == {e \in Things : KindOf[e] \in OtherKinds /\ ~Hidden(e)}

\* The first of all those used recently, one type of entities after the other.
RecentOptions ==
  LET all == FlattenSeq([i \in DOMAIN KindsInOrder |->
               IF KindsInOrder[i] \in OtherKinds THEN recent[KindsInOrder[i]] ELSE <<>>])
  IN ToSet(SubSeq(all, 1, IF Len(all) < MaxRecent THEN Len(all) ELSE MaxRecent))

Fits(r) == r.type \in Living /\ Ends(r.type) = <<KindOf[r.source], KindOf[r.target]>>

\* All types forwards and backwards, by childOrder and id.
Candidates(a, b) ==
  LET Before(t, u) == \/ RelTypes[t].childOrder < RelTypes[u].childOrder
                      \/ RelTypes[t].childOrder = RelTypes[u].childOrder /\ t < u
      sorted == SortSeq([i \in DOMAIN RelTypes |-> i], Before)
      both == FlattenSeq([i \in DOMAIN sorted |-> <<Joined(sorted[i], a, b), Joined(sorted[i], b, a)>>])
  IN SelectSeq(both, Fits)

\* Each is followed by those whose type it is the parent of, again for each.
RECURSIVE Level(_, _)
Level(parent, candidates) ==
  LET children == SelectSeq(candidates, LAMBDA r : RelTypes[r.type].parent = parent)
  IN FlattenSeq([i \in DOMAIN children |->
       <<children[i]>> \o Level(children[i].type, candidates)])

Options(e) == SelectSeq(Level(None, Candidates(base, e)), LAMBDA r : ~ForItems(r.type))

----------------------------------------------------------------------------
(* The dialog.                                                             *)

\* A number that the edited relationship lacks is an empty list from then on.
Open(m) ==
  /\ dialog = 0 /\ Turn
  /\ m = None \/ m = made
  /\ dialogs' = dialogs + 1 /\ dialog' = dialogs'
  /\ edited' = m /\ typed' = FALSE
  /\ IF m = None
     THEN target' = None /\ relation' = None /\ number' = Blank
     ELSE /\ target' = OtherEnd(m.relation) /\ relation' = m.relation
          /\ number' = m.number
  /\ UNCHANGED <<base, made, recentVars, lookups, pasted>>

\* Without any entity that it could be related to, the dialog only says so.
Usable == dialog # 0 /\ OtherKinds # {}

\* Newest first, and each but once.
Remembered(e) ==
  LET others == SelectSeq(recent[KindOf[e]], LAMBDA f : f # e)
      all == <<e>> \o others
  IN [recent EXCEPT ![KindOf[e]] = SubSeq(all, 1, IF Len(all) < MaxRecent THEN Len(all) ELSE MaxRecent)]

Remember(e) == recent' = Remembered(e) /\ used' = <<e>> \o SelectSeq(used, LAMBDA f : f # e)

\* A choice of the entity takes back that of the relationship, but not its number.
Chosen(e) == target' = e /\ relation' = None

PickEntity(e) ==
  /\ Usable /\ Turn
  /\ e \in Searchable \cup RecentOptions
  /\ Remember(e) /\ Chosen(e)
  /\ UNCHANGED <<base, made, dialog, edited, number, typed, lookups, dialogs, pasted>>

ClearEntity ==
  /\ Usable /\ Turn /\ target # None
  /\ Chosen(None)
  /\ UNCHANGED <<base, made, dialog, edited, number, typed, recentVars, lookups, dialogs, pasted>>

PasteAddress(e) ==
  /\ Usable /\ Turn
  /\ lookups' = lookups \cup {[of |-> e, dialog |-> dialog]}
  /\ UNCHANGED <<base, made, dialogVars, recentVars, dialogs, pasted>>

\* Nothing is hidden that has an address. When the dialog has been left, the entity counts
\* as used all the same.
AnswerAddress(l) ==
  /\ l \in lookups /\ KindOf[l.of] \in OtherKinds
  /\ lookups' = lookups \ {l}
  /\ pasted' = pasted \cup {l.of}
  /\ Remember(l.of)
  /\ IF l.dialog = dialog THEN Chosen(l.of) ELSE UNCHANGED <<target, relation>>
  /\ UNCHANGED <<base, made, dialog, edited, number, typed, dialogs, turns>>

\* Of another type, or not found: the address is searched like a text, for nothing.
DropAddress(l) ==
  /\ l \in lookups
  /\ lookups' = lookups \ {l}
  /\ UNCHANGED <<base, made, dialogVars, recentVars, dialogs, pasted, turns>>

ChooseRelation ==
  /\ Usable /\ Turn /\ target # None
  /\ \E r \in ToSet(Options(target)) : relation' = r
  /\ UNCHANGED <<base, made, dialog, edited, target, number, typed, recentVars, lookups, dialogs, pasted>>

TypeNumber(text) ==
  /\ Usable /\ Turn
  /\ relation # None /\ Has(relation, "number")
  /\ text # number
  /\ number' = text /\ typed' = TRUE
  /\ UNCHANGED <<base, made, dialog, edited, target, relation, recentVars, lookups, dialogs, pasted>>

Left == dialog' = 0 /\ edited' = None /\ target' = None /\ relation' = None
          /\ number' = Blank /\ typed' = FALSE

\* With the button or with Enter, also with the one that chooses the relationship. What
\* has a number gets that of the dialog.
Add ==
  /\ Usable /\ target # None /\ relation # None
  /\ made' = Made(relation, IF Has(relation, "number") THEN number ELSE Absent)
  /\ Left
  /\ UNCHANGED <<base, recentVars, lookups, dialogs, pasted, turns>>

Cancel ==
  /\ dialog # 0
  /\ Left
  /\ UNCHANGED <<base, made, recentVars, lookups, dialogs, pasted, turns>>

\* Another page of the browser, about another entity.
UseElsewhere(e) ==
  /\ Turn
  /\ Remember(e)
  /\ pasted' = pasted \cup {e}
  /\ UNCHANGED <<base, made, dialogVars, lookups, dialogs>>

Next ==
  \/ \E m \in {None, made} : Open(m)
  \/ \E e \in Things : PickEntity(e) \/ PasteAddress(e) \/ UseElsewhere(e)
  \/ ClearEntity
  \/ \E l \in lookups : AnswerAddress(l) \/ DropAddress(l)
  \/ ChooseRelation
  \/ \E text \in Numerals \cup {Blank} : TypeNumber(text)
  \/ Add \/ Cancel

----------------------------------------------------------------------------
(* Properties.                                                             *)

\* Whatever was chosen, answered and cleared in between, the relationship that can be
\* added joins the page's entity and the one that is shown, whose types are those of its
\* ends, and it is not deprecated, unless it is the one that is edited, unchanged
\* (handleEntityChange, generateRelationshipSelection).
JoinsWhatIsShown ==
  relation # None =>
    /\ relation \in {Joined(relation.type, base, target), Joined(relation.type, target, base)}
    /\ \/ Fits(relation) /\ ~ForItems(relation.type)
       \/ edited # None /\ edited.relation = relation

\* What is made has no number if its type has none; of a type that has one, the number is
\* an empty list only when a relationship without was edited and none typed (helper.js).
NumberedAsTyped ==
  /\ made # None => Has(made.relation, "number") \/ made.number = Absent
  /\ number = Absent => edited # None /\ ~typed /\ edited.number = Absent

\* An entity is related to itself, or to a series of other entities, only when such a
\* one was edited, or came by its address or from another page (fetchOptions).
HiddenStaysHidden ==
  \A e \in ({target} \cup {IF made = None THEN None ELSE OtherEnd(made.relation)}) \ {None} :
    Hidden(e) => e \in pasted

\* What is kept of the entities of a type is those used last, each but once, the last
\* first (RecentlyUsed.addItem).
RecentIsLast ==
  \A k \in DOMAIN recent :
    LET ofKind == SelectSeq(used, LAMBDA e : KindOf[e] = k)
    IN /\ IsPrefix(recent[k], ofKind)
       /\ Len(recent[k]) = MaxRecent \/ recent[k] = ofKind

\* A relationship can be chosen if its type and all types above it fit the two entities,
\* in one of the directions: one below a type that does not fit is never offered. Between
\* entities of two types each is offered once (generateRelationshipSelection).
OfferedAsFits ==
  target # None =>
    LET fitting == {t \in DOMAIN RelTypes : \E r \in {Joined(t, base, target), Joined(t, target, base)} : Fits(r)}
        Closed(S) == \A t \in fitting : RelTypes[t].parent \in S \cup {None} => t \in S
        offered == {t \in fitting : (\A S \in SUBSET fitting : Closed(S) => t \in S) /\ ~ForItems(t)}
        options == Options(target)
    IN /\ {r.type : r \in ToSet(options)} = offered
       /\ KindOf[base] # KindOf[target] => IsInjective(options)
       /\ \A i \in DOMAIN options :
            RelTypes[options[i].type].parent # None /\ ~ForItems(RelTypes[options[i].type].parent) =>
              \E j \in 1 .. (i - 1) : options[j].type = RelTypes[options[i].type].parent

\* The dialog makes what it shows, of what it may offer.
ModalHolds == JoinsWhatIsShown /\ NumberedAsTyped /\ HiddenStaysHidden /\ RecentIsLast /\ OfferedAsFits
=============================================================================

---------------------------- MODULE EditorForms ----------------------------
(* Two of the forms as other modules use them: their constants, what is    *)
(* assumed of them, their variables, and the definitions of the unified    *)
(* form under UF (as the code calls it), of the fields of an entity under  *)
(* Type.                                                                   *)
EXTENDS Naturals, SequencesExt

CONSTANTS
  None,
  Types, MaxModals, MaxChoices, MaxSubmits, MaxFaults, MaxEdits,
  FieldEditors, MaxPicks, MaxAnswers

VARIABLES
  form, dumped, group0, works, modal, calls, left, batches, saves, editions, title,
  wanted, givenUp, mixed, strayed, cleared, opened, chosen, faults, lost, edits,
  type, data, pages, answers, picks

UF == INSTANCE UnifiedForm
Type == INSTANCE EntityFields WITH Editors <- FieldEditors

ASSUME FormBoundsAssumption ==
  {MaxModals, MaxChoices, MaxSubmits, MaxFaults, MaxEdits} \subseteq Nat
ASSUME ModalTypesAssumption == Types \subseteq UF!ModalTypes
ASSUME NoneAssumption == None \notin Nat /\ None \notin UF!Form /\ None \notin UF!Modal
ASSUME FieldsAssumption ==
  None \notin {"this", "early", "late", Type!Ticked, Type!OwnGroup, Type!MoreThanDate}

\* What the server makes of a form, which it saves one entity after the other: one
\* edition, its works credited, refused only for what was saved, and no edit undone
\* (UnifiedForm).
BatchesHold ==
  []UF!OneEdition /\ []UF!WholeBatch /\ []UF!RefusedOnlyAgain /\ UF!TitleKept

\* An entity is saved with the fields that were chosen and no others (EntityFields).
SavedAsMeant == Type!FieldsHold
=============================================================================

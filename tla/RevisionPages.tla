--------------------------- MODULE RevisionPages ---------------------------
(***************************************************************************)
(* Revisions as pages show them: the page of one (server/routes/           *)
(* revision.js, components/pages/revision.js), and the lists of all, of an *)
(* editor's and of an entity's (server/helpers/revisions.ts). What a       *)
(* revision changed is in RevisionDiff; here an entity has a name, or is   *)
(* gone; notes are left out. Editors go on meanwhile, one revision in a step. The entities are *)
(* of one type.                                                            *)
(***************************************************************************)
EXTENDS ListReader

CONSTANTS Entities, Seed, Names, Editors, Gone, MaxRevisions

VARIABLES
  revisions,  \* in the order of created_at: [id, editor, merge, rows], with a row for each
              \* entity: its name, and whether it was merged or merged into
  redirects   \* entity_redirect: pairs of a source and its target

revisionVars == <<revisions, redirects>>
pageVars == <<revisionVars, readerVars>>

Number == DOMAIN revisions
Has(n, e) == e \in DOMAIN revisions[n].rows
Newest(e) == LET ns == {n \in Number : Has(n, e)} IN IF ns = {} THEN 0 ELSE Max(ns)

\* revision.parent(): 0 if there is none.
Parent(n, e) ==
  LET ns == {k \in Number : k < n /\ Has(k, e)} IN IF ns = {} THEN 0 ELSE Max(ns)
NameIn(n, e) == IF n = 0 THEN Gone ELSE revisions[n].rows[e].name
Name(e) == NameIn(Newest(e), e)

Merged == {r[1] : r \in redirects}
Living == {e \in Entities : Name(e) # Gone}

\* Bound: these entities are there at first, each from a revision of its own.
Init ==
  /\ revisions = [n \in DOMAIN Seed |->
       [id |-> n, editor |-> CHOOSE x \in Editors : TRUE, merge |-> FALSE,
        rows |-> [e \in {Seed[n]} |-> [name |-> CHOOSE x \in Names : TRUE, merge |-> FALSE]]]]
  /\ redirects = {} /\ ReaderInit

----------------------------------------------------------------------------
(* Editors.                                                                *)

Row(name, merge) == [name |-> name, merge |-> merge]

\* created_at is when the transaction began: one that began earlier may be there later, if it
\* did not wait for the other.
Commit(editor, merge, rows, late) ==
  LET new == [id |-> Len(revisions) + 1, editor |-> editor, merge |-> merge, rows |-> rows]
      at == IF late THEN Len(revisions) ELSE Len(revisions) + 1
  IN /\ Len(revisions) < MaxRevisions
     /\ late => revisions # <<>>
                /\ DOMAIN revisions[Len(revisions)].rows \cap DOMAIN rows = {}
     /\ revisions' = InsertAt(revisions, at, new)

\* New entities, edited ones, and those that a stale form brings back.
Save(editor, es, name, late) ==
  /\ es \cap Merged = {}
  /\ Commit(editor, FALSE, [e \in es |-> Row(name, FALSE)], late)
  /\ UNCHANGED redirects

Delete(editor, e) ==
  /\ e \in Living
  /\ Commit(editor, FALSE, [x \in {e} |-> Row(Gone, FALSE)], FALSE)
  /\ UNCHANGED redirects

\* related: what had a relationship with one of them is in the revision, too.
Merge(editor, sources, target, related, name) ==
  /\ sources \cup related \cup {target} \subseteq Living
  /\ target \notin sources /\ related \cap (sources \cup {target}) = {}
  /\ Commit(editor, TRUE,
            [e \in sources \cup related \cup {target} |->
               IF e \in sources THEN Row(Gone, TRUE)
               ELSE IF e = target THEN Row(name, TRUE) ELSE Row(Name(e), FALSE)], FALSE)
  /\ redirects' = redirects \cup {<<s, target>> : s \in sources}

----------------------------------------------------------------------------
(* The page of a revision.                                                 *)

\* Wrong: an entity that came back is new again.
IsNew_NoData(n, e) == NameIn(n, e) # Gone /\ NameIn(Parent(n, e), e) = Gone

\* diffRevisionsWithParents
IsNew(n, e) == NameIn(n, e) # Gone /\ Parent(n, e) = 0

\* getEntityDiff
Badges(n, e) ==
  (IF IsNew(n, e) THEN {"New"} ELSE {})
    \cup (IF NameIn(n, e) # Gone THEN {}
          ELSE IF revisions[n].rows[e].merge THEN {"Merged"} ELSE {"Deleted"})

Shown(n) == DOMAIN revisions[n].rows
Merging(n) == IF revisions[n].merge THEN {e \in Shown(n) : revisions[n].rows[e].merge} ELSE {}

\* Sorted so that those without data come first; the last is what they were merged into.
Sorted(n) ==
  SetToSortSeq(Merging(n), LAMBDA a, b : NameIn(n, a) = Gone /\ NameIn(n, b) # Gone)
Into(n) == Last(Sorted(n))
MergesOf(n) == ToSet(Front(Sorted(n)))

\* External: the name before the newest revision of the entity.
ParentAlias(e) == NameIn(Parent(Newest(e), e), e)

\* Wrong: the name an entity has now.
ShownName_Now(n, e) == IF Name(e) # Gone THEN Name(e) ELSE ParentAlias(e)

\* Also in lists (getAssociatedEntityRevisions).
ShownName(n, e) == IF NameIn(n, e) # Gone THEN NameIn(n, e) ELSE ParentAlias(e)

----------------------------------------------------------------------------
(* Lists: the newest first.                                                *)

Ids(ns) ==
  LET s == SetToSortSeq(ns, >) IN [k \in DOMAIN s |-> revisions[s[k]].id]

AllRevisions == Ids(Number)
OfEditor(editor) == Ids({n \in Number : revisions[n].editor = editor})

\* Wrong: what was merged into a merged entity is left out.
MergedBBIDs_OneLevel(e) == {s \in Entities : <<s, e>> \in redirects}

\* recursivelyGetMergedEntitiesBBIDs
MergedBBIDs(e) ==
  LET Into_[k \in Nat, targets \in SUBSET Entities] ==
        LET sources == {s \in Entities : \E t \in targets : <<s, t>> \in redirects}
        IN IF k = 0 \/ sources = {} THEN {} ELSE sources \cup Into_[k - 1, sources]
  IN Into_[Cardinality(Entities), {e}]

OfEntity(e) == Ids({n \in Number : Shown(n) \cap ({e} \cup MergedBBIDs(e)) # {}})

Lists == {<<"all", "">>} \cup ({"editor"} \X Editors) \cup ({"entity"} \X Entities)
ListOf(which) ==
  CASE which[1] = "all" -> AllRevisions
    [] which[1] = "editor" -> OfEditor(which[2])
    [] which[1] = "entity" -> OfEntity(which[2])

Open(which, size) == OpenList(which, ListOf(which), size) /\ UNCHANGED revisionVars

Reads ==
  /\ Turn \/ Arrives(ListOf(list)) \/ Leave
  /\ UNCHANGED revisionVars

Edits ==
  /\ \/ \E editor \in Editors, es \in SUBSET Entities \ {{}, Entities}, name \in Names, late \in BOOLEAN :
          Save(editor, es, name, late)
     \/ \E editor \in Editors, e \in Entities : Delete(editor, e)
     \/ \E editor \in Editors, sources \in SUBSET Living \ {{}}, target \in Living,
           related \in SUBSET Living, name \in Names :
          Merge(editor, sources, target, related, name)
  /\ UNCHANGED readerVars

Next ==
  \/ \E which \in Lists, size \in Sizes : Open(which, size)
  \/ Reads
  \/ Edits

----------------------------------------------------------------------------
\* Who reads a list of revisions to its end has seen all that were in it when they began:
\* revisions made meanwhile, also of an entity that is merged into that of the page, or of a
\* transaction that began before others, only move them back.
RevisionsAllRead == AtEnd => there \subseteq seen

\* The page of a revision shows each of its entities in one place: with New where it was
\* first saved, whatever became of it in between; and those it says were merged into another
\* lead there.
PageTells ==
  \A n \in Number :
    /\ \A e \in Shown(n) :
         /\ ("New" \in Badges(n, e)) = (\A k \in Number : Has(k, e) => n <= k)
         /\ "Deleted" \in Badges(n, e) => \A r \in redirects : r[1] = e => \E k \in Number : k > n /\ Has(k, e)
    /\ revisions[n].merge =>
         /\ NameIn(n, Into(n)) # Gone
         /\ \A e \in MergesOf(n) : "Merged" \in Badges(n, e) /\ <<e, Into(n)>> \in redirects

\* An entity is shown by the name that the revision gave it or, if it took it away, by that
\* it had before; unless it was saved again since.
NamesTell ==
  \A n \in Number : \A e \in Shown(n) :
    ShownName(n, e) =
      IF NameIn(n, e) # Gone THEN NameIn(n, e)
      ELSE IF n = Newest(e) THEN NameIn(Parent(n, e), e) ELSE ParentAlias(e)

\* The history of an entity has the revisions of all that a redirect leads to it from.
HistoryWhole ==
  LET Leads[k \in Nat, e \in Entities] ==
        IF k = 0 \/ e \notin Merged THEN e
        ELSE Leads[k - 1, (CHOOSE r \in redirects : r[1] = e)[2]]
      End(e) == Leads[Cardinality(Entities), e]
  IN \A e \in Entities \ Merged :
       ToSet(OfEntity(e)) = {revisions[n].id : n \in {k \in Number : \E x \in Shown(k) : End(x) = e}}

\* The last three are not about who reads a list.
RevisionsHold ==
  RevisionsAllRead /\ (list = Nothing => PageTells /\ NamesTell /\ HistoryWhole)
=============================================================================

---------------------------- MODULE RevisionDiff ----------------------------
(***************************************************************************)
(* What the page of a revision says of an entity's change: deep-diff lists *)
(* the changes between two versions, the formatters of                     *)
(* src/server/helpers/diffFormatters and routes/revision.js make rows of   *)
(* some, and client/components/pages/revision.js prints them, by key. The  *)
(* fields are formatted apart, so a version is that of one of them: a set  *)
(* of things, which is missing when there are none, or a single value.     *)
(***************************************************************************)
EXTENDS Naturals, SequencesExt

CONSTANTS
  None,          \* missing
  Aliases,       \* [name, sortName, language, primary]
  Identifiers,   \* [type, value]
  Relationships, \* [end, text]: the other entity, and the text of an attribute, or None
  Credits,       \* [name, joinPhrase]: of an edition's or edition group's authors
  Members,       \* [name]: of languages, publishers and release events
  Scalars,       \* numbers and dates
  Labels,        \* of types, areas and genders
  MaxItems       \* bound

VARIABLES field, lhs, rhs  \* the field; the parent's version, the revision's

diffVars == <<field, lhs, rhs>>

Sets == {"aliases", "defaultAlias", "identifiers", "relationships", "authorCredit", "languages",
         "publishers", "releaseEvents"}
Singles == {"scalar", "ended", "type", "area", "gender", "disambiguation"}

Items(f) ==
  CASE f = "aliases" -> Aliases
    [] f = "identifiers" -> Identifiers
    [] f = "relationships" -> Relationships
    [] f = "authorCredit" -> Credits
    [] f \in {"languages", "publishers", "releaseEvents"} -> Members

Versions(f) ==
  CASE f \in {"type", "area", "gender", "disambiguation"} -> {<<l>> : l \in Labels} \cup {None}
    [] f = "scalar" -> {<<s>> : s \in Scalars} \cup {None}
    [] f = "ended" -> {<<TRUE>>, <<FALSE>>, None}
    [] f = "defaultAlias" -> {<<a>> : a \in Aliases} \cup {None}
    [] OTHER -> {s \in BoundedSeq(Items(f), MaxItems) : IsInjective(s)} \cup {None}

Init ==
  /\ field \in Sets \cup Singles
  /\ lhs = None /\ rhs \in Versions(field)

\* Another revision, whose parent is the last.
Revise(version) ==
  /\ version # rhs
  /\ lhs' = rhs /\ rhs' = version
  /\ UNCHANGED field

Next == \E version \in Versions(field) : Revise(version)

----------------------------------------------------------------------------
(* deep-diff, as far as the formatters tell its changes apart: a field was *)
(* added (N), removed (D) or edited (E); an item was added to or removed   *)
(* from the end of an array (A), or one of its own fields was.             *)

Change(kind, index, prop, l, r) ==
  [kind |-> kind, index |-> index, prop |-> prop, lhs |-> l, rhs |-> r]

\* A field that is missing is added or removed, with the texts; others are edited.
KindOf(l, r) == IF l = None THEN "N" ELSE IF r = None THEN "D" ELSE "E"

EditedItem(n, l, r) ==
  LET props == SetToSeq({p \in DOMAIN l : l[p] # r[p]})
  IN [k \in DOMAIN props |->
        Change(KindOf(l[props[k]], r[props[k]]), n, props[k], l[props[k]], r[props[k]])]

ArrayChanges(l, r) ==
  LET Both == IF Len(l) < Len(r) THEN Len(l) ELSE Len(r)
  IN [n \in 1..(Len(r) - Both) |-> Change("A", Len(r) + 1 - n, "item", None, r[Len(r) + 1 - n])]
     \o [n \in 1..(Len(l) - Both) |-> Change("A", Len(l) + 1 - n, "item", l[Len(l) + 1 - n], None)]
     \o FlattenSeq([n \in 1..Both |-> EditedItem(Both + 1 - n, l[Both + 1 - n], r[Both + 1 - n])])

Changes(l, r) ==
  IF l = r THEN <<>>
  ELSE IF l = None \/ r = None THEN <<Change(KindOf(l, r), 0, "all", l, r)>>
  ELSE ArrayChanges(l, r)

----------------------------------------------------------------------------
(* Rows. Nothing is None; a side with nothing to print is <<>>.            *)

\* The kind says which sides the page prints.
FormatRow(kind, key, l, r) ==
  IF l = None /\ r = None THEN <<>>
  ELSE IF kind = "N" \/ l = None THEN <<[kind |-> "N", key |-> key, lhs |-> <<>>, rhs |-> r]>>
  ELSE IF kind = "D" \/ r = None THEN <<[kind |-> "D", key |-> key, lhs |-> l, rhs |-> <<>>]>>
  ELSE <<[kind |-> kind, key |-> key, lhs |-> l, rhs |-> r]>>

\* side && [side]
Side(value) == IF value = None THEN None ELSE <<value>>
FormatChange(c, key) == FormatRow(c.kind, key, Side(c.lhs), Side(c.rhs))

Each(items, prop) == [n \in DOMAIN items |-> items[n][prop]]
At(key, c) == <<key, c.index>>
Plain(key) == <<key, 0>>

NewSet(c, key, values) == IF c.rhs = <<>> THEN <<>> ELSE FormatRow("N", key, None, values)

\* A new set prints the names only; nothing is made of an alias's language that was given or
\* taken away.
FormatAliases(c) ==
  CASE c.prop = "all" -> IF c.kind = "N" THEN NewSet(c, Plain("Aliases"), Each(c.rhs, "name")) ELSE <<>>
    [] c.prop = "item" ->
         LET Printed(side) == IF side = None THEN None ELSE <<side.name, side.sortName>>
         IN FormatRow(IF c.lhs = None THEN "N" ELSE "D", Plain("Aliases"), Printed(c.lhs), Printed(c.rhs))
    [] c.prop \in {"name", "sortName"} \/ (c.prop = "language" /\ c.kind = "E") ->
         FormatChange(c, At(c.prop, c))
    [] c.prop = "primary" -> FormatRow("E", At("primary", c), <<"No">>, <<"No">>)
    [] OTHER -> <<>>

FormatDefaultAlias(c) ==
  CASE c.prop = "all" ->
         IF c.kind = "N" THEN FormatRow("N", Plain("Default Alias"), None, <<c.rhs[1].name>>) ELSE <<>>
    [] c.prop = "name" -> FormatChange(c, Plain("Default Alias"))
    [] OTHER -> <<>>

\* Wrong: the type of an identifier is not looked at.
FormatIdentifiers_Values(c) ==
  CASE c.prop = "all" -> IF c.kind = "N" THEN NewSet(c, Plain("Identifiers"), c.rhs) ELSE <<>>
    [] c.prop = "item" -> FormatRow(IF c.lhs = None THEN "N" ELSE "D", At("Identifier", c),
                                    Side(c.lhs), Side(c.rhs))
    [] c.prop = "value" -> FormatChange(c, At(c.prop, c))
    [] OTHER -> <<>>

\* Nothing is made of a set that is gone.
FormatIdentifiers(c) ==
  CASE c.prop = "all" -> IF c.kind = "N" THEN NewSet(c, Plain("Identifiers"), c.rhs) ELSE <<>>
    [] c.prop = "item" -> FormatRow(IF c.lhs = None THEN "N" ELSE "D", At("Identifier", c),
                                    Side(c.lhs), Side(c.rhs))
    [] OTHER -> FormatChange(c, At(c.prop, c))

\* The end that is not the entity's own, then the attributes.
Ends(r) == IF r.text = None THEN <<r.end>> ELSE <<r.end, r.text>>

FormatRelationships(c) ==
  CASE c.prop = "all" ->
         LET set == IF c.kind = "N" THEN c.rhs ELSE c.lhs
         IN FlattenSeq([n \in DOMAIN set |->
              FormatRow(c.kind, Plain("Relationship:"), Ends(set[n]), Ends(set[n]))])
    [] c.prop = "item" /\ c.lhs = None -> FormatRow("N", Plain("Relationship :"), None, Ends(c.rhs))
    [] c.prop = "item" /\ c.rhs = None -> FormatRow("D", Plain("Relationship :"), Ends(c.lhs), None)
    [] c.prop = "text" /\ c.kind = "E" -> FormatChange(c, At("Relationship Attribute", c))
    [] OTHER -> <<>>

\* What set.js is given for an item that was added or removed is the change, not its item.
FormatSet(c, prop, key, removed) ==
  CASE c.prop = "all" /\ c.kind = "N" -> NewSet(c, Plain(key), Each(c.rhs, prop))
    [] c.prop = "all" -> FormatRow("D", Plain(key), removed, None)
    [] c.prop = prop -> FormatChange(c, At(key, c))
    [] OTHER -> <<>>

\* Those of languages are numbered; others are all of the same key.
FormatMembers(c) ==
  LET plain == [c EXCEPT !.index = IF field = "languages" THEN c.index ELSE 0]
  IN FormatSet(plain, "name", field, <<None>>)

FormatAuthorCredit(c) ==
  FormatSet(c, "name", "Author Credit", IF c.lhs = None THEN None ELSE Each(c.lhs, "name"))

\* Printed from both sides, and null is neither true nor false.
FormatEnded(l, r) ==
  LET Printed(side) == CASE side = None -> <<"true">> [] side[1] -> <<"Yes">> [] OTHER -> <<"No">>
  IN FormatRow("E", Plain("ended"), Printed(l), Printed(r))

\* Zero is printed as nothing, which is not to be missing.
FormatScalar(l, r) ==
  LET Printed(side) == IF side = <<0>> THEN <<>> ELSE side
  IN FormatRow("E", Plain("scalar"), Printed(l), Printed(r))

\* Wrong: a type that was changed for another has another path, which is not looked for.
FormatType_New(l, r) ==
  IF None \in {l, r} THEN FormatRow(KindOf(l, r), Plain("type"), l, r) ELSE <<>>

\* Also of areas and disambiguations.
FormatType(l, r) == FormatRow(KindOf(l, r), Plain("type"), l, r)

\* The path of a gender that was changed for another is not the one that is looked for.
FormatGender(l, r) ==
  IF None \in {l, r} THEN FormatRow(KindOf(l, r), Plain("gender"), l, r) ELSE <<>>

FormatSingle(l, r) ==
  CASE field = "ended" -> FormatEnded(l, r)
    [] field = "scalar" -> FormatScalar(l, r)
    [] field = "gender" -> FormatGender(l, r)
    [] OTHER -> FormatType(l, r)

FormatItem(c) ==
  CASE field = "aliases" -> FormatAliases(c)
    [] field = "defaultAlias" -> FormatDefaultAlias(c)
    [] field = "identifiers" -> FormatIdentifiers(c)
    [] field = "relationships" -> FormatRelationships(c)
    [] field = "authorCredit" -> FormatAuthorCredit(c)
    [] OTHER -> FormatMembers(c)

Rows(l, r) ==
  IF l = r THEN <<>>
  ELSE IF field \in Singles THEN FormatSingle(l, r)
  ELSE LET changes == Changes(l, r)
       IN FlattenSeq([n \in DOMAIN changes |-> FormatItem(changes[n])])

\* Sorted by their keys; those of one key stay as they were.
Page(l, r) ==
  LET rows == Rows(l, r)
  IN [key \in {rows[n].key : n \in DOMAIN rows} |-> SelectSeq(rows, LAMBDA row : row.key = key)]

----------------------------------------------------------------------------
(* What a reader who knows the version before can take the revision's for. *)

SeenAlias(l, r) ==
  [name |-> r.name, sortName |-> r.sortName, primary |-> r.primary,
   language |-> IF None \in {l.language, r.language} THEN l.language ELSE r.language]

SeenSet(l, r) ==
  CASE field = "defaultAlias" -> r[1].name
    [] field = "identifiers" -> r
    [] field = "relationships" /\ l # None ->
         [n \in DOMAIN r |-> IF n > Len(l) THEN r[n]
                             ELSE IF None \in {l[n].text, r[n].text} THEN l[n]
                             ELSE [l[n] EXCEPT !.text = r[n].text]]
    [] field = "relationships" -> r
    [] l = None -> Each(r, "name")
    [] field = "aliases" ->
         [n \in DOMAIN r |-> IF n > Len(l) THEN <<r[n].name, r[n].sortName>>
                             ELSE SeenAlias(l[n], r[n])]
    [] OTHER -> [n \in DOMAIN l |-> IF n > Len(r) THEN l[n].name ELSE r[n].name]

\* No row: not changed.
Seen(l, r) ==
  CASE field = "gender" /\ None \notin {l, r} -> l
    [] field \in Singles -> r
    [] r = None /\ l # None /\ field \in {"aliases", "defaultAlias", "identifiers"} -> SeenSet(l, l)
    [] r = None -> <<>>
    [] OTHER -> SeenSet(l, r)

\* Two revisions of an entity that print the same rows left it the same, but for what no row
\* is made of: an alias's language that was given or taken away; identifiers all of which
\* were removed; a relationship that was changed for another at its place in the list;
\* members of a set that there was before; a gender that was changed for another.
DiffTells ==
  \A version \in Versions(field) :
    Page(lhs, version) = Page(lhs, rhs) => Seen(lhs, version) = Seen(lhs, rhs)
=============================================================================

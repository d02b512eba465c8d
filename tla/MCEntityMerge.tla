--------------------------- MODULE MCEntityMerge ---------------------------
(* Two editors, two authors and a work for TLC.                            *)
EXTENDS EntityMerge, TLC

CONSTANTS a, b, x, s1, s2

TwoAndAWork == {a, b, x}
XRelated == {<<a, x>>, <<b, x>>, <<a, b>>}
TwoSessions == {s1, s2}

\* Authors and works.
TypeOf(e) == IF e = x THEN "Work" ELSE "Author"

EditorSymmetry == Permutations(Sessions)
=============================================================================

------------------------- MODULE MCEntityRevisions -------------------------
(* Instances of EntityRevisions for TLC.                                   *)
EXTENDS EntityRevisions, TLC

CONSTANTS e1, e2, e3, n1, n2, bob, r1, r2, r3

TwoEntities == {e1, e2}
ThreeEntities == {e1, e2, e3}
TwoNames == {n1, n2}
OneEditor == {bob}
TwoRequests == {r1, r2}
ThreeRequests == {r1, r2, r3}
SeedOne == <<e1>>
SeedTwo == <<e1, e2>>
Valid == {TRUE}
ValidOrNot == {TRUE, FALSE}

RequestSymmetry == Permutations(Requests)
=============================================================================

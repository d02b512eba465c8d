--------------------------- MODULE MCCollections ---------------------------
(* Instances of Collections for TLC.                                       *)
EXTENDS Collections, TLC

CONSTANTS c, o, x, a1, a2, A, B, w1, w2

OneCollection == {c}
TwoEditors == {o, x}
TwoEntities == {a1, a2}
TwoTypes == {A, B}
TwoWorkers == {w1, w2}
AllOfA == a1 :> A @@ a2 :> A
Symmetry == {f @@ g @@ h : f \in Permutations(TwoEntities),
                           g \in Permutations(TwoWorkers), h \in Permutations(TwoEditors)}
=============================================================================

-------------------------- MODULE MCAchievements ---------------------------
(* Instances of Achievements for TLC.                                      *)
EXTENDS Achievements, TLC

CONSTANTS r1, c1, f1, e1, ct, x, w1, w2

SmallTiers ==
  Revisionist :> {[award |-> r1, threshold |-> 2, title |-> ct]}
  @@ Creator :> {[award |-> c1, threshold |-> 1, title |-> NoTitle]}
  @@ FunRunner :> {[award |-> f1, threshold |-> 2, title |-> NoTitle]}
  @@ Explorer :> {[award |-> e1, threshold |-> 1, title |-> NoTitle]}
AllAwards == {r1, c1, f1, e1}
OneTitle == {ct}
TwoListed == {e1, f1}
OneEntity == {x}
TwoWorkers == {w1, w2}
Symmetry == Permutations(TwoWorkers)
=============================================================================

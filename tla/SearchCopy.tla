---------------------------- MODULE SearchCopy ----------------------------
(***************************************************************************)
(* What the search index promises, whatever is lost or overtaken on the    *)
(* way to it: it is a copy of the database that is never written together  *)
(* with it, that only ever holds what some version of a row said, and that *)
(* can be thrown away and filled again.                                    *)
(***************************************************************************)
EXTENDS Naturals

CONSTANTS Keys,   \* bbids and collection ids
          NoDoc

VARIABLES version,  \* versions written of each row, 0 for a row never written
          shown     \* the version a key's document was made from, or NoDoc

copyVars == <<version, shown>>

Init ==
  /\ version \in [Keys -> Nat]
  /\ shown \in [Keys -> Nat \cup {NoDoc}]
  /\ \A k \in Keys : shown[k] # NoDoc => shown[k] \in 1..version[k]

\* The next version of one row.
Write(k) ==
  /\ version' = [version EXCEPT ![k] = @ + 1]
  /\ UNCHANGED shown

\* Documents of some keys are replaced by documents of versions there are.
Index(S) ==
  /\ UNCHANGED version
  /\ \A k \in S : shown'[k] \in 1..version[k]
  /\ shown' = [k \in Keys |-> IF k \in S THEN shown'[k] ELSE shown[k]]

Remove(k) ==
  /\ shown' = [shown EXCEPT ![k] = NoDoc]
  /\ UNCHANGED version

Clear ==
  /\ shown' = [k \in Keys |-> NoDoc]
  /\ UNCHANGED version

Next ==
  \/ \E k \in Keys : Write(k) \/ Remove(k)
  \/ \E S \in SUBSET Keys : Index(S)
  \/ Clear

Spec == Init /\ [][Next]_copyVars
=============================================================================

--------------------------- MODULE RevisionStore ---------------------------
(***************************************************************************)
(* What the tables behind an entity promise, whatever the web server does  *)
(* with its transactions: <entity>_header, <entity>_revision, revision and *)
(* revision_parent (src/sql/schemas/bookbrainz.sql), changed one committed *)
(* revision at a time.                                                     *)
(*                                                                         *)
(* A revision is recorded once, with its author, its parents and one row   *)
(* for every entity it touches, and never altered again; its parents are   *)
(* revisions recorded before it; a row with data either is the first row   *)
(* of its entity or continues a row with data of the same entity; and the  *)
(* header of a touched entity (no other) moves to the new revision.        *)
(***************************************************************************)
EXTENDS Naturals, Sequences

CONSTANTS Entities,     \* bbids
          Data,         \* what an <entity>_data row can hold
          Editors,
          MaxRevision,  \* bound on revision ids
          Null,         \* SQL NULL: the data_id of a deletion
          Absent,       \* no such row
          Seed,         \* entities already there, in order of creation
          SeedEditor,   \* who created them
          SeedData      \* with these data

VARIABLES entityRevision,  \* <entity>_revision, joined with its data
          header,          \* <entity>_header.master_revision_id, 0 if none
          parents,         \* revision_parent
          author           \* revision.author_id, Absent for an unused id

storeVars == <<entityRevision, header, parents, author>>

Ids == 1..MaxRevision

Recorded == {i \in Ids : author[i] # Absent}

Init ==
  /\ entityRevision = [e \in Entities |-> [i \in Ids |->
       IF i \in DOMAIN Seed /\ Seed[i] = e THEN SeedData ELSE Absent]]
  /\ header = [e \in Entities |->
       IF \E i \in DOMAIN Seed : Seed[i] = e
       THEN CHOOSE i \in DOMAIN Seed : Seed[i] = e ELSE 0]
  /\ parents = [i \in Ids |-> {}]
  /\ author = [i \in Ids |-> IF i \in DOMAIN Seed THEN SeedEditor ELSE Absent]

\* Record(i, ed, written): editor ed makes revision i, whose row for an entity
\* e is written[e] (Absent where the revision does not touch e).
Record(i, ed, written) ==
  /\ author[i] = Absent
  /\ author' = [author EXCEPT ![i] = ed]
  /\ entityRevision' =
       [e \in Entities |-> [entityRevision[e] EXCEPT ![i] = written[e]]]
  /\ header' = [e \in Entities |->
       IF written[e] # Absent THEN i ELSE header[e]]
  /\ parents' = [parents EXCEPT ![i] = parents'[i]]
  /\ parents'[i] \subseteq Recorded
  /\ \A e \in Entities : written[e] \in Data =>
       \/ header[e] = 0
       \/ \E p \in parents'[i] : entityRevision[e][p] \in Data
  /\ \A e \in Entities : written[e] = Null => header[e] # 0

Next ==
  \E i \in Ids, ed \in Editors :
    Record(i, ed, [e \in Entities |-> entityRevision'[e][i]])

Spec == Init /\ [][Next]_storeVars
=============================================================================

------------------------- MODULE SearchIndexProofs -------------------------
(***************************************************************************)
(* What holds of the search index for any number of entities, collections, *)
(* processes, writes, regenerations and faults: types; that it is a copy   *)
(* (SearchCopy); that an index filled by one regeneration alone has the    *)
(* mappings of the code; that a document is out of date only for a reason. *)
(***************************************************************************)
EXTENDS SearchIndex, TLAPS

----------------------------------------------------------------------------
(* The inductive invariant.                                                *)

\* Versions are counted by the writes; authors are neither deleted nor merged.
RowsHold ==
  /\ \A k \in Keys : row[k].ver <= writes + 1
  /\ \A k \in Keys : row[k].state = "absent" <=> row[k].ver = 0
  /\ \A k \in Authors : row[k].state = "live"
  /\ \A k \in Keys : row[k].state = "open" => k \in Groups

OfVersion(k, doc) == doc # NoDoc => doc.ver \in 1..row[k].ver

\* What is in the index, on its way to it or read for it is of a version there is.
VersionsHold ==
  /\ \A k \in Keys : OfVersion(k, docs[k])
  /\ \A c \in calls : OfVersion(c.key, c.doc) /\ row[c.key].state # "absent"
  /\ \A p \in Processes, k \in Keys :
       job[p].seen[k] <= row[k].ver /\ (k \in job[p].todo => job[p].seen[k] # 0)

StoreInv == TypeOK /\ RowsHold /\ VersionsHold

----------------------------------------------------------------------------
(* Types and versions.                                                     *)

LEMMA KeysOfKinds ==
  /\ Authors \subseteq Keys /\ Works \subseteq Keys /\ Groups \subseteq Keys
  /\ Entities \subseteq Keys /\ Collections \subseteq Keys
  /\ \A k \in Works : AuthorOf[k] \in Authors
BY KeyAssumption DEF Keys, Entities

LEMMA BootType == Boot \in Job
BY BoundAssumption DEF Boot, Job, Pcs, Scopes, Version

LEMMA InitStoreInv == Init => StoreInv
<1> SUFFICES ASSUME Init PROVE StoreInv
  OBVIOUS
<1>1. \A k \in Keys : \/ k \in Authors /\ row[k] = [ver |-> 1, state |-> "live"]
                      \/ k \notin Authors /\ row[k] = [ver |-> 0, state |-> "absent"]
  BY DEF Init
<1>2. TypeOK
  <2>1. row \in [Keys -> Row]
    BY BoundAssumption DEF Init, Row, Version, States
  <2>2. job \in [Processes -> Job]
    BY BootType DEF Init
  <2> QED BY <2>1, <2>2, BoundAssumption DEF Init, TypeOK
<1>3. RowsHold
  <2>1. \A k \in Keys : row[k].ver <= writes + 1
    <3>1. writes = 0
      BY DEF Init
    <3> QED BY <1>1, <3>1
  <2>2. \A k \in Keys : row[k].state = "absent" <=> row[k].ver = 0
    BY <1>1
  <2>3. \A k \in Keys : row[k].state # "open"
    BY <1>1
  <2>4. \A k \in Authors : row[k].state = "live"
    BY <1>1, KeysOfKinds
  <2> QED BY <2>1, <2>2, <2>3, <2>4 DEF RowsHold
<1>4. VersionsHold
  <2>1. \A k \in Keys : docs[k] = NoDoc
    BY DEF Init
  <2>2. \A p \in Processes, k \in Keys : job[p].seen[k] = 0 /\ job[p].todo = {} /\ 0 <= row[k].ver
    BY <1>2, BoundAssumption DEF Init, Boot, TypeOK, Row, Version
  <2> QED BY <2>1, <2>2 DEF Init, VersionsHold, OfVersion
<1> QED BY <1>2, <1>3, <1>4 DEF StoreInv

\* What a step about some keys does to the regenerations: they have another
\* history, and are where they were.
LEMMA TouchHolds ==
  ASSUME TypeOK, NEW S \in SUBSET Keys
  PROVE  /\ Touch(S) \in [Processes -> Job]
         /\ \A p \in Processes :
              Touch(S)[p] = [job[p] EXCEPT !.touched = IF Running(p) THEN @ \cup S ELSE @]
BY DEF Touch, TypeOK, Job

SameReading(p) == job'[p].seen = job[p].seen /\ job'[p].todo = job[p].todo

LEMMA TouchReads ==
  ASSUME TypeOK, NEW S \in SUBSET Keys, job' = Touch(S)
  PROVE  \A p \in Processes : SameReading(p)
BY TouchHolds DEF TypeOK, Job, SameReading

\* A step that writes one row.
LEMMA ChangeKeepsStore ==
  ASSUME StoreInv, NEW k \in Keys, NEW next, Change(k, next),
         next = [ver |-> next.ver, state |-> next.state],
         next.ver \in {row[k].ver, row[k].ver + 1}, next.state \in States \ {"absent"},
         next.ver # 0,
         k \in Authors => next.state = "live",
         next.state = "open" => k \in Groups,
         excused' \subseteq Keys,
         \/ UNCHANGED calls
         \/ Send(k, NoDoc)
         \/ Send(k, DocumentOf(k))
  PROVE  StoreInv'
<1> DEFINE doc == DocumentOf(k)
<1>1. /\ row \in [Keys -> Row] /\ row[k] \in Row /\ writes \in Nat /\ writes < MaxWrites /\ MaxWrites \in Nat
      /\ row[k].ver \in Nat /\ row[k].ver <= writes + 1 /\ next.ver \in Nat
  BY BoundAssumption DEF StoreInv, TypeOK, RowsHold, Change, Row, Version
<1>2. next \in Row
  <2>1. next.ver \in 0..(MaxWrites + 1)
    BY <1>1
  <2> QED BY <2>1 DEF Row, Version
<1>3. row' \in [Keys -> Row] /\ row'[k] = next /\ \A i \in Keys \ {k} : row'[i] = row[i]
  BY <1>1, <1>2 DEF Change
<1>4. \A i \in Keys : row[i].ver \in Nat /\ row'[i].ver \in Nat /\ row[i].ver <= row'[i].ver
                      /\ (row'[i].state = "absent" => row[i].state = "absent")
  BY <1>1, <1>3 DEF Row, Version
<1>5. doc \in Document /\ \A d : d = doc => OfVersion(k, d)'
  <2>1. row'[k].ver \in Version /\ row'[k].ver >= 1
    BY <1>1, <1>2, <1>3 DEF Row
  <2>2. k \in Works => row[AuthorOf[k]].ver \in Version
    BY <1>1, KeysOfKinds DEF Row
  <2>3. 0 \in Version
    BY BoundAssumption DEF Version
  <2>4. doc = [ver |-> row'[k].ver, by |-> IF k \in Works THEN row[AuthorOf[k]].ver ELSE 0]
    BY DEF DocumentOf
  <2>5. doc.ver = row'[k].ver
    BY <2>4
  <2>6. row'[k].ver \in 1..row'[k].ver
    BY <2>1 DEF Version
  <2>7. doc \in Document
    BY <2>1, <2>2, <2>3, <2>4 DEF Document
  <2>8. (doc # NoDoc => doc.ver \in 1..row'[k].ver)
    BY <2>5, <2>6
  <2> HIDE DEF doc
  <2> QED BY <2>7, <2>8 DEF OfVersion
<1>6. \A c \in calls' : c \in calls \/ (c.key = k /\ c \in Call /\ OfVersion(k, c.doc)')
  <2>1. CASE UNCHANGED calls
    BY <2>1
  <2>2. CASE Send(k, NoDoc)
    BY <2>2 DEF Send, Call, OfVersion
  <2>3. CASE Send(k, doc)
    <3> HIDE DEF doc
    <3>1. calls' = calls \cup {[key |-> k, doc |-> doc]}
      BY <2>3 DEF Send
    <3>2. [key |-> k, doc |-> doc] \in Call
      BY <1>5 DEF Call
    <3> QED BY <1>5, <3>1, <3>2
  <2> QED BY <2>1, <2>2, <2>3
<1>7. TypeOK'
  <2>1. job' \in [Processes -> Job]
    BY TouchHolds DEF StoreInv, Change
  <2>2. calls' \subseteq Call
    BY <1>6 DEF StoreInv, TypeOK
  <2>3. writes' \in 0..MaxWrites
    BY <1>1 DEF StoreInv, TypeOK, Change
  <2> QED BY <1>3, <2>1, <2>2, <2>3 DEF StoreInv, TypeOK, Change
<1>8. RowsHold'
  <2>1. \A i \in Keys : row'[i].ver <= writes' + 1
    BY <1>1, <1>3 DEF StoreInv, RowsHold, Change, Row, Version
  <2>2. \A i \in Keys : row'[i].state = "absent" <=> row'[i].ver = 0
    BY <1>3 DEF StoreInv, RowsHold
  <2>3. \A i \in Authors : row'[i].state = "live"
    BY <1>3, KeysOfKinds DEF StoreInv, RowsHold
  <2>4. \A i \in Keys : row'[i].state = "open" => i \in Groups
    BY <1>3 DEF StoreInv, RowsHold
  <2> QED BY <2>1, <2>2, <2>3, <2>4 DEF RowsHold
<1>9. VersionsHold'
  <2>1. \A i \in Keys : \A d : OfVersion(i, d) => OfVersion(i, d)'
    BY <1>4 DEF OfVersion
  <2>2. \A i \in Keys : OfVersion(i, docs[i])'
    <3>1. docs' = docs
      BY DEF Change
    <3> QED BY <2>1, <3>1 DEF StoreInv, VersionsHold
  <2>3. \A c \in calls' : OfVersion(c.key, c.doc)' /\ row'[c.key].state # "absent"
    <3>1. \A c \in calls : c.key \in Keys
      BY DEF StoreInv, TypeOK, Call
    <3> QED BY <1>3, <1>4, <1>6, <2>1, <3>1 DEF StoreInv, VersionsHold
  <2>4. \A p \in Processes, i \in Keys :
          job'[p].seen[i] <= row'[i].ver /\ (i \in job'[p].todo => job'[p].seen[i] # 0)
    <3>1. \A p \in Processes : SameReading(p)
      BY TouchReads DEF StoreInv, Change
    <3>2. \A p \in Processes, i \in Keys : job[p].seen[i] \in Nat
      BY BoundAssumption DEF StoreInv, TypeOK, Job, Version
    <3> QED BY <1>4, <3>1, <3>2 DEF SameReading, StoreInv, VersionsHold
  <2> QED BY <2>2, <2>3, <2>4 DEF VersionsHold
<1> QED BY <1>7, <1>8, <1>9 DEF StoreInv

LEMMA StoreTypes ==
  ASSUME StoreInv
  PROVE  /\ \A k \in Keys : row[k] \in Row /\ row[k].ver \in Nat
         /\ \A c \in calls : c.key \in Keys /\ c \in Call
         /\ \A p \in Processes : job[p] \in Job /\ \A k \in Keys : job[p].seen[k] \in Nat
BY BoundAssumption DEF StoreInv, TypeOK, Row, Version, Call, Job

\* Requests that write a row.
LEMMA WritesKeepStore ==
  ASSUME StoreInv,
         \/ \E k \in Entities : SaveEntity(k) \/ OpenMerge(k)
         \/ \E k \in Keys : Delete(k)
         \/ \E k \in Collections, state \in {"live", "hidden"}, renamed \in BOOLEAN :
              SaveCollection(k, state, renamed)
         \/ \E k \in Groups : OpenGroup(k)
  PROVE  StoreInv'
<1> USE DEF States
<1>0. excused \subseteq Keys /\ \A k \in Keys : Overtaking(k) \subseteq Keys
  BY DEF StoreInv, TypeOK, Overtaking
<1>1. ASSUME NEW k \in Entities, SaveEntity(k) PROVE StoreInv'
  <2> DEFINE next == [ver |-> row[k].ver + 1, state |-> "live"]
  <2>1. k \in Keys /\ row[k].ver \in Nat
    BY StoreTypes, KeysOfKinds
  <2>2. Change(k, next) /\ Send(k, DocumentOf(k)) /\ excused' \subseteq Keys
    BY <1>0, <1>1, <2>1 DEF SaveEntity
  <2>3. next.ver = row[k].ver + 1 /\ next.state = "live" /\ next.ver # 0
    BY <2>1
  <2> HIDE DEF next
  <2>4. next = [ver |-> next.ver, state |-> next.state]
    BY DEF next
  <2> QED BY <2>1, <2>2, <2>3, <2>4, ChangeKeepsStore
<1>2. ASSUME NEW k \in Entities, OpenMerge(k) PROVE StoreInv'
  <2> DEFINE next == [row[k] EXCEPT !.state = "merging"]
  <2>1. k \in Keys /\ row[k] \in Row /\ row[k].ver \in Nat
    BY StoreTypes, KeysOfKinds
  <2>2. Change(k, next) /\ Send(k, NoDoc) /\ excused' \subseteq Keys /\ k \notin Authors
    BY <1>0, <1>2, <2>1 DEF OpenMerge
  <2>3. next.ver = row[k].ver /\ next.state = "merging" /\ next = [ver |-> next.ver, state |-> next.state]
    BY <2>1 DEF Row
  <2>4. row[k].ver # 0
    BY <1>2, <2>1 DEF OpenMerge, StoreInv, RowsHold
  <2> HIDE DEF next
  <2> QED BY <2>1, <2>2, <2>3, <2>4, ChangeKeepsStore
<1>3. ASSUME NEW k \in Keys, Delete(k) PROVE StoreInv'
  <2> DEFINE next == [row[k] EXCEPT !.state = "gone"]
  <2>1. row[k] \in Row /\ row[k].ver \in Nat
    BY StoreTypes
  <2>2. Change(k, next) /\ Send(k, NoDoc) /\ excused' \subseteq Keys /\ k \notin Authors
    BY <1>0, <1>3, <2>1 DEF Delete
  <2>3. next.ver = row[k].ver /\ next.state = "gone" /\ next = [ver |-> next.ver, state |-> next.state]
    BY <2>1 DEF Row
  <2>4. row[k].ver # 0
    BY <1>3, <2>1 DEF Delete, StoreInv, RowsHold
  <2> HIDE DEF next
  <2> QED BY <2>1, <2>2, <2>3, <2>4, ChangeKeepsStore
<1>4. ASSUME NEW k \in Collections, NEW state \in {"live", "hidden"}, NEW renamed \in BOOLEAN,
             SaveCollection(k, state, renamed)
      PROVE  StoreInv'
  <2> DEFINE next == [ver |-> IF renamed THEN row[k].ver + 1 ELSE row[k].ver, state |-> state]
  <2>1. k \in Keys /\ row[k].ver \in Nat /\ k \notin Authors
    BY StoreTypes, KeysOfKinds, KeyAssumption DEF Entities
  <2>2. Change(k, next) /\ (UNCHANGED calls \/ Send(k, DocumentOf(k))) /\ excused' \subseteq Keys
    BY <1>0, <1>4, <2>1 DEF SaveCollection
  <2>3. row[k].ver = 0 => renamed
    BY <1>4, <2>1 DEF SaveCollection, StoreInv, RowsHold
  <2>4. next.ver \in {row[k].ver, row[k].ver + 1} /\ next.ver # 0 /\ next.state \in {"live", "hidden"}
    BY <2>1, <2>3
  <2> HIDE DEF next
  <2>5. next = [ver |-> next.ver, state |-> next.state]
    BY DEF next
  <2> QED BY <2>1, <2>2, <2>4, <2>5, ChangeKeepsStore
<1>5. ASSUME NEW k \in Groups, OpenGroup(k) PROVE StoreInv'
  <2> DEFINE next == [ver |-> 1, state |-> "open"]
  <2>1. k \in Keys /\ row[k].ver = 0 /\ k \notin Authors
    BY <1>5, StoreTypes, KeysOfKinds, KeyAssumption DEF OpenGroup, StoreInv, RowsHold
  <2>2. Change(k, next) /\ Send(k, DocumentOf(k)) /\ excused' \subseteq Keys
    BY <1>0, <1>5, <2>1 DEF OpenGroup
  <2>3. next.ver = row[k].ver + 1 /\ next.ver # 0 /\ next.state = "open"
    BY <2>1
  <2> HIDE DEF next
  <2>4. next = [ver |-> next.ver, state |-> next.state]
    BY DEF next
  <2> QED BY <2>1, <2>2, <2>3, <2>4, ChangeKeepsStore
<1> QED BY <1>1, <1>2, <1>3, <1>4, <1>5

\* A row keeps its version when its transaction ends.
RowKept(k) ==
  /\ row'[k].ver = row[k].ver
  /\ \/ row'[k].state = row[k].state
     \/ row[k].state \in {"open", "merging"} /\ row'[k].state \in {"live", "gone", "void"}

\* What else a step may do: rows keep their versions and go from one state to
\* another that is there; documents, calls and what was read stay of versions
\* there are.
LEMMA SameVersionsKeepStore ==
  ASSUME StoreInv, TypeOK', UNCHANGED writes,
         \A k \in Keys : RowKept(k),
         calls' \subseteq calls,
         \A k \in Keys : OfVersion(k, docs'[k]),
         \A p \in Processes, k \in Keys :
           job'[p].seen[k] <= row[k].ver /\ (k \in job'[p].todo => job'[p].seen[k] # 0)
  PROVE  StoreInv'
<1> USE DEF RowKept
<1>1. RowsHold'
  <2>1. \A k \in Authors : k \in Keys /\ row[k].state = "live"
    BY KeysOfKinds DEF StoreInv, RowsHold
  <2> QED BY <2>1 DEF StoreInv, RowsHold
<1>2. VersionsHold'
  <2>1. \A k \in Keys : OfVersion(k, docs[k])'
    BY DEF OfVersion
  <2>2. \A c \in calls' : OfVersion(c.key, c.doc)' /\ row'[c.key].state # "absent"
    BY StoreTypes DEF OfVersion, StoreInv, VersionsHold
  <2> QED BY <2>1, <2>2 DEF VersionsHold
<1> QED BY <1>1, <1>2 DEF StoreInv

LEMMA SameReadsKeepStore ==
  ASSUME StoreInv, TypeOK', UNCHANGED writes,
         \A k \in Keys : RowKept(k),
         calls' \subseteq calls,
         \A k \in Keys : OfVersion(k, docs'[k]),
         \A p \in Processes : SameReading(p)
  PROVE  StoreInv'
<1>1. \A p \in Processes, k \in Keys :
        job'[p].seen[k] <= row[k].ver /\ (k \in job'[p].todo => job'[p].seen[k] # 0)
  BY DEF StoreInv, VersionsHold, SameReading
<1> QED BY <1>1, SameVersionsKeepStore

\* Ends of transactions, what arrives or is lost, outages and crashes.
LEMMA RequestsKeepStore ==
  ASSUME StoreInv,
         \/ \E k \in Keys : Commit(k) \/ Rollback(k)
         \/ \E c \in calls : Deliver(c) \/ Lose(c)
         \/ ServerDown \/ ServerUp
         \/ \E p \in Processes : Crash(p)
  PROVE  StoreInv'
<1> USE DEF SameReading
<1>0. /\ TypeOK /\ VersionsHold
      /\ \A k \in Keys : row[k] \in Row /\ {k} \subseteq Keys
      /\ \A c \in calls : c.key \in Keys /\ c.doc \in Document \cup {NoDoc} /\ {c.key} \subseteq Keys
  BY StoreTypes DEF StoreInv, Call
<1>1. ASSUME NEW k \in Keys, NEW next \in {"live", "gone", "void"}, Close(k, next),
             excused' \subseteq Keys
      PROVE  StoreInv'
  <2>1. row' = [row EXCEPT ![k].state = next] /\ row' \in [Keys -> Row]
    BY <1>0, <1>1 DEF Close, TypeOK, Row, States
  <2>2. job' \in [Processes -> Job] /\ \A p \in Processes : SameReading(p)
    BY <1>0, <1>1, TouchHolds, TouchReads DEF Close
  <2>3. TypeOK'
    BY <1>0, <1>1, <2>1, <2>2 DEF TypeOK, Close
  <2>4. \A i \in Keys : RowKept(i)
    BY <1>0, <1>1, <2>1 DEF Close, TypeOK, Row, RowKept
  <2>5. UNCHANGED <<docs, calls, writes>>
    BY <1>1 DEF Close
  <2>6. \A i \in Keys : OfVersion(i, docs'[i])
    BY <1>0, <2>5 DEF VersionsHold
  <2> QED BY <2>2, <2>3, <2>4, <2>5, <2>6, SameReadsKeepStore
<1>2. ASSUME NEW k \in Keys, Commit(k) \/ Rollback(k) PROVE StoreInv'
  <2>1. excused' \subseteq Keys
    BY <1>0, <1>2 DEF Commit, Rollback, TypeOK
  <2> QED BY <1>1, <1>2, <2>1 DEF Commit, Rollback
<1>3. ASSUME NEW c \in calls, Deliver(c) PROVE StoreInv'
  <2>1. job' \in [Processes -> Job] /\ \A p \in Processes : SameReading(p)
    BY <1>0, <1>3, TouchHolds, TouchReads DEF Deliver
  <2>2. TypeOK'
    BY <1>0, <1>3, <2>1 DEF TypeOK, Deliver, IndexAfter
  <2>3. \A k \in Keys : OfVersion(k, docs'[k])
    BY <1>0, <1>3 DEF Deliver, VersionsHold, TypeOK
  <2>4. calls' \subseteq calls /\ UNCHANGED writes /\ \A k \in Keys : RowKept(k)
    BY <1>3 DEF Deliver, RowKept
  <2> QED BY <2>1, <2>2, <2>3, <2>4, SameReadsKeepStore
<1>4. ASSUME NEW c \in calls, Lose(c) PROVE StoreInv'
  <2>1. job' \in [Processes -> Job] /\ \A p \in Processes : SameReading(p)
    BY <1>0, <1>4, TouchHolds, TouchReads DEF Lose
  <2>2. TypeOK'
    BY <1>0, <1>4, <2>1 DEF TypeOK, Lose
  <2>3. \A k \in Keys : OfVersion(k, docs'[k])
    BY <1>0, <1>4 DEF Lose, VersionsHold
  <2>4. calls' \subseteq calls /\ UNCHANGED writes /\ \A k \in Keys : RowKept(k)
    BY <1>4 DEF Lose, RowKept
  <2> QED BY <2>1, <2>2, <2>3, <2>4, SameReadsKeepStore
<1>5. ASSUME ServerDown \/ ServerUp PROVE StoreInv'
  <2>1. /\ UNCHANGED <<row, docs, index, calls, job, excused, writes, reindexings>>
        /\ up' \in BOOLEAN /\ faults' \in 0..MaxFaults
    <3>1. CASE ServerDown
      <4>1. faults' \in 0..MaxFaults
        BY <1>0, <3>1, BoundAssumption DEF TypeOK, ServerDown, Fault
      <4> QED BY <3>1, <4>1 DEF ServerDown, Fault
    <3>2. CASE ServerUp
      BY <1>0, <3>2 DEF TypeOK, ServerUp
    <3> QED BY <1>5, <3>1, <3>2
  <2>2. TypeOK'
    BY <1>0, <2>1 DEF TypeOK
  <2>3. \A k \in Keys : RowKept(k) /\ OfVersion(k, docs'[k])
    BY <1>0, <2>1 DEF RowKept, VersionsHold
  <2>4. \A p \in Processes : SameReading(p)
    BY <2>1
  <2> QED BY <2>1, <2>2, <2>3, <2>4, SameReadsKeepStore
<1>6. ASSUME NEW p \in Processes, Crash(p) PROVE StoreInv'
  <2> DEFINE lost == IF p = Site THEN {c.key : c \in calls} ELSE {}
             cut == {k \in Keys : p = Site /\ row[k].state \in {"open", "merging"}}
  <2>1. lost \cup cut \in SUBSET Keys
    BY <1>0
  <2>2. /\ job' = [Touch(lost \cup cut) EXCEPT ![p] = Boot]
        /\ calls' = IF p = Site THEN {} ELSE calls
        /\ row' = [k \in Keys |-> IF k \notin cut THEN row[k] ELSE
             [row[k] EXCEPT !.state = IF @ = "open" THEN "void" ELSE "live"]]
        /\ excused' = IF Running(p) THEN Keys ELSE excused \cup lost \cup cut
        /\ UNCHANGED <<up, docs, index, writes, reindexings>> /\ faults < MaxFaults /\ faults' = faults + 1
    BY <1>6 DEF Crash, Fault
  <2>3. \A k \in cut : row[k].state \in {"open", "merging"}
    OBVIOUS
  <2> HIDE DEF lost, cut
  <2>4. Touch(lost \cup cut) \in [Processes -> Job]
    BY <1>0, <2>1, TouchHolds
  <2>5. job' \in [Processes -> Job]
    BY <2>2, <2>4, BootType
  <2>6. row' \in [Keys -> Row] /\ \A k \in Keys : RowKept(k)
    <3>1. \A k \in Keys : row'[k] = IF k \notin cut THEN row[k] ELSE
             [row[k] EXCEPT !.state = IF @ = "open" THEN "void" ELSE "live"]
      BY <2>2
    <3>2. \A k \in Keys : row'[k] \in Row /\ RowKept(k)
      <4> TAKE k \in Keys
      <4>1. row[k] \in Row /\ row[k] = [ver |-> row[k].ver, state |-> row[k].state]
        BY <1>0 DEF Row
      <4>2. CASE k \notin cut
        BY <3>1, <4>1, <4>2 DEF RowKept
      <4>3. CASE k \in cut
        <5>1. row'[k] = [ver |-> row[k].ver, state |-> row'[k].state]
              /\ row'[k].state \in {"void", "live"} /\ row[k].state \in {"open", "merging"}
          BY <2>3, <3>1, <4>1, <4>3
        <5> QED BY <4>1, <5>1 DEF Row, States, RowKept
      <4> QED BY <4>2, <4>3
    <3> QED BY <2>2, <3>2
  <2>7. TypeOK'
    <3>1. faults' \in 0..MaxFaults
      BY <1>0, <2>2, BoundAssumption DEF TypeOK
    <3>2. excused' \subseteq Keys
      BY <1>0, <2>1, <2>2 DEF TypeOK
    <3> QED BY <1>0, <2>2, <2>5, <2>6, <3>1, <3>2 DEF TypeOK
  <2>8. \A q \in Processes, k \in Keys :
          job'[q].seen[k] <= row[k].ver /\ (k \in job'[q].todo => job'[q].seen[k] # 0)
    <3>1. \A k \in Keys : Boot.seen[k] = 0 /\ Boot.todo = {}
      BY DEF Boot
    <3>2. \A q \in Processes \ {p} : job'[q].seen = job[q].seen /\ job'[q].todo = job[q].todo
      <4>1. \A q \in Processes \ {p} : job'[q] = Touch(lost \cup cut)[q]
        BY <2>2, <2>4
      <4>2. \A q \in Processes : job[q] \in Job
        BY <1>0 DEF TypeOK
      <4>3. \A q \in Processes \ {p} : job'[q] =
              [job[q] EXCEPT !.touched = IF Running(q) THEN @ \cup (lost \cup cut) ELSE @]
        BY <1>0, <2>1, <4>1, TouchHolds
      <4> QED BY <4>2, <4>3 DEF Job
    <3>3. job'[p] = Boot
      BY <2>2, <2>4
    <3> QED BY <1>0, <3>1, <3>2, <3>3, StoreTypes DEF VersionsHold, Row, Version
  <2>9. calls' \subseteq calls /\ UNCHANGED writes /\ \A k \in Keys : OfVersion(k, docs'[k])
    BY <1>0, <2>2 DEF VersionsHold
  <2> QED BY <2>6, <2>7, <2>8, <2>9, SameVersionsKeepStore
<1> QED BY <1>2, <1>3, <1>4, <1>5, <1>6

\* The steps of the regenerations.
LEMMA RegenerationsKeepStore ==
  ASSUME StoreInv,
         \/ \E scope \in Scopes : Reindex(scope)
         \/ \E p \in Processes : Regenerate(p) \/ BulkProgress(p) \/ BulkUnanswered(p)
  PROVE  StoreInv'
<1>0. /\ TypeOK /\ VersionsHold
      /\ \A p \in Processes : job[p] \in Job
      /\ \A p \in Processes, k \in Keys :
           job[p].seen[k] \in Nat /\ job[p].seen[k] <= row[k].ver
           /\ (k \in job[p].todo => job[p].seen[k] # 0)
      /\ \A k \in Keys : OfVersion(k, docs[k]) /\ row[k].ver \in Nat
  BY StoreTypes DEF StoreInv, VersionsHold
\* Steps of one process that keep the rows, what is on its way and the documents' versions.
<1>1. ASSUME NEW p \in Processes, NEW next \in Job, Step(p, next),
             docs' \in [Keys -> Document \cup {NoDoc}], index' \in {"none", "made", "implicit"},
             excused' \subseteq Keys, reindexings' = reindexings,
             \A k \in Keys : OfVersion(k, docs'[k]),
             \A k \in Keys : next.seen[k] <= row[k].ver /\ (k \in next.todo => next.seen[k] # 0)
      PROVE  StoreInv'
  <2>1. job' = [job EXCEPT ![p] = next] /\ UNCHANGED <<row, up, calls, writes, faults>>
    BY <1>1 DEF Step
  <2>2. job' \in [Processes -> Job] /\ job'[p] = next /\ \A q \in Processes \ {p} : job'[q] = job[q]
    BY <1>0, <2>1 DEF TypeOK
  <2>3. TypeOK'
    BY <1>0, <1>1, <2>1, <2>2 DEF TypeOK
  <2>4. \A q \in Processes, k \in Keys :
          job'[q].seen[k] <= row[k].ver /\ (k \in job'[q].todo => job'[q].seen[k] # 0)
    BY <1>0, <1>1, <2>2
  <2>5. calls' \subseteq calls /\ UNCHANGED writes /\ \A k \in Keys : RowKept(k)
    BY <2>1 DEF RowKept
  <2> QED BY <1>1, <2>3, <2>4, <2>5, SameVersionsKeepStore
\* Those of one process that also leave the index as it is.
<1>2. ASSUME NEW p \in Processes, NEW next \in Job, Step(p, next),
             index' \in {"none", "made", "implicit"}, excused' \subseteq Keys,
             UNCHANGED <<docs, reindexings>>,
             \A k \in Keys : next.seen[k] <= row[k].ver /\ (k \in next.todo => next.seen[k] # 0)
      PROVE  StoreInv'
  <2>1. docs' \in [Keys -> Document \cup {NoDoc}] /\ \A k \in Keys : OfVersion(k, docs'[k])
    BY <1>0, <1>2 DEF TypeOK
  <2> QED BY <1>1, <1>2, <2>1
<1>3. ASSUME NEW p \in Processes, NEW scope \in Scopes, Start(p, scope),
             reindexings' \in 0..MaxReindex
      PROVE  StoreInv'
  <2> DEFINE alone == Others(p) = {}
             asked == {c.key : c \in calls}
             first == [Boot EXCEPT !.pc = "check", !.scope = scope, !.alone = alone, !.touched = asked]
             rest(q) == [job[q] EXCEPT !.alone = @ /\ ~Running(q)]
  <2>1. job' = [q \in Processes |-> IF q = p THEN first ELSE rest(q)]
        /\ UNCHANGED <<row, docs, index, up, calls, excused, writes, faults>>
    BY <1>3 DEF Start
  <2>2. first \in Job /\ first.seen = [k \in Keys |-> 0] /\ first.todo = {}
    <3>1. asked \subseteq Keys
      BY StoreTypes
    <3>2. \A b \in BOOLEAN, t \in SUBSET Keys :
            /\ [Boot EXCEPT !.pc = "check", !.scope = scope, !.alone = b, !.touched = t] \in Job
            /\ [Boot EXCEPT !.pc = "check", !.scope = scope, !.alone = b, !.touched = t].seen = Boot.seen
            /\ [Boot EXCEPT !.pc = "check", !.scope = scope, !.alone = b, !.touched = t].todo = Boot.todo
      BY BootType DEF Job, Pcs
    <3>3. alone \in BOOLEAN
      OBVIOUS
    <3> HIDE DEF alone, asked
    <3>4. first \in Job /\ first.seen = Boot.seen /\ first.todo = Boot.todo
      <4> DEFINE Made(b, t) == [Boot EXCEPT !.pc = "check", !.scope = scope, !.alone = b, !.touched = t]
      <4>1. \A b \in BOOLEAN, t \in SUBSET Keys :
              Made(b, t) \in Job /\ Made(b, t).seen = Boot.seen /\ Made(b, t).todo = Boot.todo
        BY <3>2
      <4>2. first = Made(alone, asked)
        OBVIOUS
      <4> HIDE DEF Made, first
      <4> QED BY <3>1, <3>3, <4>1, <4>2, Zenon
    <3> QED BY <3>4 DEF Boot
  <2>3. \A q \in Processes : rest(q) \in Job /\ rest(q).seen = job[q].seen /\ rest(q).todo = job[q].todo
    BY <1>0 DEF Job
  <2> HIDE DEF first, rest
  <2>4. job' \in [Processes -> Job]
    BY <2>1, <2>2, <2>3
  <2>5. TypeOK'
    BY <1>0, <1>3, <2>1, <2>4 DEF TypeOK
  <2>6. \A q \in Processes, k \in Keys :
          job'[q].seen[k] <= row[k].ver /\ (k \in job'[q].todo => job'[q].seen[k] # 0)
    <3>1. \A q \in Processes : job'[q] = IF q = p THEN first ELSE rest(q)
      BY <2>1
    <3> QED BY <1>0, <2>2, <2>3, <3>1
  <2>7. calls' \subseteq calls /\ UNCHANGED writes /\ \A k \in Keys : RowKept(k) /\ OfVersion(k, docs'[k])
    BY <1>0, <2>1 DEF RowKept
  <2> QED BY <2>5, <2>6, <2>7, SameVersionsKeepStore
<1>4. ASSUME NEW scope \in Scopes, Reindex(scope) PROVE StoreInv'
  <2>1. reindexings' \in 0..MaxReindex
    BY <1>0, <1>4, BoundAssumption DEF Reindex, TypeOK
  <2> QED BY <1>3, <1>4, <2>1, SiteAssumption DEF Reindex
<1>5. ASSUME NEW p \in Processes, NEW pc \in Pcs, Step(p, [job[p] EXCEPT !.pc = pc]),
             index' \in {"none", "made", "implicit"}, excused' \subseteq Keys,
             UNCHANGED <<docs, reindexings>>
      PROVE  StoreInv'
  <2> DEFINE next == [job[p] EXCEPT !.pc = pc]
  <2>1. next \in Job /\ next.seen = job[p].seen /\ next.todo = job[p].todo
    BY <1>0 DEF Job
  <2> HIDE DEF next
  <2>2. Step(p, next)
    BY <1>5 DEF next
  <2> QED BY <1>0, <1>2, <1>5, <2>1, <2>2
<1>6. ASSUME NEW p \in Processes, Step(p, Reading(job[p])),
             index' \in {"none", "made", "implicit"}, UNCHANGED <<docs, excused, reindexings>>
      PROVE  StoreInv'
  <2> DEFINE next == Reading(job[p])
  <2>1. \A scope \in Scopes : EntityKinds(scope) \subseteq Kinds
    BY DEF Scopes, EntityKinds, Kinds
  <2>2. next \in Job /\ next.seen = job[p].seen /\ next.todo = job[p].todo
    BY <1>0, <2>1 DEF Job, Reading, Pcs
  <2> HIDE DEF next
  <2>3. Step(p, next)
    BY <1>6 DEF next
  <2> QED BY <1>0, <1>2, <1>6, <2>2, <2>3 DEF TypeOK
<1>7. ASSUME NEW p \in Processes, Fail(p) PROVE StoreInv'
  BY <1>0, <1>5, <1>7 DEF Fail, Pcs, TypeOK
<1>8. ASSUME NEW p \in Processes, StartProcess(p) PROVE StoreInv'
  <2>1. CASE up /\ index = "none"
    <3>1. reindexings' \in 0..MaxReindex /\ "allEntities" \in Scopes
      BY <1>0, <1>8 DEF StartProcess, TypeOK, Scopes
    <3> QED BY <1>3, <1>8, <2>1, <3>1 DEF StartProcess
  <2>2. CASE ~(up /\ index = "none")
    BY <1>0, <1>5, <1>8, <2>2 DEF StartProcess, TypeOK, Pcs
  <2> QED BY <2>1, <2>2
<1>9. ASSUME NEW p \in Processes, Check(p) PROVE StoreInv'
  <2>1. CASE ~up /\ Fail(p)
    BY <1>7, <2>1
  <2>2. CASE up /\ Step(p, Reading(job[p])) /\ UNCHANGED <<docs, index, excused, reindexings>>
    BY <1>0, <1>6, <2>2 DEF TypeOK
  <2>3. CASE /\ \/ Step(p, [job[p] EXCEPT !.pc = "create"])
                \/ Step(p, [job[p] EXCEPT !.pc = "delete"])
             /\ UNCHANGED <<docs, index, excused, reindexings>>
    BY <1>0, <1>5, <2>3 DEF TypeOK, Pcs
  <2> QED BY <1>9, <2>1, <2>2, <2>3 DEF Check
<1>10. ASSUME NEW p \in Processes, DeleteIndex(p) PROVE StoreInv'
  <2>1. CASE Fail(p)
    BY <1>7, <2>1
  <2>2. CASE ~Fail(p)
    <3> DEFINE next == [job[p] EXCEPT !.pc = "create"]
    <3>1. next \in Job /\ next.seen = job[p].seen /\ next.todo = job[p].todo
      BY <1>0 DEF Job, Pcs
    <3>2. /\ Step(p, next) /\ index' = "none" /\ docs' = [k \in Keys |-> NoDoc]
          /\ excused' \subseteq Keys /\ reindexings' = reindexings
      BY <1>0, <1>10, <2>2 DEF DeleteIndex, TypeOK
    <3>3. docs' \in [Keys -> Document \cup {NoDoc}] /\ \A k \in Keys : OfVersion(k, docs'[k])
      BY <3>2 DEF OfVersion
    <3> HIDE DEF next
    <3> QED BY <1>0, <1>1, <3>1, <3>2, <3>3
  <2> QED BY <2>1, <2>2
<1>11. ASSUME NEW p \in Processes, CreateIndex(p) PROVE StoreInv'
  <2>1. CASE Fail(p)
    BY <1>7, <2>1
  <2>2. CASE ~Fail(p)
    BY <1>6, <1>11, <2>2 DEF CreateIndex
  <2> QED BY <2>1, <2>2
<1>12. ASSUME NEW p \in Processes, NEW kind \in Kinds, ReadRows(p, kind) PROVE StoreInv'
  <2> DEFINE j == job[p]
             seen == [k \in Keys |->
                        IF k \in KeysOf(kind) /\ Listed(k) THEN row[k].ver ELSE j.seen[k]]
             last == j.unread = {kind}
             next == [j EXCEPT !.seen = seen, !.unread = @ \ {kind},
                          !.pc = IF last THEN "bulk" ELSE @,
                          !.todo = IF last THEN {k \in Keys : seen[k] # 0} ELSE {}]
  <2>1. Step(p, next) /\ UNCHANGED <<docs, index, excused, reindexings>>
    BY <1>12 DEF ReadRows
  <2>2. seen \in [Keys -> Version] /\ \A k \in Keys : seen[k] <= row[k].ver
    <3>1. \A k \in Keys : row[k].ver \in Version /\ j.seen[k] \in Version
      BY <1>0 DEF TypeOK, Row, Job
    <3>2. \A k \in Keys : seen[k] \in Version /\ seen[k] <= row[k].ver
      BY <1>0, <3>1
    <3> QED BY <3>2
  <2> HIDE DEF seen
  <2>3. next \in Job
    BY <1>0, <2>2 DEF Job, Pcs
  <2>4. next.seen = seen /\ next.todo \subseteq {k \in Keys : seen[k] # 0}
    BY <1>0 DEF Job
  <2> HIDE DEF next
  <2> QED BY <1>0, <1>2, <2>1, <2>2, <2>3, <2>4 DEF TypeOK
<1>13. ASSUME NEW p \in Processes, ReadCollections(p) PROVE StoreInv'
  <2> DEFINE public == {k \in Collections : Listed(k)}
             seen == [k \in Keys |-> IF k \in public THEN row[k].ver ELSE job[p].seen[k]]
             next == [job[p] EXCEPT !.pc = "bulkCollections", !.todo = public, !.seen = seen]
  <2>1. Step(p, next) /\ UNCHANGED <<docs, index, excused, reindexings>>
    BY <1>13 DEF ReadCollections
  <2>2. seen \in [Keys -> Version] /\ \A k \in Keys : seen[k] <= row[k].ver /\ (k \in public => seen[k] # 0)
    <3>1. \A k \in Keys : row[k].ver \in Version /\ job[p].seen[k] \in Version
                          /\ (Listed(k) => row[k].ver # 0)
      BY <1>0 DEF TypeOK, Row, Job, Listed, StoreInv, RowsHold
    <3>2. \A k \in Keys : seen[k] = IF k \in public THEN row[k].ver ELSE job[p].seen[k]
      OBVIOUS
    <3>3. \A k \in Keys : seen[k] \in Version
      BY <3>1, <3>2
    <3>4. \A k \in Keys : seen[k] <= row[k].ver /\ (k \in public => seen[k] # 0)
      BY <1>0, <3>1, <3>2
    <3> QED BY <3>3, <3>4
  <2>3. public \subseteq Keys
    BY KeysOfKinds
  <2> HIDE DEF seen, public
  <2>4. next \in Job /\ next.seen = seen /\ next.todo = public
    BY <1>0, <2>2, <2>3 DEF Job, Pcs
  <2> HIDE DEF next
  <2> QED BY <1>0, <1>2, <2>1, <2>2, <2>4 DEF TypeOK
<1>14. ASSUME NEW p \in Processes, BulkDone(p) PROVE StoreInv'
  <2> DEFINE pc == IF job[p].pc = "bulk" /\ job[p].scope = "allEntities" THEN "readCollections" ELSE "refresh"
  <2>1. Step(p, [job[p] EXCEPT !.pc = pc]) /\ UNCHANGED <<docs, index, excused, reindexings>>
    BY <1>14 DEF BulkDone
  <2>2. pc \in Pcs
    BY DEF Pcs
  <2> HIDE DEF pc
  <2> QED BY <1>0, <1>5, <2>1, <2>2 DEF TypeOK
<1>15. ASSUME NEW p \in Processes, Refresh(p) PROVE StoreInv'
  <2> DEFINE next == [Boot EXCEPT !.pc = "done"]
  <2>1. next \in Job /\ next.seen = Boot.seen /\ next.todo = {}
    BY BootType DEF Job, Pcs, Boot
  <2>2. \A k \in Keys : Boot.seen[k] = 0 /\ 0 <= row[k].ver
    BY <1>0 DEF Boot
  <2>3. Step(p, next) /\ UNCHANGED <<docs, index, reindexings>>
    BY <1>15 DEF Refresh
  <2>4. excused' \subseteq Keys
    BY <1>0, <1>15 DEF Refresh, TypeOK, Job
  <2> HIDE DEF next
  <2> QED BY <1>0, <1>2, <2>1, <2>2, <2>3, <2>4 DEF TypeOK
<1>16. ASSUME NEW p \in Processes, BulkProgress(p) \/ BulkUnanswered(p) PROVE StoreInv'
  <2>1. PICK accepted \in SUBSET job[p].todo, refused \in SUBSET job[p].todo, answered \in BOOLEAN :
          Bulk(p, accepted, refused, answered)
    BY <1>16 DEF BulkProgress, BulkUnanswered
  <2> DEFINE next == IF answered
                     THEN [job[p] EXCEPT !.todo = Repeat(@, accepted, refused),
                                         !.touched = @ \cup refused]
                     ELSE job[p]
  <2>2. /\ Step(p, next) /\ UNCHANGED <<excused, reindexings>> /\ index' = IndexAfter(accepted)
        /\ docs' = [k \in Keys |-> IF k \in accepted THEN Rebuilt(p, k) ELSE docs[k]]
    BY <2>1 DEF Bulk
  <2>3. accepted \subseteq Keys /\ refused \subseteq Keys
    BY <1>0 DEF Job
  <2>4. next \in Job /\ next.seen = job[p].seen /\ next.todo \subseteq job[p].todo
    BY <1>0, <2>3 DEF Job, Repeat
  <2>5. \A k \in accepted : Rebuilt(p, k) \in Document /\ OfVersion(k, Rebuilt(p, k))
    <3>1. TAKE k \in accepted
    <3>2. k \in Keys /\ job[p].seen[k] \in 1..row[k].ver
      BY <1>0, <2>3
    <3>3. \A i \in Keys : job[p].seen[i] \in Version
      BY <1>0 DEF Job
    <3>4. k \in Works => job[p].seen[AuthorOf[k]] \in Version
      BY <3>3, KeysOfKinds
    <3>5. 0 \in Version
      BY BoundAssumption DEF Version
    <3>6. Rebuilt(p, k) \in Document
      BY <3>2, <3>3, <3>4, <3>5 DEF Rebuilt, Document
    <3>7. Rebuilt(p, k).ver = job[p].seen[k]
      BY DEF Rebuilt
    <3> QED BY <3>2, <3>6, <3>7 DEF OfVersion
  <2> HIDE DEF next
  <2>6. docs' \in [Keys -> Document \cup {NoDoc}] /\ \A k \in Keys : OfVersion(k, docs'[k])
    <3>1. \A k \in Keys : docs'[k] = IF k \in accepted THEN Rebuilt(p, k) ELSE docs[k]
      BY <2>2
    <3> QED BY <1>0, <2>2, <2>5, <3>1 DEF TypeOK
  <2>7. index' \in {"none", "made", "implicit"}
    BY <1>0, <2>2 DEF IndexAfter, TypeOK
  <2> QED BY <1>0, <1>1, <2>2, <2>4, <2>6, <2>7 DEF TypeOK
<1> QED BY <1>4, <1>8, <1>9, <1>10, <1>11, <1>12, <1>13, <1>14, <1>15, <1>16 DEF Regenerate

LEMMA StepStoreInv == StoreInv /\ [Next]_vars => StoreInv'
<1> SUFFICES ASSUME StoreInv, [Next]_vars PROVE StoreInv'
  OBVIOUS
<1>1. CASE UNCHANGED vars
  <2> USE <1>1 DEF vars
  <2>1. TypeOK'
    BY DEF StoreInv, TypeOK
  <2>2. RowsHold'
    BY DEF StoreInv, RowsHold
  <2>3. VersionsHold'
    BY DEF StoreInv, VersionsHold, OfVersion
  <2> QED BY <2>1, <2>2, <2>3 DEF StoreInv
<1>2. CASE Next
  BY <1>2, WritesKeepStore, RequestsKeepStore, RegenerationsKeepStore DEF Next
<1> QED BY <1>1, <1>2

LEMMA AlwaysStoreInv == Spec => []StoreInv
BY InitStoreInv, StepStoreInv, PTL DEF Spec

\* The variables keep their types whatever is saved, lost, crashes or is
\* regenerated: in particular no version and no document is made up.
THEOREM TypesOfIndex == Spec => []TypeOK
<1>1. StoreInv => TypeOK
  BY DEF StoreInv
<1> QED BY <1>1, AlwaysStoreInv, PTL

----------------------------------------------------------------------------
(* The index is a copy.                                                    *)

SameVersions == \A k \in Keys : row'[k].ver = row[k].ver

LEMMA CopyStutters ==
  ASSUME SameVersions, UNCHANGED docs
  PROVE  UNCHANGED Copy!copyVars
BY DEF SameVersions, Copy!copyVars

LEMMA CopyWrites ==
  ASSUME NEW k \in Keys, row'[k].ver = row[k].ver + 1,
         \A i \in Keys \ {k} : row'[i].ver = row[i].ver, UNCHANGED docs
  PROVE  Copy!Write(k)
BY DEF Copy!Write

LEMMA CopyIndexes ==
  ASSUME NEW S \in SUBSET Keys, SameVersions,
         \A k \in S : docs'[k] \in Document /\ OfVersion(k, docs'[k]),
         \A k \in Keys \ S : docs'[k] = docs[k]
  PROVE  Copy!Index(S)
<1>1. \A k \in S : docs'[k] # NoDoc /\ docs'[k].ver \in 1..row[k].ver
  BY SentinelAssumption DEF OfVersion
<1>2. [k \in Keys |-> row'[k].ver] = [k \in Keys |-> row[k].ver]
  BY DEF SameVersions
<1> QED BY <1>1, <1>2 DEF Copy!Index

\* A step of the code about rows writes the next version of one, or none.
LEMMA ChangesImplement ==
  ASSUME StoreInv, NEW k \in Keys, NEW next, Change(k, next),
         next.ver \in {row[k].ver, row[k].ver + 1}
  PROVE  Copy!Next \/ UNCHANGED Copy!copyVars
<1>1. row'[k] = next /\ (\A i \in Keys \ {k} : row'[i] = row[i]) /\ UNCHANGED docs
  BY DEF StoreInv, TypeOK, Change
<1>2. CASE next.ver = row[k].ver
  BY <1>1, <1>2, CopyStutters DEF SameVersions
<1>3. CASE next.ver = row[k].ver + 1
  <2>1. Copy!Write(k)
    BY <1>1, <1>3, CopyWrites
  <2> QED BY <2>1 DEF Copy!Next
<1> QED BY <1>2, <1>3

LEMMA WritesImplement ==
  ASSUME StoreInv,
         \/ \E k \in Entities : SaveEntity(k) \/ OpenMerge(k)
         \/ \E k \in Keys : Delete(k)
         \/ \E k \in Collections, state \in {"live", "hidden"}, renamed \in BOOLEAN :
              SaveCollection(k, state, renamed)
         \/ \E k \in Groups : OpenGroup(k)
  PROVE  Copy!Next \/ UNCHANGED Copy!copyVars
<1> DEFINE Writes(k, next) ==
             k \in Keys /\ Change(k, next) /\ next.ver \in {row[k].ver, row[k].ver + 1}
<1>0. \A k \in Keys : row[k] \in Row /\ row[k].ver \in Nat
  BY StoreTypes
<1>1. ASSUME NEW k \in Entities, SaveEntity(k) PROVE \E next : Writes(k, next)
  <2>1. Writes(k, [ver |-> row[k].ver + 1, state |-> "live"])
    BY <1>1, KeysOfKinds DEF SaveEntity
  <2> QED BY <2>1
<1>2. ASSUME NEW k \in Entities, OpenMerge(k) PROVE \E next : Writes(k, next)
  <2>1. k \in Keys /\ row[k] \in Row
    BY <1>0, KeysOfKinds
  <2>2. Writes(k, [row[k] EXCEPT !.state = "merging"])
    BY <1>2, <2>1 DEF OpenMerge, Row
  <2> QED BY <2>2
<1>3. ASSUME NEW k \in Keys, Delete(k) PROVE \E next : Writes(k, next)
  <2>1. Writes(k, [row[k] EXCEPT !.state = "gone"])
    BY <1>0, <1>3 DEF Delete, Row
  <2> QED BY <2>1
<1>4. ASSUME NEW k \in Collections, NEW state \in {"live", "hidden"}, NEW renamed \in BOOLEAN,
             SaveCollection(k, state, renamed)
      PROVE  \E next : Writes(k, next)
  <2>1. Writes(k, [ver |-> IF renamed THEN row[k].ver + 1 ELSE row[k].ver, state |-> state])
    BY <1>4, KeysOfKinds DEF SaveCollection
  <2> QED BY <2>1
<1>5. ASSUME NEW k \in Groups, OpenGroup(k) PROVE \E next : Writes(k, next)
  <2>1. row[k].ver = 0 /\ k \in Keys
    BY <1>5, KeysOfKinds DEF OpenGroup, StoreInv, RowsHold
  <2>2. Writes(k, [ver |-> 1, state |-> "open"])
    BY <1>5, <2>1 DEF OpenGroup
  <2> QED BY <2>2
<1>6. \E k, next : Writes(k, next)
  BY <1>1, <1>2, <1>3, <1>4, <1>5
<1> QED BY <1>6, ChangesImplement

\* A step that keeps rows' versions indexes some keys, removes one, or clears
\* the index.
LEMMA DeliverImplements ==
  ASSUME StoreInv, NEW c \in calls, Deliver(c)
  PROVE  Copy!Next
<1>1. /\ c.key \in Keys /\ c.doc \in Document \cup {NoDoc} /\ OfVersion(c.key, c.doc)
      /\ docs' = [docs EXCEPT ![c.key] = c.doc] /\ docs \in [Keys -> Document \cup {NoDoc}]
      /\ SameVersions
  BY StoreTypes DEF Call, Deliver, StoreInv, VersionsHold, TypeOK, SameVersions
<1>2. docs'[c.key] = c.doc /\ \A k \in Keys \ {c.key} : docs'[k] = docs[k]
  BY <1>1
<1>3. CASE c.doc = NoDoc
  <2>1. Copy!Remove(c.key)
    BY <1>1, <1>2, <1>3 DEF Copy!Remove, SameVersions
  <2> QED BY <1>1, <2>1 DEF Copy!Next
<1>4. CASE c.doc # NoDoc
  <2>1. {c.key} \in SUBSET Keys
    BY <1>1
  <2>2. Copy!Index({c.key})
    BY <1>1, <1>2, <1>4, <2>1, CopyIndexes
  <2> QED BY <2>1, <2>2 DEF Copy!Next
<1> QED BY <1>3, <1>4

LEMMA BulkImplements ==
  ASSUME StoreInv, NEW p \in Processes, BulkProgress(p) \/ BulkUnanswered(p)
  PROVE  Copy!Next
<1>1. PICK accepted \in SUBSET job[p].todo, refused \in SUBSET job[p].todo, answered \in BOOLEAN :
        Bulk(p, accepted, refused, answered)
  BY DEF BulkProgress, BulkUnanswered
<1>2. /\ UNCHANGED row /\ accepted \in SUBSET Keys
      /\ docs' = [k \in Keys |-> IF k \in accepted THEN Rebuilt(p, k) ELSE docs[k]]
  BY <1>1, StoreTypes DEF Bulk, Step, Job
<1>3. \A k \in accepted : docs'[k] = Rebuilt(p, k) /\ job[p].seen[k] \in 1..row[k].ver
  <2>1. \A k \in accepted : job[p].seen[k] \in Nat /\ row[k].ver \in Nat
          /\ job[p].seen[k] <= row[k].ver /\ job[p].seen[k] # 0
    BY <1>2, StoreTypes DEF StoreInv, VersionsHold
  <2> QED BY <1>2, <2>1
<1>4. docs' \in [Keys -> Document \cup {NoDoc}]
  <2>1. StoreInv'
    BY RegenerationsKeepStore
  <2> QED BY <2>1 DEF StoreInv, TypeOK
<1>5. \A k \in accepted : Rebuilt(p, k).ver = job[p].seen[k]
  BY DEF Rebuilt
<1>6. \A k \in accepted : docs'[k] \in Document /\ OfVersion(k, docs'[k])
  <2>1. \A k \in accepted : Rebuilt(p, k) \in Document
    <3>1. \A i \in Keys : job[p].seen[i] \in Version
      BY StoreTypes DEF Job
    <3>2. \A k \in Works : job[p].seen[AuthorOf[k]] \in Version
      BY <3>1, KeysOfKinds
    <3>3. 0 \in Version
      BY BoundAssumption DEF Version
    <3> QED BY <1>2, <3>1, <3>2, <3>3 DEF Rebuilt, Document
  <2> QED BY <1>3, <1>5, <2>1 DEF OfVersion
<1>7. Copy!Index(accepted)
  BY <1>2, <1>6, CopyIndexes DEF SameVersions
<1> QED BY <1>2, <1>7 DEF Copy!Next

LEMMA RequestsImplement ==
  ASSUME StoreInv,
         \/ \E k \in Keys : Commit(k) \/ Rollback(k)
         \/ \E c \in calls : Lose(c)
         \/ ServerDown \/ ServerUp
         \/ \E p \in Processes : Crash(p)
  PROVE  UNCHANGED Copy!copyVars
<1>0. row \in [Keys -> Row]
  BY DEF StoreInv, TypeOK
<1>1. CASE \E k \in Keys : Commit(k) \/ Rollback(k)
  BY <1>0, <1>1, CopyStutters DEF Commit, Rollback, Close, SameVersions, Row
<1>2. CASE (\E c \in calls : Lose(c)) \/ ServerDown \/ ServerUp
  BY <1>2, CopyStutters DEF Lose, ServerDown, ServerUp, Fault, SameVersions
<1>3. CASE \E p \in Processes : Crash(p)
  BY <1>0, <1>3, CopyStutters DEF Crash, Fault, SameVersions, Row
<1> QED BY <1>1, <1>2, <1>3

LEMMA RegenerationsImplement ==
  ASSUME StoreInv,
         \/ \E scope \in Scopes : Reindex(scope)
         \/ \E p \in Processes : Regenerate(p)
  PROVE  Copy!Next \/ UNCHANGED Copy!copyVars
<1>1. UNCHANGED row
  BY DEF Reindex, Regenerate, Start, StartProcess, Check, DeleteIndex, CreateIndex, ReadRows,
         ReadCollections, BulkDone, Refresh, Step, Fail
<1>2. UNCHANGED docs \/ docs' = [k \in Keys |-> NoDoc]
  BY DEF Reindex, Regenerate, Start, StartProcess, Check, DeleteIndex, CreateIndex, ReadRows,
         ReadCollections, BulkDone, Refresh, Fail
<1>3. CASE docs' = [k \in Keys |-> NoDoc]
  BY <1>1, <1>3 DEF Copy!Next, Copy!Clear
<1> QED BY <1>1, <1>2, <1>3, CopyStutters DEF SameVersions

\* Whatever is lost, overtaken or regenerated, the index only ever holds what
\* some version of a row said, and the rows are never read from it: the code
\* implements SearchCopy.
THEOREM IndexIsCopy == Spec => CopyImplemented
<1>1. Init => Copy!Init
  <2>1. Init => StoreInv
    BY InitStoreInv
  <2>2. Init => \A k \in Keys : docs[k] = NoDoc
    BY DEF Init
  <2>3. StoreInv => \A k \in Keys : row[k].ver \in Nat
    BY StoreTypes
  <2> QED BY <2>1, <2>2, <2>3 DEF Copy!Init
<1>2. StoreInv /\ [Next]_vars => [Copy!Next]_(Copy!copyVars)
  <2> SUFFICES ASSUME StoreInv, [Next]_vars
               PROVE  Copy!Next \/ UNCHANGED Copy!copyVars
    OBVIOUS
  <2>1. CASE UNCHANGED vars
    BY <2>1 DEF vars, Copy!copyVars
  <2>2. CASE Next
    BY <2>2, WritesImplement, DeliverImplements, RequestsImplement, RegenerationsImplement,
       BulkImplements DEF Next
  <2> QED BY <2>1, <2>2
<1> QED BY <1>1, <1>2, AlwaysStoreInv, PTL DEF Spec, CopyImplemented, Copy!Spec

----------------------------------------------------------------------------
(* An index filled by one regeneration alone has the mappings.             *)

\* An index there is not has no documents.
NoneWithoutIndex == index = "none" => \A k \in Keys : docs[k] = NoDoc

\* Next to a regeneration that is alone no other runs.
Alone(p) == Running(p) /\ job[p].alone
AloneHolds == \A p, q \in Processes : Alone(p) /\ Running(q) => p = q

Filling == {"read", "bulk", "readCollections", "bulkCollections", "refresh"}
Mapped(p) ==
  job[p].pc \in Filling /\ job[p].scope = "allEntities" /\ job[p].alone => index = "made"

IndexInv == StoreInv /\ NoneWithoutIndex /\ AloneHolds /\ MappedUnlessOverlapped

SamePhase(p) ==
  job'[p].pc = job[p].pc /\ job'[p].scope = job[p].scope /\ job'[p].alone = job[p].alone

LEMMA MappedEverywhere == MappedUnlessOverlapped <=> \A p \in Processes : Mapped(p)
BY DEF MappedUnlessOverlapped, Mapped, Filling

LEMMA TouchKeepsPhase ==
  ASSUME TypeOK, NEW S \in SUBSET Keys, job' = Touch(S)
  PROVE  \A p \in Processes : SamePhase(p)
BY TouchHolds DEF TypeOK, Job, SamePhase

\* A step in which at most process p goes on.
LEMMA OneProcessSteps ==
  ASSUME AloneHolds, MappedUnlessOverlapped, NEW p \in Processes,
         \A q \in Processes \ {p} : SamePhase(q),
         Running(p)' => Running(p) /\ job'[p].alone = job[p].alone,
         index = "made" => index' = "made" \/ Running(p),
         Mapped(p)'
  PROVE  AloneHolds' /\ MappedUnlessOverlapped'
<1>1. \A q \in Processes \ {p} : Running(q)' = Running(q) /\ Alone(q)' = Alone(q)
  BY DEF SamePhase, Running, Alone
<1>2. Alone(p)' => Alone(p)
  BY DEF Alone
<1>3. AloneHolds'
  BY <1>1, <1>2 DEF AloneHolds, Alone
<1>4. ASSUME NEW q \in Processes \ {p}, job'[q].pc \in Filling, job'[q].scope = "allEntities",
             job'[q].alone
      PROVE  index' = "made"
  <2>1. job[q].pc \in Filling /\ job[q].scope = "allEntities" /\ job[q].alone
    BY <1>4 DEF SamePhase
  <2>2. Alone(q) /\ index = "made"
    BY <2>1, MappedEverywhere DEF Alone, Running, Filling, Mapped
  <2>3. ~Running(p)
    BY <2>2 DEF AloneHolds
  <2> QED BY <2>2, <2>3
<1>5. \A q \in Processes : Mapped(q)'
  BY <1>4 DEF Mapped
<1>6. MappedUnlessOverlapped'
  BY <1>5 DEF MappedUnlessOverlapped, Mapped, Filling
<1> QED BY <1>3, <1>6

LEMMA SamePhases ==
  ASSUME IndexInv, \A p \in Processes : SamePhase(p), index = "made" => index' = "made"
  PROVE  AloneHolds' /\ MappedUnlessOverlapped'
<1>1. \A q \in Processes \ {Site} : SamePhase(q)
  OBVIOUS
<1>2. Running(Site)' => Running(Site) /\ job'[Site].alone = job[Site].alone
  BY SiteAssumption DEF Running, SamePhase
<1>3. Mapped(Site)'
  BY SiteAssumption, MappedEverywhere DEF IndexInv, Mapped, SamePhase
<1> QED BY <1>1, <1>2, <1>3, OneProcessSteps, SiteAssumption DEF IndexInv

LEMMA RequestsKeepIndex ==
  ASSUME IndexInv,
         \/ \E k \in Entities : SaveEntity(k) \/ OpenMerge(k)
         \/ \E k \in Keys : Delete(k) \/ Commit(k) \/ Rollback(k)
         \/ \E k \in Collections, state \in {"live", "hidden"}, renamed \in BOOLEAN :
              SaveCollection(k, state, renamed)
         \/ \E k \in Groups : OpenGroup(k)
         \/ \E c \in calls : Deliver(c) \/ Lose(c)
         \/ ServerDown \/ ServerUp
         \/ \E p \in Processes : Crash(p)
  PROVE  NoneWithoutIndex' /\ AloneHolds' /\ MappedUnlessOverlapped'
<1>0. TypeOK /\ NoneWithoutIndex /\ \A c \in calls : c.key \in Keys
  BY StoreTypes DEF IndexInv, StoreInv
<1>1. ASSUME UNCHANGED <<docs, index>>, \A p \in Processes : SamePhase(p)
      PROVE  NoneWithoutIndex' /\ AloneHolds' /\ MappedUnlessOverlapped'
  BY <1>0, <1>1, SamePhases DEF NoneWithoutIndex
<1>2. ASSUME NEW k \in Keys, NEW next, Change(k, next)
      PROVE  UNCHANGED <<docs, index>> /\ \A p \in Processes : SamePhase(p)
  BY <1>0, <1>2, TouchKeepsPhase DEF Change
<1>3. CASE \/ \E k \in Entities : SaveEntity(k) \/ OpenMerge(k)
           \/ \E k \in Keys : Delete(k)
           \/ \E k \in Collections, state \in {"live", "hidden"}, renamed \in BOOLEAN :
                SaveCollection(k, state, renamed)
           \/ \E k \in Groups : OpenGroup(k)
  <2>1. \E k \in Keys : \E next : Change(k, next)
    BY <1>3, KeysOfKinds DEF SaveEntity, OpenMerge, Delete, SaveCollection, OpenGroup
  <2> QED BY <1>1, <1>2, <2>1
<1>4. CASE \E k \in Keys : Commit(k) \/ Rollback(k)
  <2>1. PICK k \in Keys : Commit(k) \/ Rollback(k)
    BY <1>4
  <2>2. job' = Touch({k}) /\ {k} \in SUBSET Keys /\ UNCHANGED <<docs, index>>
    BY <2>1 DEF Commit, Rollback, Close
  <2> QED BY <1>0, <1>1, <2>2, TouchKeepsPhase
<1>5. CASE \E c \in calls : Lose(c)
  <2>1. PICK c \in calls : Lose(c)
    BY <1>5
  <2>2. job' = Touch({c.key}) /\ {c.key} \in SUBSET Keys /\ UNCHANGED <<docs, index>>
    BY <1>0, <2>1 DEF Lose
  <2> QED BY <1>0, <1>1, <2>2, TouchKeepsPhase
<1>6. CASE ServerDown \/ ServerUp
  <2>1. UNCHANGED <<docs, index, job>>
    BY <1>6 DEF ServerDown, ServerUp, Fault
  <2> QED BY <1>1, <2>1 DEF SamePhase
<1>7. CASE \E c \in calls : Deliver(c)
  <2>1. PICK c \in calls : Deliver(c)
    BY <1>7
  <2>2. job' = Touch({c.key}) /\ {c.key} \in SUBSET Keys /\ docs' = [docs EXCEPT ![c.key] = c.doc]
        /\ index' = IndexAfter(IF c.doc = NoDoc THEN {} ELSE {c.key})
    BY <1>0, <2>1 DEF Deliver
  <2>3. NoneWithoutIndex'
    BY <1>0, <2>2 DEF NoneWithoutIndex, IndexAfter, TypeOK
  <2>4. index = "made" => index' = "made"
    BY <2>2 DEF IndexAfter
  <2> QED BY <1>0, <2>2, <2>3, <2>4, TouchKeepsPhase, SamePhases
<1>8. CASE \E p \in Processes : Crash(p)
  <2>1. PICK p \in Processes : Crash(p)
    BY <1>8
  <2> DEFINE S == (IF p = Site THEN {c.key : c \in calls} ELSE {}) \cup
                  {k \in Keys : p = Site /\ row[k].state \in {"open", "merging"}}
  <2>2. job' = [Touch(S) EXCEPT ![p] = Boot] /\ UNCHANGED <<docs, index>>
    BY <2>1 DEF Crash, Fault
  <2>3. S \in SUBSET Keys
    BY <1>0
  <2> HIDE DEF S
  <2>4. Touch(S) \in [Processes -> Job] /\ \A q \in Processes :
          Touch(S)[q] = [job[q] EXCEPT !.touched = IF Running(q) THEN @ \cup S ELSE @]
    BY <1>0, <2>3, TouchHolds
  <2>5. job'[p] = Boot /\ \A q \in Processes \ {p} : job'[q] = Touch(S)[q]
    BY <2>2, <2>4
  <2>6. \A q \in Processes \ {p} : SamePhase(q)
    BY <1>0, <2>4, <2>5 DEF SamePhase, TypeOK, Job
  <2>7. job'[p].pc = "boot"
    BY <2>5 DEF Boot
  <2>8. ~Running(p)' /\ Mapped(p)'
    BY <2>7 DEF Running, Mapped, Filling
  <2> QED BY <1>0, <2>2, <2>6, <2>8, OneProcessSteps DEF NoneWithoutIndex, IndexInv
<1> QED BY <1>3, <1>4, <1>5, <1>6, <1>7, <1>8

LEMMA StartKeepsIndex ==
  ASSUME IndexInv, NEW p \in Processes, NEW scope \in Scopes, ~Running(p), Start(p, scope)
  PROVE  /\ NoneWithoutIndex' /\ AloneHolds' /\ MappedUnlessOverlapped'
         /\ job'[p].pc = "check" /\ (job'[p].alone <=> Others(p) = {})
         /\ \A q \in Processes \ {p} :
              job'[q].pc = job[q].pc /\ job'[q].alone = (job[q].alone /\ ~Running(q))
<1>0. \A q \in Processes : job[q] \in Job
  BY StoreTypes DEF IndexInv
<1>1. UNCHANGED <<docs, index>>
  BY DEF Start
<1>2. job'[p].pc = "check" /\ (job'[p].alone <=> Others(p) = {})
  BY DEF Start, Boot
<1>3. \A q \in Processes \ {p} :
        job'[q].pc = job[q].pc /\ job'[q].alone = (job[q].alone /\ ~Running(q))
  BY <1>0 DEF Start, Job
<1>4. \A q \in Processes \ {p} : Running(q)' = Running(q) /\ ~Alone(q)'
  BY <1>3 DEF Running, Alone
<1>5. AloneHolds'
  BY <1>2, <1>4 DEF AloneHolds, Alone, Others
<1>6. \A q \in Processes : Mapped(q)'
  <2>1. Mapped(p)'
    BY <1>2 DEF Mapped, Filling
  <2>2. \A q \in Processes \ {p} : Mapped(q)'
    BY <1>4 DEF Mapped, Filling, Running, Alone
  <2> QED BY <2>1, <2>2
<1>7. MappedUnlessOverlapped'
  BY <1>6 DEF MappedUnlessOverlapped, Mapped, Filling
<1> QED BY <1>1, <1>2, <1>3, <1>5, <1>7 DEF IndexInv, NoneWithoutIndex

LEMMA RegenerationsKeepIndex ==
  ASSUME IndexInv,
         \/ \E scope \in Scopes : Reindex(scope)
         \/ \E p \in Processes : Regenerate(p) \/ BulkProgress(p) \/ BulkUnanswered(p)
  PROVE  NoneWithoutIndex' /\ AloneHolds' /\ MappedUnlessOverlapped'
<1>0. /\ TypeOK /\ NoneWithoutIndex /\ AloneHolds /\ MappedUnlessOverlapped
      /\ \A p \in Processes : job[p] \in Job /\ Mapped(p)
  BY StoreTypes, MappedEverywhere DEF IndexInv, StoreInv
<1>1. ASSUME NEW p \in Processes, NEW next \in Job, Step(p, next), next.alone = job[p].alone,
             next.pc \in {"boot", "idle", "done", "failed"} \/ Running(p),
             index = "made" => index' = "made" \/ Running(p),
             next.pc \in Filling /\ next.scope = "allEntities" /\ next.alone => index' = "made"
      PROVE  AloneHolds' /\ MappedUnlessOverlapped'
  <2>1. job'[p] = next /\ \A q \in Processes \ {p} : SamePhase(q)
    BY <1>0, <1>1 DEF Step, SamePhase, TypeOK
  <2>2. Mapped(p)'
    BY <1>1, <2>1 DEF Mapped
  <2>3. Running(p)' => Running(p) /\ job'[p].alone = job[p].alone
    BY <1>1, <2>1 DEF Running
  <2> QED BY <1>0, <1>1, <2>1, <2>2, <2>3, OneProcessSteps
<1>2. ASSUME NEW p \in Processes, NEW pc \in Pcs, Step(p, [job[p] EXCEPT !.pc = pc]),
             pc \in {"boot", "idle", "done", "failed"} \/ Running(p),
             index = "made" => index' = "made" \/ Running(p),
             pc \in Filling /\ job[p].scope = "allEntities" /\ job[p].alone => index' = "made"
      PROVE  AloneHolds' /\ MappedUnlessOverlapped'
  <2> DEFINE next == [job[p] EXCEPT !.pc = pc]
  <2>1. next \in Job /\ next.pc = pc /\ next.scope = job[p].scope /\ next.alone = job[p].alone
    BY <1>0 DEF Job
  <2>2. Step(p, next)
    BY <1>2
  <2> HIDE DEF next
  <2> QED BY <1>1, <1>2, <2>1, <2>2
<1>3. ASSUME NEW p \in Processes, Step(p, Reading(job[p])), Running(p),
             job[p].scope = "allEntities" => index' = "made"
      PROVE  AloneHolds' /\ MappedUnlessOverlapped'
  <2> DEFINE next == Reading(job[p])
  <2>1. next \in Job /\ next.scope = job[p].scope /\ next.alone = job[p].alone
    <3>1. \A scope \in Scopes : EntityKinds(scope) \subseteq Kinds
      BY DEF Scopes, EntityKinds, Kinds
    <3> QED BY <1>0, <3>1 DEF Job, Reading, Pcs
  <2>2. Step(p, next)
    BY <1>3
  <2> HIDE DEF next
  <2> QED BY <1>1, <1>3, <2>1, <2>2
<1>4. ASSUME NEW p \in Processes, Fail(p) PROVE AloneHolds' /\ MappedUnlessOverlapped'
  <2>1. Step(p, [job[p] EXCEPT !.pc = "failed"]) /\ UNCHANGED index
    BY <1>4 DEF Fail
  <2> QED BY <1>2, <2>1 DEF Pcs, Filling
<1>5. ASSUME NEW scope \in Scopes, Reindex(scope)
      PROVE  NoneWithoutIndex' /\ AloneHolds' /\ MappedUnlessOverlapped'
  <2>1. ~Running(Site)
    BY <1>5 DEF Reindex, Running
  <2> QED BY <1>5, <2>1, StartKeepsIndex, SiteAssumption DEF Reindex
<1>6. ASSUME NEW p \in Processes, StartProcess(p)
      PROVE  NoneWithoutIndex' /\ AloneHolds' /\ MappedUnlessOverlapped'
  <2>1. ~Running(p)
    BY <1>6 DEF StartProcess, Running
  <2>2. CASE up /\ index = "none"
    BY <1>6, <2>1, <2>2, StartKeepsIndex DEF StartProcess, Scopes
  <2>3. CASE ~(up /\ index = "none")
    <3>1. Step(p, [job[p] EXCEPT !.pc = "idle"]) /\ UNCHANGED <<docs, index>>
      BY <1>6, <2>3 DEF StartProcess
    <3> QED BY <1>0, <1>2, <3>1 DEF Pcs, Filling, NoneWithoutIndex
  <2> QED BY <2>2, <2>3
<1>7. ASSUME NEW p \in Processes, Check(p)
      PROVE  NoneWithoutIndex' /\ AloneHolds' /\ MappedUnlessOverlapped'
  <2>1. Running(p) /\ UNCHANGED <<docs, index>>
    BY <1>7 DEF Check, Running, Fail
  <2>2. CASE Fail(p)
    BY <1>0, <1>4, <2>1, <2>2 DEF NoneWithoutIndex
  <2>3. CASE Step(p, [job[p] EXCEPT !.pc = "create"]) \/ Step(p, [job[p] EXCEPT !.pc = "delete"])
    BY <1>0, <1>2, <2>1, <2>3 DEF Pcs, Filling, NoneWithoutIndex
  <2>4. CASE Step(p, Reading(job[p])) /\ job[p].scope # "allEntities"
    BY <1>0, <1>3, <2>1, <2>4 DEF NoneWithoutIndex
  <2> QED BY <1>7, <2>2, <2>3, <2>4 DEF Check
<1>8. ASSUME NEW p \in Processes, DeleteIndex(p)
      PROVE  NoneWithoutIndex' /\ AloneHolds' /\ MappedUnlessOverlapped'
  <2>1. Running(p)
    BY <1>8 DEF DeleteIndex, Running
  <2>2. CASE Fail(p)
    BY <1>0, <1>4, <2>2 DEF Fail, NoneWithoutIndex
  <2>3. CASE ~Fail(p)
    <3>1. Step(p, [job[p] EXCEPT !.pc = "create"]) /\ docs' = [k \in Keys |-> NoDoc]
      BY <1>8, <2>3 DEF DeleteIndex
    <3> QED BY <1>2, <2>1, <3>1 DEF Pcs, Filling, NoneWithoutIndex
  <2> QED BY <2>2, <2>3
<1>9. ASSUME NEW p \in Processes, CreateIndex(p)
      PROVE  NoneWithoutIndex' /\ AloneHolds' /\ MappedUnlessOverlapped'
  <2>1. Running(p)
    BY <1>9 DEF CreateIndex, Running
  <2>2. CASE Fail(p)
    BY <1>0, <1>4, <2>2 DEF Fail, NoneWithoutIndex
  <2>3. CASE ~Fail(p)
    BY <1>3, <1>9, <2>1, <2>3 DEF CreateIndex, NoneWithoutIndex
  <2> QED BY <2>2, <2>3
<1>10. ASSUME NEW p \in Processes, NEW kind \in Kinds, ReadRows(p, kind)
       PROVE  NoneWithoutIndex' /\ AloneHolds' /\ MappedUnlessOverlapped'
  <2>1. Running(p) /\ UNCHANGED <<docs, index>> /\ job[p].pc = "read"
    BY <1>10 DEF ReadRows, Running
  <2>2. job'[p].alone = job[p].alone /\ job'[p].scope = job[p].scope
    BY <1>0, <1>10 DEF ReadRows, Step, TypeOK, Job
  <2>3. \A q \in Processes \ {p} : SamePhase(q)
    BY <1>0, <1>10 DEF ReadRows, Step, SamePhase, TypeOK
  <2>4. Mapped(p)'
    BY <1>0, <2>1, <2>2 DEF Mapped, Filling
  <2> QED BY <1>0, <2>1, <2>2, <2>3, <2>4, OneProcessSteps DEF NoneWithoutIndex
<1>11. ASSUME NEW p \in Processes, ReadCollections(p) \/ BulkDone(p)
       PROVE  NoneWithoutIndex' /\ AloneHolds' /\ MappedUnlessOverlapped'
  <2>1. Running(p) /\ UNCHANGED <<docs, index>> /\ job[p].pc \in Filling
    BY <1>11 DEF ReadCollections, BulkDone, Running, Filling
  <2>2. job'[p].alone = job[p].alone /\ job'[p].scope = job[p].scope
    <3>1. CASE ReadCollections(p)
      BY <1>0, <3>1 DEF ReadCollections, Step, TypeOK, Job
    <3>2. CASE BulkDone(p)
      BY <1>0, <3>2 DEF BulkDone, Step, TypeOK, Job
    <3> QED BY <1>11, <3>1, <3>2
  <2>3. \A q \in Processes \ {p} : SamePhase(q)
    BY <1>0, <1>11 DEF ReadCollections, BulkDone, Step, SamePhase, TypeOK
  <2>4. Mapped(p)'
    BY <1>0, <2>1, <2>2, <2>3 DEF Mapped
  <2> QED BY <1>0, <2>1, <2>2, <2>3, <2>4, OneProcessSteps DEF NoneWithoutIndex
<1>12. ASSUME NEW p \in Processes, Refresh(p)
       PROVE  NoneWithoutIndex' /\ AloneHolds' /\ MappedUnlessOverlapped'
  <2>1. Running(p) /\ UNCHANGED <<docs, index>> /\ Step(p, [Boot EXCEPT !.pc = "done"])
    BY <1>12 DEF Refresh, Running
  <2>2. job'[p].pc = "done" /\ \A q \in Processes \ {p} : SamePhase(q)
    BY <1>0, <2>1 DEF Step, SamePhase, TypeOK, Boot
  <2>3. Mapped(p)' /\ ~Running(p)'
    BY <2>2 DEF Mapped, Filling, Running
  <2> QED BY <1>0, <2>1, <2>2, <2>3, OneProcessSteps DEF NoneWithoutIndex
<1>13. ASSUME NEW p \in Processes, BulkProgress(p) \/ BulkUnanswered(p)
       PROVE  NoneWithoutIndex' /\ AloneHolds' /\ MappedUnlessOverlapped'
  <2>1. PICK accepted \in SUBSET job[p].todo, refused \in SUBSET job[p].todo, answered \in BOOLEAN :
          Bulk(p, accepted, refused, answered)
    BY <1>13 DEF BulkProgress, BulkUnanswered
  <2>2. /\ Running(p) /\ index' = IndexAfter(accepted)
        /\ docs' = [k \in Keys |-> IF k \in accepted THEN Rebuilt(p, k) ELSE docs[k]]
    BY <2>1 DEF Bulk, Running
  <2>3. SamePhase(p)
    BY <1>0, <2>1 DEF Bulk, Step, SamePhase, TypeOK, Job
  <2>4. \A q \in Processes \ {p} : SamePhase(q)
    BY <1>0, <2>1 DEF Bulk, Step, SamePhase, TypeOK
  <2>5. Mapped(p)'
    BY <1>0, <2>2, <2>3 DEF Mapped, IndexAfter, SamePhase
  <2>6. NoneWithoutIndex'
    BY <1>0, <2>2 DEF NoneWithoutIndex, IndexAfter
  <2> QED BY <1>0, <2>2, <2>3, <2>4, <2>5, <2>6, OneProcessSteps DEF SamePhase
<1> QED BY <1>5, <1>6, <1>7, <1>8, <1>9, <1>10, <1>11, <1>12, <1>13 DEF Regenerate

LEMMA InitIndexInv == Init => IndexInv
<1> SUFFICES ASSUME Init PROVE IndexInv
  OBVIOUS
<1>1. \A p \in Processes : job[p].pc = "boot"
  BY DEF Init, Boot
<1>2. AloneHolds /\ MappedUnlessOverlapped
  BY <1>1 DEF AloneHolds, Alone, Running, MappedUnlessOverlapped
<1>3. NoneWithoutIndex
  BY DEF Init, NoneWithoutIndex
<1> QED BY <1>2, <1>3, InitStoreInv DEF IndexInv

LEMMA StepIndexInv == IndexInv /\ [Next]_vars => IndexInv'
<1> SUFFICES ASSUME IndexInv, [Next]_vars PROVE IndexInv'
  OBVIOUS
<1>1. StoreInv'
  BY StepStoreInv DEF IndexInv
<1>2. CASE UNCHANGED vars
  BY <1>1, <1>2 DEF vars, IndexInv, NoneWithoutIndex, AloneHolds, Alone, Running, MappedUnlessOverlapped
<1>3. CASE Next
  BY <1>1, <1>3, RequestsKeepIndex, RegenerationsKeepIndex DEF Next, IndexInv
<1> QED BY <1>2, <1>3

\* A regeneration that no other runs next to fills an index with the mappings
\* of the code: an index made meanwhile for a document that arrives stops it.
THEOREM FilledIndexIsMapped == Spec => []MappedUnlessOverlapped
<1>1. IndexInv => MappedUnlessOverlapped
  BY DEF IndexInv
<1> QED BY <1>1, InitIndexInv, StepIndexInv, PTL DEF Spec

----------------------------------------------------------------------------
(* A document is out of date only for a reason.                            *)

Good(k, doc) == doc # NoDoc /\ doc.ver = row[k].ver /\ (k \in Works => doc.by # 0)

Right(k, doc) ==
  CASE row[k].state \in {"live", "open"} -> Good(k, doc)
    [] row[k].state = "hidden" -> TRUE
    [] OTHER -> doc = NoDoc

Settled(k) == row[k].state \notin {"open", "merging"}

\* What is on its way to the index is right, or else the index is.
RightSoon(k) ==
  /\ \A m, d \in calls : m.key = k /\ d.key = k => m = d /\ Right(k, m.doc)
  /\ ~Pending(k) => Right(k, docs[k])

NoneRuns == \A p \in Processes : ~Running(p)
Quiet == NoneRuns => \A k \in Keys \ excused : RightSoon(k)

\* Where a regeneration is: the kinds it has read, the keys that it is done with.
Begun(j) == j.pc \notin {"check", "delete", "create"}

KindsRead(j) ==
  CASE j.pc = "read" -> EntityKinds(j.scope) \ j.unread
    [] j.pc = "bulk" -> EntityKinds(j.scope)
    [] OTHER -> {}

Sent(j) ==
  CASE j.pc = "bulk" -> Entities \ j.todo
    [] j.pc = "readCollections" -> Entities
    [] j.pc = "bulkCollections" -> Keys \ j.todo
    [] j.pc = "refresh" -> Keys
    [] OTHER -> {}

\* Its steps are in order; authors are read before a work is sent.
InOrder(j) ==
  /\ j.unread \subseteq EntityKinds(j.scope)
  /\ "Author" \in KindsRead(j) => \A k \in Authors : j.seen[k] # 0
  /\ j.pc \notin {"bulk", "bulkCollections"} => j.todo = {}
  /\ j.pc = "bulkCollections" => j.todo \subseteq Collections
  /\ j.pc = "delete" => j.scope = "allEntities"
  /\ j.pc \in {"read", "bulk"} => j.scope # "Collection"
  /\ ~Begun(j) => \A k \in Keys : j.seen[k] = 0
  /\ j.pc \in {"read", "bulk", "readCollections"} /\ j.scope # "Collection" =>
       \A k \in Collections : j.seen[k] = 0

\* What it has read of a key that did not change since it started is still so;
\* the index is right about it as soon as it is done with it, if it is made
\* anew, and remains right if it was and is not made anew.
KeyInOrder(j, k) ==
  /\ j.seen[k] # 0 => j.seen[k] = row[k].ver /\ Listed(k)
  /\ \A kind \in KindsRead(j) : k \in KeysOf(kind) /\ Listed(k) => j.seen[k] # 0
  /\ j.scope = "allEntities" /\ Begun(j) /\ Settled(k) =>
       /\ docs[k] # NoDoc => Good(k, docs[k]) /\ Listed(k)
       /\ k \in Sent(j) /\ Listed(k) => docs[k] # NoDoc
  /\ j.scope # "allEntities" /\ k \notin excused /\ Settled(k) => Right(k, docs[k])

Regenerating(p) ==
  /\ \A m \in calls : m.key \in job[p].touched
  /\ InOrder(job[p])
  /\ \A k \in Keys \ job[p].touched : KeyInOrder(job[p], k)

RegenerationsHold == \A p \in Processes : Alone(p) => Regenerating(p)

FreshInv == IndexInv /\ Quiet /\ RegenerationsHold

\* A step about the keys in S, next to a regeneration.
LEMMA OthersKeepRegenerating ==
  ASSUME StoreInv, NEW p \in Processes, Regenerating(p), NEW S \in SUBSET Keys,
         job'[p] = [job[p] EXCEPT !.touched = @ \cup S],
         \A k \in Keys \ S : row'[k] = row[k] /\ docs'[k] = docs[k],
         \A c \in calls' : c \in calls \/ c.key \in S,
         excused \subseteq excused'
  PROVE  Regenerating(p)'
<1> DEFINE j == job[p]
           n == job'[p]
<1>1. /\ n.pc = j.pc /\ n.scope = j.scope /\ n.unread = j.unread /\ n.seen = j.seen
      /\ n.todo = j.todo /\ n.touched = j.touched \cup S
  BY StoreTypes DEF Job
<1>2. Regenerating(p)
  OBVIOUS
<1> HIDE DEF j, n
<1>3. Begun(n) = Begun(j) /\ KindsRead(n) = KindsRead(j) /\ Sent(n) = Sent(j)
  BY <1>1 DEF Begun, KindsRead, Sent
<1>4. InOrder(j) /\ (\A m \in calls : m.key \in j.touched) /\ \A k \in Keys \ j.touched : KeyInOrder(j, k)
  BY <1>2 DEF Regenerating, j
<1>5. InOrder(n)
  BY <1>1, <1>3, <1>4 DEF InOrder
<1>6. \A m \in calls' : m.key \in n.touched
  BY <1>1, <1>4
<1>7. ASSUME NEW k \in Keys \ n.touched
      PROVE  /\ n.seen[k] # 0 => n.seen[k] = row'[k].ver /\ Listed(k)'
             /\ \A kind \in KindsRead(n) : k \in KeysOf(kind) /\ Listed(k)' => n.seen[k] # 0
             /\ n.scope = "allEntities" /\ Begun(n) /\ Settled(k)' =>
                  /\ docs'[k] # NoDoc => Good(k, docs[k])' /\ Listed(k)'
                  /\ k \in Sent(n) /\ Listed(k)' => docs'[k] # NoDoc
             /\ n.scope # "allEntities" /\ k \notin excused' /\ Settled(k)' => Right(k, docs[k])'
  <2>1. row'[k] = row[k] /\ docs'[k] = docs[k] /\ KeyInOrder(j, k) /\ (k \notin excused' => k \notin excused)
    BY <1>1, <1>4, <1>7
  <2>2. Listed(k)' = Listed(k) /\ Settled(k)' = Settled(k) /\ Good(k, docs[k])' = Good(k, docs[k])
        /\ Right(k, docs[k])' = Right(k, docs[k])
    BY <2>1 DEF Listed, Settled, Good, Right
  <2>3. /\ n.seen[k] # 0 => n.seen[k] = row[k].ver /\ Listed(k)
        /\ \A kind \in KindsRead(n) : k \in KeysOf(kind) /\ Listed(k) => n.seen[k] # 0
        /\ n.scope = "allEntities" /\ Begun(n) /\ Settled(k) =>
             /\ docs[k] # NoDoc => Good(k, docs[k]) /\ Listed(k)
             /\ k \in Sent(n) /\ Listed(k) => docs[k] # NoDoc
        /\ n.scope # "allEntities" /\ k \notin excused /\ Settled(k) => Right(k, docs[k])
    BY <1>1, <1>3, <2>1, Zenon DEF KeyInOrder
  <2> QED BY <2>1, <2>2, <2>3
<1>8. \A k \in Keys \ n.touched : KeyInOrder(job[p], k)'
  BY <1>7 DEF KeyInOrder, n
<1>9. InOrder(job[p])'
  BY <1>5 DEF InOrder, n
<1> QED BY <1>6, <1>8, <1>9 DEF Regenerating, n

LEMMA OthersKeepRegenerations ==
  ASSUME FreshInv, NEW S \in SUBSET Keys,
         \A p \in Processes : Running(p)' =>
           Running(p) /\ job'[p] = [job[p] EXCEPT !.touched = @ \cup S],
         \A k \in Keys \ S : row'[k] = row[k] /\ docs'[k] = docs[k],
         \A c \in calls' : c \in calls \/ c.key \in S,
         excused \subseteq excused'
  PROVE  RegenerationsHold'
<1> SUFFICES ASSUME NEW p \in Processes, Alone(p)' PROVE Regenerating(p)'
  BY DEF RegenerationsHold
<1>1. Running(p) /\ job'[p] = [job[p] EXCEPT !.touched = @ \cup S] /\ job[p] \in Job
  BY StoreTypes DEF Alone, FreshInv, IndexInv
<1>2. job'[p].alone = job[p].alone
  BY <1>1 DEF Job
<1>3. Regenerating(p)
  BY <1>1, <1>2 DEF Alone, FreshInv, RegenerationsHold
<1> QED BY <1>1, <1>3, OthersKeepRegenerating DEF FreshInv, IndexInv

\* A step that does not concern key k.
LEMMA OthersKeepRightSoon ==
  ASSUME NEW k \in Keys, RightSoon(k), row'[k] = row[k], docs'[k] = docs[k],
         \A c : c.key = k => (c \in calls' <=> c \in calls)
  PROVE  RightSoon(k)'
<1>1. Pending(k)' = Pending(k)
  BY DEF Pending
<1>2. \A doc : Right(k, doc)' = Right(k, doc)
  BY DEF Right, Good
<1>3. \A m, d \in calls' : m.key = k /\ d.key = k => m = d /\ Right(k, m.doc)
  BY DEF RightSoon
<1>4. ~Pending(k)' => Right(k, docs'[k])
  BY <1>1 DEF RightSoon
<1>5. (\A m, d \in calls : m.key = k /\ d.key = k => m = d /\ Right(k, m.doc))'
  BY <1>2, <1>3
<1>6. (~Pending(k) => Right(k, docs[k]))'
  BY <1>2, <1>4 DEF Right, Good
<1> QED BY <1>5, <1>6 DEF RightSoon

\* Regenerations go on as they were after a step about some keys.
LEMMA TouchedRun ==
  ASSUME TypeOK, NEW S \in SUBSET Keys, job' = Touch(S)
  PROVE  /\ \A p \in Processes : Running(p)' = Running(p)
         /\ \A p \in Processes : Running(p)' =>
              Running(p) /\ job'[p] = [job[p] EXCEPT !.touched = @ \cup S]
<1>1. \A p \in Processes : SamePhase(p)
  BY TouchKeepsPhase
<1>2. \A p \in Processes : Running(p)' = Running(p)
  BY <1>1 DEF SamePhase, Running
<1> QED BY <1>2, TouchHolds

\* A step about one key only.
LEMMA OneKeySteps ==
  ASSUME FreshInv, NEW k \in Keys, job' = Touch({k}),
         \A i \in Keys \ {k} : row'[i] = row[i] /\ docs'[i] = docs[i],
         \A c : c.key # k => (c \in calls' <=> c \in calls),
         excused \subseteq excused',
         NoneRuns /\ Quiet /\ k \notin excused' => RightSoon(k)'
  PROVE  Quiet' /\ RegenerationsHold'
<1>0. TypeOK /\ Quiet /\ {k} \in SUBSET Keys
  BY DEF FreshInv, IndexInv, StoreInv
<1>1. /\ \A p \in Processes : Running(p)' = Running(p)
      /\ \A p \in Processes : Running(p)' =>
           Running(p) /\ job'[p] = [job[p] EXCEPT !.touched = @ \cup {k}]
  BY <1>0, TouchedRun
<1>2. RegenerationsHold'
  <2>1. \A c \in calls' : c \in calls \/ c.key \in {k}
    OBVIOUS
  <2> QED BY <1>0, <1>1, <2>1, OthersKeepRegenerations
<1>3. ASSUME NoneRuns', NEW i \in Keys, i \notin excused' PROVE RightSoon(i)'
  <2>1. NoneRuns /\ i \notin excused
    BY <1>1, <1>3 DEF NoneRuns
  <2>2. RightSoon(i)
    BY <1>0, <2>1 DEF Quiet
  <2>3. CASE i = k
    BY <1>0, <1>3, <2>1, <2>3
  <2>4. CASE i # k
    BY <1>3, <2>2, <2>4, OthersKeepRightSoon
  <2> QED BY <2>3, <2>4
<1>4. Quiet'
  BY <1>3 DEF Quiet
<1> QED BY <1>2, <1>4

LEMMA DocumentIsRight ==
  ASSUME StoreInv, StoreInv', NEW k \in Keys
  PROVE  /\ DocumentOf(k) # NoDoc /\ DocumentOf(k).ver = row'[k].ver
         /\ k \in Works => DocumentOf(k).by # 0
<1>1. \A i \in Keys : row[i].ver \in Version /\ row'[i].ver \in Version
  BY DEF StoreInv, TypeOK, Row
<1>2. \A i \in Authors : i \in Keys /\ row[i].ver # 0
  BY KeysOfKinds DEF StoreInv, RowsHold
<1>3. k \in Works => row[AuthorOf[k]].ver \in Version /\ row[AuthorOf[k]].ver # 0
  BY <1>1, <1>2, KeysOfKinds
<1>4. 0 \in Version
  BY BoundAssumption DEF Version
<1>5. DocumentOf(k) \in Document
  BY <1>1, <1>3, <1>4 DEF DocumentOf, Document
<1> QED BY <1>3, <1>5, SentinelAssumption DEF DocumentOf

\* The only request about a key that is on its way, with the right document.
LEMMA SentIsRight ==
  ASSUME NEW k \in Keys, NEW doc, ~Pending(k), Send(k, doc),
         \/ row'[k].state \in {"live", "open"} /\ doc # NoDoc /\ doc.ver = row'[k].ver
            /\ (k \in Works => doc.by # 0)
         \/ row'[k].state = "hidden"
         \/ row'[k].state \in {"merging", "gone"} /\ doc = NoDoc
  PROVE  RightSoon(k)'
<1>1. \A c \in calls' : c.key = k => c = [key |-> k, doc |-> doc]
  BY DEF Send, Pending
<1>2. Right(k, doc)'
  BY DEF Right, Good
<1>3. Pending(k)'
  <2>1. [key |-> k, doc |-> doc] \in calls' /\ [key |-> k, doc |-> doc].key = k
    BY DEF Send
  <2> QED BY <2>1 DEF Pending
<1>4. (\A m, d \in calls : m.key = k /\ d.key = k => m = d /\ Right(k, m.doc))'
  BY <1>1, <1>2
<1> QED BY <1>3, <1>4 DEF RightSoon

LEMMA WritesKeepFresh ==
  ASSUME FreshInv,
         \/ \E k \in Entities : SaveEntity(k) \/ OpenMerge(k)
         \/ \E k \in Keys : Delete(k)
         \/ \E k \in Collections, state \in {"live", "hidden"}, renamed \in BOOLEAN :
              SaveCollection(k, state, renamed)
         \/ \E k \in Groups : OpenGroup(k)
  PROVE  Quiet' /\ RegenerationsHold'
<1>0. StoreInv /\ StoreInv' /\ row \in [Keys -> Row]
  BY WritesKeepStore DEF FreshInv, IndexInv, StoreInv, TypeOK
<1>1. ASSUME NEW k \in Keys, NEW next, Change(k, next), excused \subseteq excused',
             UNCHANGED calls \/ (\E doc : Send(k, doc)),
             k \notin excused' => RightSoon(k)'
      PROVE  Quiet' /\ RegenerationsHold'
  <2>1. job' = Touch({k}) /\ \A i \in Keys \ {k} : row'[i] = row[i] /\ docs'[i] = docs[i]
    BY <1>0, <1>1 DEF Change
  <2>2. \A c : c.key # k => (c \in calls' <=> c \in calls)
    BY <1>1 DEF Send
  <2> QED BY <1>1, <2>1, <2>2, OneKeySteps
<1>2. ASSUME NEW k \in Keys, NEW next, NEW doc, Change(k, next), Send(k, doc),
             excused' = excused \cup Overtaking(k),
             \/ next.state \in {"live", "open"} /\ doc # NoDoc /\ doc.ver = next.ver
                /\ (k \in Works => doc.by # 0)
             \/ next.state = "hidden"
             \/ next.state \in {"merging", "gone"} /\ doc = NoDoc
      PROVE  Quiet' /\ RegenerationsHold'
  <2>1. row'[k] = next
    BY <1>0, <1>2 DEF Change
  <2>2. k \notin excused' => ~Pending(k)
    BY <1>2 DEF Overtaking
  <2>3. k \notin excused' => RightSoon(k)'
    BY <1>2, <2>1, <2>2, SentIsRight
  <2>4. excused \subseteq excused'
    BY <1>2
  <2> QED BY <1>1, <1>2, <2>3, <2>4
<1>3. ASSUME NEW k \in Keys, NEW next, Change(k, next), Send(k, DocumentOf(k)),
             excused' = excused \cup Overtaking(k), next.state \in {"live", "open", "hidden"}
      PROVE  Quiet' /\ RegenerationsHold'
  <2>1. row'[k] = next
    BY <1>0, <1>3 DEF Change
  <2> QED BY <1>0, <1>2, <1>3, <2>1, DocumentIsRight
<1>4. ASSUME NEW k \in Entities, SaveEntity(k) PROVE Quiet' /\ RegenerationsHold'
  <2> DEFINE next == [ver |-> row[k].ver + 1, state |-> "live"]
  <2>1. Change(k, next) /\ Send(k, DocumentOf(k)) /\ excused' = excused \cup Overtaking(k)
        /\ next.state = "live"
    BY <1>4 DEF SaveEntity
  <2> HIDE DEF next
  <2> QED BY <1>3, <2>1, KeysOfKinds
<1>5. ASSUME NEW k \in Entities, OpenMerge(k) PROVE Quiet' /\ RegenerationsHold'
  <2> DEFINE next == [row[k] EXCEPT !.state = "merging"]
  <2>1. k \in Keys /\ row[k] \in Row
    BY <1>0, KeysOfKinds
  <2>2. Change(k, next) /\ Send(k, NoDoc) /\ excused' = excused \cup Overtaking(k)
        /\ next.state = "merging"
    BY <1>5, <2>1 DEF OpenMerge, Row
  <2> HIDE DEF next
  <2> QED BY <1>2, <2>1, <2>2
<1>6. ASSUME NEW k \in Keys, Delete(k) PROVE Quiet' /\ RegenerationsHold'
  <2> DEFINE next == [row[k] EXCEPT !.state = "gone"]
  <2>1. row[k] \in Row
    BY <1>0
  <2>2. Change(k, next) /\ Send(k, NoDoc) /\ excused' = excused \cup Overtaking(k)
        /\ next.state = "gone"
    BY <1>6, <2>1 DEF Delete, Row
  <2> HIDE DEF next
  <2> QED BY <1>2, <2>2
<1>7. ASSUME NEW k \in Collections, NEW state \in {"live", "hidden"}, NEW renamed \in BOOLEAN,
             SaveCollection(k, state, renamed)
      PROVE  Quiet' /\ RegenerationsHold'
  <2> DEFINE next == [ver |-> IF renamed THEN row[k].ver + 1 ELSE row[k].ver, state |-> state]
  <2>1. k \in Keys /\ Change(k, next) /\ next.state \in {"live", "hidden"}
    BY <1>7, KeysOfKinds DEF SaveCollection
  <2>2. IF renamed THEN Send(k, DocumentOf(k)) /\ excused' = excused \cup Overtaking(k)
                   ELSE UNCHANGED calls /\ excused' = excused \cup {k}
    BY <1>7 DEF SaveCollection
  <2> HIDE DEF next
  <2>3. CASE renamed
    BY <1>3, <2>1, <2>2, <2>3
  <2>4. CASE ~renamed
    <3>1. excused \subseteq excused' /\ k \in excused' /\ UNCHANGED calls
      BY <2>2, <2>4
    <3> QED BY <1>1, <2>1, <3>1
  <2> QED BY <2>3, <2>4
<1>8. ASSUME NEW k \in Groups, OpenGroup(k) PROVE Quiet' /\ RegenerationsHold'
  <2> DEFINE next == [ver |-> 1, state |-> "open"]
  <2>1. k \in Keys /\ Change(k, next) /\ Send(k, DocumentOf(k)) /\ excused' = excused
        /\ next.state = "open"
    BY <1>8, KeysOfKinds DEF OpenGroup
  <2>2. ~Pending(k)
    BY <1>0, <1>8 DEF OpenGroup, Pending, StoreInv, VersionsHold
  <2>3. excused' = excused \cup Overtaking(k)
    BY <2>1, <2>2 DEF Overtaking
  <2> HIDE DEF next
  <2> QED BY <1>3, <2>1, <2>3
<1> QED BY <1>4, <1>5, <1>6, <1>7, <1>8

LEMMA RequestsKeepFresh ==
  ASSUME FreshInv,
         \/ \E k \in Keys : Commit(k) \/ Rollback(k)
         \/ \E c \in calls : Deliver(c) \/ Lose(c)
         \/ ServerDown \/ ServerUp
         \/ \E p \in Processes : Crash(p)
  PROVE  Quiet' /\ RegenerationsHold'
<1>0. StoreInv /\ TypeOK /\ row \in [Keys -> Row] /\ \A c \in calls : c.key \in Keys
  BY StoreTypes DEF FreshInv, IndexInv, StoreInv, TypeOK
<1>1. ASSUME NEW k \in Keys, Commit(k) \/ Rollback(k) PROVE Quiet' /\ RegenerationsHold'
  <2>1. PICK next : Close(k, next) /\ excused \subseteq excused'
                    /\ (k \notin excused' => Commit(k)
                          /\ next = IF row[k].state = "open" THEN "live" ELSE "gone")
    BY <1>1 DEF Commit, Rollback
  <2>2. /\ job' = Touch({k}) /\ UNCHANGED <<docs, calls>> /\ ~Pending(k)
        /\ row[k].state \in {"open", "merging"} /\ \A i \in Keys \ {k} : row'[i] = row[i]
        /\ row'[k] = [row[k] EXCEPT !.state = next]
    BY <1>0, <2>1 DEF Close
  <2>3. ASSUME NoneRuns, Quiet, k \notin excused' PROVE RightSoon(k)'
    <3>1. RightSoon(k) /\ Right(k, docs[k])
      BY <2>1, <2>2, <2>3 DEF Quiet, RightSoon
    <3>2. row'[k].ver = row[k].ver /\ row'[k].state = IF row[k].state = "open" THEN "live" ELSE "gone"
      BY <1>0, <2>1, <2>2, <2>3 DEF Row
    <3>3. Right(k, docs[k])'
      BY <2>2, <3>1, <3>2 DEF Right, Good
    <3>4. \A c \in calls' : c.key # k
      BY <2>2 DEF Pending
    <3> QED BY <3>3, <3>4 DEF RightSoon
  <2> QED BY <2>1, <2>2, <2>3, OneKeySteps
<1>2. ASSUME NEW c \in calls, Deliver(c) PROVE Quiet' /\ RegenerationsHold'
  <2> DEFINE k == c.key
  <2>1. /\ k \in Keys /\ job' = Touch({k}) /\ UNCHANGED <<row, excused>> /\ calls' = calls \ {c}
        /\ docs'[k] = c.doc /\ \A i \in Keys \ {k} : docs'[i] = docs[i]
    BY <1>0, <1>2 DEF Deliver, TypeOK
  <2>2. ASSUME NoneRuns, Quiet, k \notin excused' PROVE RightSoon(k)'
    <3>1. RightSoon(k)
      BY <2>1, <2>2 DEF Quiet
    <3>2. Right(k, c.doc) /\ \A d \in calls' : d.key # k
      BY <2>1, <3>1 DEF RightSoon
    <3>3. Right(k, docs[k])'
      BY <2>1, <3>2 DEF Right, Good
    <3> QED BY <3>2, <3>3 DEF RightSoon
  <2>3. \A d : d.key # k => (d \in calls' <=> d \in calls)
    BY <2>1
  <2> QED BY <2>1, <2>2, <2>3, OneKeySteps
<1>3. ASSUME NEW c \in calls, Lose(c) PROVE Quiet' /\ RegenerationsHold'
  <2> DEFINE k == c.key
  <2>1. /\ k \in Keys /\ job' = Touch({k}) /\ UNCHANGED <<row, docs>> /\ calls' = calls \ {c}
        /\ excused' = excused \cup {k}
    BY <1>0, <1>3 DEF Lose
  <2>2. \A d : d.key # k => (d \in calls' <=> d \in calls)
    BY <2>1
  <2> QED BY <2>1, <2>2, OneKeySteps
<1>4. ASSUME ServerDown \/ ServerUp PROVE Quiet' /\ RegenerationsHold'
  <2>1. UNCHANGED <<row, docs, calls, job, excused>>
    BY <1>4 DEF ServerDown, ServerUp, Fault
  <2>2. Quiet'
    BY <2>1 DEF FreshInv, Quiet, NoneRuns, Running, RightSoon, Pending, Right, Good
  <2>3. RegenerationsHold'
    BY <2>1 DEF FreshInv, RegenerationsHold, Alone, Running, Regenerating, KeyInOrder, Listed,
                Settled, Right, Good
  <2> QED BY <2>2, <2>3
<1>5. ASSUME NEW p \in Processes, Crash(p) PROVE Quiet' /\ RegenerationsHold'
  <2> DEFINE lost == IF p = Site THEN {c.key : c \in calls} ELSE {}
             cut == {k \in Keys : p = Site /\ row[k].state \in {"open", "merging"}}
             S == lost \cup cut
  <2>1. S \in SUBSET Keys
    BY <1>0
  <2>2. /\ job' = [Touch(S) EXCEPT ![p] = Boot] /\ UNCHANGED docs
        /\ calls' = IF p = Site THEN {} ELSE calls
        /\ \A k \in Keys \ cut : row'[k] = row[k]
        /\ excused' = IF Running(p) THEN Keys ELSE excused \cup lost \cup cut
    BY <1>5 DEF Crash, Fault
  <2>3. p = Site => \A c \in calls : c.key \in S
    OBVIOUS
  <2>4. \A k \in Keys \ S : row'[k] = row[k] /\ docs'[k] = docs[k]
    BY <2>2
  <2>5. excused \subseteq excused' /\ (~Running(p) => excused' = excused \cup S)
    BY <1>0, <2>2 DEF TypeOK
  <2> HIDE DEF lost, cut, S
  <2>6. Touch(S) \in [Processes -> Job] /\ \A q \in Processes :
          Touch(S)[q] = [job[q] EXCEPT !.touched = IF Running(q) THEN @ \cup S ELSE @]
    BY <1>0, <2>1, TouchHolds
  <2>7. ~Running(p)' /\ \A q \in Processes \ {p} : job'[q] = Touch(S)[q]
    <3>1. job'[p] = Boot /\ \A q \in Processes \ {p} : job'[q] = Touch(S)[q]
      BY <2>2, <2>6
    <3> QED BY <3>1 DEF Running, Boot
  <2>8. \A q \in Processes \ {p} : Running(q)' = Running(q)
    BY <1>0, <2>6, <2>7 DEF Running, TypeOK, Job
  <2>9. RegenerationsHold'
    <3>1. \A q \in Processes : Running(q)' =>
            Running(q) /\ job'[q] = [job[q] EXCEPT !.touched = @ \cup S]
      BY <2>6, <2>7, <2>8
    <3>2. \A c \in calls' : c \in calls \/ c.key \in S
      BY <2>2
    <3> QED BY <2>1, <2>4, <2>5, <3>1, <3>2, OthersKeepRegenerations
  <2>10. ASSUME NEW k \in Keys \ excused' PROVE NoneRuns' => RightSoon(k)'
    <3>1. ~Running(p) /\ k \notin excused /\ k \notin S
      BY <2>2, <2>5, <2>10
    <3>2. SUFFICES ASSUME NoneRuns' PROVE RightSoon(k)'
      OBVIOUS
    <3>3. RightSoon(k)
      BY <2>8, <3>1, <3>2 DEF FreshInv, Quiet, NoneRuns
    <3>4. \A c : c.key = k => (c \in calls' <=> c \in calls)
      BY <2>2, <2>3, <3>1
    <3> QED BY <2>4, <3>1, <3>3, <3>4, OthersKeepRightSoon
  <2> QED BY <2>9, <2>10 DEF Quiet
<1> QED BY <1>1, <1>2, <1>3, <1>4, <1>5

\* A step of process p by itself. Another that runs is not alone, so that only
\* where p is, if it is alone, is to be shown.
LEMMA OwnStepKeepsFresh ==
  ASSUME FreshInv, NEW p \in Processes, Running(p), Running(p)',
         \A q \in Processes \ {p} : job'[q] = job[q],
         job'[p].alone = job[p].alone,
         Alone(p) /\ Regenerating(p) => Regenerating(p)'
  PROVE  Quiet' /\ RegenerationsHold'
<1>1. Quiet'
  BY DEF Quiet, NoneRuns
<1>2. ASSUME NEW q \in Processes, Alone(q)' PROVE Regenerating(q)'
  <2>1. Alone(q)
    BY <1>2 DEF Alone, Running
  <2>2. q = p
    BY <2>1 DEF FreshInv, IndexInv, AloneHolds
  <2> QED BY <2>1, <2>2 DEF FreshInv, RegenerationsHold
<1> QED BY <1>1, <1>2 DEF RegenerationsHold

\* Where p is after such a step, if the rows and what is on its way are as before.
LEMMA NextRegenerating ==
  ASSUME NEW p \in Processes, NEW n, job'[p] = n, UNCHANGED <<row, calls>>,
         Regenerating(p), job[p].touched \subseteq n.touched, InOrder(n),
         \A k \in Keys \ n.touched :
           /\ n.seen[k] # 0 => n.seen[k] = row[k].ver /\ Listed(k)
           /\ \A kind \in KindsRead(n) : k \in KeysOf(kind) /\ Listed(k) => n.seen[k] # 0
           /\ n.scope = "allEntities" /\ Begun(n) /\ Settled(k) =>
                /\ docs'[k] # NoDoc => Good(k, docs'[k]) /\ Listed(k)
                /\ k \in Sent(n) /\ Listed(k) => docs'[k] # NoDoc
           /\ n.scope # "allEntities" /\ k \notin excused' /\ Settled(k) => Right(k, docs'[k])
  PROVE  Regenerating(p)'
<1>1. \A m \in calls' : m.key \in job'[p].touched
  BY DEF Regenerating
<1>2. InOrder(job[p])'
  BY DEF InOrder, Begun, KindsRead
<1>3. \A k \in Keys : Listed(k)' = Listed(k) /\ Settled(k)' = Settled(k)
        /\ Good(k, docs[k])' = Good(k, docs'[k]) /\ Right(k, docs[k])' = Right(k, docs'[k])
  BY DEF Listed, Settled, Good, Right
<1>4. \A k \in Keys \ job'[p].touched : KeyInOrder(job[p], k)'
  <2> TAKE k \in Keys \ job'[p].touched
  <2>1. /\ job'[p].seen[k] # 0 => job'[p].seen[k] = row'[k].ver /\ Listed(k)'
        /\ \A kind \in KindsRead(job'[p]) : k \in KeysOf(kind) /\ Listed(k)' => job'[p].seen[k] # 0
        /\ job'[p].scope = "allEntities" /\ Begun(job'[p]) /\ Settled(k)' =>
             /\ docs'[k] # NoDoc => Good(k, docs[k])' /\ Listed(k)'
             /\ k \in Sent(job'[p]) /\ Listed(k)' => docs'[k] # NoDoc
        /\ job'[p].scope # "allEntities" /\ k \notin excused' /\ Settled(k)' => Right(k, docs[k])'
    BY <1>3
  <2> QED BY <2>1 DEF KeyInOrder
<1> QED BY <1>1, <1>2, <1>4 DEF Regenerating

LEMMA StartKeepsFresh ==
  ASSUME FreshInv, NEW p \in Processes, NEW scope \in Scopes, ~Running(p), Start(p, scope)
  PROVE  Quiet' /\ RegenerationsHold'
<1>0. TypeOK /\ IndexInv
  BY DEF FreshInv, IndexInv, StoreInv
<1>1. /\ job'[p].pc = "check" /\ (job'[p].alone <=> Others(p) = {})
      /\ \A q \in Processes \ {p} :
           job'[q].pc = job[q].pc /\ job'[q].alone = (job[q].alone /\ ~Running(q))
  BY <1>0, StartKeepsIndex
<1>2. Quiet'
  BY <1>1 DEF Quiet, NoneRuns, Running
<1>3. ASSUME NEW q \in Processes, Alone(q)' PROVE Regenerating(q)'
  <2>1. q = p /\ Others(p) = {}
    BY <1>1, <1>3 DEF Alone, Running
  <2>2. NoneRuns /\ UNCHANGED <<row, docs, calls, excused>>
    BY <2>1 DEF Others, NoneRuns, Start
  <2>3. /\ job'[p].pc = "check" /\ job'[p].scope = scope /\ job'[p].unread = {} /\ job'[p].todo = {}
        /\ job'[p].seen = [k \in Keys |-> 0] /\ job'[p].touched = {c.key : c \in calls}
    BY DEF Start, Boot
  <2>4. InOrder(job[p])'
    BY <2>3, KeysOfKinds DEF InOrder, KindsRead, Begun
  <2>5. ASSUME NEW k \in Keys \ {c.key : c \in calls} PROVE KeyInOrder(job[p], k)'
    <3>1. k \notin excused => Right(k, docs[k])
      BY <2>2, <2>5 DEF FreshInv, Quiet, RightSoon, Pending
    <3>2. Right(k, docs[k])' = Right(k, docs[k])
      BY <2>2 DEF Right, Good
    <3>3. job'[p].seen[k] = 0
      BY <2>3
    <3> QED BY <2>2, <2>3, <3>1, <3>2, <3>3 DEF KeyInOrder, KindsRead, Begun
  <2> QED BY <2>1, <2>2, <2>3, <2>4, <2>5 DEF Regenerating
<1> QED BY <1>2, <1>3 DEF RegenerationsHold

LEMMA FailKeepsFresh ==
  ASSUME FreshInv, NEW p \in Processes, Running(p), Fail(p)
  PROVE  Quiet' /\ RegenerationsHold'
<1>1. /\ excused' = Keys /\ job'[p].pc = "failed" /\ \A q \in Processes \ {p} : job'[q] = job[q]
  BY StoreTypes DEF Fail, Step, FreshInv, IndexInv, StoreInv, TypeOK, Job
<1>2. \A q \in Processes : ~Alone(q)'
  <2>1. ~Alone(p)'
    BY <1>1 DEF Alone, Running
  <2>2. \A q \in Processes \ {p} : Alone(q)' => Alone(q)
    BY <1>1 DEF Alone, Running
  <2> QED BY <2>1, <2>2 DEF FreshInv, IndexInv, AloneHolds
<1> QED BY <1>1, <1>2 DEF Quiet, RegenerationsHold

LEMMA RefreshKeepsFresh ==
  ASSUME FreshInv, NEW p \in Processes, Refresh(p)
  PROVE  Quiet' /\ RegenerationsHold'
<1>1. /\ Running(p) /\ job[p].pc = "refresh" /\ UNCHANGED <<row, docs, calls>>
      /\ job'[p].pc = "done" /\ \A q \in Processes \ {p} : job'[q] = job[q]
  BY DEF Refresh, Step, Running, Boot, FreshInv, IndexInv, StoreInv, TypeOK
<1>2. \A q \in Processes : ~Alone(q)'
  <2>1. ~Alone(p)'
    BY <1>1 DEF Alone, Running
  <2>2. \A q \in Processes \ {p} : Alone(q)' => Alone(q)
    BY <1>1 DEF Alone, Running
  <2> QED BY <1>1, <2>1, <2>2 DEF FreshInv, IndexInv, AloneHolds
<1>3. ASSUME NEW k \in Keys \ excused' PROVE RightSoon(k)'
  <2>1. Alone(p) /\ Regenerating(p)
    BY <1>1, <1>3 DEF Refresh, Alone, FreshInv, RegenerationsHold
  <2>2. /\ k \notin job[p].touched /\ Settled(k)
        /\ job[p].scope # "allEntities" => k \notin excused
    BY <1>3, <2>1 DEF Refresh, Alone, Settled
  <2>3. KeyInOrder(job[p], k) /\ \A c \in calls : c.key # k
    BY <2>1, <2>2 DEF Regenerating
  <2>4. Begun(job[p]) /\ k \in Sent(job[p])
    BY <1>1 DEF Begun, Sent
  <2>5. Right(k, docs[k])
    <3>1. CASE job[p].scope # "allEntities"
      BY <2>2, <2>3, <3>1 DEF KeyInOrder
    <3>2. CASE job[p].scope = "allEntities"
      <4>1. /\ docs[k] # NoDoc => Good(k, docs[k]) /\ Listed(k)
            /\ Listed(k) => docs[k] # NoDoc
        BY <2>2, <2>3, <2>4, <3>2 DEF KeyInOrder
      <4> QED BY <2>2, <4>1 DEF Right, Listed, Settled
    <3> QED BY <3>1, <3>2
  <2>6. Right(k, docs[k])' = Right(k, docs[k])
    BY <1>1 DEF Right, Good
  <2> QED BY <1>1, <2>3, <2>5, <2>6 DEF RightSoon
<1> QED BY <1>2, <1>3 DEF Quiet, RegenerationsHold

\* From one phase to the next, with nothing read or sent.
LEMMA ChecksKeepFresh ==
  ASSUME FreshInv, NEW p \in Processes, Check(p) \/ DeleteIndex(p) \/ CreateIndex(p)
  PROVE  Quiet' /\ RegenerationsHold'
<1>0. job[p] \in Job /\ Running(p) /\ UNCHANGED <<row, calls>> /\ NoneWithoutIndex
      /\ job[p].pc \in {"check", "delete", "create"}
  BY StoreTypes DEF FreshInv, IndexInv, Check, DeleteIndex, CreateIndex, Running, Fail, Step
<1>1. CASE Fail(p)
  BY <1>0, <1>1, FailKeepsFresh
<1>2. ASSUME ~Fail(p)
      PROVE  /\ \A q \in Processes \ {p} : job'[q] = job[q]
             /\ excused' = excused
             /\ \/ /\ job'[p] = [job[p] EXCEPT !.pc = "create"]
                   /\ docs' = docs \/ job[p].pc = "delete"
                \/ job'[p] = [job[p] EXCEPT !.pc = "delete"] /\ job[p].scope = "allEntities"
                   /\ docs' = docs
                \/ /\ job'[p] = Reading(job[p]) /\ docs' = docs
                   /\ job[p].scope = "allEntities" => \A k \in Keys : docs[k] = NoDoc
  <2>1. CASE Check(p)
    BY <1>2, <2>1 DEF Check, Step, FreshInv, IndexInv, StoreInv, TypeOK
  <2>2. CASE DeleteIndex(p)
    BY <1>2, <2>2 DEF DeleteIndex, Step, FreshInv, IndexInv, StoreInv, TypeOK
  <2>3. CASE CreateIndex(p)
    BY <1>0, <1>2, <2>3 DEF CreateIndex, Step, FreshInv, IndexInv, StoreInv, TypeOK, NoneWithoutIndex
  <2> QED BY <2>1, <2>2, <2>3
<1>3. ASSUME ~Fail(p), Regenerating(p) PROVE Regenerating(p)'
  <2> DEFINE j == job[p]
  <2>1. /\ j \in Job /\ InOrder(j) /\ ~Begun(j) /\ j.todo = {} /\ \A k \in Keys : j.seen[k] = 0
        /\ \A k \in Keys \ j.touched : KeyInOrder(j, k)
    BY <1>0, <1>3 DEF Regenerating, InOrder, Begun
  <2> HIDE DEF j
  <2>2. ASSUME NEW pc \in {"create", "delete"}, job'[p] = [j EXCEPT !.pc = pc],
               pc = "delete" => j.scope = "allEntities",
               docs' = docs \/ j.scope = "allEntities"
        PROVE  Regenerating(p)'
    <3> DEFINE n == [j EXCEPT !.pc = pc]
    <3>1. /\ n.pc = pc /\ n.scope = j.scope /\ n.unread = j.unread /\ n.seen = j.seen
          /\ n.todo = {} /\ n.touched = j.touched
      BY <2>1 DEF Job
    <3> HIDE DEF n
    <3>2. ~Begun(n) /\ KindsRead(n) = {}
      BY <2>2, <3>1 DEF Begun, KindsRead
    <3>3. InOrder(n)
      BY <2>1, <2>2, <3>1, <3>2 DEF InOrder
    <3>4. \A k \in Keys \ n.touched :
            n.scope # "allEntities" /\ k \notin excused' /\ Settled(k) => Right(k, docs'[k])
      BY <1>2, <1>3, <2>1, <2>2, <3>1 DEF KeyInOrder
    <3>5. job'[p] = n /\ job[p].touched \subseteq n.touched
      BY <2>2, <3>1 DEF n, j
    <3> QED BY <1>0, <1>3, <2>1, <3>1, <3>2, <3>3, <3>4, <3>5, NextRegenerating
  <2>3. ASSUME job'[p] = Reading(j), docs' = docs,
               j.scope = "allEntities" => \A k \in Keys : docs[k] = NoDoc
        PROVE  Regenerating(p)'
    <3> DEFINE n == Reading(j)
    <3>1. /\ n.scope = j.scope /\ n.unread = EntityKinds(j.scope) /\ n.seen = j.seen
          /\ n.todo = {} /\ n.touched = j.touched
          /\ \/ n.pc = "read" /\ j.scope # "Collection"
             \/ n.pc = "readCollections" /\ j.scope = "Collection"
      BY <2>1 DEF Job, Reading, EntityKinds, Kinds
    <3> HIDE DEF n
    <3>2. KindsRead(n) = {} /\ (j.scope = "allEntities" => Sent(n) = {})
      BY <3>1 DEF Sent, KindsRead
    <3>3. InOrder(n)
      BY <2>1, <3>1, <3>2, KeysOfKinds DEF InOrder, Begun
    <3>4. \A k \in Keys \ n.touched :
            n.scope # "allEntities" /\ k \notin excused' /\ Settled(k) => Right(k, docs'[k])
      BY <1>2, <1>3, <2>1, <2>3, <3>1 DEF KeyInOrder
    <3>5. job'[p] = n /\ job[p].touched \subseteq n.touched
      BY <2>3, <3>1 DEF n, j
    <3> QED BY <1>0, <1>3, <2>1, <2>3, <3>1, <3>2, <3>3, <3>4, <3>5, NextRegenerating
  <2>4. j.pc = "delete" => j.scope = "allEntities"
    BY <2>1 DEF InOrder
  <2>5. CASE /\ job'[p] = [j EXCEPT !.pc = "create"]
             /\ docs' = docs \/ j.pc = "delete"
    BY <2>2, <2>4, <2>5
  <2>6. CASE job'[p] = [j EXCEPT !.pc = "delete"] /\ j.scope = "allEntities" /\ docs' = docs
    BY <2>2, <2>6
  <2>7. CASE /\ job'[p] = Reading(j) /\ docs' = docs
             /\ j.scope = "allEntities" => \A k \in Keys : docs[k] = NoDoc
    BY <2>3, <2>7
  <2> QED BY <1>2, <1>3, <2>5, <2>6, <2>7 DEF j
<1>4. ASSUME ~Fail(p) PROVE Running(p)' /\ job'[p].alone = job[p].alone
  <2>1. CASE job'[p] = [job[p] EXCEPT !.pc = "create"] \/ job'[p] = [job[p] EXCEPT !.pc = "delete"]
    BY <1>0, <2>1 DEF Job, Running
  <2>2. CASE job'[p] = Reading(job[p])
    <3>1. job'[p].pc \in {"read", "readCollections"} /\ job'[p].alone = job[p].alone
      BY <1>0, <2>2 DEF Job, Reading
    <3> QED BY <3>1 DEF Running
  <2> QED BY <1>2, <1>4, <2>1, <2>2
<1> QED BY <1>0, <1>1, <1>2, <1>3, <1>4, OwnStepKeepsFresh

LEMMA KindsOfEntities ==
  /\ \A k \in Entities : \E kind \in Kinds : k \in KeysOf(kind)
  /\ \A kind \in Kinds : KeysOf(kind) \subseteq Entities
  /\ \A k \in Authors : k \in KeysOf("Author") /\ \A kind \in Kinds : k \in KeysOf(kind) => kind = "Author"
BY KeyAssumption DEF Entities, Kinds, KeysOf

LEMMA ReadRowsKeepsFresh ==
  ASSUME FreshInv, NEW p \in Processes, NEW kind \in Kinds, ReadRows(p, kind)
  PROVE  Quiet' /\ RegenerationsHold'
<1> DEFINE j == job[p]
           seen == [k \in Keys |->
                      IF k \in KeysOf(kind) /\ Listed(k) THEN row[k].ver ELSE j.seen[k]]
           last == j.unread = {kind}
           n == [j EXCEPT !.seen = seen, !.unread = @ \ {kind},
                          !.pc = IF last THEN "bulk" ELSE @,
                          !.todo = IF last THEN {k \in Keys : seen[k] # 0} ELSE {}]
<1>0. /\ j \in Job /\ j.pc = "read" /\ kind \in j.unread /\ UNCHANGED <<row, calls, docs, excused>>
      /\ StoreInv
  BY StoreTypes DEF FreshInv, IndexInv, ReadRows, Step
<1>1. job'[p] = n /\ \A q \in Processes \ {p} : job'[q] = job[q]
  BY DEF ReadRows, Step, FreshInv, IndexInv, StoreInv, TypeOK
<1>2. \A k \in Keys : /\ k \in KeysOf(kind) /\ Listed(k) => seen[k] = row[k].ver /\ seen[k] # 0
                      /\ ~(k \in KeysOf(kind) /\ Listed(k)) => seen[k] = j.seen[k]
  BY <1>0 DEF Listed, StoreInv, RowsHold
<1> HIDE DEF seen
<1>3. /\ n.seen = seen /\ n.unread = j.unread \ {kind} /\ n.scope = j.scope
      /\ n.touched = j.touched /\ n.alone = j.alone
      /\ \/ n.pc = "read" /\ n.todo = {}
         \/ n.pc = "bulk" /\ j.unread = {kind} /\ n.todo = {k \in Keys : seen[k] # 0}
  BY <1>0 DEF Job
<1> HIDE DEF n
<1>4. ASSUME Regenerating(p) PROVE Regenerating(p)'
  <2>1. InOrder(j) /\ \A k \in Keys \ j.touched : KeyInOrder(j, k)
    BY <1>4 DEF Regenerating
  <2> HIDE DEF j
  <2>2. j.unread \subseteq EntityKinds(j.scope) /\ j.scope # "Collection"
        /\ KindsRead(j) = EntityKinds(j.scope) \ j.unread
    BY <1>0, <2>1 DEF InOrder, KindsRead
  <2>3. KindsRead(n) = KindsRead(j) \cup {kind}
    BY <1>0, <1>3, <2>2 DEF KindsRead
  <2>4. InOrder(n)
    <3>1. "Author" \in KindsRead(n) => \A k \in Authors : n.seen[k] # 0
      <4> SUFFICES ASSUME "Author" \in KindsRead(n), NEW k \in Authors PROVE seen[k] # 0
        BY <1>3
      <4>1. k \in Keys /\ Listed(k)
        BY <1>0, KeysOfKinds DEF Listed, StoreInv, RowsHold
      <4>2. CASE kind = "Author"
        BY <1>2, <4>1, <4>2, KindsOfEntities
      <4>3. CASE kind # "Author"
        <5>1. j.seen[k] # 0
          BY <2>1, <2>3, <4>3 DEF InOrder
        <5> QED BY <1>2, <4>1, <4>3, <5>1, KindsOfEntities
      <4> QED BY <4>2, <4>3
    <3>2. \A k \in Collections : n.seen[k] = 0
      BY <1>0, <1>2, <1>3, <2>1, <2>2, KindsOfEntities, KeysOfKinds, KeyAssumption DEF InOrder
    <3>3. n.unread \subseteq EntityKinds(n.scope)
      BY <1>3, <2>2
    <3> QED BY <1>3, <2>2, <3>1, <3>2, <3>3 DEF InOrder, Begun
  <2>5. ASSUME NEW k \in Keys \ n.touched
        PROVE  /\ n.seen[k] # 0 => n.seen[k] = row[k].ver /\ Listed(k)
               /\ \A i \in KindsRead(n) : k \in KeysOf(i) /\ Listed(k) => n.seen[k] # 0
               /\ n.scope = "allEntities" /\ Begun(n) /\ Settled(k) =>
                    /\ docs'[k] # NoDoc => Good(k, docs'[k]) /\ Listed(k)
                    /\ k \in Sent(n) /\ Listed(k) => docs'[k] # NoDoc
               /\ n.scope # "allEntities" /\ k \notin excused' /\ Settled(k) => Right(k, docs'[k])
    <3>1. KeyInOrder(j, k) /\ Begun(j) /\ Begun(n)
      BY <1>0, <1>3, <2>1, <2>5 DEF Begun
    <3>2. n.seen[k] # 0 => n.seen[k] = row[k].ver /\ Listed(k)
      BY <1>2, <1>3, <3>1 DEF KeyInOrder
    <3>3. \A i \in KindsRead(n) : k \in KeysOf(i) /\ Listed(k) => n.seen[k] # 0
      BY <1>2, <1>3, <2>3, <3>1 DEF KeyInOrder
    <3>4. n.scope = "allEntities" /\ k \in Sent(n) => ~Listed(k)
      <4> SUFFICES ASSUME n.scope = "allEntities", k \in Sent(n), Listed(k) PROVE FALSE
        OBVIOUS
      <4>1. n.pc = "bulk" /\ k \in Entities \ n.todo
        BY <1>3 DEF Sent
      <4>2. KindsRead(n) = Kinds
        BY <1>3, <4>1 DEF KindsRead, EntityKinds
      <4>3. n.seen[k] # 0
        BY <3>3, <4>1, <4>2, KindsOfEntities
      <4> QED BY <1>3, <4>1, <4>3
    <3> QED BY <1>0, <1>3, <3>1, <3>2, <3>3, <3>4 DEF KeyInOrder
  <2>6. job[p].touched \subseteq n.touched
    BY <1>3 DEF j
  <2> QED BY <1>0, <1>1, <1>4, <2>4, <2>5, <2>6, NextRegenerating
<1>5. Running(p) /\ Running(p)' /\ job'[p].alone = job[p].alone
  BY <1>0, <1>1, <1>3 DEF Running
<1> QED BY <1>1, <1>4, <1>5, OwnStepKeepsFresh

LEMMA ReadCollectionsKeepsFresh ==
  ASSUME FreshInv, NEW p \in Processes, ReadCollections(p)
  PROVE  Quiet' /\ RegenerationsHold'
<1> DEFINE j == job[p]
           public == {k \in Collections : Listed(k)}
           seen == [k \in Keys |-> IF k \in public THEN row[k].ver ELSE j.seen[k]]
           n == [j EXCEPT !.pc = "bulkCollections", !.todo = public, !.seen = seen]
<1>0. /\ j \in Job /\ j.pc = "readCollections" /\ UNCHANGED <<row, calls, docs, excused>>
      /\ StoreInv
  BY StoreTypes DEF FreshInv, IndexInv, ReadCollections, Step
<1>1. job'[p] = n /\ \A q \in Processes \ {p} : job'[q] = job[q]
  BY DEF ReadCollections, Step, FreshInv, IndexInv, StoreInv, TypeOK
<1>2. \A k \in Keys : seen[k] = IF k \in public THEN row[k].ver ELSE j.seen[k]
  OBVIOUS
<1> HIDE DEF seen
<1>3. /\ n.seen = seen /\ n.unread = j.unread /\ n.scope = j.scope /\ n.pc = "bulkCollections"
      /\ n.touched = j.touched /\ n.alone = j.alone /\ n.todo = public
  BY <1>0 DEF Job
<1> HIDE DEF n
<1>4. ASSUME Regenerating(p) PROVE Regenerating(p)'
  <2>1. InOrder(j) /\ \A k \in Keys \ j.touched : KeyInOrder(j, k)
    BY <1>4 DEF Regenerating
  <2> HIDE DEF j
  <2>2. KindsRead(n) = {} /\ Begun(n) /\ Begun(j) /\ Sent(n) = Keys \ public /\ Sent(j) = Entities
    BY <1>0, <1>3 DEF KindsRead, Begun, Sent
  <2>3. InOrder(n)
    BY <1>3, <2>1, <2>2 DEF InOrder
  <2>4. ASSUME NEW k \in Keys \ n.touched
        PROVE  /\ n.seen[k] # 0 => n.seen[k] = row[k].ver /\ Listed(k)
               /\ n.scope = "allEntities" /\ Begun(n) /\ Settled(k) =>
                    /\ docs'[k] # NoDoc => Good(k, docs'[k]) /\ Listed(k)
                    /\ k \in Sent(n) /\ Listed(k) => docs'[k] # NoDoc
               /\ n.scope # "allEntities" /\ k \notin excused' /\ Settled(k) => Right(k, docs'[k])
    <3>1. KeyInOrder(j, k)
      BY <1>3, <2>1, <2>4
    <3>2. n.seen[k] # 0 => n.seen[k] = row[k].ver /\ Listed(k)
      BY <1>2, <1>3, <3>1 DEF KeyInOrder
    <3>3. k \in Sent(n) /\ Listed(k) => k \in Sent(j)
      BY <2>2 DEF Keys
    <3> QED BY <1>0, <1>3, <2>2, <3>1, <3>2, <3>3 DEF KeyInOrder
  <2>5. job[p].touched \subseteq n.touched
    BY <1>3 DEF j
  <2> QED BY <1>0, <1>1, <1>4, <2>2, <2>3, <2>4, <2>5, NextRegenerating
<1>5. Running(p) /\ Running(p)' /\ job'[p].alone = job[p].alone
  BY <1>0, <1>1, <1>3 DEF Running
<1> QED BY <1>1, <1>4, <1>5, OwnStepKeepsFresh

LEMMA BulkDoneKeepsFresh ==
  ASSUME FreshInv, NEW p \in Processes, BulkDone(p)
  PROVE  Quiet' /\ RegenerationsHold'
<1> DEFINE j == job[p]
           pc == IF j.pc = "bulk" /\ j.scope = "allEntities" THEN "readCollections" ELSE "refresh"
           n == [j EXCEPT !.pc = pc]
<1>0. /\ j \in Job /\ j.pc \in {"bulk", "bulkCollections"} /\ j.todo = {}
      /\ UNCHANGED <<row, calls, docs, excused>>
  BY StoreTypes DEF FreshInv, IndexInv, BulkDone, Step
<1>1. job'[p] = n /\ \A q \in Processes \ {p} : job'[q] = job[q]
  BY DEF BulkDone, Step, FreshInv, IndexInv, StoreInv, TypeOK
<1>3. /\ n.seen = j.seen /\ n.unread = j.unread /\ n.scope = j.scope
      /\ n.touched = j.touched /\ n.alone = j.alone /\ n.todo = {}
      /\ \/ n.pc = "readCollections" /\ j.pc = "bulk" /\ j.scope = "allEntities"
         \/ n.pc = "refresh" /\ (j.pc = "bulkCollections" \/ j.scope # "allEntities")
  BY <1>0 DEF Job
<1> HIDE DEF n
<1>4. ASSUME Regenerating(p) PROVE Regenerating(p)'
  <2>1. InOrder(j) /\ \A k \in Keys \ j.touched : KeyInOrder(j, k)
    BY <1>4 DEF Regenerating
  <2> HIDE DEF j
  <2>2. KindsRead(n) = {} /\ Begun(n) /\ Begun(j)
        /\ (j.scope = "allEntities" => Sent(n) \subseteq Sent(j))
    BY <1>0, <1>3 DEF KindsRead, Begun, Sent
  <2>3. InOrder(n)
    BY <1>3, <2>1, <2>2 DEF InOrder
  <2>4. ASSUME NEW k \in Keys \ n.touched
        PROVE  /\ n.seen[k] # 0 => n.seen[k] = row[k].ver /\ Listed(k)
               /\ n.scope = "allEntities" /\ Begun(n) /\ Settled(k) =>
                    /\ docs'[k] # NoDoc => Good(k, docs'[k]) /\ Listed(k)
                    /\ k \in Sent(n) /\ Listed(k) => docs'[k] # NoDoc
               /\ n.scope # "allEntities" /\ k \notin excused' /\ Settled(k) => Right(k, docs'[k])
    <3>1. KeyInOrder(j, k)
      BY <1>3, <2>1, <2>4
    <3> QED BY <1>0, <1>3, <2>2, <3>1 DEF KeyInOrder
  <2>5. job[p].touched \subseteq n.touched
    BY <1>3 DEF j
  <2> QED BY <1>0, <1>1, <1>4, <2>2, <2>3, <2>4, <2>5, NextRegenerating
<1>5. Running(p) /\ Running(p)' /\ job'[p].alone = job[p].alone
  BY <1>0, <1>1, <1>3 DEF Running
<1> QED BY <1>1, <1>4, <1>5, OwnStepKeepsFresh

LEMMA BulkKeepsFresh ==
  ASSUME FreshInv, NEW p \in Processes, BulkProgress(p) \/ BulkUnanswered(p)
  PROVE  Quiet' /\ RegenerationsHold'
<1> DEFINE j == job[p]
<1>0. PICK accepted \in SUBSET j.todo, refused \in SUBSET j.todo, answered \in BOOLEAN :
        Bulk(p, accepted, refused, answered)
  BY DEF BulkProgress, BulkUnanswered
<1> DEFINE n == IF answered
                THEN [j EXCEPT !.todo = Repeat(@, accepted, refused), !.touched = @ \cup refused]
                ELSE j
<1>1. /\ j \in Job /\ j.pc \in {"bulk", "bulkCollections"} /\ UNCHANGED <<row, calls, excused>>
      /\ docs' = [k \in Keys |-> IF k \in accepted THEN Rebuilt(p, k) ELSE docs[k]]
  BY <1>0, StoreTypes DEF FreshInv, IndexInv, Bulk, Step
<1>2. job'[p] = n /\ \A q \in Processes \ {p} : job'[q] = job[q]
  BY <1>0 DEF Bulk, Step, FreshInv, IndexInv, StoreInv, TypeOK
<1>3. /\ n.seen = j.seen /\ n.unread = j.unread /\ n.scope = j.scope /\ n.pc = j.pc /\ n.alone = j.alone
      /\ j.touched \subseteq n.touched /\ n.todo \subseteq j.todo
      /\ \A k \in j.todo \ n.todo : k \in accepted \/ k \in n.touched
  BY <1>1 DEF Job, Repeat
<1> HIDE DEF n
<1>4. \A k \in accepted : /\ k \in Keys /\ k \in j.todo /\ j.seen[k] # 0 /\ docs'[k] = Rebuilt(p, k)
                          /\ Rebuilt(p, k) # NoDoc /\ Rebuilt(p, k).ver = j.seen[k]
  <2> TAKE k \in accepted
  <2>1. k \in Keys /\ k \in j.todo /\ j.seen[k] # 0 /\ docs'[k] = Rebuilt(p, k)
    BY <1>1 DEF Job, FreshInv, IndexInv, StoreInv, VersionsHold
  <2>2. Rebuilt(p, k).ver = j.seen[k]
    BY DEF Rebuilt
  <2>3. Rebuilt(p, k) \in Document
    <3>1. 0 \in Version /\ \A i \in Keys : j.seen[i] \in Version
      BY <1>1, BoundAssumption DEF Job, Version
    <3>2. k \in Works => j.seen[AuthorOf[k]] \in Version
      BY <3>1, KeysOfKinds
    <3> QED BY <2>1, <3>1, <3>2 DEF Rebuilt, Document
  <2> QED BY <2>1, <2>2, <2>3, SentinelAssumption
<1>5. ASSUME Regenerating(p) PROVE Regenerating(p)'
  <2>1. InOrder(j) /\ \A k \in Keys \ j.touched : KeyInOrder(j, k)
    BY <1>5 DEF Regenerating
  <2>2. KindsRead(n) = KindsRead(j) /\ Begun(n) /\ Begun(j)
    BY <1>1, <1>3 DEF KindsRead, Begun
  <2>3. InOrder(n)
    BY <1>1, <1>3, <2>1, <2>2 DEF InOrder
  <2>4. \A k \in accepted : k \in Works => Rebuilt(p, k).by # 0
    <3> SUFFICES ASSUME NEW k \in accepted, k \in Works PROVE j.seen[AuthorOf[k]] # 0
      BY DEF Rebuilt
    <3>1. j.pc = "bulk"
      <4>1. k \notin Collections
        BY KeyAssumption DEF Entities
      <4> QED BY <1>1, <1>4, <2>1, <4>1 DEF InOrder
    <3>2. j.scope \in Scopes \ {"Collection"}
      BY <1>1, <2>1, <3>1 DEF InOrder, Job
    <3>3. "Author" \in KindsRead(j)
      BY <3>1, <3>2 DEF KindsRead, EntityKinds, Scopes, Kinds
    <3> QED BY <2>1, <3>3, KeysOfKinds DEF InOrder
  <2>5. ASSUME NEW k \in Keys \ n.touched
        PROVE  /\ n.seen[k] # 0 => n.seen[k] = row[k].ver /\ Listed(k)
               /\ \A kind \in KindsRead(n) : k \in KeysOf(kind) /\ Listed(k) => n.seen[k] # 0
               /\ n.scope = "allEntities" /\ Begun(n) /\ Settled(k) =>
                    /\ docs'[k] # NoDoc => Good(k, docs'[k]) /\ Listed(k)
                    /\ k \in Sent(n) /\ Listed(k) => docs'[k] # NoDoc
               /\ n.scope # "allEntities" /\ k \notin excused' /\ Settled(k) => Right(k, docs'[k])
    <3>1. KeyInOrder(j, k)
      BY <1>3, <2>1, <2>5
    <3>2. /\ n.seen[k] # 0 => n.seen[k] = row[k].ver /\ Listed(k)
          /\ \A kind \in KindsRead(n) : k \in KeysOf(kind) /\ Listed(k) => n.seen[k] # 0
      BY <1>3, <2>2, <3>1 DEF KeyInOrder
    <3>3. CASE k \in accepted
      <4>1. Good(k, docs'[k]) /\ Listed(k)
        BY <1>4, <2>4, <3>1, <3>3 DEF Good, KeyInOrder
      <4>2. Settled(k) => Right(k, docs'[k])
        BY <4>1 DEF Right, Settled, Listed
      <4> QED BY <3>2, <4>1, <4>2 DEF Good
    <3>4. CASE k \notin accepted
      <4>1. docs'[k] = docs[k]
        BY <1>1, <3>4
      <4>2. k \in Sent(n) => k \in Sent(j)
        BY <1>1, <1>3, <2>5, <3>4 DEF Sent
      <4> QED BY <1>1, <1>3, <2>2, <3>1, <3>2, <4>1, <4>2 DEF KeyInOrder
    <3> QED BY <3>3, <3>4
  <2> QED BY <1>1, <1>2, <1>3, <1>5, <2>3, <2>5, NextRegenerating
<1>6. Running(p) /\ Running(p)' /\ job'[p].alone = job[p].alone
  BY <1>1, <1>2, <1>3 DEF Running
<1> QED BY <1>2, <1>5, <1>6, OwnStepKeepsFresh

LEMMA RegenerationsKeepFresh ==
  ASSUME FreshInv,
         \/ \E scope \in Scopes : Reindex(scope)
         \/ \E p \in Processes : Regenerate(p) \/ BulkProgress(p) \/ BulkUnanswered(p)
  PROVE  Quiet' /\ RegenerationsHold'
<1>1. ASSUME NEW scope \in Scopes, Reindex(scope) PROVE Quiet' /\ RegenerationsHold'
  <2>1. ~Running(Site)
    BY <1>1 DEF Reindex, Running
  <2> QED BY <1>1, <2>1, StartKeepsFresh, SiteAssumption DEF Reindex
<1>2. ASSUME NEW p \in Processes, StartProcess(p) PROVE Quiet' /\ RegenerationsHold'
  <2>1. ~Running(p)
    BY <1>2 DEF StartProcess, Running
  <2>2. CASE up /\ index = "none"
    BY <1>2, <2>1, <2>2, StartKeepsFresh DEF StartProcess, Scopes
  <2>3. CASE ~(up /\ index = "none")
    <3>1. UNCHANGED <<row, docs, calls, excused>> /\ job'[p].pc = "idle"
          /\ \A q \in Processes \ {p} : job'[q] = job[q]
      BY <1>2, <2>3, StoreTypes DEF StartProcess, Step, FreshInv, IndexInv, StoreInv, TypeOK, Job
    <3>2. \A q \in Processes : Running(q)' = Running(q)
      BY <2>1, <3>1 DEF Running
    <3>3. \A k \in Keys : RightSoon(k) => RightSoon(k)'
      BY <3>1, OthersKeepRightSoon
    <3>4. Quiet'
      BY <3>1, <3>2, <3>3 DEF FreshInv, Quiet, NoneRuns
    <3>5. \A q \in Processes : Running(q)' =>
            Running(q) /\ job'[q] = [job[q] EXCEPT !.touched = @ \cup {}]
      <4>1. \A q \in Processes : job[q] = [job[q] EXCEPT !.touched = @ \cup {}]
        BY StoreTypes DEF FreshInv, IndexInv, Job
      <4> QED BY <2>1, <3>1, <3>2, <4>1
    <3>6. RegenerationsHold'
      BY <3>1, <3>5, OthersKeepRegenerations
    <3> QED BY <3>4, <3>6
  <2> QED BY <2>2, <2>3
<1> QED BY <1>1, <1>2, ChecksKeepFresh, ReadRowsKeepsFresh, ReadCollectionsKeepsFresh,
        BulkDoneKeepsFresh, RefreshKeepsFresh, BulkKeepsFresh DEF Regenerate

LEMMA InitFreshInv == Init => FreshInv
<1> SUFFICES ASSUME Init PROVE FreshInv
  OBVIOUS
<1>1. (\A p \in Processes : job[p].pc = "boot") /\ excused = Keys
  BY DEF Init, Boot
<1>2. Quiet /\ RegenerationsHold
  BY <1>1 DEF Quiet, RegenerationsHold, Alone, Running
<1> QED BY <1>2, InitIndexInv DEF FreshInv

LEMMA StepFreshInv == FreshInv /\ [Next]_vars => FreshInv'
<1> SUFFICES ASSUME FreshInv, [Next]_vars PROVE FreshInv'
  OBVIOUS
<1>1. IndexInv'
  BY StepIndexInv DEF FreshInv
<1>2. CASE UNCHANGED vars
  <2>1. UNCHANGED <<row, docs, calls, job, excused>>
    BY <1>2 DEF vars
  <2>2. Quiet'
    BY <2>1 DEF FreshInv, Quiet, NoneRuns, Running, RightSoon, Pending, Right, Good
  <2>3. RegenerationsHold'
    BY <2>1 DEF FreshInv, RegenerationsHold, Alone, Running, Regenerating, KeyInOrder, Listed,
                Settled, Right, Good
  <2> QED BY <1>1, <2>2, <2>3 DEF FreshInv
<1>3. CASE Next
  <2>1. Quiet' /\ RegenerationsHold'
    BY <1>3, WritesKeepFresh, RequestsKeepFresh, RegenerationsKeepFresh DEF Next
  <2> QED BY <1>1, <2>1 DEF FreshInv
<1> QED BY <1>2, <1>3

\* When no regeneration runs, a document is out of date only for a reason that
\* the history records: regenerating the index makes good all that was lost
\* before it.
THEOREM OutOfDateForAReason == Spec => []FreshUnlessExcused
<1>1. FreshInv => FreshUnlessExcused
  <2> SUFFICES ASSUME FreshInv, NoneRuns, NEW k \in Keys \ excused, ~Pending(k),
                      row[k].state \notin {"open", "merging"}
               PROVE  Fresh(k)
    BY DEF FreshUnlessExcused, NoneRuns
  <2>1. Right(k, docs[k])
    BY DEF FreshInv, Quiet, RightSoon
  <2>2. row[k].state \in States
    BY DEF FreshInv, IndexInv, StoreInv, TypeOK, Row
  <2> QED BY <2>1, <2>2 DEF Right, Good, Fresh, States
<1> QED BY <1>1, InitFreshInv, StepFreshInv, PTL DEF Spec
============

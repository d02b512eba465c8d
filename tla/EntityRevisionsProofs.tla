----------------------- MODULE EntityRevisionsProofs -----------------------
(***************************************************************************)
(* What EntityRevisions guarantees for any number of entities, editors,    *)
(* requests and revisions: the safety properties that hold whatever the    *)
(* interleaving, that the handlers implement RevisionStore, and what holds *)
(* as well when requests are served one at a time. At the end, the forms   *)
(* these requests come from: the one that posts many entities at a time    *)
(* (UnifiedForm) and the fields of an entity (EntityFields).               *)
(***************************************************************************)
EXTENDS EntityRevisions, EditorForms, FiniteSetTheorems, SequenceTheorems, WellFoundedInduction, TLAPS

----------------------------------------------------------------------------
(* The inductive invariant.                                                *)

By(ed) == {i \in Ids : author[i] = ed}

Open == {"begun", "saving", "counted"}

Active(r) == phase[r] \notin {"idle", "ended"}

Creating(r) == phase[r] \in {"loaded"} \cup Open /\ task[r].kind = "create"

\* An id that was not committed left nothing behind.
UnusedIdsBlank ==
  \A i \in Ids : author[i] = Absent =>
    parents[i] = {} /\ \A e \in Entities : entityRevision[e][i] = Absent

UnallocatedIdsUnused == \A i \in Ids : i >= nextId => author[i] = Absent

ParentsCommitted == \A i \in Ids : parents[i] \subseteq Committed

NoHeaderNoRows ==
  \A e \in Entities : header[e] = 0 =>
    \A i \in Ids : entityRevision[e][i] = Absent

\* The tables are consistent between commits.
StoreOK ==
  /\ UnusedIdsBlank
  /\ ParentsCommitted
  /\ NoHeaderNoRows
  /\ MasterIsOwnRevision
  /\ AncestryWellFounded
  /\ CreatedOnce
  /\ NoEditOvercounted

\* What a transaction is about to write fits the tables as they are now, not
\* only as they were when it read them.
WritesOK(r) ==
  \A e \in Entities :
    /\ trx[r].base[e] # 0 => trx[r].base[e] \in Committed
    /\ trx[r].write[e] # Absent => IsNew(task[r], e) \/ Exists(e)
    /\ trx[r].write[e] \in Data =>
         \/ IsNew(task[r], e)
         \/ /\ trx[r].base[e] # 0
            /\ entityRevision[e][trx[r].base[e]] \in Data
    /\ task[r].kind # "delete" => trx[r].write[e] # Null

RequestOK(r) ==
  /\ Active(r) => task[r] \in TaskType
  /\ phase[r] = "loaded" /\ task[r].kind # "delete" => task[r].name \in Names
  /\ phase[r] = "loaded" /\ task[r].kind = "create" => loaded[r] = Null
  /\ phase[r] = "loaded" /\ task[r].kind = "delete" => Exists(task[r].main)
  /\ phase[r] = "begun" => task[r].kind # "delete"
  /\ phase[r] = "begun" /\ task[r].kind = "create" => trx[r].name \in Names
  /\ phase[r] \in Open =>
       /\ trx[r].id \in Ids
       /\ trx[r].id < nextId
       /\ author[trx[r].id] = Absent
  /\ Creating(r) => header[task[r].main] = 0
  /\ phase[r] \in {"saving", "counted"} => WritesOK(r)
  /\ phase[r] = "committed" /\ task[r].kind # "delete" =>
       \A e \in Entities : trx[r].write[e] # Null
  /\ phase[r] = "counted" =>
       trx[r].count <= Cardinality(By(task[r].editor))

IdsDistinct ==
  \A q, r \in Requests :
    q # r /\ phase[q] \in Open /\ phase[r] \in Open => trx[q].id # trx[r].id

MainsDistinct ==
  \A q, r \in Requests :
    q # r /\ Active(q) /\ Creating(r) => task[q].main # task[r].main

IInv ==
  /\ TypeOK
  /\ StoreOK
  /\ UnallocatedIdsUnused
  /\ \A r \in Requests : RequestOK(r)
  /\ IdsDistinct
  /\ MainsDistinct
----------------------------------------------------------------------------
(* The initial states.                                                     *)

\* A request without a transaction.
LEMMA NoTrxType == NoTrx \in TrxType
  BY DEF NoTrx, TrxType

\* There are finitely many revision ids, so sets of them can be counted.
LEMMA FiniteIds == \A S \in SUBSET Ids : IsFiniteSet(S) /\ Cardinality(S) \in Nat
<1>1. IsFiniteSet(Ids)
  <2>1. 1 \in Int /\ MaxRevision \in Int
    BY BoundAssumption
  <2> QED
    BY <2>1, FS_Interval DEF Ids
<1> QED
  BY <1>1, FS_Subset, FS_CardinalityType

\* The seed has its types.
LEMMA InitTypeOK == Init => TypeOK
<1> SUFFICES ASSUME Init PROVE TypeOK
  OBVIOUS
<1> USE SeedAssumption, BoundAssumption
<1>1. SeedData \in Data
  BY DEF SeedData, Data
<1>2. DOMAIN Seed = 1..Len(Seed) /\ DOMAIN Seed \subseteq Ids
  BY DEF Ids
<1>3. entityRevision \in [Entities -> [Ids -> Data \cup {Null, Absent}]]
  BY <1>1 DEF Init
<1>4. header \in [Entities -> Ids \cup {0}]
  BY <1>2 DEF Init
<1>5. /\ parents \in [Ids -> SUBSET Ids]
      /\ author \in [Ids -> Editors \cup {Absent}]
      /\ revisionsApplied \in [Editors -> Nat]
      /\ nextId \in 1..(MaxRevision + 1)
      /\ searchIndex \in [Entities -> Names \cup {Null, Absent}]
  BY DEF Init
<1>6. /\ phase \in [Requests -> Phases]
      /\ task \in [Requests -> TaskType \cup {NoTask}]
      /\ loaded \in [Requests -> Data \cup {Null}]
      /\ trx \in [Requests -> TrxType]
      /\ answer \in [Requests -> {"none", "ok", "error"}]
  BY NoTrxType DEF Init, Phases
<1> QED
  BY <1>3, <1>4, <1>5, <1>6 DEF TypeOK

\* The revisions of the seed are well-formed.
LEMMA InitStoreOK == Init => StoreOK
<1> SUFFICES ASSUME Init PROVE StoreOK
  OBVIOUS
<1> USE SeedAssumption, SentinelAssumption, BoundAssumption
<1>1. DOMAIN Seed = 1..Len(Seed) /\ DOMAIN Seed \subseteq Ids
  BY DEF Ids
<1>2. SeedData \in Data
  BY DEF SeedData, Data
<1>3. \A i \in Ids : author[i] # Absent <=> i \in DOMAIN Seed
  BY <1>1 DEF Init
<1>4. UnusedIdsBlank
  BY <1>3 DEF Init, UnusedIdsBlank
<1>5. ParentsCommitted
  BY DEF Init, ParentsCommitted
<1>6. ASSUME NEW e \in Entities, \E i \in DOMAIN Seed : Seed[i] = e
      PROVE  header[e] \in DOMAIN Seed /\ Seed[header[e]] = e
  BY <1>6 DEF Init
<1>7. ASSUME NEW e \in Entities, ~ \E i \in DOMAIN Seed : Seed[i] = e
      PROVE  header[e] = 0 /\ \A i \in Ids : entityRevision[e][i] = Absent
  BY <1>7 DEF Init
<1>8. NoHeaderNoRows
  BY <1>1, <1>6, <1>7 DEF NoHeaderNoRows
<1>9. MasterIsOwnRevision
  BY <1>1, <1>2, <1>3, <1>6, <1>7
     DEF Init, MasterIsOwnRevision, Exists, Master, Committed
<1>10. AncestryWellFounded
  BY DEF Init, AncestryWellFounded
<1>11. CreatedOnce
  BY <1>2 DEF Init, CreatedOnce, FirstOf
<1>12. NoEditOvercounted
  <2> SUFFICES ASSUME NEW ed \in Editors
               PROVE  revisionsApplied[ed] <= Cardinality(By(ed))
    BY DEF NoEditOvercounted, By
  <2>1. Cardinality(By(ed)) \in Nat
    BY FiniteIds DEF By
  <2>2. CASE ed = SeedEditor
    <3>1. By(ed) = 1..Len(Seed)
      BY <1>1, <2>2 DEF Init, By
    <3>2. 1 \in Int /\ Len(Seed) \in Int
      OBVIOUS
    <3>3. Cardinality(1..Len(Seed)) =
            IF 1 > Len(Seed) THEN 0 ELSE Len(Seed) - 1 + 1
      BY ONLY <3>2, FS_Interval
    <3> QED
      BY <2>2, <3>1, <3>2, <3>3 DEF Init
  <2> QED
    BY <2>1, <2>2 DEF Init
<1> QED
  BY <1>4, <1>5, <1>8, <1>9, <1>10, <1>11, <1>12 DEF StoreOK

\* At the start the invariant holds: no request has begun.
LEMMA InitIInv == Init => IInv
<1> SUFFICES ASSUME Init PROVE IInv
  OBVIOUS
<1>1. TypeOK /\ StoreOK
  BY InitTypeOK, InitStoreOK
<1>2. UnallocatedIdsUnused
  BY SeedAssumption DEF Init, UnallocatedIdsUnused, Ids
<1>3. \A r \in Requests : phase[r] = "idle"
  BY DEF Init
<1>4. \A r \in Requests : RequestOK(r)
  BY <1>3 DEF RequestOK, Active, Creating, Open
<1>5. IdsDistinct /\ MainsDistinct
  BY <1>3 DEF IdsDistinct, MainsDistinct, Active, Open
<1> QED
  BY <1>1, <1>2, <1>4, <1>5 DEF IInv
----------------------------------------------------------------------------
(* Steps that leave the tables alone.                                      *)

\* The tables are as sound as before if they do not change.
LEMMA StoreKept ==
  ASSUME StoreOK, UNCHANGED tables
  PROVE  StoreOK'
  BY DEF StoreOK, tables, UnusedIdsBlank, ParentsCommitted, NoHeaderNoRows,
         MasterIsOwnRevision, AncestryWellFounded, CreatedOnce, FirstOf,
         NoEditOvercounted, Committed, Exists, Master

\* A request is as well off as before if neither the tables nor its own state
\* change and no id is handed back.
LEMMA RequestKept ==
  ASSUME TypeOK, UNCHANGED tables, nextId' \in Nat, nextId' >= nextId,
         NEW q \in Requests, RequestOK(q),
         phase'[q] = phase[q], task'[q] = task[q],
         loaded'[q] = loaded[q], trx'[q] = trx[q]
  PROVE  RequestOK(q)'
<1>1. WritesOK(q) => WritesOK(q)'
  BY DEF WritesOK, tables, Committed, IsNew, Exists
<1>2. By(task[q].editor)' = By(task[q].editor)
  BY DEF By, tables
<1>3. Active(q)' = Active(q) /\ Creating(q)' = Creating(q)
  BY DEF Active, Creating
<1>4. phase[q] \in Open => trx[q].id < nextId'
  BY DEF RequestOK, TypeOK, Ids
<1> QED
  BY <1>1, <1>2, <1>3, <1>4 DEF RequestOK, tables, Exists

\* Nothing is asked of a request that has not begun or is over.
LEMMA RequestOver ==
  ASSUME NEW q \in Requests, phase'[q] \in {"idle", "ended"}
  PROVE  RequestOK(q)'
  BY DEF RequestOK, Active, Creating, Open

\* The requests of a step in which only request r moves, and the tables do not.
LEMMA OneRequestMoves ==
  ASSUME IInv, NEW r \in Requests, UNCHANGED tables,
         nextId' \in Nat, nextId' >= nextId,
         \A q \in Requests \ {r} :
           /\ phase'[q] = phase[q]
           /\ task'[q] = task[q]
           /\ loaded'[q] = loaded[q]
           /\ trx'[q] = trx[q],
         TypeOK', RequestOK(r)',
         phase'[r] \in Open => \/ phase[r] \in Open /\ trx'[r].id = trx[r].id
                               \/ trx'[r].id = nextId,
         \/ phase'[r] = "ended"
         \/ phase[r] # "idle" /\ phase[r] # "ended" /\ task'[r] = task[r]
            /\ (phase'[r] \in {"loaded"} \cup Open
                  => phase[r] \in {"loaded"} \cup Open)
         \/ /\ \A q \in Requests \ {r} : Creating(q) => task[q].main # task'[r].main
            /\ task'[r].kind = "create" =>
                 \A q \in Requests \ {r} : task[q].main # task'[r].main
  PROVE  IInv'
<1>1. StoreOK'
  BY StoreKept DEF IInv
<1>2. UnallocatedIdsUnused'
  BY DEF IInv, UnallocatedIdsUnused, tables, TypeOK, Ids
<1>3. ASSUME NEW q \in Requests PROVE RequestOK(q)'
  <2>1. CASE q = r
    BY <2>1
  <2>2. CASE q # r
    BY <2>2, RequestKept DEF IInv
  <2> QED
    BY <2>1, <2>2
<1>4. IdsDistinct'
  <2> SUFFICES ASSUME NEW p \in Requests, NEW q \in Requests, p # q,
                      phase'[p] \in Open, phase'[q] \in Open
               PROVE  trx'[p].id # trx'[q].id
    BY DEF IdsDistinct
  <2>1. \A q_1 \in Requests : phase[q_1] \in Open => trx[q_1].id \in Ids /\ trx[q_1].id < nextId
    BY DEF IInv, RequestOK
  <2>2. CASE p # r /\ q # r
    BY <2>2 DEF IInv, IdsDistinct
  <2>3. CASE p = r
    BY <2>1, <2>3 DEF IInv, IdsDistinct, TypeOK, Ids
  <2>4. CASE q = r
    BY <2>1, <2>4 DEF IInv, IdsDistinct, TypeOK, Ids
  <2> QED
    BY <2>2, <2>3, <2>4
<1>5. MainsDistinct'
  <2> SUFFICES ASSUME NEW p \in Requests, NEW q \in Requests, p # q,
                      Active(p)', Creating(q)'
               PROVE  task'[p].main # task'[q].main
    BY DEF MainsDistinct
  <2>1. CASE p # r /\ q # r
    BY <2>1 DEF IInv, MainsDistinct, Active, Creating
  <2>2. CASE p = r
    BY <2>2 DEF IInv, MainsDistinct, Active, Creating
  <2>3. CASE q = r
    BY <2>3 DEF IInv, MainsDistinct, Active, Creating, Open
  <2> QED
    BY <2>1, <2>2, <2>3
<1> QED
  BY <1>1, <1>2, <1>3, <1>4, <1>5 DEF IInv

----------------------------------------------------------------------------
(* Ends and failures.                                                      *)

\* A request ends without writing to the tables.
LEMMA EndedKeepsIInv ==
  ASSUME IInv, NEW r \in Requests, NEW reply \in {"none", "ok", "error"},
         Ended(r, reply), UNCHANGED tables,
         nextId' \in 1..(MaxRevision + 1), nextId' >= nextId,
         searchIndex' \in [Entities -> Names \cup {Null, Absent}]
  PROVE  IInv'
<1>1. TypeOK
  BY DEF IInv
<1>2. TypeOK'
  BY <1>1, NoTrxType DEF TypeOK, Ended, tables, Phases
<1>3. phase'[r] = "ended"
  BY <1>1 DEF Ended, TypeOK
<1>4. \A q \in Requests \ {r} :
        /\ phase'[q] = phase[q]
        /\ task'[q] = task[q]
        /\ loaded'[q] = loaded[q]
        /\ trx'[q] = trx[q]
  BY <1>1 DEF Ended, TypeOK
<1> QED
  BY <1>2, <1>3, <1>4, RequestOver, OneRequestMoves, BoundAssumption DEF Open

\* An exit of the process ends all requests and leaves the tables.
LEMMA ServerExitKeepsIInv ==
  ASSUME IInv, ServerExit, UNCHANGED tables,
         nextId' \in 1..(MaxRevision + 1), nextId' >= nextId,
         searchIndex' \in [Entities -> Names \cup {Null, Absent}]
  PROVE  IInv'
<1>1. TypeOK
  BY DEF IInv
<1>2. \A q \in Requests : phase'[q] \in {"idle", "ended"}
  BY <1>1 DEF ServerExit, InFlight, TypeOK, Phases
<1>3. TypeOK'
  BY <1>1, NoTrxType DEF TypeOK, ServerExit, tables, Phases
<1>4. StoreOK'
  BY StoreKept DEF IInv
<1>5. UnallocatedIdsUnused'
  BY <1>1, BoundAssumption DEF IInv, UnallocatedIdsUnused, tables, TypeOK, Ids
<1>6. \A q \in Requests : RequestOK(q)'
  BY <1>2, RequestOver
<1>7. IdsDistinct' /\ MainsDistinct'
  BY <1>2 DEF IdsDistinct, MainsDistinct, Active, Open
<1> QED
  BY <1>3, <1>4, <1>5, <1>6, <1>7 DEF IInv

\* A failed request ends by itself or takes the process down.
LEMMA FailKeepsIInv ==
  ASSUME IInv, NEW r \in Requests, Fail(r), UNCHANGED <<tables, searchIndex>>,
         nextId' \in 1..(MaxRevision + 1), nextId' >= nextId
  PROVE  IInv'
<1>1. searchIndex' \in [Entities -> Names \cup {Null, Absent}]
  BY DEF IInv, TypeOK
<1> QED
  BY <1>1, EndedKeepsIInv, ServerExitKeepsIInv DEF Fail, tables

\* An id that is not taken is there for the next request.
LEMMA NextIdKept ==
  ASSUME IInv, UNCHANGED nextId
  PROVE  nextId' \in 1..(MaxRevision + 1) /\ nextId' >= nextId
  BY BoundAssumption DEF IInv, TypeOK

----------------------------------------------------------------------------
(* Submissions.                                                            *)

\* The rows that an action reads are data, or mark a deletion.
LEMMA MasterType ==
  ASSUME IInv, NEW e \in Entities, Exists(e)
  PROVE  /\ Master(e) \in Data \cup {Null}
         /\ Live(e) => Master(e) \in Data
         /\ header[e] \in Committed
         /\ Rels(e) \in SUBSET Entities
<1>1. /\ header[e] \in Committed
      /\ Master(e) # Absent
  BY DEF IInv, StoreOK, MasterIsOwnRevision
<1>2. Master(e) \in Data \cup {Null, Absent}
  BY <1>1 DEF IInv, TypeOK, Master, Committed
<1> QED
  BY <1>1, <1>2 DEF Live, Rels, Data

\* A request begins with the entity as it was loaded.
LEMMA AcceptKeepsIInv ==
  ASSUME IInv, NEW r \in Requests, NEW t \in TaskType,
         NEW old \in Data \cup {Null}, Accept(r, t, old),
         UNCHANGED <<tables, nextId, searchIndex>>,
         t.kind # "delete" => t.name \in Names,
         t.kind = "create" =>
           /\ old = Null
           /\ header[t.main] = 0
           /\ \A q \in Requests : task[q].main # t.main,
         t.kind # "create" => header[t.main] # 0
  PROVE  IInv'
<1>1. TypeOK
  BY DEF IInv
<1>2. TypeOK'
  BY <1>1 DEF TypeOK, Accept, tables, Phases
<1>3. /\ phase'[r] = "loaded"
      /\ task'[r] = t
      /\ loaded'[r] = old
      /\ phase[r] = "idle"
  BY <1>1 DEF Accept, TypeOK
<1>4. \A q \in Requests \ {r} :
        /\ phase'[q] = phase[q]
        /\ task'[q] = task[q]
        /\ loaded'[q] = loaded[q]
        /\ trx'[q] = trx[q]
  BY <1>1 DEF Accept, TypeOK
<1>5. RequestOK(r)'
  BY <1>3 DEF RequestOK, Creating, Active, Open, tables, Exists
<1>6. \A q \in Requests \ {r} : Creating(q) => task[q].main # t.main
  <2> SUFFICES ASSUME NEW q \in Requests \ {r}, Creating(q)
               PROVE  task[q].main # t.main
    OBVIOUS
  <2>1. header[task[q].main] = 0
    BY DEF IInv, RequestOK
  <2> QED
    BY <2>1
<1>7. nextId' \in Nat /\ nextId' >= nextId
  BY NextIdKept
<1> QED
  BY <1>2, <1>3, <1>4, <1>5, <1>6, <1>7, OneRequestMoves DEF Open

\* So do the three kinds of submissions.
LEMMA SubmitKeepsIInv ==
  ASSUME IInv, NEW r \in Requests, Submit(r)
  PROVE  IInv'
<1> USE DEF Existing, AtMostOne
<1>1. CASE SubmitCreate(r)
  <2> PICK ed \in Editors, e \in Entities, name \in Names, valid \in Verdicts,
           add \in AtMostOne(Existing) :
         /\ ~Exists(e)
         /\ \A q \in Requests : task[q].main # e
         /\ Accept(r, Task("create", ed, e, name, add, {}, valid), Null)
    BY <1>1 DEF SubmitCreate
  <2> DEFINE t == Task("create", ed, e, name, add, {}, valid)
  <2>1. /\ t \in TaskType
        /\ t.kind = "create"
        /\ t.main = e
        /\ t.name = name
    BY BoundAssumption DEF Task, TaskType, Kinds
  <2>2. Accept(r, t, Null)
    OBVIOUS
  <2> HIDE DEF t
  <2> QED
    BY <1>1, <2>1, <2>2, AcceptKeepsIInv DEF SubmitCreate, Exists
<1>2. CASE SubmitEdit(r)
  <2> PICK ed \in Editors, e \in Existing, name \in Names, valid \in Verdicts :
         \E add \in AtMostOne(Existing \ (Rels(e) \cup {e})),
            drop \in AtMostOne(Rels(e)) :
           Accept(r, Task("edit", ed, e, name, add, drop, valid), Master(e))
    BY <1>2 DEF SubmitEdit
  <2> PICK add \in AtMostOne(Existing \ (Rels(e) \cup {e})),
           drop \in AtMostOne(Rels(e)) :
         Accept(r, Task("edit", ed, e, name, add, drop, valid), Master(e))
    OBVIOUS
  <2> DEFINE t == Task("edit", ed, e, name, add, drop, valid)
  <2>1. e \in Entities /\ Exists(e)
    OBVIOUS
  <2>2. Master(e) \in Data \cup {Null} /\ Rels(e) \in SUBSET Entities
    BY <2>1, MasterType
  <2>3. /\ t \in TaskType
        /\ t.kind = "edit"
        /\ t.main = e
        /\ t.name = name
    BY <2>1, <2>2, BoundAssumption DEF Task, TaskType, Kinds
  <2>4. Accept(r, t, Master(e))
    OBVIOUS
  <2> HIDE DEF t
  <2> QED
    BY <1>2, <2>1, <2>2, <2>3, <2>4, AcceptKeepsIInv DEF SubmitEdit, Exists
<1>3. CASE SubmitDelete(r)
  <2> PICK ed \in Editors, e \in Existing, valid \in Verdicts :
         Accept(r, Task("delete", ed, e, Absent, {}, {}, valid), Master(e))
    BY <1>3 DEF SubmitDelete
  <2> DEFINE t == Task("delete", ed, e, Absent, {}, {}, valid)
  <2>1. e \in Entities /\ Exists(e)
    OBVIOUS
  <2>2. Master(e) \in Data \cup {Null}
    BY <2>1, MasterType
  <2>3. /\ t \in TaskType
        /\ t.kind = "delete"
        /\ t.main = e
    BY <2>1, BoundAssumption DEF Task, TaskType, Kinds
  <2>4. Accept(r, t, Master(e))
    OBVIOUS
  <2> HIDE DEF t
  <2> QED
    BY <1>3, <2>1, <2>2, <2>3, <2>4, AcceptKeepsIInv DEF SubmitDelete, Exists
<1>4. CASE RefuseDelete(r)
  <2>1. searchIndex' \in [Entities -> Names \cup {Null, Absent}]
    BY <1>4 DEF RefuseDelete, IInv, TypeOK
  <2> QED
    BY <1>4, <2>1, NextIdKept, EndedKeepsIInv DEF RefuseDelete, tables
<1> QED
  BY <1>1, <1>2, <1>3, <1>4 DEF Submit

----------------------------------------------------------------------------
(* Steps of a transaction that do not change the tables.                   *)

\* Only the transaction and the phase of r change.
LEMMA TrxStepKeepsIInv ==
  ASSUME IInv, NEW r \in Requests, Active(r),
         NEW p \in Phases \ {"idle", "ended"}, NEW x \in TrxType,
         phase' = [phase EXCEPT ![r] = p],
         trx' = [trx EXCEPT ![r] = x],
         UNCHANGED <<tables, searchIndex, task, loaded>>,
         answer' \in [Requests -> {"none", "ok", "error"}],
         nextId' \in 1..(MaxRevision + 1), nextId' >= nextId,
         p \in {"loaded"} \cup Open => phase[r] \in {"loaded"} \cup Open,
         p \in Open => \/ phase[r] \in Open /\ x.id = trx[r].id
                       \/ x.id = nextId,
         RequestOK(r)'
  PROVE  IInv'
<1>1. TypeOK
  BY DEF IInv
<1>2. TypeOK'
  BY <1>1 DEF TypeOK, tables
<1>3. phase'[r] = p /\ trx'[r] = x /\ task'[r] = task[r]
  BY <1>1 DEF TypeOK
<1>4. \A q \in Requests \ {r} :
        /\ phase'[q] = phase[q]
        /\ task'[q] = task[q]
        /\ loaded'[q] = loaded[q]
        /\ trx'[q] = trx[q]
  BY <1>1 DEF TypeOK
<1>5. nextId' \in Nat
  BY BoundAssumption
<1> QED
  BY <1>2, <1>3, <1>4, <1>5, OneRequestMoves DEF Active

\* Relationships lead to entities.
LEMMA RelsType ==
  ASSUME IInv
  PROVE  /\ \A e \in Entities : Rels(e) \in SUBSET Entities
         /\ \A old \in Data \cup {Null} : OwnRels(old) \in SUBSET Entities
<1>1. ASSUME NEW e \in Entities PROVE Rels(e) \in SUBSET Entities
  BY MasterType DEF Rels, Live
<1> QED
  BY <1>1 DEF OwnRels, Data

\* An order of a set of entities is a sequence of them.
LEMMA OrdersType ==
  ASSUME NEW S \in SUBSET Entities, NEW order \in Orders(S)
  PROVE  order \in Seq(Entities)
<1>1. Cardinality(S) \in Nat
  BY FiniteAssumption, FS_Subset, FS_CardinalityType
<1> QED
  BY <1>1 DEF Orders

\* A transaction takes a fresh revision id.
LEMMA BeginKeepsIInv ==
  ASSUME IInv, NEW r \in Requests, Begin(r)
  PROVE  IInv'
<1> DEFINE t == task[r]
           x == [NoTrx EXCEPT
                   !.id = nextId,
                   !.name = ChangedName(t, loaded[r]),
                   !.keys = RelatedBBIDs(t),
                   !.sets = NextRelationshipSets(t, OwnRels(loaded[r]))]
<1>1. TypeOK /\ RequestOK(r)
  BY DEF IInv
<1>2. /\ nextId' \in 1..(MaxRevision + 1)
      /\ nextId' >= nextId
      /\ nextId < nextId'
  BY <1>1, BoundAssumption DEF Begin, Ids
<1>3. CASE NoUpdatedField(t, loaded[r])
  BY <1>2, <1>3, FailKeepsIInv DEF Begin
<1>4. CASE ~NoUpdatedField(t, loaded[r])
  <2>1. /\ phase[r] = "loaded"
        /\ t.kind # "delete"
        /\ nextId \in Ids
        /\ phase' = [phase EXCEPT ![r] = "begun"]
        /\ trx' = [trx EXCEPT ![r] = x]
        /\ UNCHANGED <<tables, searchIndex, task, loaded, answer>>
    BY <1>4 DEF Begin
  <2>2. t \in TaskType /\ t.name \in Names /\ (t.kind = "create" => loaded[r] = Null)
    BY <1>1, <2>1 DEF RequestOK, Active
  <2>3. ChangedName(t, loaded[r]) \in Names \cup {Absent}
    BY <2>2 DEF ChangedName
  <2>4. RelatedBBIDs(t) \in SUBSET Entities
    BY <2>2 DEF RelatedBBIDs, TaskType
  <2>5. OwnRels(loaded[r]) \in SUBSET Entities
    BY <1>1, RelsType DEF TypeOK
  <2>6. NextRelationshipSets(t, OwnRels(loaded[r])) \in [Entities -> SUBSET Entities]
    BY <2>2, <2>5, RelsType DEF NextRelationshipSets, TaskType
  <2>7. /\ x \in TrxType
        /\ x.id = nextId
        /\ x.name = ChangedName(t, loaded[r])
    BY <2>1, <2>3, <2>4, <2>6, NoTrxType DEF TrxType, NoTrx
  <2>8. author[nextId] = Absent
    BY <1>1, <2>1 DEF IInv, UnallocatedIdsUnused, TypeOK, Ids
  <2>9. t.kind = "create" => x.name \in Names /\ header[t.main] = 0
    BY <1>1, <2>1, <2>2, <2>7 DEF ChangedName, RequestOK, Creating
  <2> HIDE DEF x
  <2>10. phase'[r] = "begun" /\ trx'[r] = x /\ task'[r] = t
    BY <1>1, <2>1 DEF TypeOK
  <2>11. RequestOK(r)'
    BY <1>2, <2>1, <2>2, <2>7, <2>8, <2>9, <2>10
       DEF RequestOK, Active, Creating, Open, tables
  <2> QED
    BY <1>1, <1>2, <2>1, <2>7, <2>11, TrxStepKeepsIInv
       DEF Active, Phases, Open, TypeOK
<1> QED
  BY <1>3, <1>4

\* What a transaction fetches is committed, and its parents are what it fetched.
LEMMA FetchKeepsIInv ==
  ASSUME IInv, NEW r \in Requests, Fetch(r)
  PROVE  IInv'
<1> DEFINE t == task[r]
           x == trx[r]
           saved == {e \in x.keys \cup {t.main} : Savable(t, e)}
           base == [e \in Entities |->
                      IF e \in saved /\ ~IsNew(t, e) THEN header[e] ELSE 0]
           write == [e \in Entities |->
                       IF e \in saved THEN Updated(t, x, e) ELSE Absent]
<1>1. TypeOK /\ RequestOK(r) /\ phase[r] = "begun"
  BY DEF IInv, Fetch
<1>2. t \in TaskType /\ t.kind # "delete" /\ x \in TrxType
  BY <1>1 DEF RequestOK, Active, TypeOK
<1>3. t.main \in Entities /\ saved \in SUBSET Entities
  BY <1>2 DEF TaskType, TrxType
<1>4. ASSUME NEW e \in saved
      PROVE  /\ Updated(t, x, e) \in Data
             /\ ~IsNew(t, e) => /\ Exists(e)
                                /\ header[e] \in Committed
                                /\ Master(e) \in Data
  <2>1. e \in Entities
    BY <1>3
  <2>2. CASE IsNew(t, e)
    <3>1. e = t.main /\ x.name \in Names /\ x.name # Absent
      BY <1>1, <2>2, SentinelAssumption DEF IsNew, RequestOK
    <3>2. Fetched(e).rels \in SUBSET Entities
      BY <2>1, MasterType DEF Fetched, Live, Data
    <3>3. x.sets[e] \in SUBSET Entities
      BY <1>2, <2>1 DEF TrxType
    <3> QED
      BY <2>2, <3>1, <3>2, <3>3 DEF Updated, Data
  <2>3. CASE ~IsNew(t, e)
    <3>1. Live(e) /\ Exists(e)
      BY <2>3 DEF Savable, Live
    <3>2. Master(e) \in Data /\ header[e] \in Committed
      BY <2>1, <3>1, MasterType
    <3>3. Fetched(e) = Master(e)
      BY <3>1 DEF Fetched
    <3>4. x.sets[e] \in SUBSET Entities /\ x.name \in Names \cup {Absent}
      BY <1>2, <2>1 DEF TrxType
    <3> QED
      BY <3>1, <3>2, <3>3, <3>4 DEF Updated, Data
  <2> QED
    BY <2>2, <2>3
<1>5. base \in [Entities -> Ids \cup {0}]
  BY <1>1 DEF TypeOK
<1>6. write \in [Entities -> Data \cup {Null, Absent}]
  BY <1>4
<1>7. PICK order \in Orders(saved \ {t.main}) :
        trx' = [trx EXCEPT ![r] = [x EXCEPT
          !.base = base, !.write = write,
          !.queue = IF t.main \in saved THEN Append(order, t.main) ELSE order]]
  BY DEF Fetch
<1> DEFINE queue == IF t.main \in saved THEN Append(order, t.main) ELSE order
           y == [x EXCEPT !.base = base, !.write = write, !.queue = queue]
<1>8. queue \in Seq(Entities)
  <2>1. order \in Seq(Entities)
    BY <1>3, OrdersType
  <2> QED
    BY <1>3, <2>1
<1>9. \A e \in Entities :
        /\ base[e] # 0 => base[e] \in Committed
        /\ write[e] # Absent => IsNew(t, e) \/ Exists(e)
        /\ write[e] \in Data =>
             \/ IsNew(t, e)
             \/ /\ base[e] # 0
                /\ entityRevision[e][base[e]] \in Data
        /\ write[e] # Null
  BY <1>4, SentinelAssumption DEF Exists, Master
<1> HIDE DEF saved, base, write, queue
<1>10. /\ y \in TrxType
       /\ y.id = x.id
       /\ y.base = base
       /\ y.write = write
  BY <1>2, <1>5, <1>6, <1>8 DEF TrxType
<1>11. /\ trx' = [trx EXCEPT ![r] = y]
       /\ phase' = [phase EXCEPT ![r] = "saving"]
       /\ UNCHANGED <<tables, nextId, searchIndex, task, loaded, answer>>
  BY <1>7 DEF Fetch, queue
<1> HIDE DEF y
<1>12. phase'[r] = "saving" /\ trx'[r] = y /\ task'[r] = t
  BY <1>1, <1>11 DEF TypeOK
<1>13. WritesOK(r)'
  BY <1>9, <1>10, <1>11, <1>12 DEF WritesOK, IsNew, Exists, Committed, tables
<1>14. RequestOK(r)'
  BY <1>1, <1>2, <1>10, <1>11, <1>12, <1>13
     DEF RequestOK, Active, Creating, Open, tables
<1> QED
  BY <1>1, <1>10, <1>11, <1>14, NextIdKept, TrxStepKeepsIInv
     DEF Active, Phases, Open, TypeOK

\* So is what a deletion fetches.
LEMMA BeginDeleteKeepsIInv ==
  ASSUME IInv, NEW r \in Requests, BeginDelete(r)
  PROVE  IInv'
<1> DEFINE t == task[r]
           others == Detached(t, loaded[r])
           base == [e \in Entities |-> IF e \in others THEN header[e] ELSE 0]
           row(e, wiped) == [Master(e) EXCEPT !.rels =
                               IF e \in wiped THEN {} ELSE Rels(e) \ {t.main}]
           write(wiped) == [e \in Entities |->
                              IF e = t.main THEN Null
                              ELSE IF e \in others THEN row(e, wiped)
                              ELSE Absent]
<1>1. /\ TypeOK
      /\ RequestOK(r)
      /\ phase[r] = "loaded"
      /\ t.kind = "delete"
      /\ nextId \in Ids
      /\ nextId' = nextId + 1
  BY DEF IInv, BeginDelete
<1>2. t \in TaskType /\ t.main \in Entities /\ Exists(t.main)
  BY <1>1 DEF RequestOK, Active, TaskType
<1>3. OwnRels(loaded[r]) \in SUBSET Entities
  BY <1>1, RelsType DEF TypeOK
<1>4. /\ others \in SUBSET Entities
      /\ t.main \notin others
      /\ \A e \in others : /\ Exists(e)
                           /\ header[e] \in Committed
                           /\ Master(e) \in Data
  BY <1>3, MasterType DEF Detached, Live
<1>5. PICK order \in Orders(others),
           wiped \in SUBSET {e \in others : t.main \notin Rels(e)} :
        trx' = [trx EXCEPT ![r] = [NoTrx EXCEPT
          !.id = nextId, !.base = base, !.write = write(wiped),
          !.queue = <<t.main>> \o order]]
  BY DEF BeginDelete
<1> DEFINE queue == <<t.main>> \o order
           w == write(wiped)
           y == [NoTrx EXCEPT !.id = nextId, !.base = base, !.write = w,
                              !.queue = queue]
<1>6. queue \in Seq(Entities)
  <2>1. order \in Seq(Entities)
    BY <1>4, OrdersType
  <2> QED
    BY <1>2, <2>1
<1>7. base \in [Entities -> Ids \cup {0}]
  BY <1>1 DEF TypeOK
<1>8. \A e \in others : row(e, wiped) \in Data
  BY <1>4, RelsType DEF Data
<1>9. w \in [Entities -> Data \cup {Null, Absent}]
  BY <1>8
<1>10. \A e \in Entities :
         /\ base[e] # 0 => base[e] \in Committed
         /\ w[e] # Absent => Exists(e)
         /\ w[e] \in Data => /\ base[e] # 0
                             /\ entityRevision[e][base[e]] \in Data
  BY <1>2, <1>4, <1>8, SentinelAssumption DEF Exists, Master
<1> HIDE DEF others, base, w, queue
<1>11. /\ y \in TrxType
       /\ y.id = nextId
       /\ y.base = base
       /\ y.write = w
  BY <1>1, <1>6, <1>7, <1>9, NoTrxType DEF TrxType, NoTrx
<1>12. /\ trx' = [trx EXCEPT ![r] = y]
       /\ phase' = [phase EXCEPT ![r] = "saving"]
       /\ UNCHANGED <<tables, searchIndex, task, loaded, answer>>
  BY <1>5 DEF BeginDelete, queue, w, base
<1> HIDE DEF y
<1>13. phase'[r] = "saving" /\ trx'[r] = y /\ task'[r] = t
  BY <1>1, <1>12 DEF TypeOK
<1>14. /\ nextId' \in 1..(MaxRevision + 1)
       /\ nextId' >= nextId
       /\ nextId < nextId'
  BY <1>1, BoundAssumption DEF Ids
<1>15. author[nextId] = Absent
  BY <1>1 DEF IInv, UnallocatedIdsUnused, TypeOK, Ids
<1>16. WritesOK(r)'
  BY <1>1, <1>10, <1>11, <1>12, <1>13
     DEF WritesOK, IsNew, Exists, Committed, tables
<1>17. RequestOK(r)'
  BY <1>1, <1>2, <1>11, <1>12, <1>13, <1>14, <1>15, <1>16
     DEF RequestOK, Active, Creating, Open, tables
<1> QED
  BY <1>1, <1>11, <1>12, <1>14, <1>17, TrxStepKeepsIInv
     DEF Active, Phases, Open, TypeOK

\* Taking a lock changes no value.
LEMMA SaveKeepsIInv ==
  ASSUME IInv, NEW r \in Requests, Save(r)
  PROVE  IInv'
<1> DEFINE x == trx[r]
           y == [x EXCEPT !.queue = Tail(x.queue)]
<1>1. /\ TypeOK
      /\ RequestOK(r)
      /\ phase[r] = "saving"
      /\ x.queue # <<>>
      /\ UNCHANGED <<tables, nextId, searchIndex, phase, task, loaded, answer>>
  BY DEF IInv, Save
<1>2. x \in TrxType /\ trx' = [trx EXCEPT ![r] = y]
  BY <1>1 DEF TypeOK, TrxType, Save
<1>3. Tail(x.queue) \in Seq(Entities)
  BY <1>1, <1>2 DEF TrxType
<1>4. /\ y \in TrxType
      /\ y.id = x.id
      /\ y.base = x.base
      /\ y.write = x.write
  BY <1>2, <1>3 DEF TrxType
<1> HIDE DEF y
<1>5. phase'[r] = "saving" /\ trx'[r] = y /\ task'[r] = task[r]
  BY <1>1, <1>2 DEF TypeOK
<1>6. WritesOK(r)'
  BY <1>1, <1>4, <1>5 DEF RequestOK, WritesOK, IsNew, Exists, Committed, tables
<1>7. RequestOK(r)'
  BY <1>1, <1>4, <1>5, <1>6 DEF RequestOK, Active, Creating, Open, tables
<1>8. phase' = [phase EXCEPT ![r] = "saving"]
  BY <1>1 DEF TypeOK
<1> QED
  BY <1>1, <1>2, <1>4, <1>7, <1>8, NextIdKept, TrxStepKeepsIInv
     DEF Active, Phases, Open, TypeOK

\* The edit count read is no more than the editor's revisions.
LEMMA ReadCountKeepsIInv ==
  ASSUME IInv, NEW r \in Requests, ReadCount(r)
  PROVE  IInv'
<1> DEFINE x == trx[r]
           n == revisionsApplied[task[r].editor]
           y == [x EXCEPT !.count = n]
<1>1. /\ TypeOK
      /\ RequestOK(r)
      /\ phase[r] = "saving"
      /\ phase' = [phase EXCEPT ![r] = "counted"]
      /\ trx' = [trx EXCEPT ![r] = y]
      /\ UNCHANGED <<tables, nextId, searchIndex, task, loaded, answer>>
  BY DEF IInv, ReadCount
<1>2. x \in TrxType /\ task[r] \in TaskType
  BY <1>1 DEF TypeOK, RequestOK, Active
<1>3. /\ n \in Nat
      /\ n <= Cardinality(By(task[r].editor))
  BY <1>1, <1>2 DEF IInv, StoreOK, NoEditOvercounted, By, TypeOK, TaskType
<1>4. /\ y \in TrxType
      /\ y.id = x.id
      /\ y.base = x.base
      /\ y.write = x.write
      /\ y.count = n
  BY <1>2, <1>3 DEF TrxType
<1> HIDE DEF n, y
<1>5. phase'[r] = "counted" /\ trx'[r] = y /\ task'[r] = task[r]
  BY <1>1 DEF TypeOK
<1>6. WritesOK(r)'
  BY <1>1, <1>4, <1>5 DEF RequestOK, WritesOK, IsNew, Exists, Committed, tables
<1>7. By(task[r].editor)' = By(task[r].editor)
  BY <1>1, <1>5 DEF By, tables
<1>8. RequestOK(r)'
  BY <1>1, <1>3, <1>4, <1>5, <1>6, <1>7
     DEF RequestOK, Active, Creating, Open, tables
<1> QED
  BY <1>1, <1>4, <1>8, NextIdKept, TrxStepKeepsIInv
     DEF Active, Phases, Open, TypeOK

\* The answer to a deletion follows its commit.
LEMMA AnswerDeleteKeepsIInv ==
  ASSUME IInv, NEW r \in Requests, AnswerDelete(r)
  PROVE  IInv'
<1>1. /\ TypeOK
      /\ RequestOK(r)
      /\ phase[r] = "committed"
      /\ task[r].kind = "delete"
      /\ phase' = [phase EXCEPT ![r] = "answered"]
      /\ UNCHANGED <<tables, nextId, searchIndex, task, loaded, trx>>
  BY DEF IInv, AnswerDelete
<1>2. trx[r] \in TrxType /\ trx' = [trx EXCEPT ![r] = trx[r]]
  BY <1>1 DEF TypeOK
<1>3. phase'[r] = "answered"
  BY <1>1 DEF TypeOK
<1>4. RequestOK(r)'
  BY <1>1, <1>3 DEF RequestOK, Active, Creating, Open
<1>5. answer' \in [Requests -> {"none", "ok", "error"}]
  BY <1>1 DEF AnswerDelete, TypeOK
<1> QED
  BY <1>1, <1>2, <1>4, <1>5, NextIdKept, TrxStepKeepsIInv
     DEF Active, Phases, Open

----------------------------------------------------------------------------
(* The end of a request, and what interrupts it.                           *)

\* The ways a request ends after the commit or without one.
LEMMA EndingKeepsIInv ==
  ASSUME IInv, NEW r \in Requests,
         Finish(r) \/ Unindex(r) \/ RefuseBlankNote(r) \/ DeadlockVictim(r)
  PROVE  IInv'
<1>1. TypeOK /\ RequestOK(r)
  BY DEF IInv
<1>2. CASE Finish(r)
  <2> DEFINE row == trx[r].write[task[r].main]
             doc == IF row = Absent THEN Null ELSE row.name
  <2>1. /\ phase[r] = "committed"
        /\ task[r].kind # "delete"
        /\ task[r].main \in Entities
    BY <1>1, <1>2 DEF Finish, RequestOK, Active, TaskType
  <2>2. row \in Data \cup {Absent}
    BY <1>1, <2>1 DEF TypeOK, TrxType, RequestOK
  <2>3. doc \in Names \cup {Null}
    BY <2>2 DEF Data
  <2>4. searchIndex' \in [Entities -> Names \cup {Null, Absent}]
    BY <1>1, <1>2, <2>3 DEF Finish, TypeOK
  <2>5. Ended(r, "ok") \/ ServerExit
    BY <1>2 DEF Finish
  <2> QED
    BY <1>2, <2>4, <2>5, NextIdKept, EndedKeepsIInv, ServerExitKeepsIInv
       DEF Finish
<1>3. CASE Unindex(r)
  <2>1. searchIndex' \in [Entities -> Names \cup {Null, Absent}]
    BY <1>1, <1>3 DEF Unindex, TypeOK
  <2> QED
    BY <1>3, <2>1, NextIdKept, EndedKeepsIInv DEF Unindex
<1>4. CASE RefuseBlankNote(r) \/ DeadlockVictim(r)
  BY <1>4, NextIdKept, FailKeepsIInv DEF RefuseBlankNote, DeadlockVictim
<1> QED
  BY <1>2, <1>3, <1>4

\* A step that changes nothing.
LEMMA StutterKeepsIInv ==
  ASSUME IInv, UNCHANGED vars
  PROVE  IInv'
<1>1. TypeOK'
  BY DEF IInv, TypeOK, vars
<1>2. StoreOK'
  BY StoreKept DEF IInv, vars, tables
<1>3. UnallocatedIdsUnused'
  BY DEF IInv, UnallocatedIdsUnused, vars
<1>4. nextId' \in Nat /\ nextId' >= nextId
  BY NextIdKept DEF vars
<1>5. \A q \in Requests : RequestOK(q)'
  BY <1>4, RequestKept DEF IInv, vars, tables
<1>6. IdsDistinct' /\ MainsDistinct'
  BY DEF IInv, IdsDistinct, MainsDistinct, Active, Creating, vars
<1> QED
  BY <1>1, <1>2, <1>3, <1>5, <1>6 DEF IInv

\* A crash ends all requests and leaves the tables.
LEMMA CrashKeepsIInv == IInv /\ Crash => IInv'
<1> SUFFICES ASSUME IInv, Crash PROVE IInv'
  OBVIOUS
<1>1. searchIndex' \in [Entities -> Names \cup {Null, Absent}]
  BY DEF Crash, IInv, TypeOK
<1> QED
  BY <1>1, NextIdKept, ServerExitKeepsIInv DEF Crash

----------------------------------------------------------------------------
(* The commit.                                                             *)

\* What the commit of a revision does to the tables.
LEMMA CommitEffect ==
  ASSUME IInv, NEW r \in Requests, Commit(r)
  PROVE  LET t == task[r]
             x == trx[r]
             n == x.id
             P == ParentRevisionIds(x)
         IN /\ t \in TaskType /\ x \in TrxType /\ WritesOK(r)
            /\ n \in Ids /\ n # 0 /\ n < nextId
            /\ author[n] = Absent /\ t.editor \in Editors
            /\ t.editor # Absent /\ n \notin Committed
            /\ P \subseteq Committed /\ P \subseteq Ids
            /\ \A e \in Entities : x.base[e] # 0 => x.base[e] \in P
            /\ Committed' = Committed \cup {n}
            /\ \A i \in Ids : /\ author'[i] = IF i = n THEN t.editor ELSE author[i]
                              /\ parents'[i] = IF i = n THEN P ELSE parents[i]
            /\ \A e \in Entities, i \in Ids :
                 entityRevision'[e][i] = IF i = n THEN x.write[e]
                                         ELSE entityRevision[e][i]
            /\ \A e \in Entities :
                 header'[e] = IF x.write[e] # Absent THEN n ELSE header[e]
<1> DEFINE t == task[r]
           x == trx[r]
           n == x.id
           P == ParentRevisionIds(x)
<1>1. TypeOK /\ RequestOK(r) /\ phase[r] = "counted"
  BY DEF IInv, Commit
<1>2. t \in TaskType /\ x \in TrxType /\ WritesOK(r)
  BY <1>1 DEF RequestOK, Active, TypeOK
<1>3. /\ n \in Ids /\ n # 0 /\ n < nextId
      /\ author[n] = Absent /\ n \notin Committed
  BY <1>1 DEF RequestOK, Open, Committed, Ids
<1>4. t.editor \in Editors /\ t.editor # Absent
  BY <1>2, SentinelAssumption DEF TaskType
<1>5. P \subseteq Committed /\ P \subseteq Ids
  BY <1>2 DEF ParentRevisionIds, WritesOK, Committed
<1>6. \A e \in Entities : x.base[e] # 0 => x.base[e] \in P
  BY DEF ParentRevisionIds
<1>7. \A i \in Ids : /\ author'[i] = IF i = n THEN t.editor ELSE author[i]
                     /\ parents'[i] = IF i = n THEN P ELSE parents[i]
  BY <1>1 DEF Commit, TypeOK
<1>8. Committed' = Committed \cup {n}
  BY <1>3, <1>4, <1>7 DEF Committed
<1>9. \A e \in Entities, i \in Ids :
        entityRevision'[e][i] = IF i = n THEN x.write[e]
                                ELSE entityRevision[e][i]
  BY <1>1 DEF Commit, TypeOK
<1>10. \A e \in Entities :
         header'[e] = IF x.write[e] # Absent THEN n ELSE header[e]
  BY DEF Commit, Touched
<1> QED
  BY <1>2, <1>3, <1>4, <1>5, <1>6, <1>7, <1>8, <1>9, <1>10

\* The revisions of an editor, and their number, after a commit.
LEMMA CommitCounts ==
  ASSUME IInv, NEW r \in Requests, Commit(r), NEW ed \in Editors
  PROVE  /\ Cardinality(By(ed)) \in Nat
         /\ Cardinality(By(ed)') \in Nat
         /\ Cardinality(By(ed)') = IF ed = task[r].editor
                                   THEN Cardinality(By(ed)) + 1
                                   ELSE Cardinality(By(ed))
<1>1. IsFiniteSet(By(ed)) /\ Cardinality(By(ed)) \in Nat
  BY FiniteIds DEF By
<1>2. CASE ed = task[r].editor
  <2>1. By(ed)' = By(ed) \cup {trx[r].id} /\ trx[r].id \notin By(ed)
    BY <1>2, CommitEffect DEF By
  <2>2. Cardinality(By(ed) \cup {trx[r].id}) = Cardinality(By(ed)) + 1
    BY <1>1, <2>1, FS_AddElement
  <2> QED
    BY <1>1, <1>2, <2>1, <2>2
<1>3. CASE ed # task[r].editor
  <2>1. By(ed)' = By(ed)
    BY <1>3, CommitEffect, SentinelAssumption DEF By
  <2> QED
    BY <1>1, <1>3, <2>1
<1> QED
  BY <1>2, <1>3

\* A revision whose parents are all older makes the graph no less well founded.
LEMMA CommitKeepsAncestry ==
  ASSUME IInv, NEW r \in Requests, Commit(r)
  PROVE  AncestryWellFounded'
<1> DEFINE n == trx[r].id
           P == ParentRevisionIds(trx[r])
<1>1. /\ n \notin Committed
      /\ P \subseteq Committed
      /\ \A i \in Ids : parents'[i] = IF i = n THEN P ELSE parents[i]
  BY CommitEffect
<1>2. /\ \A i \in Ids : parents[i] \subseteq Committed
      /\ AncestryWellFounded
  BY DEF IInv, StoreOK, ParentsCommitted
<1> HIDE DEF n, P
<1> SUFFICES ASSUME NEW S \in SUBSET Ids, S # {}
             PROVE  \E i \in S : parents'[i] \cap S = {}
  BY DEF AncestryWellFounded, Ids
<1>3. CASE S \subseteq {n}
  BY <1>1, <1>3
<1>4. CASE ~ (S \subseteq {n})
  <2>1. S \ {n} \in SUBSET Ids /\ S \ {n} # {}
    BY <1>4
  <2>2. PICK i \in S \ {n} : parents[i] \cap (S \ {n}) = {}
    BY <1>2, <2>1 DEF AncestryWellFounded
  <2>3. parents'[i] = parents[i] /\ n \notin parents[i]
    BY <1>1, <1>2, <2>2
  <2> QED
    BY <2>2, <2>3
<1> QED
  BY <1>3, <1>4

\* Only the request that creates an entity writes its first row.
LEMMA CommitKeepsCreatedOnce ==
  ASSUME IInv, NEW r \in Requests, Commit(r)
  PROVE  CreatedOnce'
<1> DEFINE t == task[r]
           x == trx[r]
           n == x.id
<1> SUFFICES ASSUME NEW e \in Entities, NEW i \in Ids, NEW j \in Ids,
                    FirstOf(e, i)', FirstOf(e, j)'
             PROVE  i = j
  BY DEF CreatedOnce, Ids
<1>1. \A k \in Ids : parents[k] \subseteq Committed /\ parents[k] \subseteq Ids
  BY DEF IInv, StoreOK, ParentsCommitted, Committed
<1>2. ASSUME NEW k \in Ids, k # n, FirstOf(e, k)'
      PROVE  FirstOf(e, k)
  <2>1. /\ parents'[k] = parents[k]
        /\ entityRevision'[e][k] = entityRevision[e][k]
        /\ n \notin parents[k]
    BY <1>1, <1>2, CommitEffect
  <2>2. \A p \in parents[k] : entityRevision'[e][p] = entityRevision[e][p]
    BY <1>1, <2>1, CommitEffect
  <2> QED
    BY <1>2, <2>1, <2>2 DEF FirstOf, Data
<1>3. ASSUME NEW f \in Ids, f = n, FirstOf(e, f)'
      PROVE  \A k \in Ids : entityRevision[e][k] = Absent
  <2>1. /\ x.write[e] \in Data
        /\ \A p \in ParentRevisionIds(x) : entityRevision[e][p] \notin Data
    BY <1>3, CommitEffect DEF FirstOf, Data
  <2>2. IsNew(t, e)
    BY <2>1, CommitEffect DEF WritesOK
  <2>3. header[e] = 0
    BY <2>2 DEF IsNew, IInv, RequestOK, Creating, Commit, Open
  <2> QED
    BY <2>3 DEF IInv, StoreOK, NoHeaderNoRows
<1>4. Absent \notin Data
  BY SentinelAssumption
<1>5. CASE i # n /\ j # n
  BY <1>2, <1>5 DEF IInv, StoreOK, CreatedOnce
<1>6. CASE i = n /\ j # n
  BY <1>2, <1>3, <1>4, <1>6 DEF FirstOf
<1>7. CASE i # n /\ j = n
  BY <1>2, <1>3, <1>4, <1>7 DEF FirstOf
<1> QED
  BY <1>5, <1>6, <1>7

\* The commit keeps the tables sound: the lemmas above together.
LEMMA CommitKeepsStoreOK ==
  ASSUME IInv, NEW r \in Requests, Commit(r)
  PROVE  StoreOK'
<1> DEFINE t == task[r]
           x == trx[r]
           n == x.id
<1>1. /\ UnusedIdsBlank
      /\ ParentsCommitted
      /\ NoHeaderNoRows
      /\ MasterIsOwnRevision
      /\ NoEditOvercounted
  BY DEF IInv, StoreOK
<1>2. UnusedIdsBlank'
  BY <1>1, CommitEffect DEF UnusedIdsBlank, Ids
<1>3. ParentsCommitted'
  BY <1>1, CommitEffect DEF ParentsCommitted, Ids
<1>4. NoHeaderNoRows'
  BY <1>1, CommitEffect DEF NoHeaderNoRows, Ids
<1>5. MasterIsOwnRevision'
  <2> SUFFICES ASSUME NEW e \in Entities, header'[e] # 0
               PROVE  /\ header'[e] \in Committed'
                      /\ entityRevision'[e][header'[e]] # Absent
    BY DEF MasterIsOwnRevision, Exists, Master
  <2>1. CASE x.write[e] # Absent
    BY <2>1, CommitEffect
  <2>2. CASE x.write[e] = Absent
    <3>1. header'[e] = header[e]
      BY <2>2, CommitEffect
    <3>2. header[e] \in Committed /\ header[e] \in Ids /\ Master(e) # Absent
      BY <1>1, <3>1 DEF MasterIsOwnRevision, Exists, Committed
    <3>3. entityRevision'[e][header[e]] = entityRevision[e][header[e]]
      BY <3>2, CommitEffect
    <3> QED
      BY <3>1, <3>2, <3>3, CommitEffect DEF Master
  <2> QED
    BY <2>1, <2>2
<1>6. NoEditOvercounted'
  <2> SUFFICES ASSUME NEW ed \in Editors
               PROVE  revisionsApplied'[ed] <= Cardinality(By(ed)')
    BY DEF NoEditOvercounted, By, Ids
  <2>1. /\ Cardinality(By(ed)) \in Nat
        /\ Cardinality(By(ed)') = IF ed = t.editor
                                  THEN Cardinality(By(ed)) + 1
                                  ELSE Cardinality(By(ed))
    BY CommitCounts
  <2>2. revisionsApplied[ed] <= Cardinality(By(ed))
    BY <1>1 DEF NoEditOvercounted, By
  <2>3. x.count \in Nat /\ x.count <= Cardinality(By(t.editor))
    BY CommitEffect DEF IInv, RequestOK, Commit, TrxType
  <2>4. revisionsApplied'[ed] = IF ed = t.editor THEN x.count + 1
                                ELSE revisionsApplied[ed]
    BY DEF IInv, TypeOK, Commit, CountAfter
  <2> HIDE DEF t, x
  <2> QED
    BY <2>1, <2>2, <2>3, <2>4
<1> QED
  BY <1>2, <1>3, <1>4, <1>5, <1>6, CommitKeepsAncestry, CommitKeepsCreatedOnce
     DEF StoreOK

\* What is committed has its types.
LEMMA CommitKeepsTypeOK ==
  ASSUME IInv, NEW r \in Requests, Commit(r)
  PROVE  TypeOK'
<1>1. TypeOK
  BY DEF IInv
<1>2. /\ task[r].editor \in Editors
      /\ trx[r].id \in Ids
      /\ trx[r].count \in Nat
      /\ \A e \in Entities : trx[r].write[e] \in Data \cup {Null, Absent}
      /\ ParentRevisionIds(trx[r]) \in SUBSET Ids
  BY CommitEffect DEF TrxType
<1>3. entityRevision' \in [Entities -> [Ids -> Data \cup {Null, Absent}]]
  BY <1>1, <1>2 DEF Commit, TypeOK
<1>4. header' \in [Entities -> Ids \cup {0}]
  BY <1>1, <1>2 DEF Commit, TypeOK
<1>5. /\ parents' \in [Ids -> SUBSET Ids]
      /\ author' \in [Ids -> Editors \cup {Absent}]
      /\ revisionsApplied' \in [Editors -> Nat]
  BY <1>1, <1>2 DEF Commit, TypeOK, CountAfter
<1>6. phase' \in [Requests -> Phases]
  BY <1>1 DEF Commit, TypeOK, Phases
<1> QED
  BY <1>1, <1>3, <1>4, <1>5, <1>6 DEF Commit, TypeOK

\* What another request read or checked still holds after the commit of r: no
\* row is ever altered, and no header ever points to nothing again.
LEMMA CommitKeepsOthers ==
  ASSUME IInv, NEW r \in Requests, Commit(r), NEW q \in Requests, q # r
  PROVE  RequestOK(q)'
<1>1. RequestOK(q) /\ Active(r) /\ phase[r] \in Open
  BY DEF IInv, Commit, Active, Open
<1>2. /\ phase'[q] = phase[q]
      /\ task'[q] = task[q]
      /\ loaded'[q] = loaded[q]
      /\ trx'[q] = trx[q]
      /\ nextId' = nextId
  BY DEF IInv, TypeOK, Commit
<1>3. \A e \in Entities : Exists(e) => Exists(e)'
  BY CommitEffect DEF Exists
<1>4. ASSUME Active(q) PROVE task[q] \in TaskType /\ task[q].main \in Entities
  BY <1>1, <1>4 DEF RequestOK, TaskType
<1>5. ASSUME phase[q] \in Open
      PROVE  author'[trx[q].id] = Absent
  BY <1>1, <1>5, CommitEffect DEF RequestOK, IInv, IdsDistinct
<1>6. ASSUME Creating(q) PROVE header'[task[q].main] = 0
  <2>1. Active(q)
    BY <1>6 DEF Creating, Active, Open
  <2>2. task[q].main \in Entities /\ header[task[q].main] = 0
    BY <1>1, <1>4, <1>6, <2>1 DEF RequestOK
  <2>3. task[r].main # task[q].main
    BY <1>1, <1>6 DEF IInv, MainsDistinct
  <2>4. trx[r].write[task[q].main] = Absent
    BY <2>2, <2>3, CommitEffect DEF WritesOK, IsNew, Exists
  <2> QED
    BY <2>2, <2>4, CommitEffect
<1>7. ASSUME phase[q] \in {"saving", "counted"} PROVE WritesOK(q)'
  <2>1. WritesOK(q)
    BY <1>1, <1>7 DEF RequestOK
  <2>2. \A e \in Entities, i \in Ids :
          i \in Committed => entityRevision'[e][i] = entityRevision[e][i]
    BY CommitEffect
  <2>3. Committed \subseteq Committed' /\ Committed \subseteq Ids
    BY CommitEffect DEF Committed
  <2> QED
    BY <1>2, <1>3, <2>1, <2>2, <2>3 DEF WritesOK, IsNew
<1>8. ASSUME phase[q] = "counted"
      PROVE  trx[q].count <= Cardinality(By(task[q].editor)')
  <2>1. task[q].editor \in Editors /\ trx[q].count \in Nat
    BY <1>1, <1>8 DEF RequestOK, Active, TaskType, IInv, TypeOK, TrxType
  <2>2. /\ Cardinality(By(task[q].editor)) \in Nat
        /\ Cardinality(By(task[q].editor)') \in Nat
        /\ Cardinality(By(task[q].editor)) <= Cardinality(By(task[q].editor)')
    <3> DEFINE ed == task[q].editor
    <3>1. \A f \in Editors :
            /\ Cardinality(By(f)) \in Nat
            /\ Cardinality(By(f)') \in Nat
            /\ Cardinality(By(f)) <= Cardinality(By(f)')
      BY CommitCounts
    <3> QED
      BY <1>2, <2>1, <3>1
  <2>3. trx[q].count <= Cardinality(By(task[q].editor))
    BY <1>1, <1>8 DEF RequestOK
  <2> QED
    BY <2>1, <2>2, <2>3
<1> QED
  BY <1>1, <1>2, <1>3, <1>4, <1>5, <1>6, <1>7, <1>8
     DEF RequestOK, Active, Creating

\* The commit keeps the invariant of the tables and of the requests in flight.
LEMMA CommitKeepsIInv ==
  ASSUME IInv, NEW r \in Requests, Commit(r)
  PROVE  IInv'
<1>1. TypeOK' /\ StoreOK'
  BY CommitKeepsTypeOK, CommitKeepsStoreOK
<1>2. UnallocatedIdsUnused'
  <2>1. \A i \in Ids : i >= nextId => author[i] = Absent
    BY DEF IInv, UnallocatedIdsUnused
  <2>2. nextId' = nextId /\ nextId \in Nat
    BY BoundAssumption DEF Commit, IInv, TypeOK
  <2>3. \A i \in Ids : i >= nextId => author'[i] = author[i]
    BY <2>2, CommitEffect DEF Ids
  <2> QED
    BY <2>1, <2>2, <2>3 DEF UnallocatedIdsUnused, Ids
<1>3. /\ phase[r] = "counted" /\ phase'[r] = "committed"
      /\ \A q \in Requests \ {r} : phase'[q] = phase[q]
      /\ UNCHANGED <<task, trx>>
  BY DEF IInv, TypeOK, Commit
<1>4. RequestOK(r)'
  BY <1>3, CommitEffect DEF RequestOK, WritesOK, Active, Creating, Open
<1>5. \A q \in Requests : RequestOK(q)'
  BY <1>4, CommitKeepsOthers
<1>6. IdsDistinct'
  BY <1>3 DEF IInv, IdsDistinct, Open
<1>7. MainsDistinct'
  BY <1>3 DEF IInv, MainsDistinct, Active, Creating, Open
<1> QED
  BY <1>1, <1>2, <1>5, <1>6, <1>7 DEF IInv

----------------------------------------------------------------------------
(* The theorems.                                                           *)

\* Every reachable state satisfies the inductive invariant.
THEOREM Inductive == Spec => []IInv
<1>1. Init => IInv
  BY InitIInv
<1>2. IInv /\ [Next]_vars => IInv'
  <2> SUFFICES ASSUME IInv, [Next]_vars PROVE IInv'
    OBVIOUS
  <2>1. ASSUME NEW r \in Requests, Submit(r) PROVE IInv'
    BY <2>1, SubmitKeepsIInv
  <2>2. ASSUME NEW r \in Requests, Step(r) PROVE IInv'
    BY <2>2, BeginKeepsIInv, FetchKeepsIInv, BeginDeleteKeepsIInv,
       SaveKeepsIInv, ReadCountKeepsIInv, CommitKeepsIInv,
       AnswerDeleteKeepsIInv, EndingKeepsIInv DEF Step
  <2>3. CASE Crash
    BY <2>3, CrashKeepsIInv
  <2>4. CASE UNCHANGED vars
    BY <2>4, StutterKeepsIInv
  <2> QED
    BY <2>1, <2>2, <2>3, <2>4 DEF Next
<1> QED
  BY <1>1, <1>2, PTL DEF Spec

\* The tables, the search index and the requests keep their types.
THEOREM TypeCorrect == Spec => []TypeOK
  BY Inductive, PTL DEF IInv

\* However transactions interleave, abort or are cut short by a crash, the
\* header of an entity points to a committed revision with a row of its own.
THEOREM MastersAreOwnRevisions == Spec => []MasterIsOwnRevision
  BY Inductive, PTL DEF IInv, StoreOK

\* No revision is its own ancestor, although revision ids are allocated before
\* the parents are read.
THEOREM AncestryIsWellFounded == Spec => []AncestryWellFounded
  BY Inductive, PTL DEF IInv, StoreOK

\* An entity has at most one revision that looks like its creation.
THEOREM EntitiesAreCreatedOnce == Spec => []CreatedOnce
  BY Inductive, PTL DEF IInv, StoreOK

\* An editor is never credited with more revisions than they made.
THEOREM EditsAreNotOvercounted == Spec => []NoEditOvercounted
  BY Inductive, PTL DEF IInv, StoreOK

\* Whatever overlaps, nothing is recorded twice.
THEOREM NothingIsRecordedTwice == Spec => []NothingRecordedTwice
  BY EntitiesAreCreatedOnce, EditsAreNotOvercounted, PTL DEF NothingRecordedTwice

----------------------------------------------------------------------------
(* The handlers implement the abstract store.                              *)

\* The commit is one revision of the abstract store.
LEMMA CommitRecords ==
  ASSUME IInv, NEW r \in Requests, Commit(r)
  PROVE  Store!Next
<1> DEFINE t == task[r]
           x == trx[r]
           n == x.id
           written == [e \in Entities |-> entityRevision'[e][n]]
<1>1. /\ n \in Store!Ids
      /\ t.editor \in Editors
      /\ author[n] = Absent
      /\ parents'[n] \subseteq Store!Recorded
  BY CommitEffect DEF Store!Ids, Store!Recorded, Ids, Committed
<1>2. \A e \in Entities : written[e] = x.write[e]
  BY CommitEffect
<1>3. /\ author' = [author EXCEPT ![n] = t.editor]
      /\ parents' = [parents EXCEPT ![n] = parents'[n]]
  BY CommitEffect DEF Commit, IInv, TypeOK
<1>4. entityRevision' = [e \in Entities |->
        [entityRevision[e] EXCEPT ![n] = written[e]]]
  BY <1>2 DEF Commit
<1>5. header' = [e \in Entities |->
        IF written[e] # Absent THEN n ELSE header[e]]
  BY <1>2 DEF Commit, Touched
<1>6. ASSUME NEW e \in Entities, written[e] \in Data
      PROVE  \/ header[e] = 0
             \/ \E p \in parents'[n] : entityRevision[e][p] \in Data
  <2>1. x.write[e] \in Data
    BY <1>2, <1>6
  <2>2. \/ IsNew(t, e)
        \/ x.base[e] # 0 /\ entityRevision[e][x.base[e]] \in Data
    BY <2>1, CommitEffect DEF WritesOK
  <2>3. CASE IsNew(t, e)
    BY <2>3 DEF IsNew, IInv, RequestOK, Creating, Commit, Open
  <2>4. CASE x.base[e] # 0 /\ entityRevision[e][x.base[e]] \in Data
    BY <2>4, CommitEffect
  <2> QED
    BY <2>2, <2>3, <2>4
<1>7. ASSUME NEW e \in Entities, written[e] = Null
      PROVE  header[e] # 0
  <2>1. x.write[e] = Null /\ x.write[e] # Absent
    BY <1>2, <1>7, SentinelAssumption
  <2>2. t.kind = "delete" /\ (IsNew(t, e) \/ Exists(e))
    BY <2>1, CommitEffect DEF WritesOK
  <2> QED
    BY <2>2 DEF IsNew, Exists
<1> HIDE DEF written
<1>8. Store!Record(n, t.editor, written)
  BY <1>1, <1>3, <1>4, <1>5, <1>6, <1>7 DEF Store!Record
<1> QED
  BY <1>1, <1>8 DEF Store!Next, written

\* The tables start as those of the abstract store, and each step of a handler
\* is one of its steps or leaves the tables alone.
THEOREM HandlersImplementStore == Spec => StoreImplemented
<1>1. Init => Store!Init
  BY DEF Init, Store!Init, Store!Ids, Ids
<1>2. IInv /\ [Next]_vars => [Store!Next]_(Store!storeVars)
  <2> SUFFICES ASSUME IInv, [Next]_vars
               PROVE  Store!Next \/ UNCHANGED Store!storeVars
    OBVIOUS
  <2>1. ASSUME NEW r \in Requests, Submit(r)
        PROVE  UNCHANGED Store!storeVars
    BY <2>1 DEF Submit, SubmitCreate, SubmitEdit, SubmitDelete, RefuseDelete,
                tables, Store!storeVars
  <2>2. ASSUME NEW r \in Requests, Step(r), ~Commit(r)
        PROVE  UNCHANGED Store!storeVars
    BY <2>2 DEF Step, Begin, Fetch, BeginDelete, RefuseBlankNote, Save,
                ReadCount, Finish, AnswerDelete, Unindex, DeadlockVictim,
                tables, Store!storeVars
  <2>3. ASSUME NEW r \in Requests, Commit(r)
        PROVE  Store!Next
    BY <2>3, CommitRecords
  <2>4. CASE Crash \/ UNCHANGED vars
    BY <2>4 DEF Crash, vars, tables, Store!storeVars
  <2> QED
    BY <2>1, <2>2, <2>3, <2>4 DEF Next
<1> QED
  BY <1>1, <1>2, Inductive, PTL DEF Spec, StoreImplemented, Store!Spec

----------------------------------------------------------------------------
(* Requests one at a time: the invariant.                                  *)

\* A request in flight is the only one.
Alone == \A q, r \in InFlight : q = r

\* What entities will be once the transaction has committed.
LiveAfter(r, e) ==
  IF trx[r].write[e] = Absent THEN Live(e) ELSE trx[r].write[e] # Null
RelsAfter(r, e) ==
  IF trx[r].write[e] = Absent THEN Rels(e) ELSE OwnRels(trx[r].write[e])

\* A form relates its entity to others that are there.
Submitted(r) ==
  /\ task[r].kind = "edit" => Exists(task[r].main)
  /\ task[r].add \subseteq Existing \ {task[r].main}
  /\ task[r].add \cap task[r].drop = {}

Computed(r) ==
  /\ trx[r].keys = RelatedBBIDs(task[r])
  /\ trx[r].sets = NextRelationshipSets(task[r], Rels(task[r].main))

\* A transaction writes what continues the rows there are, the others under the names
\* they have.
Continues(r) ==
  /\ \A e \in Entities : trx[r].write[e] # Absent =>
       \/ IsNew(task[r], e)
       \/ Live(e) /\ (trx[r].write[e] # Null => trx[r].base[e] = header[e])
  /\ \A e \in Entities \ {task[r].main} : trx[r].write[e] # Absent =>
       trx[r].write[e] # Null /\ trx[r].write[e].name = Master(e).name
  /\ trx[r].write[task[r].main] = Null <=> task[r].kind = "delete"
  /\ trx[r].write[task[r].main] = Absent =>
       ~Live(task[r].main) /\ ~IsNew(task[r], task[r].main)

\* It keeps the two sides of relationships together, and an entity it deletes is nobody's.
Relates(r) ==
  /\ \A e, f \in Entities : LiveAfter(r, e) /\ LiveAfter(r, f) =>
       (f \in RelsAfter(r, e) <=> e \in RelsAfter(r, f))
  /\ \A e \in Entities : \A f \in RelsAfter(r, e) : Exists(f) \/ IsNew(task[r], f)
  /\ task[r].kind = "delete" => \A e \in Entities : task[r].main \notin RelsAfter(r, e)

\* What is written of the entity is what its master says now.
Written(r) ==
  IF task[r].kind = "delete" THEN ~Live(task[r].main)
  ELSE trx[r].write[task[r].main] =
         IF Live(task[r].main) THEN Master(task[r].main) ELSE Absent

\* What a request that meets no other has loaded, read and computed is so.
SerialOK(r) ==
  /\ phase[r] = "loaded" /\ task[r].kind # "create" =>
       Exists(task[r].main) /\ loaded[r] = Master(task[r].main)
  /\ phase[r] = "loaded" /\ task[r].kind = "delete" => Live(task[r].main)
  /\ phase[r] \in {"loaded", "begun"} /\ task[r].kind # "delete" => Submitted(r)
  /\ phase[r] = "begun" => Computed(r)
  /\ phase[r] \in {"saving", "counted"} => Continues(r) /\ Relates(r)
  /\ phase[r] = "counted" => trx[r].count = revisionsApplied[task[r].editor]
  /\ phase[r] \in {"committed", "answered"} => Written(r)
  /\ phase[r] = "answered" => task[r].kind = "delete"

\* Relationships lead to entities that are there, if deleted.
RelatedExist == \A e \in Entities : \A f \in Rels(e) : Exists(f)

SerialInv ==
  /\ IInv /\ Alone /\ EditsCounted /\ RelationshipsSymmetric /\ RelatedExist
  /\ \A r \in Requests : SerialOK(r)

\* The index has the name of each entity but one that was just saved.
Coming(e) ==
  \E r \in Requests : phase[r] = "committed" /\ task[r].kind # "delete" /\ task[r].main = e
Indexed == \A e \in Entities : Live(e) => searchIndex[e] = Master(e).name \/ Coming(e)

----------------------------------------------------------------------------
(* Requests one at a time: steps that leave the tables alone.              *)

\* What is read of the tables is as it was.
LEMMA TablesRead ==
  ASSUME UNCHANGED tables
  PROVE  /\ \A e \in Entities : /\ Exists(e)' = Exists(e) /\ Master(e)' = Master(e)
                                /\ Live(e)' = Live(e) /\ Rels(e)' = Rels(e)
         /\ Existing' = Existing
  BY DEF tables, Existing, Exists, Master, Live, Rels

\* What the transaction of a request writes is as good as it was.
LEMMA WritesKept ==
  ASSUME UNCHANGED tables, NEW r \in Requests, task'[r] = task[r], task[r].main \in Entities,
         trx'[r].write = trx[r].write, trx'[r].base = trx[r].base,
         Continues(r), Relates(r)
  PROVE  Continues(r)' /\ Relates(r)'
<1>1. /\ \A e \in Entities : /\ Exists(e)' = Exists(e) /\ Master(e)' = Master(e)
                              /\ Live(e)' = Live(e) /\ Rels(e)' = Rels(e)
      /\ header' = header
  BY TablesRead DEF tables
<1>2. Continues(r)'
  BY <1>1 DEF Continues, IsNew
<1>3. \A e \in Entities : LiveAfter(r, e)' = LiveAfter(r, e) /\ RelsAfter(r, e)' = RelsAfter(r, e)
  BY <1>1 DEF LiveAfter, RelsAfter, OwnRels
<1>4. \A f : Exists(f)' = Exists(f)
  BY DEF tables, Exists
<1>5. Relates(r)'
  BY <1>3, <1>4 DEF Relates, IsNew
<1> QED BY <1>2, <1>5

\* Nothing else is in flight next to a request.
LEMMA SerialMoves ==
  ASSUME SerialInv, IInv', UNCHANGED tables, NEW r \in Requests,
         \A q \in Requests \ {r} : phase'[q] = phase[q] /\ phase[q] \in {"idle", "ended"},
         SerialOK(r)'
  PROVE  SerialInv'
<1>1. Alone'
  BY DEF Alone, InFlight
<1>2. EditsCounted'
  BY DEF SerialInv, EditsCounted, tables
<1>3. RelationshipsSymmetric'
  BY TablesRead DEF SerialInv, RelationshipsSymmetric
<1>4. RelatedExist'
  <2>1. \A f : Exists(f)' = Exists(f)
    BY DEF tables, Exists
  <2> QED BY <2>1, TablesRead DEF SerialInv, RelatedExist
<1>5. ASSUME NEW q \in Requests \ {r} PROVE SerialOK(q)'
  BY DEF SerialOK
<1> QED BY <1>1, <1>2, <1>3, <1>4, <1>5 DEF SerialInv

\* A request that goes on is the one that was in flight.
LEMMA GoingOn ==
  ASSUME SerialInv, NEW r \in Requests, Active(r)
  PROVE  \A q \in Requests \ {r} : phase[q] \in {"idle", "ended"}
  BY DEF SerialInv, Alone, InFlight, Active

\* When the process exits or the only request ends, none is in flight.
LEMMA NoneLeft ==
  ASSUME SerialInv, IInv', UNCHANGED tables, \A q \in Requests : phase'[q] \in {"idle", "ended"}
  PROVE  SerialInv'
<1>1. Alone'
  BY DEF Alone, InFlight
<1>2. EditsCounted'
  BY DEF SerialInv, EditsCounted, tables
<1>3. RelationshipsSymmetric'
  BY TablesRead DEF SerialInv, RelationshipsSymmetric
<1>4. RelatedExist'
  <2>1. \A f : Exists(f)' = Exists(f)
    BY DEF tables, Exists
  <2> QED BY <2>1, TablesRead DEF SerialInv, RelatedExist
<1>5. ASSUME NEW q \in Requests PROVE SerialOK(q)'
  BY DEF SerialOK
<1> QED BY <1>1, <1>2, <1>3, <1>4, <1>5 DEF SerialInv

LEMMA ExitEndsAll ==
  ASSUME TypeOK, ServerExit
  PROVE  \A q \in Requests : phase'[q] \in {"idle", "ended"}
  BY DEF ServerExit, InFlight, TypeOK, Phases

LEMMA EndsAll ==
  ASSUME SerialInv, NEW r \in Requests, Active(r), NEW reply, Ended(r, reply) \/ ServerExit
  PROVE  \A q \in Requests : phase'[q] \in {"idle", "ended"}
<1>1. TypeOK
  BY DEF SerialInv, IInv
<1>2. CASE Ended(r, reply)
  BY <1>1, <1>2, GoingOn DEF Ended, TypeOK
<1>3. CASE ServerExit
  BY <1>1, <1>3, ExitEndsAll
<1> QED BY <1>2, <1>3

\* A request is as well off as before if neither the tables nor its own state change.
LEMMA SerialKept ==
  ASSUME NEW q \in Requests, TypeOK, RequestOK(q), SerialOK(q), UNCHANGED tables,
         phase'[q] = phase[q], task'[q] = task[q], loaded'[q] = loaded[q], trx'[q] = trx[q]
  PROVE  SerialOK(q)'
<1>1. \A f : Exists(f)' = Exists(f) /\ Live(f)' = Live(f) /\ Master(f)' = Master(f) /\ Rels(f)' = Rels(f)
  BY DEF tables, Exists, Live, Master, Rels
<1>2. Existing' = Existing
  BY TablesRead
<1>3. Submitted(q) => Submitted(q)'
  BY <1>1, <1>2 DEF Submitted
<1>4. Computed(q) => Computed(q)'
  BY <1>1 DEF Computed, RelatedBBIDs, NextRelationshipSets
<1>5. Continues(q) /\ Relates(q) /\ Active(q) => Continues(q)' /\ Relates(q)'
  BY WritesKept DEF RequestOK, TaskType
<1>6. Written(q) => Written(q)'
  BY <1>1 DEF Written
<1>7. revisionsApplied' = revisionsApplied
  BY DEF tables
<1> QED
  BY <1>1, <1>3, <1>4, <1>5, <1>6, <1>7 DEF SerialOK, Active

\* A deletion of what is deleted is refused at once, whatever is in flight.
LEMMA RefusedKeepsSerial ==
  ASSUME SerialInv, IInv', NEW r \in Requests, RefuseDelete(r)
  PROVE  SerialInv'
<1>1. /\ TypeOK /\ \A q \in Requests : RequestOK(q) /\ SerialOK(q)
      /\ UNCHANGED tables /\ phase'[r] = "ended"
      /\ \A q \in Requests \ {r} : /\ phase'[q] = phase[q] /\ task'[q] = task[q]
                                   /\ loaded'[q] = loaded[q] /\ trx'[q] = trx[q]
  BY DEF SerialInv, IInv, TypeOK, RefuseDelete, Ended
<1>2. SerialOK(r)'
  BY <1>1 DEF SerialOK
<1>3. \A q \in Requests \ {r} : SerialOK(q)'
  BY <1>1, SerialKept
<1>4. Alone'
  BY <1>1 DEF SerialInv, Alone, InFlight
<1>5. EditsCounted' /\ RelationshipsSymmetric'
  BY <1>1, TablesRead DEF SerialInv, EditsCounted, RelationshipsSymmetric, tables
<1>6. RelatedExist'
  <2>1. \A f : Exists(f)' = Exists(f)
    BY <1>1 DEF tables, Exists
  <2> QED BY <1>1, <2>1, TablesRead DEF SerialInv, RelatedExist
<1> QED BY <1>2, <1>3, <1>4, <1>5, <1>6 DEF SerialInv

\* No request is accepted while another one is in flight.
LEMMA AcceptedAlone ==
  ASSUME MaxInFlight = 1, IsFiniteSet(Requests), NEW r \in Requests, NEW t, NEW old,
         Accept(r, t, old)
  PROVE  \A q \in Requests : phase[q] \in {"idle", "ended"}
<1>1. IsFiniteSet(InFlight) /\ Cardinality(InFlight) \in Nat
  BY FS_Subset, FS_CardinalityType DEF InFlight
<1>2. Cardinality(InFlight) = 0
  BY <1>1 DEF Accept
<1> QED BY <1>1, <1>2, FS_EmptySet DEF InFlight

LEMMA SubmitKeepsSerial ==
  ASSUME MaxInFlight = 1, IsFiniteSet(Requests), SerialInv, IInv', NEW r \in Requests, Submit(r)
  PROVE  SerialInv'
<1>1. TypeOK
  BY DEF SerialInv, IInv
<1>2. ASSUME NEW t \in TaskType, NEW old, Accept(r, t, old), UNCHANGED tables,
             t.kind # "create" => Exists(t.main) /\ old = Master(t.main),
             t.kind = "delete" => Live(t.main),
             t.kind # "delete" => /\ t.add \subseteq Existing \ {t.main}
                                  /\ t.add \cap t.drop = {}
      PROVE  SerialInv'
  <2>1. \A q \in Requests : phase[q] \in {"idle", "ended"}
    BY <1>2, AcceptedAlone
  <2>2. /\ phase'[r] = "loaded" /\ task'[r] = t /\ loaded'[r] = old
        /\ \A q \in Requests \ {r} : phase'[q] = phase[q]
    BY <1>1, <1>2 DEF Accept, TypeOK
  <2>3. Exists(t.main)' = Exists(t.main) /\ Live(t.main)' = Live(t.main) /\ Master(t.main)' = Master(t.main)
    BY <1>2 DEF tables, Exists, Live, Master
  <2>4. Existing' = Existing
    BY <1>2, TablesRead
  <2>5. t.kind # "delete" => Submitted(r)'
    BY <1>2, <2>2, <2>3, <2>4 DEF Submitted
  <2>6. SerialOK(r)'
    BY <1>2, <2>2, <2>3, <2>5 DEF SerialOK, Exists, Live, Master
  <2> QED BY <1>2, <2>1, <2>2, <2>6, SerialMoves
<1>3. CASE SubmitCreate(r)
  <2>1. PICK ed \in Editors, e \in Entities, name \in Names, valid \in Verdicts, add \in AtMostOne(Existing) :
          ~Exists(e) /\ Accept(r, Task("create", ed, e, name, add, {}, valid), Null)
    BY <1>3 DEF SubmitCreate
  <2> DEFINE t == Task("create", ed, e, name, add, {}, valid)
  <2>2. /\ t \in TaskType /\ t.kind = "create" /\ t.main = e /\ t.add = add /\ t.drop = {}
        /\ add \subseteq Existing /\ e \notin Existing
    BY <2>1, BoundAssumption DEF Task, TaskType, Kinds, AtMostOne, Existing
  <2> HIDE DEF t
  <2> QED BY <1>2, <1>3, <2>1, <2>2 DEF SubmitCreate, t
<1>4. CASE SubmitEdit(r)
  <2>1. PICK ed \in Editors, e \in Existing, name \in Names, valid \in Verdicts :
          \E add \in AtMostOne(Existing \ (Rels(e) \cup {e})), drop \in AtMostOne(Rels(e)) :
            (add = {} \/ drop = {}) /\ Accept(r, Task("edit", ed, e, name, add, drop, valid), Master(e))
    BY <1>4 DEF SubmitEdit
  <2>2. PICK add \in AtMostOne(Existing \ (Rels(e) \cup {e})), drop \in AtMostOne(Rels(e)) :
          (add = {} \/ drop = {}) /\ Accept(r, Task("edit", ed, e, name, add, drop, valid), Master(e))
    BY <2>1
  <2> DEFINE t == Task("edit", ed, e, name, add, drop, valid)
  <2>3. e \in Entities /\ Exists(e) /\ Rels(e) \in SUBSET Entities
    BY MasterType DEF Existing, SerialInv
  <2>4. /\ add \subseteq Existing \ {e} /\ drop \subseteq Entities /\ add \cap drop = {}
    BY <2>2, <2>3 DEF AtMostOne
  <2>5. t \in TaskType /\ t.kind = "edit" /\ t.main = e /\ t.add = add /\ t.drop = drop
    BY <2>1, <2>3, <2>4, BoundAssumption DEF Task, TaskType, Kinds, Existing
  <2> HIDE DEF t
  <2> QED BY <1>2, <1>4, <2>2, <2>3, <2>4, <2>5 DEF SubmitEdit, t
<1>5. CASE SubmitDelete(r)
  <2>1. PICK ed \in Editors, e \in Existing, valid \in Verdicts :
          Live(e) /\ Accept(r, Task("delete", ed, e, Absent, {}, {}, valid), Master(e))
    BY <1>5 DEF SubmitDelete
  <2> DEFINE t == Task("delete", ed, e, Absent, {}, {}, valid)
  <2>2. t \in TaskType /\ t.kind = "delete" /\ t.main = e /\ Exists(e)
    BY <2>1, BoundAssumption DEF Task, TaskType, Kinds, Existing
  <2> HIDE DEF t
  <2> QED BY <1>2, <1>5, <2>1, <2>2 DEF SubmitDelete, t
<1>6. CASE RefuseDelete(r)
  BY <1>6, RefusedKeepsSerial
<1> QED BY <1>3, <1>4, <1>5, <1>6 DEF Submit

\* The ways a request ends, and what interrupts it.
LEMMA EndingKeepsSerial ==
  ASSUME SerialInv, IInv', NEW r \in Requests,
         Finish(r) \/ Unindex(r) \/ RefuseBlankNote(r) \/ DeadlockVictim(r)
  PROVE  SerialInv'
<1>1. Active(r)
  BY DEF Finish, Unindex, RefuseBlankNote, DeadlockVictim, Active, InCycle, WaitsFor
<1>2. (\E reply : Ended(r, reply)) \/ ServerExit
  BY DEF Finish, Unindex, RefuseBlankNote, DeadlockVictim, Fail
<1>3. UNCHANGED tables
  BY DEF Finish, Unindex, RefuseBlankNote, DeadlockVictim
<1> QED BY <1>1, <1>2, <1>3, EndsAll, NoneLeft

LEMMA CrashKeepsSerial ==
  ASSUME SerialInv, IInv', Crash
  PROVE  SerialInv'
<1>1. UNCHANGED tables /\ ServerExit
  BY DEF Crash
<1> QED BY <1>1, ExitEndsAll, NoneLeft DEF SerialInv, IInv

LEMMA StutterKeepsSerial ==
  ASSUME SerialInv, IInv', UNCHANGED vars
  PROVE  SerialInv'
<1>1. UNCHANGED tables /\ TypeOK /\ \A q \in Requests : RequestOK(q) /\ SerialOK(q)
  BY DEF vars, tables, SerialInv, IInv
<1>2. \A q \in Requests : SerialOK(q)'
  BY <1>1, SerialKept DEF vars
<1>3. Alone' /\ EditsCounted' /\ RelationshipsSymmetric' /\ RelatedExist'
  BY DEF SerialInv, vars, Alone, InFlight, EditsCounted, RelationshipsSymmetric, RelatedExist, Live, Rels, Exists, Master
<1> QED BY <1>2, <1>3 DEF SerialInv

----------------------------------------------------------------------------
(* Requests one at a time: the transaction.                                *)

\* Relationship sets are computed from the entity as it still is.
LEMMA BeginKeepsSerial ==
  ASSUME SerialInv, IInv', NEW r \in Requests, Begin(r)
  PROVE  SerialInv'
<1>1. /\ TypeOK /\ RequestOK(r) /\ SerialOK(r) /\ Active(r) /\ UNCHANGED tables
      /\ phase[r] = "loaded" /\ task[r].kind # "delete"
  BY DEF SerialInv, IInv, Begin, Active
<1>2. CASE NoUpdatedField(task[r], loaded[r])
  <2>1. ServerExit
    BY <1>1, <1>2 DEF Begin, Fail
  <2> QED BY <1>1, <2>1, ExitEndsAll, NoneLeft
<1>3. CASE ~NoUpdatedField(task[r], loaded[r])
  <2> DEFINE x == [NoTrx EXCEPT
                     !.id = nextId,
                     !.name = ChangedName(task[r], loaded[r]),
                     !.keys = RelatedBBIDs(task[r]),
                     !.sets = NextRelationshipSets(task[r], OwnRels(loaded[r]))]
  <2>1. /\ phase' = [phase EXCEPT ![r] = "begun"] /\ trx' = [trx EXCEPT ![r] = x]
        /\ UNCHANGED <<task, loaded, answer>>
    BY <1>3 DEF Begin
  <2>2. /\ x.keys = RelatedBBIDs(task[r])
        /\ x.sets = NextRelationshipSets(task[r], OwnRels(loaded[r]))
    BY DEF NoTrx
  <2> HIDE DEF x
  <2>3. /\ phase'[r] = "begun" /\ trx'[r] = x /\ task'[r] = task[r]
        /\ \A q \in Requests \ {r} : phase'[q] = phase[q]
    BY <1>1, <2>1 DEF TypeOK
  <2>4. OwnRels(loaded[r]) = Rels(task[r].main)
    <3>1. CASE task[r].kind = "create"
      BY <1>1, <3>1 DEF RequestOK, Creating, OwnRels, Rels, Live, Exists
    <3>2. CASE task[r].kind # "create"
      BY <1>1, <3>2 DEF SerialOK, OwnRels, Rels, Live
    <3> QED BY <3>1, <3>2
  <2>5. \A f : Exists(f)' = Exists(f) /\ Rels(f)' = Rels(f)
    BY <1>1 DEF tables, Exists, Rels, Live, Master
  <2>6. Computed(r)'
    <3>1. RelatedBBIDs(task[r])' = RelatedBBIDs(task[r])
      BY <2>3 DEF RelatedBBIDs
    <3>2. NextRelationshipSets(task[r], Rels(task[r].main))' =
            NextRelationshipSets(task[r], Rels(task[r].main))
      BY <2>3, <2>5 DEF NextRelationshipSets
    <3> QED BY <2>2, <2>3, <2>4, <3>1, <3>2 DEF Computed
  <2>7. Submitted(r)'
    BY <1>1, <2>3, <2>5, TablesRead DEF SerialOK, Submitted
  <2>8. SerialOK(r)'
    BY <2>3, <2>6, <2>7 DEF SerialOK
  <2> QED BY <1>1, <2>3, <2>8, GoingOn, SerialMoves
<1> QED BY <1>2, <1>3

LEMMA SaveKeepsSerial ==
  ASSUME SerialInv, IInv', NEW r \in Requests, Save(r)
  PROVE  SerialInv'
<1>1. /\ TypeOK /\ RequestOK(r) /\ SerialOK(r) /\ Active(r) /\ UNCHANGED tables
      /\ phase[r] = "saving" /\ UNCHANGED <<phase, task>>
      /\ trx' = [trx EXCEPT ![r].queue = Tail(@)]
  BY DEF SerialInv, IInv, Save, Active
<1>2. trx'[r].write = trx[r].write /\ trx'[r].base = trx[r].base
  BY <1>1 DEF TypeOK, TrxType
<1>3. Continues(r)' /\ Relates(r)'
  BY <1>1, <1>2, WritesKept DEF SerialOK, RequestOK, TaskType
<1>4. SerialOK(r)'
  BY <1>1, <1>3 DEF SerialOK
<1> QED BY <1>1, <1>4, GoingOn, SerialMoves

LEMMA ReadCountKeepsSerial ==
  ASSUME SerialInv, IInv', NEW r \in Requests, ReadCount(r)
  PROVE  SerialInv'
<1>1. /\ TypeOK /\ RequestOK(r) /\ SerialOK(r) /\ Active(r) /\ UNCHANGED tables
      /\ phase[r] = "saving" /\ UNCHANGED task
      /\ phase' = [phase EXCEPT ![r] = "counted"]
      /\ trx' = [trx EXCEPT ![r].count = revisionsApplied[task[r].editor]]
  BY DEF SerialInv, IInv, ReadCount, Active
<1>2. /\ trx'[r].write = trx[r].write /\ trx'[r].base = trx[r].base
      /\ trx'[r].count = revisionsApplied[task[r].editor]
      /\ phase'[r] = "counted" /\ \A q \in Requests \ {r} : phase'[q] = phase[q]
  BY <1>1 DEF TypeOK, TrxType
<1>3. Continues(r)' /\ Relates(r)'
  BY <1>1, <1>2, WritesKept DEF SerialOK, RequestOK, TaskType
<1>4. revisionsApplied' = revisionsApplied
  BY <1>1 DEF tables
<1>5. SerialOK(r)'
  BY <1>1, <1>2, <1>3, <1>4 DEF SerialOK
<1> QED BY <1>1, <1>2, <1>5, GoingOn, SerialMoves

LEMMA AnswerKeepsSerial ==
  ASSUME SerialInv, IInv', NEW r \in Requests, AnswerDelete(r)
  PROVE  SerialInv'
<1>1. /\ TypeOK /\ SerialOK(r) /\ Active(r) /\ UNCHANGED <<tables, task, trx>>
      /\ phase[r] = "committed" /\ task[r].kind = "delete"
      /\ phase' = [phase EXCEPT ![r] = "answered"]
  BY DEF SerialInv, IInv, AnswerDelete, Active
<1>2. phase'[r] = "answered" /\ \A q \in Requests \ {r} : phase'[q] = phase[q]
  BY <1>1 DEF TypeOK
<1>3. \A f : Live(f)' = Live(f)
  BY <1>1 DEF tables, Live, Exists, Master
<1>4. SerialOK(r)'
  BY <1>1, <1>2, <1>3 DEF SerialOK, Written
<1> QED BY <1>1, <1>2, <1>4, GoingOn, SerialMoves

\* The rows that a creation or an edit writes: those of its entity and of the ones it
\* relates it to or no longer does, as they are and if they are not deleted.
LEMMA FetchWrites ==
  ASSUME SerialInv, NEW r \in Requests, Fetch(r)
  PROVE  LET m == task[r].main
             add == task[r].add
             drop == task[r].drop
         IN /\ task[r].kind # "delete" /\ m \in Entities
            /\ add \subseteq Existing \ {m} /\ add \cap drop = {}
            /\ task[r].kind = "create" => ~Exists(m)
            /\ \A e \in Entities : trx'[r].write[e] \in Data \cup {Absent}
            /\ \A e \in Entities : IsNew(task[r], e) \/ Live(e) \/ trx'[r].write[e] = Absent
            /\ IsNew(task[r], m) \/ Live(m) <=> trx'[r].write[m] # Absent
            /\ trx'[r].write[m] # Absent => trx'[r].write[m].rels = (Rels(m) \cup add) \ drop
            /\ \A e \in Entities \ {m} : trx'[r].write[e] # Absent =>
                 /\ trx'[r].write[e].name = Master(e).name
                 /\ trx'[r].write[e].rels = IF e \in add THEN Rels(e) \cup {m} ELSE Rels(e) \ {m}
            /\ \A e \in Entities \ {m} : Live(e) =>
                 (trx'[r].write[e] # Absent <=> e \in add \cup drop)
            /\ \A e \in Entities : trx'[r].write[e] # Absent /\ ~IsNew(task[r], e) =>
                 trx'[r].base[e] = header[e]
<1> DEFINE t == task[r]
           x == trx[r]
           saved == {e \in x.keys \cup {t.main} : Savable(t, e)}
           base == [e \in Entities |-> IF e \in saved /\ ~IsNew(t, e) THEN header[e] ELSE 0]
           write == [e \in Entities |-> IF e \in saved THEN Updated(t, x, e) ELSE Absent]
<1>1. /\ IInv /\ TypeOK /\ RequestOK(r) /\ SerialOK(r) /\ phase[r] = "begun"
  BY DEF SerialInv, IInv, Fetch
<1>2. t \in TaskType /\ t.kind # "delete" /\ x \in TrxType /\ t.main \in Entities
  BY <1>1 DEF RequestOK, Active, TypeOK, TaskType
<1>3. trx'[r].write = write /\ trx'[r].base = base
  BY <1>1, <1>2 DEF Fetch, TypeOK, TrxType
<1>4. /\ t.kind = "edit" => Exists(t.main)
      /\ t.add \subseteq Existing \ {t.main} /\ t.add \cap t.drop = {}
      /\ x.keys = RelatedBBIDs(t) /\ x.sets = NextRelationshipSets(t, Rels(t.main))
  BY <1>1, <1>2 DEF SerialOK, Submitted, Computed
<1>5. t.kind = "create" => ~Exists(t.main)
  BY <1>1 DEF RequestOK, Creating, Open, Exists
<1>6. x.keys \subseteq Entities
  BY <1>2 DEF TrxType
<1>7. ASSUME NEW e \in Entities, e \in saved
      PROVE  /\ Updated(t, x, e) \in Data
             /\ Updated(t, x, e) # Absent /\ Updated(t, x, e) # Null
             /\ e # t.main => Updated(t, x, e).name = Master(e).name
             /\ Updated(t, x, e).rels = IF e \in x.keys THEN x.sets[e] ELSE Rels(e)
             /\ IsNew(t, e) \/ Live(e)
  <2>1. IsNew(t, e) => e = t.main /\ x.name \in Names /\ ~Live(e)
    BY <1>1, <1>5 DEF IsNew, RequestOK, Live
  <2>2. IsNew(t, e) \/ Live(e)
    BY <1>7 DEF Savable
  <2>3. Live(e) => Fetched(e) = Master(e) /\ Master(e) \in Data /\ Rels(e) = Master(e).rels
    BY <1>1, MasterType DEF Fetched, Rels, Live
  <2>4. ~Live(e) => Fetched(e).rels = {} /\ Rels(e) = {}
    BY DEF Fetched, Rels
  <2>5. x.sets[e] \in SUBSET Entities /\ x.name \in Names \cup {Absent}
    BY <1>2 DEF TrxType
  <2>6. Updated(t, x, e).rels = IF e \in x.keys THEN x.sets[e] ELSE Rels(e)
    BY <2>3, <2>4 DEF Updated
  <2>7. e # t.main => Updated(t, x, e).name = Master(e).name
    BY <2>1, <2>2, <2>3 DEF Updated
  <2>8. Updated(t, x, e).name \in Names
    BY <2>1, <2>2, <2>3, <2>5, SentinelAssumption DEF Updated, Data
  <2>9. Updated(t, x, e) \in Data
    BY <2>3, <2>4, <2>5, <2>6, <2>8 DEF Updated, Data
  <2> QED BY <2>2, <2>6, <2>7, <2>9, SentinelAssumption
<1>8. /\ \A e \in Entities : write[e] \in Data \cup {Absent}
      /\ \A e \in Entities : write[e] # Absent <=> e \in saved
      /\ \A e \in saved : e \in Entities /\ write[e] = Updated(t, x, e)
  BY <1>2, <1>6, <1>7
<1>9. t.main \in saved <=> IsNew(t, t.main) \/ Live(t.main)
  BY DEF Savable
<1>10. ASSUME NEW e \in Entities \ {t.main}, Live(e)
       PROVE  e \in saved <=> e \in t.add \cup t.drop
  BY <1>4, <1>10 DEF Savable, RelatedBBIDs
<1>11. \A e \in Entities :
         x.sets[e] = IF e = t.main THEN (Rels(t.main) \cup t.add) \ t.drop
                     ELSE IF e \in t.add THEN Rels(e) \cup {t.main} ELSE Rels(e) \ {t.main}
  BY <1>4 DEF NextRelationshipSets
<1>12. t.main \in x.keys \/ t.add \cup t.drop = {}
  BY <1>4 DEF RelatedBBIDs
<1>13. ASSUME NEW e \in Entities \ {t.main}, e \in saved
       PROVE  e \in x.keys
  BY <1>13
<1>14. ASSUME t.main \in saved PROVE write[t.main].rels = (Rels(t.main) \cup t.add) \ t.drop
  <2>1. write[t.main].rels = IF t.main \in x.keys THEN x.sets[t.main] ELSE Rels(t.main)
    BY <1>2, <1>7, <1>8, <1>14
  <2> QED BY <1>2, <1>11, <1>12, <2>1
<1>15. ASSUME NEW e \in Entities \ {t.main}, e \in saved
       PROVE  /\ write[e].name = Master(e).name
              /\ write[e].rels = IF e \in t.add THEN Rels(e) \cup {t.main} ELSE Rels(e) \ {t.main}
  BY <1>7, <1>8, <1>11, <1>13, <1>15
<1>16. \A e \in Entities : e \in saved /\ ~IsNew(t, e) => base[e] = header[e]
  OBVIOUS
<1> HIDE DEF saved, base, write
<1> QED
  BY <1>2, <1>3, <1>4, <1>5, <1>7, <1>8, <1>9, <1>10, <1>14, <1>15, <1>16

LEMMA FetchKeepsSerial ==
  ASSUME SerialInv, IInv', NEW r \in Requests, Fetch(r)
  PROVE  SerialInv'
<1> DEFINE t == task[r]
           m == task[r].main
           w == trx'[r].write
           new(e) == IsNew(t, e)
<1>1. /\ IInv /\ TypeOK /\ RelationshipsSymmetric /\ RelatedExist /\ Active(r) /\ UNCHANGED <<tables, task>>
      /\ phase' = [phase EXCEPT ![r] = "saving"]
  BY DEF SerialInv, IInv, Fetch, Active
<1>2. /\ t.kind # "delete" /\ m \in Entities
      /\ t.add \subseteq Existing \ {m} /\ t.add \cap t.drop = {}
      /\ t.kind = "create" => ~Exists(m)
      /\ \A e \in Entities : w[e] \in Data \cup {Absent}
      /\ \A e \in Entities : new(e) \/ Live(e) \/ w[e] = Absent
      /\ new(m) \/ Live(m) <=> w[m] # Absent
      /\ w[m] # Absent => w[m].rels = (Rels(m) \cup t.add) \ t.drop
      /\ \A e \in Entities \ {m} : w[e] # Absent =>
           /\ w[e].name = Master(e).name
           /\ w[e].rels = IF e \in t.add THEN Rels(e) \cup {m} ELSE Rels(e) \ {m}
      /\ \A e \in Entities \ {m} : Live(e) => (w[e] # Absent <=> e \in t.add \cup t.drop)
      /\ \A e \in Entities : w[e] # Absent /\ ~new(e) => trx'[r].base[e] = header[e]
  BY FetchWrites
<1> HIDE DEF w
<1>3. /\ phase'[r] = "saving" /\ task'[r] = t /\ trx'[r].write = w
      /\ \A q \in Requests \ {r} : phase'[q] = phase[q]
  BY <1>1 DEF TypeOK, w
<1>4. \A f : Exists(f)' = Exists(f) /\ Live(f)' = Live(f) /\ Master(f)' = Master(f) /\ Rels(f)' = Rels(f)
  BY <1>1 DEF tables, Exists, Live, Master, Rels
<1>5. header' = header
  BY <1>1 DEF tables
<1>6. \A e : new(e) <=> t.kind = "create" /\ e = m
  BY DEF IsNew
<1>7. \A e : Live(e) => Exists(e)
  BY DEF Live
<1>8. \A e : ~Live(e) => Rels(e) = {}
  BY DEF Rels
<1>9. \A e \in Entities : w[e] # Null
  BY <1>2, SentinelAssumption
<1>10. Continues(r)'
  BY <1>2, <1>3, <1>4, <1>5, <1>9 DEF Continues, IsNew
\* The rows as they will be.
<1> DEFINE L(e) == Live(e) \/ new(e)
           R(e) == IF e = m THEN IF L(m) THEN (Rels(m) \cup t.add) \ t.drop ELSE {}
                   ELSE IF Live(e) /\ e \in t.add THEN Rels(e) \cup {m}
                   ELSE IF Live(e) /\ e \in t.drop THEN Rels(e) \ {m} ELSE Rels(e)
<1>11. \A e \in Entities : LiveAfter(r, e)' <=> L(e)
  BY <1>2, <1>3, <1>4, <1>6, <1>9 DEF LiveAfter
<1>12. ASSUME NEW e \in Entities PROVE RelsAfter(r, e)' = R(e)
  <2>1. RelsAfter(r, e)' = IF w[e] = Absent THEN Rels(e) ELSE w[e].rels
    BY <1>3, <1>4, <1>9 DEF RelsAfter, OwnRels
  <2>2. CASE e = m
    BY <1>2, <1>8, <2>1, <2>2
  <2>3. CASE e # m /\ ~Live(e)
    BY <1>2, <1>6, <2>1, <2>3
  <2>4. CASE e # m /\ Live(e)
    BY <1>2, <2>1, <2>4
  <2> QED BY <2>2, <2>3, <2>4
<1>13. ASSUME NEW e \in Entities \ {m}, Live(e), L(m)
       PROVE  m \in R(e) <=> e \in R(m)
  <2>1. m \in Rels(e) <=> e \in Rels(m)
    <3>1. CASE Live(m)
      BY <1>1, <1>2, <1>13, <3>1 DEF RelationshipsSymmetric
    <3>2. CASE ~Live(m)
      <4>1. ~Exists(m)
        BY <1>2, <1>6, <1>13, <3>2
      <4> QED BY <1>1, <1>8, <3>2, <4>1 DEF RelatedExist
    <3> QED BY <3>1, <3>2
  <2> QED BY <1>2, <1>13, <2>1
<1>14. ASSUME NEW e \in Entities, NEW f \in Entities, L(e), L(f)
       PROVE  f \in R(e) <=> e \in R(f)
  <2>1. (e # m => Live(e)) /\ (f # m => Live(f))
    BY <1>6, <1>14
  <2> HIDE DEF R, L
  <2>2. CASE e = m
    BY <1>13, <1>14, <2>1, <2>2
  <2>3. CASE f = m
    BY <1>13, <1>14, <2>1, <2>3
  <2>4. CASE e # m /\ f # m
    <3>1. f \in Rels(e) <=> e \in Rels(f)
      BY <1>1, <2>1, <2>4 DEF RelationshipsSymmetric
    <3> QED BY <2>4, <3>1 DEF R
  <2> QED BY <2>2, <2>3, <2>4
<1>15. ASSUME NEW e \in Entities, NEW f \in R(e)
       PROVE  Exists(f) \/ new(f)
  <2>1. f \in Rels(e) \/ (e = m /\ f \in t.add) \/ (f = m /\ L(m)) \/ (f = m /\ e \in t.add)
    BY <1>15
  <2>2. t.kind = "create" \/ Exists(m)
    BY FetchWrites, <1>1 DEF SerialInv, SerialOK, Fetch, Submitted, IInv, RequestOK, Active, TaskType, Kinds
  <2> QED BY <1>1, <1>2, <1>6, <1>7, <2>1, <2>2 DEF RelatedExist, Existing
<1> HIDE DEF L, R
<1>16. Relates(r)'
  BY <1>2, <1>3, <1>4, <1>11, <1>12, <1>14, <1>15 DEF Relates, IsNew
<1>17. SerialOK(r)'
  BY <1>3, <1>10, <1>16 DEF SerialOK
<1> QED BY <1>1, <1>3, <1>17, GoingOn, SerialMoves

\* The rows that a deletion writes: its own, and those of the entities related to it,
\* which are all that have the relationship.
LEMMA DeleteKeepsSerial ==
  ASSUME SerialInv, IInv', NEW r \in Requests, BeginDelete(r)
  PROVE  SerialInv'
<1> DEFINE t == task[r]
           m == task[r].main
           others == Detached(t, loaded[r])
           base == [e \in Entities |-> IF e \in others THEN header[e] ELSE 0]
           row(e, wiped) == [Master(e) EXCEPT !.rels =
                               IF e \in wiped THEN {} ELSE Rels(e) \ {t.main}]
           write(wiped) == [e \in Entities |->
                              IF e = t.main THEN Null
                              ELSE IF e \in others THEN row(e, wiped)
                              ELSE Absent]
<1>1. /\ IInv /\ TypeOK /\ RequestOK(r) /\ SerialOK(r) /\ RelationshipsSymmetric /\ RelatedExist
      /\ Active(r) /\ UNCHANGED <<tables, task>>
      /\ phase[r] = "loaded" /\ t.kind = "delete"
      /\ phase' = [phase EXCEPT ![r] = "saving"]
  BY DEF SerialInv, IInv, BeginDelete, Active
<1>2. m \in Entities /\ Live(m) /\ loaded[r] = Master(m)
  BY <1>1 DEF RequestOK, TaskType, SerialOK
<1>3. others = {e \in Rels(m) \ {m} : Live(e) /\ Rels(e) # {}}
  BY <1>2 DEF Detached, OwnRels, Rels, Live
<1>4. \A e \in Entities : Rels(e) \in SUBSET Entities
  BY <1>1, RelsType
<1>5. \A e \in Entities : Live(e) => Master(e) \in Data /\ Rels(e) = Master(e).rels
  BY <1>1, MasterType DEF Rels, Live
<1>6. \A e \in Entities \ {m} : Live(e) => (e \in others <=> m \in Rels(e))
  BY <1>1, <1>2, <1>3 DEF RelationshipsSymmetric
<1>7. \A e \in Entities : ~Live(e) => Rels(e) = {} /\ e \notin others
  BY <1>3 DEF Rels
<1>8. m \notin others /\ others \subseteq Entities
  BY <1>2, <1>3, <1>4
<1>9. PICK wiped \in SUBSET {e \in others : t.main \notin Rels(e)} :
        trx'[r].base = base /\ trx'[r].write = write(wiped)
  <2>1. PICK order \in Orders(others),
             wiped \in SUBSET {e \in others : t.main \notin Rels(e)} :
          trx' = [trx EXCEPT ![r] = [NoTrx EXCEPT
            !.id = nextId, !.base = base, !.write = write(wiped),
            !.queue = <<t.main>> \o order]]
    BY DEF BeginDelete
  <2> DEFINE w == write(wiped)
  <2> HIDE DEF others, base, w
  <2>2. trx'[r].base = base /\ trx'[r].write = w
    BY <1>1, <2>1 DEF TypeOK, NoTrx, w
  <2> QED BY <2>1, <2>2 DEF w
<1>10. wiped = {}
  BY <1>6, <1>7, <1>8, <1>9
<1> DEFINE w == trx'[r].write
<1>11. ASSUME NEW e \in others
       PROVE  w[e] \in Data /\ w[e].name = Master(e).name /\ w[e].rels = Rels(e) \ {m}
  <2>1. e \in Entities /\ e # m /\ Live(e) /\ Master(e) \in Data
    BY <1>5, <1>7, <1>8
  <2>2. w[e] = [Master(e) EXCEPT !.rels = Rels(e) \ {m}]
    BY <1>9, <1>10, <2>1
  <2> QED BY <1>4, <2>1, <2>2 DEF Data
<1>12. w[m] = Null /\ \A e \in Entities \ {m} : e \notin others => w[e] = Absent
  BY <1>2, <1>9
<1>13. \A e \in others : w[e] # Absent /\ w[e] # Null
  BY <1>11, SentinelAssumption
<1>14. Null # Absent
  BY SentinelAssumption
<1>15. \A e \in others : trx'[r].base[e] = header[e]
  BY <1>8, <1>9
<1> HIDE DEF w, others
<1>16. /\ phase'[r] = "saving" /\ task'[r] = t /\ trx'[r].write = w
       /\ \A q \in Requests \ {r} : phase'[q] = phase[q]
  BY <1>1 DEF TypeOK, w
<1>17. \A f : Exists(f)' = Exists(f) /\ Live(f)' = Live(f) /\ Master(f)' = Master(f) /\ Rels(f)' = Rels(f)
  BY <1>1 DEF tables, Exists, Live, Master, Rels
<1>18. header' = header
  BY <1>1 DEF tables
<1>19. Continues(r)'
  BY <1>1, <1>2, <1>7, <1>8, <1>11, <1>12, <1>13, <1>14, <1>15, <1>16, <1>17, <1>18
     DEF Continues, IsNew
<1>20. ASSUME NEW e \in Entities
       PROVE  /\ LiveAfter(r, e)' <=> Live(e) /\ e # m
              /\ RelsAfter(r, e)' = IF e = m THEN {} ELSE Rels(e) \ {m}
  <2>1. CASE e = m
    BY <1>12, <1>14, <1>16, <2>1 DEF LiveAfter, RelsAfter, OwnRels
  <2>2. CASE e \in others
    BY <1>7, <1>8, <1>11, <1>13, <1>16, <2>2 DEF LiveAfter, RelsAfter, OwnRels
  <2>3. CASE e # m /\ e \notin others
    <3>1. m \notin Rels(e)
      BY <1>6, <1>7, <2>3
    <3> QED BY <1>12, <1>16, <1>17, <2>3, <3>1 DEF LiveAfter, RelsAfter
  <2> QED BY <2>1, <2>2, <2>3
<1>21. Relates(r)'
  <2>1. \A e, f \in Entities : LiveAfter(r, e)' /\ LiveAfter(r, f)' =>
          (f \in RelsAfter(r, e)' <=> e \in RelsAfter(r, f)')
    BY <1>1, <1>20 DEF RelationshipsSymmetric
  <2>2. \A e \in Entities : \A f \in RelsAfter(r, e)' : Exists(f)
    BY <1>1, <1>20 DEF RelatedExist
  <2>3. \A e \in Entities : m \notin RelsAfter(r, e)'
    BY <1>20
  <2> QED BY <1>16, <1>17, <2>1, <2>2, <2>3 DEF Relates
<1>22. SerialOK(r)'
  BY <1>16, <1>19, <1>21 DEF SerialOK
<1> QED BY <1>1, <1>16, <1>22, GoingOn, SerialMoves

\* What the commit of the only request makes of the tables.
LEMMA CommitReads ==
  ASSUME SerialInv, NEW r \in Requests, Commit(r)
  PROVE  /\ \A e \in Entities :
              /\ trx[r].write[e] # Absent => Exists(e)' /\ Master(e)' = trx[r].write[e]
              /\ trx[r].write[e] = Absent =>
                   header'[e] = header[e] /\ Exists(e)' = Exists(e)
              /\ trx[r].write[e] = Absent /\ Exists(e) => Master(e)' = Master(e)
              /\ Live(e)' = LiveAfter(r, e)
              /\ Rels(e)' = RelsAfter(r, e)
         /\ Continues(r) /\ Relates(r) /\ task[r] \in TaskType
<1> DEFINE x == trx[r]
           n == trx[r].id
<1>1. /\ IInv /\ SerialOK(r) /\ phase[r] = "counted"
  BY DEF SerialInv, Commit
<1>2. /\ n \in Ids /\ n # 0 /\ task[r] \in TaskType /\ author[n] = Absent
      /\ \A e \in Entities, i \in Ids :
           entityRevision'[e][i] = IF i = n THEN x.write[e] ELSE entityRevision[e][i]
      /\ \A e \in Entities : header'[e] = IF x.write[e] # Absent THEN n ELSE header[e]
      /\ x \in TrxType
  BY <1>1, CommitEffect
<1>3. Continues(r) /\ Relates(r)
  BY <1>1 DEF SerialOK
<1> HIDE DEF n
<1>4. ASSUME NEW e \in Entities, x.write[e] # Absent
      PROVE  Exists(e)' /\ Master(e)' = x.write[e]
  BY <1>2, <1>4 DEF Exists, Master
<1>5. ASSUME NEW e \in Entities, x.write[e] = Absent
      PROVE  header'[e] = header[e] /\ Exists(e)' = Exists(e)
  BY <1>2, <1>5 DEF Exists
<1>6. ASSUME NEW e \in Entities, x.write[e] = Absent, Exists(e)
      PROVE  Master(e)' = Master(e)
  <2>1. header[e] \in Ids /\ header[e] # n /\ header'[e] = header[e]
    BY <1>1, <1>2, <1>6, MasterType DEF Committed
  <2> QED BY <1>2, <2>1 DEF Master
<1>7. ASSUME NEW e \in Entities
      PROVE  Live(e)' = LiveAfter(r, e) /\ Rels(e)' = RelsAfter(r, e)
  <2>1. CASE x.write[e] # Absent
    BY <1>4, <2>1 DEF Live, LiveAfter, Rels, RelsAfter, OwnRels
  <2>2. CASE x.write[e] = Absent
    <3>1. Live(e)' = Live(e)
      BY <1>5, <1>6, <2>2 DEF Live
    <3>2. Live(e) => Master(e)' = Master(e)
      BY <1>6, <2>2 DEF Live
    <3> QED BY <2>2, <3>1, <3>2 DEF LiveAfter, Rels, RelsAfter
  <2> QED BY <2>1, <2>2
<1> QED BY <1>2, <1>3, <1>4, <1>5, <1>6, <1>7

\* The commit of the only request leaves what the transaction was to leave.
LEMMA CommitKeepsSerial ==
  ASSUME SerialInv, IInv', NEW r \in Requests, Commit(r)
  PROVE  SerialInv'
<1> DEFINE t == task[r]
           x == trx[r]
           m == task[r].main
<1>1. /\ IInv /\ TypeOK /\ SerialOK(r) /\ Active(r) /\ UNCHANGED <<task, trx>>
      /\ phase[r] = "counted" /\ phase' = [phase EXCEPT ![r] = "committed"]
  BY DEF SerialInv, IInv, Commit, Active
<1>2. /\ t \in TaskType /\ m \in Entities /\ Continues(r) /\ Relates(r)
      /\ \A e \in Entities :
           /\ x.write[e] # Absent => Exists(e)' /\ Master(e)' = x.write[e]
           /\ x.write[e] = Absent => Exists(e)' = Exists(e)
           /\ Live(e)' = LiveAfter(r, e)
           /\ Rels(e)' = RelsAfter(r, e)
  BY CommitReads DEF TaskType
<1>3. /\ phase'[r] = "committed" /\ \A q \in Requests \ {r} : phase'[q] = phase[q]
  BY <1>1 DEF TypeOK
<1>4. \A q \in Requests \ {r} : phase[q] \in {"idle", "ended"}
  BY <1>1, GoingOn
<1>5. Alone'
  BY <1>3, <1>4 DEF Alone, InFlight
<1>6. EditsCounted'
  <2> SUFFICES ASSUME NEW ed \in Editors
               PROVE  revisionsApplied'[ed] = Cardinality(By(ed)')
    BY DEF EditsCounted, By, Ids
  <2>1. /\ Cardinality(By(ed)) \in Nat
        /\ Cardinality(By(ed)') = IF ed = t.editor
                                  THEN Cardinality(By(ed)) + 1
                                  ELSE Cardinality(By(ed))
    BY <1>1, CommitCounts
  <2>2. revisionsApplied[ed] = Cardinality(By(ed))
    BY DEF SerialInv, EditsCounted, By
  <2>3. x.count = revisionsApplied[t.editor]
    BY <1>1 DEF SerialOK
  <2>4. revisionsApplied'[ed] = IF ed = t.editor THEN x.count + 1 ELSE revisionsApplied[ed]
    BY <1>1 DEF TypeOK, Commit, CountAfter
  <2> HIDE DEF t, x
  <2> QED BY <2>1, <2>2, <2>3, <2>4
<1>7. RelationshipsSymmetric'
  BY <1>2 DEF Relates, RelationshipsSymmetric
<1>8. RelatedExist'
  <2> SUFFICES ASSUME NEW e \in Entities, NEW f \in Rels(e)' PROVE Exists(f)'
    BY DEF RelatedExist
  <2>1. f \in RelsAfter(r, e) /\ (Exists(f) \/ IsNew(t, f))
    BY <1>2 DEF Relates
  <2>2. f \in Entities
    <3>1. x.write[e] \in Data \cup {Null, Absent}
      BY <1>1 DEF TypeOK, TrxType
    <3> QED BY <1>1, <2>1, <3>1, RelsType DEF RelsAfter, OwnRels, Data
  <2>3. IsNew(t, f) => x.write[f] # Absent
    BY <1>2, <2>2 DEF IsNew, Continues
  <2> QED BY <1>2, <2>1, <2>2, <2>3
<1>9. Written(r)'
  <2>1. CASE t.kind = "delete"
    BY <1>1, <1>2, <2>1, SentinelAssumption DEF Written, Continues, LiveAfter
  <2>2. CASE t.kind # "delete"
    BY <1>1, <1>2, <2>2 DEF Written, Continues, LiveAfter
  <2> QED BY <2>1, <2>2
<1>10. \A q \in Requests : SerialOK(q)'
  BY <1>3, <1>4, <1>9 DEF SerialOK
<1> QED BY <1>5, <1>6, <1>7, <1>8, <1>10 DEF SerialInv

----------------------------------------------------------------------------
(* Requests one at a time: the theorems.                                   *)

\* What a request has loaded, read and computed is so until it commits, if it meets no other.
LEMMA Serially ==
  ASSUME MaxInFlight = 1, IsFiniteSet(Requests)
  PROVE  Spec => []SerialInv
<1>1. Init => SerialInv
  <2> SUFFICES ASSUME Init PROVE SerialInv
    OBVIOUS
  <2>1. IInv
    BY InitIInv
  <2>2. /\ \A r \in Requests : phase[r] = "idle"
        /\ \A e \in Entities : Rels(e) = {}
    <3>1. \A e \in Entities : Live(e) => Master(e).rels = {}
      BY <2>1 DEF Init, SeedData, Live, Exists, Master, IInv, StoreOK, MasterIsOwnRevision, Committed, Ids
    <3> QED BY <3>1 DEF Init, Rels
  <2>3. Alone /\ (\A r \in Requests : SerialOK(r)) /\ RelationshipsSymmetric /\ RelatedExist
    BY <2>2 DEF Alone, InFlight, SerialOK, RelationshipsSymmetric, RelatedExist
  <2>4. EditsCounted
    <3> SUFFICES ASSUME NEW ed \in Editors
                 PROVE  revisionsApplied[ed] = Cardinality({i \in Ids : author[i] = ed})
      BY DEF EditsCounted
    <3>1. DOMAIN Seed = 1..Len(Seed) /\ DOMAIN Seed \subseteq Ids /\ Len(Seed) \in Nat
      BY SeedAssumption, BoundAssumption DEF Ids
    <3>2. CASE ed = SeedEditor
      <4>1. {i \in Ids : author[i] = ed} = 1..Len(Seed)
        BY <3>1, <3>2, SeedAssumption, SentinelAssumption DEF Init
      <4>2. Cardinality(1..Len(Seed)) = Len(Seed)
        BY <3>1, FS_Interval
      <4> QED BY <3>2, <4>1, <4>2 DEF Init
    <3>3. CASE ed # SeedEditor
      <4>1. {i \in Ids : author[i] = ed} = {}
        BY <3>3, SentinelAssumption DEF Init
      <4> QED BY <3>3, <4>1, FS_EmptySet DEF Init
    <3> QED BY <3>2, <3>3
  <2> QED BY <2>1, <2>3, <2>4 DEF SerialInv
<1>2. SerialInv /\ IInv' /\ [Next]_vars => SerialInv'
  <2> SUFFICES ASSUME SerialInv, IInv', [Next]_vars PROVE SerialInv'
    OBVIOUS
  <2>1. ASSUME NEW r \in Requests, Submit(r) PROVE SerialInv'
    BY <2>1, SubmitKeepsSerial
  <2>2. ASSUME NEW r \in Requests, Step(r) PROVE SerialInv'
    BY <2>2, BeginKeepsSerial, FetchKeepsSerial, DeleteKeepsSerial, SaveKeepsSerial,
       ReadCountKeepsSerial, CommitKeepsSerial, AnswerKeepsSerial, EndingKeepsSerial DEF Step
  <2>3. CASE Crash
    BY <2>3, CrashKeepsSerial
  <2>4. CASE UNCHANGED vars
    BY <2>4, StutterKeepsSerial
  <2> QED
    BY <2>1, <2>2, <2>3, <2>4 DEF Next
<1> QED BY <1>1, <1>2, Inductive, PTL DEF Spec

\* An editor is credited with each revision they made: the count that is read and written
\* back by incrementEditorEditCountById is still so, when no other request comes between.
THEOREM EveryEditIsCounted ==
  ASSUME MaxInFlight = 1, IsFiniteSet(Requests)
  PROVE  Spec => []EditsCounted
<1>1. SerialInv => EditsCounted
  BY DEF SerialInv
<1> QED BY <1>1, Serially, PTL

\* Two entities that are not deleted agree on whether they are related, although each has
\* a set of its own (getNextRelationshipSets, deleteRelationships).
THEOREM BothSidesAgree ==
  ASSUME MaxInFlight = 1, IsFiniteSet(Requests)
  PROVE  Spec => []RelationshipsSymmetric
<1>1. SerialInv => RelationshipsSymmetric
  BY DEF SerialInv
<1> QED BY <1>1, Serially, PTL

\* Only a commit changes a header.
LEMMA OnlyCommits ==
  ASSUME [Next]_vars, \A r \in Requests : ~Commit(r)
  PROVE  UNCHANGED tables
<1>1. ASSUME NEW r \in Requests, Submit(r) PROVE UNCHANGED tables
  BY <1>1 DEF Submit, SubmitCreate, SubmitEdit, SubmitDelete, RefuseDelete
<1>2. ASSUME NEW r \in Requests, Step(r) PROVE UNCHANGED tables
  BY <1>2 DEF Step, Begin, Fetch, BeginDelete, RefuseBlankNote, Save,
              ReadCount, Finish, AnswerDelete, Unindex, DeadlockVictim
<1>3. CASE Crash \/ UNCHANGED vars
  BY <1>3 DEF Crash, vars, tables
<1> QED BY <1>1, <1>2, <1>3 DEF Next

\* No edit is lost: what becomes the master of an entity continues the one it replaces.
THEOREM NoEditIsLost ==
  ASSUME MaxInFlight = 1, IsFiniteSet(Requests)
  PROVE  Spec => HistoryLinear
<1>1. SerialInv /\ [Next]_vars =>
        [\A e \in Entities :
           /\ Exists(e)
           /\ header'[e] # header[e]
           /\ Master(e)' # Null
           => header[e] \in parents'[header'[e]]]_vars
  <2> SUFFICES ASSUME SerialInv, [Next]_vars, NEW e \in Entities,
                      Exists(e), header'[e] # header[e], Master(e)' # Null
               PROVE  header[e] \in parents'[header'[e]]
    OBVIOUS
  <2>1. PICK r \in Requests : Commit(r)
    BY OnlyCommits DEF tables
  <2>2. trx[r].write[e] # Absent /\ trx[r].write[e] # Null /\ Continues(r) /\ IInv /\ phase[r] = "counted"
    BY <2>1, CommitReads DEF SerialInv, Commit
  <2>3. ~IsNew(task[r], e)
    BY <2>2 DEF IInv, RequestOK, Creating, Open, IsNew, Exists
  <2>4. trx[r].base[e] = header[e] /\ header[e] # 0
    BY <2>2, <2>3 DEF Continues, Exists
  <2>5. /\ header'[e] = trx[r].id /\ trx[r].id \in Ids
        /\ header[e] \in ParentRevisionIds(trx[r])
        /\ \A i \in Ids : parents'[i] = IF i = trx[r].id THEN ParentRevisionIds(trx[r]) ELSE parents[i]
    BY <2>1, <2>2, <2>4, CommitEffect
  <2> QED BY <2>5
<1> QED BY <1>1, Serially, PTL DEF Spec, HistoryLinear

\* A deletion takes the entity out of every relationship, and nothing is written to it
\* afterwards: handleDelete and the filter on dataId, when requests do not overlap.
THEOREM DeletedAltogether ==
  ASSUME MaxInFlight = 1, IsFiniteSet(Requests)
  PROVE  Spec => DeletionsHold
<1>1. SerialInv /\ [Next]_vars =>
        [\A e \in Entities :
           Live(e) /\ ~Live(e)' => \A f \in Entities : e \notin Rels(f)']_vars
  <2> SUFFICES ASSUME SerialInv, [Next]_vars, NEW e \in Entities, Live(e), ~Live(e)',
                      NEW f \in Entities
               PROVE  e \notin Rels(f)'
    OBVIOUS
  <2>1. PICK r \in Requests : Commit(r)
    BY OnlyCommits, TablesRead
  <2>2. /\ ~LiveAfter(r, e) /\ Rels(f)' = RelsAfter(r, f)
        /\ Continues(r) /\ Relates(r) /\ task[r] \in TaskType
    BY <2>1, CommitReads
  <2>3. e = task[r].main /\ task[r].kind = "delete"
    BY <2>2, SentinelAssumption DEF LiveAfter, Continues
  <2> QED BY <2>2, <2>3 DEF Relates
<1>2. SerialInv /\ [Next]_vars =>
        [\A e \in Entities : Exists(e) /\ ~Live(e) => header'[e] = header[e]]_vars
  <2> SUFFICES ASSUME SerialInv, [Next]_vars, NEW e \in Entities, Exists(e), ~Live(e)
               PROVE  header'[e] = header[e]
    OBVIOUS
  <2>1. CASE \A r \in Requests : ~Commit(r)
    BY <2>1, OnlyCommits DEF tables
  <2>2. ASSUME NEW r \in Requests, Commit(r) PROVE header'[e] = header[e]
    <3>1. Continues(r) /\ IInv /\ phase[r] = "counted"
      BY <2>2, CommitReads DEF SerialInv, Commit
    <3>2. ~IsNew(task[r], e)
      BY <3>1 DEF IInv, RequestOK, Creating, Open, IsNew, Exists
    <3>3. trx[r].write[e] = Absent
      BY <3>1, <3>2 DEF Continues
    <3> QED BY <2>2, <3>3, CommitReads
  <2> QED BY <2>1, <2>2
<1> QED BY <1>1, <1>2, Serially, PTL DEF Spec, DeletionsHold, DeletionDetaches, DeletedIsFinal

\* Between the commit and the answer the index lacks the name that was saved, no other.
LEMMA NextKeepsIndexed ==
  ASSUME Outages = FALSE, SerialInv, SerialInv', Indexed, [Next]_vars
  PROVE  Indexed'
<1>1. IInv /\ TypeOK /\ \A r \in Requests : RequestOK(r) /\ SerialOK(r)
  BY DEF SerialInv, IInv
<1>2. ASSUME UNCHANGED <<tables, searchIndex>>, \A e \in Entities : Coming(e) => Coming(e)'
      PROVE  Indexed'
  BY <1>2, TablesRead DEF Indexed
<1>3. ASSUME UNCHANGED <<tables, searchIndex>>, NEW r \in Requests, phase[r] # "committed",
             \A q \in Requests \ {r} : phase'[q] = phase[q] /\ task'[q] = task[q]
      PROVE  Indexed'
  BY <1>2, <1>3 DEF Coming
<1>4. ASSUME UNCHANGED <<tables, searchIndex>>, NEW r \in Requests, phase[r] # "committed", Active(r)
      PROVE  Indexed'
  <2>1. \A q \in Requests : phase[q] # "committed"
    BY <1>4, GoingOn
  <2> QED BY <1>2, <1>4, <2>1 DEF Coming
<1>5. ASSUME NEW r \in Requests, Submit(r) PROVE Indexed'
  <2>1. CASE RefuseDelete(r)
    <3>1. /\ UNCHANGED <<tables, searchIndex>> /\ phase[r] = "idle"
          /\ \A q \in Requests \ {r} : phase'[q] = phase[q] /\ task'[q] = task[q]
      BY <1>1, <2>1 DEF RefuseDelete, Ended, TypeOK
    <3> QED BY <1>3, <3>1
  <2>2. CASE SubmitCreate(r) \/ SubmitEdit(r) \/ SubmitDelete(r)
    <3>1. UNCHANGED <<tables, searchIndex>> /\ \E u, old : Accept(r, u, old)
      BY <2>2 DEF SubmitCreate, SubmitEdit, SubmitDelete
    <3>2. /\ phase[r] = "idle"
          /\ \A q \in Requests \ {r} : phase'[q] = phase[q] /\ task'[q] = task[q]
      BY <1>1, <3>1 DEF Accept, TypeOK
    <3> QED BY <1>3, <3>1, <3>2
  <2> QED BY <1>5, <2>1, <2>2 DEF Submit
<1>6. ASSUME NEW r \in Requests,
             Begin(r) \/ Fetch(r) \/ BeginDelete(r) \/ RefuseBlankNote(r) \/ Save(r) \/ ReadCount(r)
               \/ DeadlockVictim(r)
      PROVE  Indexed'
  <2>1. UNCHANGED <<tables, searchIndex>> /\ phase[r] # "committed" /\ Active(r)
    BY <1>6 DEF Begin, Fetch, BeginDelete, RefuseBlankNote, Save, ReadCount, DeadlockVictim, Active,
                InCycle, WaitsFor
  <2> QED BY <1>4, <2>1
<1>7. ASSUME NEW r \in Requests, AnswerDelete(r) PROVE Indexed'
  <2>1. /\ UNCHANGED <<tables, searchIndex>> /\ Active(r) /\ task[r].kind = "delete"
    BY <1>7 DEF AnswerDelete, Active
  <2>2. \A e \in Entities : ~Coming(e)
    BY <2>1, GoingOn DEF Coming
  <2> QED BY <1>2, <2>1, <2>2
<1>8. ASSUME NEW r \in Requests, Commit(r) PROVE Indexed'
  <2> SUFFICES ASSUME NEW e \in Entities, Live(e)'
               PROVE  searchIndex'[e] = Master(e)'.name \/ Coming(e)'
    BY DEF Indexed
  <2>1. /\ phase[r] = "counted" /\ phase'[r] = "committed" /\ task' = task /\ searchIndex' = searchIndex
        /\ Active(r)
    BY <1>1, <1>8 DEF Commit, TypeOK, Active
  <2>2. /\ LiveAfter(r, e) /\ Continues(r)
        /\ trx[r].write[e] # Absent => Master(e)' = trx[r].write[e]
        /\ trx[r].write[e] = Absent /\ Exists(e) => Master(e)' = Master(e)
    BY <1>8, CommitReads
  <2>3. ~Coming(e)
    BY <2>1, GoingOn DEF Coming
  <2>4. CASE e = task[r].main
    <3>1. task[r].kind # "delete"
      BY <2>2, <2>4, SentinelAssumption DEF LiveAfter, Continues
    <3> QED BY <2>1, <2>4, <3>1 DEF Coming
  <2>5. CASE e # task[r].main
    <3>1. Live(e) /\ Master(e)'.name = Master(e).name
      BY <2>2, <2>5 DEF LiveAfter, Continues, IsNew, Live
    <3> QED BY <2>1, <2>3, <3>1 DEF Indexed
  <2> QED BY <2>4, <2>5
<1>9. ASSUME NEW r \in Requests, Finish(r) PROVE Indexed'
  <2> SUFFICES ASSUME NEW e \in Entities, Live(e)' PROVE searchIndex'[e] = Master(e)'.name
    BY DEF Indexed
  <2>1. /\ UNCHANGED tables /\ phase[r] = "committed" /\ Active(r) /\ task[r].kind # "delete"
        /\ task[r] \in TaskType /\ Written(r)
        /\ searchIndex' = [searchIndex EXCEPT ![task[r].main] =
             IF trx[r].write[task[r].main] = Absent THEN Null ELSE trx[r].write[task[r].main].name]
    BY <1>1, <1>9 DEF Finish, Active, RequestOK, SerialOK
  <2>2. Live(e) /\ Master(e)' = Master(e)
    BY <2>1, TablesRead
  <2>3. CASE e = task[r].main
    <3>1. trx[r].write[e] = Master(e) /\ Master(e) # Absent
      BY <1>1, <2>1, <2>2, <2>3, MasterType, SentinelAssumption DEF Written, Live
    <3> QED BY <1>1, <2>1, <2>2, <2>3, <3>1 DEF TypeOK
  <2>4. CASE e # task[r].main
    <3>1. ~Coming(e)
      BY <2>1, <2>4, GoingOn DEF Coming
    <3> QED BY <1>1, <2>1, <2>2, <2>4, <3>1 DEF TypeOK, Indexed
  <2> QED BY <2>3, <2>4
<1>10. ASSUME NEW r \in Requests, Unindex(r) PROVE Indexed'
  <2> SUFFICES ASSUME NEW e \in Entities, Live(e)' PROVE searchIndex'[e] = Master(e)'.name
    BY DEF Indexed
  <2>1. /\ UNCHANGED tables /\ phase[r] = "answered" /\ Active(r)
        /\ task[r] \in TaskType /\ Written(r)
        /\ searchIndex' = [searchIndex EXCEPT ![task[r].main] = Absent]
    BY <1>1, <1>10 DEF Unindex, Active, RequestOK, SerialOK
  <2>2. Live(e) /\ Master(e)' = Master(e)
    BY <2>1, TablesRead
  <2>3. task[r].kind = "delete"
    BY <1>1, <2>1 DEF SerialOK
  <2>4. ~Coming(e) /\ e # task[r].main
    BY <2>1, <2>2, <2>3, GoingOn DEF Coming, Written
  <2> QED BY <1>1, <2>1, <2>2, <2>4 DEF TypeOK, Indexed
<1>11. CASE UNCHANGED vars
  BY <1>2, <1>11 DEF vars, tables, Coming
<1>12. CASE Crash
  BY <1>12 DEF Crash
<1> QED
  BY <1>5, <1>6, <1>7, <1>8, <1>9, <1>10, <1>11, <1>12 DEF Next, Step

\* When nothing is under way, the index has the name of each entity that is not deleted.
THEOREM IndexIsFresh ==
  ASSUME MaxInFlight = 1, IsFiniteSet(Requests), Outages = FALSE
  PROVE  Spec => []IndexFresh
<1>1. Init => Indexed
  <2> SUFFICES ASSUME Init, NEW e \in Entities, Live(e)
               PROVE  searchIndex[e] = Master(e).name
    BY DEF Indexed
  <2>1. header[e] \in DOMAIN Seed /\ Seed[header[e]] = e
    BY DEF Init, Live, Exists
  <2>2. DOMAIN Seed \subseteq Ids
    BY SeedAssumption, BoundAssumption DEF Ids
  <2> QED BY <2>1, <2>2 DEF Init, Master, SeedData
<1>2. SerialInv /\ Indexed => IndexFresh
  BY DEF Indexed, Coming, IndexFresh, InFlight
<1>3. SerialInv /\ SerialInv' /\ Indexed /\ [Next]_vars => Indexed'
  BY NextKeepsIndexed
<1> QED BY <1>1, <1>2, <1>3, Serially, PTL DEF Spec

----------------------------------------------------------------------------
(* The form that makes entities many at a time, for any number of modals,  *)
(* submissions, works and faults.                                          *)

----------------------------------------------------------------------------
(* Types.                                                                  *)

\* The edition, on the page or put aside.
Draft == IF modal = None THEN form ELSE dumped

\* The credit of an edition has an author, though that of another entity need not.
Credited ==
  /\ Draft.author \in UF!Entities
  /\ \A b \in DOMAIN batches : batches[b].author \in UF!Entities
  /\ \A s \in saves : s[3] \in UF!Entities

TypeInv == UF!TypeOK /\ Credited

\* Which entities there are.
LEMMA EntitiesAre ==
  UF!Existing \in UF!Entities /\ UF!EditionName \in UF!Entities /\ UF!Existing \in UF!Optional
                /\ None \in UF!Optional /\ UF!Modals \subseteq UF!Entities /\ UF!Entities \subseteq Nat
                /\ UF!Entities \subseteq UF!Optional /\ UF!Existing \notin UF!Modals
BY FormBoundsAssumption
   DEF UF!Existing, UF!EditionName, UF!Entities, UF!Optional, UF!Modals

\* The bounds, one by one.
LEMMA Bounds ==
  MaxModals \in Nat /\ MaxChoices \in Nat /\ MaxSubmits \in Nat /\ MaxFaults \in Nat /\ MaxEdits \in Nat
BY FormBoundsAssumption

\* The types hold at the start.
LEMMA InitTypes ==
  UF!Init => TypeInv
<1> SUFFICES ASSUME UF!Init PROVE TypeInv
  OBVIOUS
<1>1. UF!FirstForm \in UF!Form /\ UF!FirstForm.author \in UF!Entities
  BY EntitiesAre DEF UF!FirstForm, UF!Form
<1>2. UF!FirstWanted \in [author : UF!Optional, group : UF!Optional, publishers : SUBSET UF!Entities]
  BY EntitiesAre DEF UF!FirstWanted
<1>3. works \in Seq(UF!Row) /\ batches \in Seq(UF!Batch) /\ Len(batches) = 0 /\ DOMAIN batches = {}
  BY DEF UF!Init
<1>4. UF!TypeOK
  <2>1. form \in UF!Form /\ dumped = None /\ group0 = None /\ modal = None /\ None \in UF!Optional
    BY <1>1, EntitiesAre DEF UF!Init
  <2>2. calls = {} /\ saves = {} /\ editions = {} /\ left = FALSE /\ mixed = {}
    BY DEF UF!Init
  <2>3. {title, edits} \subseteq 0 .. MaxEdits /\ opened \in 0 .. MaxModals /\ cleared \in Nat
    BY Bounds DEF UF!Init
  <2>4. {faults, lost, faults + lost} \subseteq 0 .. MaxFaults /\ chosen \in 0 .. MaxChoices
    BY Bounds DEF UF!Init
  <2>5. Len(batches) <= MaxSubmits
    BY <1>3, Bounds
  <2>6. givenUp = FALSE /\ strayed = FALSE /\ wanted = UF!FirstWanted
    BY DEF UF!Init
  <2> QED BY <1>2, <1>3, <2>1, <2>2, <2>3, <2>4, <2>5, <2>6 DEF UF!TypeOK
<1>5. Credited
  BY <1>1, <1>3 DEF UF!Init, Credited, Draft
<1> QED BY <1>4, <1>5 DEF TypeInv

\* What is known of a work.
LEMMA FoundType ==
  ASSUME TypeInv, NEW k \in BOOLEAN
  PROVE  UF!Found(k) \in UF!Row
<1>1. UF!AuthorsOf(UF!Existing) \in SUBSET UF!Entities
  BY EntitiesAre DEF TypeInv, Credited, UF!AuthorsOf
<1> QED BY <1>1, EntitiesAre DEF UF!Found, UF!Row

\* The batches are records of their type.
LEMMA BatchTypes ==
  ASSUME TypeInv, NEW b \in DOMAIN batches
  PROVE  b \in 1 .. Len(batches) /\ b \in 0 .. MaxSubmits /\ batches[b] \in UF!Batch
<1>1. batches \in Seq(UF!Batch) /\ Len(batches) <= MaxSubmits
  BY DEF TypeInv, UF!TypeOK
<1>2. Len(batches) \in Nat /\ DOMAIN batches = 1 .. Len(batches)
  BY <1>1
<1>3. b \in 1 .. Len(batches)
  BY <1>2
<1>4. batches[b] \in UF!Batch
  BY <1>1, <1>3, ElementOfSeq
<1> QED BY <1>1, <1>2, <1>3, <1>4, FormBoundsAssumption

\* Changing things in the edition that is shown.
LEMMA ChooseKeepsTypes ==
  ASSUME TypeInv, UF!PickAuthor \/ UF!PickGroup \/ UF!ReplaceGroup
  PROVE  TypeInv'
<1>1. PICK a \in {form.author, UF!Existing}, g \in {form.group, UF!Existing, None} :
         /\ form' = [form EXCEPT !.author = a, !.group = g]
         /\ wanted' \in {[wanted EXCEPT !.author = a], [wanted EXCEPT !.group = g]}
         /\ group0' \in {group0, None}
         /\ givenUp' \in BOOLEAN
         /\ a = UF!Existing \/ wanted' = [wanted EXCEPT !.group = g]
         /\ g \in {UF!Existing, None} \/ wanted' = [wanted EXCEPT !.author = a]
  <2>1. CASE UF!PickAuthor
    <3>1. form' = [form EXCEPT !.author = UF!Existing, !.group = form.group]
      BY <2>1 DEF UF!PickAuthor, TypeInv, UF!TypeOK, UF!Form
    <3> QED BY <2>1, <3>1 DEF UF!PickAuthor, TypeInv, UF!TypeOK
  <2>2. ASSUME NEW g \in {UF!Existing, None}, UF!ChooseGroup(g), group0' \in {group0, None}, givenUp' \in BOOLEAN
        PROVE  /\ form' = [form EXCEPT !.author = form.author, !.group = g]
               /\ wanted' = [wanted EXCEPT !.group = g]
    BY <2>2 DEF UF!ChooseGroup, TypeInv, UF!TypeOK, UF!Form
  <2>3. CASE UF!PickGroup
    BY <2>2, <2>3 DEF UF!PickGroup
  <2>4. CASE UF!ReplaceGroup
    <3>1. givenUp' \in BOOLEAN /\ group0' = group0
      BY <2>4 DEF UF!ReplaceGroup, TypeInv, UF!TypeOK
    <3> QED BY <2>2, <2>4, <3>1 DEF UF!ReplaceGroup
  <2> QED BY <2>1, <2>3, <2>4
<1>2. /\ UF!Idle /\ chosen' = chosen + 1 /\ chosen' <= MaxChoices
      /\ UNCHANGED <<dumped, works, modal, calls, left, batches, UF!server, mixed, strayed, cleared,
                     opened, faults, lost, edits>>
  BY FormBoundsAssumption
     DEF UF!PickAuthor, UF!PickGroup, UF!ReplaceGroup, UF!ChooseGroup,
     UF!Choose, TypeInv, UF!TypeOK
<1>3. form' \in UF!Form /\ form'.author \in {form.author, UF!Existing}
  BY <1>1, EntitiesAre DEF TypeInv, UF!TypeOK, UF!Form
<1>4. wanted' \in [author : UF!Optional, group : UF!Optional, publishers : SUBSET UF!Entities]
  BY <1>1, EntitiesAre DEF TypeInv, UF!TypeOK, UF!Form
<1>5. chosen' \in 0 .. MaxChoices
  BY <1>2, FormBoundsAssumption DEF TypeInv, UF!TypeOK
<1>6. UF!TypeOK'
  BY <1>1, <1>2, <1>3, <1>4, <1>5, EntitiesAre DEF TypeInv, UF!TypeOK, UF!server
<1>7. Credited'
  BY <1>2, <1>3, EntitiesAre DEF TypeInv, Credited, Draft, UF!Idle, UF!server
<1> QED BY <1>6, <1>7 DEF TypeInv

\* The rows of works that a change leaves were there or tell of the existing work.
LEMMA ChangedWorks ==
  ASSUME TypeInv,
         UF!PickWork \/ \E i \in DOMAIN works : UF!ChangeWork(i) \/ UF!RemoveWork(i) \/ UF!ToggleWork(i)
  PROVE  /\ works' \in Seq(UF!Row)
         /\ \A j \in DOMAIN works' :
              \/ works'[j].work = UF!Existing /\ works'[j].authors = UF!AuthorsOf(UF!Existing)
              \/ \E i \in DOMAIN works : works'[j].work = works[i].work /\ works'[j].authors = works[i].authors
         /\ chosen' = chosen + 1 /\ chosen' \in 0 .. MaxChoices /\ UF!Idle
         /\ UNCHANGED <<opened, faults, lost, edits>>
         /\ UNCHANGED <<form, dumped, group0, modal, calls, left, batches, UF!server, UF!history>>
<1>0. works \in Seq(UF!Row) /\ Len(works) \in Nat /\ DOMAIN works = 1 .. Len(works)
  BY DEF TypeInv, UF!TypeOK
<1>r. \A i \in 1 .. Len(works) : works[i] \in UF!Row
  BY <1>0, ElementOfSeq
<1>c. ASSUME NEW rows, UF!ChangeWorks(rows)
      PROVE  /\ works' = rows
             /\ chosen' = chosen + 1 /\ chosen' \in 0 .. MaxChoices /\ UF!Idle
             /\ UNCHANGED <<opened, faults, lost, edits>>
             /\ UNCHANGED <<form, dumped, group0, modal, calls, left, batches, UF!server, UF!history>>
  BY <1>c, FormBoundsAssumption DEF UF!ChangeWorks, UF!Choose, TypeInv, UF!TypeOK
<1>1. CASE UF!PickWork
  <2> DEFINE r == UF!Found(TRUE)
  <2>1. r \in UF!Row /\ r.work = UF!Existing /\ r.authors = UF!AuthorsOf(UF!Existing)
    BY FoundType DEF UF!Found
  <2>3. works' = Append(works, r)
    BY <1>1, <1>c DEF UF!PickWork
  <2>7. \E rows : UF!ChangeWorks(rows)
    BY <1>1 DEF UF!PickWork
  <2> HIDE DEF r
  <2>2. /\ Append(works, r) \in Seq(UF!Row)
        /\ Len(Append(works, r)) = Len(works) + 1
        /\ \A i \in 1 .. Len(works) : Append(works, r)[i] = works[i]
        /\ Append(works, r)[Len(works) + 1] = r
    BY <1>0, <2>1, AppendProperties
  <2>4. ASSUME NEW j \in DOMAIN works' PROVE j \in 1 .. Len(works) \/ j = Len(works) + 1
    BY <1>0, <2>2, <2>3
  <2>6. \A j \in DOMAIN works' :
              \/ works'[j].work = UF!Existing /\ works'[j].authors = UF!AuthorsOf(UF!Existing)
              \/ \E i \in DOMAIN works : works'[j].work = works[i].work /\ works'[j].authors = works[i].authors
    BY <1>0, <2>1, <2>2, <2>3, <2>4
  <2> QED BY <1>c, <2>2, <2>3, <2>6, <2>7
<1>2. ASSUME NEW i \in DOMAIN works, UF!ChangeWork(i)
      PROVE  /\ works' \in Seq(UF!Row)
             /\ \A j \in DOMAIN works' :
              \/ works'[j].work = UF!Existing /\ works'[j].authors = UF!AuthorsOf(UF!Existing)
              \/ \E k \in DOMAIN works : works'[j].work = works[k].work /\ works'[j].authors = works[k].authors
  <2> DEFINE r == UF!Found(works[i].checked)
  <2>1. r \in UF!Row /\ r.work = UF!Existing /\ r.authors = UF!AuthorsOf(UF!Existing)
    BY <1>0, <1>r, FoundType DEF UF!Row, UF!Found
  <2>2. works' = [works EXCEPT ![i] = r]
    BY <1>2, <1>c DEF UF!ChangeWork, UF!ReplaceAt
  <2> HIDE DEF r
  <2> QED BY <1>0, <1>r, <2>1, <2>2, ExceptSeq
<1>3. ASSUME NEW i \in DOMAIN works, UF!ToggleWork(i)
      PROVE  /\ works' \in Seq(UF!Row)
             /\ \A j \in DOMAIN works' :
              \/ works'[j].work = UF!Existing /\ works'[j].authors = UF!AuthorsOf(UF!Existing)
              \/ \E k \in DOMAIN works : works'[j].work = works[k].work /\ works'[j].authors = works[k].authors
  <2> DEFINE r == [works[i] EXCEPT !.checked = ~works[i].checked]
  <2>1. r \in UF!Row /\ r.work = works[i].work /\ r.authors = works[i].authors
    BY <1>0, <1>r DEF UF!Row
  <2>2. works' = [works EXCEPT ![i] = r]
    BY <1>3, <1>c DEF UF!ToggleWork
  <2> HIDE DEF r
  <2> QED BY <1>0, <1>r, <2>1, <2>2, ExceptSeq
<1>4. ASSUME NEW i \in DOMAIN works, UF!RemoveWork(i)
      PROVE  /\ works' \in Seq(UF!Row)
             /\ \A j \in DOMAIN works' : \E k \in DOMAIN works : works'[j] = works[k]
  <2> DEFINE s == SubSeq(works, 1, i - 1)
             t == SubSeq(works, i + 1, Len(works))
  <2>1. works' = s \o t
    BY <1>4, <1>c DEF UF!RemoveWork, UF!RemoveAt
  <2>2. /\ s \in Seq(UF!Row) /\ Len(s) = IF 1 <= i - 1 THEN i - 1 ELSE 0
        /\ \A j \in 1 .. i - 1 : s[j] = works[j]
    <3>1. /\ s \in Seq(UF!Row) /\ Len(s) = IF 1 <= i - 1 THEN (i - 1) - 1 + 1 ELSE 0
          /\ \A j \in 1 .. (i - 1) - 1 + 1 : s[j] = works[1 + j - 1]
      BY <1>0, <1>r, SubSeqProperties
    <3> QED BY <1>0, <3>1
  <2>3. /\ t \in Seq(UF!Row) /\ Len(t) = Len(works) - i
        /\ \A j \in 1 .. Len(works) - i : t[j] = works[i + j]
    <3>1. /\ t \in Seq(UF!Row) /\ Len(t) = IF i + 1 <= Len(works) THEN Len(works) - (i + 1) + 1 ELSE 0
          /\ \A j \in 1 .. Len(works) - (i + 1) + 1 : t[j] = works[(i + 1) + j - 1]
      BY <1>0, <1>r, SubSeqProperties
    <3> QED BY <1>0, <3>1
  <2>4. /\ s \o t \in Seq(UF!Row) /\ Len(s \o t) = Len(s) + Len(t)
        /\ \A j \in 1 .. Len(s) + Len(t) : (s \o t)[j] = IF j <= Len(s) THEN s[j] ELSE t[j - Len(s)]
    BY <2>2, <2>3, ConcatProperties
  <2>5. Len(s) = i - 1 /\ i \in 1 .. Len(works)
    BY <1>0, <2>2
  <2>6. DOMAIN works' = 1 .. Len(works) - 1
    BY <1>0, <2>1, <2>3, <2>4, <2>5
  <2>7. ASSUME NEW j \in 1 .. Len(works) - 1 PROVE \E k \in DOMAIN works : works'[j] = works[k]
    <3>0. works'[j] = IF j <= i - 1 THEN s[j] ELSE t[j - (i - 1)]
      <4>1. Len(s) + Len(t) = Len(works) - 1
        BY <1>0, <2>3, <2>5
      <4> QED BY <2>1, <2>4, <2>5, <4>1
    <3>1. CASE j <= i - 1
      <4>1. j \in 1 .. i - 1 /\ j \in DOMAIN works
        BY <1>0, <2>5, <3>1
      <4> QED BY <2>2, <3>0, <3>1, <4>1
    <3>2. CASE ~(j <= i - 1)
      <4>1. j - (i - 1) \in 1 .. Len(works) - i /\ i + (j - (i - 1)) = j + 1 /\ j + 1 \in 1 .. Len(works)
        BY <1>0, <2>5, <3>2
      <4>2. works'[j] = t[j - (i - 1)]
        BY <3>0, <3>2
      <4>3. works'[j] = works[j + 1]
        BY <2>3, <4>1, <4>2
      <4> QED BY <1>0, <4>1, <4>3
    <3> QED BY <3>1, <3>2
  <2> QED BY <2>1, <2>4, <2>6, <2>7
<1>5. ASSUME NEW i \in DOMAIN works, UF!ChangeWork(i) \/ UF!RemoveWork(i) \/ UF!ToggleWork(i)
      PROVE  \E rows : UF!ChangeWorks(rows)
  BY <1>5 DEF UF!ChangeWork, UF!RemoveWork, UF!ToggleWork
<1> QED BY <1>1, <1>2, <1>3, <1>4, <1>5, <1>c

\* The steps keep the types: first those on the page.
LEMMA ChangeKeepsTypes ==
  ASSUME TypeInv,
         UF!PickWork \/ \E i \in DOMAIN works : UF!ChangeWork(i) \/ UF!RemoveWork(i) \/ UF!ToggleWork(i)
  PROVE  TypeInv'
<1>1. UF!TypeOK'
  BY ChangedWorks DEF TypeInv, UF!TypeOK, UF!server, UF!history
<1>2. Credited'
  BY ChangedWorks DEF TypeInv, Credited, Draft, UF!server
<1> QED BY <1>1, <1>2 DEF TypeInv

\* Opening a modal: the form of its entity is shown.
LEMMA Opened ==
  ASSUME TypeInv, (\E t \in Types : UF!OpenModal(t)) \/ \E i \in DOMAIN works : UF!DuplicateWork(i)
  PROVE  /\ modal = None /\ modal' \in UF!Modal /\ modal' # None
         /\ modal'.n = opened + 1 /\ opened' = opened + 1 /\ opened' \in 1 .. MaxModals
         /\ modal'.authors \subseteq UF!Entities
         /\ dumped' = form /\ form' = UF!Blank(modal'.n, modal'.type) /\ form' \in UF!Form
         /\ ~left
         /\ UNCHANGED <<group0, works, calls, left, batches, UF!server, UF!history, chosen, faults, lost, edits>>
<1>1. PICK t \in Types \cup {"work"}, a \in SUBSET UF!Entities : UF!Open(t, a)
  <2>1. CASE \E t \in Types : UF!OpenModal(t)
    BY <2>1 DEF UF!OpenModal
  <2>2. ASSUME NEW i \in DOMAIN works, UF!DuplicateWork(i) PROVE works[i].authors \in SUBSET UF!Entities
    <3>1. works \in Seq(UF!Row) /\ i \in 1 .. Len(works)
      BY DEF TypeInv, UF!TypeOK
    <3>2. works[i] \in UF!Row
      BY <3>1, ElementOfSeq
    <3> QED BY <3>2 DEF UF!Row
  <2> QED BY <2>1, <2>2 DEF UF!DuplicateWork
<1>2. t \in UF!ModalTypes
  BY ModalTypesAssumption DEF UF!ModalTypes
<1>3. opened + 1 \in UF!Modals /\ opened + 1 \in 1 .. MaxModals
  BY <1>1, FormBoundsAssumption DEF UF!Open, TypeInv, UF!TypeOK, UF!Modals
<1>4. modal' = [n |-> opened + 1, type |-> t, authors |-> a]
  BY <1>1 DEF UF!Open
<1>5. modal' \in UF!Modal
  BY <1>1, <1>2, <1>3, <1>4 DEF UF!Modal
<1>6. UF!Blank(opened + 1, t) \in UF!Form
  BY <1>3, EntitiesAre DEF UF!Blank, UF!Form, TypeInv, UF!TypeOK
<1>7. modal' # None
  BY <1>5, NoneAssumption
<1> QED BY <1>1, <1>3, <1>4, <1>5, <1>6, <1>7 DEF UF!Open, UF!Idle, UF!Aside

LEMMA OpenKeepsTypes ==
  ASSUME TypeInv, (\E t \in Types : UF!OpenModal(t)) \/ \E i \in DOMAIN works : UF!DuplicateWork(i)
  PROVE  TypeInv'
<1>1. UF!TypeOK'
  <2>1. dumped' \in UF!Form /\ dumped' # None
    BY Opened, NoneAssumption DEF TypeInv, UF!TypeOK
  <2>2. opened' \in 0 .. MaxModals
    BY Opened, FormBoundsAssumption
  <2> QED BY <2>1, <2>2, Opened DEF TypeInv, UF!TypeOK, UF!server, UF!history
<1>2. Credited'
  BY Opened DEF TypeInv, Credited, Draft, UF!server
<1> QED BY <1>1, <1>2 DEF TypeInv

\* The edition as it is taken back.
LEMMA LoadedType ==
  ASSUME TypeInv, modal # None
  PROVE  /\ dumped \in UF!Form /\ UF!Loaded \in UF!Form
         /\ UF!Loaded.author = dumped.author /\ UF!Loaded.submitted = dumped.submitted
         /\ UF!Loaded.name = dumped.name /\ UF!Loaded.publishers = dumped.publishers
         /\ UF!Loaded.group = IF group0 # None THEN group0 ELSE dumped.group
<1>1. dumped \in UF!Form /\ group0 \in UF!Optional
  BY DEF TypeInv, UF!TypeOK
<1> QED BY <1>1 DEF UF!Loaded, UF!Form

LEMMA CloseKeepsTypes ==
  ASSUME TypeInv, UF!CloseModal \/ UF!SubmitModal
  PROVE  TypeInv'
<1>1. modal # None /\ UF!Close
  BY DEF UF!CloseModal, UF!SubmitModal
<1>2. modal \in UF!Modal /\ form \in UF!Form
  BY <1>1 DEF TypeInv, UF!TypeOK
<1>3. calls' \subseteq UF!Call
  <2>1. CASE UF!CloseModal
    BY <2>1 DEF UF!CloseModal, TypeInv, UF!TypeOK
  <2>2. CASE UF!SubmitModal
    <3>1. [n |-> modal.n, type |-> modal.type, name |-> UF!Posted.name,
           author |-> UF!Posted.author, authors |-> modal.authors] \in UF!Call
      BY <1>2 DEF UF!Call, UF!Posted, UF!Modal, UF!Form
    <3> QED BY <2>2, <3>1 DEF UF!SubmitModal, TypeInv, UF!TypeOK
  <2> QED BY <2>1, <2>2
<1>4. UF!TypeOK'
  BY <1>1, <1>3, LoadedType
     DEF TypeInv, UF!TypeOK, UF!Close, UF!server, UF!history, UF!bounds
<1>5. Credited'
  BY <1>1, LoadedType DEF TypeInv, Credited, Draft, UF!Close, UF!server
<1> QED BY <1>4, <1>5 DEF TypeInv

\* The answer to a modal goes into whatever is shown.
LEMMA AddedType ==
  ASSUME TypeInv, NEW c \in calls
  PROVE  /\ UF!Added(c.type, c.n) \in UF!Form
         /\ UF!Added(c.type, c.n).author \in {form.author, c.n}
         /\ UF!Added(c.type, c.n).submitted = form.submitted
         /\ UF!Added(c.type, c.n).name = form.name
         /\ c \in UF!Call /\ c.n \in UF!Entities /\ c.n \in UF!Modals
<1>1. c \in UF!Call /\ c.n \in UF!Modals /\ c.n \in UF!Entities /\ c.n \in UF!Optional /\ c.type \in UF!ModalTypes
  BY EntitiesAre DEF TypeInv, UF!TypeOK, UF!Call
<1>2. form \in UF!Form
  BY DEF TypeInv, UF!TypeOK
<1>3. CASE c.type = "author"
  BY <1>1, <1>2, <1>3 DEF UF!Added, UF!Form
<1>4. CASE c.type = "editionGroup"
  BY <1>1, <1>2, <1>4 DEF UF!Added, UF!Form
<1>5. CASE c.type = "publisher"
  BY <1>1, <1>2, <1>5 DEF UF!Added, UF!Form
<1>6. CASE c.type = "work"
  BY <1>1, <1>2, <1>6 DEF UF!Added, UF!Form
<1> QED BY <1>1, <1>3, <1>4, <1>5, <1>6 DEF UF!ModalTypes

\* The rows of works that the answer leaves.
LEMMA AnsweredWorks ==
  ASSUME TypeInv, NEW c \in calls, UF!AnswerCall(c)
  PROVE  /\ works' \in Seq(UF!Row)
         /\ \A j \in DOMAIN works' :
              \/ works'[j].work = c.n /\ works'[j].authors = c.authors /\ c.type = "work"
              \/ j \in DOMAIN works /\ works'[j] = works[j]
<1>1. CASE c.type # "work"
  BY <1>1 DEF UF!AnswerCall, TypeInv, UF!TypeOK
<1>2. CASE c.type = "work"
  <2> DEFINE r == [work |-> c.n, checked |-> TRUE, authors |-> c.authors]
  <2>1. r \in UF!Row /\ r.work = c.n /\ r.authors = c.authors
    BY AddedType DEF UF!Call, UF!Row
  <2>2. works' = Append(works, r)
    BY <1>2 DEF UF!AnswerCall
  <2>3. works \in Seq(UF!Row) /\ Len(works) \in Nat /\ DOMAIN works = 1 .. Len(works)
    BY DEF TypeInv, UF!TypeOK
  <2> HIDE DEF r
  <2>4. /\ Append(works, r) \in Seq(UF!Row)
        /\ Len(Append(works, r)) = Len(works) + 1
        /\ \A i \in 1 .. Len(works) : Append(works, r)[i] = works[i]
        /\ Append(works, r)[Len(works) + 1] = r
    BY <2>1, <2>3, AppendProperties
  <2>5. ASSUME NEW j \in DOMAIN works' PROVE j \in 1 .. Len(works) \/ j = Len(works) + 1
    BY <2>2, <2>3, <2>4
  <2> QED BY <1>2, <2>1, <2>2, <2>3, <2>4, <2>5
<1> QED BY <1>1, <1>2

LEMMA AnswerCallKeepsTypes ==
  ASSUME TypeInv, NEW c \in calls, UF!AnswerCall(c)
  PROVE  TypeInv'
<1> DEFINE A == UF!Added(c.type, c.n)
<1>1. A \in UF!Form /\ A.author \in {form.author, c.n} /\ c \in UF!Call /\ c.n \in UF!Entities /\ c.n \in UF!Optional
  BY AddedType, EntitiesAre
<1>2. form' = [A EXCEPT !.submitted = FALSE]
  BY DEF UF!AnswerCall
<1> HIDE DEF A
<1>3. form' \in UF!Form /\ form'.author \in {form.author, c.n}
  BY <1>1, <1>2 DEF UF!Form
<1>4. group0' \in UF!Optional
  BY <1>1 DEF UF!AnswerCall, TypeInv, UF!TypeOK
<1>5. works' \in Seq(UF!Row)
  BY AnsweredWorks
<1>6. saves' \subseteq (0 .. MaxSubmits) \X UF!Entities \X UF!Optional /\ \A s \in saves' : s[3] \in UF!Entities
  <2>1. \A a \in c.authors : a \in UF!Entities /\ a \in UF!Optional
    BY <1>1, EntitiesAre DEF UF!Call
  <2>2. 0 \in 0 .. MaxSubmits
    BY Bounds
  <2>3. \A s \in saves' : s \in saves \/ \E a \in c.authors : s = <<0, c.n, a>>
    BY DEF UF!AnswerCall
  <2> QED BY <1>1, <2>1, <2>2, <2>3 DEF TypeInv, UF!TypeOK, Credited
<1>7. wanted' \in [author : UF!Optional, group : UF!Optional, publishers : SUBSET UF!Entities]
  <2>1. wanted \in [author : UF!Optional, group : UF!Optional, publishers : SUBSET UF!Entities]
    BY DEF TypeInv, UF!TypeOK
  <2>2. wanted' \in {[wanted EXCEPT !.group = c.n], [wanted EXCEPT !.author = c.n],
                     [wanted EXCEPT !.publishers = wanted.publishers \cup {c.n}], wanted}
    <3>1. CASE c.type = "editionGroup"
      BY <3>1 DEF UF!AnswerCall
    <3>2. CASE c.type = "author"
      BY <3>2 DEF UF!AnswerCall
    <3>3. CASE c.type = "publisher"
      BY <3>3 DEF UF!AnswerCall
    <3>4. CASE c.type \notin {"editionGroup", "author", "publisher"}
      BY <3>4 DEF UF!AnswerCall
    <3> QED BY <3>1, <3>2, <3>3, <3>4
  <2> QED BY <1>1, <2>1, <2>2
<1>8. mixed' \subseteq UF!Modals /\ givenUp' \in BOOLEAN /\ cleared' \in Nat
  <2>1. modal # None => modal.n \in UF!Modals
    BY DEF TypeInv, UF!TypeOK, UF!Modal
  <2>2. mixed' \subseteq UF!Modals
    BY <2>1 DEF UF!AnswerCall, TypeInv, UF!TypeOK
  <2>3. givenUp' \in BOOLEAN
    BY DEF UF!AnswerCall, TypeInv, UF!TypeOK
  <2>4. cleared' \in Nat
    BY DEF UF!AnswerCall, TypeInv, UF!TypeOK
  <2> QED BY <2>2, <2>3, <2>4
<1>9. UF!TypeOK'
  BY <1>3, <1>4, <1>5, <1>6, <1>7, <1>8
     DEF UF!AnswerCall, TypeInv, UF!TypeOK, UF!bounds
<1>10. Draft'.author \in UF!Entities
  <2>1. CASE modal = None
    BY <1>1, <1>3, <2>1 DEF UF!AnswerCall, TypeInv, Credited, Draft
  <2>2. CASE modal # None
    BY <2>2 DEF UF!AnswerCall, TypeInv, Credited, Draft
  <2> QED BY <2>1, <2>2
<1> QED BY <1>6, <1>9, <1>10 DEF UF!AnswerCall, TypeInv, Credited

LEMMA RefuseCallKeepsTypes ==
  ASSUME TypeInv, NEW c \in calls, UF!RefuseCall(c)
  PROVE  TypeInv'
<1>1. form' \in UF!Form /\ form'.author = form.author
  BY DEF UF!RefuseCall, TypeInv, UF!TypeOK, UF!Form
<1>2. cleared' \in Nat
  BY DEF UF!RefuseCall, TypeInv, UF!TypeOK
<1>3. UF!TypeOK'
  BY <1>1, <1>2 DEF UF!RefuseCall, TypeInv, UF!TypeOK, UF!server, UF!bounds
<1>4. Credited'
  BY <1>1 DEF UF!RefuseCall, TypeInv, Credited, Draft, UF!server
<1> QED BY <1>3, <1>4 DEF TypeInv

\* The batch that is sent.
TickedRows == {i \in DOMAIN works : works[i].checked}
ChangedRows == {i \in TickedRows : UF!Lacks(works[i], form.author)}
NewBatch ==
  [name |-> form.name, author |-> form.author,
   ticked |-> {works[i].work : i \in TickedRows},
   todo |-> {<<i, works[i].work>> : i \in ChangedRows},
   step |-> "sent", waiting |-> TRUE, read |-> 0, stale |-> FALSE]

\* The rows of works are as many as their places.
LEMMA WorksRows ==
  ASSUME TypeInv
  PROVE  /\ works \in Seq(UF!Row) /\ Len(works) \in Nat /\ DOMAIN works = 1 .. Len(works)
         /\ \A i \in DOMAIN works : i \in Nat /\ works[i] \in UF!Row /\ works[i].work \in UF!Entities
<1>1. works \in Seq(UF!Row) /\ Len(works) \in Nat /\ DOMAIN works = 1 .. Len(works)
  BY DEF TypeInv, UF!TypeOK
<1>2. \A i \in 1 .. Len(works) : works[i] \in UF!Row
  BY <1>1, ElementOfSeq
<1> QED BY <1>1, <1>2 DEF UF!Row

\* Submitting appends this batch.
LEMMA BatchSent ==
  ASSUME TypeInv, UF!Submit
  PROVE  /\ NewBatch \in UF!Batch /\ NewBatch.author \in UF!Entities
         /\ batches' = Append(batches, NewBatch) /\ batches' \in Seq(UF!Batch)
         /\ Len(batches') = Len(batches) + 1 /\ Len(batches') <= MaxSubmits
         /\ DOMAIN batches = 1 .. Len(batches) /\ DOMAIN batches' = 1 .. Len(batches) + 1
         /\ Len(batches) \in Nat
         /\ \A b \in DOMAIN batches : batches'[b] = batches[b]
         /\ batches'[Len(batches) + 1] = NewBatch
<1>1. form \in UF!Form /\ form.author \in UF!Entities
  BY DEF UF!Submit, UF!Idle, TypeInv, UF!TypeOK, Credited, Draft
<1>2. NewBatch \in UF!Batch
  <2>1. {works[i].work : i \in TickedRows} \in SUBSET UF!Entities
    BY WorksRows DEF TickedRows
  <2>2. {<<i, works[i].work>> : i \in ChangedRows} \in SUBSET (Nat \X UF!Entities)
    BY WorksRows DEF TickedRows, ChangedRows
  <2>3. 0 \in 0 .. MaxEdits
    BY Bounds
  <2>4. form.name \in UF!Entities /\ form.author \in UF!Optional
    BY <1>1 DEF UF!Form
  <2> QED BY <2>1, <2>2, <2>3, <2>4 DEF NewBatch, UF!Batch
<1>3. batches' = Append(batches, NewBatch)
  BY DEF UF!Submit, NewBatch, TickedRows, ChangedRows
<1>4. batches \in Seq(UF!Batch) /\ Len(batches) \in Nat /\ DOMAIN batches = 1 .. Len(batches)
  BY DEF TypeInv, UF!TypeOK
<1>5. NewBatch.author = form.author
  BY DEF NewBatch
<1>6. /\ batches' \in Seq(UF!Batch)
      /\ Len(batches') = Len(batches) + 1
      /\ \A i \in 1 .. Len(batches) : batches'[i] = batches[i]
      /\ batches'[Len(batches) + 1] = NewBatch
  BY <1>2, <1>3, <1>4, AppendProperties
<1>7. DOMAIN batches' = 1 .. Len(batches) + 1
  BY <1>6
<1>8. Len(batches') <= MaxSubmits
  BY <1>4, <1>6, Bounds DEF UF!Submit
<1> QED BY <1>1, <1>2, <1>3, <1>4, <1>5, <1>6, <1>7, <1>8

LEMMA SubmitKeepsTypes ==
  ASSUME TypeInv, UF!Submit
  PROVE  TypeInv'
<1>1. form' \in UF!Form /\ form'.author = form.author
  BY DEF UF!Submit, TypeInv, UF!TypeOK, UF!Form
<1>2. editions' \subseteq DOMAIN batches'
  <2>1. DOMAIN batches \subseteq DOMAIN batches'
    BY BatchSent
  <2> QED BY <2>1 DEF UF!Submit, UF!server, TypeInv, UF!TypeOK
<1>3. \A b \in DOMAIN batches' : b \in DOMAIN batches \/ b = Len(batches) + 1
  BY BatchSent
<1>4. \A b \in DOMAIN batches' : batches'[b].author \in UF!Entities
  BY <1>3, BatchSent DEF TypeInv, Credited
<1>5. UF!TypeOK'
  BY <1>1, <1>2, BatchSent
     DEF UF!Submit, TypeInv, UF!TypeOK, UF!server, UF!history,
     UF!bounds
<1>6. Credited'
  BY <1>1, <1>4 DEF UF!Submit, TypeInv, Credited, Draft, UF!server
<1> QED BY <1>5, <1>6 DEF TypeInv

\* There is a least one of any numbers.
LEMMA LeastNumber ==
  ASSUME NEW T, T \subseteq Nat, T # {}
  PROVE  \E x \in T : \A y \in T : x <= y
<1>1. PICK x \in T : \A y \in T : <<y, x>> \notin OpToRel(<, Nat)
  BY WFMin, NatLessThanWellFounded
<1>2. \A y \in T : ~(y < x)
  BY <1>1 DEF OpToRel
<1> QED BY <1>2

\* The row that comes next is one of those to be saved.
LEMMA FirstIsOne ==
  ASSUME NEW rows \in SUBSET (Nat \X UF!Entities), rows # {}
  PROVE  UF!First(rows) \in rows
<1> DEFINE T == {r[1] : r \in rows}
<1>1. T \subseteq Nat /\ T # {}
  OBVIOUS
<1> HIDE DEF T
<1>2. PICK n \in T : \A k \in T : n <= k
  BY <1>1, LeastNumber
<1>3. PICK r \in rows : r[1] = n
  BY <1>2 DEF T
<1>4. \A q \in rows : r[1] <= q[1]
  BY <1>2, <1>3 DEF T
<1> QED BY <1>3, <1>4 DEF UF!First

\* Batches with the same places.
LEMMA SameBatches ==
  ASSUME TypeInv, NEW s, s = [b \in DOMAIN batches |-> s[b]], \A b \in DOMAIN batches : s[b] \in UF!Batch
  PROVE  s \in Seq(UF!Batch) /\ Len(s) = Len(batches) /\ DOMAIN s = DOMAIN batches /\ Len(s) <= MaxSubmits
<1>1. Len(batches) \in Nat /\ DOMAIN batches = 1 .. Len(batches) /\ Len(batches) <= MaxSubmits
  BY DEF TypeInv, UF!TypeOK
<1>2. s \in [1 .. Len(batches) -> UF!Batch]
  BY <1>1
<1>3. s \in Seq(UF!Batch)
  BY <1>1, <1>2, SeqDef
<1>4. Len(s) = Len(batches)
  BY <1>1, <1>2, <1>3
<1> QED BY <1>1, <1>3, <1>4

\* Where a batch b is changed alone.
LEMMA OneBatch ==
  ASSUME TypeInv, NEW b \in DOMAIN batches, NEW r \in UF!Batch, batches' = [batches EXCEPT ![b] = r],
         r.author \in UF!Entities
  PROVE  /\ batches' \in Seq(UF!Batch) /\ Len(batches') = Len(batches) /\ DOMAIN batches' = DOMAIN batches
         /\ Len(batches') <= MaxSubmits
         /\ batches'[b] = r /\ \A d \in DOMAIN batches : d # b => batches'[d] = batches[d]
         /\ \A d \in DOMAIN batches : batches'[d].author \in UF!Entities
<1>1. batches' = [d \in DOMAIN batches |-> batches'[d]]
  OBVIOUS
<1>2. batches'[b] = r /\ \A d \in DOMAIN batches : d # b => batches'[d] = batches[d]
  OBVIOUS
<1>3. \A d \in DOMAIN batches : batches'[d] \in UF!Batch
  BY <1>2, BatchTypes
<1> DEFINE s == batches'
<1>4. s = [d \in DOMAIN batches |-> s[d]] /\ \A d \in DOMAIN batches : s[d] \in UF!Batch
  BY <1>1, <1>3
<1> HIDE DEF s
<1>5. s \in Seq(UF!Batch) /\ Len(s) = Len(batches) /\ DOMAIN s = DOMAIN batches /\ Len(s) <= MaxSubmits
  BY <1>4, SameBatches
<1> QED BY <1>2, <1>5 DEF s, TypeInv, Credited

Overtake(b, w) == [batches[b] EXCEPT !.stale = @ \/ (w = UF!Existing /\ batches[b].step = "open")]

\* A batch that is overtaken is a batch.
LEMMA OvertakeType ==
  ASSUME TypeInv, NEW b \in DOMAIN batches, NEW w
  PROVE  /\ Overtake(b, w) \in UF!Batch
         /\ Overtake(b, w).author = batches[b].author /\ Overtake(b, w).name = batches[b].name
         /\ Overtake(b, w).ticked = batches[b].ticked /\ Overtake(b, w).todo = batches[b].todo
         /\ Overtake(b, w).step = batches[b].step /\ Overtake(b, w).waiting = batches[b].waiting
         /\ Overtake(b, w).read = batches[b].read
         /\ Overtake(b, w).stale = (batches[b].stale \/ (w = UF!Existing /\ batches[b].step = "open"))
BY BatchTypes DEF Overtake, UF!Batch

\* What the server, or the answer of the server, makes of a batch.
ReceivedOf(b) == [batches[b] EXCEPT !.step = "open", !.read = title]
SavedOf(b, row) == [Overtake(b, row[2]) EXCEPT !.todo = @ \ {row}]
EndedOf(b, step) == [batches[b] EXCEPT !.step = step, !.read = 0, !.stale = FALSE]
FailedOf(b) == [EndedOf(b, "failed") EXCEPT !.todo = {}]
AnsweredOf(b) == [batches[b] EXCEPT !.waiting = FALSE]

\* So is what the server makes of one.
LEMMA ResultTypes ==
  ASSUME TypeInv, NEW b \in DOMAIN batches
  PROVE  /\ ReceivedOf(b) \in UF!Batch /\ ReceivedOf(b).author \in UF!Entities
         /\ \A row : SavedOf(b, row) \in UF!Batch /\ SavedOf(b, row).author \in UF!Entities
         /\ \A step \in {"refused", "failed", "saved"} :
              EndedOf(b, step) \in UF!Batch /\ EndedOf(b, step).author \in UF!Entities
         /\ FailedOf(b) \in UF!Batch /\ FailedOf(b).author \in UF!Entities
         /\ AnsweredOf(b) \in UF!Batch /\ AnsweredOf(b).author \in UF!Entities
<1>1. batches[b] \in UF!Batch /\ batches[b].author \in UF!Entities
  BY BatchTypes DEF TypeInv, Credited
<1>2. ReceivedOf(b) \in UF!Batch /\ ReceivedOf(b).author \in UF!Entities
  <2>1. title \in 0 .. MaxEdits
    BY DEF TypeInv, UF!TypeOK
  <2> QED BY <1>1, <2>1 DEF ReceivedOf, UF!Batch
<1>3. ASSUME NEW row PROVE SavedOf(b, row) \in UF!Batch /\ SavedOf(b, row).author \in UF!Entities
  <2> DEFINE o == Overtake(b, row[2])
  <2>1. o \in UF!Batch /\ o.author \in UF!Entities
    BY <1>1, OvertakeType
  <2>2. SavedOf(b, row) = [o EXCEPT !.todo = o.todo \ {row}]
    BY DEF SavedOf
  <2> HIDE DEF o
  <2> QED BY <2>1, <2>2 DEF UF!Batch
<1>4. ASSUME NEW step \in {"refused", "failed", "saved"}
      PROVE  EndedOf(b, step) \in UF!Batch /\ EndedOf(b, step).author \in UF!Entities
  <2>1. 0 \in 0 .. MaxEdits
    BY Bounds
  <2> QED BY <1>1, <2>1 DEF EndedOf, UF!Batch
<1>5. FailedOf(b) \in UF!Batch /\ FailedOf(b).author \in UF!Entities
  BY <1>4 DEF FailedOf, UF!Batch
<1>6. AnsweredOf(b) \in UF!Batch /\ AnsweredOf(b).author \in UF!Entities
  BY <1>1 DEF AnsweredOf, UF!Batch
<1> QED BY <1>2, <1>3, <1>4, <1>5, <1>6

\* The steps in these terms.
LEMMA ServerSteps ==
  ASSUME TypeInv, NEW b \in DOMAIN batches
  PROVE  /\ UF!Receive(b) => batches' = [batches EXCEPT ![b] = ReceivedOf(b)]
         /\ UF!RefuseWork(b) => batches' = [batches EXCEPT ![b] = EndedOf(b, "refused")]
         /\ UF!SaveEdition(b) => batches' = [batches EXCEPT ![b] = EndedOf(b, "saved")]
         /\ UF!Fail(b) => batches' = [batches EXCEPT ![b] = FailedOf(b)]
         /\ UF!AnswerError(b) \/ UF!LoseAnswer(b) \/ UF!Answer(b) => batches' = [batches EXCEPT ![b] = AnsweredOf(b)]
<1>1. batches[b] \in UF!Batch
  BY BatchTypes
<1>2. UF!Receive(b) => batches' = [batches EXCEPT ![b] = ReceivedOf(b)]
  BY <1>1 DEF UF!Receive, UF!Fetched, ReceivedOf
<1>3. ASSUME NEW step PROVE UF!Ended(b, step) = [batches EXCEPT ![b] = EndedOf(b, step)]
  BY <1>1 DEF UF!Ended, EndedOf
<1>4. UF!Fail(b) => batches' = [batches EXCEPT ![b] = FailedOf(b)]
  <2>1. [UF!Ended(b, "failed") EXCEPT ![b].todo = {}] = [batches EXCEPT ![b] = FailedOf(b)]
    BY <1>3 DEF FailedOf
  <2> QED BY <2>1 DEF UF!Fail
<1>5. UF!AnswerError(b) \/ UF!LoseAnswer(b) \/ UF!Answer(b) => batches' = [batches EXCEPT ![b] = AnsweredOf(b)]
  BY DEF UF!AnswerError, UF!LoseAnswer, UF!Answer, UF!Excuse, AnsweredOf
<1> QED BY <1>2, <1>3, <1>4, <1>5 DEF UF!RefuseWork, UF!SaveEdition

\* A step that saves a work.
LEMMA WorkSaved ==
  ASSUME TypeInv, NEW b \in DOMAIN batches, UF!SaveWork(b)
  PROVE  /\ UF!First(batches[b].todo) \in batches[b].todo /\ batches[b].step = "open"
         /\ UF!First(batches[b].todo)[2] \in UF!Entities
         /\ saves' = saves \cup {<<b, UF!First(batches[b].todo)[2], batches[b].author>>}
         /\ title' = IF UF!First(batches[b].todo)[2] = UF!Existing THEN batches[b].read ELSE title
         /\ batches' \in Seq(UF!Batch) /\ Len(batches') = Len(batches) /\ DOMAIN batches' = DOMAIN batches
         /\ Len(batches') <= MaxSubmits
         /\ batches'[b] = SavedOf(b, UF!First(batches[b].todo))
         /\ \A d \in DOMAIN batches : d # b => batches'[d] = Overtake(d, UF!First(batches[b].todo)[2])
         /\ \A d \in DOMAIN batches : batches'[d].author \in UF!Entities
<1> DEFINE row == UF!First(batches[b].todo)
<1>1. batches[b].todo \in SUBSET (Nat \X UF!Entities) /\ batches[b].todo # {}
  BY BatchTypes DEF UF!SaveWork, UF!Batch
<1>2. row \in batches[b].todo /\ row[2] \in UF!Entities
  BY <1>1, FirstIsOne
<1>3. batches' = [UF!Overtaken(row[2]) EXCEPT ![b].todo = @ \ {row}]
  BY DEF UF!SaveWork
<1>3a. /\ batches[b].step = "open"
       /\ saves' = saves \cup {<<b, row[2], batches[b].author>>}
       /\ title' = IF row[2] = UF!Existing THEN batches[b].read ELSE title
  BY DEF UF!SaveWork
<1> HIDE DEF row
<1>4. UF!Overtaken(row[2]) = [d \in DOMAIN batches |-> Overtake(d, row[2])]
  BY DEF UF!Overtaken, Overtake
<1>5. batches' = [d \in DOMAIN batches |-> IF d = b THEN SavedOf(b, row) ELSE Overtake(d, row[2])]
  BY <1>3, <1>4 DEF SavedOf
<1>6. \A d \in DOMAIN batches : batches'[d] \in UF!Batch /\ batches'[d].author \in UF!Entities
  BY <1>5, OvertakeType, ResultTypes DEF TypeInv, Credited
<1> DEFINE s == batches'
<1>7. s = [d \in DOMAIN batches |-> s[d]] /\ \A d \in DOMAIN batches : s[d] \in UF!Batch
  BY <1>5, <1>6
<1> HIDE DEF s
<1>8. s \in Seq(UF!Batch) /\ Len(s) = Len(batches) /\ DOMAIN s = DOMAIN batches /\ Len(s) <= MaxSubmits
  BY <1>7, SameBatches
<1>9. /\ batches'[b] = SavedOf(b, row)
      /\ \A d \in DOMAIN batches : d # b => batches'[d] = Overtake(d, row[2])
  BY <1>5
<1> QED BY <1>2, <1>3a, <1>6, <1>8, <1>9 DEF s, row

\* Another editor's revision.
LEMMA TitleEdited ==
  ASSUME TypeInv, UF!EditTitle
  PROVE  /\ batches' \in Seq(UF!Batch) /\ Len(batches') = Len(batches) /\ DOMAIN batches' = DOMAIN batches
         /\ Len(batches') <= MaxSubmits
         /\ \A d \in DOMAIN batches : batches'[d] = Overtake(d, UF!Existing)
         /\ \A d \in DOMAIN batches : batches'[d].author \in UF!Entities
         /\ edits' = edits + 1 /\ title' = edits + 1 /\ edits + 1 \in 0 .. MaxEdits
<1>1. batches' = [d \in DOMAIN batches |-> Overtake(d, UF!Existing)]
  BY DEF UF!EditTitle, UF!Overtaken, Overtake
<1>2. \A d \in DOMAIN batches : batches'[d] \in UF!Batch /\ batches'[d].author \in UF!Entities
  BY <1>1, OvertakeType DEF TypeInv, Credited
<1> DEFINE s == batches'
<1>3. s = [d \in DOMAIN batches |-> s[d]] /\ \A d \in DOMAIN batches : s[d] \in UF!Batch
  BY <1>1, <1>2
<1> HIDE DEF s
<1>4. s \in Seq(UF!Batch) /\ Len(s) = Len(batches) /\ DOMAIN s = DOMAIN batches /\ Len(s) <= MaxSubmits
  BY <1>3, SameBatches
<1>5. edits \in 0 .. MaxEdits /\ edits < MaxEdits
  BY DEF TypeInv, UF!TypeOK, UF!EditTitle
<1>6. edits + 1 \in 0 .. MaxEdits
  BY <1>5, Bounds
<1> QED BY <1>1, <1>2, <1>4, <1>6 DEF s, UF!EditTitle

\* The steps that change one batch, as such.
LEMMA BatchChanged ==
  ASSUME TypeInv, NEW b \in DOMAIN batches,
         \/ UF!Receive(b) \/ UF!RefuseWork(b) \/ UF!SaveEdition(b) \/ UF!Fail(b)
         \/ UF!AnswerError(b) \/ UF!LoseAnswer(b) \/ UF!Answer(b)
  PROVE  /\ batches' \in Seq(UF!Batch) /\ Len(batches') = Len(batches) /\ DOMAIN batches' = DOMAIN batches
         /\ Len(batches') <= MaxSubmits
         /\ \A d \in DOMAIN batches : d # b => batches'[d] = batches[d]
         /\ \A d \in DOMAIN batches : batches'[d].author \in UF!Entities
         /\ UF!Receive(b) => batches'[b] = ReceivedOf(b)
         /\ UF!RefuseWork(b) => batches'[b] = EndedOf(b, "refused")
         /\ UF!SaveEdition(b) => batches'[b] = EndedOf(b, "saved")
         /\ UF!Fail(b) => batches'[b] = FailedOf(b)
         /\ UF!AnswerError(b) \/ UF!LoseAnswer(b) \/ UF!Answer(b) => batches'[b] = AnsweredOf(b)
<1>1. ASSUME NEW r \in UF!Batch, r.author \in UF!Entities, batches' = [batches EXCEPT ![b] = r]
      PROVE  /\ batches' \in Seq(UF!Batch) /\ Len(batches') = Len(batches) /\ DOMAIN batches' = DOMAIN batches
             /\ Len(batches') <= MaxSubmits
             /\ \A d \in DOMAIN batches : d # b => batches'[d] = batches[d]
             /\ \A d \in DOMAIN batches : batches'[d].author \in UF!Entities
  BY <1>1, OneBatch
<1>2. \E r \in UF!Batch : r.author \in UF!Entities /\ batches' = [batches EXCEPT ![b] = r]
  BY ServerSteps, ResultTypes
<1>3. \A r : batches' = [batches EXCEPT ![b] = r] => batches'[b] = r
  OBVIOUS
<1> QED BY <1>1, <1>2, <1>3, ServerSteps

\* The steps of the server and its answers keep the types.
LEMMA ServeKeepsTypes ==
  ASSUME TypeInv, NEW b \in DOMAIN batches,
         UF!Receive(b) \/ UF!SaveWork(b) \/ UF!RefuseWork(b) \/ UF!SaveEdition(b) \/ UF!Fail(b)
  PROVE  TypeInv'
<1>1. /\ batches' \in Seq(UF!Batch) /\ DOMAIN batches' = DOMAIN batches /\ Len(batches') <= MaxSubmits
      /\ \A d \in DOMAIN batches : batches'[d].author \in UF!Entities
  BY BatchChanged, WorkSaved
<1>2. UNCHANGED <<UF!edition, calls, left, UF!history, opened, chosen, lost, edits>>
  BY
     DEF UF!Receive, UF!SaveWork, UF!RefuseWork, UF!SaveEdition,
     UF!Fail, UF!Served
<1>3. faults' \in 0 .. MaxFaults /\ faults' + lost \in 0 .. MaxFaults
  <2>1. CASE UF!Fail(b)
    <3>1. faults \in 0 .. MaxFaults /\ lost \in 0 .. MaxFaults
      BY DEF TypeInv, UF!TypeOK
    <3>2. faults' = faults + 1 /\ faults + lost < MaxFaults
      BY <2>1 DEF UF!Fail
    <3> QED
      BY <3>1, <3>2, Bounds
  <2>2. CASE ~UF!Fail(b)
    BY <2>2
       DEF UF!Receive, UF!SaveWork, UF!RefuseWork, UF!SaveEdition,
       TypeInv, UF!TypeOK
  <2> QED BY <2>1, <2>2
<1>4. /\ saves' \subseteq (0 .. MaxSubmits) \X UF!Entities \X UF!Optional
      /\ \A s \in saves' : s[3] \in UF!Entities
      /\ editions' \subseteq DOMAIN batches
      /\ title' \in 0 .. MaxEdits
  <2>1. CASE UF!SaveWork(b)
    <3>1. batches[b].read \in 0 .. MaxEdits /\ batches[b].author \in UF!Entities /\ b \in 0 .. MaxSubmits
      BY BatchTypes DEF UF!Batch, TypeInv, Credited
    <3>2. batches[b].author \in UF!Optional
      BY <3>1, EntitiesAre
    <3>3. editions' = editions
      BY <2>1 DEF UF!SaveWork
    <3> DEFINE w == UF!First(batches[b].todo)[2]
               s == <<b, w, batches[b].author>>
    <3>4. w \in UF!Entities /\ saves' = saves \cup {s} /\ title' = IF w = UF!Existing THEN batches[b].read ELSE title
      BY <2>1, WorkSaved
    <3>5. s \in (0 .. MaxSubmits) \X UF!Entities \X UF!Optional /\ s[3] \in UF!Entities
      BY <3>1, <3>2, <3>4
    <3> HIDE DEF s, w
    <3>6. title' \in 0 .. MaxEdits
      BY <3>1, <3>4 DEF TypeInv, UF!TypeOK
    <3> QED BY <3>3, <3>4, <3>5, <3>6 DEF TypeInv, UF!TypeOK, Credited
  <2>2. CASE ~UF!SaveWork(b)
    BY <2>2
       DEF UF!Receive, UF!RefuseWork, UF!SaveEdition, UF!Fail, TypeInv,
       UF!TypeOK, Credited, UF!server
  <2> QED BY <2>1, <2>2
<1>5. UF!TypeOK'
  BY <1>1, <1>2, <1>3, <1>4 DEF TypeInv, UF!TypeOK, UF!edition, UF!history
<1>6. Credited'
  BY <1>1, <1>2, <1>4 DEF TypeInv, Credited, Draft, UF!edition
<1> QED BY <1>5, <1>6 DEF TypeInv

LEMMA ExcuseKeepsTypes ==
  ASSUME TypeInv, NEW b \in DOMAIN batches, UF!AnswerError(b) \/ UF!LoseAnswer(b)
  PROVE  TypeInv'
<1>1. UF!Excuse(b)
  BY DEF UF!AnswerError, UF!LoseAnswer
<1>2. form' \in UF!Form /\ form'.author = form.author
  BY <1>1 DEF UF!Excuse, UF!Reenabled, TypeInv, UF!TypeOK, UF!Form
<1>3. lost' \in 0 .. MaxFaults /\ faults + lost' \in 0 .. MaxFaults
  <2>1. CASE UF!LoseAnswer(b)
    BY <2>1, Bounds DEF UF!LoseAnswer, TypeInv, UF!TypeOK
  <2>2. CASE UF!AnswerError(b)
    BY <2>2 DEF UF!AnswerError, TypeInv, UF!TypeOK
  <2> QED BY <2>1, <2>2
<1>4. strayed' \in BOOLEAN
  BY <1>1 DEF UF!Excuse, TypeInv, UF!TypeOK
<1>5. UF!TypeOK'
  BY <1>1, <1>2, <1>3, <1>4, BatchChanged
     DEF UF!Excuse, TypeInv, UF!TypeOK, UF!server
<1>6. Credited'
  BY <1>1, <1>2, BatchChanged DEF UF!Excuse, TypeInv, Credited, Draft, UF!server
<1> QED BY <1>5, <1>6 DEF TypeInv

LEMMA AnswerKeepsTypes ==
  ASSUME TypeInv, NEW b \in DOMAIN batches, UF!Answer(b)
  PROVE  TypeInv'
<1>1. UF!FirstForm \in UF!Form /\ UF!FirstForm.author \in UF!Entities
  BY EntitiesAre DEF UF!FirstForm, UF!Form
<1>2. UF!FirstWanted \in [author : UF!Optional, group : UF!Optional, publishers : SUBSET UF!Entities]
  BY EntitiesAre DEF UF!FirstWanted
<1>3. works' \in Seq(UF!Row) /\ None \in UF!Optional
  BY EntitiesAre DEF UF!Answer
<1>4. UF!TypeOK'
  BY <1>1, <1>2, <1>3, BatchChanged
     DEF UF!Answer, TypeInv, UF!TypeOK, UF!server, UF!bounds
<1>5. Credited'
  BY <1>1, BatchChanged DEF UF!Answer, TypeInv, Credited, Draft, UF!server
<1> QED BY <1>4, <1>5 DEF TypeInv

LEMMA EditKeepsTypes ==
  ASSUME TypeInv, UF!EditTitle
  PROVE  TypeInv'
<1>1. UF!TypeOK'
  BY TitleEdited
     DEF UF!EditTitle, TypeInv, UF!TypeOK, UF!edition, UF!history
<1>2. Credited'
  BY TitleEdited DEF UF!EditTitle, TypeInv, Credited, Draft, UF!edition
<1> QED BY <1>1, <1>2 DEF TypeInv

LEMMA UnchangedTypes ==
  TypeInv /\ UNCHANGED UF!vars => TypeInv'
BY
   DEF TypeInv, UF!TypeOK, Credited, Draft, UF!vars, UF!edition,
   UF!server, UF!history, UF!bounds

LEMMA NextKeepsTypes ==
  TypeInv /\ [UF!Next]_(UF!vars) => TypeInv'
<1> SUFFICES ASSUME TypeInv, [UF!Next]_(UF!vars) PROVE TypeInv'
  OBVIOUS
<1>1. CASE UF!PickAuthor \/ UF!PickGroup \/ UF!ReplaceGroup
  BY <1>1, ChooseKeepsTypes
<1>2. CASE UF!PickWork \/ \E i \in DOMAIN works : UF!ChangeWork(i) \/ UF!RemoveWork(i) \/ UF!ToggleWork(i)
  BY <1>2, ChangeKeepsTypes
<1>3. CASE (\E t \in Types : UF!OpenModal(t)) \/ \E i \in DOMAIN works : UF!DuplicateWork(i)
  BY <1>3, OpenKeepsTypes
<1>4. CASE UF!CloseModal \/ UF!SubmitModal
  BY <1>4, CloseKeepsTypes
<1>5. CASE \E c \in calls : UF!AnswerCall(c) \/ UF!RefuseCall(c)
  BY <1>5, AnswerCallKeepsTypes, RefuseCallKeepsTypes
<1>6. CASE UF!Submit
  BY <1>6, SubmitKeepsTypes
<1>7. CASE \E b \in DOMAIN batches : UF!Serve(b) \/ UF!Fail(b)
  BY <1>7, ServeKeepsTypes DEF UF!Serve
<1>8. CASE \E b \in DOMAIN batches : UF!AnswerError(b) \/ UF!LoseAnswer(b)
  BY <1>8, ExcuseKeepsTypes
<1>9. CASE \E b \in DOMAIN batches : UF!Answer(b)
  BY <1>9, AnswerKeepsTypes
<1>10. CASE UF!EditTitle
  BY <1>10, EditKeepsTypes
<1>11. CASE UNCHANGED UF!vars
  BY <1>11, UnchangedTypes
<1> QED BY <1>1, <1>2, <1>3, <1>4, <1>5, <1>6, <1>7, <1>8, <1>9, <1>10, <1>11 DEF UF!Next

----------------------------------------------------------------------------
(* The batches.                                                            *)

\* The authors of a work, of those that were saved.
Has(saved, w) == {s[3] : s \in {s \in saved : s[2] = w}} \cup (IF w = UF!Existing THEN {UF!Existing} ELSE {})

\* The page knows of its works what is in the database, and of the existing one's author.
RowsTrue ==
  \A i \in DOMAIN works :
    /\ works[i].authors \subseteq Has(saves, works[i].work)
    /\ works[i].work = UF!Existing => UF!Existing \in works[i].authors

\* Until it fails, a batch has saved or is to save whatever was ticked, and never what the
\* existing work had; it is refused for what was saved, and old titles are known as such.
BatchTrue(b) ==
  /\ batches[b].step # "failed" =>
       \A w \in batches[b].ticked : \/ \E r \in batches[b].todo : r[2] = w
                                    \/ batches[b].author \in Has(saves, w)
  /\ \A r \in batches[b].todo : batches[b].author = UF!Existing => r[2] # UF!Existing
  /\ batches[b].step = "refused" =>
       \E s \in saves : s[2] = UF!First(batches[b].todo)[2] /\ s[3] = batches[b].author
  /\ batches[b].step = "saved" => batches[b].todo = {}
  /\ batches[b].step = "open" /\ batches[b].read # title => batches[b].stale
  /\ b \in editions <=> batches[b].step = "saved"

\* The batches that made an edition or may do so, and those whose error is on its way:
\* each has the form of the page disabled, unless that was said to be over.
Pending ==
  {b \in DOMAIN batches : batches[b].step \in {"sent", "open", "saved"} \/ batches[b].waiting}

Disabled == IF left \/ Draft.submitted THEN 1 ELSE 0
Counted == Cardinality(Pending) <= lost + cleared + Disabled

BatchInv == TypeInv /\ RowsTrue /\ (\A b \in DOMAIN batches : BatchTrue(b)) /\ Counted

\* It holds at the start.
LEMMA InitBatchInv ==
  UF!Init => BatchInv
<1> SUFFICES ASSUME UF!Init PROVE BatchInv
  OBVIOUS
<1>1. TypeInv
  BY InitTypes
<1>2. DOMAIN works = {} /\ DOMAIN batches = {}
  BY DEF UF!Init
<1>3. Pending = {}
  BY <1>2 DEF Pending
<1>4. Counted
  BY <1>3, FS_EmptySet DEF Counted, Disabled, UF!Init
<1> QED BY <1>1, <1>2, <1>4 DEF BatchInv, RowsTrue

\* Works keep the authors they have.
LEMMA AuthorsStay ==
  ASSUME NEW S, NEW T, S \subseteq T, NEW w
  PROVE  Has(S, w) \subseteq Has(T, w)
BY DEF Has

\* Rows stay true when works only gain authors.
LEMMA RowsStay ==
  ASSUME RowsTrue, saves \subseteq saves', works' = works
  PROVE  RowsTrue'
<1>1. \A w : Has(saves, w) \subseteq Has(saves', w)
  BY AuthorsStay
<1> QED BY <1>1 DEF RowsTrue

\* What is picked or ticked on the page is true of the works.
LEMMA ChangeKeepsRows ==
  ASSUME TypeInv, RowsTrue,
         UF!PickWork \/ \E i \in DOMAIN works : UF!ChangeWork(i) \/ UF!RemoveWork(i) \/ UF!ToggleWork(i)
  PROVE  RowsTrue' /\ saves' = saves
<1>1. saves' = saves
  BY ChangedWorks DEF UF!server
<1>2. ASSUME NEW j \in DOMAIN works'
      PROVE  /\ works'[j].authors \subseteq Has(saves, works'[j].work)
             /\ works'[j].work = UF!Existing => UF!Existing \in works'[j].authors
  <2>1. CASE works'[j].work = UF!Existing /\ works'[j].authors = UF!AuthorsOf(UF!Existing)
    BY <2>1 DEF UF!AuthorsOf, Has
  <2>2. CASE \E i \in DOMAIN works : works'[j].work = works[i].work /\ works'[j].authors = works[i].authors
    BY <2>2 DEF RowsTrue
  <2> QED BY <2>1, <2>2, ChangedWorks
<1> QED BY <1>1, <1>2 DEF RowsTrue

\* So is what the answer to a modal adds.
LEMMA AnswerCallKeepsRows ==
  ASSUME TypeInv, RowsTrue, NEW c \in calls, UF!AnswerCall(c)
  PROVE  RowsTrue' /\ saves \subseteq saves'
<1>1. saves \subseteq saves' /\ (c.type = "work" => \A a \in c.authors : <<0, c.n, a>> \in saves')
  BY DEF UF!AnswerCall
<1>2. c.n # UF!Existing
  BY AddedType, EntitiesAre
<1>3. \A w : Has(saves, w) \subseteq Has(saves', w)
  BY <1>1, AuthorsStay
<1>4. ASSUME NEW j \in DOMAIN works'
      PROVE  /\ works'[j].authors \subseteq Has(saves', works'[j].work)
             /\ works'[j].work = UF!Existing => UF!Existing \in works'[j].authors
  <2>1. CASE works'[j].work = c.n /\ works'[j].authors = c.authors /\ c.type = "work"
    <3>1. ASSUME NEW a \in c.authors PROVE a \in Has(saves', c.n)
      <4> DEFINE s == <<0, c.n, a>>
      <4>1. s \in saves' /\ s[2] = c.n /\ s[3] = a
        BY <1>1, <2>1
      <4> HIDE DEF s
      <4> QED BY <4>1 DEF Has
    <3> QED BY <1>2, <2>1, <3>1
  <2>2. CASE j \in DOMAIN works /\ works'[j] = works[j]
    BY <1>3, <2>2 DEF RowsTrue
  <2> QED BY <2>1, <2>2, AnsweredWorks
<1> QED BY <1>1, <1>4 DEF RowsTrue

\* A batch that is left alone.
LEMMA BatchStays ==
  ASSUME NEW d \in DOMAIN batches, BatchTrue(d), saves \subseteq saves', title' = title, editions' = editions,
         batches'[d].step = batches[d].step, batches'[d].ticked = batches[d].ticked,
         batches'[d].todo = batches[d].todo, batches'[d].author = batches[d].author,
         batches'[d].read = batches[d].read, batches'[d].stale = batches[d].stale
  PROVE  BatchTrue(d)'
<1>1. \A w : Has(saves, w) \subseteq Has(saves', w)
  BY AuthorsStay
<1>2. batches'[d].step # "failed" =>
       \A w \in batches'[d].ticked : \/ \E r \in batches'[d].todo : r[2] = w
                                     \/ batches'[d].author \in Has(saves', w)
  BY <1>1 DEF BatchTrue
<1>3. batches'[d].step = "refused" =>
       \E s \in saves' : s[2] = UF!First(batches'[d].todo)[2] /\ s[3] = batches'[d].author
  BY DEF BatchTrue
<1> QED BY <1>2, <1>3 DEF BatchTrue

\* A batch that is sent is to do all that differs.
LEMMA SubmittedTrue ==
  ASSUME TypeInv, RowsTrue, UF!Submit, NEW n, n = Len(batches) + 1
  PROVE  BatchTrue(n)'
<1>1. batches'[n] = NewBatch /\ UNCHANGED <<saves, editions, title>>
  BY BatchSent DEF UF!Submit, UF!server
<1>3. ASSUME NEW w \in NewBatch.ticked
      PROVE  (\E r \in NewBatch.todo : r[2] = w) \/ NewBatch.author \in Has(saves, w)
  <2>1. PICK i \in TickedRows : w = works[i].work
    BY DEF NewBatch
  <2>2. CASE i \in ChangedRows
    <3>1. <<i, works[i].work>> \in NewBatch.todo
      BY <2>2 DEF NewBatch
    <3> QED BY <2>1, <3>1
  <2>3. CASE i \notin ChangedRows
    <3>1. form.author \in works[i].authors
      BY <2>3 DEF ChangedRows, UF!Lacks
    <3> QED BY <2>1, <3>1 DEF NewBatch, RowsTrue, TickedRows
  <2> QED BY <2>2, <2>3
<1>4. ASSUME NEW r \in NewBatch.todo, NewBatch.author = UF!Existing PROVE r[2] # UF!Existing
  <2>1. PICK i \in ChangedRows : r = <<i, works[i].work>>
    BY DEF NewBatch
  <2>2. UF!Existing \notin works[i].authors
    BY <1>4, <2>1 DEF NewBatch, ChangedRows, UF!Lacks
  <2> QED BY <2>1, <2>2 DEF RowsTrue, ChangedRows, TickedRows
<1>5. n \notin editions'
  <2>1. n \notin DOMAIN batches
    BY BatchSent
  <2> QED BY <1>1, <2>1 DEF TypeInv, UF!TypeOK
<1>6. NewBatch.step = "sent"
  BY DEF NewBatch
<1> QED BY <1>1, <1>3, <1>4, <1>5, <1>6 DEF BatchTrue

\* The steps of the server.
LEMMA ReceivedTrue ==
  ASSUME TypeInv, NEW b \in DOMAIN batches, BatchTrue(b), UF!Receive(b)
  PROVE  BatchTrue(b)'
<1>1. batches'[b] = ReceivedOf(b) /\ batches[b] \in UF!Batch
  BY BatchChanged, BatchTypes
<1>2. UNCHANGED <<saves, editions, title>> /\ batches[b].step = "sent"
  BY DEF UF!Receive, UF!server
<1>3. /\ batches'[b].step = "open" /\ batches'[b].read = title /\ batches'[b].ticked = batches[b].ticked
      /\ batches'[b].todo = batches[b].todo /\ batches'[b].author = batches[b].author
  BY <1>1 DEF ReceivedOf, UF!Batch
<1> QED BY <1>2, <1>3 DEF BatchTrue

\* A work that was saved is no longer to be done, and old for the others.
LEMMA WorkSavedTrue ==
  ASSUME TypeInv, NEW b \in DOMAIN batches, UF!SaveWork(b), \A d \in DOMAIN batches : BatchTrue(d)
  PROVE  \A d \in DOMAIN batches : BatchTrue(d)'
<1> DEFINE row == UF!First(batches[b].todo)
           w == row[2]
           new == <<b, w, batches[b].author>>
<1>1. /\ row \in batches[b].todo /\ batches[b].step = "open" /\ saves' = saves \cup {new}
      /\ title' = IF w = UF!Existing THEN batches[b].read ELSE title
      /\ batches'[b] = SavedOf(b, row)
      /\ \A d \in DOMAIN batches : d # b => batches'[d] = Overtake(d, w)
  BY WorkSaved
<1>2. new[2] = w /\ new[3] = batches[b].author /\ editions' = editions
  BY DEF UF!SaveWork
<1>3. SavedOf(b, row) = [Overtake(b, w) EXCEPT !.todo = Overtake(b, w).todo \ {row}]
  BY DEF SavedOf
<1> HIDE DEF row, w, new
<1>4. \A v : Has(saves, v) \subseteq Has(saves', v)
  BY <1>1, AuthorsStay
<1>5. ASSUME NEW d \in DOMAIN batches
      PROVE  /\ batches'[d].author = batches[d].author /\ batches'[d].ticked = batches[d].ticked
             /\ batches'[d].todo = IF d = b THEN batches[d].todo \ {row} ELSE batches[d].todo
             /\ batches'[d].step = batches[d].step /\ batches'[d].read = batches[d].read
             /\ batches'[d].stale = (batches[d].stale \/ (w = UF!Existing /\ batches[d].step = "open"))
  <2> DEFINE o == Overtake(d, w)
  <2>1. /\ o \in UF!Batch
        /\ o.author = batches[d].author /\ o.ticked = batches[d].ticked /\ o.todo = batches[d].todo
        /\ o.step = batches[d].step /\ o.read = batches[d].read
        /\ o.stale = (batches[d].stale \/ (w = UF!Existing /\ batches[d].step = "open"))
    BY OvertakeType
  <2>2. batches'[d] = IF d = b THEN [o EXCEPT !.todo = o.todo \ {row}] ELSE o
    BY <1>1, <1>3
  <2> HIDE DEF o
  <2> QED BY <2>1, <2>2 DEF UF!Batch
<1>6. ASSUME NEW d \in DOMAIN batches PROVE BatchTrue(d)'
  <2>1. ASSUME batches'[d].step # "failed", NEW v \in batches'[d].ticked
        PROVE  (\E r \in batches'[d].todo : r[2] = v) \/ batches'[d].author \in Has(saves', v)
    <3>1. (\E r \in batches[d].todo : r[2] = v) \/ batches[d].author \in Has(saves, v)
      BY <1>5, <2>1 DEF BatchTrue
    <3>2. CASE batches[d].author \in Has(saves, v)
      BY <1>4, <1>5, <3>2
    <3>3. ASSUME NEW r \in batches[d].todo, r[2] = v
          PROVE  (\E q \in batches'[d].todo : q[2] = v) \/ batches'[d].author \in Has(saves', v)
      <4>1. CASE d = b /\ r = row
        <5>1. new \in saves' /\ new[2] = v /\ new[3] = batches'[d].author
          BY <1>1, <1>2, <1>5, <3>3, <4>1 DEF w
        <5> QED BY <5>1 DEF Has
      <4>2. CASE ~(d = b /\ r = row)
        BY <1>5, <3>3, <4>2
      <4> QED BY <4>1, <4>2
    <3> QED BY <3>1, <3>2, <3>3
  <2>0. BatchTrue(d) /\ batches'[d].todo \subseteq batches[d].todo
    BY <1>5
  <2>2. \A r \in batches'[d].todo : batches'[d].author = UF!Existing => r[2] # UF!Existing
    BY <1>5, <2>0 DEF BatchTrue
  <2>3. batches'[d].step = "refused" =>
          \E s \in saves' : s[2] = UF!First(batches'[d].todo)[2] /\ s[3] = batches'[d].author
    <3>1. CASE d = b
      BY <1>1, <1>5, <3>1
    <3>2. CASE d # b
      <4>1. /\ batches'[d].todo = batches[d].todo /\ batches'[d].author = batches[d].author
            /\ batches'[d].step = batches[d].step
        BY <1>5, <3>2
      <4>2. batches[d].step = "refused" =>
              \E s \in saves : s[2] = UF!First(batches[d].todo)[2] /\ s[3] = batches[d].author
        BY <2>0 DEF BatchTrue
      <4> QED BY <1>1, <4>1, <4>2
    <3> QED BY <3>1, <3>2
  <2>4. batches'[d].step = "saved" => batches'[d].todo = {}
    BY <1>5, <2>0 DEF BatchTrue
  <2>5. batches'[d].step = "open" /\ batches'[d].read # title' => batches'[d].stale
    BY <1>1, <1>5 DEF BatchTrue
  <2>6. d \in editions' <=> batches'[d].step = "saved"
    BY <1>2, <1>5 DEF BatchTrue
  <2> QED BY <2>1, <2>2, <2>3, <2>4, <2>5, <2>6 DEF BatchTrue
<1> QED BY <1>6

\* A batch is refused for what was done before.
LEMMA RefusedTrue ==
  ASSUME TypeInv, NEW b \in DOMAIN batches, BatchTrue(b), UF!RefuseWork(b)
  PROVE  BatchTrue(b)'
<1>1. batches'[b] = EndedOf(b, "refused") /\ batches[b] \in UF!Batch
  BY BatchChanged, BatchTypes
<1>2. UNCHANGED <<saves, editions, title>> /\ batches[b].step = "open" /\ batches[b].todo # {}
  BY DEF UF!RefuseWork, UF!server
<1>3. /\ batches'[b].step = "refused" /\ batches'[b].ticked = batches[b].ticked
      /\ batches'[b].todo = batches[b].todo /\ batches'[b].author = batches[b].author
  BY <1>1 DEF EndedOf, UF!Batch
<1> DEFINE row == UF!First(batches[b].todo)
<1>4. batches[b].author \in UF!AuthorsOf(row[2])
  BY DEF UF!RefuseWork
<1>5. row \in batches[b].todo
  BY <1>1, <1>2, FirstIsOne DEF UF!Batch
<1> HIDE DEF row
<1>6. ~(row[2] = UF!Existing /\ batches[b].author = UF!Existing)
  BY <1>5 DEF BatchTrue
<1>7. \E s \in saves : s[2] = row[2] /\ s[3] = batches[b].author
  BY <1>4, <1>6 DEF UF!AuthorsOf
<1> QED BY <1>2, <1>3, <1>7 DEF BatchTrue, row

\* The edition comes when nothing is left to do.
LEMMA EditionSavedTrue ==
  ASSUME TypeInv, NEW b \in DOMAIN batches, \A d \in DOMAIN batches : BatchTrue(d), UF!SaveEdition(b)
  PROVE  \A d \in DOMAIN batches : BatchTrue(d)'
<1>1. batches'[b] = EndedOf(b, "saved") /\ batches[b] \in UF!Batch
      /\ \A d \in DOMAIN batches : d # b => batches'[d] = batches[d]
  BY BatchChanged, BatchTypes
<1>2. UNCHANGED <<saves, title>> /\ editions' = editions \cup {b} /\ batches[b].step = "open" /\ batches[b].todo = {}
  BY DEF UF!SaveEdition, UF!Due
<1>3. /\ batches'[b].step = "saved" /\ batches'[b].ticked = batches[b].ticked
      /\ batches'[b].todo = {} /\ batches'[b].author = batches[b].author
  BY <1>1, <1>2 DEF EndedOf, UF!Batch
<1>4. BatchTrue(b)'
  BY <1>2, <1>3 DEF BatchTrue
<1>5. ASSUME NEW d \in DOMAIN batches, d # b PROVE BatchTrue(d)'
  BY <1>1, <1>2, <1>5 DEF BatchTrue
<1> QED BY <1>4, <1>5

LEMMA FailedTrue ==
  ASSUME TypeInv, NEW b \in DOMAIN batches, BatchTrue(b), UF!Fail(b)
  PROVE  BatchTrue(b)'
<1>1. batches'[b] = FailedOf(b) /\ batches[b] \in UF!Batch
  BY BatchChanged, BatchTypes
<1>2. UNCHANGED <<saves, editions, title>> /\ batches[b].step \in {"sent", "open"}
  BY DEF UF!Fail, UF!server
<1>3. batches'[b].step = "failed" /\ batches'[b].todo = {}
  BY <1>1 DEF FailedOf, EndedOf, UF!Batch
<1> QED BY <1>2, <1>3 DEF BatchTrue

LEMMA AnsweredTrue ==
  ASSUME TypeInv, NEW b \in DOMAIN batches, BatchTrue(b), UF!AnswerError(b) \/ UF!LoseAnswer(b) \/ UF!Answer(b)
  PROVE  BatchTrue(b)'
<1>1. batches'[b] = AnsweredOf(b) /\ batches[b] \in UF!Batch
  BY BatchChanged, BatchTypes
<1>2. UNCHANGED <<saves, editions, title>>
  BY DEF UF!AnswerError, UF!LoseAnswer, UF!Answer, UF!Excuse, UF!server
<1>3. /\ batches'[b].step = batches[b].step /\ batches'[b].ticked = batches[b].ticked
      /\ batches'[b].todo = batches[b].todo /\ batches'[b].author = batches[b].author
      /\ batches'[b].read = batches[b].read /\ batches'[b].stale = batches[b].stale
  BY <1>1 DEF AnsweredOf, UF!Batch
<1> QED BY <1>2, <1>3, BatchStays

\* Another editor makes what was fetched old.
LEMMA TitleEditedTrue ==
  ASSUME TypeInv, NEW d \in DOMAIN batches, BatchTrue(d), UF!EditTitle
  PROVE  BatchTrue(d)'
<1>1. UNCHANGED <<saves, editions>>
  BY DEF UF!EditTitle
<1> DEFINE o == Overtake(d, UF!Existing)
<1>2. /\ o.author = batches[d].author /\ o.ticked = batches[d].ticked /\ o.todo = batches[d].todo
      /\ o.step = batches[d].step /\ o.read = batches[d].read
      /\ o.stale = (batches[d].stale \/ (UF!Existing = UF!Existing /\ batches[d].step = "open"))
  BY OvertakeType
<1>3. batches'[d] = o
  BY TitleEdited
<1> HIDE DEF o
<1> QED BY <1>1, <1>2, <1>3 DEF BatchTrue

\* Steps that leave the batches as they are.
LEMMA NoBatchStep ==
  ASSUME TypeInv, NEW d \in DOMAIN batches, BatchTrue(d),
         saves \subseteq saves', title' = title, editions' = editions, batches' = batches
  PROVE  BatchTrue(d)'
BY BatchStays

LEMMA NextKeepsRows ==
  ASSUME TypeInv, RowsTrue, [UF!Next]_(UF!vars)
  PROVE  RowsTrue'
<1>1. CASE UF!PickAuthor \/ UF!PickGroup \/ UF!ReplaceGroup
  BY <1>1, RowsStay
     DEF UF!PickAuthor, UF!PickGroup, UF!ReplaceGroup, UF!ChooseGroup,
     UF!server
<1>2. CASE UF!PickWork \/ \E i \in DOMAIN works : UF!ChangeWork(i) \/ UF!RemoveWork(i) \/ UF!ToggleWork(i)
  BY <1>2, ChangeKeepsRows
<1>3. CASE (\E t \in Types : UF!OpenModal(t)) \/ \E i \in DOMAIN works : UF!DuplicateWork(i)
  BY <1>3, Opened, RowsStay DEF UF!server
<1>4. CASE UF!CloseModal \/ UF!SubmitModal
  BY <1>4, RowsStay DEF UF!CloseModal, UF!SubmitModal, UF!Close, UF!server
<1>5. CASE \E c \in calls : UF!AnswerCall(c) \/ UF!RefuseCall(c)
  BY <1>5, AnswerCallKeepsRows, RowsStay DEF UF!RefuseCall, UF!server
<1>6. CASE UF!Submit
  BY <1>6, RowsStay DEF UF!Submit, UF!server
<1>7. CASE \E b \in DOMAIN batches : UF!Serve(b) \/ UF!Fail(b)
  <2>1. works' = works /\ saves \subseteq saves'
    BY <1>7
       DEF UF!Serve, UF!Receive, UF!SaveWork, UF!RefuseWork,
       UF!SaveEdition, UF!Fail, UF!Served, UF!edition, UF!server
  <2> QED BY <2>1, RowsStay
<1>8. CASE \E b \in DOMAIN batches : UF!AnswerError(b) \/ UF!LoseAnswer(b)
  BY <1>8, RowsStay DEF UF!AnswerError, UF!LoseAnswer, UF!Excuse, UF!server
<1>9. CASE \E b \in DOMAIN batches : UF!Answer(b)
  BY <1>9 DEF UF!Answer, RowsTrue
<1>10. CASE UF!EditTitle
  BY <1>10, RowsStay DEF UF!EditTitle, UF!edition
<1>11. CASE UNCHANGED UF!vars
  BY <1>11, RowsStay DEF UF!vars, UF!edition, UF!server
<1> QED BY <1>1, <1>2, <1>3, <1>4, <1>5, <1>6, <1>7, <1>8, <1>9, <1>10, <1>11 DEF UF!Next

LEMMA NextKeepsBatches ==
  ASSUME TypeInv, RowsTrue, \A b \in DOMAIN batches : BatchTrue(b), [UF!Next]_(UF!vars)
  PROVE  \A b \in DOMAIN batches' : BatchTrue(b)'
<1>0. ASSUME saves \subseteq saves', title' = title, editions' = editions, batches' = batches
      PROVE  \A b \in DOMAIN batches' : BatchTrue(b)'
  BY <1>0, NoBatchStep
<1>1. CASE UF!PickAuthor \/ UF!PickGroup \/ UF!ReplaceGroup
  BY <1>0, <1>1
     DEF UF!PickAuthor, UF!PickGroup, UF!ReplaceGroup, UF!ChooseGroup,
     UF!server
<1>2. CASE UF!PickWork \/ \E i \in DOMAIN works : UF!ChangeWork(i) \/ UF!RemoveWork(i) \/ UF!ToggleWork(i)
  BY <1>0, <1>2, ChangedWorks DEF UF!server
<1>3. CASE (\E t \in Types : UF!OpenModal(t)) \/ \E i \in DOMAIN works : UF!DuplicateWork(i)
  BY <1>0, <1>3, Opened DEF UF!server
<1>4. CASE UF!CloseModal \/ UF!SubmitModal
  BY <1>0, <1>4 DEF UF!CloseModal, UF!SubmitModal, UF!Close, UF!server
<1>5. CASE \E c \in calls : UF!AnswerCall(c) \/ UF!RefuseCall(c)
  BY <1>0, <1>5, AnswerCallKeepsRows DEF UF!AnswerCall, UF!RefuseCall, UF!server
<1>6. CASE UF!Submit
  <2>1. /\ \A d \in DOMAIN batches' : d \in DOMAIN batches \/ d = Len(batches) + 1
        /\ \A d \in DOMAIN batches : batches'[d] = batches[d]
    BY <1>6, BatchSent
  <2>2. UNCHANGED <<saves, editions, title>>
    BY <1>6 DEF UF!Submit, UF!server
  <2>3. \A d \in DOMAIN batches : BatchTrue(d)'
    BY <2>1, <2>2, BatchStays
  <2>4. \A d : d = Len(batches) + 1 => BatchTrue(d)'
    BY <1>6, SubmittedTrue
  <2> QED BY <2>1, <2>3, <2>4
<1>7. ASSUME NEW b \in DOMAIN batches,
             \/ UF!Receive(b) \/ UF!RefuseWork(b) \/ UF!Fail(b)
             \/ UF!AnswerError(b) \/ UF!LoseAnswer(b) \/ UF!Answer(b)
      PROVE  \A d \in DOMAIN batches' : BatchTrue(d)'
  <2>1. DOMAIN batches' = DOMAIN batches /\ \A d \in DOMAIN batches : d # b => batches'[d] = batches[d]
    BY <1>7, BatchChanged
  <2>2. BatchTrue(b)'
    BY <1>7, ReceivedTrue, RefusedTrue, FailedTrue, AnsweredTrue
  <2>3. UNCHANGED <<saves, editions, title>>
    BY <1>7
       DEF UF!Receive, UF!RefuseWork, UF!Fail, UF!AnswerError,
       UF!LoseAnswer, UF!Answer, UF!Excuse, UF!server
  <2>4. \A d \in DOMAIN batches : d # b => BatchTrue(d)'
    BY <2>1, <2>3, BatchStays
  <2> QED BY <2>1, <2>2, <2>4
<1>8. ASSUME NEW b \in DOMAIN batches, UF!SaveWork(b) \/ UF!SaveEdition(b)
      PROVE  \A d \in DOMAIN batches' : BatchTrue(d)'
  BY <1>8, BatchChanged, WorkSaved, WorkSavedTrue, EditionSavedTrue
<1>10. CASE UF!EditTitle
  BY <1>10, TitleEdited, TitleEditedTrue
<1>11. CASE UNCHANGED UF!vars
  BY <1>0, <1>11 DEF UF!vars, UF!server
<1> QED BY <1>1, <1>2, <1>3, <1>4, <1>5, <1>6, <1>7, <1>8, <1>10, <1>11
   DEF UF!Next, UF!Serve

----------------------------------------------------------------------------
(* How many editions there are.                                            *)

\* There are finitely many.
LEMMA PendingFinite ==
  ASSUME TypeInv
  PROVE  IsFiniteSet(Pending) /\ Cardinality(Pending) \in Nat
<1>1. Len(batches) \in Nat /\ DOMAIN batches = 1 .. Len(batches)
  BY DEF TypeInv, UF!TypeOK
<1>2. IsFiniteSet(1 .. Len(batches))
  BY <1>1, FS_Interval
<1>3. Pending \subseteq 1 .. Len(batches)
  BY <1>1 DEF Pending
<1> QED BY <1>2, <1>3, FS_Subset, FS_CardinalityType

\* No more are pending, and if the form is enabled now, that was counted.
LEMMA CountedStays ==
  ASSUME TypeInv, TypeInv', Counted, Pending' \subseteq Pending,
         lost \in Nat, cleared \in Nat, lost' \in Nat, cleared' \in Nat,
         lost + cleared + Disabled <= lost' + cleared' + Disabled'
  PROVE  Counted'
<1>1. IsFiniteSet(Pending) /\ Cardinality(Pending) \in Nat
  BY PendingFinite
<1> DEFINE p == Pending'
<1>2. p \subseteq Pending
  OBVIOUS
<1> HIDE DEF p
<1>3. Cardinality(p) <= Cardinality(Pending) /\ Cardinality(p) \in Nat
  BY <1>1, <1>2, FS_Subset, FS_CardinalityType
<1>4. Disabled \in Nat /\ Disabled' \in Nat
  BY DEF Disabled
<1>5. Cardinality(Pending) <= lost + cleared + Disabled
  BY DEF Counted
<1>6. \A n, m, l \in Int : n <= m /\ m <= l => n <= l
  OBVIOUS
<1>7. Cardinality(p) <= lost' + cleared' + Disabled'
  <2> DEFINE now   == lost + cleared + Disabled
             after == lost' + cleared' + Disabled'
  <2>s. \A a, b, c \in Nat : a + b + c \in Int
    OBVIOUS
  <2>1. now \in Int /\ after \in Int
    BY <1>4, <2>s
  <2>t. now <= after
    OBVIOUS
  <2>2. Cardinality(Pending) <= now
    BY <1>5
  <2>3. Cardinality(p) \in Int /\ Cardinality(Pending) \in Int
    BY <1>1, <1>3
  <2> HIDE DEF now, after
  <2>4. Cardinality(p) <= now
    BY <1>3, <1>6, <2>1, <2>2, <2>3
  <2>5. Cardinality(p) <= after
    BY <1>6, <2>1, <2>3, <2>4, <2>t
  <2> QED BY <2>5 DEF after
<1> QED BY <1>7 DEF Counted, p

\* The form of the page is as it was, or was enabled for a reason that is counted.
LEMMA Sums ==
  /\ \A k, a, d, b, e \in Nat : a + d <= b + e => k + a + d <= k + b + e
  /\ \A k, a, d, e \in Nat : d <= 1 + e => k + a + d <= (k + 1) + a + e
  /\ \A n, m, k, a, d, e \in Nat : n <= m - 1 /\ m <= k + a + d /\ d <= 1 + e => n <= k + a + e
OBVIOUS

\* Each step that enables the form is counted.
LEMMA NextKeepsCount ==
  ASSUME TypeInv, TypeInv', Counted, [UF!Next]_(UF!vars)
  PROVE  Counted'
<1>0. lost \in Nat /\ cleared \in Nat /\ lost' \in Nat /\ cleared' \in Nat
  BY DEF TypeInv, UF!TypeOK
<1>t. form \in UF!Form /\ form.submitted \in BOOLEAN
  BY DEF TypeInv, UF!TypeOK, UF!Form
<1>a. ASSUME Pending' \subseteq Pending, lost' = lost, cleared' = cleared,
             left' = left, Draft'.submitted = Draft.submitted
      PROVE  Counted'
  <2>1. Disabled' = Disabled /\ Disabled \in Nat
    BY <1>a DEF Disabled
  <2>2. lost + cleared + Disabled <= lost' + cleared' + Disabled'
    BY <1>0, <1>a, <2>1
  <2> QED BY <1>0, <1>a, <2>2, CountedStays
<1>b. ASSUME batches' = batches PROVE Pending' = Pending
  BY <1>b DEF Pending
<1>1. CASE UF!PickAuthor \/ UF!PickGroup \/ UF!ReplaceGroup
  <2>1. UNCHANGED <<batches, left, lost, cleared, modal, dumped>> /\ modal = None
    BY <1>1
       DEF UF!PickAuthor, UF!PickGroup, UF!ReplaceGroup, UF!ChooseGroup,
       UF!Choose, UF!Idle
  <2>2. form'.submitted = form.submitted
    BY <1>1, <1>t
       DEF UF!PickAuthor, UF!PickGroup, UF!ReplaceGroup, UF!ChooseGroup,
       UF!Form
  <2> QED BY <1>a, <1>b, <2>1, <2>2 DEF Draft
<1>2. CASE UF!PickWork \/ \E i \in DOMAIN works : UF!ChangeWork(i) \/ UF!RemoveWork(i) \/ UF!ToggleWork(i)
  BY <1>2, <1>a, <1>b, ChangedWorks DEF Draft, UF!history
<1>3. CASE (\E t \in Types : UF!OpenModal(t)) \/ \E i \in DOMAIN works : UF!DuplicateWork(i)
  BY <1>3, <1>a, <1>b, Opened DEF Draft, UF!history
<1>4. CASE UF!CloseModal \/ UF!SubmitModal
  <2>1. modal # None /\ modal' = None /\ form' = UF!Loaded /\ UNCHANGED <<left, batches, lost, cleared>>
    BY <1>4
       DEF UF!CloseModal, UF!SubmitModal, UF!Close, UF!history,
       UF!bounds
  <2> QED BY <1>a, <1>b, <2>1, LoadedType DEF Draft
<1>5. ASSUME NEW c \in calls, UF!AnswerCall(c) \/ UF!RefuseCall(c) PROVE Counted'
  <2>1. /\ UNCHANGED <<left, batches, lost, modal, dumped>>
        /\ cleared' = IF form.submitted THEN cleared + 1 ELSE cleared
        /\ Pending' = Pending
    BY <1>5, <1>b DEF UF!AnswerCall, UF!RefuseCall, UF!bounds
  <2>2. cleared + Disabled <= cleared' + Disabled' /\ Disabled \in Nat /\ Disabled' \in Nat
    <3>1. CASE modal = None
      BY <1>0, <2>1, <3>1 DEF Disabled, Draft
    <3>2. CASE modal # None
      BY <1>0, <2>1, <3>2 DEF Disabled, Draft
    <3> QED BY <3>1, <3>2
  <2>3. lost' = lost
    BY <2>1
  <2>4. lost + cleared + Disabled <= lost + cleared' + Disabled'
    BY <1>0, <2>2, Sums
  <2> QED BY <1>0, <2>1, <2>3, <2>4, CountedStays
<1>6. CASE UF!Submit
  <2>1. Disabled = 0 /\ Disabled' = 1
    BY <1>6, <1>t
       DEF UF!Submit, UF!Idle, UF!Enabled, Disabled, Draft, UF!Form,
       TypeInv, UF!TypeOK
  <2>2. UNCHANGED <<lost, cleared>>
    BY <1>6 DEF UF!Submit, UF!history, UF!bounds
  <2>3. Pending' \subseteq Pending \cup {Len(batches) + 1}
    BY <1>6, BatchSent DEF Pending
  <2>4. IsFiniteSet(Pending) /\ Cardinality(Pending) \in Nat
    BY PendingFinite
  <2> DEFINE n == Len(batches) + 1
             p == Pending'
  <2>5. p \subseteq Pending \cup {n}
    BY <2>3
  <2> HIDE DEF n, p
  <2>6. /\ IsFiniteSet(Pending \cup {n})
        /\ Cardinality(Pending \cup {n}) <= Cardinality(Pending) + 1
        /\ Cardinality(Pending \cup {n}) \in Nat
    <3>1. /\ IsFiniteSet(Pending \cup {n})
          /\ \/ Cardinality(Pending \cup {n}) = Cardinality(Pending)
             \/ Cardinality(Pending \cup {n}) = Cardinality(Pending) + 1
      BY <2>4, FS_AddElement
    <3>2. Cardinality(Pending \cup {n}) \in Nat
      BY <3>1, FS_CardinalityType
    <3> QED BY <2>4, <3>1, <3>2
  <2>7. Cardinality(p) <= Cardinality(Pending \cup {n}) /\ Cardinality(p) \in Nat
    BY <2>5, <2>6, FS_Subset, FS_CardinalityType
  <2>8. Cardinality(Pending) <= lost + cleared
    BY <1>0, <2>1 DEF Counted
  <2>9. Cardinality(p) <= lost' + cleared' + 1
    BY <1>0, <2>2, <2>4, <2>6, <2>7, <2>8
  <2> QED BY <2>1, <2>9 DEF Counted, p
<1>7. ASSUME NEW b \in DOMAIN batches, UF!Serve(b) \/ UF!Fail(b) PROVE Counted'
  <2>1. UNCHANGED <<form, dumped, modal, left, lost, cleared>>
    BY <1>7
       DEF UF!Serve, UF!Receive, UF!SaveWork, UF!RefuseWork,
       UF!SaveEdition, UF!Fail, UF!Served, UF!edition, UF!history
  <2>2. CASE UF!SaveWork(b)
    <3>1. ASSUME NEW d \in DOMAIN batches
          PROVE  batches'[d].step = batches[d].step /\ batches'[d].waiting = batches[d].waiting
      <4> DEFINE w == UF!First(batches[b].todo)[2]
                 o == Overtake(d, w)
      <4>1. o \in UF!Batch /\ o.step = batches[d].step /\ o.waiting = batches[d].waiting
        BY OvertakeType
      <4>2. d # b => batches'[d] = o
        BY <2>2, WorkSaved
      <4>3. d = b => batches'[d] = [o EXCEPT !.todo = o.todo \ {UF!First(batches[b].todo)}]
        BY <2>2, WorkSaved DEF SavedOf
      <4> HIDE DEF o
      <4> QED BY <4>1, <4>2, <4>3 DEF UF!Batch
    <3>2. DOMAIN batches' = DOMAIN batches
      BY <2>2, WorkSaved
    <3>3. Pending' \subseteq Pending
      BY <3>1, <3>2 DEF Pending
    <3> QED BY <1>a, <2>1, <3>3 DEF Draft
  <2>3. CASE ~UF!SaveWork(b)
    <3>1. /\ DOMAIN batches' = DOMAIN batches
          /\ \A d \in DOMAIN batches : d # b => batches'[d] = batches[d]
      BY <1>7, <2>3, BatchChanged DEF UF!Serve
    <3>2a. batches[b].step \in {"sent", "open"}
      BY <1>7, <2>3
         DEF UF!Serve, UF!Receive, UF!RefuseWork, UF!SaveEdition,
         UF!Fail
    <3>2b. batches'[b] \in {ReceivedOf(b), EndedOf(b, "refused"), EndedOf(b, "saved"), FailedOf(b)}
      BY <1>7, <2>3, BatchChanged DEF UF!Serve
    <3>2c. batches[b] \in UF!Batch
      BY BatchTypes
    <3>2d. ASSUME NEW step PROVE EndedOf(b, step).waiting = batches[b].waiting
      BY <3>2c DEF EndedOf, UF!Batch
    <3>2e. ReceivedOf(b).waiting = batches[b].waiting
      BY <3>2c DEF ReceivedOf, UF!Batch
    <3>2f. FailedOf(b).waiting = batches[b].waiting
      BY <3>2c DEF FailedOf, EndedOf, UF!Batch
    <3>2. batches'[b].waiting = batches[b].waiting /\ batches[b].step \in {"sent", "open"}
      BY <3>2a, <3>2b, <3>2d, <3>2e, <3>2f
    <3>3. Pending' \subseteq Pending
      BY <3>1, <3>2 DEF Pending
    <3> QED BY <1>a, <2>1, <3>3 DEF Draft
  <2> QED BY <2>2, <2>3
<1>8. ASSUME NEW b \in DOMAIN batches, UF!AnswerError(b) \/ UF!LoseAnswer(b) \/ UF!Answer(b) PROVE Counted'
  <2>1. /\ DOMAIN batches' = DOMAIN batches
        /\ \A d \in DOMAIN batches : d # b => batches'[d] = batches[d]
        /\ batches'[b].step = batches[b].step /\ batches'[b].waiting = FALSE
        /\ batches[b].waiting
    BY <1>8, BatchChanged, BatchTypes
       DEF AnsweredOf, UF!Batch, UF!AnswerError, UF!LoseAnswer, UF!Answer,
       UF!Excuse
  <2>2. Pending' \subseteq Pending
    BY <2>1 DEF Pending
  <2>3. CASE UF!LoseAnswer(b)
    <3>1. lost' = lost + 1 /\ cleared' = cleared
      BY <2>3 DEF UF!LoseAnswer, UF!Excuse
    <3>2. Disabled <= 1 + Disabled' /\ Disabled \in Nat /\ Disabled' \in Nat
      BY DEF Disabled
    <3>3. lost + cleared + Disabled <= (lost + 1) + cleared + Disabled'
      BY <1>0, <3>2, Sums
    <3> QED BY <1>0, <2>2, <3>1, <3>3, CountedStays
  <2>4. CASE UF!Answer(b)
    <3>1. lost' = lost /\ cleared' = cleared /\ left'
      BY <2>4 DEF UF!Answer, UF!bounds
    <3>2. Disabled' = 1 /\ Disabled <= 1 /\ Disabled \in Nat
      BY <3>1 DEF Disabled
    <3>3. lost + cleared + Disabled <= lost' + cleared' + Disabled'
      BY <1>0, <3>1, <3>2
    <3> QED BY <1>0, <2>2, <3>3, CountedStays
  <2>5. CASE UF!AnswerError(b)
    <3>1. /\ lost' = lost /\ cleared' = cleared /\ left' = left /\ modal' = modal /\ dumped' = dumped
          /\ batches[b].step \in {"refused", "failed"} /\ form' = UF!Reenabled
      BY <2>5 DEF UF!AnswerError, UF!Excuse
    <3>2. Pending' \subseteq Pending \ {b} /\ b \in Pending
      BY <2>1, <3>1 DEF Pending
    <3>3. IsFiniteSet(Pending) /\ Cardinality(Pending) \in Nat
      BY PendingFinite
    <3> DEFINE p == Pending'
    <3>4. p \subseteq Pending \ {b}
      BY <3>2
    <3> HIDE DEF p
    <3>5. /\ IsFiniteSet(Pending \ {b})
          /\ Cardinality(Pending \ {b}) = Cardinality(Pending) - 1
      BY <3>2, <3>3, FS_RemoveElement
    <3>6. Cardinality(p) <= Cardinality(Pending \ {b}) /\ Cardinality(p) \in Nat
      BY <3>4, <3>5, FS_Subset, FS_CardinalityType
    <3>7. Disabled <= 1 + Disabled' /\ Disabled \in Nat /\ Disabled' \in Nat
      BY DEF Disabled
    <3>8. Cardinality(Pending) <= lost + cleared + Disabled
      BY DEF Counted
    <3>9. Cardinality(p) <= Cardinality(Pending) - 1
      BY <3>5, <3>6
    <3>10. Cardinality(p) <= lost + cleared + Disabled'
      BY <1>0, <3>3, <3>6, <3>7, <3>8, <3>9, Sums
    <3> QED BY <3>1, <3>10 DEF Counted, p
  <2> QED BY <1>8, <2>3, <2>4, <2>5
<1>9. CASE UF!EditTitle
  <2>1. UNCHANGED <<form, dumped, modal, left, lost, cleared>>
    BY <1>9 DEF UF!EditTitle, UF!edition, UF!history
  <2>2. ASSUME NEW d \in DOMAIN batches
        PROVE  batches'[d].step = batches[d].step /\ batches'[d].waiting = batches[d].waiting
    <3> DEFINE o == Overtake(d, UF!Existing)
    <3>1. batches'[d] = o
      BY <1>9, TitleEdited
    <3>2. o.step = batches[d].step /\ o.waiting = batches[d].waiting
      BY OvertakeType
    <3> QED BY <3>1, <3>2
  <2>3. DOMAIN batches' = DOMAIN batches
    BY <1>9, TitleEdited
  <2>4. Pending' \subseteq Pending
    BY <2>2, <2>3 DEF Pending
  <2> QED BY <1>a, <2>1, <2>4 DEF Draft
<1>10. CASE UNCHANGED UF!vars
  BY <1>10, <1>a, <1>b DEF UF!vars, UF!edition, UF!history, UF!bounds, Draft
<1> QED BY <1>1, <1>2, <1>3, <1>4, <1>5, <1>6, <1>7, <1>8, <1>9, <1>10 DEF UF!Next

\* The invariant is inductive,
LEMMA NextKeepsBatchInv ==
  BatchInv /\ [UF!Next]_(UF!vars) => BatchInv'
<1> SUFFICES ASSUME BatchInv, [UF!Next]_(UF!vars) PROVE BatchInv'
  OBVIOUS
<1>1. TypeInv'
  BY NextKeepsTypes DEF BatchInv
<1> QED BY <1>1, NextKeepsRows, NextKeepsBatches, NextKeepsCount DEF BatchInv

\* and says of the batches what they promise.
LEMMA BatchInvGives ==
  BatchInv => UF!OneEdition /\ UF!WholeBatch /\ UF!RefusedOnlyAgain
<1> SUFFICES ASSUME BatchInv PROVE UF!OneEdition /\ UF!WholeBatch /\ UF!RefusedOnlyAgain
  OBVIOUS
<1>1. TypeInv /\ Counted /\ \A b \in DOMAIN batches : BatchTrue(b)
  BY DEF BatchInv
<1>2. editions \subseteq DOMAIN batches
  BY <1>1 DEF TypeInv, UF!TypeOK
<1>3. UF!OneEdition
  <2>1. editions \subseteq Pending
    BY <1>1, <1>2 DEF BatchTrue, Pending
  <2>2. IsFiniteSet(Pending) /\ Cardinality(Pending) \in Nat
    BY <1>1, PendingFinite
  <2>3. Cardinality(editions) <= Cardinality(Pending) /\ Cardinality(editions) \in Nat
    BY <2>1, <2>2, FS_Subset, FS_CardinalityType
  <2>4. lost \in Nat /\ cleared \in Nat
    BY <1>1 DEF TypeInv, UF!TypeOK
  <2>5. Cardinality(Pending) <= lost + cleared + 1
    BY <1>1, <2>2, <2>4 DEF Counted, Disabled
  <2>6. UF!Cardinality(editions) = Cardinality(editions)
    BY DEF UF!Cardinality, Cardinality
  <2> QED BY <2>2, <2>3, <2>4, <2>5, <2>6 DEF UF!OneEdition
<1>4. UF!WholeBatch
  BY <1>1, <1>2 DEF BatchTrue, UF!WholeBatch, UF!AuthorsOf, Has
<1>5. UF!RefusedOnlyAgain
  BY <1>1 DEF BatchTrue, UF!RefusedOnlyAgain
<1> QED BY <1>3, <1>4, <1>5

\* A title that was overwritten was known to be old.
TitleStep ==
  title' # title =>
    \/ edits' # edits
    \/ \E b \in DOMAIN batches : batches[b].stale /\ batches'[b].todo # batches[b].todo

\* From it, no step puts an old title back unknown.
LEMMA NextKeepsTitle ==
  BatchInv /\ [UF!Next]_(UF!vars) => TitleStep
<1> SUFFICES ASSUME BatchInv, [UF!Next]_(UF!vars), title' # title PROVE TitleStep
  BY DEF TitleStep
<1>1. TypeInv /\ \A b \in DOMAIN batches : BatchTrue(b)
  BY DEF BatchInv
<1>2. CASE UF!EditTitle
  <2>1. edits' = edits + 1 /\ edits \in Nat
    BY <1>1, <1>2, TitleEdited DEF TypeInv, UF!TypeOK
  <2> QED BY <2>1 DEF TitleStep
<1>3. ASSUME NEW b \in DOMAIN batches, UF!SaveWork(b) PROVE TitleStep
  <2> DEFINE row == UF!First(batches[b].todo)
             o == Overtake(b, row[2])
  <2>1. /\ row \in batches[b].todo /\ batches[b].step = "open"
        /\ title' = IF row[2] = UF!Existing THEN batches[b].read ELSE title
        /\ batches'[b] = [o EXCEPT !.todo = o.todo \ {row}]
    BY <1>1, <1>3, WorkSaved DEF SavedOf
  <2>2. o \in UF!Batch /\ o.todo = batches[b].todo
    BY <1>1, OvertakeType
  <2> HIDE DEF o, row
  <2>3. batches'[b].todo = batches[b].todo \ {row}
    BY <2>1, <2>2 DEF UF!Batch
  <2>4. batches[b].stale
    BY <1>1, <2>1 DEF BatchTrue
  <2> QED BY <2>1, <2>3, <2>4 DEF TitleStep
<1>4. CASE ~UF!EditTitle /\ ~\E b \in DOMAIN batches : UF!SaveWork(b)
  <2>1. title' = title
    <3>1. CASE UF!PickAuthor \/ UF!PickGroup \/ UF!ReplaceGroup \/ UF!PickWork \/ UF!CloseModal \/ UF!SubmitModal \/ UF!Submit
      BY <3>1
         DEF UF!PickAuthor, UF!PickGroup, UF!ReplaceGroup, UF!ChooseGroup,
         UF!PickWork, UF!ChangeWorks,
                  UF!CloseModal, UF!SubmitModal, UF!Close, UF!Submit, UF!server
    <3>2. CASE \E i \in DOMAIN works : UF!ChangeWork(i) \/ UF!RemoveWork(i) \/ UF!ToggleWork(i) \/ UF!DuplicateWork(i)
      BY <3>2
         DEF UF!ChangeWork, UF!RemoveWork, UF!ToggleWork,
         UF!DuplicateWork, UF!ChangeWorks, UF!Open, UF!server
    <3>3. CASE (\E t \in Types : UF!OpenModal(t)) \/ \E c \in calls : UF!AnswerCall(c) \/ UF!RefuseCall(c)
      BY <3>3
         DEF UF!OpenModal, UF!Open, UF!AnswerCall, UF!RefuseCall,
         UF!server
    <3>4. CASE \E b \in DOMAIN batches :
                 \/ UF!Receive(b) \/ UF!RefuseWork(b) \/ UF!SaveEdition(b) \/ UF!Fail(b)
                 \/ UF!AnswerError(b) \/ UF!LoseAnswer(b) \/ UF!Answer(b)
      BY <3>4
         DEF UF!Receive, UF!RefuseWork, UF!SaveEdition, UF!Fail,
         UF!AnswerError, UF!LoseAnswer, UF!Answer, UF!Excuse, UF!server
    <3>5. CASE UNCHANGED UF!vars
      BY <3>5 DEF UF!vars, UF!server
    <3> QED BY <1>4, <3>1, <3>2, <3>3, <3>4, <3>5 DEF UF!Next, UF!Serve
  <2> QED BY <2>1
<1> QED BY <1>2, <1>3, <1>4

\* The form creates one edition, one more for each answer that got lost and each time
\* the answer to a modal turned its button on; an edition that is there has its works; a
\* batch is refused only for what was saved already; and a title another editor gave is
\* overwritten only by what was known of the work when the batch was received.
THEOREM BatchesDoWhatTheySay ==
  UF!Spec => BatchesHold
<1>1. UF!Init => BatchInv
  BY InitBatchInv
<1>2. BatchInv /\ [UF!Next]_(UF!vars) => BatchInv'
  BY NextKeepsBatchInv
<1>3. BatchInv => UF!OneEdition /\ UF!WholeBatch /\ UF!RefusedOnlyAgain
  BY BatchInvGives
<1>4. BatchInv /\ [UF!Next]_(UF!vars) => [TitleStep]_(UF!vars)
  BY NextKeepsTitle
<1>5. UF!Spec => []BatchInv /\ [][UF!Next]_(UF!vars)
  BY <1>1, <1>2, PTL DEF UF!Spec
<1>6. UF!Spec => [][TitleStep]_(UF!vars)
  BY <1>4, <1>5, PTL
<1>7. UF!Spec => []UF!OneEdition /\ []UF!WholeBatch /\ []UF!RefusedOnlyAgain
  BY <1>3, <1>5, PTL
<1>8. UF!Spec => UF!TitleKept
  BY <1>6 DEF UF!TitleKept, TitleStep
<1> QED BY <1>7, <1>8 DEF BatchesHold

----------------------------------------------------------------------------
(* The slices that forms share.                                            *)

\* Whose entity is shown, and that a group that was not touched has no author.
Named ==
  /\ Draft.name = UF!EditionName
  /\ modal # None => form.name = modal.n
  /\ modal # None /\ modal.type = "editionGroup" /\ modal.n \notin mixed => form.author = None
  /\ UF!PostsItsOwn

\* The edition is as it was wanted, also when it is taken back.
TakenBack == IF modal = None THEN form.group ELSE UF!Loaded.group
AsWanted ==
  /\ Draft.author = wanted.author /\ Draft.publishers = wanted.publishers
  /\ TakenBack = wanted.group \/ (givenUp /\ TakenBack = group0)
  /\ group0 # None => givenUp \/ group0 = wanted.group

\* The button says whether an answer is awaited, and two are only when it was turned on.
SomeWait == \E b \in DOMAIN batches : batches[b].waiting
Flagged ==
  ~left =>
    /\ Draft.submitted => SomeWait \/ strayed
    /\ SomeWait => Draft.submitted \/ cleared > 0
    /\ \A b, d \in DOMAIN batches : batches[b].waiting /\ batches[d].waiting /\ b # d => cleared > 0

SlicesInv == TypeInv /\ Named /\ AsWanted /\ Flagged

\* It holds at the start.
LEMMA InitSlices ==
  UF!Init => SlicesInv
<1> SUFFICES ASSUME UF!Init PROVE SlicesInv
  OBVIOUS
<1>1. TypeInv
  BY InitTypes
<1>2. DOMAIN batches = {} /\ calls = {} /\ modal = None /\ group0 = None /\ form = UF!FirstForm /\ wanted = UF!FirstWanted
  BY DEF UF!Init
<1>3. Named
  BY <1>2 DEF Named, Draft, UF!FirstForm, UF!PostsItsOwn
<1>4. AsWanted
  BY <1>2 DEF AsWanted, Draft, TakenBack, UF!FirstForm, UF!FirstWanted
<1>5. Flagged
  BY <1>2 DEF Flagged, Draft, SomeWait, UF!FirstForm
<1> QED BY <1>1, <1>3, <1>4, <1>5 DEF SlicesInv

\* A server that works leaves the page alone; so do other editors.
LEMMA AwayKeepsSlices ==
  ASSUME SlicesInv, UNCHANGED <<form, dumped, group0, modal, calls, left, wanted, givenUp, mixed, strayed, cleared>>,
         DOMAIN batches' = DOMAIN batches,
         \A d \in DOMAIN batches : batches'[d].waiting = batches[d].waiting /\ batches'[d].name = batches[d].name
  PROVE  Named' /\ AsWanted' /\ Flagged'
<1>1. Draft' = Draft /\ TakenBack' = TakenBack
  BY DEF Draft, TakenBack, UF!Loaded
<1>2. Named'
  BY <1>1 DEF SlicesInv, Named, UF!PostsItsOwn
<1>3. AsWanted'
  BY <1>1 DEF SlicesInv, AsWanted
<1>4. SomeWait' <=> SomeWait
  BY DEF SomeWait
<1>5. Flagged'
  BY <1>1, <1>4 DEF SlicesInv, Flagged
<1> QED BY <1>2, <1>3, <1>5

\* The server and other editors leave the page alone.
LEMMA ServeKeepsSlices ==
  ASSUME SlicesInv, NEW b \in DOMAIN batches, UF!Serve(b) \/ UF!Fail(b)
  PROVE  Named' /\ AsWanted' /\ Flagged'
<1>1. UNCHANGED <<form, dumped, group0, modal, calls, left, wanted, givenUp, mixed, strayed, cleared>>
  BY
     DEF UF!Serve, UF!Receive, UF!SaveWork, UF!RefuseWork,
     UF!SaveEdition, UF!Fail, UF!Served, UF!edition, UF!history
<1>t. TypeInv
  BY DEF SlicesInv
<1>2. CASE UF!SaveWork(b)
  <2>1. ASSUME NEW d \in DOMAIN batches
        PROVE  batches'[d].name = batches[d].name /\ batches'[d].waiting = batches[d].waiting
    <3> DEFINE w == UF!First(batches[b].todo)[2]
               o == Overtake(d, w)
    <3>1. o \in UF!Batch /\ o.name = batches[d].name /\ o.waiting = batches[d].waiting
      BY <1>t, OvertakeType
    <3>2. d # b => batches'[d] = o
      BY <1>t, <1>2, WorkSaved
    <3>3. d = b => batches'[d] = [o EXCEPT !.todo = o.todo \ {UF!First(batches[b].todo)}]
      BY <1>t, <1>2, WorkSaved DEF SavedOf
    <3> HIDE DEF o
    <3> QED BY <3>1, <3>2, <3>3 DEF UF!Batch
  <2>2. DOMAIN batches' = DOMAIN batches
    BY <1>t, <1>2, WorkSaved
  <2> QED BY <1>1, <2>1, <2>2, AwayKeepsSlices
<1>3. CASE ~UF!SaveWork(b)
  <2>1. /\ DOMAIN batches' = DOMAIN batches
        /\ \A d \in DOMAIN batches : d # b => batches'[d] = batches[d]
        /\ batches'[b] \in {ReceivedOf(b), EndedOf(b, "refused"), EndedOf(b, "saved"), FailedOf(b)}
    BY <1>t, <1>3, BatchChanged DEF UF!Serve
  <2>2. batches[b] \in UF!Batch
    BY <1>t, BatchTypes
  <2>3. ASSUME NEW step PROVE EndedOf(b, step).waiting = batches[b].waiting /\ EndedOf(b, step).name = batches[b].name
    BY <2>2 DEF EndedOf, UF!Batch
  <2>4. ReceivedOf(b).waiting = batches[b].waiting /\ ReceivedOf(b).name = batches[b].name
    BY <2>2 DEF ReceivedOf, UF!Batch
  <2>5. FailedOf(b).waiting = batches[b].waiting /\ FailedOf(b).name = batches[b].name
    BY <2>2 DEF FailedOf, EndedOf, UF!Batch
  <2>6. batches'[b].waiting = batches[b].waiting /\ batches'[b].name = batches[b].name
    BY <2>1, <2>3, <2>4, <2>5
  <2> QED BY <1>1, <2>1, <2>6, AwayKeepsSlices
<1> QED BY <1>2, <1>3

LEMMA EditKeepsSlices ==
  ASSUME SlicesInv, UF!EditTitle
  PROVE  Named' /\ AsWanted' /\ Flagged'
<1>t. TypeInv
  BY DEF SlicesInv
<1>1. UNCHANGED <<form, dumped, group0, modal, calls, left, wanted, givenUp, mixed, strayed, cleared>>
  BY DEF UF!EditTitle, UF!edition, UF!history
<1>2. ASSUME NEW d \in DOMAIN batches
      PROVE  batches'[d].name = batches[d].name /\ batches'[d].waiting = batches[d].waiting
  <2> DEFINE o == Overtake(d, UF!Existing)
  <2>1. batches'[d] = o
    BY <1>t, TitleEdited
  <2>2. o.name = batches[d].name /\ o.waiting = batches[d].waiting
    BY <1>t, OvertakeType
  <2> QED BY <2>1, <2>2
<1>3. DOMAIN batches' = DOMAIN batches
  BY <1>t, TitleEdited
<1> QED BY <1>1, <1>2, <1>3, AwayKeepsSlices

LEMMA StillKeepsSlices ==
  ASSUME SlicesInv, UNCHANGED <<form, dumped, group0, modal, calls, left, batches, UF!history>>
  PROVE  Named' /\ AsWanted' /\ Flagged'
<1>1. UNCHANGED <<wanted, givenUp, mixed, strayed, cleared>>
  BY DEF UF!history
<1> QED BY <1>1, AwayKeepsSlices

\* What is chosen for the edition is in it.
LEMMA ChooseKeepsSlices ==
  ASSUME SlicesInv, UF!PickAuthor \/ UF!PickGroup \/ UF!ReplaceGroup
  PROVE  Named' /\ AsWanted' /\ Flagged'
<1>1. /\ UF!Idle /\ UNCHANGED <<dumped, modal, calls, left, batches, mixed, strayed, cleared>>
  BY
     DEF UF!PickAuthor, UF!PickGroup, UF!ReplaceGroup, UF!ChooseGroup,
     UF!Choose
<1>t. form \in UF!Form /\ wanted \in [author : UF!Optional, group : UF!Optional, publishers : SUBSET UF!Entities]
  BY DEF SlicesInv, TypeInv, UF!TypeOK
<1>2. form'.name = form.name /\ form'.submitted = form.submitted /\ form'.publishers = form.publishers
      /\ wanted'.publishers = wanted.publishers
  BY <1>t
     DEF UF!PickAuthor, UF!PickGroup, UF!ReplaceGroup, UF!ChooseGroup,
     UF!Form
<1>3. Draft = form /\ Draft' = form' /\ TakenBack = form.group /\ TakenBack' = form'.group /\ modal = None /\ modal' = None
  BY <1>1 DEF Draft, TakenBack, UF!Idle
<1>4. Named'
  BY <1>1, <1>2, <1>3 DEF SlicesInv, Named, UF!PostsItsOwn
<1>5. Flagged'
  BY <1>1, <1>2, <1>3 DEF SlicesInv, Flagged, SomeWait
<1>6. CASE UF!PickAuthor
  <2>1. /\ form'.author = UF!Existing /\ form'.group = form.group
        /\ wanted'.author = UF!Existing /\ wanted'.group = wanted.group
        /\ UNCHANGED <<group0, givenUp>>
    BY <1>t, <1>6 DEF UF!PickAuthor, UF!Form
  <2> QED BY <1>2, <1>3, <1>4, <1>5, <2>1 DEF SlicesInv, AsWanted
<1>7. ASSUME NEW g, UF!ChooseGroup(g)
      PROVE  /\ form'.author = form.author /\ form'.group = g
             /\ wanted'.author = wanted.author /\ wanted'.group = g
  BY <1>t, <1>7 DEF UF!ChooseGroup, UF!Form
<1>8. CASE UF!PickGroup
  <2>1. form'.author = form.author /\ form'.group = wanted'.group /\ wanted'.author = wanted.author /\ group0' = None
    BY <1>7, <1>8 DEF UF!PickGroup
  <2> QED BY <1>2, <1>3, <1>4, <1>5, <2>1 DEF SlicesInv, AsWanted
<1>9. CASE UF!ReplaceGroup
  <2>1. form'.author = form.author /\ form'.group = wanted'.group /\ wanted'.author = wanted.author /\ group0' = group0
    BY <1>7, <1>9 DEF UF!ReplaceGroup
  <2>2. group0' # None => givenUp'
    BY <1>9 DEF UF!ReplaceGroup
  <2> QED BY <1>2, <1>3, <1>4, <1>5, <2>1, <2>2 DEF SlicesInv, AsWanted
<1> QED BY <1>6, <1>8, <1>9

\* A modal's form is blank, and the edition is not lost.
LEMMA OpenKeepsSlices ==
  ASSUME SlicesInv, (\E t \in Types : UF!OpenModal(t)) \/ \E i \in DOMAIN works : UF!DuplicateWork(i)
  PROVE  Named' /\ AsWanted' /\ Flagged'
<1>t. TypeInv
  BY DEF SlicesInv
<1>1. /\ modal = None /\ modal' # None /\ dumped' = form /\ form' = UF!Blank(modal'.n, modal'.type)
      /\ UNCHANGED <<group0, calls, left, batches, wanted, givenUp, mixed, strayed, cleared>>
  BY <1>t, Opened DEF UF!history
<1>2. Draft' = form /\ Draft = form
  BY <1>1 DEF Draft
<1>3. form'.name = modal'.n /\ (modal'.type = "editionGroup" => form'.author = None)
  BY <1>1 DEF UF!Blank
<1>4. Named'
  BY <1>1, <1>2, <1>3 DEF SlicesInv, Named, UF!PostsItsOwn
<1>5. Flagged'
  BY <1>1, <1>2 DEF SlicesInv, Flagged, SomeWait
<1>6. TakenBack = form.group /\ TakenBack' = IF group0 # None THEN group0 ELSE form.group
  <2>1. form \in UF!Form
    BY <1>t DEF TypeInv, UF!TypeOK
  <2>2. [form EXCEPT !.group = IF group0 # None THEN group0 ELSE form.group].group
          = IF group0 # None THEN group0 ELSE form.group
    BY <2>1 DEF UF!Form
  <2> QED BY <1>1, <2>2 DEF TakenBack, UF!Loaded
<1>7. AsWanted'
  BY <1>1, <1>2, <1>6 DEF SlicesInv, AsWanted
<1> QED BY <1>4, <1>5, <1>7

\* The edition is taken back, and a modal has posted its own.
LEMMA CloseKeepsSlices ==
  ASSUME SlicesInv, UF!CloseModal \/ UF!SubmitModal
  PROVE  Named' /\ AsWanted' /\ Flagged'
<1>t. TypeInv
  BY DEF SlicesInv
<1>1. /\ modal # None /\ modal' = None /\ form' = UF!Loaded
      /\ UNCHANGED <<group0, left, batches, wanted, givenUp, mixed, strayed, cleared>>
  BY DEF UF!CloseModal, UF!SubmitModal, UF!Close, UF!history, UF!bounds
<1>2. Draft = dumped /\ Draft' = UF!Loaded /\ TakenBack' = TakenBack /\ TakenBack = UF!Loaded.group
  BY <1>1 DEF Draft, TakenBack
<1>3. /\ UF!Loaded.author = dumped.author /\ UF!Loaded.submitted = dumped.submitted
      /\ UF!Loaded.name = dumped.name /\ UF!Loaded.publishers = dumped.publishers
  BY <1>t, <1>1, LoadedType
<1>4. ASSUME NEW c \in calls'
      PROVE  c.name = c.n /\ (c.type = "editionGroup" /\ c.n \notin mixed => c.author = None)
  <2>1. CASE c \in calls
    BY <2>1 DEF SlicesInv, Named, UF!PostsItsOwn
  <2>2. CASE c \notin calls
    <3>1. c = [n |-> modal.n, type |-> modal.type, name |-> form.name,
               author |-> form.author, authors |-> modal.authors]
      BY <2>2, <1>4 DEF UF!CloseModal, UF!SubmitModal, UF!Posted
    <3> QED BY <1>1, <3>1 DEF SlicesInv, Named
  <2> QED BY <2>1, <2>2
<1>5. Named'
  BY <1>1, <1>2, <1>3, <1>4 DEF SlicesInv, Named, UF!PostsItsOwn
<1>6. AsWanted'
  BY <1>1, <1>2, <1>3 DEF SlicesInv, AsWanted
<1>7. Flagged'
  BY <1>1, <1>2, <1>3 DEF SlicesInv, Flagged, SomeWait
<1> QED BY <1>5, <1>6, <1>7

\* The answer to a modal is for the edition, or for the modal that is open now.
LEMMA AnswerCallKeepsSlices ==
  ASSUME SlicesInv, NEW c \in calls, UF!AnswerCall(c)
  PROVE  Named' /\ AsWanted' /\ Flagged'
<1>t. TypeInv /\ form \in UF!Form /\ wanted \in [author : UF!Optional, group : UF!Optional, publishers : SUBSET UF!Entities]
  BY DEF SlicesInv, TypeInv, UF!TypeOK
<1> DEFINE A == UF!Added(c.type, c.n)
<1>1. /\ A \in UF!Form /\ A.name = form.name /\ A.submitted = form.submitted
      /\ c \in UF!Call /\ c.type \in UF!ModalTypes
  BY <1>t, AddedType DEF UF!Call
<1>2. form' = [A EXCEPT !.submitted = FALSE]
  BY DEF UF!AnswerCall
<1>3. /\ A.author = IF c.type = "author" THEN c.n ELSE form.author
      /\ A.group = IF c.type = "editionGroup" THEN c.n ELSE form.group
      /\ A.publishers = IF c.type = "publisher" THEN form.publishers \cup {c.n} ELSE form.publishers
  <2>1. c.n \in UF!Entities /\ c.n \in UF!Optional
    BY <1>t, AddedType, EntitiesAre
  <2>2. CASE c.type = "author"
    BY <1>t, <2>1, <2>2 DEF UF!Added, UF!Form
  <2>3. CASE c.type = "editionGroup"
    BY <1>t, <2>1, <2>3 DEF UF!Added, UF!Form
  <2>4. CASE c.type = "publisher"
    BY <1>t, <2>1, <2>4 DEF UF!Added, UF!Form
  <2>5. CASE c.type = "work"
    BY <1>t, <2>1, <2>5 DEF UF!Added, UF!Form
  <2> QED BY <1>1, <2>2, <2>3, <2>4, <2>5 DEF UF!ModalTypes
<1> HIDE DEF A
<1>4. /\ form'.name = form.name /\ form'.submitted = FALSE
      /\ form'.author = A.author /\ form'.group = A.group /\ form'.publishers = A.publishers
  BY <1>1, <1>2 DEF UF!Form
<1>5. /\ UNCHANGED <<dumped, modal, left, batches, strayed>>
      /\ group0' = IF c.type = "editionGroup" THEN c.n ELSE group0
      /\ givenUp' = (givenUp /\ c.type # "editionGroup")
      /\ cleared' = IF form.submitted THEN cleared + 1 ELSE cleared
      /\ calls' = calls \ {c} /\ mixed \subseteq mixed'
      /\ (c.type = "author" /\ modal # None => modal.n \in mixed')
  BY DEF UF!AnswerCall, UF!bounds
<1>6. c.n # None /\ cleared \in Nat
  <2>1. c.n \in UF!Entities /\ None \notin Nat /\ UF!Entities \subseteq Nat
    BY <1>t, AddedType, EntitiesAre, NoneAssumption
  <2> QED BY <1>t, <2>1 DEF TypeInv, UF!TypeOK
<1>7. /\ wanted'.author = IF c.type = "author" /\ modal = None THEN c.n ELSE wanted.author
      /\ wanted'.group = IF c.type = "editionGroup" THEN c.n ELSE wanted.group
      /\ wanted'.publishers = IF c.type = "publisher" /\ modal = None THEN wanted.publishers \cup {c.n}
                              ELSE wanted.publishers
  <2>1. CASE c.type = "editionGroup"
    BY <1>t, <2>1 DEF UF!AnswerCall
  <2>2. CASE c.type = "author" /\ modal = None
    BY <1>t, <2>2 DEF UF!AnswerCall
  <2>3. CASE c.type = "publisher" /\ modal = None
    BY <1>t, <2>3 DEF UF!AnswerCall
  <2>4. CASE ~(c.type = "editionGroup" \/ (c.type = "author" /\ modal = None) \/ (c.type = "publisher" /\ modal = None))
    BY <1>t, <2>4 DEF UF!AnswerCall
  <2> QED BY <2>1, <2>2, <2>3, <2>4
<1>8. CASE modal = None
  <2>1. Draft = form /\ Draft' = form' /\ TakenBack = form.group /\ TakenBack' = form'.group
    BY <1>5, <1>8 DEF Draft, TakenBack
  <2>2. Named'
    BY <1>4, <1>5, <1>8, <2>1 DEF SlicesInv, Named, UF!PostsItsOwn
  <2>3. AsWanted'
    BY <1>3, <1>4, <1>5, <1>6, <1>7, <1>8, <2>1 DEF SlicesInv, AsWanted
  <2>4. Flagged'
    BY <1>4, <1>5, <1>6, <2>1 DEF SlicesInv, Flagged, SomeWait
  <2> QED BY <2>2, <2>3, <2>4
<1>9. CASE modal # None
  <2>1. Draft = dumped /\ Draft' = dumped /\ dumped \in UF!Form
    BY <1>t, <1>5, <1>9, LoadedType DEF Draft
  <2>2. TakenBack = IF group0 # None THEN group0 ELSE dumped.group
    BY <1>t, <1>9, LoadedType DEF TakenBack
  <2>3. TakenBack' = IF group0' # None THEN group0' ELSE dumped.group
    <3>1. TakenBack' = [dumped EXCEPT !.group = IF group0' # None THEN group0' ELSE dumped.group].group
      BY <1>5, <1>9 DEF TakenBack, UF!Loaded
    <3> QED BY <2>1, <3>1 DEF UF!Form
  <2>4. Named'
    BY <1>3, <1>4, <1>5, <1>9, <2>1 DEF SlicesInv, Named, UF!PostsItsOwn
  <2>5. AsWanted'
    BY <1>5, <1>6, <1>7, <1>9, <2>1, <2>2, <2>3 DEF SlicesInv, AsWanted
  <2>6. Flagged'
    BY <1>5, <1>6, <2>1 DEF SlicesInv, Flagged, SomeWait
  <2> QED BY <2>4, <2>5, <2>6
<1> QED BY <1>8, <1>9

LEMMA RefuseCallKeepsSlices ==
  ASSUME SlicesInv, NEW c \in calls, UF!RefuseCall(c)
  PROVE  Named' /\ AsWanted' /\ Flagged'
<1>t. TypeInv /\ form \in UF!Form /\ cleared \in Nat
  BY DEF SlicesInv, TypeInv, UF!TypeOK
<1>1. /\ form'.name = form.name /\ form'.submitted = FALSE
      /\ form'.author = form.author /\ form'.group = form.group /\ form'.publishers = form.publishers
  BY <1>t DEF UF!RefuseCall, UF!Form
<1>2. /\ UNCHANGED <<dumped, group0, modal, left, batches, wanted, givenUp, mixed, strayed>>
      /\ cleared' = IF form.submitted THEN cleared + 1 ELSE cleared
      /\ calls' = calls \ {c}
  BY DEF UF!RefuseCall
<1>3. TakenBack' = TakenBack
  BY <1>1, <1>2 DEF TakenBack, UF!Loaded
<1>4. Draft'.name = Draft.name /\ Draft'.author = Draft.author /\ Draft'.publishers = Draft.publishers
  BY <1>1, <1>2 DEF Draft
<1>5. Named'
  BY <1>1, <1>2, <1>4 DEF SlicesInv, Named, UF!PostsItsOwn
<1>6. AsWanted'
  BY <1>2, <1>3, <1>4 DEF SlicesInv, AsWanted
<1>7. Flagged'
  <2>1. CASE modal = None
    BY <1>t, <1>1, <1>2, <2>1 DEF SlicesInv, Flagged, SomeWait, Draft
  <2>2. CASE modal # None
    BY <1>t, <1>1, <1>2, <2>2 DEF SlicesInv, Flagged, SomeWait, Draft
  <2> QED BY <2>1, <2>2
<1> QED BY <1>5, <1>6, <1>7

LEMMA SubmitKeepsSlices ==
  ASSUME SlicesInv, UF!Submit
  PROVE  Named' /\ AsWanted' /\ Flagged'
<1>t. TypeInv /\ form \in UF!Form
  BY DEF SlicesInv, TypeInv, UF!TypeOK
<1>1. /\ modal = None /\ ~left /\ ~form.submitted /\ form' = [form EXCEPT !.submitted = TRUE]
      /\ UNCHANGED <<dumped, group0, modal, calls, left, wanted, givenUp, mixed, strayed, cleared>>
  BY DEF UF!Submit, UF!Idle, UF!Enabled, UF!history
<1>2. /\ form'.name = form.name /\ form'.submitted = TRUE
      /\ form'.author = form.author /\ form'.group = form.group /\ form'.publishers = form.publishers
  BY <1>t, <1>1 DEF UF!Form
<1>3. Draft = form /\ Draft' = form' /\ TakenBack = form.group /\ TakenBack' = form'.group
  BY <1>1 DEF Draft, TakenBack
<1>4. /\ \A d \in DOMAIN batches' : d \in DOMAIN batches \/ d = Len(batches) + 1
      /\ Len(batches) + 1 \in DOMAIN batches'
      /\ \A d \in DOMAIN batches : batches'[d] = batches[d]
      /\ batches'[Len(batches) + 1].name = form.name /\ batches'[Len(batches) + 1].waiting
  BY <1>t, BatchSent DEF NewBatch
<1>5. Named'
  BY <1>1, <1>2, <1>3, <1>4 DEF SlicesInv, Named, UF!PostsItsOwn
<1>6. AsWanted'
  BY <1>1, <1>2, <1>3 DEF SlicesInv, AsWanted
<1>7. ASSUME NEW b \in DOMAIN batches', NEW d \in DOMAIN batches',
             batches'[b].waiting, batches'[d].waiting, b # d
      PROVE  cleared' > 0
  <2>1. \E e \in DOMAIN batches : batches[e].waiting
    BY <1>4, <1>7
  <2> QED BY <1>1, <1>3, <2>1 DEF SlicesInv, Flagged, SomeWait
<1>8. Flagged'
  BY <1>1, <1>2, <1>3, <1>4, <1>7 DEF SlicesInv, Flagged, SomeWait
<1> QED BY <1>5, <1>6, <1>8

LEMMA ExcuseKeepsSlices ==
  ASSUME SlicesInv, NEW b \in DOMAIN batches, UF!AnswerError(b) \/ UF!LoseAnswer(b)
  PROVE  Named' /\ AsWanted' /\ Flagged'
<1>t. TypeInv /\ form \in UF!Form
  BY DEF SlicesInv, TypeInv, UF!TypeOK
<1>1. /\ ~left /\ batches[b].waiting /\ form' = [form EXCEPT !.submitted = FALSE]
      /\ strayed' = (strayed \/ modal # None)
      /\ UNCHANGED <<dumped, group0, modal, calls, left, wanted, givenUp, mixed, cleared>>
  BY DEF UF!AnswerError, UF!LoseAnswer, UF!Excuse, UF!Reenabled
<1>2. /\ form'.name = form.name /\ form'.submitted = FALSE
      /\ form'.author = form.author /\ form'.group = form.group /\ form'.publishers = form.publishers
  BY <1>t, <1>1 DEF UF!Form
<1>3. TakenBack' = TakenBack
  BY <1>1, <1>2 DEF TakenBack, UF!Loaded
<1>4. Draft'.name = Draft.name /\ Draft'.author = Draft.author /\ Draft'.publishers = Draft.publishers
  BY <1>1, <1>2 DEF Draft
<1>5. /\ DOMAIN batches' = DOMAIN batches /\ \A d \in DOMAIN batches : d # b => batches'[d] = batches[d]
      /\ batches'[b].name = batches[b].name /\ batches'[b].waiting = FALSE
  <2>1. batches'[b] = AnsweredOf(b) /\ batches[b] \in UF!Batch
    BY <1>t, BatchChanged, BatchTypes
  <2>2. batches'[b].name = batches[b].name /\ batches'[b].waiting = FALSE
    BY <2>1 DEF AnsweredOf, UF!Batch
  <2> QED BY <1>t, <2>2, BatchChanged
<1>6. Named'
  BY <1>1, <1>2, <1>4, <1>5 DEF SlicesInv, Named, UF!PostsItsOwn
<1>7. AsWanted'
  BY <1>1, <1>3, <1>4 DEF SlicesInv, AsWanted
<1>8. SomeWait' => cleared > 0
  BY <1>1, <1>5 DEF SlicesInv, Flagged, SomeWait
<1>9. Flagged'
  <2>1. CASE modal = None
    BY <1>1, <1>2, <1>5, <1>8, <2>1 DEF SlicesInv, Flagged, SomeWait, Draft
  <2>2. CASE modal # None
    BY <1>1, <1>2, <1>5, <1>8, <2>2 DEF SlicesInv, Flagged, SomeWait, Draft
  <2> QED BY <2>1, <2>2
<1> QED BY <1>6, <1>7, <1>9

LEMMA AnswerKeepsSlices ==
  ASSUME SlicesInv, NEW b \in DOMAIN batches, UF!Answer(b)
  PROVE  Named' /\ AsWanted' /\ Flagged'
<1>t. TypeInv
  BY DEF SlicesInv
<1>1. /\ left' = TRUE /\ form' = UF!FirstForm /\ wanted' = UF!FirstWanted
      /\ dumped' = None /\ group0' = None /\ modal' = None /\ calls' = {}
  BY DEF UF!Answer
<1>2. /\ DOMAIN batches' = DOMAIN batches /\ \A d \in DOMAIN batches : d # b => batches'[d] = batches[d]
      /\ batches'[b].name = batches[b].name
  <2>1. batches'[b] = AnsweredOf(b) /\ batches[b] \in UF!Batch
    BY <1>t, BatchChanged, BatchTypes
  <2>2. batches'[b].name = batches[b].name
    BY <2>1 DEF AnsweredOf, UF!Batch
  <2> QED BY <1>t, <2>2, BatchChanged
<1>3. Named'
  BY <1>1, <1>2 DEF SlicesInv, Named, UF!PostsItsOwn, Draft, UF!FirstForm
<1>4. AsWanted'
  BY <1>1 DEF AsWanted, Draft, TakenBack, UF!FirstForm, UF!FirstWanted
<1>5. Flagged'
  BY <1>1 DEF Flagged
<1> QED BY <1>3, <1>4, <1>5

LEMMA NextKeepsSlices ==
  SlicesInv /\ [UF!Next]_(UF!vars) => SlicesInv'
<1> SUFFICES ASSUME SlicesInv, [UF!Next]_(UF!vars) PROVE SlicesInv'
  OBVIOUS
<1>0. TypeInv /\ TypeInv'
  BY NextKeepsTypes DEF SlicesInv
<1> SUFFICES Named' /\ AsWanted' /\ Flagged'
  BY <1>0 DEF SlicesInv
<1>1. CASE UF!PickAuthor \/ UF!PickGroup \/ UF!ReplaceGroup
  BY <1>1, ChooseKeepsSlices
<1>2. CASE UF!PickWork \/ \E i \in DOMAIN works : UF!ChangeWork(i) \/ UF!RemoveWork(i) \/ UF!ToggleWork(i)
  BY <1>0, <1>2, ChangedWorks, StillKeepsSlices
<1>3. CASE (\E t \in Types : UF!OpenModal(t)) \/ \E i \in DOMAIN works : UF!DuplicateWork(i)
  BY <1>3, OpenKeepsSlices
<1>4. CASE UF!CloseModal \/ UF!SubmitModal
  BY <1>4, CloseKeepsSlices
<1>5. CASE \E c \in calls : UF!AnswerCall(c) \/ UF!RefuseCall(c)
  BY <1>5, AnswerCallKeepsSlices, RefuseCallKeepsSlices
<1>6. CASE UF!Submit
  BY <1>6, SubmitKeepsSlices
<1>7. CASE \E b \in DOMAIN batches : UF!Serve(b) \/ UF!Fail(b)
  BY <1>7, ServeKeepsSlices
<1>8. CASE \E b \in DOMAIN batches : UF!AnswerError(b) \/ UF!LoseAnswer(b)
  BY <1>8, ExcuseKeepsSlices
<1>9. CASE \E b \in DOMAIN batches : UF!Answer(b)
  BY <1>9, AnswerKeepsSlices
<1>10. CASE UF!EditTitle
  BY <1>10, EditKeepsSlices
<1>11. CASE UNCHANGED UF!vars
  BY <1>11, StillKeepsSlices DEF UF!vars, UF!edition
<1> QED BY <1>1, <1>2, <1>3, <1>4, <1>5, <1>6, <1>7, <1>8, <1>9, <1>10, <1>11 DEF UF!Next

\* What the invariant is for.
LEMMA SlicesInvGives ==
  SlicesInv => UF!FormsKeptApart
<1> SUFFICES ASSUME SlicesInv PROVE UF!FormsKeptApart
  OBVIOUS
<1>1. UF!PostsItsOwn
  BY DEF SlicesInv, Named
<1>2. UF!DraftAsWanted
  BY DEF SlicesInv, AsWanted, UF!DraftAsWanted, Draft, TakenBack
<1>3. UF!FlagTruthful
  BY DEF SlicesInv, Flagged, UF!FlagTruthful, Draft, SomeWait
<1> QED BY <1>1, <1>2, <1>3 DEF UF!FormsKeptApart

\* What is chosen in the form, or answered while no modal is open, is what the edition
\* has, a modal posts what belongs to it, and the button waits for a batch or was
\* stopped by an error shown in a modal: the slices that the forms share are not mixed.
THEOREM FormsAreKeptApart ==
  UF!Spec => []UF!FormsKeptApart
<1>1. UF!Init => SlicesInv
  BY InitSlices
<1>2. SlicesInv /\ [UF!Next]_(UF!vars) => SlicesInv'
  BY NextKeepsSlices
<1>3. SlicesInv => UF!FormsKeptApart
  BY SlicesInvGives
<1> QED BY <1>1, <1>2, <1>3, PTL DEF UF!Spec

----------------------------------------------------------------------------
(* The fields of an entity, for any number of editors, choices and         *)
(* submissions.                                                            *)

Ending == {"author", "publisher"}

\* How a submission is answered.
Results == {"saved", "nothing", "error"}

\* An entity whose fields go together.
RowOK(d) ==
  /\ DOMAIN d = Type!Fields(type)
  /\ type \in Ending =>
       /\ d["ended"] \in BOOLEAN /\ d["endDate"] # Type!Ticked
       /\ d["beginDate"] = "late" => d["endDate"] # "early"
       /\ d["endDate"] # None => d["ended"]
  /\ type = "author" => (d["endArea"] # None => d["ended"])
  /\ type = "edition" => d["editionGroup"] # None

\* What is meant by what a field of a page holds.
Meant(f, v) ==
  IF f = "editionGroup" /\ v = None THEN Type!OwnGroup
  ELSE IF f = "endDate" /\ v = Type!Ticked THEN None
  ELSE v

\* A form that was made from this row by these choices.
FormOK(filled, row, picked) ==
  /\ DOMAIN filled = Type!Fields(type) /\ DOMAIN picked \subseteq Type!Fields(type)
  /\ \A f \in Type!Fields(type) \ DOMAIN picked :
       filled[f] = row[f] \/ (f = "releaseDate" /\ row[f] = Type!MoreThanDate)
  /\ \A f \in DOMAIN picked : picked[f] = Meant(f, filled[f])
  /\ type \in Ending =>
       /\ filled["ended"] \in BOOLEAN
       /\ "ended" \notin DOMAIN picked =>
            filled["endDate"] # Type!Ticked /\ (filled["endDate"] # None => filled["ended"])
  /\ type = "author" => (filled["endArea"] # None => filled["ended"])

PageOK(p) == RowOK(p.loaded) /\ FormOK(p.form, p.loaded, p.chosen)

FieldsInv ==
  /\ type \in Type!EntityTypes /\ RowOK(data)
  /\ DOMAIN pages = FieldEditors /\ (\A e \in FieldEditors : pages[e] # None => PageOK(pages[e]))
  /\ answers \in Seq([to : FieldEditors, with : Results])

\* The fields of each type.
LEMMA FieldsAre ==
  /\ Type!Fields("author") = {"type", "gender", "beginArea", "beginDate", "endArea", "endDate", "ended",
                         "annotation", "disambiguation"}
  /\ Type!Fields("edition") = {"editionGroup", "publishers", "releaseDate", "format", "languages", "status",
                          "size", "pages", "annotation", "disambiguation"}
  /\ Type!Fields("editionGroup") = {"type", "annotation", "disambiguation"}
  /\ Type!Fields("publisher") = {"area", "type", "beginDate", "endDate", "ended",
                            "annotation", "disambiguation"}
  /\ Type!Fields("work") = {"type", "languages", "annotation", "disambiguation"}
BY DEF Type!Fields, Type!Own, Type!Common, Type!AnnotationActions, Type!NameActions, Type!AuthorActions, Type!EditionActions,
       Type!EditionGroupActions, Type!PublisherActions, Type!WorkActions

\* A page shows the fields of the entity, of release events the date.
LEMMA ToFormIs ==
  ASSUME NEW d, DOMAIN d = Type!Fields(type), type \in Type!EntityTypes
  PROVE  /\ DOMAIN Type!ToForm(d) = Type!Fields(type)
         /\ \A f \in Type!Fields(type) :
              Type!ToForm(d)[f] = IF f = "releaseDate" /\ d[f] = Type!MoreThanDate THEN "this" ELSE d[f]
<1>1. CASE type = "author"
  <2>1. Type!ToForm(d) = [f \in Type!Fields(type) |-> d[f]]
    BY <1>1 DEF Type!ToForm, Type!AuthorToForm, Type!Restrict, Type!Fields, Type!Own, Type!Common
  <2> QED BY <1>1, <2>1, FieldsAre
<1>2. CASE type = "edition"
  <2>1. Type!ToForm(d) = [[f \in Type!Fields(type) |-> d[f]] EXCEPT !["releaseDate"] = IF @ = Type!MoreThanDate THEN "this" ELSE @]
    BY <1>2 DEF Type!ToForm, Type!EditionToForm, Type!Restrict, Type!Fields, Type!Own, Type!Common
  <2>2. "releaseDate" \in Type!Fields(type)
    BY <1>2, FieldsAre
  <2> QED BY <2>1, <2>2
<1>3. CASE type = "editionGroup"
  <2>1. Type!ToForm(d) = [f \in Type!Fields(type) |-> d[f]]
    BY <1>3 DEF Type!ToForm, Type!EditionGroupToForm, Type!Restrict, Type!Fields, Type!Own, Type!Common
  <2> QED BY <1>3, <2>1, FieldsAre
<1>4. CASE type = "publisher"
  <2>1. Type!ToForm(d) = [f \in Type!Fields(type) |-> d[f]]
    BY <1>4 DEF Type!ToForm, Type!PublisherToForm, Type!Restrict, Type!Fields, Type!Own, Type!Common
  <2> QED BY <1>4, <2>1, FieldsAre
<1>5. CASE type = "work"
  <2>1. Type!ToForm(d) = [f \in Type!Fields(type) |-> d[f]]
    BY <1>5 DEF Type!ToForm, Type!WorkToForm, Type!Restrict, Type!Fields, Type!Own, Type!Common
  <2> QED BY <1>5, <2>1, FieldsAre
<1> QED BY <1>1, <1>2, <1>3, <1>4, <1>5 DEF Type!EntityTypes

\* A page that was opened is one.
LEMMA LoadOK ==
  ASSUME NEW d, RowOK(d), type \in Type!EntityTypes
  PROVE  PageOK(Type!Load(d))
<1> DEFINE F == Type!ToForm(d)
           p == Type!Load(d)
<1>1. DOMAIN d = Type!Fields(type)
  BY DEF RowOK
<1>2. /\ DOMAIN F = Type!Fields(type)
      /\ \A f \in Type!Fields(type) : F[f] = IF f = "releaseDate" /\ d[f] = Type!MoreThanDate THEN "this" ELSE d[f]
  BY <1>1, ToFormIs
<1>3. p.form = F /\ p.loaded = d /\ DOMAIN p.chosen = {}
  BY DEF Type!Load
<1> HIDE DEF F, p
<1>4. type \in Ending => /\ {"ended", "endDate", "beginDate"} \subseteq Type!Fields(type)
  BY FieldsAre DEF Ending
<1>5. type = "author" => "endArea" \in Type!Fields(type)
  BY FieldsAre
<1>6. FormOK(F, d, p.chosen)
  BY <1>2, <1>3, <1>4, <1>5 DEF FormOK, RowOK, Ending
<1>7. PageOK(p)
  BY <1>3, <1>6 DEF PageOK
<1> QED BY <1>7 DEF p

\* It holds at the start.
LEMMA InitFields == Type!Init => FieldsInv
<1> SUFFICES ASSUME Type!Init PROVE FieldsInv
  OBVIOUS
<1>1. type \in Type!EntityTypes /\ (data = Type!Blank(type) \/ data = Type!Filled(type)) /\ answers = << >>
      /\ DOMAIN pages = FieldEditors /\ \A e \in FieldEditors : pages[e] = None
  BY DEF Type!Init
<1>2. RowOK(Type!Blank(type))
  <2>1. DOMAIN Type!Blank(type) = Type!Fields(type)
    BY DEF Type!Blank
  <2>2. CASE type \in Ending
    BY <2>1, <2>2, FieldsAre, FieldsAssumption DEF Type!Blank, RowOK, Ending, Type!Ticked
  <2>3. CASE type = "edition"
    BY <2>1, <2>3, FieldsAre, FieldsAssumption DEF Type!Blank, RowOK, Ending, Type!OwnGroup
  <2>4. CASE type \in {"editionGroup", "work"}
    BY <2>1, <2>4 DEF RowOK, Ending
  <2> QED BY <1>1, <2>2, <2>3, <2>4 DEF Type!EntityTypes, Ending
<1>3. RowOK(Type!Filled(type))
  <2>1. DOMAIN Type!Filled(type) = Type!Fields(type)
    BY DEF Type!Filled
  <2>2. CASE type \in Ending
    BY <2>1, <2>2, FieldsAre, FieldsAssumption DEF Type!Filled, RowOK, Ending, Type!Ticked
  <2>3. CASE type = "edition"
    <3>1. "editionGroup" \in Type!Fields(type)
      BY <2>3, FieldsAre
    <3>2. Type!Filled(type)["editionGroup"] = "this"
      BY <3>1 DEF Type!Filled
    <3> QED BY <2>1, <2>3, <3>2, FieldsAssumption DEF RowOK, Ending
  <2>4. CASE type \in {"editionGroup", "work"}
    BY <2>1, <2>4 DEF RowOK, Ending
  <2> QED BY <1>1, <2>2, <2>3, <2>4 DEF Type!EntityTypes, Ending
<1> QED BY <1>1, <1>2, <1>3 DEF FieldsInv

\* A field that is shown is changed.
LEMMA PickedOK ==
  ASSUME NEW filled, NEW row, NEW picked, FormOK(filled, row, picked), type \in Type!EntityTypes,
         NEW f \in Type!Fields(type), NEW v,
         f = "ended" => v \in BOOLEAN /\ type # "author",
         f = "endDate" /\ type \in Ending => v # Type!Ticked /\ filled["ended"],
         f = "endArea" /\ type = "author" => filled["ended"]
  PROVE  FormOK([filled EXCEPT ![f] = v], row, Type!Over(picked, Type!Value(f, Meant(f, v))))
<1> DEFINE F == [filled EXCEPT ![f] = v]
           C == Type!Over(picked, Type!Value(f, Meant(f, v)))
<1>1. DOMAIN F = Type!Fields(type) /\ F[f] = v /\ \A g \in Type!Fields(type) \ {f} : F[g] = filled[g]
  BY DEF FormOK
<1>2. /\ DOMAIN C = DOMAIN picked \cup {f} /\ C[f] = Meant(f, v)
      /\ \A g \in DOMAIN picked \ {f} : C[g] = picked[g]
  BY DEF Type!Over, Type!Value
<1> HIDE DEF F, C
<1>3. type \in Ending => {"ended", "endDate"} \subseteq Type!Fields(type)
  BY FieldsAre DEF Ending
<1>4. type = "author" => "endArea" \in Type!Fields(type) /\ "ended" \in Type!Fields(type)
  BY FieldsAre
<1>5. DOMAIN F = Type!Fields(type) /\ DOMAIN C \subseteq Type!Fields(type)
  BY <1>1, <1>2 DEF FormOK
<1>6. \A g \in Type!Fields(type) \ DOMAIN C :
        F[g] = row[g] \/ (g = "releaseDate" /\ row[g] = Type!MoreThanDate)
  BY <1>1, <1>2 DEF FormOK
<1>7. \A g \in DOMAIN C : C[g] = Meant(g, F[g])
  BY <1>1, <1>2 DEF FormOK
<1>8. type \in Ending =>
        /\ F["ended"] \in BOOLEAN
        /\ "ended" \notin DOMAIN C => F["endDate"] # Type!Ticked /\ (F["endDate"] # None => F["ended"])
  <2> SUFFICES ASSUME type \in Ending
               PROVE  /\ F["ended"] \in BOOLEAN
                      /\ "ended" \notin DOMAIN C =>
                           F["endDate"] # Type!Ticked /\ (F["endDate"] # None => F["ended"])
    OBVIOUS
  <2>1. CASE f = "ended"
    BY <1>1, <1>2, <2>1
  <2>2. CASE f = "endDate"
    BY <1>1, <1>2, <1>3, <2>2 DEF FormOK
  <2>3. CASE f \notin {"ended", "endDate"}
    BY <1>1, <1>2, <1>3, <2>3 DEF FormOK
  <2> QED BY <2>1, <2>2, <2>3
<1>9. type = "author" => (F["endArea"] # None => F["ended"])
  BY <1>1, <1>4 DEF FormOK
<1>10. FormOK(F, row, C)
  BY <1>5, <1>6, <1>7, <1>8, <1>9 DEF FormOK
<1> QED BY <1>10 DEF F, C

\* Whether the author has ended.
LEMMA EndedOK ==
  ASSUME NEW filled, NEW row, NEW picked, FormOK(filled, row, picked), type = "author",
         NEW v \in BOOLEAN, NEW choice, DOMAIN choice = {"ended", "endDate", "endArea"},
         choice["ended"] = v, choice["endDate"] = None, choice["endArea"] = None
  PROVE  FormOK(Type!AuthorReducer(filled, "ended", v), row, Type!Over(picked, choice))
<1> DEFINE F == Type!AuthorReducer(filled, "ended", v)
           C == Type!Over(picked, choice)
           E == {"ended", "endDate", "endArea"}
<1>1. E \subseteq Type!Fields(type) /\ DOMAIN filled = Type!Fields(type)
  BY FieldsAre DEF FormOK
<1>2. /\ DOMAIN F = Type!Fields(type) /\ F["ended"] = v /\ F["endArea"] = None
      /\ F["endDate"] = IF v THEN Type!Ticked ELSE None
      /\ \A g \in Type!Fields(type) \ E : F[g] = filled[g]
  BY <1>1 DEF Type!AuthorReducer
<1>3. /\ DOMAIN C = DOMAIN picked \cup E
      /\ \A g \in E : C[g] = choice[g]
      /\ \A g \in DOMAIN picked \ E : C[g] = picked[g]
  BY DEF Type!Over
<1> HIDE DEF F, C
<1>4. DOMAIN F = Type!Fields(type) /\ DOMAIN C \subseteq Type!Fields(type)
  BY <1>1, <1>2, <1>3 DEF FormOK
<1>5. \A g \in Type!Fields(type) \ DOMAIN C :
        F[g] = row[g] \/ (g = "releaseDate" /\ row[g] = Type!MoreThanDate)
  BY <1>2, <1>3 DEF FormOK
<1>6. \A g \in DOMAIN C : C[g] = Meant(g, F[g])
  <2> TAKE g \in DOMAIN C
  <2>1. CASE g = "ended"
    BY <1>2, <1>3, <2>1 DEF Meant
  <2>2. CASE g = "endDate"
    BY <1>2, <1>3, <2>2 DEF Meant
  <2>3. CASE g = "endArea"
    BY <1>2, <1>3, <2>3 DEF Meant
  <2>4. CASE g \notin E
    <3>1. g \in DOMAIN picked /\ g \in Type!Fields(type)
      BY <1>3, <2>4 DEF FormOK
    <3> QED BY <1>2, <1>3, <2>4, <3>1 DEF FormOK
  <2> QED BY <2>1, <2>2, <2>3, <2>4
<1>7. F["ended"] \in BOOLEAN /\ "ended" \in DOMAIN C
  BY <1>2, <1>3
<1>8. FormOK(F, row, C)
  BY <1>2, <1>4, <1>5, <1>6, <1>7 DEF FormOK
<1> QED BY <1>8 DEF F, C

\* A page whose form is as it should be stays one.
LEMMA PickKeepsPages ==
  ASSUME FieldsInv, NEW e \in FieldEditors, pages[e] # None, UNCHANGED <<type, data, answers>>,
         NEW choice, NEW filled, NEW physical, Type!Pick(e, choice, filled, physical),
         FormOK(filled, pages[e].loaded, Type!Over(pages[e].chosen, choice))
  PROVE  FieldsInv'
<1> DEFINE p == [form |-> filled, loaded |-> pages[e].loaded, chosen |-> Type!Over(pages[e].chosen, choice),
                 physical |-> physical]
<1>1. pages' = [pages EXCEPT ![e] = p]
  BY DEF Type!Pick
<1>2. PageOK(p)
  BY DEF FieldsInv, PageOK
<1> HIDE DEF p
<1>3. DOMAIN pages' = FieldEditors /\ \A d \in FieldEditors : pages'[d] # None => PageOK(pages'[d])
  BY <1>1, <1>2 DEF FieldsInv
<1>4. \A q : PageOK(q)' <=> PageOK(q)
  BY DEF PageOK, RowOK, FormOK, Type!Fields
<1> QED BY <1>3, <1>4 DEF FieldsInv, RowOK

\* What can be chosen.
LEMMA ChoicesAre ==
  ASSUME NEW f, NEW v \in Type!Choices(type, f)
  PROVE  /\ f = "ended" => v \in BOOLEAN
         /\ f = "endDate" => v # Type!Ticked
BY FieldsAssumption DEF Type!Choices, Type!Dates, Type!Ticked

\* Choosing in any section.
LEMMA ChooseKeepsFields ==
  ASSUME FieldsInv, NEW e \in FieldEditors, NEW f \in Type!Fields(type), NEW v \in Type!Choices(type, f),
         Type!Choose(e, f, v)
  PROVE  FieldsInv'
<1> DEFINE p == pages[e]
<1>1. /\ UNCHANGED <<type, data, answers>> /\ pages[e] # None /\ type \in Type!EntityTypes
      /\ FormOK(p.form, p.loaded, p.chosen)
  BY DEF Type!Choose, FieldsInv, PageOK
<1>2. (f = "ended" => v \in BOOLEAN) /\ (f = "endDate" => v # Type!Ticked)
  BY ChoicesAre
<1> DEFINE Sure == /\ f = "ended" => type # "author"
                   /\ f = "endDate" /\ type \in Ending => p.form["ended"]
                   /\ f = "endArea" /\ type = "author" => p.form["ended"]
<1>3. ASSUME NEW physical, Sure,
             Type!Pick(e, Type!Value(f, Meant(f, v)), [p.form EXCEPT ![f] = v], physical)
      PROVE  FieldsInv'
  <2>1. FormOK([p.form EXCEPT ![f] = v], p.loaded, Type!Over(p.chosen, Type!Value(f, Meant(f, v))))
    BY <1>1, <1>2, <1>3, PickedOK
  <2> QED BY <1>1, <1>3, <2>1, PickKeepsPages
<1>4. f # "editionGroup" => Meant(f, v) = v
  BY <1>2 DEF Meant
<1>5. CASE type = "author" /\ Type!PickOfAuthor(e, f, v)
  <2>1. f \in Type!AuthorShows(p.form)
    BY <1>5 DEF Type!PickOfAuthor
  <2>2. CASE f = "ended"
    <3> DEFINE c == [g \in {f} \cup {"endDate", "endArea"} |-> IF g = f THEN v ELSE None]
    <3>1. Type!Pick(e, c, Type!AuthorReducer(p.form, f, v), p.physical)
      BY <1>5, <2>2 DEF Type!PickOfAuthor
    <3>2. /\ DOMAIN c = {"ended", "endDate", "endArea"}
          /\ c["ended"] = v /\ c["endDate"] = None /\ c["endArea"] = None
      BY <2>2
    <3> HIDE DEF c
    <3>3. FormOK(Type!AuthorReducer(p.form, f, v), p.loaded, Type!Over(p.chosen, c))
      BY <1>1, <1>2, <1>5, <2>2, <3>2, EndedOK
    <3> QED BY <1>1, <3>1, <3>3, PickKeepsPages
  <2>3. CASE f # "ended"
    <3>1. Sure
      BY <2>1, <2>3 DEF Type!AuthorShows
    <3>2. f # "editionGroup"
      BY <2>1 DEF Type!AuthorShows, Type!AuthorActions
    <3>3. [g \in {f} \cup {} |-> IF g = f THEN v ELSE None] = Type!Value(f, v)
      BY DEF Type!Value
    <3>4. Type!AuthorReducer(p.form, f, v) = [p.form EXCEPT ![f] = v]
      BY <2>3 DEF Type!AuthorReducer
    <3>5. Type!Pick(e, [g \in {f} \cup {} |-> IF g = f THEN v ELSE None], Type!AuthorReducer(p.form, f, v), p.physical)
      BY <1>5, <2>3 DEF Type!PickOfAuthor
    <3>6. Type!Pick(e, Type!Value(f, Meant(f, v)), [p.form EXCEPT ![f] = v], p.physical)
      BY <1>4, <3>2, <3>3, <3>4, <3>5
    <3> QED BY <1>3, <3>1, <3>6
  <2> QED BY <2>2, <2>3
<1>6. CASE type = "edition" /\ Type!PickOfEdition(e, f, v)
  <2>1. f \in Type!EditionActions
    BY <1>6 DEF Type!PickOfEdition, Type!EditionShows
  <2>2. Sure
    BY <1>6, <2>1 DEF Type!EditionActions, Ending
  <2>3. (IF f = "editionGroup" /\ v = None THEN Type!OwnGroup ELSE v) = Meant(f, v)
    BY <1>2, <2>1 DEF Meant, Type!EditionActions
  <2>4. Type!Pick(e, Type!Value(f, IF f = "editionGroup" /\ v = None THEN Type!OwnGroup ELSE v),
             [p.form EXCEPT ![f] = v], Type!PhysicalAfter(p, f, v))
    BY <1>6 DEF Type!PickOfEdition, Type!EditionReducer
  <2> QED BY <1>3, <2>2, <2>3, <2>4
<1>7. CASE type = "editionGroup" /\ Type!PickOfEditionGroup(e, f, v)
  <2>1. f = "type"
    BY <1>7 DEF Type!PickOfEditionGroup, Type!EditionGroupActions
  <2>2. Sure /\ Meant(f, v) = v
    BY <1>4, <2>1
  <2>3. Type!Pick(e, Type!Value(f, v), [p.form EXCEPT ![f] = v], p.physical)
    BY <1>7 DEF Type!PickOfEditionGroup, Type!EditionGroupReducer, Type!PickOf
  <2> QED BY <1>3, <2>2, <2>3
<1>8. CASE type = "publisher" /\ Type!PickOfPublisher(e, f, v)
  <2>1. f \in Type!PublisherActions /\ (f = "endDate" => p.form["ended"])
    BY <1>8 DEF Type!PickOfPublisher, Type!PublisherShows
  <2>2. Sure /\ Meant(f, v) = v
    BY <1>4, <1>8, <2>1 DEF Type!PublisherActions
  <2>3. Type!Pick(e, Type!Value(f, v), [p.form EXCEPT ![f] = v], p.physical)
    BY <1>8 DEF Type!PickOfPublisher, Type!PublisherReducer, Type!PickOf
  <2> QED BY <1>3, <2>2, <2>3
<1>9. CASE type = "work" /\ Type!PickOfWork(e, f, v)
  <2>1. f \in Type!WorkActions
    BY <1>9 DEF Type!PickOfWork
  <2>2. Sure /\ Meant(f, v) = v
    BY <1>4, <1>9, <2>1 DEF Type!WorkActions, Ending
  <2>3. Type!Pick(e, Type!Value(f, v), [p.form EXCEPT ![f] = v], p.physical)
    BY <1>9 DEF Type!PickOfWork, Type!WorkReducer, Type!PickOf
  <2> QED BY <1>3, <2>2, <2>3
<1>10. CASE Type!PickOfAny(e, f, v)
  <2>1. f \in {"annotation", "disambiguation"}
    BY <1>10 DEF Type!PickOfAny, Type!Common, Type!AnnotationActions, Type!NameActions
  <2>2. Sure /\ Meant(f, v) = v
    BY <1>4, <2>1
  <2>3. Type!Pick(e, Type!Value(f, v), [p.form EXCEPT ![f] = v], p.physical)
    BY <1>10 DEF Type!PickOfAny, Type!PickOf
  <2> QED BY <1>3, <2>2, <2>3
<1> QED BY <1>5, <1>6, <1>7, <1>8, <1>9, <1>10 DEF Type!Choose

\* What the entity gets of a form: what is meant by each of its fields.
LEMMA SentIs ==
  ASSUME NEW filled, NEW row, NEW picked, FormOK(filled, row, picked), type \in Type!EntityTypes,
         NEW body \in Type!Reads(filled)
  PROVE  /\ DOMAIN Type!NextData(body) = Type!Fields(type)
         /\ \A f \in Type!Fields(type) : Type!NextData(body)[f] = Meant(f, filled[f])
<1>1. DOMAIN filled = Type!Fields(type)
  BY DEF FormOK
<1>2. \A f \in Type!Fields(type) : body[f] = IF f = "endDate" /\ filled[f] = Type!Ticked THEN None ELSE filled[f]
  <2>1. CASE "endDate" \in DOMAIN filled /\ filled["endDate"] = Type!Ticked
    <3>1. body = [filled EXCEPT !["endDate"] = None]
      BY <2>1 DEF Type!Reads
    <3> QED BY <1>1, <2>1, <3>1
  <2>2. CASE ~("endDate" \in DOMAIN filled /\ filled["endDate"] = Type!Ticked)
    <3>1. body = filled
      BY <2>2 DEF Type!Reads
    <3> QED BY <1>1, <2>2, <3>1
  <2> QED BY <2>1, <2>2
<1>3. Type!Fields(type) \subseteq Type!Props(type) \cup {"annotation", "disambiguation"}
  BY FieldsAre DEF Type!EntityTypes, Type!Props, Type!AuthorProps, Type!EditionProps, Type!EditionSets, Type!EditionGroupProps,
                   Type!PublisherProps, Type!WorkProps, Type!WorkSets
<1>4. DOMAIN Type!NextData(body) = Type!Fields(type)
  BY DEF Type!NextData
<1>5. ASSUME NEW f \in Type!Fields(type) PROVE Type!NextData(body)[f] = Meant(f, filled[f])
  <2>1. CASE f = "annotation"
    <3>1. Type!NextData(body)[f] = body["annotation"]
      BY <1>5, <2>1 DEF Type!NextData, Type!NextAnnotation
    <3> QED BY <1>2, <2>1, <3>1 DEF Meant
  <2>2. CASE f = "disambiguation"
    <3>1. Type!NextData(body)[f] = body[f]
      BY <1>5, <2>2 DEF Type!NextData
    <3> QED BY <1>2, <2>2, <3>1 DEF Meant
  <2>3. CASE f = "editionGroup"
    <3>1. Type!NextData(body)[f] = IF body[f] = None THEN Type!OwnGroup ELSE body[f]
      BY <1>5, <2>3 DEF Type!NextData
    <3> QED BY <1>2, <2>3, <3>1 DEF Meant
  <2>4. CASE f \notin {"annotation", "disambiguation", "editionGroup"}
    <3>1. Type!NextData(body)[f] = body[f]
      BY <1>3, <1>5, <2>4 DEF Type!NextData
    <3> QED BY <1>2, <2>4, <3>1 DEF Meant
  <2> QED BY <2>1, <2>2, <2>3, <2>4
<1> QED BY <1>4, <1>5

\* The steps keep it.
LEMMA OpenKeepsFields ==
  ASSUME FieldsInv, NEW e \in FieldEditors, Type!Open(e)
  PROVE  FieldsInv'
<1>1. pages' = [pages EXCEPT ![e] = Type!Load(data)] /\ UNCHANGED <<type, data, answers>>
  BY DEF Type!Open
<1>2. PageOK(Type!Load(data))
  BY LoadOK DEF FieldsInv
<1> DEFINE p == Type!Load(data)
<1> HIDE DEF p
<1>3. DOMAIN pages' = FieldEditors /\ \A d \in FieldEditors : pages'[d] # None => PageOK(pages'[d])
  BY <1>1, <1>2 DEF FieldsInv
<1>4. \A q : PageOK(q)' <=> PageOK(q)
  BY <1>1 DEF PageOK, RowOK, FormOK, Type!Fields
<1> QED BY <1>1, <1>3, <1>4 DEF FieldsInv, RowOK

\* What the entity gets goes together.
LEMMA SavedOK ==
  ASSUME NEW filled, NEW row, NEW picked, FormOK(filled, row, picked), type \in Type!EntityTypes,
         Type!Valid(filled), NEW body \in Type!Reads(filled), Type!EndHasEnded(Type!NextData(body))
  PROVE  RowOK(Type!NextData(body))
<1> DEFINE d == Type!NextData(body)
<1>1. /\ DOMAIN d = Type!Fields(type) /\ DOMAIN filled = Type!Fields(type)
      /\ \A f \in Type!Fields(type) : d[f] = Meant(f, filled[f])
  BY SentIs DEF FormOK
<1>2. Type!EndHasEnded(d)
  OBVIOUS
<1> HIDE DEF d
<1>3. ASSUME type \in Ending PROVE RowOK(d)
  <2>1. /\ {"ended", "endDate", "beginDate"} \subseteq Type!Fields(type)
        /\ type = "author" => "endArea" \in Type!Fields(type)
    BY <1>3, FieldsAre DEF Ending
  <2>2. /\ d["ended"] = filled["ended"] /\ d["beginDate"] = filled["beginDate"]
        /\ d["endDate"] = IF filled["endDate"] = Type!Ticked THEN None ELSE filled["endDate"]
        /\ type = "author" => d["endArea"] = filled["endArea"]
    BY <1>1, <2>1 DEF Meant
  <2>3. d["ended"] \in BOOLEAN /\ (type = "author" => (d["endArea"] # None => d["ended"]))
    BY <1>3, <2>2 DEF FormOK
  <2>4. d["endDate"] # Type!Ticked
    BY <2>2, FieldsAssumption
  <2>5. d["endDate"] # None => d["ended"]
    BY <1>1, <1>2, <2>1 DEF Type!EndHasEnded
  <2>6. d["beginDate"] = "late" => d["endDate"] # "early"
    <3>1. CASE type = "author"
      BY <2>2, <3>1, FieldsAssumption DEF Type!Valid, Type!ValidAuthor, Type!DateIsBefore
    <3>2. CASE type = "publisher"
      BY <2>2, <2>3, <2>5, <3>2, FieldsAssumption DEF Type!Valid, Type!ValidPublisher, Type!DateIsBefore
    <3> QED BY <1>3, <3>1, <3>2 DEF Ending
  <2> QED BY <1>1, <1>3, <2>3, <2>4, <2>5, <2>6 DEF RowOK, Ending
<1>4. ASSUME type = "edition" PROVE RowOK(d)
  <2>1. "editionGroup" \in Type!Fields(type)
    BY <1>4, FieldsAre
  <2>2. d["editionGroup"] # None
    BY <1>1, <2>1, FieldsAssumption DEF Meant
  <2> QED BY <1>1, <1>4, <2>2 DEF RowOK, Ending
<1>5. ASSUME type \in {"editionGroup", "work"} PROVE RowOK(d)
  BY <1>1, <1>5 DEF RowOK, Ending
<1>6. RowOK(d)
  BY <1>3, <1>4, <1>5 DEF Type!EntityTypes, Ending
<1> QED BY <1>6 DEF d

\* To whom and how a submission is answered.
LEMMA AnswerTypes ==
  ASSUME FieldsInv, NEW e \in FieldEditors, NEW a \in Results, Type!Answered(e, a)
  PROVE  /\ answers' \in Seq([to : FieldEditors, with : Results])
         /\ Type!LastAnswer.to = e /\ Type!LastAnswer.with = a
BY DEF FieldsInv, Type!Answered, Type!LastAnswer

\* A submission keeps it.
LEMMA AnswerKeepsFields ==
  ASSUME FieldsInv, NEW e \in FieldEditors, Type!Saved(e) \/ Type!NothingNew(e) \/ Type!Failed(e)
  PROVE  FieldsInv'
<1>1. type' = type
  BY DEF Type!Saved, Type!NothingNew, Type!Failed
<1>2. \A q : (PageOK(q)' <=> PageOK(q)) /\ (RowOK(q)' <=> RowOK(q))
  BY <1>1 DEF PageOK, RowOK, FormOK, Type!Fields
<1>3. answers' \in Seq([to : FieldEditors, with : Results])
  <2>1. PICK a \in Results : Type!Answered(e, a)
    BY DEF Type!Saved, Type!NothingNew, Type!Failed, Results
  <2> QED BY <2>1, AnswerTypes
<1>4. CASE Type!Saved(e)
  <2>1. PICK body \in Type!Reads(pages[e].form) :
          data' = Type!NextData(body) /\ Type!EndHasEnded(Type!NextData(body))
    BY <1>4 DEF Type!Saved
  <2>2. pages[e] # None /\ Type!Valid(pages[e].form) /\ pages' = [pages EXCEPT ![e] = None]
    BY <1>4 DEF Type!Saved, Type!Submitting, Type!Close
  <2>3. FormOK(pages[e].form, pages[e].loaded, pages[e].chosen) /\ type \in Type!EntityTypes
    BY <2>2 DEF FieldsInv, PageOK
  <2>4. RowOK(data')
    BY <2>1, <2>2, <2>3, SavedOK
  <2>5. DOMAIN pages' = FieldEditors /\ \A d \in FieldEditors : pages'[d] # None => PageOK(pages'[d])
    BY <2>2 DEF FieldsInv
  <2> QED BY <1>1, <1>2, <1>3, <2>4, <2>5 DEF FieldsInv
<1>5. CASE Type!NothingNew(e) \/ Type!Failed(e)
  <2>1. UNCHANGED <<data, pages>>
    BY <1>5 DEF Type!NothingNew, Type!Failed
  <2> QED BY <1>1, <1>2, <1>3, <2>1 DEF FieldsInv
<1> QED BY <1>4, <1>5

\* So it is inductive,
LEMMA NextKeepsFields == FieldsInv /\ [Type!Next]_(Type!vars) => FieldsInv'
<1> SUFFICES ASSUME FieldsInv, [Type!Next]_(Type!vars) PROVE FieldsInv'
  OBVIOUS
<1>1. ASSUME NEW e \in FieldEditors, Type!Open(e) PROVE FieldsInv'
  BY <1>1, OpenKeepsFields
<1>2. ASSUME NEW e \in FieldEditors, NEW f \in Type!Fields(type), NEW v \in Type!Choices(type, f), Type!Choose(e, f, v)
      PROVE  FieldsInv'
  BY <1>2, ChooseKeepsFields
<1>3. ASSUME NEW e \in FieldEditors, Type!Saved(e) \/ Type!NothingNew(e) \/ Type!Failed(e) PROVE FieldsInv'
  BY <1>3, AnswerKeepsFields
<1>4. CASE UNCHANGED Type!vars
  BY <1>4 DEF Type!vars, FieldsInv, PageOK, RowOK, FormOK, Type!Fields
<1> QED BY <1>1, <1>2, <1>3, <1>4 DEF Type!Next

\* Of an answer, what was chosen and what was not.
LEMMA AnswersHold ==
  ASSUME FieldsInv, NEW e \in FieldEditors, Type!Saved(e) \/ Type!NothingNew(e) \/ Type!Failed(e)
  PROVE  Type!ChangesAreTheirs /\ Type!SavedAsChosen
<1> DEFINE p == pages[e]
<1>1. pages[e] # None /\ RowOK(p.loaded) /\ FormOK(p.form, p.loaded, p.chosen)
      /\ type \in Type!EntityTypes /\ RowOK(data)
  BY DEF FieldsInv, PageOK, Type!Saved, Type!NothingNew, Type!Failed, Type!Submitting
<1> DEFINE Told(a) == Type!LastAnswer.to = e /\ Type!LastAnswer.with = a
<1>2. \A a \in Results : Type!Answered(e, a) => Told(a)
  BY AnswerTypes
<1>7. Type!LastAnswer.to = e
  BY <1>2 DEF Type!Saved, Type!NothingNew, Type!Failed, Results
<1>3. ASSUME NEW body \in Type!Reads(p.form), data' = Type!NextData(body)
      PROVE  /\ Type!ChangesAreTheirs
             /\ \A f \in DOMAIN p.chosen : data'[f] = p.chosen[f]
  <2>1. \A f \in Type!Fields(type) : data'[f] = Meant(f, p.form[f])
    BY <1>1, <1>3, SentIs
  <2>2. \A f \in DOMAIN p.chosen : data'[f] = p.chosen[f]
    BY <1>1, <2>1 DEF FormOK
  <2>3. ASSUME NEW f \in Type!Fields(type), f \notin DOMAIN p.chosen, p.loaded[f] = data[f],
               data[f] # Type!MoreThanDate
        PROVE  data'[f] = data[f]
    <3>1. p.form[f] = data[f]
      BY <1>1, <2>3 DEF FormOK
    <3>2. f = "editionGroup" => data[f] # None
      <4>1. f = "editionGroup" => type = "edition"
        BY <1>1, FieldsAre DEF Type!EntityTypes
      <4> QED BY <1>1, <4>1 DEF RowOK
    <3>3. f = "endDate" => data[f] # Type!Ticked
      <4>1. f = "endDate" => type \in Ending
        BY <1>1, FieldsAre DEF Type!EntityTypes, Ending
      <4> QED BY <1>1, <4>1 DEF RowOK
    <3> QED BY <2>1, <3>1, <3>2, <3>3 DEF Meant
  <2>4. Type!ChangesAreTheirs
    BY <1>7, <2>3 DEF Type!ChangesAreTheirs
  <2> QED BY <2>2, <2>4
<1>4. CASE Type!Saved(e)
  <2>1. PICK body \in Type!Reads(p.form) : data' = Type!NextData(body)
    BY <1>4 DEF Type!Saved
  <2>2. Type!LastAnswer.with = "saved"
    BY <1>2, <1>4 DEF Type!Saved, Results
  <2> QED BY <1>7, <1>3, <2>1, <2>2 DEF Type!SavedAsChosen
<1>5. CASE Type!NothingNew(e)
  <2>1. PICK body \in Type!Reads(p.form) : data' = Type!NextData(body)
    BY <1>5 DEF Type!NothingNew
  <2>2. Type!LastAnswer.with = "nothing"
    BY <1>2, <1>5 DEF Type!NothingNew, Results
  <2> QED BY <1>7, <1>3, <2>1, <2>2 DEF Type!SavedAsChosen
<1>6. CASE Type!Failed(e)
  <2>1. data' = data /\ Type!LastAnswer.with = "error"
    BY <1>2, <1>6 DEF Type!Failed, Results
  <2>2. "endDate" \in Type!Fields(type) /\ (p.form["endDate"] = Type!Ticked \/ ~Type!EndHasEnded(p.form))
    BY <1>1, <1>6 DEF Type!Failed, Type!Fails, FormOK
  <2>3. type \in Ending
    BY <1>1, <2>2, FieldsAre DEF Type!EntityTypes, Ending
  <2>4. "ended" \in DOMAIN p.chosen
    BY <1>1, <2>2, <2>3 DEF FormOK, Type!EndHasEnded
  <2>5. Type!ChangesAreTheirs
    BY <2>1 DEF Type!ChangesAreTheirs
  <2>6. Type!SavedAsChosen
    BY <1>7, <2>1, <2>4 DEF Type!SavedAsChosen
  <2> QED BY <2>5, <2>6
<1> QED BY <1>4, <1>5, <1>6

\* what each step tells follows from it,
LEMMA NextAnswers == FieldsInv /\ [Type!Next]_(Type!vars) => [Type!ChangesAreTheirs /\ Type!SavedAsChosen]_(Type!vars)
<1> SUFFICES ASSUME FieldsInv, [Type!Next]_(Type!vars) PROVE Type!ChangesAreTheirs /\ Type!SavedAsChosen
  OBVIOUS
<1>1. ASSUME NEW e \in FieldEditors, Type!Open(e) PROVE answers' = answers
  BY <1>1 DEF Type!Open
<1>2. ASSUME NEW e \in FieldEditors, NEW f, NEW v, Type!Choose(e, f, v) PROVE answers' = answers
  BY <1>2 DEF Type!Choose
<1>3. ASSUME NEW e \in FieldEditors, Type!Saved(e) \/ Type!NothingNew(e) \/ Type!Failed(e)
      PROVE  Type!ChangesAreTheirs /\ Type!SavedAsChosen
  BY <1>3, AnswersHold
<1>4. answers' = answers => Type!ChangesAreTheirs /\ Type!SavedAsChosen
  BY DEF Type!ChangesAreTheirs, Type!SavedAsChosen, Type!AnswerGiven
<1>5. CASE UNCHANGED Type!vars
  BY <1>4, <1>5 DEF Type!vars
<1> QED BY <1>1, <1>2, <1>3, <1>4, <1>5 DEF Type!Next

\* and nobody ends before the begin.
LEMMA FieldsInvGives == FieldsInv => Type!EndsHold
<1> SUFFICES ASSUME FieldsInv PROVE Type!EndsHold
  OBVIOUS
<1>1. type \in Type!EntityTypes /\ RowOK(data)
  BY DEF FieldsInv
<1>2. "ended" \in DOMAIN data => type \in Ending
  BY <1>1, FieldsAre DEF RowOK, Type!EntityTypes, Ending
<1>3. "endArea" \in DOMAIN data => type = "author"
  BY <1>1, FieldsAre DEF RowOK, Type!EntityTypes
<1> QED BY <1>1, <1>2, <1>3 DEF Type!EndsHold, RowOK

\* A revision changes the fields its editor chose, and gives them what was chosen last; an
\* error is about whether somebody has ended, and nobody ends without that or before the
\* begin: for any number of editors whose pages are open at the same time.
THEOREM FieldsAsMeant == Type!Spec => SavedAsMeant
<1>1. Type!Init => FieldsInv
  BY InitFields
<1>2. FieldsInv /\ [Type!Next]_(Type!vars) => FieldsInv'
  BY NextKeepsFields
<1>3. FieldsInv /\ [Type!Next]_(Type!vars) => [Type!ChangesAreTheirs /\ Type!SavedAsChosen]_(Type!vars)
  BY NextAnswers
<1>4. FieldsInv => Type!EndsHold
  BY FieldsInvGives
<1>5. Type!Spec => []FieldsInv /\ [][Type!Next]_(Type!vars)
  BY <1>1, <1>2, PTL DEF Type!Spec
<1>6. Type!Spec => [][Type!ChangesAreTheirs /\ Type!SavedAsChosen]_(Type!vars)
  BY <1>3, <1>5, PTL
<1>7. Type!Spec => []Type!EndsHold
  BY <1>4, <1>5, PTL
<1> QED BY <1>6, <1>7 DEF SavedAsMeant, Type!FieldsHold

=============================================================================

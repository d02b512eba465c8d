------------------------- MODULE EntityMergeProofs -------------------------
(***************************************************************************)
(* What the merge handler guarantees for any entities and editors: types,  *)
(* queues of one type, of handlers that run one at a time that redirects   *)
(* have no cycle and that a merged entity has no data left, and of a       *)
(* single editor that nothing is lost. Then what the pages of the browser  *)
(* that MCPages composes guarantee, whatever they list and are asked.      *)
(***************************************************************************)
EXTENDS MCPages, FiniteSetTheorems, SequenceTheorems, WellFoundedInduction, TLAPS

----------------------------------------------------------------------------
(* The inductive invariants.                                               *)

\* A page has a target, and the handler of a session works on its page.
PageOK ==
  /\ \A s \in Sessions : page[s] # NoPage => page[s].target \in Entities
  /\ \A s \in Sessions : ~Idle(s) =>
       page[s].target \in Entities /\ handler[s].target = page[s].target

TypeInv == TypeOK /\ PageOK

OneHandler == \A q, s \in Sessions : ~Idle(q) /\ ~Idle(s) => q = s

\* The target of a running handler has been redirected by nobody since the
\* router let the request pass, and is not among the entities to be merged.
TargetStays ==
  \A s \in Sessions : ~Idle(s) =>
    ~Redirected(handler[s].target) /\ handler[s].target \notin handler[s].merging

MergeInv == TypeInv /\ OneHandler /\ TargetStays /\ RedirectsAcyclic

\* An entity lacks data only if it has been merged.
OnlyMergedAreGone == \A e \in Entities : ~Redirected(e) => Live(e)

\* What a handler will write does not bring a merged entity back.
WritesKeepGone ==
  \A s \in Sessions : handler[s].phase = "saving" =>
    /\ \A e \in handler[s].saved :
         Redirected(e) \/ (handler[s].isMerge /\ e \in handler[s].merging)
           => handler[s].write[e] = Null
    /\ \A e \in handler[s].saved :
         ~Redirected(e) /\ ~(handler[s].isMerge /\ e \in handler[s].merging)
           => handler[s].write[e] # Null
    /\ handler[s].isMerge => handler[s].merging \subseteq handler[s].saved

GoneInv == MergeInv /\ OnlyMergedAreGone /\ RedirectedAreGone /\ WritesKeepGone

----------------------------------------------------------------------------
(* Types.                                                                  *)

\* At the start nobody has a page or a handler.
LEMMA InitTypeInv == Init => TypeInv
<1> SUFFICES ASSUME Init PROVE TypeInv
  OBVIOUS
<1>1. TypeOK
  BY BoundAssumption DEF Init, TypeOK, HandlerType, NoPage, NoHandler, Row
<1>2. PageOK
  BY DEF Init, PageOK, Idle, NoHandler
<1> QED BY <1>1, <1>2 DEF TypeInv

\* What the rows hold, whether there or not.
LEMMA RowTypes ==
  ASSUME TypeOK
  PROVE  /\ \A e \in Entities : Live(e) => row[e] \in Row
         /\ \A e \in Entities : RowOrBlank(e) \in Row
BY DEF TypeOK, Live, RowOrBlank, Blank, Row

\* An idle session.
LEMMA NoHandlerType == NoHandler \in HandlerType
BY DEF NoHandler, HandlerType

\* The server exits: no handlers, and only the pages of idle sessions.
LEMMA ExitKeepsTypeInv == TypeInv /\ ServerExit => TypeInv'
<1> SUFFICES ASSUME TypeInv, ServerExit PROVE TypeInv'
  OBVIOUS
<1> USE DEF TypeInv
<1>2. TypeOK'
  BY NoHandlerType DEF TypeOK, ServerExit, NoPage
<1>3. \A s \in Sessions : Idle(s)'
  BY DEF ServerExit, Idle, NoHandler
<1>4. \A s \in Sessions : page'[s] # NoPage => page'[s].target \in Entities
  BY DEF PageOK, ServerExit
<1> QED BY <1>2, <1>3, <1>4 DEF PageOK

\* Adding and removing change the queue of a session alone.
LEMMA QueueKeepsTypeInv ==
  ASSUME TypeInv, NEW s \in Sessions, NEW e \in Entities,
         Add(s, e) \/ Remove(s, e)
  PROVE  TypeInv'
<1>1. PICK q \in SUBSET Entities : queue' = [queue EXCEPT ![s] = q]
  <2>1. CASE Add(s, e)
    <3>1. PICK f \in Finals(e) :
            queue' = [queue EXCEPT ![s] =
              {f} \cup {g \in @ : \A h \in @ : Type(h) = Type(f)}]
      BY <2>1 DEF Add
    <3>2. {f} \cup {g \in queue[s] : \A h \in queue[s] : Type(h) = Type(f)}
            \in SUBSET Entities
      BY DEF Finals, Path, TypeInv, TypeOK
    <3> QED BY <3>1, <3>2
  <2>2. CASE Remove(s, e)
    BY <2>2 DEF Remove, TypeInv, TypeOK
  <2> QED BY <2>1, <2>2
<1>2. UNCHANGED <<row, redirect, page, handler, commits>>
  BY DEF Add, Remove
<1> QED BY <1>1, <1>2 DEF TypeInv, TypeOK, PageOK, Idle

\* The form of a page.
LEMMA FormType ==
  ASSUME TypeOK, NEW S \in SUBSET Entities, NEW t \in Entities
  PROVE  Form(t, S) \in [target : Entities, shown : SUBSET Entities,
                         aliases : SUBSET Entities, added : SUBSET Entities]
BY RowTypes DEF Form, Row

\* The page shows entities, and its form names aliases and relationships of them.
LEMMA SubmitKeepsTypeInv ==
  ASSUME TypeInv, NEW s \in Sessions, Submit(s)
  PROVE  TypeInv'
<1>1. PICK fetched \in [queue[s] -> Entities] :
        LET S == {fetched[e] : e \in queue[s]}
        IN /\ queue' = [queue EXCEPT ![s] = @ \cup S]
           /\ IF Cardinality(S) < Cardinality(queue[s])
              THEN UNCHANGED page
              ELSE \E target \in S :
                     page' = [page EXCEPT ![s] = Form(target, S)]
  BY DEF Submit
<1> DEFINE S == {fetched[e] : e \in queue[s]}
<1>2. S \in SUBSET Entities
  OBVIOUS
<1>3. queue' \in [Sessions -> SUBSET Entities]
  BY <1>1, <1>2 DEF TypeInv, TypeOK
<1>4. UNCHANGED page \/ \E t \in Entities : page' = [page EXCEPT ![s] = Form(t, S)]
  BY <1>1, <1>2
<1>5. UNCHANGED <<row, redirect, handler, commits>> /\ Idle(s)
  BY DEF Submit
<1>6. CASE UNCHANGED page
  BY <1>3, <1>5, <1>6 DEF TypeInv, TypeOK, PageOK, Idle
<1>7. ASSUME NEW t \in Entities, page' = [page EXCEPT ![s] = Form(t, S)]
      PROVE  TypeInv'
  <2> DEFINE F == Form(t, S)
  <2>1. F \in [target : Entities, shown : SUBSET Entities,
               aliases : SUBSET Entities, added : SUBSET Entities]
    BY <1>2, FormType DEF TypeInv
  <2> HIDE DEF F
  <2>2. page' = [page EXCEPT ![s] = F]
    BY <1>7 DEF F
  <2> QED BY <1>3, <1>5, <2>1, <2>2 DEF TypeInv, TypeOK, PageOK, Idle
<1> QED BY <1>4, <1>6, <1>7

\* A closed page is no page.
LEMMA CloseKeepsTypeInv ==
  ASSUME TypeInv, NEW s \in Sessions, Close(s)
  PROVE  TypeInv'
BY DEF Close, TypeInv, TypeOK, PageOK, Idle, NoPage

\* A handler starts with the queue and the target of the page.
LEMMA LoadKeepsTypeInv ==
  ASSUME TypeInv, NEW s \in Sessions, Load(s)
  PROVE  TypeInv'
<1> DEFINE t == page[s].target
           H == [NoHandler EXCEPT
                  !.phase = "loaded", !.target = t, !.loaded = row[t],
                  !.isMerge = Cardinality(queue[s]) >= 2,
                  !.merging = queue[s] \ {t}]
<1>1. t \in Entities /\ Idle(s)
  BY DEF Load, TypeInv, PageOK
<1>2. CASE Redirected(t)
  <2>1. page' = [page EXCEPT ![s] = NoPage]
        /\ UNCHANGED <<row, redirect, queue, handler, commits>>
    BY <1>2 DEF Load
  <2> QED BY <1>1, <2>1 DEF TypeInv, TypeOK, PageOK, Idle, NoPage
<1>3. CASE ~Redirected(t)
  <2>0. row[t] \in Row \cup {Null} /\ queue[s] \ {t} \in SUBSET Entities
    BY <1>1 DEF TypeInv, TypeOK
  <2>1. H \in HandlerType
    <3>1. (Cardinality(queue[s]) >= 2) \in BOOLEAN
      OBVIOUS
    <3> QED BY <1>1, <2>0, <3>1, NoHandlerType DEF HandlerType
  <2>2. H.target = t
    BY DEF NoHandler
  <2>3. handler' = [handler EXCEPT ![s] = H]
        /\ UNCHANGED <<row, redirect, queue, page, commits>>
    BY <1>3 DEF Load
  <2> HIDE DEF H
  <2> QED BY <1>1, <2>1, <2>2, <2>3 DEF TypeInv, TypeOK, PageOK, Idle
<1> QED BY <1>2, <1>3

\* What Process computes for the entities to be saved.
LEMMA WriteTypes ==
  ASSUME TypeInv, NEW s \in Sessions, ~Idle(s), NEW e \in Entities
  PROVE  /\ NextRels(handler[s], page[s], e) \in SUBSET Entities
         /\ Live(page[s].target) =>
              NextAliases(handler[s], page[s]) \in SUBSET Entities
         /\ MergedRow(handler[s], page[s], e) \in Row \cup {Null}
         /\ Others(handler[s], page[s]) \in SUBSET Entities
<1>1. /\ page[s].target \in Entities
      /\ page[s].aliases \in SUBSET Entities
      /\ page[s].added \in SUBSET Entities
      /\ handler[s].loaded \in Row \cup {Null}
      /\ handler[s].merging \in SUBSET Entities
  BY DEF TypeInv, TypeOK, PageOK, HandlerType
<1>2. RowOrBlank(e) \in Row
  BY RowTypes DEF TypeInv
<1>3. NextRels(handler[s], page[s], e) \in SUBSET Entities
  BY <1>1, <1>2, SentinelAssumption DEF NextRels, Row
<1>4. Live(page[s].target) => NextAliases(handler[s], page[s]) \in SUBSET Entities
  BY <1>1, RowTypes DEF NextAliases, Row, TypeInv
<1>5. MergedRow(handler[s], page[s], e) \in Row \cup {Null}
  <2>1. [RowOrBlank(e) EXCEPT !.rels = IF e \in Keys(page[s]) THEN {} ELSE @ \ handler[s].merging] \in Row
    BY <1>2 DEF Row
  <2> QED BY <2>1 DEF MergedRow
<1>6. Others(handler[s], page[s]) \in SUBSET Entities
  <2>1. Keys(page[s]) \in SUBSET Entities
    BY <1>1 DEF Keys
  <2>2. \A m \in handler[s].merging : RowOrBlank(m).rels \in SUBSET Entities
    BY <1>1, RowTypes DEF TypeInv, Row
  <2> QED BY <2>1, <2>2 DEF Others
<1> QED BY <1>3, <1>4, <1>5, <1>6

\* The handler of s after Process, unless the server exits.
Processed(s) ==
  LET h == handler[s]
      p == page[s]
      merged == IF h.isMerge THEN h.merging ELSE {}
      main == IF Live(h.target) THEN {h.target} ELSE {}
      saved == main \cup Others(h, p) \cup merged
  IN [h EXCEPT
       !.phase = "saving",
       !.saved = saved,
       !.write = [e \in Entities |->
         IF e \in merged THEN MergedRow(h, p, e)
         ELSE IF e \in main
         THEN [aliases |-> NextAliases(h, p), rels |-> NextRels(h, p, e)]
         ELSE IF e \in saved
         THEN [row[e] EXCEPT !.rels = NextRels(h, p, e)]
         ELSE Null]]

\* A transaction either finds what it will write, or takes the process down.
LEMMA ProcessCases ==
  ASSUME NEW s \in Sessions, Process(s)
  PROVE  /\ handler[s].phase = "loaded"
         /\ \/ ServerExit
            \/ /\ handler' = [handler EXCEPT ![s] = Processed(s)]
               /\ UNCHANGED <<row, redirect, queue, page, commits>>
BY DEF Process, Processed

\* Every entity other than the target that is saved and not merged is live.
LEMMA OthersLive ==
  ASSUME NEW h, NEW p, NEW e \in Others(h, p)
  PROVE  Live(e) /\ ~Redirected(e) /\ e # p.target /\ e \notin h.merging
BY DEF Others

\* What a transaction will write are rows, or no data.
LEMMA ProcessedType ==
  ASSUME TypeInv, NEW s \in Sessions, ~Idle(s)
  PROVE  Processed(s) \in HandlerType /\ Processed(s).target = handler[s].target
<1> DEFINE h == handler[s]
           p == page[s]
           merged == IF h.isMerge THEN h.merging ELSE {}
           main == IF Live(h.target) THEN {h.target} ELSE {}
           saved == main \cup Others(h, p) \cup merged
           W(e) == IF e \in merged THEN MergedRow(h, page[s], e)
                   ELSE IF e \in main
                   THEN [aliases |-> NextAliases(h, p), rels |-> NextRels(h, p, e)]
                   ELSE IF e \in saved
                   THEN [row[e] EXCEPT !.rels = NextRels(h, p, e)]
                   ELSE Null
<1>1. h \in HandlerType /\ h.target \in Entities /\ p.target = h.target
  BY DEF TypeInv, TypeOK, PageOK
<1>2. merged \in SUBSET Entities /\ main \in SUBSET Entities
  BY <1>1 DEF HandlerType
<1>3. saved \in SUBSET Entities
  <2>1. Others(h, p) \in SUBSET Entities
    BY <1>1, WriteTypes
  <2> HIDE DEF main, merged, h, p
  <2> QED BY <2>1, <1>2
<1>4. ASSUME NEW e \in Entities PROVE W(e) \in Row \cup {Null}
  <2>1. CASE e \in merged
    BY <2>1, WriteTypes
  <2>2. CASE e \in main /\ e \notin merged
    <3>1. Live(p.target)
      BY <1>1, <2>2
    <3>2. NextAliases(h, p) \in SUBSET Entities /\ NextRels(h, p, e) \in SUBSET Entities
      BY <3>1, WriteTypes
    <3>3. W(e) = [aliases |-> NextAliases(h, p), rels |-> NextRels(h, p, e)]
      BY <2>2
    <3> HIDE DEF W, h, p
    <3> QED BY <3>2, <3>3 DEF Row
  <2>3. CASE e \in saved /\ e \notin main /\ e \notin merged
    <3>1. Live(e)
      BY <2>3, OthersLive
    <3>2. NextRels(h, p, e) \in SUBSET Entities /\ row[e] \in Row
      BY <3>1, RowTypes, WriteTypes DEF TypeInv
    <3>3. W(e) = [row[e] EXCEPT !.rels = NextRels(h, p, e)]
      BY <2>3
    <3> HIDE DEF W, h, p
    <3> QED BY <3>2, <3>3 DEF Row
  <2>4. CASE e \notin saved /\ e \notin main /\ e \notin merged
    BY <2>4
  <2> QED BY <2>1, <2>2, <2>3, <2>4
<1>5. Processed(s) = [h EXCEPT !.phase = "saving", !.saved = saved,
                                !.write = [e \in Entities |-> W(e)]]
  BY DEF Processed
<1> DEFINE write == [e \in Entities |-> W(e)]
<1>6. write \in [Entities -> Row \cup {Null}]
  <2> HIDE DEF W
  <2> QED BY <1>4
<1>7. Processed(s) = [h EXCEPT !.phase = "saving", !.saved = saved, !.write = write]
  BY <1>5
<1> HIDE DEF W, write, saved, h
<1> QED BY <1>1, <1>3, <1>6, <1>7 DEF HandlerType, h

\* The transaction keeps the types while it reads.
LEMMA ProcessKeepsTypeInv ==
  ASSUME TypeInv, NEW s \in Sessions, Process(s)
  PROVE  TypeInv'
<1>1. ~Idle(s)
  BY ProcessCases DEF Idle
<1>2. CASE ServerExit
  BY <1>2, ExitKeepsTypeInv
<1>3. CASE /\ handler' = [handler EXCEPT ![s] = Processed(s)]
           /\ UNCHANGED <<row, redirect, queue, page, commits>>
  BY <1>1, <1>3, ProcessedType DEF TypeInv, TypeOK, PageOK, Idle
<1> QED BY <1>2, <1>3, ProcessCases

\* What a commit does, unless the server exits.
Committed(s) ==
  LET h == handler[s]
      new == IF h.isMerge THEN h.merging \X {h.target} ELSE {}
  IN /\ commits < MaxCommits
     /\ redirect' = redirect \cup new
     /\ row' = [e \in Entities |-> IF e \in h.saved THEN h.write[e] ELSE row[e]]
     /\ queue' = [queue EXCEPT ![s] =
          IF h.isMerge /\ h.target \in h.saved THEN {} ELSE @]
     /\ page' = [page EXCEPT ![s] = NoPage]
     /\ handler' = [handler EXCEPT ![s] = NoHandler]
     /\ commits' = commits + 1

\* A commit writes, or its error takes the process down.
LEMMA CommitCases ==
  ASSUME NEW s \in Sessions, Commit(s)
  PROVE  handler[s].phase = "saving" /\ (ServerExit \/ Committed(s))
BY DEF Commit, Committed

\* The redirects and rows that are committed have their types.
LEMMA CommittedKeepsTypeInv ==
  ASSUME TypeInv, NEW s \in Sessions, ~Idle(s), Committed(s)
  PROVE  TypeInv'
<1>1. handler[s] \in HandlerType /\ handler[s].target \in Entities
  BY DEF TypeInv, TypeOK, PageOK
<1>2. row' \in [Entities -> Row \cup {Null}]
  <2>1. \A e \in Entities :
          (IF e \in handler[s].saved THEN handler[s].write[e] ELSE row[e])
            \in Row \cup {Null}
    BY <1>1 DEF HandlerType, TypeInv, TypeOK
  <2> QED BY <2>1 DEF Committed
<1>3. redirect' \subseteq Entities \X Entities
  <2>1. handler[s].merging \subseteq Entities
    BY <1>1 DEF HandlerType
  <2> QED BY <1>1, <2>1 DEF Committed, TypeInv, TypeOK
<1>4. queue' \in [Sessions -> SUBSET Entities]
  BY DEF Committed, TypeInv, TypeOK
<1>5. page' = [page EXCEPT ![s] = NoPage] /\ handler' = [handler EXCEPT ![s] = NoHandler]
  BY DEF Committed
<1>6. commits' \in 0..MaxCommits
  BY BoundAssumption DEF Committed, TypeInv, TypeOK
<1>7. TypeOK'
  BY <1>2, <1>3, <1>4, <1>5, <1>6, NoHandlerType DEF TypeInv, TypeOK, NoPage
<1>8. PageOK'
  BY <1>5 DEF TypeInv, TypeOK, PageOK, Idle, NoPage, NoHandler
<1> QED BY <1>7, <1>8 DEF TypeInv

\* So the commit keeps the types whatever its outcome.
LEMMA CommitKeepsTypeInv ==
  ASSUME TypeInv, NEW s \in Sessions, Commit(s)
  PROVE  TypeInv'
BY CommitCases, ExitKeepsTypeInv, CommittedKeepsTypeInv DEF Idle

\* A deletion removes an entity's data and its relationships at the other ends.
LEMMA DeleteKeepsTypeInv ==
  ASSUME TypeInv, NEW e \in Entities, Delete(e)
  PROVE  TypeInv'
<1>1. UNCHANGED <<redirect, queue, page, handler>> /\ commits' \in 0..MaxCommits
  BY BoundAssumption DEF Delete, TypeInv, TypeOK
<1>2. row' \in [Entities -> Row \cup {Null}]
  <2>1. \A f \in Entities : Live(f) => [row[f] EXCEPT !.rels = @ \ {e}] \in Row
    BY RowTypes DEF TypeInv, Row
  <2> QED BY <2>1 DEF Delete, TypeInv, TypeOK
<1> QED BY <1>1, <1>2 DEF TypeInv, TypeOK, PageOK, Idle

\* Every step keeps the types.
LEMMA NextKeepsTypeInv == TypeInv /\ [Next]_vars => TypeInv'
<1> SUFFICES ASSUME TypeInv, [Next]_vars PROVE TypeInv'
  OBVIOUS
<1>1. CASE UNCHANGED vars
  BY <1>1 DEF vars, TypeInv, TypeOK, PageOK, Idle
<1>2. ASSUME NEW s \in Sessions, NEW e \in Entities,
             Add(s, e) \/ Remove(s, e)
      PROVE  TypeInv'
  BY <1>2, QueueKeepsTypeInv
<1>3. ASSUME NEW s \in Sessions, Cancel(s)
      PROVE  TypeInv'
  <2>1. queue' = [queue EXCEPT ![s] = {}]
        /\ UNCHANGED <<row, redirect, page, handler, commits>>
    BY <1>3 DEF Cancel
  <2> QED BY <2>1 DEF TypeInv, TypeOK, PageOK, Idle
<1>4. ASSUME NEW s \in Sessions, Submit(s) \/ Close(s)
      PROVE  TypeInv'
  BY <1>4, SubmitKeepsTypeInv, CloseKeepsTypeInv
<1>5. ASSUME NEW s \in Sessions, Load(s) \/ Process(s) \/ Commit(s)
      PROVE  TypeInv'
  BY <1>5, LoadKeepsTypeInv, ProcessKeepsTypeInv, CommitKeepsTypeInv
<1>6. ASSUME NEW e \in Entities, Delete(e)
      PROVE  TypeInv'
  BY <1>6, DeleteKeepsTypeInv
<1> QED BY <1>1, <1>2, <1>3, <1>4, <1>5, <1>6 DEF Next

\* Tables, queues, pages and handlers keep their types, whatever overlaps.
THEOREM TypeCorrect == Spec => []TypeOK
<1>1. TypeInv => TypeOK
  BY DEF TypeInv
<1> QED BY InitTypeInv, NextKeepsTypeInv, <1>1, PTL DEF Spec

----------------------------------------------------------------------------
(* Redirects, when handlers run one at a time.                             *)

\* At the start there are no handlers and no redirects.
LEMMA InitMergeInv == Init => MergeInv
<1> SUFFICES ASSUME Init PROVE MergeInv
  OBVIOUS
<1>1. OneHandler /\ TargetStays
  BY DEF Init, OneHandler, TargetStays, Idle, NoHandler
<1>2. RedirectsAcyclic
  BY DEF Init, RedirectsAcyclic
<1> QED BY <1>1, <1>2, InitTypeInv DEF MergeInv

\* A step that leaves handlers and redirects alone.
LEMMA OthersKeepMergeInv ==
  ASSUME MergeInv, TypeInv', UNCHANGED <<redirect, handler>>
  PROVE  MergeInv'
BY DEF MergeInv, OneHandler, TargetStays, RedirectsAcyclic, Idle, Redirected

\* An exit of the process ends the handlers and leaves the redirects.
LEMMA ExitKeepsMergeInv == MergeInv /\ ServerExit => MergeInv'
<1> SUFFICES ASSUME MergeInv, ServerExit PROVE MergeInv'
  OBVIOUS
<1>1. \A s \in Sessions : Idle(s)'
  BY DEF ServerExit, Idle, NoHandler
<1>2. redirect' = redirect
  BY DEF ServerExit
<1> QED BY <1>1, <1>2, ExitKeepsTypeInv
        DEF MergeInv, OneHandler, TargetStays, RedirectsAcyclic

\* A handler starts only when none runs, for a target that is not redirected.
LEMMA LoadKeepsMergeInv ==
  ASSUME MaxInFlight = 1, IsFiniteSet(Sessions), MergeInv,
         NEW s \in Sessions, Load(s), TypeInv'
  PROVE  MergeInv'
<1> DEFINE B == {q \in Sessions : ~Idle(q)}
<1>1. IsFiniteSet(B) /\ Cardinality(B) < 1
  BY FS_Subset DEF Load
<1>2. B = {}
  BY <1>1, FS_EmptySet, FS_CardinalityType
<1>3. redirect' = redirect
  BY DEF Load
<1>4. CASE UNCHANGED handler
  BY <1>3, <1>4, OthersKeepMergeInv
<1>5. CASE ~UNCHANGED handler
  <2> DEFINE t == page[s].target
             H == [NoHandler EXCEPT
                    !.phase = "loaded", !.target = t, !.loaded = row[t],
                    !.isMerge = Cardinality(queue[s]) >= 2,
                    !.merging = queue[s] \ {t}]
  <2>1. handler' = [handler EXCEPT ![s] = H] /\ ~Redirected(t)
    BY <1>5 DEF Load
  <2>2. H.target = t /\ H.merging = queue[s] \ {t}
    BY DEF NoHandler
  <2> HIDE DEF H
  <2>3. OneHandler'
    BY <1>2, <2>1 DEF OneHandler, Idle, MergeInv, TypeInv, TypeOK
  <2>4. TargetStays'
    BY <1>2, <1>3, <2>1, <2>2
       DEF TargetStays, Idle, Redirected, MergeInv, TypeInv, TypeOK
  <2>5. RedirectsAcyclic'
    BY <1>3 DEF MergeInv, RedirectsAcyclic
  <2> QED BY <2>3, <2>4, <2>5 DEF MergeInv
<1> QED BY <1>4, <1>5

\* Reading changes no redirect, target or merged entity.
LEMMA ProcessKeepsMergeInv ==
  ASSUME MergeInv, NEW s \in Sessions, Process(s), TypeInv'
  PROVE  MergeInv'
<1>1. ~Idle(s)
  BY ProcessCases DEF Idle
<1>2. CASE ServerExit
  BY <1>2, ExitKeepsMergeInv
<1>3. CASE /\ handler' = [handler EXCEPT ![s] = Processed(s)]
           /\ UNCHANGED <<row, redirect, queue, page, commits>>
  <2>1. Processed(s).target = handler[s].target
        /\ Processed(s).merging = handler[s].merging
    <3>1. handler[s] \in HandlerType
      BY DEF MergeInv, TypeInv, TypeOK
    <3> QED BY <3>1 DEF Processed, HandlerType
  <2>3. \A q \in Sessions : Idle(q) => Idle(q)'
    BY <1>1, <1>3 DEF Idle, MergeInv, TypeInv, TypeOK
  <2>4. OneHandler'
    BY <2>3 DEF MergeInv, OneHandler
  <2>5. TargetStays'
    BY <1>1, <1>3, <2>1, <2>3 DEF MergeInv, TargetStays, Redirected, TypeInv, TypeOK
  <2>6. RedirectsAcyclic'
    BY <1>3 DEF MergeInv, RedirectsAcyclic
  <2> QED BY <2>4, <2>5, <2>6 DEF MergeInv
<1> QED BY <1>2, <1>3, ProcessCases

\* New redirects lead to an entity without a redirect: in a set that holds the
\* target, the target is redirected to none; in another, nothing has changed.
LEMMA CommittedKeepsAcyclic ==
  ASSUME MergeInv, NEW s \in Sessions, ~Idle(s), Committed(s)
  PROVE  RedirectsAcyclic'
<1> DEFINE t == handler[s].target
<1>1. t \in Entities /\ t \notin handler[s].merging /\ ~Redirected(t)
  BY DEF MergeInv, TargetStays, TypeInv, PageOK
<1>2. \A e, f \in Entities :
        <<e, f>> \in redirect' /\ <<e, f>> \notin redirect
          => e \in handler[s].merging /\ f = t
  BY DEF Committed
<1> SUFFICES ASSUME NEW S \in SUBSET Entities, S # {}
             PROVE  \E e \in S : \A f \in S : <<e, f>> \notin redirect'
  BY DEF RedirectsAcyclic
<1>3. CASE t \in S
  BY <1>1, <1>2, <1>3 DEF Redirected
<1>4. CASE t \notin S
  <2>1. PICK e \in S : \A f \in S : <<e, f>> \notin redirect
    BY DEF MergeInv, RedirectsAcyclic
  <2> QED BY <1>2, <1>4, <2>1
<1> QED BY <1>3, <1>4

\* The handler that commits is the only one, and then none is left.
LEMMA CommitKeepsMergeInv ==
  ASSUME MergeInv, NEW s \in Sessions, Commit(s), TypeInv'
  PROVE  MergeInv'
<1>1. ~Idle(s)
  BY CommitCases DEF Idle
<1>2. CASE ServerExit
  BY <1>2, ExitKeepsMergeInv
<1>3. CASE Committed(s)
  <2>1. handler' = [handler EXCEPT ![s] = NoHandler]
    BY <1>3 DEF Committed
  <2>2. \A q \in Sessions : Idle(q)'
    BY <1>1, <2>1 DEF MergeInv, OneHandler, Idle, NoHandler, TypeInv, TypeOK
  <2>3. OneHandler' /\ TargetStays'
    BY <2>2 DEF OneHandler, TargetStays
  <2>4. RedirectsAcyclic'
    BY <1>1, <1>3, CommittedKeepsAcyclic
  <2> QED BY <2>3, <2>4 DEF MergeInv
<1> QED BY <1>2, <1>3, CommitCases

\* Every step keeps the redirects acyclic.
LEMMA NextKeepsMergeInv ==
  ASSUME MaxInFlight = 1, IsFiniteSet(Sessions), MergeInv, [Next]_vars
  PROVE  MergeInv'
<1>1. TypeInv'
  BY NextKeepsTypeInv DEF MergeInv
<1>2. CASE UNCHANGED <<redirect, handler>>
  BY <1>1, <1>2, OthersKeepMergeInv
<1>3. ASSUME NEW s \in Sessions, Load(s) \/ Process(s) \/ Commit(s)
      PROVE  MergeInv'
  BY <1>1, <1>3, LoadKeepsMergeInv, ProcessKeepsMergeInv, CommitKeepsMergeInv
<1>4. ASSUME NEW s \in Sessions,
             \/ \E e \in Entities : Add(s, e) \/ Remove(s, e)
             \/ Cancel(s) \/ Submit(s) \/ Close(s)
      PROVE  UNCHANGED <<redirect, handler>>
  BY <1>4 DEF Add, Remove, Cancel, Submit, Close
<1>5. ASSUME NEW e \in Entities, Delete(e)
      PROVE  UNCHANGED <<redirect, handler>>
  BY <1>5 DEF Delete
<1>6. CASE UNCHANGED vars
  BY <1>2, <1>6 DEF vars
<1> QED BY <1>2, <1>3, <1>4, <1>5, <1>6 DEF Next

\* With merge handlers one at a time, whatever queues and pages are open, no
\* entity is redirected to itself over others, so following redirects ends.
THEOREM RedirectsAreAcyclic ==
  ASSUME MaxInFlight = 1, IsFiniteSet(Sessions)
  PROVE  Spec => []RedirectsAcyclic
<1>1. MergeInv /\ [Next]_vars => MergeInv'
  BY NextKeepsMergeInv
<1>2. MergeInv => RedirectsAcyclic
  BY DEF MergeInv
<1> QED BY InitMergeInv, <1>1, <1>2, PTL DEF Spec

----------------------------------------------------------------------------
(* Merged entities, when nothing is deleted otherwise.                     *)

\* At the start every entity has data and none is redirected.
LEMMA InitGoneInv == Init => GoneInv
<1> SUFFICES ASSUME Init PROVE GoneInv
  OBVIOUS
<1>1. \A e \in Entities : row[e] \in Row
  BY DEF Init, Row
<1>2. OnlyMergedAreGone /\ RedirectedAreGone
  BY <1>1, SentinelAssumption DEF Init, OnlyMergedAreGone, RedirectedAreGone, Redirected, Live
<1>3. WritesKeepGone
  BY DEF Init, WritesKeepGone, NoHandler
<1> QED BY <1>2, <1>3, InitMergeInv DEF GoneInv

\* A step that leaves rows, redirects and handlers that write alone.
LEMMA OthersKeepGoneInv ==
  ASSUME GoneInv, MergeInv', UNCHANGED <<row, redirect>>,
         \A s \in Sessions : (handler[s].phase = "saving")' => UNCHANGED handler[s]
  PROVE  GoneInv'
<1>1. OnlyMergedAreGone' /\ RedirectedAreGone'
  BY DEF GoneInv, OnlyMergedAreGone, RedirectedAreGone, Redirected, Live
<1>2. WritesKeepGone'
  BY DEF GoneInv, WritesKeepGone, Redirected
<1> QED BY <1>1, <1>2 DEF GoneInv

\* An exit of the process writes nothing.
LEMMA ExitKeepsGoneInv == GoneInv /\ ServerExit => GoneInv'
<1> SUFFICES ASSUME GoneInv, ServerExit PROVE GoneInv'
  OBVIOUS
<1>1. MergeInv'
  BY ExitKeepsMergeInv DEF GoneInv
<1>2. \A s \in Sessions : (handler[s].phase # "saving")'
  BY DEF ServerExit, NoHandler
<1> QED BY <1>1, <1>2, OthersKeepGoneInv DEF ServerExit

\* The target is there, so what is merged is written as gone and all else that
\* is written as there.
LEMMA ProcessedKeepsGone ==
  ASSUME GoneInv, NEW s \in Sessions, ~Idle(s), NEW e \in Processed(s).saved
  PROVE  LET h == handler[s]
             gone == Redirected(e) \/ (h.isMerge /\ e \in h.merging)
         IN /\ gone => Processed(s).write[e] = Null
            /\ ~gone => Processed(s).write[e] # Null
<1> DEFINE h == handler[s]
           p == page[s]
           merged == IF h.isMerge THEN h.merging ELSE {}
           main == IF Live(h.target) THEN {h.target} ELSE {}
           saved == main \cup Others(h, p) \cup merged
<1>1. TypeInv /\ h \in HandlerType /\ h.target \in Entities /\ p.target = h.target
  BY DEF GoneInv, MergeInv, TypeInv, TypeOK, PageOK
<1>2. Live(h.target) /\ ~Redirected(h.target) /\ h.target \notin h.merging
  BY <1>1 DEF GoneInv, MergeInv, TargetStays, OnlyMergedAreGone
<1>3. Processed(s).saved = saved
  BY <1>1 DEF Processed, HandlerType
<1>4. Processed(s).saved \in SUBSET Entities
  BY <1>1, ProcessedType DEF HandlerType
<1>5. Processed(s).write[e] =
        IF e \in merged THEN MergedRow(h, page[s], e)
        ELSE IF e \in main
        THEN [aliases |-> NextAliases(h, p), rels |-> NextRels(h, p, e)]
        ELSE IF e \in saved
        THEN [row[e] EXCEPT !.rels = NextRels(h, p, e)]
        ELSE Null
  BY <1>1, <1>4 DEF Processed, HandlerType
<1>6. CASE e \in merged
  <2>1. Processed(s).write[e] = Null
    BY <1>2, <1>5, <1>6 DEF MergedRow
  <2> QED BY <1>6, <2>1
<1>7. CASE e \notin merged
  <2>1. e \in main \/ e \in Others(h, p)
    <3> HIDE DEF main, merged, h, p
    <3> QED BY <1>3, <1>7
  <2>2. ~Redirected(e) /\ ~(h.isMerge /\ e \in h.merging)
    BY <1>2, <1>7, <2>1, OthersLive
  <2>3. Processed(s).write[e] # Null
    <3>1. CASE e \in main
      <4>1. NextAliases(h, p) \in SUBSET Entities /\ NextRels(h, p, e) \in SUBSET Entities
        BY <1>1, <1>2, <1>4, WriteTypes
      <4>2. [aliases |-> NextAliases(h, p), rels |-> NextRels(h, p, e)] \in Row
        BY <4>1 DEF Row
      <4>3. Processed(s).write[e]
              = [aliases |-> NextAliases(h, p), rels |-> NextRels(h, p, e)]
        BY <1>5, <1>7, <3>1
      <4> QED BY <4>2, <4>3, SentinelAssumption
    <3>2. CASE e \in Others(h, p) /\ e \notin main
      <4>1. Live(e)
        BY <3>2, OthersLive
      <4>2. row[e] \in Row /\ NextRels(h, p, e) \in SUBSET Entities
        BY <1>1, <1>4, <4>1, RowTypes, WriteTypes DEF TypeInv
      <4>3. [row[e] EXCEPT !.rels = NextRels(h, p, e)] \in Row
        BY <4>2 DEF Row
      <4>4. Processed(s).write[e] = [row[e] EXCEPT !.rels = NextRels(h, p, e)]
        BY <1>5, <1>7, <3>2
      <4> QED BY <4>3, <4>4, SentinelAssumption
    <3> QED BY <2>1, <3>1, <3>2
  <2> QED BY <2>2, <2>3
<1> QED BY <1>6, <1>7

\* The transaction writes no data for what it merges, and data for what is live.
LEMMA ProcessKeepsGoneInv ==
  ASSUME GoneInv, NEW s \in Sessions, Process(s), MergeInv'
  PROVE  GoneInv'
<1>1. ~Idle(s)
  BY ProcessCases DEF Idle
<1>2. CASE ServerExit
  BY <1>2, ExitKeepsGoneInv
<1>3. CASE /\ handler' = [handler EXCEPT ![s] = Processed(s)]
           /\ UNCHANGED <<row, redirect, queue, page, commits>>
  <2>1. OnlyMergedAreGone' /\ RedirectedAreGone'
    BY <1>3 DEF GoneInv, OnlyMergedAreGone, RedirectedAreGone, Redirected, Live
  <2>2. handler[s] \in HandlerType /\ handler \in [Sessions -> HandlerType]
    BY DEF GoneInv, MergeInv, TypeInv, TypeOK
  <2>3. /\ Processed(s).isMerge = handler[s].isMerge
        /\ Processed(s).merging = handler[s].merging
        /\ handler[s].isMerge => handler[s].merging \subseteq Processed(s).saved
    BY <2>2 DEF Processed, HandlerType
  <2>4. \A q \in Sessions : q # s => handler'[q] = handler[q]
    BY <1>3, <2>2
  <2>5. handler'[s] = Processed(s)
    BY <1>3, <2>2
  <2>6. WritesKeepGone'
    <3> SUFFICES ASSUME NEW q \in Sessions, handler'[q].phase = "saving"
                 PROVE  (WritesKeepGone!(q)!2)'
      BY DEF WritesKeepGone
    <3>1. CASE q = s
      BY <1>1, <1>3, <2>3, <2>5, <3>1, ProcessedKeepsGone DEF Redirected
    <3>2. CASE q # s
      BY <1>3, <2>4, <3>2 DEF GoneInv, WritesKeepGone, Redirected
    <3> QED BY <3>1, <3>2
  <2> QED BY <2>1, <2>6 DEF GoneInv
<1> QED BY <1>2, <1>3, ProcessCases

\* The merged entities lose their data as they are redirected.
LEMMA CommitKeepsGoneInv ==
  ASSUME GoneInv, NEW s \in Sessions, Commit(s), MergeInv'
  PROVE  GoneInv'
<1>1. ~Idle(s) /\ handler[s].phase = "saving"
  BY CommitCases DEF Idle
<1>2. CASE ServerExit
  BY <1>2, ExitKeepsGoneInv
<1>3. CASE Committed(s)
  <2> DEFINE h == handler[s]
             gone(e) == Redirected(e) \/ (h.isMerge /\ e \in h.merging)
  <2>1. h \in HandlerType /\ h.target \in Entities
    BY <1>1 DEF GoneInv, MergeInv, TypeInv, TypeOK, PageOK
  <2>2. \A e \in Entities : Redirected(e)' <=> gone(e)
    BY <1>3, <2>1 DEF Committed, Redirected
  <2>3. \A e \in Entities : row'[e] = IF e \in h.saved THEN h.write[e] ELSE row[e]
    BY <1>3 DEF Committed
  <2>4. \A e \in h.saved : (gone(e) => h.write[e] = Null) /\ (~gone(e) => h.write[e] # Null)
    BY <1>1 DEF GoneInv, WritesKeepGone
  <2>5. h.isMerge => h.merging \subseteq h.saved
    BY <1>1 DEF GoneInv, WritesKeepGone
  <2>6. \A e \in Entities \ h.saved : gone(e) <=> Redirected(e)
    BY <2>5
  <2>7. OnlyMergedAreGone'
    BY <2>2, <2>3, <2>4, <2>6 DEF GoneInv, OnlyMergedAreGone, Live
  <2>8. RedirectedAreGone'
    BY <2>2, <2>3, <2>4, <2>6 DEF GoneInv, RedirectedAreGone, Live
  <2>9. WritesKeepGone'
    <3>1. handler' = [handler EXCEPT ![s] = NoHandler]
      BY <1>3 DEF Committed
    <3>2. \A q \in Sessions : (handler[q].phase # "saving")'
      BY <1>1, <3>1 DEF GoneInv, MergeInv, OneHandler, Idle, NoHandler, TypeInv, TypeOK
    <3> QED BY <3>2 DEF WritesKeepGone
  <2> QED BY <2>7, <2>8, <2>9 DEF GoneInv
<1> QED BY <1>2, <1>3, CommitCases

\* Every step keeps merged entities without data.
LEMMA NextKeepsGoneInv ==
  ASSUME MaxInFlight = 1, IsFiniteSet(Sessions), Deletions = FALSE,
         GoneInv, [Next]_vars
  PROVE  GoneInv'
<1>1. MergeInv'
  BY NextKeepsMergeInv DEF GoneInv
<1>2. CASE UNCHANGED <<row, redirect, handler>>
  BY <1>1, <1>2, OthersKeepGoneInv
<1>3. ASSUME NEW s \in Sessions, Load(s)
      PROVE  GoneInv'
  <2>1. \A q \in Sessions : (handler[q].phase = "saving")' => UNCHANGED handler[q]
    BY ZenonT(40), <1>3 DEF Load, NoHandler, GoneInv, MergeInv, TypeInv, TypeOK
  <2> QED BY <1>1, <1>3, <2>1, OthersKeepGoneInv DEF Load
<1>4. ASSUME NEW s \in Sessions, Process(s) \/ Commit(s)
      PROVE  GoneInv'
  BY <1>1, <1>4, ProcessKeepsGoneInv, CommitKeepsGoneInv
<1>5. ASSUME NEW s \in Sessions,
             \/ \E e \in Entities : Add(s, e) \/ Remove(s, e)
             \/ Cancel(s) \/ Submit(s) \/ Close(s)
      PROVE  UNCHANGED <<row, redirect, handler>>
  BY <1>5 DEF Add, Remove, Cancel, Submit, Close
<1>6. CASE UNCHANGED vars
  BY <1>2, <1>6 DEF vars
<1> QED BY <1>2, <1>3, <1>4, <1>5, <1>6 DEF Next, Delete

\* With merge handlers one at a time and nothing deleted, a merged entity has no
\* data of its own left, and only merged entities have none.
THEOREM MergedEntitiesAreGone ==
  ASSUME MaxInFlight = 1, IsFiniteSet(Sessions), Deletions = FALSE
  PROVE  Spec => []RedirectedAreGone
<1>1. GoneInv /\ [Next]_vars => GoneInv'
  BY NextKeepsGoneInv
<1>2. GoneInv => RedirectedAreGone
  BY DEF GoneInv
<1> QED BY InitGoneInv, <1>1, <1>2, PTL DEF Spec

----------------------------------------------------------------------------
(* Queues.                                                                 *)

\* What is redirected is of the type of what it is redirected to; and a handler that
\* merges has the queue and the target its page was submitted with.
RedirectsOfType == \A d \in redirect : Type(d[1]) = Type(d[2])
MergesOfQueue ==
  \A s \in Sessions :
    /\ ~Idle(s) => handler[s].merging = queue[s] \ {handler[s].target}
    /\ handler[s].phase = "saving" /\ handler[s].isMerge => handler[s].target \in queue[s]

QueueInv == TypeInv /\ QueueOneType /\ RedirectsOfType /\ MergesOfQueue

\* Following redirects leads to entities of the same type.
LEMMA FinalsOfType ==
  ASSUME TypeOK, RedirectsOfType, NEW e \in Entities, NEW f \in Finals(e)
  PROVE  f \in Entities /\ Type(f) = Type(e)
<1> DEFINE S == {g \in Entities : Type(g) = Type(e)}
<1>1. \A d \in redirect : d[1] \in S => d[2] \in S
  BY DEF TypeOK, RedirectsOfType
<1>2. S \in SUBSET Entities /\ e \in S
  OBVIOUS
<1>3. f \in Path(e)
  BY DEF Finals
<1>4. f \in S
  <2> HIDE DEF S
  <2> QED
    BY <1>1, <1>2, <1>3 DEF Path
<1> QED
  BY <1>4

\* Steps that change no redirect and no handler but to leave it idle, and that
\* leave the queues of sessions that are not idle alone.
LEMMA QueuesKeepInv ==
  ASSUME QueueInv, TypeInv', UNCHANGED redirect, QueueOneType',
         \A s \in Sessions : \/ Idle(s)'
                             \/ handler'[s] = handler[s] /\ queue'[s] = queue[s]
  PROVE  QueueInv'
<1>1. RedirectsOfType'
  BY DEF QueueInv, RedirectsOfType
<1>2. MergesOfQueue'
  BY DEF QueueInv, MergesOfQueue, Idle
<1> QED
  BY <1>1, <1>2 DEF QueueInv

LEMMA AddKeepsQueueInv ==
  ASSUME QueueInv, NEW s \in Sessions, NEW e \in Entities, Add(s, e)
  PROVE  QueueInv'
<1>1. PICK f \in Finals(e) :
        queue' = [queue EXCEPT ![s] = {f} \cup {g \in @ : \A h \in @ : Type(h) = Type(f)}]
  BY DEF Add
<1>2. queue \in [Sessions -> SUBSET Entities]
  BY DEF QueueInv, TypeInv, TypeOK
<1>3. queue'[s] = {f} \cup {g \in queue[s] : \A h \in queue[s] : Type(h) = Type(f)}
      /\ \A r \in Sessions \ {s} : queue'[r] = queue[r]
  BY <1>1, <1>2
<1>4. \A g \in queue'[s] : Type(g) = Type(f)
  BY <1>3
<1>5. QueueOneType'
  <2> SUFFICES ASSUME NEW r \in Sessions, NEW g \in queue'[r], NEW h \in queue'[r]
               PROVE  Type(g) = Type(h)
    BY DEF QueueOneType
  <2>1. CASE r = s
    BY <2>1, <1>4
  <2>2. CASE r # s
    BY <2>2, <1>3 DEF QueueInv, QueueOneType
  <2> QED
    BY <2>1, <2>2
<1>6. TypeInv'
  BY QueueKeepsTypeInv DEF QueueInv
<1> QED
  BY <1>3, <1>5, <1>6, QueuesKeepInv DEF Add, QueueFree, Idle

LEMMA SubmitKeepsQueueInv ==
  ASSUME QueueInv, NEW s \in Sessions, Submit(s)
  PROVE  QueueInv'
<1>1. PICK fetched \in [queue[s] -> Entities] :
        /\ \A e \in queue[s] : fetched[e] \in Finals(e)
        /\ queue' = [queue EXCEPT ![s] = @ \cup {fetched[e] : e \in queue[s]}]
  BY DEF Submit
<1>2. queue \in [Sessions -> SUBSET Entities]
  BY DEF QueueInv, TypeInv, TypeOK
<1>3. queue'[s] = queue[s] \cup {fetched[e] : e \in queue[s]}
      /\ \A r \in Sessions \ {s} : queue'[r] = queue[r]
  BY <1>1, <1>2
\* All there and all that is put there is of the type of any that was there.
<1>4. \A e \in queue[s] : Type(fetched[e]) = Type(e)
  BY <1>1, <1>2, FinalsOfType DEF QueueInv, TypeInv
<1>5. \A g \in queue'[s] : \E e \in queue[s] : Type(g) = Type(e)
  BY <1>3, <1>4
<1>6. QueueOneType'
  <2> SUFFICES ASSUME NEW r \in Sessions, NEW g \in queue'[r], NEW h \in queue'[r]
               PROVE  Type(g) = Type(h)
    BY DEF QueueOneType
  <2>1. CASE r = s
    <3>1. PICK a \in queue[s], b \in queue[s] : Type(g) = Type(a) /\ Type(h) = Type(b)
      BY <2>1, <1>5
    <3> QED
      BY <3>1 DEF QueueInv, QueueOneType
  <2>2. CASE r # s
    BY <2>2, <1>3 DEF QueueInv, QueueOneType
  <2> QED
    BY <2>1, <2>2
<1>7. TypeInv'
  BY SubmitKeepsTypeInv DEF QueueInv
<1> QED
  BY <1>3, <1>6, <1>7, QueuesKeepInv DEF Submit, Idle

\* What a handler starts with is of its session's queue.
LEMMA LoadKeepsQueueInv ==
  ASSUME QueueInv, NEW s \in Sessions, Load(s)
  PROVE  QueueInv'
<1>1. TypeInv' /\ UNCHANGED <<queue, redirect>>
  BY LoadKeepsTypeInv DEF Load, QueueInv
<1>2. QueueOneType' /\ RedirectsOfType'
  BY <1>1 DEF QueueInv, QueueOneType, RedirectsOfType
<1>3. MergesOfQueue'
  <2>1. CASE UNCHANGED handler
    BY <1>1, <2>1 DEF QueueInv, MergesOfQueue, Idle
  <2>2. CASE handler # handler'
    <3> DEFINE t == page[s].target
               H == [NoHandler EXCEPT
                      !.phase = "loaded", !.target = t, !.loaded = row[t],
                      !.isMerge = Cardinality(queue[s]) >= 2,
                      !.merging = queue[s] \ {t}]
    <3>1. handler' = [handler EXCEPT ![s] = H]
      BY <2>2 DEF Load
    <3>2. H.phase = "loaded" /\ H.target = t /\ H.merging = queue[s] \ {t}
      BY DEF NoHandler
    <3> HIDE DEF H
    <3>3. handler'[s] = H /\ \A r \in Sessions \ {s} : handler'[r] = handler[r]
      BY <3>1 DEF QueueInv, TypeInv, TypeOK
    <3> QED
      BY <3>2, <3>3, <1>1 DEF QueueInv, MergesOfQueue, Idle
  <2> QED
    BY <2>1, <2>2
<1> QED
  BY <1>1, <1>2, <1>3 DEF QueueInv

\* Idle handlers have nothing to keep.
LEMMA ExitKeepsQueueInv == QueueInv /\ ServerExit => QueueInv'
<1> SUFFICES ASSUME QueueInv, ServerExit PROVE QueueInv'
  OBVIOUS
<1>1. TypeInv' /\ UNCHANGED <<queue, redirect>> /\ \A s \in Sessions : Idle(s)'
  BY ExitKeepsTypeInv DEF QueueInv, ServerExit, Idle, NoHandler
<1>2. QueueOneType'
  BY <1>1 DEF QueueInv, QueueOneType
<1> QED
  BY <1>1, <1>2, QueuesKeepInv

\* A handler that is to merge was refused unless its target is in the queue.
LEMMA ProcessKeepsQueueInv ==
  ASSUME QueueInv, NEW s \in Sessions, Process(s)
  PROVE  QueueInv'
<1>1. CASE ServerExit
  BY <1>1, ExitKeepsQueueInv
<1>2. CASE ~ServerExit
  <2>1. /\ handler' = [handler EXCEPT ![s] = Processed(s)] /\ UNCHANGED <<redirect, queue>>
        /\ handler[s].phase = "loaded"
    BY <1>2, ProcessCases
  <2>2. handler[s].isMerge => handler[s].target \in queue[s]
    BY <1>2 DEF Process
  <2>3. handler[s] \in HandlerType
    BY DEF QueueInv, TypeInv, TypeOK
  <2>4. /\ handler'[s] = Processed(s)
        /\ \A r \in Sessions \ {s} : handler'[r] = handler[r]
    BY <2>1 DEF QueueInv, TypeInv, TypeOK
  <2>5. /\ Processed(s).merging = handler[s].merging /\ Processed(s).isMerge = handler[s].isMerge
        /\ Processed(s).target = handler[s].target
    BY <2>3 DEF Processed, HandlerType
  <2>6. TypeInv' /\ QueueOneType' /\ RedirectsOfType'
    BY <2>1, ProcessKeepsTypeInv DEF QueueInv, QueueOneType, RedirectsOfType
  <2>7. MergesOfQueue'
    <3> SUFFICES ASSUME NEW r \in Sessions
                 PROVE  /\ handler'[r].phase # "idle" =>
                             handler'[r].merging = queue[r] \ {handler'[r].target}
                        /\ handler'[r].phase = "saving" /\ handler'[r].isMerge =>
                             handler'[r].target \in queue[r]
      BY <2>1 DEF MergesOfQueue, Idle
    <3>1. CASE r = s
      BY <3>1, <2>1, <2>2, <2>4, <2>5 DEF QueueInv, MergesOfQueue, Idle
    <3>2. CASE r # s
      BY <3>2, <2>4 DEF QueueInv, MergesOfQueue, Idle
    <3> QED
      BY <3>1, <3>2
  <2> QED
    BY <2>6, <2>7 DEF QueueInv
<1> QED
  BY <1>1, <1>2

\* A merge redirects entities of its queue to one of them.
LEMMA CommitKeepsQueueInv ==
  ASSUME QueueInv, NEW s \in Sessions, Commit(s)
  PROVE  QueueInv'
<1>1. CASE ServerExit
  BY <1>1, ExitKeepsQueueInv
<1>2. CASE Committed(s) /\ handler[s].phase = "saving"
  <2> DEFINE h == handler[s]
  <2>1. \A d \in redirect' : d \in redirect \/ (h.isMerge /\ d[1] \in h.merging /\ d[2] = h.target)
    BY <1>2 DEF Committed
  <2>2. h.isMerge => h.target \in queue[s] /\ \A e \in h.merging : e \in queue[s]
    BY <1>2 DEF QueueInv, MergesOfQueue, Idle
  <2>3. RedirectsOfType'
    BY <2>1, <2>2 DEF QueueInv, RedirectsOfType, QueueOneType
  <2>4. /\ \A r \in Sessions \ {s} : queue'[r] = queue[r] /\ handler'[r] = handler[r]
        /\ queue'[s] \subseteq queue[s] /\ handler'[s] = NoHandler
    BY <1>2 DEF Committed, QueueInv, TypeInv, TypeOK
  <2>5. QueueOneType'
    BY <2>4 DEF QueueInv, QueueOneType
  <2>6. NoHandler.phase = "idle"
    BY DEF NoHandler
  <2>7. MergesOfQueue'
    BY <2>4, <2>6 DEF QueueInv, MergesOfQueue, Idle
  <2>8. TypeInv'
    BY CommitKeepsTypeInv DEF QueueInv
  <2> QED
    BY <2>3, <2>5, <2>7, <2>8 DEF QueueInv
<1> QED
  BY <1>1, <1>2, CommitCases

LEMMA NextKeepsQueueInv == QueueInv /\ [Next]_vars => QueueInv'
<1> SUFFICES ASSUME QueueInv, [Next]_vars PROVE QueueInv'
  OBVIOUS
<1>1. TypeInv' /\ queue \in [Sessions -> SUBSET Entities]
  BY NextKeepsTypeInv DEF QueueInv, TypeInv, TypeOK
<1>2. CASE UNCHANGED <<queue, redirect, handler>>
  BY <1>1, <1>2, QueuesKeepInv DEF QueueInv, QueueOneType
<1>3. ASSUME NEW s \in Sessions, Cancel(s) \/ \E e \in Entities : Remove(s, e)
      PROVE  QueueInv'
  <2>1. /\ UNCHANGED <<redirect, handler>> /\ Idle(s) /\ queue'[s] \subseteq queue[s]
        /\ \A r \in Sessions \ {s} : queue'[r] = queue[r]
    BY <1>1, <1>3 DEF Cancel, Remove, QueueFree
  <2>2. QueueOneType'
    BY <2>1 DEF QueueInv, QueueOneType
  <2> QED
    BY <1>1, <2>1, <2>2, QueuesKeepInv DEF Idle
<1>4. ASSUME NEW s \in Sessions, NEW e \in Entities, Add(s, e)
      PROVE  QueueInv'
  BY <1>4, AddKeepsQueueInv
<1>5. ASSUME NEW s \in Sessions, Submit(s) \/ Load(s) \/ Process(s) \/ Commit(s)
      PROVE  QueueInv'
  BY <1>5, SubmitKeepsQueueInv, LoadKeepsQueueInv, ProcessKeepsQueueInv, CommitKeepsQueueInv
<1>6. CASE (\E s \in Sessions : Close(s)) \/ (\E e \in Entities : Delete(e)) \/ UNCHANGED vars
  BY <1>2, <1>6 DEF Close, Delete, vars
<1> QED
  BY <1>3, <1>4, <1>5, <1>6 DEF Next

\* A queue holds entities of one type, however many handlers merge while it is filled
\* and whatever its session does with an open page: what it is filled with has been
\* compared, and redirects, which /merge/submit follows, stay within a type.
THEOREM QueuesAreOfOneType == Spec => []QueueOneType
<1>1. Init => QueueInv
  BY InitTypeInv DEF Init, QueueInv, QueueOneType, RedirectsOfType, MergesOfQueue, Idle, NoHandler
<1>2. QueueInv => QueueOneType
  BY DEF QueueInv
<1> QED
  BY <1>1, <1>2, NextKeepsQueueInv, PTL DEF Spec

----------------------------------------------------------------------------
(* What merges keep, for one editor who leaves the queue to an open page.  *)

\* What a queue holds is there, so that no redirect is followed from it.
QueueLive(s) == \A e \in queue[s] : Live(e)

\* An open page shows the entities of the queue as they are.
PageFits(s) == page[s] # NoPage =>
  /\ page[s].target \in queue[s]
  /\ Cardinality(queue[s]) >= 2
  /\ page[s].aliases = UNION {row[e].aliases : e \in queue[s]}
  /\ page[s].added = {IF f \in queue[s] THEN page[s].target ELSE f :
                         f \in UNION {row[e].rels : e \in queue[s] \ {page[s].target}}}

\* A handler merges the queue into the target of the page.
HandlerFits(s) == ~Idle(s) =>
  /\ page[s] # NoPage
  /\ handler[s].target = page[s].target
  /\ handler[s].isMerge
  /\ handler[s].merging = queue[s] \ {page[s].target}
  /\ handler[s].loaded = row[page[s].target]

\* It writes to the target what all of the queue have, and to the entities related to
\* them that they are related to the target.
WritesAll(s) == handler[s].phase = "saving" =>
  /\ handler[s].saved = queue[s] \cup page[s].added
  /\ handler[s].write[page[s].target] =
       [aliases |-> page[s].aliases,
        rels |-> (row[page[s].target].rels \cup page[s].added) \ handler[s].merging]
  /\ \A e \in page[s].added \ {page[s].target} : handler[s].write[e] =
       [aliases |-> row[e].aliases,
        rels |-> (row[e].rels \cup {page[s].target}) \ handler[s].merging]

KeepInv ==
  /\ GoneInv /\ NothingLost /\ RelationshipsFollow
  /\ \A s \in Sessions : QueueLive(s) /\ PageFits(s) /\ HandlerFits(s) /\ WritesAll(s)

----------------------------------------------------------------------------
(* Where redirects lead.                                                   *)

\* A set that holds an entity and is closed under redirects holds its path.
LEMMA PathWithin ==
  ASSUME NEW e \in Entities, NEW S \in SUBSET Entities, e \in S,
         \A d \in redirect : d[1] \in S => d[2] \in S
  PROVE  Path(e) \subseteq S
BY DEF Path

\* A path starts with the entity and goes on with each redirect.
LEMMA PathGoesOn ==
  ASSUME redirect \subseteq Entities \X Entities, NEW e \in Entities
  PROVE  /\ e \in Path(e)
         /\ \A d \in redirect : d[1] \in Path(e) => d[2] \in Path(e)
BY DEF Path

\* An entity that is not redirected is where its redirects end.
LEMMA FinalOfUnredirected ==
  ASSUME redirect \subseteq Entities \X Entities, NEW e \in Entities, ~Redirected(e)
  PROVE  Finals(e) = {e}
<1>1. \A d \in redirect : d[1] # e
  <2> SUFFICES ASSUME NEW d \in redirect, d[1] = e PROVE FALSE
    OBVIOUS
  <2>1. d = <<e, d[2]>> /\ d[2] \in Entities
    OBVIOUS
  <2> QED BY <2>1 DEF Redirected
<1>2. Path(e) = {e}
  <2>1. Path(e) \subseteq {e}
    <3>1. {e} \in SUBSET Entities /\ \A d \in redirect : d[1] \in {e} => d[2] \in {e}
      BY <1>1
    <3> QED BY <3>1, PathWithin
  <2> QED BY <2>1, PathGoesOn
<1> QED BY <1>2 DEF Finals

\* The ends are the same as long as the redirects are.
LEMMA FinalsKept ==
  ASSUME UNCHANGED redirect, NEW e
  PROVE  Finals(e)' = Finals(e)
<1>1. Path(e)' = Path(e)
  BY DEF Path
<1>2. \A f : Redirected(f)' = Redirected(f)
  BY DEF Redirected
<1> QED BY <1>1, <1>2 DEF Finals

\* After a merge redirects end where they did, or at the target if they came by
\* an entity that was merged.
LEMMA FinalsMerged ==
  ASSUME redirect \subseteq Entities \X Entities,
         NEW t \in Entities, NEW M \in SUBSET Entities, ~Redirected(t), t \notin M,
         redirect' = redirect \cup (M \X {t}), NEW e \in Entities, NEW f \in Finals(e)'
  PROVE  \/ f \in Finals(e) /\ f \notin M
         \/ f = t /\ \E m \in M : m \in Path(e)
<1> DEFINE S == Path(e) \cup (IF M \cap Path(e) = {} THEN {} ELSE {t})
<1>1. f \in Path(e)' /\ ~Redirected(f)' /\ f \in Entities
  BY DEF Finals, Path
<1>2. S \in SUBSET Entities /\ e \in S
  BY PathGoesOn DEF Path
<1>3. \A d \in redirect' : d[1] \in S => d[2] \in S
  <2> SUFFICES ASSUME NEW d \in redirect', d[1] \in S PROVE d[2] \in S
    OBVIOUS
  <2>1. CASE d \in redirect
    <3>1. d[1] # t
      BY <2>1 DEF Redirected
    <3>2. d[1] \in Path(e)
      BY <3>1
    <3> QED BY <2>1, <3>2, PathGoesOn
  <2>2. CASE d \in M \X {t}
    <3>1. d[1] \in M /\ d[2] = t
      BY <2>2
    <3> QED BY <3>1
  <2> QED BY <2>1, <2>2
<1>4. f \in S
  <2> HIDE DEF S
  <2> QED BY <1>1, <1>2, <1>3 DEF Path
<1>5. ~Redirected(f) /\ f \notin M
  BY <1>1 DEF Redirected
<1>6. CASE f \in Path(e)
  BY <1>5, <1>6 DEF Finals
<1>7. CASE f \notin Path(e)
  BY <1>4, <1>7
<1> QED BY <1>6, <1>7

----------------------------------------------------------------------------
(* The steps up to the commit.                                             *)

\* At the start every entity has itself, and relationships are pairs.
LEMMA InitKeepInv == Init => KeepInv
<1> SUFFICES ASSUME Init PROVE KeepInv
  OBVIOUS
<1>1. GoneInv
  BY InitGoneInv
<1>2. \A e \in Entities : Live(e) /\ ~Redirected(e) /\ e \in row[e].aliases
  <2>1. \A e \in Entities : ~Redirected(e) /\ e \in row[e].aliases
    BY DEF Init, Redirected
  <2> QED BY <1>1, <2>1 DEF GoneInv, OnlyMergedAreGone
<1>3. NothingLost
  <2>1. redirect \subseteq Entities \X Entities
    BY DEF Init
  <2>2. \A e \in Entities : Finals(e) = {e}
    BY <1>2, <2>1, FinalOfUnredirected
  <2> QED BY <1>2, <2>2 DEF NothingLost
<1>4. RelationshipsFollow
  BY <1>2 DEF Init, RelationshipsFollow
<1>5. ASSUME NEW s \in Sessions
      PROVE  QueueLive(s) /\ PageFits(s) /\ HandlerFits(s) /\ WritesAll(s)
  BY DEF Init, QueueLive, PageFits, HandlerFits, WritesAll, Idle, NoHandler
<1> QED BY <1>1, <1>3, <1>4, <1>5 DEF KeepInv

\* The only session is the one that takes the step; the rows stay as they are.
LEMMA SessionKeeps ==
  ASSUME KeepInv, GoneInv', UNCHANGED <<row, redirect>>,
         \A s \in Sessions : /\ QueueLive(s)' /\ PageFits(s)'
                             /\ HandlerFits(s)' /\ WritesAll(s)'
  PROVE  KeepInv'
<1>1. NothingLost'
  BY FinalsKept DEF KeepInv, NothingLost, Live
<1>2. RelationshipsFollow'
  BY DEF KeepInv, RelationshipsFollow, Live
<1> QED BY <1>1, <1>2 DEF KeepInv

\* An exit of the process leaves the queue, and a page that no handler worked on.
LEMMA ExitKeeps ==
  ASSUME KeepInv, GoneInv', ServerExit
  PROVE  KeepInv'
<1>1. UNCHANGED <<row, redirect>>
  BY DEF ServerExit
<1>2. ASSUME NEW s \in Sessions
      PROVE  QueueLive(s)' /\ PageFits(s)' /\ HandlerFits(s)' /\ WritesAll(s)'
  <2>1. /\ handler'[s] = NoHandler /\ page'[s] \in {page[s], NoPage}
        /\ UNCHANGED <<row, queue>>
    BY DEF ServerExit
  <2>2. QueueLive(s)'
    BY <2>1 DEF KeepInv, QueueLive, Live
  <2>3. PageFits(s)'
    BY <2>1 DEF KeepInv, PageFits
  <2>4. HandlerFits(s)' /\ WritesAll(s)'
    BY <2>1 DEF HandlerFits, WritesAll, Idle, NoHandler
  <2> QED BY <2>2, <2>3, <2>4
<1> QED BY <1>1, <1>2, SessionKeeps

\* Without a page the queue changes, by entities that are there.
LEMMA QueueKeeps ==
  ASSUME OnePage = TRUE, \A q, s \in Sessions : q = s, KeepInv, GoneInv', NEW s \in Sessions,
         (\E e \in Entities : Add(s, e) \/ Remove(s, e)) \/ Cancel(s)
  PROVE  KeepInv'
<1>1. /\ UNCHANGED <<row, redirect, page, handler>>
      /\ Idle(s) /\ page[s] = NoPage
  BY DEF Add, Remove, Cancel, QueueFree
<1>2. \A e \in queue'[s] : Live(e)
  BY DEF Add, Remove, Cancel, KeepInv, QueueLive, GoneInv, MergeInv, TypeInv, TypeOK
<1>3. QueueLive(s)'
  BY <1>1, <1>2 DEF QueueLive, Live
<1>4. PageFits(s)' /\ HandlerFits(s)' /\ WritesAll(s)'
  BY <1>1 DEF PageFits, HandlerFits, WritesAll, Idle
<1> QED BY <1>1, <1>3, <1>4, SessionKeeps

\* The entities of the queue are where redirects end: the page shows just them.
LEMMA SubmitKeeps ==
  ASSUME OnePage = TRUE, \A q, s \in Sessions : q = s, KeepInv, GoneInv',
         NEW s \in Sessions, Submit(s)
  PROVE  KeepInv'
<1>1. /\ UNCHANGED <<row, redirect, handler>>
      /\ Idle(s) /\ page[s] = NoPage /\ Cardinality(queue[s]) >= 2
      /\ queue[s] \in SUBSET Entities /\ redirect \subseteq Entities \X Entities
      /\ queue \in [Sessions -> SUBSET Entities]
  BY DEF Submit, KeepInv, GoneInv, MergeInv, TypeInv, TypeOK
<1>2. PICK fetched \in [queue[s] -> Entities] :
        /\ \A e \in queue[s] : fetched[e] \in Finals(e)
        /\ LET S == {fetched[e] : e \in queue[s]}
           IN /\ queue' = [queue EXCEPT ![s] = @ \cup S]
              /\ IF Cardinality(S) < Cardinality(queue[s])
                 THEN UNCHANGED page
                 ELSE \E target \in S : page' = [page EXCEPT ![s] = Form(target, S)]
  BY DEF Submit
<1>3. \A e \in queue[s] : Live(e) /\ fetched[e] = e
  <2> SUFFICES ASSUME NEW e \in queue[s] PROVE Live(e) /\ fetched[e] = e
    OBVIOUS
  <2>1. Live(e) /\ e \in Entities
    BY <1>1 DEF KeepInv, QueueLive
  <2>2. ~Redirected(e)
    BY <2>1 DEF KeepInv, GoneInv, RedirectedAreGone
  <2>3. Finals(e) = {e}
    BY <1>1, <2>1, <2>2, FinalOfUnredirected
  <2> QED BY <1>2, <2>1, <2>3
<1>4. {fetched[e] : e \in queue[s]} = queue[s]
  BY <1>3
<1>5. queue' = queue
  BY <1>1, <1>2, <1>4
<1>6. page'[s] = NoPage \/ \E target \in queue[s] : page'[s] = Form(target, queue[s])
  <2>1. page \in [Sessions -> [target : Entities \cup {Null}, shown : SUBSET Entities,
                               aliases : SUBSET Entities, added : SUBSET Entities]]
    BY DEF KeepInv, GoneInv, MergeInv, TypeInv, TypeOK
  <2> QED BY <1>1, <1>2, <1>4, <2>1
<1>7. \A e \in queue[s] : RowOrBlank(e) = row[e]
  BY <1>3 DEF RowOrBlank
<1>8. QueueLive(s)'
  BY <1>1, <1>3, <1>5 DEF QueueLive, Live
<1>9. PageFits(s)'
  <2>1. CASE page'[s] = NoPage
    BY <2>1 DEF PageFits
  <2>2. ASSUME NEW target \in queue[s], page'[s] = Form(target, queue[s])
        PROVE  PageFits(s)'
    <3>1. /\ page'[s].target = target
          /\ page'[s].aliases = UNION {RowOrBlank(e).aliases : e \in queue[s]}
          /\ page'[s].added =
               {IF f \in queue[s] THEN page'[s].target ELSE f :
                  f \in UNION {RowOrBlank(e).rels : e \in queue[s] \ {page'[s].target}}}
      BY <2>2 DEF Form
    <3>2. /\ {RowOrBlank(e).aliases : e \in queue[s]} = {row[e].aliases : e \in queue[s]}
          /\ {RowOrBlank(e).rels : e \in queue[s] \ {page'[s].target}} =
               {row[e].rels : e \in queue[s] \ {page'[s].target}}
      BY <1>7
    <3>3. /\ page'[s].target \in queue[s] /\ Cardinality(queue[s]) >= 2
          /\ page'[s].aliases = UNION {row[e].aliases : e \in queue[s]}
          /\ page'[s].added =
               {IF f \in queue[s] THEN page'[s].target ELSE f :
                  f \in UNION {row[e].rels : e \in queue[s] \ {page'[s].target}}}
      BY <1>1, <3>1, <3>2
    <3>4. row' = row
      BY <1>1
    <3> QED BY <1>5, <3>3, <3>4 DEF PageFits
  <2> QED BY <1>6, <2>1, <2>2
<1>10. HandlerFits(s)' /\ WritesAll(s)'
  BY <1>1 DEF HandlerFits, WritesAll, Idle
<1> QED BY <1>1, <1>8, <1>9, <1>10, SessionKeeps

LEMMA CloseKeeps ==
  ASSUME \A q, s \in Sessions : q = s, KeepInv, GoneInv', NEW s \in Sessions, Close(s)
  PROVE  KeepInv'
<1>1. UNCHANGED <<row, redirect, queue, handler>> /\ Idle(s) /\ page'[s] = NoPage
  BY DEF Close, KeepInv, GoneInv, MergeInv, TypeInv, TypeOK
<1>2. QueueLive(s)' /\ PageFits(s)' /\ HandlerFits(s)' /\ WritesAll(s)'
  BY <1>1 DEF KeepInv, QueueLive, Live, PageFits, HandlerFits, WritesAll, Idle
<1> QED BY <1>1, <1>2, SessionKeeps

\* The target of a page is not redirected: the handler starts with it as it is.
LEMMA LoadKeeps ==
  ASSUME \A q, s \in Sessions : q = s, KeepInv, GoneInv', NEW s \in Sessions, Load(s)
  PROVE  KeepInv'
<1> DEFINE t == page[s].target
           H == [NoHandler EXCEPT
                  !.phase = "loaded", !.target = t, !.loaded = row[t],
                  !.isMerge = Cardinality(queue[s]) >= 2,
                  !.merging = queue[s] \ {t}]
<1>1. UNCHANGED <<row, redirect, queue>> /\ page[s] # NoPage
  BY DEF Load
<1>2. t \in queue[s] /\ queue[s] \in SUBSET Entities /\ Live(t)
  BY <1>1 DEF KeepInv, PageFits, QueueLive, GoneInv, MergeInv, TypeInv, TypeOK
<1>3. ~Redirected(t)
  BY <1>2 DEF KeepInv, GoneInv, RedirectedAreGone
<1>4. page' = page /\ handler' = [handler EXCEPT ![s] = H]
  BY <1>3 DEF Load
<1>5. /\ H.phase = "loaded" /\ H.target = t /\ H.loaded = row[t]
      /\ H.isMerge = (Cardinality(queue[s]) >= 2) /\ H.merging = queue[s] \ {t}
  BY DEF NoHandler
<1> HIDE DEF H
<1>6. handler'[s] = H
  BY <1>4 DEF KeepInv, GoneInv, MergeInv, TypeInv, TypeOK
<1>7. QueueLive(s)' /\ PageFits(s)'
  BY <1>1, <1>4 DEF KeepInv, QueueLive, Live, PageFits
<1>8. HandlerFits(s)'
  BY <1>1, <1>4, <1>5, <1>6 DEF KeepInv, PageFits, HandlerFits
<1>9. WritesAll(s)'
  BY <1>5, <1>6 DEF WritesAll
<1> QED BY <1>1, <1>7, <1>8, <1>9, SessionKeeps

----------------------------------------------------------------------------
(* What the transaction writes, and the commit.                            *)

\* What a handler has to go by: all of its queue is there and unredirected, and the
\* entities related to those it merges are the added ones and those of the queue; the
\* target is added to itself if there are some of these.
LEMMA HandlerKnows ==
  ASSUME KeepInv, NEW s \in Sessions, ~Idle(s)
  PROVE  LET t == page[s].target
             M == handler[s].merging
             A == page[s].added \ {t}
         IN /\ t \in Entities /\ t \in queue[s] /\ t \notin M /\ M \in SUBSET Entities
            /\ queue[s] = M \cup {t} /\ A \in SUBSET Entities
            /\ \A e \in queue[s] : Live(e) /\ ~Redirected(e) /\ row[e] \in Row
            /\ \A e \in A : /\ Live(e) /\ ~Redirected(e) /\ row[e] \in Row
                            /\ e \notin queue[s]
            /\ A = (UNION {row[m].rels : m \in M}) \ queue[s]
            /\ page[s].added \in SUBSET Entities
            /\ page[s].aliases = UNION {row[e].aliases : e \in queue[s]}
            /\ handler[s].target = t /\ handler[s].isMerge /\ handler[s].loaded = row[t]
<1> DEFINE t == page[s].target
           M == handler[s].merging
           A == page[s].added \ {t}
<1>1. /\ page[s] # NoPage /\ handler[s].target = t /\ handler[s].isMerge
      /\ M = queue[s] \ {t} /\ handler[s].loaded = row[t]
  BY DEF KeepInv, HandlerFits
<1>2. /\ t \in queue[s] /\ page[s].aliases = UNION {row[e].aliases : e \in queue[s]}
      /\ page[s].added = {IF f \in queue[s] THEN t ELSE f :
                            f \in UNION {row[e].rels : e \in queue[s] \ {t}}}
      /\ A = (UNION {row[e].rels : e \in queue[s] \ {t}}) \ queue[s]
  <2> DEFINE R == UNION {row[e].rels : e \in queue[s] \ {t}}
  <2>1. /\ t \in queue[s] /\ page[s].aliases = UNION {row[e].aliases : e \in queue[s]}
        /\ page[s].added = {IF f \in queue[s] THEN t ELSE f : f \in R}
    BY <1>1 DEF KeepInv, PageFits
  <2> HIDE DEF R
  <2>2. A = R \ queue[s]
    BY <2>1
  <2> QED BY <2>1, <2>2 DEF R
<1>3. /\ queue[s] \in SUBSET Entities /\ A \in SUBSET Entities /\ TypeInv
      /\ page[s].added \in SUBSET Entities
  BY DEF KeepInv, GoneInv, MergeInv, TypeInv, TypeOK
<1>4. \A e \in queue[s] : Live(e)
  BY DEF KeepInv, QueueLive
<1>5. \A e \in A : Live(e)
  <2> SUFFICES ASSUME NEW e \in A PROVE Live(e)
    OBVIOUS
  <2>1. PICK m \in queue[s] : e \in row[m].rels
    BY <1>2
  <2> QED BY <1>3, <1>4, <2>1 DEF KeepInv, RelationshipsFollow
<1>6. \A e \in Entities : Live(e) => ~Redirected(e) /\ row[e] \in Row
  BY <1>3 DEF KeepInv, GoneInv, RedirectedAreGone, Live, TypeInv, TypeOK
<1> HIDE DEF t, M, A
<1>7. A = (UNION {row[m].rels : m \in M}) \ queue[s]
  BY <1>1, <1>2
<1>8. \A e \in A : e \notin queue[s]
  BY <1>7
<1> QED
  BY <1>1, <1>2, <1>3, <1>4, <1>5, <1>6, <1>7, <1>8 DEF t, M, A

\* Those to be saved besides the queue are the added ones.
LEMMA OthersAdded ==
  ASSUME KeepInv, NEW s \in Sessions, ~Idle(s)
  PROVE  /\ Others(handler[s], page[s]) = page[s].added \ {page[s].target}
         /\ NextAliases(handler[s], page[s]) = page[s].aliases
         /\ NextRels(handler[s], page[s], page[s].target) =
              (row[page[s].target].rels \cup page[s].added) \ handler[s].merging
         /\ \A e \in page[s].added \ {page[s].target} :
              NextRels(handler[s], page[s], e) =
                (row[e].rels \cup {page[s].target}) \ handler[s].merging
<1> DEFINE h == handler[s]
           p == page[s]
           t == page[s].target
           M == handler[s].merging
           A == page[s].added \ {t}
<1>1. /\ t \in Entities /\ t \notin M /\ M \in SUBSET Entities /\ A \in SUBSET Entities
      /\ \A e \in M : Live(e)
      /\ Live(t) /\ row[t] # Null
      /\ \A e \in A : Live(e) /\ ~Redirected(e) /\ e \notin M /\ e # t
      /\ A = (UNION {row[m].rels : m \in M}) \ (M \cup {t})
      /\ h.target = t /\ h.isMerge /\ h.loaded = row[t]
  BY HandlerKnows DEF Live
<1>2. (UNION {RowOrBlank(m).rels : m \in M}) \ (M \cup {t}) = A
  <2>1. {RowOrBlank(m).rels : m \in M} = {row[m].rels : m \in M}
    BY <1>1 DEF RowOrBlank
  <2> QED BY <1>1, <2>1
<1>3. Keys(p) = (IF p.added = {} THEN {} ELSE {t} \cup p.added) /\ Keys(p) \ {t} = A
  BY DEF Keys
<1>4. Others(h, p) = A
  <2> DEFINE R == UNION {RowOrBlank(m).rels : m \in M}
  <2>1. Others(h, p) = {e \in Keys(p) \cup R : Live(e) /\ ~Redirected(e)} \ ({t} \cup M)
    BY <1>1 DEF Others
  <2> HIDE DEF R, h, p, t, M, A
  <2>2. R \ (M \cup {t}) = A
    BY <1>2 DEF R
  <2> QED BY <1>1, <1>3, <2>1, <2>2
<1>5. NextAliases(h, p) = p.aliases
  BY <1>1 DEF NextAliases
<1>6. NextRels(h, p, t) = (row[t].rels \cup p.added) \ M
  BY <1>1, <1>3 DEF NextRels, RowOrBlank
<1>7. \A e \in A : NextRels(h, p, e) = (row[e].rels \cup {t}) \ M
  BY <1>1, <1>3 DEF NextRels, RowOrBlank
<1> QED BY <1>4, <1>5, <1>6, <1>7

\* The transaction will write what the page shows, and the relationships from both ends.
LEMMA ProcessKeeps ==
  ASSUME \A q, s \in Sessions : q = s, KeepInv, GoneInv', NEW s \in Sessions, Process(s)
  PROVE  KeepInv'
<1>1. ~Idle(s)
  BY ProcessCases DEF Idle
<1>2. CASE ServerExit
  BY <1>2, ExitKeeps
<1>3. CASE /\ handler' = [handler EXCEPT ![s] = Processed(s)]
           /\ UNCHANGED <<row, redirect, queue, page, commits>>
  <2> DEFINE h == handler[s]
             p == page[s]
             t == page[s].target
             M == handler[s].merging
             A == page[s].added \ {t}
  <2>1. /\ t \in Entities /\ t \notin M /\ A \in SUBSET Entities /\ queue[s] = M \cup {t}
        /\ Live(t) /\ h.target = t /\ h.isMerge
        /\ \A e \in A : e \in Entities /\ e \notin M /\ e # t /\ row[e] \in Row
    BY <1>1, HandlerKnows
  <2>2. handler \in [Sessions -> HandlerType] /\ h \in HandlerType
    BY DEF KeepInv, GoneInv, MergeInv, TypeInv, TypeOK
  <2>3. handler'[s] = Processed(s)
    BY <1>3, <2>2
  <2>4. /\ Processed(s).phase = "saving" /\ Processed(s).target = h.target
        /\ Processed(s).isMerge = h.isMerge /\ Processed(s).merging = M
        /\ Processed(s).loaded = h.loaded
        /\ Processed(s).saved = {t} \cup Others(h, p) \cup M
        /\ Processed(s).write[t] =
             [aliases |-> NextAliases(h, p), rels |-> NextRels(h, p, t)]
        /\ \A e \in A : e \in Others(h, p) =>
             Processed(s).write[e] = [row[e] EXCEPT !.rels = NextRels(h, p, e)]
    BY <2>1, <2>2 DEF Processed, HandlerType
  <2>5. /\ Processed(s).saved = queue[s] \cup p.added
        /\ Processed(s).write[t] = [aliases |-> p.aliases, rels |-> (row[t].rels \cup p.added) \ M]
        /\ \A e \in A : Processed(s).write[e] =
             [row[e] EXCEPT !.rels = (row[e].rels \cup {t}) \ M]
    <3>1. /\ Others(h, p) = A /\ NextAliases(h, p) = p.aliases
          /\ NextRels(h, p, t) = (row[t].rels \cup p.added) \ M
          /\ \A e \in A : NextRels(h, p, e) = (row[e].rels \cup {t}) \ M
      BY <1>1, OthersAdded
    <3>2. {t} \cup A = {t} \cup p.added
      OBVIOUS
    <3> HIDE DEF h, p, t, M, A
    <3>3. Processed(s).saved = queue[s] \cup p.added
      BY <2>1, <2>4, <3>1, <3>2
    <3>4. Processed(s).write[t] = [aliases |-> p.aliases, rels |-> (row[t].rels \cup p.added) \ M]
      BY <2>4, <3>1
    <3>5. \A e \in A : Processed(s).write[e] = [row[e] EXCEPT !.rels = (row[e].rels \cup {t}) \ M]
      BY <2>4, <3>1
    <3> QED BY <3>3, <3>4, <3>5
  <2>6. \A e \in A : Processed(s).write[e] =
             [aliases |-> row[e].aliases, rels |-> (row[e].rels \cup {t}) \ M]
    BY <2>1, <2>5 DEF Row
  <2>7. QueueLive(s)' /\ PageFits(s)'
    BY <1>3 DEF KeepInv, QueueLive, Live, PageFits
  <2>8. HandlerFits(s)'
    BY <1>1, <1>3, <2>3, <2>4 DEF KeepInv, HandlerFits
  <2>9. WritesAll(s)'
    <3>1. Processed(s).merging = M /\ page' = page /\ row' = row /\ queue' = queue
      BY <1>3, <2>4
    <3> DEFINE x == Processed(s)
    <3>2. /\ x.saved = queue[s] \cup page[s].added
          /\ x.write[page[s].target] =
               [aliases |-> page[s].aliases,
                rels |-> (row[page[s].target].rels \cup page[s].added) \ x.merging]
          /\ \A e \in page[s].added \ {page[s].target} : x.write[e] =
               [aliases |-> row[e].aliases,
                rels |-> (row[e].rels \cup {page[s].target}) \ x.merging]
      BY <2>5, <2>6, <3>1
    <3> HIDE DEF x
    <3>3. handler'[s] = x
      BY <2>3 DEF x
    <3> QED BY <3>1, <3>2, <3>3 DEF WritesAll
  <2> QED BY <1>3, <2>7, <2>8, <2>9, SessionKeeps
<1> QED BY <1>2, <1>3, ProcessCases

\* What the tables say after the commit: the merged entities are gone and redirected, the
\* target has what the page shows, the added ones are related to it.
LEMMA MergeCommits ==
  ASSUME KeepInv, NEW s \in Sessions, handler[s].phase = "saving", Committed(s)
  PROVE  LET t == page[s].target
             M == handler[s].merging
             A == page[s].added \ {t}
         IN /\ redirect' = redirect \cup (M \X {t})
            /\ \A m \in M : ~Live(m)'
            /\ row'[t] # Null /\ row'[t].aliases = page[s].aliases
            /\ row'[t].rels = (row[t].rels \cup page[s].added) \ M
            /\ \A e \in A : /\ Live(e)' /\ row'[e].aliases = row[e].aliases
                            /\ row'[e].rels = (row[e].rels \cup {t}) \ M
            /\ \A e \in Entities \ (A \cup queue[s]) : row'[e] = row[e]
<1> DEFINE h == handler[s]
           t == page[s].target
           M == handler[s].merging
           A == page[s].added \ {t}
<1>1. /\ t \in Entities /\ M \in SUBSET Entities /\ queue[s] = M \cup {t} /\ t \notin M
      /\ A \in SUBSET Entities /\ \A e \in A : e \notin queue[s] /\ ~Redirected(e)
      /\ ~Redirected(t) /\ h.target = t /\ h.isMerge
  BY HandlerKnows DEF Idle
<1>2. /\ h.saved = queue[s] \cup page[s].added /\ h.saved = queue[s] \cup A
      /\ h.write[t] = [aliases |-> page[s].aliases,
                       rels |-> (row[t].rels \cup page[s].added) \ M]
      /\ \A e \in A : h.write[e] =
           [aliases |-> row[e].aliases, rels |-> (row[e].rels \cup {t}) \ M]
  BY <1>1 DEF KeepInv, WritesAll
<1>3. \A e \in h.saved : h.write[e] = Null <=> Redirected(e) \/ e \in M
  BY <1>1 DEF KeepInv, GoneInv, WritesKeepGone
<1>4. \A e \in Entities : row'[e] = IF e \in h.saved THEN h.write[e] ELSE row[e]
  BY DEF Committed
<1>5. redirect' = redirect \cup (M \X {t})
  BY <1>1 DEF Committed
<1>6. \A m \in M : ~Live(m)'
  BY <1>1, <1>2, <1>3, <1>4 DEF Live
<1>7. row'[t] # Null /\ row'[t] = h.write[t]
  <2>1. t \in h.saved /\ t \in Entities /\ ~Redirected(t) /\ t \notin M
    BY <1>1, <1>2
  <2>2. h.write[t] # Null
    BY <1>3, <2>1
  <2> QED BY <1>4, <2>1, <2>2 DEF Live
<1>8. \A e \in A : Live(e)' /\ row'[e] = h.write[e]
  BY <1>1, <1>2, <1>3, <1>4 DEF Live
<1>9. \A e \in Entities \ (A \cup queue[s]) : row'[e] = row[e]
  BY <1>2, <1>4
<1>10. row'[t].aliases = page[s].aliases /\ row'[t].rels = (row[t].rels \cup page[s].added) \ M
  BY <1>2, <1>7
<1>11. ASSUME NEW e \in A
       PROVE  row'[e].aliases = row[e].aliases /\ row'[e].rels = (row[e].rels \cup {t}) \ M
  <2>1. row'[e] = [aliases |-> row[e].aliases, rels |-> (row[e].rels \cup {t}) \ M]
    BY <1>2, <1>8
  <2> QED BY <2>1
<1> QED BY <1>5, <1>6, <1>7, <1>8, <1>9, <1>10, <1>11

\* Whoever had come to a merged entity comes to the target, which has its aliases.
LEMMA CommitLosesNothing ==
  ASSUME KeepInv, NEW s \in Sessions, handler[s].phase = "saving", Committed(s)
  PROVE  NothingLost'
<1> DEFINE t == page[s].target
           M == handler[s].merging
           A == page[s].added \ {t}
<1>1. /\ t \in Entities /\ t \notin M /\ M \in SUBSET Entities /\ queue[s] = M \cup {t}
      /\ ~Redirected(t) /\ \A e \in queue[s] : ~Redirected(e)
      /\ page[s].aliases = UNION {row[e].aliases : e \in queue[s]}
  BY HandlerKnows DEF Idle
<1>2. redirect \subseteq Entities \X Entities
  BY DEF KeepInv, GoneInv, MergeInv, TypeInv, TypeOK
<1>3. /\ redirect' = redirect \cup (M \X {t})
      /\ row'[t] # Null /\ row'[t].aliases = page[s].aliases
      /\ \A e \in A : Live(e)' /\ row'[e].aliases = row[e].aliases
      /\ \A e \in Entities \ (A \cup queue[s]) : row'[e] = row[e]
  BY MergeCommits
<1>4. \A m \in queue[s] : row[m].aliases \subseteq row'[t].aliases
  BY <1>1, <1>3
<1> SUFFICES ASSUME NEW e \in Entities, NEW f \in Finals(e)'
             PROVE  Live(f)' /\ e \in row'[f].aliases
  BY DEF NothingLost
<1> HIDE DEF t, M, A
<1>5. \/ f \in Finals(e) /\ f \notin M
      \/ f = t /\ \E m \in M : m \in Path(e)
  BY <1>1, <1>2, <1>3, FinalsMerged
<1>6. CASE f \in Finals(e) /\ f \notin M
  <2>1. f \in Entities /\ Live(f) /\ e \in row[f].aliases
    BY <1>6 DEF KeepInv, NothingLost, Finals, Path
  <2>2. CASE f = t
    <3>1. row[f].aliases \subseteq row'[f].aliases
      BY <1>1, <1>4, <2>2
    <3> QED BY <1>3, <2>1, <2>2, <3>1 DEF Live
  <2>3. CASE f \in A
    BY <1>3, <2>1, <2>3
  <2>4. CASE f \notin A /\ f # t
    BY <1>1, <1>3, <1>6, <2>1, <2>4 DEF Live
  <2> QED BY <2>2, <2>3, <2>4
<1>7. ASSUME f = t, NEW m \in M, m \in Path(e)
      PROVE  Live(f)' /\ e \in row'[f].aliases
  <2>1. m \in queue[s] /\ m \in Finals(e)
    BY <1>1, <1>7 DEF Finals
  <2>2. e \in row[m].aliases
    BY <2>1 DEF KeepInv, NothingLost
  <2>3. row[m].aliases \subseteq row'[f].aliases
    BY <1>4, <1>7, <2>1
  <2> QED BY <1>3, <1>7, <2>2, <2>3 DEF Live
<1> QED BY <1>5, <1>6, <1>7

\* What was related to a merged entity is related to the target, and the other way round.
LEMMA CommitKeepsRelationships ==
  ASSUME KeepInv, NEW s \in Sessions, handler[s].phase = "saving", Committed(s)
  PROVE  RelationshipsFollow'
<1> DEFINE t == page[s].target
           M == handler[s].merging
           A == page[s].added \ {t}
<1>1. /\ t \in Entities /\ t \notin M /\ M \in SUBSET Entities /\ queue[s] = M \cup {t}
      /\ Live(t) /\ \A m \in M : Live(m)
      /\ A \in SUBSET Entities /\ \A e \in A : Live(e) /\ e \notin queue[s]
      /\ A = (UNION {row[m].rels : m \in M}) \ queue[s]
  BY HandlerKnows DEF Idle
<1>2. /\ \A m \in M : ~Live(m)'
      /\ row'[t] # Null /\ row'[t].rels = (row[t].rels \cup page[s].added) \ M
      /\ \A e \in A : Live(e)' /\ row'[e].rels = (row[e].rels \cup {t}) \ M
      /\ \A e \in Entities \ (A \cup queue[s]) : row'[e] = row[e]
  BY MergeCommits
<1>3. \A e, f \in Entities : Live(e) /\ f \in row[e].rels => Live(f) /\ e \in row[f].rels
  BY DEF KeepInv, RelationshipsFollow
<1>4. \A e \in Entities : \A m \in M : Live(e) /\ m \in row[e].rels => e \in A \cup queue[s]
  BY <1>1, <1>3
<1> DEFINE D == page[s].added
<1>10. row'[t].rels = (row[t].rels \cup D) \ M /\ D \subseteq A \cup {t} /\ A \subseteq D
  BY <1>2
<1> HIDE DEF t, M, A, D
<1>5. ASSUME NEW e \in Entities, e \notin M PROVE Live(e)' <=> Live(e)
  <2>1. CASE e = t \/ e \in A
    BY <1>1, <1>2, <2>1 DEF Live
  <2>2. CASE ~(e = t \/ e \in A)
    <3>1. row'[e] = row[e]
      BY <1>1, <1>2, <1>5, <2>2
    <3> QED BY <3>1 DEF Live
  <2> QED BY <2>1, <2>2
\* What of a relationship is left after the commit.
<1>6. ASSUME NEW e \in Entities, NEW f \in Entities, e \notin M, f \notin M,
             Live(e), f \in row[e].rels
      PROVE  f \in row'[e].rels
  <2>1. CASE e = t
    BY <1>6, <1>10, <2>1
  <2>2. CASE e \in A
    BY <1>2, <1>6, <2>2
  <2>3. CASE e \notin A /\ e # t
    BY <1>1, <1>2, <1>6, <2>3
  <2> QED BY <2>1, <2>2, <2>3
<1> SUFFICES ASSUME NEW e \in Entities, NEW f \in Entities, Live(e)', f \in row'[e].rels
             PROVE  Live(f)' /\ e \in row'[f].rels
  BY DEF RelationshipsFollow
<1>7. e \notin M /\ Live(e)
  BY <1>2, <1>5
<1>8. CASE f \in row[e].rels /\ f \notin M
  BY <1>3, <1>5, <1>6, <1>7, <1>8
<1>9. CASE f \notin row[e].rels \/ f \in M
  <2>1. f \notin M
    <3>1. CASE e = t
      BY <1>10, <3>1
    <3>2. CASE e \in A
      BY <1>2, <3>2
    <3>3. CASE e \notin A /\ e # t
      BY <1>1, <1>2, <1>4, <1>7, <3>3
    <3> QED BY <3>1, <3>2, <3>3
  <2>2. f \notin row[e].rels
    BY <1>9, <2>1
  <2>3. CASE e = t
    <3>1. f \in A \/ f = t
      BY <1>10, <2>2, <2>3
    <3>2. CASE f \in A
      BY <1>1, <1>2, <2>3, <3>2
    <3>3. CASE f = t
      BY <2>3, <3>3
    <3> QED BY <3>1, <3>2, <3>3
  <2>4. CASE e \in A
    <3>1. f = t
      BY <1>2, <2>2, <2>4
    <3>2. e \in row'[t].rels
      BY <1>7, <1>10, <2>4
    <3> QED BY <1>1, <1>5, <3>1, <3>2
  <2>5. CASE e \notin A /\ e # t
    BY <1>1, <1>2, <1>7, <2>2, <2>5
  <2> QED BY <2>3, <2>4, <2>5
<1> QED BY <1>8, <1>9

\* The commit empties the queue and closes the page.
LEMMA CommitKeeps ==
  ASSUME \A q, s \in Sessions : q = s, KeepInv, GoneInv', NEW s \in Sessions, Commit(s)
  PROVE  KeepInv'
<1>1. handler[s].phase = "saving"
  BY CommitCases
<1>2. CASE ServerExit
  BY <1>2, ExitKeeps
<1>3. CASE Committed(s)
  <2>1. handler[s].isMerge /\ handler[s].target = page[s].target /\ page[s].target \in queue[s]
    BY <1>1, HandlerKnows DEF Idle
  <2>2. handler[s].target \in handler[s].saved
    BY <1>1, <2>1 DEF KeepInv, WritesAll
  <2>3. queue'[s] = {} /\ page'[s] = NoPage /\ handler'[s] = NoHandler
    BY <1>3, <2>1, <2>2 DEF Committed, KeepInv, GoneInv, MergeInv, TypeInv, TypeOK
  <2>4. QueueLive(s)' /\ PageFits(s)' /\ HandlerFits(s)' /\ WritesAll(s)'
    BY <2>3 DEF QueueLive, PageFits, HandlerFits, WritesAll, Idle, NoHandler
  <2> QED BY <1>1, <1>3, <2>4, CommitLosesNothing, CommitKeepsRelationships DEF KeepInv
<1> QED BY <1>2, <1>3, CommitCases

----------------------------------------------------------------------------
(* The theorem.                                                            *)

LEMMA NextKeeps ==
  ASSUME MaxInFlight = 1, OnePage = TRUE, Deletions = FALSE, \A q, s \in Sessions : q = s,
         KeepInv, [Next]_vars
  PROVE  KeepInv'
<1>1. IsFiniteSet(Sessions)
  <2>1. CASE Sessions = {}
    BY <2>1, FS_EmptySet
  <2>2. ASSUME NEW s \in Sessions PROVE IsFiniteSet(Sessions)
    <3>1. Sessions = {s}
      OBVIOUS
    <3> QED BY <3>1, FS_Singleton
  <2> QED BY <2>1, <2>2
<1>2. GoneInv'
  BY <1>1, NextKeepsGoneInv DEF KeepInv
<1>3. ASSUME NEW s \in Sessions,
             \/ \E e \in Entities : Add(s, e) \/ Remove(s, e)
             \/ Cancel(s) \/ Submit(s) \/ Close(s)
      PROVE  KeepInv'
  BY <1>2, <1>3, QueueKeeps, SubmitKeeps, CloseKeeps
<1>4. ASSUME NEW s \in Sessions, Load(s) \/ Process(s) \/ Commit(s)
      PROVE  KeepInv'
  BY <1>2, <1>4, LoadKeeps, ProcessKeeps, CommitKeeps
<1>5. CASE UNCHANGED vars
  <2>1. \A s \in Sessions : QueueLive(s)' /\ PageFits(s)' /\ HandlerFits(s)' /\ WritesAll(s)'
    BY <1>5 DEF vars, KeepInv, QueueLive, Live, PageFits, HandlerFits, WritesAll, Idle
  <2> QED BY <1>2, <1>5, <2>1, SessionKeeps DEF vars
<1> QED BY <1>3, <1>4, <1>5 DEF Next, Delete

\* One editor who leaves the queue alone while a page is open loses nothing by merging,
\* whatever is merged with what and however often, although the form of the page alone
\* carries it over: wherever the redirects of an entity lead, its aliases are there, and
\* relationships are seen from both ends (entitiesToFormState, processMergeOperation).
THEOREM MergingKeepsAll ==
  ASSUME MaxInFlight = 1, OnePage = TRUE, Deletions = FALSE, \A q, s \in Sessions : q = s
  PROVE  Spec => []MergesKeepAll
<1>1. KeepInv => MergesKeepAll
  BY DEF KeepInv, MergesKeepAll
<1>2. KeepInv /\ [Next]_vars => KeepInv'
  BY NextKeeps
<1> QED BY InitKeepInv, <1>1, <1>2, PTL DEF Spec

----------------------------------------------------------------------------
(* Numbers and lists.                                                      *)

\* Each set of numbers has a least one.
LEMMA LeastNumber ==
  ASSUME NEW T, T \subseteq Nat, T # {}
  PROVE  \E x \in T : \A y \in T : x <= y
<1>1. PICK x \in T : \A y \in T : <<y, x>> \notin OpToRel(<, Nat)
  BY WFMin, NatLessThanWellFounded
<1>2. \A y \in T : ~(y < x)
  BY <1>1 DEF OpToRel
<1> QED BY <1>2

\* Induction, of a set of numbers.
LEMMA AllNumbers ==
  ASSUME NEW T, T \subseteq Nat, 0 \in T, \A n \in T : n + 1 \in T
  PROVE  T = Nat
<1> DEFINE rest == Nat \ T
<1> SUFFICES ASSUME rest # {} PROVE FALSE
  OBVIOUS
<1>1. PICK x \in rest : \A y \in rest : x <= y
  BY LeastNumber
<1>2. x # 0 /\ x - 1 \in Nat
  OBVIOUS
<1>3. x - 1 \in T
  BY <1>1, <1>2
<1> QED BY <1>1, <1>2, <1>3

\* What stays of a list is a list.
LEMMA WithoutIsList ==
  ASSUME NEW S, held \in Seq(S), NEW on
  PROVE  OfCollection!Without(on) \in Seq(S)
<1> DEFINE body(f, n) == IF n = 0 THEN <<>>
                         ELSE IF held[n] \in on THEN f[n - 1] ELSE Append(f[n - 1], held[n])
           N == Len(held)
           Fits(f, m) == \A n \in 0 .. m : f[n] = body(f, n)
           Built(m) == \E f \in [0 .. m -> Seq(S)] : Fits(f, m)
           built == {m \in Nat : m <= N => Built(m)}
<1>1. N \in Nat /\ \A n \in 1 .. N : held[n] \in S
  OBVIOUS
<1>2. 0 \in built
  <2>1. [n \in 0 .. 0 |-> <<>>] \in [0 .. 0 -> Seq(S)]
    OBVIOUS
  <2>2. Fits([n \in 0 .. 0 |-> <<>>], 0)
    OBVIOUS
  <2> QED BY <2>1, <2>2
<1> HIDE DEF N
<1>3. ASSUME NEW m \in built PROVE m + 1 \in built
  <2> HIDE DEF Built
  <2> SUFFICES ASSUME m + 1 <= N PROVE Built(m + 1)
    OBVIOUS
  <2>0. Built(m) /\ m \in Nat
    BY <1>1
  <2> USE DEF Built
  <2>1. PICK f \in [0 .. m -> Seq(S)] : Fits(f, m)
    BY <2>0
  <2> DEFINE last == IF held[m + 1] \in on THEN f[m] ELSE Append(f[m], held[m + 1])
             g == [n \in 0 .. m + 1 |-> IF n = m + 1 THEN last ELSE f[n]]
  <2>2. last \in Seq(S)
    BY <1>1
  <2> HIDE DEF last
  <2>3. g \in [0 .. m + 1 -> Seq(S)]
    BY <2>2
  <2>4. ASSUME NEW n \in 0 .. m + 1 PROVE g[n] = body(g, n)
    <3>1. CASE n = m + 1
      <4>1. g[n] = last /\ g[n - 1] = f[m] /\ n # 0
        BY <3>1
      <4> HIDE DEF g
      <4> QED BY <3>1, <4>1 DEF last
    <3>2. CASE n # m + 1
      <4>1. n \in 0 .. m /\ g[n] = f[n] /\ (n # 0 => g[n - 1] = f[n - 1])
        BY <3>2
      <4>2. f[n] = body(f, n)
        BY <2>1, <4>1
      <4> HIDE DEF g
      <4> QED BY <4>1, <4>2
    <3> QED BY <3>1, <3>2
  <2> HIDE DEF g
  <2> QED BY <2>3, <2>4
<1>4. built = Nat
  <2>1. built \subseteq Nat
    OBVIOUS
  <2> HIDE DEF built
  <2> QED BY <1>2, <1>3, <2>1, AllNumbers
<1>5. PICK f \in [0 .. N -> Seq(S)] : Fits(f, N)
  <2>1. N \in built /\ N <= N
    <3> HIDE DEF built
    <3> QED BY <1>1, <1>4
  <2> HIDE DEF Built
  <2>2. Built(N)
    BY <2>1
  <2> QED BY <2>2 DEF Built
<1> DEFINE kept == CHOOSE k : k = [n \in 0 .. N |-> body(k, n)]
<1>6. f = [n \in 0 .. N |-> body(f, n)]
  BY <1>5
<1>7. kept = [n \in 0 .. N |-> body(kept, n)]
  BY <1>6
<1>8. OfCollection!Without(on) = kept[N]
  BY DEF OfCollection!Without, N
<1> HIDE DEF kept
<1> DEFINE listed == {m \in Nat : m <= N => kept[m] \in Seq(S)}
<1>9. 0 \in listed
  BY <1>1, <1>7
<1>10. ASSUME NEW m \in listed PROVE m + 1 \in listed
  <2> SUFFICES ASSUME m + 1 <= N PROVE kept[m + 1] \in Seq(S)
    OBVIOUS
  <2>1. kept[m] \in Seq(S)
    BY <1>1
  <2>2. kept[m + 1] = body(kept, m + 1)
    <3>1. m + 1 \in 0 .. N
      BY <1>1
    <3> DEFINE k == [n \in 0 .. N |-> body(kept, n)]
    <3>2. k[m + 1] = body(kept, m + 1)
      BY <3>1
    <3> HIDE DEF k
    <3>3. kept = k
      BY <1>7 DEF k
    <3> QED BY <3>2, <3>3
  <2>3. held[m + 1] \in S /\ m + 1 # 0 /\ (m + 1) - 1 = m
    BY <1>1
  <2>4. kept[m + 1] = IF held[m + 1] \in on THEN kept[m] ELSE Append(kept[m], held[m + 1])
    BY <2>2, <2>3
  <2> QED BY <2>1, <2>3, <2>4
<1>11. listed = Nat
  <2>1. listed \subseteq Nat
    OBVIOUS
  <2> HIDE DEF listed
  <2> QED BY <1>9, <1>10, <2>1, AllNumbers
<1> QED BY <1>1, <1>8, <1>11

----------------------------------------------------------------------------
(* Pages with results by the page.                                         *)

\* RemoveAt leaves the other elements.
LEMMA RemovedAt ==
  ASSUME NEW S, NEW s \in Seq(S), NEW i \in DOMAIN s
  PROVE  LET rest == SubSeq(s, 1, i - 1) \o SubSeq(s, i + 1, Len(s))
         IN  /\ rest \in Seq(S) /\ Len(rest) = Len(s) - 1
             /\ i < Len(s) => rest[Len(s) - 1] = s[Len(s)]
<1> DEFINE one == SubSeq(s, 1, i - 1)
           two == SubSeq(s, i + 1, Len(s))
<1>1. one \in Seq(S) /\ Len(one) = i - 1
  OBVIOUS
<1>2. two \in Seq(S) /\ Len(two) = Len(s) - i
  OBVIOUS
<1>3. i < Len(s) => two[Len(s) - i] = s[Len(s)]
  <2>1. \A j \in i + 1 .. Len(s) : s[j] \in S
    OBVIOUS
  <2>2. \A j \in 1 .. Len(s) - (i + 1) + 1 : two[j] = s[i + 1 + j - 1]
    BY <2>1, SubSeqProperties
  <2>3. ASSUME i < Len(s)
        PROVE  Len(s) - i \in 1 .. Len(s) - (i + 1) + 1 /\ i + 1 + (Len(s) - i) - 1 = Len(s)
    <3>1. i \in Nat /\ Len(s) \in Nat
      OBVIOUS
    <3>2. \A m, n \in Nat : m < n => n - m \in 1 .. n - (m + 1) + 1 /\ m + 1 + (n - m) - 1 = n
      OBVIOUS
    <3> HIDE DEF one, two
    <3> QED BY <2>3, <3>1, <3>2
  <2> HIDE DEF two
  <2> QED BY <2>2, <2>3
<1> HIDE DEF one, two
<1>4. (one \o two) \in Seq(S) /\ Len(one \o two) = Len(s) - 1
  BY <1>1, <1>2
<1>5. ASSUME i < Len(s) PROVE (one \o two)[Len(s) - 1] = s[Len(s)]
  <2>1. Len(s) - 1 \in 1 .. Len(one) + Len(two) /\ Len(s) - 1 > Len(one)
    BY <1>1, <1>2, <1>5
  <2>2. (one \o two)[Len(s) - 1] = two[Len(s) - 1 - Len(one)]
    BY <1>1, <1>2, <2>1, ConcatProperties
  <2>3. Len(s) - 1 - Len(one) = Len(s) - i
    BY <1>1
  <2> QED BY <2>2, <2>3, <1>3, <1>5
<1> QED BY <1>4, <1>5 DEF one, two

----------------------------------------------------------------------------
(* Pagers, of rows in T and with parameters in P.                          *)

UrlsOf(P) == [params : P, from : Nat, size : Nat \ {0}, written : {"pager", "other"}]
AskedOf(T, P) ==
  [params : P, from : Nat, size : Nat \ {0}, rows : Seq(T) \cup {OfSearch!Unread}]
PagersOf(T, P) ==
  [from : Nat, size : Nat \ {0}, rows : Seq(T), next : BOOLEAN, urls : Seq(UrlsOf(P)), at : Nat,
   asked : Seq(AskedOf(T, P))]

\* A pager that is somewhere in its history.
PagerOK(p, T, P) == p \in PagersOf(T, P) /\ p.at \in 1 .. Len(p.urls)

LEMMA MinOfTwo ==
  ASSUME NEW m \in Nat, NEW n \in Nat
  PROVE  OfSearch!Min({m, n}) = IF m <= n THEN m ELSE n
<1> DEFINE low == IF m <= n THEN m ELSE n
<1>1. low \in {m, n} /\ \A k \in {m, n} : low <= k
  OBVIOUS
<1>2. \A l \in {m, n} : (\A k \in {m, n} : l <= k) => l = low
  OBVIOUS
<1>3. OfSearch!Min({m, n}) = CHOOSE l \in {m, n} : \A k \in {m, n} : l <= k
  BY DEF OfSearch!Min
<1> HIDE DEF low
<1>4. OfSearch!Min({m, n}) = low
  BY <1>1, <1>2, <1>3
<1> QED BY <1>4 DEF low

\* The rows read for a page are those of the list from there on, one more than fits.
LEMMA PageRead ==
  ASSUME NEW T, NEW list \in Seq(T), NEW from \in Nat, NEW size \in Nat \ {0}
  PROVE  /\ OfSearch!Read(list, from, size) \in Seq(T)
         /\ OfSearch!Page(OfSearch!Read(list, from, size), size) \in Seq(T)
         /\ OfSearch!NextEnabled(OfSearch!Read(list, from, size), size) <=> Len(list) > from + size
         /\ from < Len(list) => OfSearch!Page(OfSearch!Read(list, from, size), size) # <<>>
         /\ \A i \in DOMAIN OfSearch!Page(OfSearch!Read(list, from, size), size) :
              \E j \in DOMAIN list :
                OfSearch!Page(OfSearch!Read(list, from, size), size)[i] = list[j]
<1> DEFINE to == IF from + size + 1 <= Len(list) THEN from + size + 1 ELSE Len(list)
           rd == SubSeq(list, from + 1, to)
           upto == IF size <= Len(rd) THEN size ELSE Len(rd)
           pg == SubSeq(rd, 1, upto)
<1>1. Len(list) \in Nat /\ to \in Nat /\ to <= Len(list)
  OBVIOUS
<1>2. OfSearch!Read(list, from, size) = rd
  <2>1. OfSearch!Min({from + size + 1, Len(list)}) = to
    BY <1>1, MinOfTwo
  <2> HIDE DEF to
  <2> QED BY <2>1 DEF OfSearch!Read
<1>3. \A i \in from + 1 .. to : list[i] \in T
  BY <1>1
<1> HIDE DEF to
<1>4. /\ rd \in Seq(T) /\ Len(rd) = IF from + 1 <= to THEN to - from ELSE 0
      /\ \A i \in 1 .. to - (from + 1) + 1 : rd[i] = list[from + 1 + i - 1]
  <2>1. /\ rd \in Seq(T) /\ Len(rd) = IF from + 1 <= to THEN to - (from + 1) + 1 ELSE 0
        /\ \A i \in 1 .. to - (from + 1) + 1 : rd[i] = list[from + 1 + i - 1]
    BY <1>1, <1>3, SubSeqProperties
  <2> HIDE DEF rd
  <2> QED BY <2>1, <1>1
<1> HIDE DEF rd
<1>5. Len(rd) \in Nat /\ upto \in Nat /\ upto <= Len(rd)
  BY <1>4
<1>6. OfSearch!Page(rd, size) = pg
  <2>1. OfSearch!Min({size, Len(rd)}) = upto
    BY <1>5, MinOfTwo
  <2> HIDE DEF upto
  <2> QED BY <2>1 DEF OfSearch!Page
<1>7. \A i \in 1 .. upto : rd[i] \in T
  BY <1>4, <1>5
<1> HIDE DEF upto
<1>8. /\ pg \in Seq(T) /\ Len(pg) = IF 1 <= upto THEN upto - 1 + 1 ELSE 0
      /\ \A i \in 1 .. upto - 1 + 1 : pg[i] = rd[1 + i - 1]
  BY <1>5, <1>7, SubSeqProperties
<1> HIDE DEF pg
<1>9. Len(rd) > size <=> Len(list) > from + size
  BY <1>1, <1>4 DEF to
<1>10. from < Len(list) => pg # <<>>
  <2> SUFFICES ASSUME from < Len(list) PROVE Len(pg) > 0
    BY <1>8
  <2>1. Len(rd) > 0
    BY <1>1, <1>4 DEF to
  <2>2. upto > 0
    BY <1>5, <2>1 DEF upto
  <2> QED BY <1>5, <1>8, <2>2
<1>11. ASSUME NEW i \in DOMAIN pg PROVE \E j \in DOMAIN list : pg[i] = list[j]
  <2>1. i \in 1 .. upto /\ i \in Nat
    BY <1>5, <1>8
  <2>2. pg[i] = rd[i]
    <3>1. i \in 1 .. upto - 1 + 1 /\ 1 + i - 1 = i
      BY <2>1, <1>5
    <3> QED BY <3>1, <1>8
  <2>3. i <= Len(rd)
    BY <1>5, <2>1
  <2>4. i \in 1 .. to - (from + 1) + 1 /\ from + 1 + i - 1 = from + i /\ from + i \in 1 .. Len(list)
    BY <1>1, <1>4, <2>1, <2>3
  <2>5. rd[i] = list[from + i]
    BY <1>4, <2>4
  <2> QED BY <2>2, <2>4, <2>5
<1> QED BY <1>2, <1>4, <1>6, <1>8, <1>9, <1>10, <1>11 DEF OfSearch!NextEnabled

\* An address that is pushed is where the pager then is; the ones before stay.
LEMMA PushedAt ==
  ASSUME NEW T, NEW P, NEW p, PagerOK(p, T, P), NEW url \in UrlsOf(P)
  PROVE  LET q == OfSearch!Pushed(p, url)
         IN  /\ PagerOK(q, T, P) /\ q.urls[q.at] = url
             /\ \A i \in DOMAIN q.urls : q.urls[i] = url \/ \E j \in DOMAIN p.urls : q.urls[i] = p.urls[j]
             /\ q.from = p.from /\ q.size = p.size /\ q.rows = p.rows /\ q.next = p.next
             /\ q.asked = p.asked
             /\ url = p.urls[p.at] => q = p
<1>1. CASE url = p.urls[p.at]
  BY <1>1 DEF OfSearch!Pushed, PagerOK
<1>2. CASE url # p.urls[p.at]
  <2> DEFINE us == Append(SubSeq(p.urls, 1, p.at), url)
             q == [p EXCEPT !.urls = us, !.at = p.at + 1]
  <2>1. /\ p \in PagersOf(T, P) /\ p.urls \in Seq(UrlsOf(P)) /\ p.at \in Nat
        /\ p.at \in 1 .. Len(p.urls)
    BY DEF PagerOK, PagersOf
  <2>2. /\ SubSeq(p.urls, 1, p.at) \in Seq(UrlsOf(P)) /\ Len(SubSeq(p.urls, 1, p.at)) = p.at
        /\ \A i \in 1 .. p.at : SubSeq(p.urls, 1, p.at)[i] = p.urls[i]
    BY <2>1
  <2>3. /\ us \in Seq(UrlsOf(P)) /\ Len(us) = p.at + 1 /\ us[p.at + 1] = url
        /\ \A i \in 1 .. p.at : us[i] = p.urls[i]
    <3> HIDE DEF us
    <3> DEFINE ss == SubSeq(p.urls, 1, p.at)
    <3>1. us = Append(ss, url)
      BY DEF us
    <3> HIDE DEF ss
    <3> QED BY <3>1, <2>2, AppendProperties DEF ss
  <2>4. OfSearch!Pushed(p, url) = q
    BY <1>2 DEF OfSearch!Pushed
  <2> HIDE DEF us
  <2>5. /\ q \in PagersOf(T, P) /\ q.urls = us /\ q.at = p.at + 1
        /\ q.from = p.from /\ q.size = p.size /\ q.rows = p.rows /\ q.next = p.next
        /\ q.asked = p.asked
    <3>1. us \in Seq(UrlsOf(P)) /\ p.at + 1 \in Nat
      BY <2>1, <2>3
    <3>2. p \in PagersOf(T, P)
      BY <2>1
    <3> QED BY <3>1, <3>2 DEF PagersOf
  <2> HIDE DEF q
  <2>6. PagerOK(q, T, P)
    BY <2>1, <2>3, <2>5 DEF PagerOK
  <2>7. \A i \in DOMAIN us : us[i] = url \/ \E j \in DOMAIN p.urls : us[i] = p.urls[j]
    <3> TAKE i \in DOMAIN us
    <3>1. i \in 1 .. p.at \/ i = p.at + 1
      BY <2>1, <2>3
    <3>2. i \in 1 .. p.at => i \in DOMAIN p.urls
      BY <2>1
    <3> QED BY <2>3, <3>1, <3>2
  <2> QED BY <1>2, <2>3, <2>4, <2>5, <2>6, <2>7
<1> QED BY <1>1, <1>2

\* Asking changes the address and what is asked for, not what is shown.
LEMMA TriggeredAsks ==
  ASSUME NEW T, NEW P, NEW p, PagerOK(p, T, P), NEW params \in P, NEW from \in Nat,
         NEW size \in Nat \ {0}
  PROVE  LET q == OfSearch!Triggered(p, params, from, size)
             url == OfSearch!Url(params, from, size, "pager")
         IN  /\ PagerOK(q, T, P) /\ q.urls[q.at] = url
             /\ \A i \in DOMAIN q.urls : q.urls[i] = url \/ \E j \in DOMAIN p.urls : q.urls[i] = p.urls[j]
             /\ q.from = p.from /\ q.size = p.size /\ q.rows = p.rows /\ q.next = p.next
             /\ q.asked = Append(p.asked, [params |-> params, from |-> from, size |-> size,
                                           rows |-> OfSearch!Unread])
             /\ url = p.urls[p.at] => q.urls = p.urls
<1> DEFINE url == OfSearch!Url(params, from, size, "pager")
           ask == [params |-> params, from |-> from, size |-> size, rows |-> OfSearch!Unread]
           r == OfSearch!Pushed(p, url)
           q == [r EXCEPT !.asked = Append(r.asked, ask)]
<1>1. url \in UrlsOf(P) /\ ask \in AskedOf(T, P)
  BY DEF OfSearch!Url, UrlsOf, AskedOf
<1>2. OfSearch!Triggered(p, params, from, size) = q
  BY DEF OfSearch!Triggered
<1> HIDE DEF url, ask
<1>3. /\ PagerOK(r, T, P) /\ r.urls[r.at] = url
      /\ \A i \in DOMAIN r.urls : r.urls[i] = url \/ \E j \in DOMAIN p.urls : r.urls[i] = p.urls[j]
      /\ r.from = p.from /\ r.size = p.size /\ r.rows = p.rows /\ r.next = p.next
      /\ r.asked = p.asked
      /\ url = p.urls[p.at] => r = p
  BY <1>1, PushedAt
<1> HIDE DEF r
<1>4. r.asked \in Seq(AskedOf(T, P)) /\ Append(r.asked, ask) \in Seq(AskedOf(T, P))
  BY <1>1, <1>3 DEF PagerOK, PagersOf
<1>5. /\ q \in PagersOf(T, P) /\ q.urls = r.urls /\ q.at = r.at /\ q.from = r.from /\ q.size = r.size
      /\ q.rows = r.rows /\ q.next = r.next /\ q.asked = Append(r.asked, ask)
  BY <1>3, <1>4 DEF PagersOf, PagerOK
<1> HIDE DEF q
<1>6. PagerOK(q, T, P)
  BY <1>3, <1>5 DEF PagerOK
<1> QED BY <1>2, <1>3, <1>5, <1>6 DEF ask, url

\* Of rows that were read the first are shown.
LEMMA PageOfRows ==
  ASSUME NEW T, NEW rs \in Seq(T), NEW size \in Nat \ {0}
  PROVE  OfSearch!Page(rs, size) \in Seq(T)
<1> DEFINE n == OfSearch!Min({size, Len(rs)})
<1>1. n = IF size <= Len(rs) THEN size ELSE Len(rs)
  BY MinOfTwo
<1>2. n \in Nat /\ n <= Len(rs)
  BY <1>1
<1>3. OfSearch!Page(rs, size) = SubSeq(rs, 1, n)
  BY DEF OfSearch!Page
<1> HIDE DEF n
<1>4. \A i \in 1 .. n : rs[i] \in T
  BY <1>2
<1> QED BY <1>2, <1>3, <1>4, SubSeqProperties

\* An answer is shown, and is no longer waited for.
LEMMA AnsweredShows ==
  ASSUME NEW T, NEW P, NEW p, PagerOK(p, T, P), NEW i \in DOMAIN p.asked,
         p.asked[i].rows \in Seq(T)
  PROVE  LET q == OfSearch!Answered(p, i)
             r == p.asked[i]
         IN  /\ PagerOK(q, T, P) /\ q.from = r.from /\ q.size = r.size
             /\ q.rows = OfSearch!Page(r.rows, r.size) /\ q.next = OfSearch!NextEnabled(r.rows, r.size)
             /\ q.urls = p.urls /\ q.at = p.at /\ Len(q.asked) = Len(p.asked) - 1
<1> DEFINE r == p.asked[i]
           rest == SubSeq(p.asked, 1, i - 1) \o SubSeq(p.asked, i + 1, Len(p.asked))
           shows == OfSearch!Page(r.rows, r.size)
           more == OfSearch!NextEnabled(r.rows, r.size)
           q == [p EXCEPT !.from = r.from, !.size = r.size, !.rows = shows, !.next = more, !.asked = rest]
<1>1. p \in PagersOf(T, P) /\ p.asked \in Seq(AskedOf(T, P)) /\ r \in AskedOf(T, P)
  BY DEF PagerOK, PagersOf
<1>2. r.from \in Nat /\ r.size \in Nat \ {0}
  BY <1>1 DEF AskedOf
<1>3. OfSearch!Answered(p, i) = q
  BY DEF OfSearch!Answered, OfSearch!RemoveAt
<1>4. shows \in Seq(T) /\ more \in BOOLEAN
  BY <1>2, PageOfRows DEF OfSearch!NextEnabled
<1>5. rest \in Seq(AskedOf(T, P)) /\ Len(rest) = Len(p.asked) - 1
  BY <1>1, RemovedAt
<1> HIDE DEF r, rest, shows, more
<1>6. /\ q \in PagersOf(T, P) /\ q.from = r.from /\ q.size = r.size /\ q.rows = shows
      /\ q.next = more /\ q.urls = p.urls /\ q.at = p.at /\ q.asked = rest
  BY <1>1, <1>2, <1>4, <1>5 DEF PagersOf
<1> HIDE DEF q
<1>7. PagerOK(q, T, P)
  BY <1>6 DEF PagerOK
<1> QED BY <1>3, <1>5, <1>6, <1>7 DEF r, shows, more

\* The server reads the list for a request.
LEMMA ServedReads ==
  ASSUME NEW T, NEW P, NEW p, PagerOK(p, T, P), NEW i \in DOMAIN p.asked, NEW list \in Seq(T)
  PROVE  LET q == OfSearch!Served(p, i, list)
             r == p.asked[i]
         IN  /\ PagerOK(q, T, P) /\ q.from = p.from /\ q.size = p.size /\ q.rows = p.rows
             /\ q.next = p.next /\ q.urls = p.urls /\ q.at = p.at
             /\ DOMAIN q.asked = DOMAIN p.asked /\ Len(q.asked) = Len(p.asked)
             /\ q.asked[i] = [r EXCEPT !.rows = OfSearch!Read(list, r.from, r.size)]
             /\ \A j \in DOMAIN p.asked : j # i => q.asked[j] = p.asked[j]
<1> DEFINE r == p.asked[i]
           reply == OfSearch!Read(list, r.from, r.size)
           s == [r EXCEPT !.rows = reply]
           asks_ == [p.asked EXCEPT ![i] = s]
           q == [p EXCEPT !.asked = asks_]
<1>1. p \in PagersOf(T, P) /\ p.asked \in Seq(AskedOf(T, P)) /\ r \in AskedOf(T, P)
  BY DEF PagerOK, PagersOf
<1>2. r.from \in Nat /\ r.size \in Nat \ {0}
  BY <1>1 DEF AskedOf
<1>3. reply \in Seq(T)
  BY <1>2, PageRead
<1>4. OfSearch!Served(p, i, list) = q
  BY DEF OfSearch!Served
<1> HIDE DEF reply
<1>5. s \in AskedOf(T, P)
  BY <1>1, <1>3 DEF AskedOf
<1> HIDE DEF s
<1>6. /\ asks_ \in Seq(AskedOf(T, P)) /\ Len(asks_) = Len(p.asked) /\ DOMAIN asks_ = DOMAIN p.asked
      /\ asks_[i] = s /\ \A j \in DOMAIN p.asked : j # i => asks_[j] = p.asked[j]
  BY <1>1, <1>5
<1> HIDE DEF asks_
<1>7. /\ q \in PagersOf(T, P) /\ q.from = p.from /\ q.size = p.size /\ q.rows = p.rows
      /\ q.next = p.next /\ q.urls = p.urls /\ q.at = p.at /\ q.asked = asks_
  BY <1>1, <1>6 DEF PagersOf
<1> HIDE DEF q
<1>8. PagerOK(q, T, P)
  BY <1>7 DEF PagerOK
<1> QED BY <1>4, <1>6, <1>7, <1>8 DEF s, reply

----------------------------------------------------------------------------
(* The page of a merge.                                                    *)

\* The entities are those the page was opened for.
MergingOf(n, kinds) == merging = [i \in 1 .. n |-> OfMerge!Entity(type, kinds[i], i)]
MergingTypes ==
  /\ type \in OfMerge!MergeTypes
  /\ \E n \in 2 .. Len(Bbids) : \E kinds \in [1 .. n -> OfMerge!Kinds] : MergingOf(n, kinds)

\* Fields and lists are not each other.
LEMMA FieldsAndLists ==
  ASSUME NEW t \in OfMerge!MergeTypes
  PROVE  /\ OfMerge!Fields(t) \cap OfMerge!Lists(t) = {}
         /\ "relationships" \notin OfMerge!Fields(t) \cup OfMerge!Lists(t)
         /\ "aliases" \in OfMerge!Lists(t) /\ "name" \in OfMerge!Fields(t)
         /\ t \in {"author", "publisher"} =>
              {"endDate", "beginDate", "ended"} \subseteq OfMerge!Fields(t)
         /\ t = "author" => "endArea" \in OfMerge!Fields(t)
         /\ t \notin {"author", "publisher"} =>
              {"endDate", "beginDate", "ended"} \cap OfMerge!Fields(t) = {}
         /\ t # "author" => "endArea" \notin OfMerge!Fields(t)
         /\ t # "edition" => "size" \notin OfMerge!Fields(t)
         /\ t = "series" => "seriesType" \in OfMerge!Fields(t) /\ "items" \in OfMerge!Lists(t)
<1>1. CASE t = "author"
  BY <1>1 DEF OfMerge!Fields, OfMerge!Lists, OfMerge!NameFields, OfMerge!AuthorFields
<1>2. CASE t = "edition"
  BY <1>2 DEF OfMerge!Fields, OfMerge!Lists, OfMerge!NameFields, OfMerge!EditionFields
<1>3. CASE t = "editionGroup"
  BY <1>3 DEF OfMerge!Fields, OfMerge!Lists, OfMerge!NameFields, OfMerge!EditionGroupFields
<1>4. CASE t = "publisher"
  BY <1>4 DEF OfMerge!Fields, OfMerge!Lists, OfMerge!NameFields, OfMerge!PublisherFields
<1>5. CASE t = "series"
  BY <1>5 DEF OfMerge!Fields, OfMerge!Lists, OfMerge!NameFields, OfMerge!SeriesFields
<1>6. CASE t = "work"
  BY <1>6 DEF OfMerge!Fields, OfMerge!Lists, OfMerge!NameFields, OfMerge!WorkFields
<1> QED BY <1>1, <1>2, <1>3, <1>4, <1>5, <1>6 DEF OfMerge!MergeTypes

LEMMA Values ==
  ASSUME MergeAssumption, NEW k \in OfMerge!Kinds
  PROVE  /\ OfMerge!Value(k, "ended") \in BOOLEAN
         /\ OfMerge!Value(k, "endDate") # Null => OfMerge!Value(k, "ended") = TRUE
         /\ OfMerge!Value(k, "endArea") # Null => OfMerge!Value(k, "ended") = TRUE
         /\ OfMerge!Value(k, "endDate") # "ticked"
         /\ OfMerge!Value(k, "name") = k /\ OfMerge!Value(k, "seriesType") = k
         /\ k # Null
<1>1. k \in {"this", "that", "bare", "past"} /\ k # Null /\ Null # "ticked"
  BY DEF OfMerge!Kinds, MergeAssumption
<1> DEFINE ended == OfMerge!Particular["ended"]
           endDate == OfMerge!Particular["endDate"]
           endArea == OfMerge!Particular["endArea"]
<1>2. /\ OfMerge!Value(k, "ended") = ended[k] /\ OfMerge!Value(k, "endDate") = endDate[k]
      /\ OfMerge!Value(k, "endArea") = endArea[k]
      /\ OfMerge!Value(k, "name") = k /\ OfMerge!Value(k, "seriesType") = k
  BY DEF OfMerge!Value, OfMerge!Particular, OfMerge!Given
<1>3. ended = [this |-> TRUE, that |-> FALSE, bare |-> FALSE, past |-> TRUE]
  BY DEF OfMerge!Particular
<1>4. endDate = [this |-> "late", that |-> Null, bare |-> Null, past |-> "early"]
  BY DEF OfMerge!Particular
<1>5. endArea = [this |-> "this", that |-> Null, bare |-> Null, past |-> Null]
  BY DEF OfMerge!Particular
<1> HIDE DEF ended, endDate, endArea
<1>6. ended["this"] = TRUE /\ ended["that"] = FALSE /\ ended["bare"] = FALSE /\ ended["past"] = TRUE
  BY <1>3
<1>7. /\ endDate["this"] = "late" /\ endDate["that"] = Null /\ endDate["bare"] = Null
      /\ endDate["past"] = "early"
  BY <1>4
<1>8. endArea["that"] = Null /\ endArea["bare"] = Null
  BY <1>5
<1>9. ended[k] \in BOOLEAN
  BY <1>1, <1>6
<1>10. endDate[k] # Null => ended[k] = TRUE
  BY <1>1, <1>6, <1>7
<1>11. endArea[k] # Null => ended[k] = TRUE
  BY <1>1, <1>6, <1>8
<1>12. endDate[k] # "ticked"
  BY <1>1, <1>7
<1> QED BY <1>1, <1>2, <1>9, <1>10, <1>11, <1>12

\* What the entities have.
LEMMA MergingFacts ==
  ASSUME MergeAssumption, MergingTypes
  PROVE  /\ Len(merging) \in Nat /\ Len(merging) >= 2 /\ DOMAIN merging = 1 .. Len(merging)
         /\ \A i \in 1 .. Len(merging) :
              /\ DOMAIN merging[i] = OfMerge!Fields(type) \cup OfMerge!Lists(type)
              /\ \E k \in OfMerge!Kinds :
                   /\ \A f \in OfMerge!Fields(type) : merging[i][f] = OfMerge!Value(k, f)
                   /\ \A l \in OfMerge!Lists(type) : merging[i][l] = OfMerge!ListOf(k, i, l)
<1>0. PICK n \in 2 .. Len(Bbids) : \E kinds \in [1 .. n -> OfMerge!Kinds] : MergingOf(n, kinds)
  BY DEF MergingTypes
<1>1. PICK kinds \in [1 .. n -> OfMerge!Kinds] : MergingOf(n, kinds)
  BY <1>0
<1>2. n \in Nat /\ n >= 2
  OBVIOUS
<1> DEFINE S == {OfMerge!Entity(type, kinds[i], i) : i \in 1 .. n}
<1>3. merging \in [1 .. n -> S]
  BY <1>1 DEF MergingOf
<1>4. Len(merging) = n /\ DOMAIN merging = 1 .. n
  BY <1>2, <1>3
<1>5. ASSUME NEW i \in 1 .. n
      PROVE  /\ DOMAIN merging[i] = OfMerge!Fields(type) \cup OfMerge!Lists(type)
             /\ \A f \in OfMerge!Fields(type) : merging[i][f] = OfMerge!Value(kinds[i], f)
             /\ \A l \in OfMerge!Lists(type) : merging[i][l] = OfMerge!ListOf(kinds[i], i, l)
  <2>1. merging[i] = OfMerge!Entity(type, kinds[i], i)
    BY <1>1 DEF MergingOf
  <2>2. OfMerge!Fields(type) \cap OfMerge!Lists(type) = {}
    BY FieldsAndLists DEF MergingTypes
  <2> QED BY <2>1, <2>2 DEF OfMerge!Entity
<1> QED BY <1>2, <1>4, <1>5

\* An option is what one of the entities has.
LEMMA OptionsOf ==
  ASSUME NEW f
  PROVE  \A v : v \in OfMerge!Options(f) <=>
                  v # Null /\ \E i \in 1 .. Len(merging) : v = merging[i][f]
BY DEF OfMerge!Options, OfMerge!Positions

LEMMA FirstOf ==
  ASSUME MergeAssumption, MergingTypes, NEW f
  PROVE  /\ OfMerge!Options(f) = {} => OfMerge!First(merging, f) = Null
         /\ OfMerge!Options(f) # {} => OfMerge!First(merging, f) \in OfMerge!Options(f)
         /\ merging[1][f] # Null => OfMerge!First(merging, f) = merging[1][f]
<1> DEFINE having == {i \in DOMAIN merging : merging[i][f] # Null}
           first == OfMerge!Min(having)
<1>1. Len(merging) \in Nat /\ Len(merging) >= 2 /\ DOMAIN merging = 1 .. Len(merging)
  BY MergingFacts
<1>2. OfMerge!First(merging, f) = IF having = {} THEN Null ELSE merging[first][f]
  BY DEF OfMerge!First
<1>3. OfMerge!Options(f) = {} <=> having = {}
  BY <1>1, OptionsOf
<1>4. ASSUME having # {} PROVE first \in having /\ \A i \in having : first <= i
  <2>1. having \subseteq Nat
    BY <1>1
  <2>2. \E i \in having : \A j \in having : i <= j
    BY <1>4, <2>1, LeastNumber
  <2>3. first = CHOOSE i \in having : \A j \in having : i <= j
    BY DEF OfMerge!Min
  <2> HIDE DEF having, first
  <2> QED BY <2>2, <2>3
<1>5. ASSUME merging[1][f] # Null PROVE having # {} /\ first = 1
  <2>1. 1 \in having
    BY <1>1, <1>5
  <2>2. first \in having /\ first <= 1
    BY <1>4, <2>1
  <2>3. first \in 1 .. Len(merging)
    BY <1>1, <2>2
  <2> HIDE DEF first, having
  <2> QED BY <1>1, <2>1, <2>2, <2>3
<1>6. ASSUME having # {} PROVE OfMerge!First(merging, f) \in OfMerge!Options(f)
  <2>1. first \in having
    BY <1>4, <1>6
  <2> HIDE DEF first
  <2>2. first \in 1 .. Len(merging) /\ merging[first][f] # Null
    BY <1>1, <2>1
  <2> QED BY <1>2, <1>6, <2>2, OptionsOf
<1> HIDE DEF first, having
<1> QED BY <1>2, <1>3, <1>5, <1>6

\* What the form says at first.
EndedAtFirst ==
  \/ OfMerge!First(merging, "endDate") # Null
  \/ type = "author" /\ OfMerge!First(merging, "endArea") # Null
  \/ OfMerge!First(merging, "ended") = TRUE
AtFirst(f) == IF f = "ended" THEN EndedAtFirst ELSE OfMerge!First(merging, f)

\* Whether something has ended is always said.
LEMMA EndedOptions ==
  ASSUME MergeAssumption, MergingTypes, type \in {"author", "publisher"}
  PROVE  /\ OfMerge!Options("ended") \subseteq BOOLEAN
         /\ OfMerge!First(merging, "ended") \in OfMerge!Options("ended")
         /\ OfMerge!First(merging, "ended") \in BOOLEAN
         /\ EndedAtFirst \in OfMerge!Options("ended")
         /\ "ticked" \notin OfMerge!Options("endDate")
<1>1. /\ "ended" \in OfMerge!Fields(type) /\ "endDate" \in OfMerge!Fields(type)
      /\ type = "author" => "endArea" \in OfMerge!Fields(type)
  BY FieldsAndLists DEF MergingTypes
<1>2. \A i \in 1 .. Len(merging) :
        \E k \in OfMerge!Kinds : \A f \in OfMerge!Fields(type) : merging[i][f] = OfMerge!Value(k, f)
  BY MergingFacts
<1>3. \A i \in 1 .. Len(merging) :
        /\ merging[i]["ended"] \in BOOLEAN
        /\ merging[i]["endDate"] # Null => merging[i]["ended"] = TRUE
        /\ type = "author" /\ merging[i]["endArea"] # Null => merging[i]["ended"] = TRUE
        /\ merging[i]["endDate"] # "ticked"
  <2> TAKE i \in 1 .. Len(merging)
  <2>1. PICK k \in OfMerge!Kinds :
          \A f \in OfMerge!Fields(type) : merging[i][f] = OfMerge!Value(k, f)
    BY <1>2
  <2>2. /\ merging[i]["ended"] = OfMerge!Value(k, "ended")
        /\ merging[i]["endDate"] = OfMerge!Value(k, "endDate")
        /\ type = "author" => merging[i]["endArea"] = OfMerge!Value(k, "endArea")
    BY <1>1, <2>1
  <2> QED BY <2>2, Values
<1>4. OfMerge!Options("ended") \subseteq BOOLEAN /\ "ticked" \notin OfMerge!Options("endDate")
  BY <1>3, OptionsOf
<1>5. 1 \in 1 .. Len(merging)
  BY MergingFacts
<1>6. OfMerge!First(merging, "ended") \in OfMerge!Options("ended")
  <2>1. merging[1]["ended"] \in OfMerge!Options("ended")
    BY <1>3, <1>5, OptionsOf DEF MergeAssumption
  <2> QED BY <2>1, FirstOf
<1>7. ASSUME NEW i \in 1 .. Len(merging), merging[i]["ended"] = TRUE
      PROVE  TRUE \in OfMerge!Options("ended")
  <2>1. TRUE # Null
    BY DEF MergeAssumption
  <2> QED BY <1>7, <2>1, OptionsOf
<1>8. ASSUME OfMerge!First(merging, "endDate") # Null PROVE TRUE \in OfMerge!Options("ended")
  <2>1. OfMerge!First(merging, "endDate") \in OfMerge!Options("endDate")
    BY <1>8, FirstOf
  <2>2. PICK i \in 1 .. Len(merging) : merging[i]["endDate"] # Null
    BY <2>1, OptionsOf
  <2> QED BY <1>3, <1>7, <2>2
<1>9. ASSUME type = "author", OfMerge!First(merging, "endArea") # Null
      PROVE  TRUE \in OfMerge!Options("ended")
  <2>1. OfMerge!First(merging, "endArea") \in OfMerge!Options("endArea")
    BY <1>9, FirstOf
  <2>2. PICK i \in 1 .. Len(merging) : merging[i]["endArea"] # Null
    BY <2>1, OptionsOf
  <2> QED BY <1>3, <1>7, <1>9, <2>2
<1>10. CASE EndedAtFirst
  <2>1. TRUE \in OfMerge!Options("ended")
    BY <1>6, <1>8, <1>9, <1>10 DEF EndedAtFirst
  <2>2. EndedAtFirst = TRUE
    BY <1>10
  <2> QED BY <1>4, <1>6, <2>1, <2>2
<1>11. CASE ~EndedAtFirst
  <2>1. OfMerge!First(merging, "ended") = FALSE
    BY <1>4, <1>6, <1>11 DEF EndedAtFirst
  <2>2. EndedAtFirst = FALSE
    BY <1>11
  <2> QED BY <1>4, <1>6, <2>1, <2>2
<1> QED BY <1>10, <1>11

\* The form as the page is opened.
LEMMA FormAtFirst ==
  ASSUME MergeAssumption, MergingTypes, form = OfMerge!FormState(type, merging)
  PROVE  /\ DOMAIN form = OfMerge!Fields(type) \cup OfMerge!Lists(type)
         /\ \A f \in OfMerge!Fields(type) : form[f] = AtFirst(f)
         /\ \A l \in OfMerge!Lists(type) : form[l] = UNION {merging[i][l] : i \in 1 .. Len(merging)}
<1>1. type \in OfMerge!MergeTypes /\ OfMerge!Fields(type) \cap OfMerge!Lists(type) = {}
  BY FieldsAndLists DEF MergingTypes
<1>2. DOMAIN merging = 1 .. Len(merging)
  BY MergingFacts
<1>3. DOMAIN form = OfMerge!Fields(type) \cup OfMerge!Lists(type)
  BY DEF OfMerge!FormState
<1>4. \A l \in OfMerge!Lists(type) : form[l] = UNION {merging[i][l] : i \in 1 .. Len(merging)}
  BY <1>2 DEF OfMerge!FormState, OfMerge!Collected
<1>5. \A f \in OfMerge!Fields(type) : form[f] = OfMerge!Section(type, merging)[f]
  BY <1>1 DEF OfMerge!FormState
<1> DEFINE firsts == [f \in OfMerge!Fields(type) |-> OfMerge!First(merging, f)]
<1>6. CASE type = "author"
  <2>1. OfMerge!Section(type, merging) =
          [firsts EXCEPT !.ended = \/ OfMerge!First(merging, "endArea") # Null
                                   \/ OfMerge!First(merging, "endDate") # Null \/ @]
    BY <1>6 DEF OfMerge!Section, OfMerge!AuthorSection, OfMerge!Firsts
  <2>2. "ended" \in OfMerge!Fields(type)
    BY <1>1, <1>6, FieldsAndLists
  <2>3. \A f \in OfMerge!Fields(type) \ {"ended"} :
          OfMerge!Section(type, merging)[f] = OfMerge!First(merging, f)
    BY <2>1
  <2>4. OfMerge!Section(type, merging)["ended"] =
          (\/ OfMerge!First(merging, "endArea") # Null
           \/ OfMerge!First(merging, "endDate") # Null \/ OfMerge!First(merging, "ended"))
    BY <2>1, <2>2
  <2>5. OfMerge!First(merging, "ended") \in BOOLEAN
    BY <1>6, EndedOptions
  <2>6. OfMerge!Section(type, merging)["ended"] = EndedAtFirst
    BY <1>6, <2>4, <2>5 DEF EndedAtFirst
  <2> QED BY <1>3, <1>4, <1>5, <2>3, <2>6 DEF AtFirst
<1>7. CASE type = "publisher"
  <2>1. OfMerge!Section(type, merging) =
          [firsts EXCEPT !.ended = OfMerge!First(merging, "endDate") # Null \/ @]
    BY <1>7 DEF OfMerge!Section, OfMerge!PublisherSection, OfMerge!Firsts
  <2>2. "ended" \in OfMerge!Fields(type)
    BY <1>1, <1>7, FieldsAndLists
  <2>3. \A f \in OfMerge!Fields(type) \ {"ended"} :
          OfMerge!Section(type, merging)[f] = OfMerge!First(merging, f)
    BY <2>1
  <2>4. OfMerge!Section(type, merging)["ended"] =
          (OfMerge!First(merging, "endDate") # Null \/ OfMerge!First(merging, "ended"))
    BY <2>1, <2>2
  <2>5. OfMerge!First(merging, "ended") \in BOOLEAN
    BY <1>7, EndedOptions
  <2>6. OfMerge!Section(type, merging)["ended"] = EndedAtFirst
    BY <1>7, <2>4, <2>5 DEF EndedAtFirst
  <2> QED BY <1>3, <1>4, <1>5, <2>3, <2>6 DEF AtFirst
<1>8. CASE type \notin {"author", "publisher"}
  <2>1. OfMerge!Section(type, merging) = OfMerge!Firsts(type, merging)
    BY <1>1, <1>8 DEF OfMerge!Section, OfMerge!EditionSection, OfMerge!EditionGroupSection,
                      OfMerge!SeriesSection, OfMerge!WorkSection, OfMerge!MergeTypes
  <2>2. "ended" \notin OfMerge!Fields(type)
    BY <1>1, <1>8, FieldsAndLists
  <2> QED BY <1>3, <1>4, <1>5, <2>1, <2>2 DEF AtFirst, OfMerge!Firsts
<1> QED BY <1>6, <1>7, <1>8

----------------------------------------------------------------------------
(* What the editor makes of the form.                                      *)

\* Once somebody has said whether an author has ended.
EndSaid == type = "author" /\ "ended" \in DOMAIN chosen

\* A field has what was chosen in it, or what it had at first; one of its options, if the
\* store does not know of the last choice.
FieldHas(f) ==
  IF EndSaid /\ f \in {"endDate", "endArea"}
  THEN form[f] \in OfMerge!Options(f) \cup {Null} \cup (IF f = "endDate" THEN {"ticked"} ELSE {})
  ELSE IF f \in OfMerge!Lost THEN form[f] \in OfMerge!Options(f) \cup {AtFirst(f)}
  ELSE form[f] = IF f \in DOMAIN chosen \ {"size"} THEN chosen[f] ELSE AtFirst(f)

FormInv ==
  /\ DOMAIN form = OfMerge!Fields(type) \cup OfMerge!Lists(type)
  /\ form = [f \in DOMAIN form |-> form[f]]
  /\ DOMAIN chosen \subseteq OfMerge!Fields(type)
  /\ \A f \in DOMAIN chosen : chosen[f] \in OfMerge!Options(f)
  /\ \A f \in OfMerge!Fields(type) : FieldHas(f)
  /\ \A l \in OfMerge!Lists(type) : form[l] = UNION {merging[i][l] : i \in 1 .. Len(merging)}
  /\ type \in {"author", "publisher"} /\ "ended" \notin DOMAIN chosen =>
       (form["endDate"] # Null => form["ended"] = TRUE)

\* The debouncer holds the last choice of a field; that of an end was made when there was one.
KeystrokeInv ==
  /\ OfMerge!Lost \subseteq DOMAIN chosen \cap OfMerge!Debounced
  /\ \A f \in DOMAIN keystroke : f \notin dropped /\ keystroke[f] = chosen[f]
  /\ \A f, g \in DOMAIN keystroke : f = g
  /\ "endDate" \in DOMAIN keystroke /\ "ended" \notin DOMAIN chosen => form["ended"]

MergePageInv ==
  /\ MergingTypes /\ FormInv /\ KeystrokeInv
  /\ answer = "saved" => /\ OfMerge!Valid /\ result \in OfMerge!Stored
                         /\ OfMerge!Fails => form["endDate"] = "ticked"
  /\ answer = "error" => OfMerge!Fails

LEMMA MergePageInit ==
  ASSUME MergeAssumption, OfMerge!Init
  PROVE  MergePageInv
<1>1. MergingTypes /\ form = OfMerge!FormState(type, merging)
  BY DEF OfMerge!Init, MergingTypes, MergingOf
<1>2. chosen = <<>> /\ answer = Null
  BY DEF OfMerge!Init
<1>3. DOMAIN chosen = {} /\ DOMAIN keystroke = {} /\ dropped = {}
  BY <1>2 DEF OfMerge!Init
<1>4. /\ DOMAIN form = OfMerge!Fields(type) \cup OfMerge!Lists(type)
      /\ \A f \in OfMerge!Fields(type) : form[f] = AtFirst(f)
      /\ \A l \in OfMerge!Lists(type) : form[l] = UNION {merging[i][l] : i \in 1 .. Len(merging)}
  BY <1>1, FormAtFirst
<1>5. form = [f \in DOMAIN form |-> form[f]]
  <2>1. OfMerge!FormState(type, merging) =
          [f \in DOMAIN OfMerge!FormState(type, merging) |-> OfMerge!FormState(type, merging)[f]]
    BY DEF OfMerge!FormState
  <2> QED BY <1>1, <2>1
<1>6. type \in {"author", "publisher"} => (form["endDate"] # Null => form["ended"] = TRUE)
  <2> SUFFICES ASSUME type \in {"author", "publisher"}, form["endDate"] # Null
               PROVE  form["ended"] = TRUE
    OBVIOUS
  <2>1. {"endDate", "ended"} \subseteq OfMerge!Fields(type)
    BY <1>1, FieldsAndLists DEF MergingTypes
  <2>2. form["endDate"] = OfMerge!First(merging, "endDate") /\ form["ended"] = EndedAtFirst
    BY <1>4, <2>1 DEF AtFirst
  <2>3. EndedAtFirst
    BY <2>2 DEF EndedAtFirst
  <2> QED BY <2>2, <2>3
<1>7. \A f \in OfMerge!Fields(type) : FieldHas(f)
  BY <1>3, <1>4 DEF FieldHas, EndSaid, OfMerge!Lost
<1>8. FormInv /\ KeystrokeInv
  BY <1>3, <1>4, <1>5, <1>6, <1>7 DEF FormInv, KeystrokeInv, OfMerge!Lost
<1>9. answer # "saved" /\ answer # "error"
  BY <1>2 DEF MergeAssumption
<1> QED BY <1>1, <1>8, <1>9 DEF MergePageInv

\* The form after a choice.
LEMMA ReducedForm ==
  ASSUME MergeAssumption, MergingTypes, FormInv, NEW f \in OfMerge!Fields(type), NEW v \in OfMerge!Options(f),
         NEW next, next = OfMerge!Reduced(f, v)
  PROVE  /\ DOMAIN next = DOMAIN form /\ next = [g \in DOMAIN form |-> next[g]]
         /\ \A g \in DOMAIN form :
              next[g] = IF type = "author" /\ f = "ended" /\ g = "endArea" THEN Null
                        ELSE IF type = "author" /\ f = "ended" /\ g = "endDate"
                        THEN (IF v THEN "ticked" ELSE Null)
                        ELSE IF g = f /\ f # "size" THEN v
                        ELSE form[g]
<1>1. /\ DOMAIN form = OfMerge!Fields(type) \cup OfMerge!Lists(type)
      /\ form = [g \in DOMAIN form |-> form[g]]
  BY DEF FormInv
<1>2. type \in OfMerge!MergeTypes /\ (type # "edition" => f # "size")
  BY FieldsAndLists DEF MergingTypes
<1>3. type = "author" => {"ended", "endDate", "endArea"} \subseteq DOMAIN form
  BY <1>1, <1>2, FieldsAndLists
<1>4. CASE type = "author" /\ f = "ended"
  <2>1. next = [form EXCEPT !.ended = v, !.endArea = Null, !.endDate = IF v THEN "ticked" ELSE Null]
    BY <1>4 DEF OfMerge!Reduced, OfMerge!AuthorReduced, OfMerge!Ticked
  <2> QED BY <1>1, <1>3, <1>4, <2>1
<1>5. CASE type = "edition" /\ f = "size"
  <2>1. next = form
    BY <1>5 DEF OfMerge!Reduced, OfMerge!EditionReduced
  <2> QED BY <1>1, <1>5, <2>1
<1>6. CASE ~(type = "author" /\ f = "ended") /\ f # "size"
  <2>1. next = [form EXCEPT ![f] = v]
    BY <1>6 DEF OfMerge!Reduced, OfMerge!EditionReduced, OfMerge!AuthorReduced
  <2> QED BY <1>1, <1>6, <2>1
<1> QED BY <1>2, <1>4, <1>5, <1>6

\* A choice reaches the store.
LEMMA ReducingKeeps ==
  ASSUME MergeAssumption, MergingTypes, FormInv,
         NEW f \in OfMerge!Fields(type), NEW v \in OfMerge!Options(f),
         form' = OfMerge!Reduced(f, v), UNCHANGED <<type, merging>>,
         DOMAIN chosen' = DOMAIN chosen \cup {f}, chosen'[f] = v,
         \A g \in DOMAIN chosen : g # f => chosen'[g] = chosen[g],
         OfMerge!Lost \subseteq OfMerge!Debounced, (OfMerge!Lost)' = OfMerge!Lost \ {f},
         f = "endDate" /\ "ended" \notin DOMAIN chosen => form["ended"]
  PROVE  /\ MergingTypes' /\ FormInv'
         /\ f # "ended" /\ "ended" \in DOMAIN form => form'["ended"] = form["ended"]
<1>2. type \in OfMerge!MergeTypes
  BY DEF MergingTypes
<1>3. /\ DOMAIN form = OfMerge!Fields(type) \cup OfMerge!Lists(type)
      /\ DOMAIN chosen \subseteq OfMerge!Fields(type)
      /\ \A g \in DOMAIN chosen : chosen[g] \in OfMerge!Options(g)
      /\ \A g \in OfMerge!Fields(type) : FieldHas(g)
      /\ \A l \in OfMerge!Lists(type) : form[l] = UNION {merging[i][l] : i \in 1 .. Len(merging)}
      /\ type \in {"author", "publisher"} /\ "ended" \notin DOMAIN chosen =>
           (form["endDate"] # Null => form["ended"] = TRUE)
  BY DEF FormInv
<1>4. /\ DOMAIN form' = DOMAIN form /\ form' = [g \in DOMAIN form |-> form'[g]]
      /\ \A g \in DOMAIN form :
           form'[g] = IF type = "author" /\ f = "ended" /\ g = "endArea" THEN Null
                      ELSE IF type = "author" /\ f = "ended" /\ g = "endDate"
                      THEN (IF v THEN "ticked" ELSE Null)
                      ELSE IF g = f /\ f # "size" THEN v
                      ELSE form[g]
  BY ReducedForm
<1>5. /\ DOMAIN chosen' = DOMAIN chosen \cup {f} /\ chosen'[f] = v
      /\ \A g \in DOMAIN chosen : g # f => chosen'[g] = chosen[g]
  OBVIOUS
<1>6. /\ OfMerge!Fields(type) \cap OfMerge!Lists(type) = {}
      /\ type = "author" => {"ended", "endDate", "endArea"} \subseteq OfMerge!Fields(type)
      /\ type \in {"author", "publisher"} => {"ended", "endDate"} \subseteq OfMerge!Fields(type)
  BY <1>2, FieldsAndLists
<1>7. \A g \in DOMAIN chosen' : chosen'[g] \in OfMerge!Options(g)
  BY <1>3, <1>5
<1>8. ASSUME NEW l \in OfMerge!Lists(type)
      PROVE  form'[l] = UNION {merging[i][l] : i \in 1 .. Len(merging)}
  <2>1. l \in DOMAIN form /\ l # f /\ (type = "author" => l \notin {"endDate", "endArea"})
    BY <1>3, <1>6
  <2>2. form'[l] = form[l]
    BY <1>4, <2>1
  <2> QED BY <1>3, <2>2
<1>9. ASSUME NEW g \in OfMerge!Fields(type)
      PROVE  IF (type = "author" /\ "ended" \in DOMAIN chosen') /\ g \in {"endDate", "endArea"}
             THEN form'[g] \in OfMerge!Options(g) \cup {Null} \cup (IF g = "endDate" THEN {"ticked"} ELSE {})
             ELSE IF g \in OfMerge!Lost \ {f} THEN form'[g] \in OfMerge!Options(g) \cup {AtFirst(g)}
             ELSE form'[g] = IF g \in DOMAIN chosen' \ {"size"} THEN chosen'[g] ELSE AtFirst(g)
  <2>1. FieldHas(g) /\ g \in DOMAIN form
    BY <1>3
  <2>2. CASE type = "author" /\ "ended" \in DOMAIN chosen' /\ g \in {"endDate", "endArea"}
    <3>1. CASE f = "ended"
      BY <1>4, <2>1, <2>2, <3>1
    <3>2. CASE f = g
      BY <1>4, <2>1, <2>2, <3>2
    <3>3. CASE f # "ended" /\ f # g
      <4>1. EndSaid
        BY <1>5, <2>2, <3>3 DEF EndSaid
      <4>2. form'[g] = form[g]
        BY <1>4, <2>1, <3>3
      <4> QED BY <2>1, <2>2, <4>1, <4>2 DEF FieldHas
    <3> QED BY <3>1, <3>2, <3>3
  <2>3. CASE ~(type = "author" /\ "ended" \in DOMAIN chosen' /\ g \in {"endDate", "endArea"})
    <3>1. IF g \in OfMerge!Lost THEN form[g] \in OfMerge!Options(g) \cup {AtFirst(g)}
          ELSE form[g] = IF g \in DOMAIN chosen \ {"size"} THEN chosen[g] ELSE AtFirst(g)
      <4>1. ~(EndSaid /\ g \in {"endDate", "endArea"})
        BY <1>5, <2>3 DEF EndSaid
      <4> QED BY <2>1, <4>1 DEF FieldHas
    <3>2. form'[g] = IF g = f /\ f # "size" THEN v ELSE form[g]
      BY <1>4, <1>5, <2>1, <2>3
    <3>3. CASE g = f /\ f # "size"
      BY <1>5, <2>3, <3>2, <3>3
    <3>4. CASE g # f
      BY <1>5, <2>3, <3>1, <3>2, <3>4
    <3>5. CASE g = f /\ f = "size"
      <4>1. "size" \notin OfMerge!Lost
        BY DEF OfMerge!Debounced, OfMerge!Dates
      <4> QED BY <1>5, <2>3, <3>1, <3>2, <3>5, <4>1
    <3> QED BY <3>3, <3>4, <3>5
  <2> QED BY <2>2, <2>3
<1>10. ASSUME type \in {"author", "publisher"}, "ended" \notin DOMAIN chosen', form'["endDate"] # Null
       PROVE  form'["ended"] = TRUE
  <2>1. f # "ended" /\ "ended" \notin DOMAIN chosen
    BY <1>5, <1>10
  <2>2. {"ended", "endDate"} \subseteq OfMerge!Fields(type)
    BY <1>6, <1>10
  <2>3. form'["ended"] = form["ended"] /\ (f # "endDate" => form'["endDate"] = form["endDate"])
    BY <1>3, <1>4, <2>1, <2>2
  <2>4. form["ended"] = EndedAtFirst
    <3>1. "ended" \notin OfMerge!Lost
      BY DEF OfMerge!Debounced, OfMerge!Dates
    <3> QED BY <1>3, <2>1, <2>2, <3>1 DEF FieldHas, AtFirst
  <2>5. EndedAtFirst \in BOOLEAN
    BY DEF EndedAtFirst
  <2> QED BY <1>3, <1>10, <2>1, <2>3, <2>4, <2>5
<1>11. FormInv'
  <2>1. \A g : OfMerge!Options(g)' = OfMerge!Options(g) /\ AtFirst(g)' = AtFirst(g)
    BY DEF OfMerge!Options, OfMerge!Positions, AtFirst, EndedAtFirst
  <2>2. \A g \in OfMerge!Fields(type) : FieldHas(g)'
    BY <1>9, <2>1 DEF FieldHas, EndSaid
  <2>3. DOMAIN chosen' \subseteq OfMerge!Fields(type)
    BY <1>3, <1>5
  <2>4. \A g \in DOMAIN chosen' : chosen'[g] \in OfMerge!Options(g)'
    BY <1>7, <2>1
  <2>5. \A g \in OfMerge!Fields(type') : FieldHas(g)'
    BY <2>2
  <2>6. \A l \in OfMerge!Lists(type') : form'[l] = UNION {merging'[i][l] : i \in 1 .. Len(merging')}
    BY <1>8
  <2>7. DOMAIN form' = OfMerge!Fields(type') \cup OfMerge!Lists(type')
        /\ form' = [g \in DOMAIN form' |-> form'[g]]
    BY <1>3, <1>4
  <2>8. DOMAIN chosen' \subseteq OfMerge!Fields(type')
    BY <2>3
  <2>9. type' \in {"author", "publisher"} /\ "ended" \notin DOMAIN chosen' =>
          (form'["endDate"] # Null => form'["ended"] = TRUE)
    BY <1>10
  <2> QED BY <2>4, <2>5, <2>6, <2>7, <2>8, <2>9 DEF FormInv
<1>12. MergingTypes'
  BY DEF MergingTypes, MergingOf
<1>13. f # "ended" /\ "ended" \in DOMAIN form => form'["ended"] = form["ended"]
  BY <1>4
<1> QED BY <1>11, <1>12, <1>13

\* A step that does not change the form.
LEMMA FormStays ==
  ASSUME MergingTypes, FormInv, UNCHANGED <<type, merging, form, chosen, OfMerge!Lost>>
  PROVE  MergingTypes' /\ FormInv'
<1>1. \A g : OfMerge!Options(g)' = OfMerge!Options(g) /\ AtFirst(g)' = AtFirst(g)
  BY DEF OfMerge!Options, OfMerge!Positions, AtFirst, EndedAtFirst
<1>2. \A g \in OfMerge!Fields(type') : FieldHas(g)'
  <2> TAKE g \in OfMerge!Fields(type')
  <2>1. FieldHas(g)
    BY DEF FormInv
  <2> QED BY <1>1, <2>1 DEF FieldHas, EndSaid
<1>3. \A g \in DOMAIN chosen' : chosen'[g] \in OfMerge!Options(g)'
  BY <1>1 DEF FormInv
<1>4. FormInv'
  BY <1>2, <1>3 DEF FormInv
<1> QED BY <1>4 DEF MergingTypes, MergingOf

\* A choice of a text or a date, which is held.
LEMMA HoldingKeeps ==
  ASSUME MergeAssumption, MergePageInv, NEW f \in OfMerge!Fields(type), NEW v \in OfMerge!Options(f),
         OfMerge!Choose(f, v), f \in OfMerge!Debounced
  PROVE  MergePageInv'
<1>1. /\ answer = Null /\ UNCHANGED <<type, merging, form, answer, result>>
      /\ keystroke' = [g \in {f} |-> v] /\ dropped' = OfMerge!Lost \ {f}
      /\ chosen' = [g \in DOMAIN chosen \cup {f} |-> IF g = f THEN v ELSE chosen[g]]
      /\ f = "endDate" => form.ended
  BY DEF OfMerge!Choose, OfMerge!Visible, OfMerge!Held
<1>2. MergingTypes /\ FormInv /\ KeystrokeInv
  BY DEF MergePageInv
<1>3. /\ DOMAIN keystroke' = {f} /\ keystroke'[f] = v
      /\ DOMAIN chosen' = DOMAIN chosen \cup {f} /\ chosen'[f] = v
      /\ \A g \in DOMAIN chosen : g # f => chosen'[g] = chosen[g]
  BY <1>1
<1>4. (OfMerge!Lost)' = OfMerge!Lost \cup {f}
  BY <1>1, <1>3 DEF OfMerge!Lost
<1>5. \A g : OfMerge!Options(g)' = OfMerge!Options(g) /\ AtFirst(g)' = AtFirst(g)
  BY <1>1 DEF OfMerge!Options, OfMerge!Positions, AtFirst, EndedAtFirst
<1>6. f # "ended" /\ f # "size"
  BY DEF OfMerge!Debounced, OfMerge!Dates
<1>7. ASSUME NEW g \in OfMerge!Fields(type) PROVE FieldHas(g)'
  <2>1. FieldHas(g) /\ EndSaid' = EndSaid
    BY <1>1, <1>2, <1>3, <1>6 DEF FormInv, EndSaid
  <2>2. CASE EndSaid /\ g \in {"endDate", "endArea"}
    BY <1>1, <1>5, <2>1, <2>2 DEF FieldHas
  <2>3. CASE ~(EndSaid /\ g \in {"endDate", "endArea"}) /\ g # f
    <3>1. /\ g \in (OfMerge!Lost)' <=> g \in OfMerge!Lost
          /\ g \in DOMAIN chosen' <=> g \in DOMAIN chosen
          /\ g \in DOMAIN chosen => chosen'[g] = chosen[g]
      BY <1>3, <1>4, <2>3
    <3> QED BY <1>1, <1>5, <2>1, <2>3, <3>1 DEF FieldHas
  <2>4. CASE ~(EndSaid /\ g \in {"endDate", "endArea"}) /\ g = f
    <3>1. form[f] \in OfMerge!Options(f) \cup {AtFirst(f)}
      <4>1. f \in DOMAIN chosen => chosen[f] \in OfMerge!Options(f)
        BY <1>2 DEF FormInv
      <4> QED BY <2>1, <2>4, <4>1 DEF FieldHas
    <3> QED BY <1>1, <1>4, <1>5, <2>1, <2>4, <3>1 DEF FieldHas
  <2> QED BY <2>2, <2>3, <2>4
<1>8. FormInv'
  <2>1. \A g \in DOMAIN chosen' : chosen'[g] \in OfMerge!Options(g)'
    BY <1>2, <1>3, <1>5 DEF FormInv
  <2>2. DOMAIN chosen' \subseteq OfMerge!Fields(type')
    BY <1>1, <1>2, <1>3 DEF FormInv
  <2>3. \A g \in OfMerge!Fields(type') : FieldHas(g)'
    BY <1>1, <1>7
  <2>4. /\ DOMAIN form' = OfMerge!Fields(type') \cup OfMerge!Lists(type')
        /\ form' = [g \in DOMAIN form' |-> form'[g]]
    BY <1>1, <1>2 DEF FormInv
  <2>5. \A l \in OfMerge!Lists(type') : form'[l] = UNION {merging'[i][l] : i \in 1 .. Len(merging')}
    BY <1>1, <1>2 DEF FormInv
  <2>6. type' \in {"author", "publisher"} /\ "ended" \notin DOMAIN chosen' =>
          (form'["endDate"] # Null => form'["ended"] = TRUE)
    BY <1>1, <1>2, <1>3 DEF FormInv
  <2> QED BY <2>1, <2>2, <2>3, <2>4, <2>5, <2>6 DEF FormInv
<1>9. KeystrokeInv'
  BY <1>1, <1>2, <1>3, <1>4, <1>6 DEF KeystrokeInv
<1>10. answer' # "saved" /\ answer' # "error"
  BY <1>1 DEF MergeAssumption
<1> QED BY <1>1, <1>2, <1>8, <1>9, <1>10 DEF MergePageInv, MergingTypes, MergingOf

\* A choice of anything else.
LEMMA StoringKeeps ==
  ASSUME MergeAssumption, MergePageInv, NEW f \in OfMerge!Fields(type), NEW v \in OfMerge!Options(f),
         OfMerge!Choose(f, v), f \notin OfMerge!Debounced
  PROVE  MergePageInv'
<1>1. /\ answer = Null /\ form' = OfMerge!Reduced(f, v)
      /\ UNCHANGED <<type, merging, answer, result, keystroke, dropped>>
      /\ chosen' = [g \in DOMAIN chosen \cup {f} |-> IF g = f THEN v ELSE chosen[g]]
  BY DEF OfMerge!Choose
<1>2. MergingTypes /\ FormInv /\ KeystrokeInv
  BY DEF MergePageInv
<1>3. /\ DOMAIN chosen' = DOMAIN chosen \cup {f} /\ chosen'[f] = v
      /\ \A g \in DOMAIN chosen : g # f => chosen'[g] = chosen[g]
  BY <1>1
<1>4. /\ OfMerge!Lost \subseteq DOMAIN chosen \cap OfMerge!Debounced
      /\ (OfMerge!Lost)' = OfMerge!Lost /\ (OfMerge!Lost)' = OfMerge!Lost \ {f}
  BY <1>1, <1>2 DEF KeystrokeInv, OfMerge!Lost
<1>5. f # "endDate"
  BY DEF OfMerge!Debounced, OfMerge!Dates
<1>6. /\ MergingTypes' /\ FormInv'
      /\ f # "ended" /\ "ended" \in DOMAIN form => form'["ended"] = form["ended"]
  BY <1>1, <1>2, <1>3, <1>4, <1>5, ReducingKeeps
<1>7. "endDate" \in DOMAIN keystroke => "ended" \in DOMAIN form
  BY <1>2, FieldsAndLists DEF KeystrokeInv, FormInv, MergingTypes, OfMerge!Lost
<1>8. KeystrokeInv'
  <2>1. \A g \in DOMAIN keystroke : g \in DOMAIN chosen /\ g # f
    BY <1>4 DEF OfMerge!Lost
  <2>2. \A g \in DOMAIN keystroke' : g \notin dropped' /\ keystroke'[g] = chosen'[g]
    BY <1>1, <1>2, <1>3, <2>1 DEF KeystrokeInv
  <2>3. "endDate" \in DOMAIN keystroke' /\ "ended" \notin DOMAIN chosen' => form'["ended"]
    BY <1>1, <1>2, <1>3, <1>6, <1>7 DEF KeystrokeInv
  <2>4. (OfMerge!Lost)' \subseteq DOMAIN chosen' \cap OfMerge!Debounced
    BY <1>3, <1>4
  <2>5. \A g, h \in DOMAIN keystroke' : g = h
    BY <1>1, <1>2 DEF KeystrokeInv
  <2> QED BY <2>2, <2>3, <2>4, <2>5 DEF KeystrokeInv
<1>9. answer' # "saved" /\ answer' # "error"
  BY <1>1 DEF MergeAssumption
<1> QED BY <1>6, <1>8, <1>9 DEF MergePageInv

\* What is held reaches the store.
LEMMA DeliveringKeeps ==
  ASSUME MergeAssumption, MergePageInv, OfMerge!Deliver
  PROVE  MergePageInv'
<1>1. PICK f \in DOMAIN keystroke : form' = OfMerge!Reduced(f, keystroke[f])
  BY DEF OfMerge!Deliver
<1>2. /\ answer = Null /\ keystroke' = <<>>
      /\ UNCHANGED <<type, merging, chosen, dropped, answer, result>>
  BY DEF OfMerge!Deliver
<1>3. MergingTypes /\ FormInv /\ KeystrokeInv
  BY DEF MergePageInv
<1>4. DOMAIN keystroke' = {}
  BY <1>2
<1>5. /\ f \in DOMAIN chosen /\ f \in OfMerge!Fields(type) /\ keystroke[f] = chosen[f]
      /\ keystroke[f] \in OfMerge!Options(f) /\ f \notin dropped /\ f \in OfMerge!Debounced
      /\ OfMerge!Lost \subseteq OfMerge!Debounced
  BY <1>3 DEF KeystrokeInv, FormInv, OfMerge!Lost
<1>6. (OfMerge!Lost)' = OfMerge!Lost \ {f}
  <2>1. DOMAIN keystroke = {f}
    BY <1>3 DEF KeystrokeInv
  <2> QED BY <1>2, <1>4, <1>5, <2>1 DEF OfMerge!Lost
<1>7. DOMAIN chosen' = DOMAIN chosen \cup {f} /\ chosen'[f] = keystroke[f]
  BY <1>2, <1>5
<1>8. f = "endDate" /\ "ended" \notin DOMAIN chosen => form["ended"]
  BY <1>3 DEF KeystrokeInv
<1>9. MergingTypes' /\ FormInv'
  BY <1>1, <1>2, <1>3, <1>5, <1>6, <1>7, <1>8, ReducingKeeps
<1>10. KeystrokeInv'
  BY <1>2, <1>3, <1>4, <1>6 DEF KeystrokeInv
<1>11. answer' # "saved" /\ answer' # "error"
  BY <1>2 DEF MergeAssumption
<1> QED BY <1>9, <1>10, <1>11 DEF MergePageInv

LEMMA TypingElsewhereKeeps ==
  ASSUME MergeAssumption, MergePageInv, OfMerge!TypeElsewhere
  PROVE  MergePageInv'
<1>1. /\ answer = Null /\ keystroke' = <<>> /\ dropped' = OfMerge!Lost
      /\ UNCHANGED <<type, merging, form, chosen, answer, result>>
  BY DEF OfMerge!TypeElsewhere
<1>2. DOMAIN keystroke' = {} /\ (OfMerge!Lost)' = OfMerge!Lost
  BY <1>1 DEF OfMerge!Lost
<1>3. MergingTypes' /\ FormInv'
  BY <1>1, <1>2, FormStays DEF MergePageInv
<1>4. KeystrokeInv'
  BY <1>1, <1>2 DEF KeystrokeInv, MergePageInv
<1>5. answer' # "saved" /\ answer' # "error"
  BY <1>1 DEF MergeAssumption
<1> QED BY <1>3, <1>4, <1>5 DEF MergePageInv

LEMMA MergeSubmittedKeeps ==
  ASSUME MergeAssumption, MergePageInv, OfMerge!Submit
  PROVE  MergePageInv'
<1>1. /\ answer = Null /\ OfMerge!Valid
      /\ UNCHANGED <<type, merging, form, keystroke, chosen, dropped>>
      /\ \/ /\ answer' = "saved" /\ result' \in OfMerge!Stored
            /\ OfMerge!Fails => form["endDate"] = "ticked"
         \/ answer' = "error" /\ OfMerge!Fails
  BY DEF OfMerge!Submit, OfMerge!Ticked
<1>2. MergingTypes' /\ FormInv' /\ KeystrokeInv'
  <2>1. (OfMerge!Lost)' = OfMerge!Lost
    BY <1>1 DEF OfMerge!Lost
  <2> QED BY <1>1, <2>1, FormStays DEF MergePageInv, KeystrokeInv
<1>3. OfMerge!Valid' = OfMerge!Valid /\ OfMerge!Fails' = OfMerge!Fails /\ OfMerge!Stored' = OfMerge!Stored
  BY <1>1 DEF OfMerge!Valid, OfMerge!Fails, OfMerge!Stored, OfMerge!EndHasEnded, OfMerge!NextTarget,
              OfMerge!Relationships, OfMerge!Merged, OfMerge!Redirected, OfMerge!Positions
<1> QED BY <1>1, <1>2, <1>3 DEF MergePageInv

LEMMA MergePageKeeps ==
  ASSUME MergeAssumption, MergePageInv, [OfMerge!Next]_(OfMerge!vars)
  PROVE  MergePageInv'
<1>1. CASE UNCHANGED OfMerge!vars
  <2>1. UNCHANGED <<type, merging, form, keystroke, chosen, dropped, answer, result>>
    BY <1>1 DEF OfMerge!vars
  <2>2. MergingTypes' /\ FormInv' /\ KeystrokeInv'
    <3>1. (OfMerge!Lost)' = OfMerge!Lost
      BY <2>1 DEF OfMerge!Lost
    <3> QED BY <2>1, <3>1, FormStays DEF MergePageInv, KeystrokeInv
  <2>3. OfMerge!Valid' = OfMerge!Valid /\ OfMerge!Fails' = OfMerge!Fails /\ OfMerge!Stored' = OfMerge!Stored
    BY <2>1 DEF OfMerge!Valid, OfMerge!Fails, OfMerge!Stored, OfMerge!EndHasEnded, OfMerge!NextTarget,
                OfMerge!Relationships, OfMerge!Merged, OfMerge!Redirected, OfMerge!Positions
  <2> QED BY <2>1, <2>2, <2>3 DEF MergePageInv
<1>2. CASE OfMerge!Submit
  BY <1>2, MergeSubmittedKeeps
<1>3. ASSUME NEW f \in OfMerge!Fields(type), NEW v \in OfMerge!Options(f), OfMerge!Choose(f, v)
      PROVE  MergePageInv'
  BY <1>3, HoldingKeeps, StoringKeeps
<1>4. CASE OfMerge!Deliver
  BY <1>4, DeliveringKeeps
<1>5. CASE OfMerge!TypeElsewhere
  BY <1>5, TypingElsewhereKeeps
<1> QED BY <1>1, <1>2, <1>3, <1>4, <1>5 DEF OfMerge!Next

----------------------------------------------------------------------------
(* What is shown and sent.                                                 *)

\* Of at most one option any two are the same.
LEMMA OneOption ==
  ASSUME MergeAssumption, MergingTypes, NEW f, OfMerge!ReadOnly(f),
         NEW v \in OfMerge!Options(f), NEW w \in OfMerge!Options(f)
  PROVE  v = w
<1> DEFINE S == OfMerge!Options(f)
           N == 1 .. Len(merging)
           all == {merging[i][f] : i \in N}
<1>1. IsFiniteSet(N)
  BY MergingFacts, FS_Interval
<1>2. IsFiniteSet(all)
  <2> DEFINE having == [i \in N |-> merging[i][f]]
  <2>1. having \in [N -> all] /\ \A t \in all : \E i \in N : having[i] = t
    OBVIOUS
  <2> HIDE DEF having, N, all
  <2>2. having \in Surjection(N, all)
    BY <2>1 DEF Surjection
  <2> QED BY <1>1, <2>2, FS_Surjection
<1>3. IsFiniteSet(S)
  <2>1. S \subseteq all
    BY DEF OfMerge!Options, OfMerge!Positions
  <2> HIDE DEF S, all
  <2> QED BY <1>2, <2>1, FS_Subset
<1>4. Cardinality(S) <= 1
  BY DEF OfMerge!ReadOnly, OfMerge!Cardinality, Cardinality
<1> HIDE DEF S
<1>5. SUFFICES ASSUME v # w PROVE FALSE
  OBVIOUS
<1>6. v \in S /\ w \in S
  BY DEF S
<1>7. IsFiniteSet(S \ {v}) /\ Cardinality(S \ {v}) = Cardinality(S) - 1
  BY <1>3, <1>6, FS_RemoveElement
<1> DEFINE others == S \ {v}
<1>8. w \in others
  BY <1>5, <1>6
<1>9. IsFiniteSet(others) /\ Cardinality(others) = Cardinality(S) - 1
  BY <1>7
<1> HIDE DEF others
<1>10. Cardinality(others) # 0
  BY <1>8, <1>9, FS_EmptySet
<1>11. Cardinality(S) \in Nat /\ Cardinality(others) \in Nat
  BY <1>3, <1>9, FS_CardinalityType
<1> QED BY <1>4, <1>9, <1>10, <1>11

\* What a field had at first is one of its options, if it has some.
LEMMA AtFirstOf ==
  ASSUME MergeAssumption, MergingTypes, NEW f \in OfMerge!Fields(type)
  PROVE  /\ OfMerge!Options(f) = {} => AtFirst(f) = Null
         /\ OfMerge!Options(f) # {} => AtFirst(f) \in OfMerge!Options(f)
<1>1. CASE f = "ended"
  <2>1. type \in {"author", "publisher"}
    BY <1>1, FieldsAndLists DEF MergingTypes
  <2>2. EndedAtFirst \in OfMerge!Options("ended")
    BY <2>1, EndedOptions
  <2> QED BY <1>1, <2>2 DEF AtFirst
<1>2. CASE f # "ended"
  BY <1>2, FirstOf DEF AtFirst
<1> QED BY <1>1, <1>2

\* A field has one of its options, or nothing if there are none.
LEMMA FieldValue ==
  ASSUME MergeAssumption, MergingTypes, FormInv, NEW f \in OfMerge!Fields(type)
  PROVE  IF EndSaid /\ f \in {"endDate", "endArea"}
         THEN form[f] \in OfMerge!Options(f) \cup {Null} \cup (IF f = "endDate" THEN {"ticked"} ELSE {})
         ELSE /\ OfMerge!Options(f) = {} => form[f] = Null
              /\ OfMerge!Options(f) # {} => form[f] \in OfMerge!Options(f)
<1>1. FieldHas(f) /\ (f \in DOMAIN chosen => chosen[f] \in OfMerge!Options(f))
  BY DEF FormInv
<1>2. AtFirst(f) = Null \/ AtFirst(f) \in OfMerge!Options(f)
  BY AtFirstOf
<1>3. CASE EndSaid /\ f \in {"endDate", "endArea"}
  BY <1>1, <1>3 DEF FieldHas
<1>4. CASE ~(EndSaid /\ f \in {"endDate", "endArea"})
  <2>1. \/ form[f] \in OfMerge!Options(f) \cup {AtFirst(f)}
        \/ form[f] = IF f \in DOMAIN chosen \ {"size"} THEN chosen[f] ELSE AtFirst(f)
    BY <1>1, <1>4 DEF FieldHas
  <2> QED BY <1>1, <1>4, <2>1, AtFirstOf
<1> QED BY <1>3, <1>4

LEMMA ShownAsSent ==
  ASSUME MergeAssumption, MergePageInv
  PROVE  OfMerge!ShownIsSent
<1> SUFFICES ASSUME NEW f \in OfMerge!Fields(type),
                    OfMerge!ReadOnly(f) \/ OfMerge!Shown(f) # Null,
                    ~(EndSaid /\ f \in {"endDate", "endArea"})
             PROVE  OfMerge!Shown(f) = form[f]
  BY DEF OfMerge!ShownIsSent, EndSaid
<1>1. MergingTypes /\ FormInv
  BY DEF MergePageInv
<1>2. /\ OfMerge!Options(f) = {} => form[f] = Null
      /\ OfMerge!Options(f) # {} => form[f] \in OfMerge!Options(f)
  BY <1>1, FieldValue
<1>3. CASE ~OfMerge!ReadOnly(f)
  BY <1>3 DEF OfMerge!Shown
<1>4. CASE OfMerge!ReadOnly(f) /\ OfMerge!Options(f) = {}
  BY <1>2, <1>4 DEF OfMerge!Shown
<1>5. CASE OfMerge!ReadOnly(f) /\ OfMerge!Options(f) # {}
  <2>1. OfMerge!Shown(f) = CHOOSE v \in OfMerge!Options(f) : TRUE
    BY <1>5 DEF OfMerge!Shown
  <2>2. OfMerge!Shown(f) \in OfMerge!Options(f)
    BY <1>5, <2>1
  <2> QED BY <1>1, <1>2, <1>5, <2>2, OneOption
<1> QED BY <1>3, <1>4, <1>5

\* What is saved.
LEMMA SavedForm ==
  ASSUME MergeAssumption, MergePageInv, answer = "saved"
  PROVE  /\ \A f \in OfMerge!Fields(type) :
              result[f] = IF type = "author" /\ f = "endDate" /\ form["endDate"] = "ticked" THEN Null
                          ELSE form[f]
         /\ \A l \in OfMerge!Lists(type) \ {"aliases"} : result[l] = form[l]
         /\ result["aliases"] = {form["name"]} \cup form["aliases"]
         /\ result["relationships"] = OfMerge!Relationships
<1> DEFINE target == OfMerge!NextTarget
           read == [target EXCEPT !.endDate = Null]
<1>1. type \in OfMerge!MergeTypes /\ DOMAIN form = OfMerge!Fields(type) \cup OfMerge!Lists(type)
  BY DEF MergePageInv, MergingTypes, FormInv
<1>2. /\ OfMerge!Fields(type) \cap OfMerge!Lists(type) = {}
      /\ "relationships" \notin OfMerge!Fields(type) \cup OfMerge!Lists(type)
      /\ "aliases" \in OfMerge!Lists(type)
      /\ type = "author" => "endDate" \in OfMerge!Fields(type)
  BY <1>1, FieldsAndLists
<1>3. /\ DOMAIN target = DOMAIN form \cup {"relationships"}
      /\ \A f \in DOMAIN form \ {"aliases"} : target[f] = form[f]
      /\ target["aliases"] = {form["name"]} \cup form["aliases"]
      /\ target["relationships"] = OfMerge!Relationships
  BY <1>1, <1>2 DEF OfMerge!NextTarget, OfMerge!Aliases
<1>4. result = IF type = "author" /\ form["endDate"] = "ticked" THEN read ELSE target
  BY DEF MergePageInv, OfMerge!Stored, OfMerge!Ticked
<1>5. target = [f \in DOMAIN target |-> target[f]]
  BY DEF OfMerge!NextTarget
<1> HIDE DEF target
<1>6. CASE type = "author" /\ form["endDate"] = "ticked"
  <2>1. read = [f \in DOMAIN target |-> IF f = "endDate" THEN Null ELSE target[f]]
    BY <1>5
  <2>2. result = [f \in DOMAIN target |-> IF f = "endDate" THEN Null ELSE target[f]]
    BY <1>4, <1>6, <2>1
  <2>3. "aliases" # "endDate" /\ "relationships" # "endDate"
    OBVIOUS
  <2> QED BY <1>1, <1>2, <1>3, <1>6, <2>2, <2>3
<1>7. CASE ~(type = "author" /\ form["endDate"] = "ticked")
  BY <1>1, <1>2, <1>3, <1>4, <1>7
<1> QED BY <1>6, <1>7

\* What is saved is what the form said of it.
LEMMA SavedAsSaid ==
  ASSUME MergeAssumption, MergePageInv, answer = "saved"
  PROVE  OfMerge!MergedAsChosen
<1>1. MergingTypes /\ FormInv
  BY DEF MergePageInv
<1> SUFFICES ASSUME NEW f \in OfMerge!Fields(type)
             PROVE  /\ result[f] \in OfMerge!Options(f) \cup {Null}
                    /\ f \in DOMAIN chosen \ ({"size", "endDate", "endArea"} \cup OfMerge!Lost) =>
                         result[f] = chosen[f]
                    /\ {f, "ended"} \cap DOMAIN chosen = {} /\ f # "ended" =>
                         result[f] \in (IF merging[1][f] # Null THEN {merging[1][f]}
                                       ELSE IF OfMerge!Options(f) = {} THEN {Null}
                                       ELSE OfMerge!Options(f))
  BY DEF OfMerge!MergedAsChosen
<1>2. result[f] = IF type = "author" /\ f = "endDate" /\ form["endDate"] = "ticked" THEN Null
                  ELSE form[f]
  BY SavedForm
<1>3. FieldHas(f)
  BY <1>1 DEF FormInv
<1>4. IF EndSaid /\ f \in {"endDate", "endArea"}
      THEN form[f] \in OfMerge!Options(f) \cup {Null} \cup (IF f = "endDate" THEN {"ticked"} ELSE {})
      ELSE /\ OfMerge!Options(f) = {} => form[f] = Null
           /\ OfMerge!Options(f) # {} => form[f] \in OfMerge!Options(f)
  BY <1>1, FieldValue
<1>5. result[f] \in OfMerge!Options(f) \cup {Null}
  BY <1>2, <1>4 DEF EndSaid
<1>6. ASSUME f \in DOMAIN chosen \ ({"size", "endDate", "endArea"} \cup OfMerge!Lost)
      PROVE  result[f] = chosen[f]
  BY <1>2, <1>3, <1>6 DEF FieldHas
<1>7. ASSUME f \notin DOMAIN chosen, "ended" \notin DOMAIN chosen, f # "ended"
      PROVE  result[f] \in (IF merging[1][f] # Null THEN {merging[1][f]}
                           ELSE IF OfMerge!Options(f) = {} THEN {Null} ELSE OfMerge!Options(f))
  <2>1. form[f] = OfMerge!First(merging, f)
    BY <1>1, <1>3, <1>7 DEF FieldHas, AtFirst, EndSaid, MergePageInv, KeystrokeInv
  <2>2. ~(type = "author" /\ f = "endDate" /\ form["endDate"] = "ticked")
    <3> SUFFICES ASSUME type = "author", f = "endDate", form["endDate"] = "ticked"
                 PROVE  FALSE
      OBVIOUS
    <3>1. "ticked" \notin OfMerge!Options("endDate") /\ "ticked" # Null
      BY <1>1, EndedOptions DEF MergeAssumption
    <3> QED BY <1>4, <1>7, <3>1 DEF EndSaid
  <2>3. result[f] = OfMerge!First(merging, f)
    BY <1>2, <2>1, <2>2
  <2> QED BY <1>1, <2>3, FirstOf
<1> QED BY <1>5, <1>6, <1>7

LEMMA EndsAsSaid ==
  ASSUME MergeAssumption, MergePageInv
  PROVE  OfMerge!MergedEndsHold
<1>1. MergingTypes /\ FormInv
  BY DEF MergePageInv
<1>2. ASSUME type \in {"author", "publisher"}, form["endDate"] = "ticked"
      PROVE  type = "author" /\ "ended" \in DOMAIN chosen
  <2>1. "endDate" \in OfMerge!Fields(type)
    BY <1>1, <1>2, FieldsAndLists DEF MergingTypes
  <2>2. "ticked" \notin OfMerge!Options("endDate") /\ "ticked" # Null
    BY <1>1, <1>2, EndedOptions DEF MergeAssumption
  <2>3. EndSaid
    BY <1>1, <1>2, <2>1, <2>2, FieldValue
  <2> QED BY <2>3 DEF EndSaid
<1>3. OfMerge!Fails <=>
        /\ type \in {"author", "publisher"}
        /\ form["endDate"] = "ticked" \/ ~(form["endDate"] # Null => form["ended"])
  BY DEF OfMerge!Fails, OfMerge!EndHasEnded, OfMerge!Ticked
<1>4. ASSUME answer = "error" PROVE "ended" \in DOMAIN chosen
  <2>1. OfMerge!Fails
    BY <1>4 DEF MergePageInv
  <2>2. type \in {"author", "publisher"} /\ "ended" \notin DOMAIN chosen =>
          (form["endDate"] # Null => form["ended"] = TRUE)
    BY <1>1 DEF FormInv
  <2> QED BY <1>2, <1>3, <2>1, <2>2
<1>5. ASSUME answer = "saved", type \in {"author", "publisher"}
      PROVE  /\ result["beginDate"] = "late" => result["endDate"] # "early"
             /\ result["endDate"] # Null => result["ended"]
  <2>1. {"endDate", "beginDate", "ended"} \subseteq OfMerge!Fields(type)
    BY <1>1, <1>5, FieldsAndLists DEF MergingTypes
  <2>2. /\ result["beginDate"] = form["beginDate"] /\ result["ended"] = form["ended"]
        /\ result["endDate"] = IF type = "author" /\ form["endDate"] = "ticked" THEN Null
                              ELSE form["endDate"]
    BY <1>5, <2>1, SavedForm
  <2>3. form["endDate"] # Null /\ form["endDate"] # "ticked" => form["ended"]
    BY <1>3, <1>5 DEF MergePageInv
  <2>4. Null # "early" /\ OfMerge!Valid
    BY <1>5 DEF MergeAssumption, MergePageInv
  <2>5. CASE type = "author"
    <3>1. ~(form["beginDate"] = "late" /\ form["endDate"] = "early")
      BY <2>4, <2>5 DEF OfMerge!Valid, OfMerge!DateIsBefore
    <3> QED BY <2>2, <2>3, <2>4, <2>5, <3>1
  <2>6. CASE type = "publisher"
    <3>1. ~form["ended"] \/ ~(form["beginDate"] = "late" /\ form["endDate"] = "early")
      BY <2>4, <2>6 DEF OfMerge!Valid, OfMerge!DateIsBefore
    <3>2. form["endDate"] # "ticked" /\ result["endDate"] = form["endDate"]
      BY <1>2, <1>5, <2>2, <2>6
    <3> QED BY <2>2, <2>3, <2>4, <3>1, <3>2
  <2> QED BY <1>5, <2>5, <2>6
<1> QED BY <1>4, <1>5 DEF OfMerge!MergedEndsHold, OfMerge!Saved

LEMMA ListsAreKept ==
  ASSUME MergeAssumption, MergePageInv, answer = "saved"
  PROVE  OfMerge!ListsKept
<1>1. MergingTypes /\ FormInv /\ type \in OfMerge!MergeTypes
  BY DEF MergePageInv, MergingTypes
<1>2. \A l \in OfMerge!Lists(type) : form[l] = UNION {merging[i][l] : i \in 1 .. Len(merging)}
  BY <1>1 DEF FormInv
<1>3. \A l \in OfMerge!Lists(type) : form[l] \subseteq result[l]
  BY SavedForm
<1>4. ASSUME NEW i \in 1 .. Len(merging)
      PROVE  /\ merging[i]["name"] \in result["aliases"]
             /\ \A l \in OfMerge!Lists(type) : merging[i][l] \subseteq result[l]
  <2>1. \A l \in OfMerge!Lists(type) : merging[i][l] \subseteq form[l]
    BY <1>2
  <2>2. PICK k \in OfMerge!Kinds :
          /\ \A f \in OfMerge!Fields(type) : merging[i][f] = OfMerge!Value(k, f)
          /\ \A l \in OfMerge!Lists(type) : merging[i][l] = OfMerge!ListOf(k, i, l)
    BY <1>1, MergingFacts
  <2>3. merging[i]["name"] = k /\ merging[i]["aliases"] = {k, Bbids[i]}
    BY <1>1, <2>2, FieldsAndLists, Values DEF OfMerge!ListOf
  <2>4. "aliases" \in OfMerge!Lists(type)
    BY <1>1, FieldsAndLists
  <2> QED BY <1>3, <2>1, <2>3, <2>4
<1> DEFINE M == OfMerge!Merged
           T == OfMerge!Target
<1>5. T \in M
  BY <1>1, MergingFacts DEF OfMerge!Merged, OfMerge!Target, OfMerge!Positions
<1>6. result["relationships"] = {[source |-> OfMerge!Redirected(r[1]), target |-> OfMerge!Redirected(r[2]),
                                   isAdded |-> {r[1], r[2]} \cap (M \ {T}) # {}] :
                                   r \in {l \in Linked : {l[1], l[2]} \cap M # {}}}
  BY SavedForm DEF OfMerge!Relationships
<1>7. \A b : OfMerge!Redirected(b) = IF b \in M THEN T ELSE b
  BY DEF OfMerge!Redirected
<1> HIDE DEF M, T
<1>8. ASSUME NEW r \in Linked, {r[1], r[2]} \cap M # {}, {r[1], r[2]} \ M # {}
      PROVE  \E s \in result["relationships"] : {s.source, s.target} = ({r[1], r[2]} \ M) \cup {T}
  <2> DEFINE s == [source |-> OfMerge!Redirected(r[1]), target |-> OfMerge!Redirected(r[2]),
                   isAdded |-> {r[1], r[2]} \cap (M \ {T}) # {}]
  <2>1. s \in result["relationships"]
    BY <1>6, <1>8
  <2>2. {s.source, s.target} = ({r[1], r[2]} \ M) \cup {T}
    BY <1>7, <1>8
  <2> HIDE DEF s
  <2> QED BY <2>1, <2>2
<1>9. ASSUME NEW s \in result["relationships"]
      PROVE  /\ s.source # s.target \/ \E r \in Linked : {r[1], r[2]} \subseteq M
             /\ {s.source, s.target} \cap M = {T}
  <2>1. PICK r \in Linked :
          /\ {r[1], r[2]} \cap M # {}
          /\ s = [source |-> OfMerge!Redirected(r[1]), target |-> OfMerge!Redirected(r[2]),
                  isAdded |-> {r[1], r[2]} \cap (M \ {T}) # {}]
    BY <1>6
  <2>2. /\ s.source = IF r[1] \in M THEN T ELSE r[1]
        /\ s.target = IF r[2] \in M THEN T ELSE r[2]
    BY <1>7, <2>1
  <2>3. {s.source, s.target} \cap M = {T}
    BY <1>5, <2>1, <2>2
  <2>4. s.source = s.target => r[1] \in M /\ r[2] \in M
    BY <1>5, <2>1, <2>2
  <2> QED BY <2>3, <2>4
<1> QED BY <1>4, <1>8, <1>9 DEF M, T, OfMerge!ListsKept, OfMerge!Positions

LEMMA ItemsAreFit ==
  ASSUME MergeAssumption, MergePageInv, answer = "saved"
  PROVE  OfMerge!ItemsFit
<1> SUFFICES ASSUME type = "series", OfMerge!ReadOnly("seriesType"), NEW item \in result["items"]
             PROVE  item.of = result["seriesType"]
  BY DEF OfMerge!ItemsFit
<1>1. MergingTypes /\ FormInv /\ type \in OfMerge!MergeTypes
  BY DEF MergePageInv, MergingTypes
<1>2. "seriesType" \in OfMerge!Fields(type) /\ "items" \in OfMerge!Lists(type)
  BY <1>1, FieldsAndLists
<1>3. form["items"] = UNION {merging[i]["items"] : i \in 1 .. Len(merging)}
  BY <1>1, <1>2 DEF FormInv
<1>4. result["items"] = form["items"] /\ result["seriesType"] = form["seriesType"]
  BY <1>2, SavedForm
<1>5. PICK i \in 1 .. Len(merging) : item \in merging[i]["items"]
  BY <1>3, <1>4
<1>6. PICK k \in OfMerge!Kinds :
        /\ \A f \in OfMerge!Fields(type) : merging[i][f] = OfMerge!Value(k, f)
        /\ \A l \in OfMerge!Lists(type) : merging[i][l] = OfMerge!ListOf(k, i, l)
  BY <1>1, MergingFacts
<1>7. merging[i]["items"] = {[of |-> k, key |-> i]}
  BY <1>2, <1>6 DEF OfMerge!ListOf
<1>8. item.of = k
  BY <1>5, <1>7
<1>9. merging[i]["seriesType"] = k /\ k # Null
  BY <1>2, <1>6, Values
<1>10. k \in OfMerge!Options("seriesType")
  BY <1>9, OptionsOf
<1>11. form["seriesType"] \in OfMerge!Options("seriesType")
  BY <1>1, <1>2, <1>10, FieldValue
<1> QED BY <1>1, <1>4, <1>8, <1>10, <1>11, OneOption

LEMMA MergePageInvHolds ==
  ASSUME MergeAssumption, MergePageInv
  PROVE  OfMerge!PageHolds
<1>1. answer # "saved" => OfMerge!MergedAsChosen /\ OfMerge!ListsKept /\ OfMerge!ItemsFit
  BY DEF OfMerge!MergedAsChosen, OfMerge!ListsKept, OfMerge!ItemsFit, OfMerge!Saved
<1>2. answer = "saved" => OfMerge!MergedAsChosen /\ OfMerge!ListsKept /\ OfMerge!ItemsFit
  BY SavedAsSaid, ListsAreKept, ItemsAreFit
<1> QED BY <1>1, <1>2, ShownAsSent, EndsAsSaid DEF OfMerge!PageHolds

----------------------------------------------------------------------------
(* The page of a collection.                                               *)

\* Its pager is like the others.
LEMMA PagersAlike ==
  /\ \A p, params, from, size : OfCollection!Triggered(p, params, from, size) = OfSearch!Triggered(p, params, from, size)
  /\ \A p, i, list : OfCollection!Served(p, i, list) = OfSearch!Served(p, i, list)
  /\ \A p, i : OfCollection!Answered(p, i) = OfSearch!Answered(p, i)
  /\ \A list, from, size : OfCollection!Read(list, from, size) = OfSearch!Read(list, from, size)
  /\ \A rs, size : OfCollection!Page(rs, size) = OfSearch!Page(rs, size)
  /\ OfCollection!Unread = OfSearch!Unread
<1>1. /\ \A list, from, size : OfCollection!Read(list, from, size) = OfSearch!Read(list, from, size)
      /\ \A rs, size : OfCollection!Page(rs, size) = OfSearch!Page(rs, size)
      /\ OfCollection!Unread = OfSearch!Unread
  BY DEF OfCollection!Read, OfSearch!Read, OfCollection!Page, OfSearch!Page, OfCollection!Min,
         OfSearch!Min, OfCollection!Unread, OfSearch!Unread
<1>2. \A p, url : OfCollection!Pushed(p, url) = OfSearch!Pushed(p, url)
  BY DEF OfCollection!Pushed, OfSearch!Pushed
<1>3. \A p, params, from, size :
        OfCollection!Triggered(p, params, from, size) = OfSearch!Triggered(p, params, from, size)
  BY <1>1, <1>2 DEF OfCollection!Triggered, OfSearch!Triggered, OfCollection!Url, OfSearch!Url
<1>4. \A p, i, list : OfCollection!Served(p, i, list) = OfSearch!Served(p, i, list)
  BY <1>1 DEF OfCollection!Served, OfSearch!Served
<1>5. \A p, i : OfCollection!Answered(p, i) = OfSearch!Answered(p, i)
  BY <1>1 DEF OfCollection!Answered, OfSearch!Answered, OfCollection!RemoveAt, OfSearch!RemoveAt,
         OfCollection!NextEnabled, OfSearch!NextEnabled
<1> QED BY <1>1, <1>3, <1>4, <1>5

OneAddress == {OfCollection!Same}
PostType ==
  [kind : {"add", "remove"}, on : (SUBSET Things) \ {{}}, answer : {"none", "ok", "error"}]

CollectionTypes ==
  /\ held \in Seq(Things) /\ PagerOK(pager, Things, OneAddress)
  /\ ticked \subseteq Things /\ rows \in Seq(Things \cup {NoThing})
  /\ posts \subseteq PostType /\ alone \in BOOLEAN

\* The pager p shows the items its of the collection.
ShowsItems(p, its) ==
  /\ p.rows = OfSearch!Page(OfSearch!Read(its, p.from, p.size), p.size)
  /\ p.next = (Len(its) > p.from + p.size)

ItemsOf(its) == {its[i] : i \in DOMAIN its}

\* For one who is alone and waits: at most one request or question is on its way, and what
\* is shown and ticked is what there is until it has changed that.
AloneHolds(p, its, tk, ps) ==
  /\ \A q, r \in ps : q = r
  /\ ps = {} \/ p.asked = <<>>
  /\ Len(p.asked) <= 1
  /\ p.asked # <<>> => p.asked[1].rows \in {OfSearch!Unread,
                                            OfSearch!Read(its, p.asked[1].from, p.asked[1].size)}
  /\ p.asked = <<>> /\ (\A q \in ps : q.answer # "ok") => ShowsItems(p, its)
  /\ (\A q \in ps : q.answer = "ok" => q.kind = "add") => tk \subseteq ItemsOf(its)
  /\ \A q \in ps : q.answer = "none" /\ q.kind = "remove" => q.on \subseteq ItemsOf(its)

CollectionInv == CollectionTypes /\ (alone => AloneHolds(pager, held, ticked, posts))

LEMMA CollectionInvHolds ==
  ASSUME CollectionInv
  PROVE  OfCollection!CollectionHolds
<1>1. OfCollection!AsksSensibly
  BY DEF CollectionInv, CollectionTypes, PostType, OfCollection!AsksSensibly
<1>2. OfCollection!ShowsTheCollection
  <2> SUFFICES ASSUME alone
               PROVE  /\ ~OfCollection!Waiting =>
                           /\ ShowsItems(pager, held)
                           /\ ticked \subseteq ItemsOf(held)
                      /\ \A post \in posts : post.answer = "none" /\ post.kind = "remove"
                           => post.on \subseteq ItemsOf(held)
    BY PagersAlike DEF OfCollection!ShowsTheCollection, OfCollection!MayRemove, OfCollection!There,
                       OfCollection!ToSet, ShowsItems, ItemsOf
  <2>1. AloneHolds(pager, held, ticked, posts)
    BY DEF CollectionInv
  <2> QED BY <2>1 DEF AloneHolds, OfCollection!Waiting
<1> QED BY <1>1, <1>2 DEF OfCollection!CollectionHolds

\* A page as it is opened.
LEMMA CollectionOpened ==
  ASSUME NEW T, NEW P, NEW list \in Seq(T), NEW params \in P, NEW from \in Nat,
         NEW size \in Nat \ {0}, NEW written \in {"pager", "other"}, NEW p,
         p = OfSearch!Opened(params, list, from, size, written)
  PROVE  /\ PagerOK(p, T, P) /\ p.asked = <<>> /\ p.at = 1 /\ p.from = from /\ p.size = size
         /\ p.urls = <<OfSearch!Url(params, from, size, written)>>
         /\ p.rows = OfSearch!Page(OfSearch!Read(list, from, size), size)
         /\ p.next = (Len(list) > from + size)
<1> DEFINE url == OfSearch!Url(params, from, size, written)
           shows == OfSearch!Page(OfSearch!Read(list, from, size), size)
           more == OfSearch!NextEnabled(OfSearch!Read(list, from, size), size)
<1>1. p = [from |-> from, size |-> size, rows |-> shows, next |-> more, urls |-> <<url>>, at |-> 1,
           asked |-> <<>>]
  BY DEF OfSearch!Opened
<1>2. shows \in Seq(T) /\ more \in BOOLEAN /\ more = (Len(list) > from + size)
  <2>1. more \in BOOLEAN
    BY DEF OfSearch!NextEnabled
  <2>2. shows \in Seq(T) /\ (more <=> Len(list) > from + size)
    BY PageRead
  <2> QED BY <2>1, <2>2
<1>3. <<url>> \in Seq(UrlsOf(P)) /\ Len(<<url>>) = 1
  BY DEF OfSearch!Url, UrlsOf
<1> HIDE DEF url, shows, more
<1>4. <<>> \in Seq(AskedOf(T, P))
  OBVIOUS
<1>5. p \in PagersOf(T, P)
  BY <1>1, <1>2, <1>3, <1>4 DEF PagersOf
<1> QED BY <1>1, <1>2, <1>3, <1>5 DEF PagerOK, url, shows

LEMMA CollectionInit ==
  ASSUME CollectionAssumption, OfCollection!Init
  PROVE  CollectionInv
<1>1. PICK n \in 0 .. Cardinality(Things), from \in {0} \cup CollectionSizes, size \in CollectionSizes :
        /\ held \in [1 .. n -> Things]
        /\ pager = OfCollection!Opened(OfCollection!Same, held, from, size, "pager")
        /\ ticked = {} /\ adding = FALSE /\ rows = <<NoThing>> /\ posts = {} /\ alone = TRUE
  BY DEF OfCollection!Init, OfCollection!Cardinality, Cardinality
<1>2. held \in Seq(Things) /\ from \in Nat /\ size \in Nat \ {0}
  <2>1. Cardinality(Things) \in Nat
    BY FS_CardinalityType DEF CollectionAssumption
  <2>2. n \in Nat
    BY <2>1
  <2> QED BY <1>1, <2>2 DEF CollectionAssumption
<1>3. pager = OfSearch!Opened(OfCollection!Same, held, from, size, "pager")
  BY <1>1, PagersAlike DEF OfCollection!Opened, OfSearch!Opened, OfCollection!Url, OfSearch!Url,
         OfCollection!NextEnabled, OfSearch!NextEnabled
<1>4. OfCollection!Same \in OneAddress
  BY DEF OneAddress
<1>5. /\ PagerOK(pager, Things, OneAddress) /\ pager.asked = <<>> /\ ShowsItems(pager, held)
  <2>1. /\ PagerOK(pager, Things, OneAddress) /\ pager.asked = <<>>
        /\ pager.from = from /\ pager.size = size
        /\ pager.rows = OfSearch!Page(OfSearch!Read(held, from, size), size)
        /\ pager.next = (Len(held) > from + size)
    <3>1. PagerOK(pager, Things, OneAddress)
      BY <1>2, <1>3, <1>4, CollectionOpened
    <3>2. /\ pager.asked = <<>> /\ pager.from = from /\ pager.size = size
          /\ pager.rows = OfSearch!Page(OfSearch!Read(held, from, size), size)
          /\ pager.next = OfSearch!NextEnabled(OfSearch!Read(held, from, size), size)
      BY <1>3 DEF OfSearch!Opened
    <3>3. OfSearch!NextEnabled(OfSearch!Read(held, from, size), size) <=> Len(held) > from + size
      BY <1>2, PageRead
    <3>4. pager.next \in BOOLEAN
      BY <3>1 DEF PagerOK, PagersOf
    <3> QED BY <3>1, <3>2, <3>3, <3>4
  <2> QED BY <2>1 DEF ShowsItems
<1>6. CollectionTypes
  BY <1>1, <1>2, <1>5 DEF CollectionTypes
<1>7. AloneHolds(pager, held, ticked, posts)
  BY <1>1, <1>5 DEF AloneHolds
<1> QED BY <1>6, <1>7 DEF CollectionInv

\* The pager p shows what q does, and may have asked for another page.
ShowsAs(p, q) ==
  /\ p.from = q.from /\ p.size = q.size /\ p.rows = q.rows /\ p.next = q.next
  /\ \/ p.asked = q.asked
     \/ \E ask : p.asked = Append(q.asked, ask) /\ ask.rows = OfSearch!Unread

LEMMA TriggeredShowsAs ==
  ASSUME NEW p, PagerOK(p, Things, OneAddress), NEW from \in Nat, NEW size \in Nat \ {0}
  PROVE  LET q == OfCollection!Triggered(p, OfCollection!Same, from, size)
         IN  /\ PagerOK(q, Things, OneAddress) /\ ShowsAs(q, p)
             /\ \E ask : q.asked = Append(p.asked, ask) /\ ask.rows = OfSearch!Unread
<1> DEFINE q == OfCollection!Triggered(p, OfCollection!Same, from, size)
<1>1. OfCollection!Same \in OneAddress
  BY DEF OneAddress
<1>2. q = OfSearch!Triggered(p, OfCollection!Same, from, size)
  BY PagersAlike
<1> HIDE DEF q
<1>3. /\ PagerOK(q, Things, OneAddress)
      /\ q.from = p.from /\ q.size = p.size /\ q.rows = p.rows /\ q.next = p.next
      /\ q.asked = Append(p.asked, [params |-> OfCollection!Same, from |-> from, size |-> size,
                                    rows |-> OfSearch!Unread])
  BY <1>1, <1>2, TriggeredAsks
<1>4. \E ask : q.asked = Append(p.asked, ask) /\ ask.rows = OfSearch!Unread
  BY <1>3
<1> QED BY <1>3, <1>4 DEF ShowsAs, q

\* One who was alone and waits for a page, or for nothing.
LEMMA AskedOne ==
  ASSUME NEW p, NEW q, ShowsAs(q, p), p.asked = <<>>,
         AloneHolds(p, held, ticked, {}), ShowsItems(p, held)
  PROVE  AloneHolds(q, held, ticked, {})
<1>1. CASE q.asked = <<>>
  BY <1>1 DEF ShowsAs, AloneHolds, ShowsItems
<1>2. CASE q.asked # <<>>
  <2>1. PICK ask : q.asked = Append(<<>>, ask) /\ ask.rows = OfSearch!Unread
    BY <1>2 DEF ShowsAs
  <2>2. Len(q.asked) = 1 /\ q.asked[1] = ask
    BY <2>1
  <2> QED BY <1>2, <2>1, <2>2 DEF AloneHolds
<1> QED BY <1>1, <1>2

LEMMA TurnKeeps ==
  ASSUME CollectionInv, NEW p, PagerOK(p, Things, OneAddress), ShowsAs(p, pager),
         OfCollection!Turn(p)
  PROVE  CollectionInv'
<1>1. /\ pager' = p /\ UNCHANGED <<held, ticked, adding, rows, posts>>
      /\ alone' = (alone /\ ~OfCollection!Waiting)
  BY DEF OfCollection!Turn, OfCollection!Becomes, OfCollection!Acts
<1>2. CollectionTypes'
  BY <1>1 DEF CollectionInv, CollectionTypes
<1>3. ASSUME alone' PROVE AloneHolds(pager, held, ticked, posts)'
  <2>1. alone /\ pager.asked = <<>> /\ posts = {}
    BY <1>1, <1>3 DEF OfCollection!Waiting
  <2>2. AloneHolds(pager, held, ticked, {}) /\ ShowsItems(pager, held)
    BY <2>1 DEF CollectionInv, AloneHolds
  <2>3. AloneHolds(p, held, ticked, {})
    BY <2>1, <2>2, AskedOne
  <2> QED BY <1>1, <2>1, <2>3 DEF AloneHolds, ShowsItems, ItemsOf
<1> QED BY <1>2, <1>3 DEF CollectionInv

LEMMA LookingKeeps ==
  ASSUME CollectionAssumption, CollectionInv,
         \/ OfCollection!TurnBack \/ OfCollection!TurnOn
         \/ \E size \in CollectionSizes : OfCollection!Resize(size)
         \/ \E i \in DOMAIN pager.urls : OfCollection!Navigate(i)
  PROVE  CollectionInv'
<1>1. PagerOK(pager, Things, OneAddress) /\ pager.from \in Nat /\ pager.size \in Nat \ {0}
  BY DEF CollectionInv, CollectionTypes, PagerOK, PagersOf
<1>2. CASE OfCollection!TurnBack
  <2> DEFINE from == IF pager.from > pager.size THEN pager.from - pager.size ELSE 0
             p == OfCollection!Triggered(pager, OfCollection!Same, from, pager.size)
  <2>1. from \in Nat
    BY <1>1
  <2>2. OfCollection!Turn(p)
    BY <1>2 DEF OfCollection!TurnBack, OfCollection!Previous
  <2> HIDE DEF from
  <2> QED BY <1>1, <2>1, <2>2, TriggeredShowsAs, TurnKeeps
<1>3. CASE OfCollection!TurnOn
  <2>1. OfCollection!Turn(OfCollection!Triggered(pager, OfCollection!Same, pager.from + pager.size,
                                                 pager.size))
    BY <1>3 DEF OfCollection!TurnOn, OfCollection!Next_
  <2>2. pager.from + pager.size \in Nat
    BY <1>1
  <2> QED BY <1>1, <2>1, <2>2, TriggeredShowsAs, TurnKeeps
<1>4. ASSUME NEW size \in CollectionSizes, OfCollection!Resize(size) PROVE CollectionInv'
  <2>1. OfCollection!Turn(OfCollection!Triggered(pager, OfCollection!Same, pager.from, size))
    BY <1>4 DEF OfCollection!Resize, OfCollection!Resized
  <2>2. size \in Nat \ {0}
    BY DEF CollectionAssumption
  <2> QED BY <1>1, <2>1, <2>2, TriggeredShowsAs, TurnKeeps
<1>5. ASSUME NEW i \in DOMAIN pager.urls, OfCollection!Navigate(i) PROVE CollectionInv'
  <2> DEFINE now == [pager EXCEPT !.at = i]
             url == pager.urls[i]
  <2>0. /\ pager \in PagersOf(Things, OneAddress) /\ pager.urls \in Seq(UrlsOf(OneAddress))
        /\ i \in 1 .. Len(pager.urls) /\ i \in Nat
    BY <1>1 DEF PagerOK, PagersOf
  <2>1. url.from \in Nat /\ url.size \in Nat \ {0} /\ i \in 1 .. Len(pager.urls)
    <3>1. url \in UrlsOf(OneAddress)
      BY <2>0
    <3> HIDE DEF url
    <3> QED BY <2>0, <3>1 DEF UrlsOf
  <2>2. /\ now.asked = pager.asked /\ now.from = pager.from /\ now.size = pager.size
        /\ now.rows = pager.rows /\ now.next = pager.next /\ now \in PagersOf(Things, OneAddress)
        /\ now.urls = pager.urls /\ now.at = i
    BY <2>0 DEF PagersOf
  <2>3. PagerOK(now, Things, OneAddress) /\ ShowsAs(now, pager)
    BY <2>1, <2>2 DEF PagerOK, ShowsAs
  <2>4. \/ OfCollection!Turn(now)
        \/ OfCollection!Turn(OfCollection!Triggered(now, OfCollection!Same, url.from, url.size))
    BY <1>5 DEF OfCollection!Navigate, OfCollection!Navigated
  <2> HIDE DEF now, url
  <2>5. CASE OfCollection!Turn(now)
    BY <2>3, <2>5, TurnKeeps
  <2>6. CASE OfCollection!Turn(OfCollection!Triggered(now, OfCollection!Same, url.from, url.size))
    <3> DEFINE p == OfCollection!Triggered(now, OfCollection!Same, url.from, url.size)
    <3>1. PagerOK(p, Things, OneAddress) /\ ShowsAs(p, now)
      BY <2>1, <2>3, TriggeredShowsAs
    <3>2. OfCollection!Turn(p)
      BY <2>6
    <3> HIDE DEF p
    <3>3. ShowsAs(p, pager)
      BY <2>2, <3>1 DEF ShowsAs
    <3> QED BY <3>1, <3>2, <3>3, TurnKeeps
  <2> QED BY <2>4, <2>5, <2>6
<1> QED BY <1>2, <1>3, <1>4, <1>5

\* The server reads a page.
LEMMA ReadingKeeps ==
  ASSUME CollectionInv, NEW i \in DOMAIN pager.asked, OfCollection!ReadPage(i)
  PROVE  CollectionInv'
<1>1. UNCHANGED <<held, ticked, adding, rows, posts, alone>> /\ pager' = OfSearch!Served(pager, i, held)
  BY PagersAlike DEF OfCollection!ReadPage
<1>2. PagerOK(pager, Things, OneAddress) /\ held \in Seq(Things)
  BY DEF CollectionInv, CollectionTypes
<1>3. /\ PagerOK(pager', Things, OneAddress)
      /\ pager'.from = pager.from /\ pager'.size = pager.size /\ pager'.rows = pager.rows
      /\ pager'.next = pager.next
      /\ DOMAIN pager'.asked = DOMAIN pager.asked /\ Len(pager'.asked) = Len(pager.asked)
      /\ pager'.asked[i] = [pager.asked[i] EXCEPT
            !.rows = OfSearch!Read(held, pager.asked[i].from, pager.asked[i].size)]
  BY <1>1, <1>2, ServedReads
<1>4. CollectionTypes'
  BY <1>1, <1>3 DEF CollectionInv, CollectionTypes
<1>5. ASSUME alone' PROVE AloneHolds(pager, held, ticked, posts)'
  <2>1. AloneHolds(pager, held, ticked, posts)
    BY <1>1, <1>5 DEF CollectionInv
  <2>2. pager.asked \in Seq(AskedOf(Things, OneAddress)) /\ pager.asked[i] \in AskedOf(Things, OneAddress)
    BY <1>2 DEF PagerOK, PagersOf
  <2>3. i = 1 /\ pager.asked # <<>>
    BY <2>1, <2>2 DEF AloneHolds
  <2>4. posts' = {}
    BY <1>1, <2>1, <2>3 DEF AloneHolds
  <2>5. /\ pager'.asked[1].from = pager.asked[1].from /\ pager'.asked[1].size = pager.asked[1].size
        /\ pager'.asked[1].rows = OfSearch!Read(held, pager.asked[1].from, pager.asked[1].size)
    BY <1>3, <2>2, <2>3 DEF AskedOf
  <2>6. pager'.asked # <<>>
    BY <1>3, <2>3
  <2> QED BY <1>1, <1>3, <2>1, <2>4, <2>5, <2>6 DEF AloneHolds, ItemsOf
<1> QED BY <1>4, <1>5 DEF CollectionInv

\* An answer is shown.
LEMMA ShowingKeeps ==
  ASSUME CollectionInv, NEW i \in DOMAIN pager.asked, OfCollection!ShowPage(i)
  PROVE  CollectionInv'
<1>1. /\ UNCHANGED <<held, ticked, adding, rows, posts, alone>>
      /\ pager.asked[i].rows # OfSearch!Unread
      /\ pager' = OfSearch!Answered(pager, i)
  BY PagersAlike DEF OfCollection!ShowPage
<1>2. PagerOK(pager, Things, OneAddress) /\ held \in Seq(Things)
  BY DEF CollectionInv, CollectionTypes
<1>3. pager.asked \in Seq(AskedOf(Things, OneAddress)) /\ pager.asked[i] \in AskedOf(Things, OneAddress)
  BY <1>2 DEF PagerOK, PagersOf
<1>4. /\ pager.asked[i].rows \in Seq(Things) /\ pager.asked[i].from \in Nat
      /\ pager.asked[i].size \in Nat \ {0}
  BY <1>1, <1>3 DEF AskedOf
<1>5. /\ PagerOK(pager', Things, OneAddress)
      /\ pager'.from = pager.asked[i].from /\ pager'.size = pager.asked[i].size
      /\ pager'.rows = OfSearch!Page(pager.asked[i].rows, pager.asked[i].size)
      /\ pager'.next = OfSearch!NextEnabled(pager.asked[i].rows, pager.asked[i].size)
      /\ Len(pager'.asked) = Len(pager.asked) - 1
  BY <1>1, <1>2, <1>4, AnsweredShows
<1>6. CollectionTypes'
  BY <1>1, <1>5 DEF CollectionInv, CollectionTypes
<1>7. ASSUME alone' PROVE AloneHolds(pager, held, ticked, posts)'
  <2>1. AloneHolds(pager, held, ticked, posts)
    BY <1>1, <1>7 DEF CollectionInv
  <2>2. i = 1 /\ pager.asked # <<>> /\ Len(pager.asked) = 1
    <3>1. Len(pager.asked) <= 1
      BY <2>1 DEF AloneHolds
    <3>2. i \in 1 .. Len(pager.asked) /\ Len(pager.asked) \in Nat
      BY <1>3
    <3>3. i = 1 /\ Len(pager.asked) = 1
      <4>1. \A m \in Nat : \A k \in 1 .. m : m <= 1 => k = 1 /\ m = 1
        OBVIOUS
      <4> QED BY <3>1, <3>2, <4>1
    <3>4. Len(<<>>) = 0
      OBVIOUS
    <3> QED BY <3>3, <3>4
  <2>3. posts' = {} /\ posts = {}
    BY <1>1, <2>1, <2>2 DEF AloneHolds
  <2>4. pager'.asked = <<>>
    <3>1. pager'.asked \in Seq(AskedOf(Things, OneAddress))
      BY <1>5 DEF PagerOK, PagersOf
    <3> QED BY <1>5, <2>2, <3>1
  <2>5. pager.asked[1].rows = OfSearch!Read(held, pager.asked[1].from, pager.asked[1].size)
    BY <1>1, <2>1, <2>2 DEF AloneHolds
  <2>6. pager'.next <=> Len(held) > pager'.from + pager'.size
    <3> DEFINE from == pager.asked[1].from
               size == pager.asked[1].size
    <3>1. from \in Nat /\ size \in Nat \ {0}
      BY <1>4, <2>2
    <3>2. /\ pager'.from = from /\ pager'.size = size
          /\ pager'.next = OfSearch!NextEnabled(OfSearch!Read(held, from, size), size)
      BY <1>5, <2>2, <2>5
    <3> HIDE DEF from, size
    <3>3. OfSearch!NextEnabled(OfSearch!Read(held, from, size), size) <=> Len(held) > from + size
      BY <1>2, <3>1, PageRead
    <3> QED BY <3>2, <3>3
  <2>7. pager'.next \in BOOLEAN
    BY <1>5 DEF PagerOK, PagersOf
  <2>8. ShowsItems(pager', held)
    BY <1>5, <2>2, <2>5, <2>6, <2>7 DEF ShowsItems
  <2>9. ticked \subseteq ItemsOf(held)
    BY <2>1, <2>3 DEF AloneHolds
  <2> QED BY <1>1, <2>3, <2>4, <2>8, <2>9 DEF AloneHolds, ItemsOf, ShowsItems
<1> QED BY <1>6, <1>7 DEF CollectionInv

\* Something is ticked or unticked.
LEMMA TickingKeeps ==
  ASSUME CollectionInv, NEW x \in Things, OfCollection!Tick(x)
  PROVE  CollectionInv'
<1>1. /\ x \in OfCollection!ToSet(pager.rows) /\ ticked' \subseteq ticked \cup {x}
      /\ alone' = (alone /\ ~OfCollection!Waiting) /\ UNCHANGED <<held, pager, adding, rows, posts>>
  BY DEF OfCollection!Tick, OfCollection!Acts
<1>2. CollectionTypes'
  BY <1>1 DEF CollectionInv, CollectionTypes
<1>3. ASSUME alone' PROVE AloneHolds(pager, held, ticked, posts)'
  <2>1. alone /\ pager.asked = <<>> /\ posts = {}
    BY <1>1, <1>3 DEF OfCollection!Waiting
  <2>2. AloneHolds(pager, held, ticked, {}) /\ ShowsItems(pager, held)
    BY <2>1 DEF CollectionInv, AloneHolds
  <2>3. PICK i \in DOMAIN pager.rows : x = pager.rows[i]
    BY <1>1 DEF OfCollection!ToSet
  <2>4. pager.from \in Nat /\ pager.size \in Nat \ {0} /\ held \in Seq(Things)
    BY DEF CollectionInv, CollectionTypes, PagerOK, PagersOf
  <2>5. \E j \in DOMAIN held : x = held[j]
    <3> DEFINE from == pager.from
               size == pager.size
               rs == OfSearch!Page(OfSearch!Read(held, from, size), size)
    <3>1. pager.rows = rs
      BY <2>2 DEF ShowsItems
    <3>2. from \in Nat /\ size \in Nat \ {0} /\ held \in Seq(Things)
      BY <2>4
    <3> HIDE DEF from, size
    <3>3. \A k \in DOMAIN rs : \E j \in DOMAIN held : rs[k] = held[j]
      BY <3>2, PageRead
    <3> HIDE DEF rs
    <3> QED BY <2>3, <3>1, <3>3
  <2>6. ticked' \subseteq ItemsOf(held)
    BY <1>1, <2>2, <2>5 DEF AloneHolds, ItemsOf
  <2> QED BY <1>1, <2>1, <2>2, <2>6 DEF AloneHolds, ShowsItems, ItemsOf
<1> QED BY <1>2, <1>3 DEF CollectionInv

\* A request is sent, about things that there are.
LEMMA PostingKeeps ==
  ASSUME CollectionInv, NEW kind \in {"add", "remove"}, NEW on, on \subseteq Things, on # {},
         kind = "remove" => on \subseteq ticked,
         OfCollection!Posted(OfCollection!Post(kind, on)), OfCollection!Acts,
         UNCHANGED <<held, pager, ticked, adding, rows>>
  PROVE  CollectionInv'
<1> DEFINE post == [kind |-> kind, on |-> on, answer |-> "none"]
<1>1. posts' = posts \cup {post} /\ alone' = (alone /\ ~OfCollection!Waiting)
  BY DEF OfCollection!Posted, OfCollection!Post, OfCollection!Acts
<1>2. post \in PostType /\ post.answer = "none" /\ post.kind = kind /\ post.on = on
  BY DEF PostType
<1> HIDE DEF post
<1>3. CollectionTypes'
  BY <1>1, <1>2 DEF CollectionInv, CollectionTypes
<1>4. ASSUME alone' PROVE AloneHolds(pager, held, ticked, posts)'
  <2>1. alone /\ pager.asked = <<>> /\ posts = {}
    BY <1>1, <1>4 DEF OfCollection!Waiting
  <2>2. AloneHolds(pager, held, ticked, {}) /\ ShowsItems(pager, held)
    BY <2>1 DEF CollectionInv, AloneHolds
  <2>3. posts' = {post}
    BY <1>1, <2>1
  <2> QED BY <1>2, <2>1, <2>2, <2>3 DEF AloneHolds, ShowsItems, ItemsOf
<1> QED BY <1>3, <1>4 DEF CollectionInv

\* The form is shown, hidden or filled in.
LEMMA EditingKeeps ==
  ASSUME CollectionInv,
         \/ \E s \in BOOLEAN : OfCollection!ShowForm(s)
         \/ OfCollection!AddRow
         \/ \E i \in DOMAIN rows : \/ OfCollection!RemoveRow(i)
                                  \/ \E x \in Things \cup {NoThing} : OfCollection!ChangeRow(i, x)
  PROVE  CollectionInv'
<1> DEFINE S == Things \cup {NoThing}
<1>1. rows \in Seq(S)
  BY DEF CollectionInv, CollectionTypes
<1>2. rows' \in Seq(S) /\ UNCHANGED <<held, pager, ticked, posts, alone>>
  <2>1. CASE \E s \in BOOLEAN : OfCollection!ShowForm(s)
    BY <1>1, <2>1 DEF OfCollection!ShowForm
  <2>2. ASSUME NEW rs \in Seq(S), OfCollection!Edit(rs)
        PROVE  rows' \in Seq(S) /\ UNCHANGED <<held, pager, ticked, posts, alone>>
    <3>1. <<NoThing>> \in Seq(S)
      OBVIOUS
    <3> QED BY <2>2, <3>1 DEF OfCollection!Edit, OfCollection!Shown
  <2>3. CASE OfCollection!AddRow
    <3>1. Append(rows, NoThing) \in Seq(S)
      BY <1>1
    <3> HIDE DEF S
    <3> QED BY <2>2, <2>3, <3>1 DEF OfCollection!AddRow
  <2>4. ASSUME NEW i \in DOMAIN rows, OfCollection!RemoveRow(i)
        PROVE  rows' \in Seq(S) /\ UNCHANGED <<held, pager, ticked, posts, alone>>
    <3> DEFINE rest == SubSeq(rows, 1, i - 1) \o SubSeq(rows, i + 1, Len(rows))
    <3>1. rest \in Seq(S)
      BY <1>1, RemovedAt
    <3>2. OfCollection!Edit(rest)
      BY <2>4 DEF OfCollection!RemoveRow, OfCollection!RemoveAt
    <3> HIDE DEF rest
    <3> QED BY <2>2, <3>1, <3>2
  <2>5. ASSUME NEW i \in DOMAIN rows, NEW x \in Things \cup {NoThing}, OfCollection!ChangeRow(i, x)
        PROVE  rows' \in Seq(S) /\ UNCHANGED <<held, pager, ticked, posts, alone>>
    <3>1. [rows EXCEPT ![i] = x] \in Seq(S)
      BY <1>1
    <3> QED BY <2>2, <2>5, <3>1 DEF OfCollection!ChangeRow
  <2> QED BY <2>1, <2>3, <2>4, <2>5
<1>3. CollectionTypes'
  BY <1>2 DEF CollectionInv, CollectionTypes
<1> QED BY <1>2, <1>3 DEF CollectionInv, AloneHolds, ShowsItems, ItemsOf

\* Things are added after the others.
LEMMA WithIsList ==
  ASSUME CollectionAssumption, held \in Seq(Things), NEW on \in SUBSET Things
  PROVE  OfCollection!With(on) \in Seq(Things) /\ ItemsOf(held) \subseteq ItemsOf(OfCollection!With(on))
<1> DEFINE more == on \ OfCollection!There
           last == OfCollection!SetToSeq(more)
<1>1. IsFiniteSet(more) /\ more \subseteq Things
  BY FS_Subset DEF CollectionAssumption
<1>2. Cardinality(more) \in Nat
  BY <1>1, FS_CardinalityType
<1> DEFINE n == Cardinality(more)
           OneByOne(f) == f \in [1 .. n -> more] /\ \A a, b \in DOMAIN f : f[a] = f[b] => a = b
<1>3. last = CHOOSE f \in [1 .. n -> more] : OfCollection!IsInjective(f)
  BY DEF OfCollection!SetToSeq, OfCollection!Cardinality, Cardinality
<1> HIDE DEF more, last
<1>4. \E f \in [1 .. n -> more] : OfCollection!IsInjective(f)
  <2>1. ExistsBijection(1 .. n, more)
    BY <1>1, FS_CardinalityType
  <2>2. PICK f \in Bijection(1 .. n, more) : TRUE
    BY <2>1 DEF ExistsBijection
  <2>3. f \in [1 .. n -> more] /\ IsInjective(f)
    BY <2>2 DEF Bijection, Injection
  <2> QED BY <2>3 DEF OfCollection!IsInjective, IsInjective
<1>5. last \in [1 .. n -> more]
  BY <1>3, <1>4
<1>6. last \in Seq(Things)
  BY <1>1, <1>2, <1>5
<1>7. OfCollection!With(on) = held \o last
  BY DEF OfCollection!With, more, last
<1>8. (held \o last) \in Seq(Things) /\ \A a \in 1 .. Len(held) : (held \o last)[a] = held[a]
  BY <1>6
<1>9. DOMAIN held \subseteq DOMAIN (held \o last)
  BY <1>6
<1> QED BY <1>7, <1>8, <1>9 DEF ItemsOf

\* The server handles a request.
LEMMA HandlingKeeps ==
  ASSUME CollectionAssumption, CollectionInv, NEW post \in posts, NEW failed \in BOOLEAN,
         OfCollection!Handle(post, failed)
  PROVE  CollectionInv'
<1> DEFINE refused == post.kind = "remove" /\ ~OfCollection!MayRemove(post.on)
           reply == IF failed \/ refused THEN "error" ELSE "ok"
           told == [post EXCEPT !.answer = reply]
<1>1. /\ post.answer = "none" /\ posts' = (posts \ {post}) \cup {told}
      /\ held' = IF refused \/ (failed /\ post.kind = "remove") THEN held
                 ELSE IF post.kind = "remove" THEN OfCollection!Without(post.on)
                 ELSE OfCollection!With(IF failed THEN {CHOOSE x \in post.on : TRUE} ELSE post.on)
      /\ alone' = (alone /\ ~(failed /\ post.kind = "add"))
      /\ UNCHANGED <<pager, ticked, adding, rows>>
  BY DEF OfCollection!Handle
<1>2. held \in Seq(Things) /\ post \in PostType
  BY DEF CollectionInv, CollectionTypes
<1>3. /\ told \in PostType /\ told.answer = reply /\ told.kind = post.kind
      /\ reply \in {"error", "ok"}
  BY <1>2 DEF PostType
<1>4. post.on \subseteq Things /\ post.on # {} /\ post.kind \in {"add", "remove"}
  BY <1>2 DEF PostType
<1> HIDE DEF told
<1>5. held' \in Seq(Things)
  <2> DEFINE added == IF failed THEN {CHOOSE x \in post.on : TRUE} ELSE post.on
  <2>1. added \in SUBSET Things
    BY <1>4
  <2> HIDE DEF added
  <2>2. OfCollection!With(added) \in Seq(Things)
    BY <1>2, <2>1, WithIsList
  <2>3. OfCollection!Without(post.on) \in Seq(Things)
    BY <1>2, WithoutIsList
  <2>4. held' \in {held, OfCollection!Without(post.on), OfCollection!With(added)}
    BY <1>1 DEF added
  <2> QED BY <1>2, <2>2, <2>3, <2>4
<1>6. CollectionTypes'
  BY <1>1, <1>3, <1>5 DEF CollectionInv, CollectionTypes
<1>7. ASSUME alone' PROVE AloneHolds(pager, held, ticked, posts)'
  <2>1. AloneHolds(pager, held, ticked, posts) /\ ~(failed /\ post.kind = "add")
    BY <1>1, <1>7 DEF CollectionInv
  <2>2. posts' = {told} /\ pager.asked = <<>> /\ posts = {post}
    <3>1. posts = {post}
      BY <2>1 DEF AloneHolds
    <3> QED BY <1>1, <2>1, <3>1 DEF AloneHolds
  <2>3. ShowsItems(pager, held) /\ ticked \subseteq ItemsOf(held)
    BY <1>1, <2>1, <2>2 DEF AloneHolds
  <2>4. CASE reply = "error"
    <3>1. held' = held
      BY <1>1, <1>4, <2>1, <2>4
    <3>2. told.answer # "ok" /\ told.answer # "none"
      BY <1>3, <2>4
    <3>3. AloneHolds(pager, held, ticked, {told})
      BY <2>2, <2>3, <3>2 DEF AloneHolds
    <3> QED BY <1>1, <2>2, <3>1, <3>3 DEF AloneHolds, ShowsItems, ItemsOf
  <2>5. CASE reply = "ok" /\ post.kind = "remove"
    BY <1>1, <1>3, <2>2, <2>5 DEF AloneHolds, ShowsItems, ItemsOf
  <2>6. CASE reply = "ok" /\ post.kind = "add"
    <3>1. held' = OfCollection!With(post.on)
      BY <1>1, <2>6
    <3>2. ItemsOf(held) \subseteq ItemsOf(held')
      BY <1>2, <1>4, <3>1, WithIsList
    <3>3. ticked \subseteq ItemsOf(held')
      BY <2>3, <3>2
    <3>4. told.answer = "ok" /\ told.answer # "none"
      BY <1>3, <2>6
    <3>5. AloneHolds(pager, held', ticked, {told})
      BY <2>2, <3>3, <3>4 DEF AloneHolds
    <3> QED BY <1>1, <2>2, <3>5 DEF AloneHolds, ShowsItems, ItemsOf
  <2> QED BY <1>3, <1>4, <2>4, <2>5, <2>6
<1> QED BY <1>6, <1>7 DEF CollectionInv

\* Others change the collection.
LEMMA ChangingKeeps ==
  ASSUME CollectionInv, OfCollection!OthersChange
  PROVE  CollectionInv'
<1>1. alone' = FALSE /\ UNCHANGED <<pager, ticked, adding, rows, posts>>
  BY DEF OfCollection!OthersChange
<1>2. PICK x \in Things : held' = IF x \in OfCollection!There THEN OfCollection!Without({x})
                                 ELSE Append(held, x)
  BY DEF OfCollection!OthersChange
<1>3. held' \in Seq(Things)
  <2>1. held \in Seq(Things)
    BY DEF CollectionInv, CollectionTypes
  <2>2. OfCollection!Without({x}) \in Seq(Things)
    BY <2>1, WithoutIsList
  <2> QED BY <1>2, <2>1, <2>2
<1> QED BY <1>1, <1>3 DEF CollectionInv, CollectionTypes

\* An answer arrives at the page.
LEMMA SucceedingKeeps ==
  ASSUME CollectionInv, NEW post \in posts, OfCollection!Succeeded(post)
  PROVE  CollectionInv'
<1> DEFINE p == OfCollection!Triggered(pager, OfCollection!Same, pager.from, pager.size)
<1>1. /\ post.answer = "ok" /\ posts' = posts \ {post}
      /\ ticked' = IF post.kind = "remove" THEN {} ELSE ticked
      /\ rows' = rows \/ rows' = <<NoThing>>
      /\ pager' = p /\ UNCHANGED <<held, alone>>
  BY DEF OfCollection!Succeeded, OfCollection!TickedAfter, OfCollection!Shown, OfCollection!Becomes
<1>2. PagerOK(pager, Things, OneAddress) /\ pager.from \in Nat /\ pager.size \in Nat \ {0}
  BY DEF CollectionInv, CollectionTypes, PagerOK, PagersOf
<1>3. /\ PagerOK(p, Things, OneAddress) /\ ShowsAs(p, pager)
      /\ \E ask : p.asked = Append(pager.asked, ask) /\ ask.rows = OfSearch!Unread
  BY <1>2, TriggeredShowsAs
<1> HIDE DEF p
<1>4. CollectionTypes'
  <2>1. rows' \in Seq(Things \cup {NoThing})
    <3>1. <<NoThing>> \in Seq(Things \cup {NoThing})
      OBVIOUS
    <3> QED BY <1>1, <3>1 DEF CollectionInv, CollectionTypes
  <2> QED BY <1>1, <1>3, <2>1 DEF CollectionInv, CollectionTypes
<1>5. ASSUME alone' PROVE AloneHolds(pager, held, ticked, posts)'
  <2>1. AloneHolds(pager, held, ticked, posts)
    BY <1>1, <1>5 DEF CollectionInv
  <2>2. posts = {post} /\ pager.asked = <<>> /\ posts' = {}
    <3>1. posts = {post}
      BY <2>1 DEF AloneHolds
    <3> QED BY <1>1, <2>1, <3>1 DEF AloneHolds
  <2>3. post.kind \in {"add", "remove"}
    BY DEF CollectionInv, CollectionTypes, PostType
  <2>4. ticked' \subseteq ItemsOf(held)
    BY <1>1, <2>1, <2>2, <2>3 DEF AloneHolds
  <2>5. PICK ask : p.asked = Append(<<>>, ask) /\ ask.rows = OfSearch!Unread
    BY <1>3, <2>2
  <2>6. Len(p.asked) = 1 /\ p.asked[1] = ask /\ p.asked # <<>>
    BY <2>5
  <2> QED BY <1>1, <2>2, <2>4, <2>5, <2>6 DEF AloneHolds, ShowsItems, ItemsOf
<1> QED BY <1>4, <1>5 DEF CollectionInv

LEMMA FailingKeeps ==
  ASSUME CollectionInv, NEW post \in posts, OfCollection!Failed(post)
  PROVE  CollectionInv'
<1>1. post.answer = "error" /\ posts' = posts \ {post}
      /\ UNCHANGED <<held, pager, ticked, adding, rows, alone>>
  BY DEF OfCollection!Failed
<1>2. CollectionTypes'
  BY <1>1 DEF CollectionInv, CollectionTypes
<1>3. ASSUME alone' PROVE AloneHolds(pager, held, ticked, posts)'
  <2>1. AloneHolds(pager, held, ticked, posts)
    BY <1>1, <1>3 DEF CollectionInv
  <2>2. posts = {post} /\ posts' = {}
    <3>1. posts = {post}
      BY <2>1 DEF AloneHolds
    <3> QED BY <1>1, <3>1
  <2> QED BY <1>1, <2>1, <2>2 DEF AloneHolds, ShowsItems, ItemsOf
<1> QED BY <1>2, <1>3 DEF CollectionInv

LEMMA CollectionKeeps ==
  ASSUME CollectionAssumption, CollectionInv,
         [OfCollection!Next]_(OfCollection!collectionVars)
  PROVE  CollectionInv'
<1>1. CASE UNCHANGED OfCollection!collectionVars
  BY <1>1 DEF OfCollection!collectionVars, CollectionInv, CollectionTypes, AloneHolds, ShowsItems,
              ItemsOf
<1>2. CASE \/ OfCollection!TurnBack \/ OfCollection!TurnOn
           \/ \E size \in CollectionSizes : OfCollection!Resize(size)
           \/ \E i \in DOMAIN pager.urls : OfCollection!Navigate(i)
  BY <1>2, LookingKeeps
<1>3. CASE \E i \in DOMAIN pager.asked : OfCollection!ReadPage(i) \/ OfCollection!ShowPage(i)
  BY <1>3, ReadingKeeps, ShowingKeeps
<1>4. CASE \E x \in Things : OfCollection!Tick(x)
  BY <1>4, TickingKeeps
<1>5. CASE OfCollection!RemoveTicked
  <2>1. /\ OfCollection!Posted(OfCollection!Post("remove", ticked)) /\ ticked # {}
        /\ OfCollection!Acts /\ UNCHANGED <<held, pager, ticked, adding, rows>>
    BY <1>5 DEF OfCollection!RemoveTicked
  <2>2. ticked \subseteq Things
    BY DEF CollectionInv, CollectionTypes
  <2> QED BY <2>1, <2>2, PostingKeeps
<1>6. CASE OfCollection!SubmitForm
  <2> DEFINE on == OfCollection!Cleaned(rows)
  <2>1. /\ OfCollection!Posted(OfCollection!Post("add", on)) /\ on # {}
        /\ OfCollection!Acts /\ UNCHANGED <<held, pager, ticked, adding, rows>>
    BY <1>6 DEF OfCollection!SubmitForm
  <2>2. rows \in Seq(Things \cup {NoThing})
    BY DEF CollectionInv, CollectionTypes
  <2>3. on \subseteq Things
    BY <2>2 DEF OfCollection!Cleaned, OfCollection!ToSet
  <2> HIDE DEF on
  <2> QED BY <2>1, <2>3, PostingKeeps
<1>7. CASE \/ \E s \in BOOLEAN : OfCollection!ShowForm(s)
           \/ OfCollection!AddRow
           \/ \E i \in DOMAIN rows : \/ OfCollection!RemoveRow(i)
                                    \/ \E x \in Things \cup {NoThing} : OfCollection!ChangeRow(i, x)
  BY <1>7, EditingKeeps
<1>8. CASE \E post \in posts : OfCollection!Succeeded(post) \/ OfCollection!Failed(post)
                              \/ \E failed \in BOOLEAN : OfCollection!Handle(post, failed)
  BY <1>8, SucceedingKeeps, FailingKeeps, HandlingKeeps
<1>9. CASE OfCollection!OthersChange
  BY <1>9, ChangingKeeps
<1> QED BY <1>1, <1>2, <1>3, <1>4, <1>5, <1>6, <1>7, <1>8, <1>9 DEF OfCollection!Next

----------------------------------------------------------------------------
(* The search page.                                                        *)

SearchTypesOK ==
  /\ field \in OfSearch!Found /\ search \in OfSearch!Found
  /\ PagerOK(pager, Hit, Asked)

\* An address that reads as it was written, and is not after the results.
UrlGood(u) ==
  /\ Reads(u.params.text) = u.params.text /\ ~u.params.rest
  /\ u.from = 0 \/ u.from < Len(Hits(u.params))

\* For one who waits for each answer: what is asked for, or shown, is what the address says.
Waits(p, s) ==
  /\ Reads(s.text) = s.text
  /\ Len(p.asked) <= 1
  /\ \A i \in DOMAIN p.urls : UrlGood(p.urls[i])
  /\ p.urls[p.at].params = OfSearch!Params(s)
  /\ p.asked # <<>> =>
       /\ p.asked[1].params = p.urls[p.at].params
       /\ p.asked[1].from = p.urls[p.at].from /\ p.asked[1].size = p.urls[p.at].size
  /\ p.asked = <<>> =>
       /\ p.from = p.urls[p.at].from /\ p.size = p.urls[p.at].size
       /\ p.rows = OfSearch!Page(OfSearch!Read(Hits(OfSearch!Params(s)), p.from, p.size), p.size)
       /\ p.next = (Len(Hits(OfSearch!Params(s))) > p.from + p.size)

SearchInv ==
  /\ SearchTypesOK /\ OfSearch!RowsOfOne /\ ~cut
  /\ waited => Waits(pager, search)

\* TriggeredAsks, of the pager of this page.
LEMMA SearchAsks ==
  ASSUME NEW q, PagerOK(q, Hit, Asked), NEW params \in Asked, NEW from \in Nat,
         NEW size \in Nat \ {0}, NEW p, p = OfSearch!Triggered(q, params, from, size)
  PROVE  /\ PagerOK(p, Hit, Asked)
         /\ p.size = q.size /\ p.rows = q.rows /\ p.next = q.next
         /\ Len(p.asked) = Len(q.asked) + 1
         /\ p.urls[p.at] = OfSearch!Url(params, from, size, "pager")
         /\ OfSearch!Url(params, from, size, "pager") = q.urls[q.at] => p.urls = q.urls
<1>1. /\ PagerOK(p, Hit, Asked) /\ p.urls[p.at] = OfSearch!Url(params, from, size, "pager")
      /\ \A i \in DOMAIN p.urls :
           \/ p.urls[i] = OfSearch!Url(params, from, size, "pager")
           \/ \E j \in DOMAIN q.urls : p.urls[i] = q.urls[j]
      /\ p.from = q.from /\ p.size = q.size /\ p.rows = q.rows /\ p.next = q.next
      /\ p.asked = Append(q.asked, [params |-> params, from |-> from, size |-> size,
                                    rows |-> OfSearch!Unread])
      /\ OfSearch!Url(params, from, size, "pager") = q.urls[q.at] => p.urls = q.urls
  BY TriggeredAsks
<1>2. q.asked \in Seq(AskedOf(Hit, Asked))
  BY DEF PagerOK, PagersOf
<1>3. Len(p.asked) = Len(q.asked) + 1
  BY <1>1, <1>2
<1> QED BY <1>1, <1>3

LEMMA ParamsAsked ==
  ASSUME NEW t \in OfSearch!Found
  PROVE  /\ OfSearch!Params(t) \in Asked /\ OfSearch!Encoded(t) \in Asked
         /\ Reads(t.text) = t.text => OfSearch!Params(t) = OfSearch!Encoded(t)
BY DEF Asked, OfSearch!Params, OfSearch!Encoded

\* Parameters have a text and a type that may be asked for.
LEMMA AskedFields ==
  ASSUME SearchAssumption, NEW params \in Asked
  PROVE  /\ params.text \in Texts /\ params.rest \in BOOLEAN
         /\ params.type \in SearchTypes \cup {""}
         /\ params = [text |-> params.text, rest |-> params.rest, type |-> params.type]
<1>1. PICK t \in OfSearch!Found : params = OfSearch!Params(t) \/ params = OfSearch!Encoded(t)
  BY DEF Asked
<1>2. t.text \in Texts /\ t.type \in SearchTypes \cup {"", "unset"}
  BY DEF OfSearch!Found
<1>3. OfSearch!TypeSent(t) \in SearchTypes \cup {""}
  BY <1>2 DEF OfSearch!TypeSent
<1>4. CASE params = OfSearch!Params(t)
  BY <1>2, <1>3, <1>4 DEF OfSearch!Params, SearchAssumption
<1>5. CASE params = OfSearch!Encoded(t)
  BY <1>2, <1>3, <1>5 DEF OfSearch!Encoded, SearchAssumption
<1> QED BY <1>1, <1>4, <1>5

LEMMA SearchInvHolds ==
  ASSUME SearchAssumption, SearchInv
  PROVE  OfSearch!SearchHolds
<1>1. OfSearch!BackKeepsForward
  BY DEF SearchInv, OfSearch!BackKeepsForward
<1>2. OfSearch!ShownAsAddressed
  <2> DEFINE hits == Hits(OfSearch!Params(search))
             url == pager.urls[pager.at]
  <2> SUFFICES ASSUME waited, pager.asked = <<>>
               PROVE  /\ url.params = OfSearch!Params(search) /\ url.from = pager.from
                      /\ url.size = pager.size
                      /\ pager.rows = OfSearch!Page(OfSearch!Read(hits, pager.from, pager.size), pager.size)
                      /\ pager.next = (Len(hits) > pager.from + pager.size)
                      /\ hits # <<>> => pager.rows # <<>>
    BY DEF OfSearch!ShownAsAddressed
  <2>1. Waits(pager, search) /\ PagerOK(pager, Hit, Asked) /\ search \in OfSearch!Found
    BY DEF SearchInv, SearchTypesOK
  <2>2. /\ url.params = OfSearch!Params(search) /\ url.from = pager.from /\ url.size = pager.size
        /\ pager.rows = OfSearch!Page(OfSearch!Read(hits, pager.from, pager.size), pager.size)
        /\ pager.next = (Len(hits) > pager.from + pager.size)
    BY <2>1 DEF Waits
  <2>3. hits \in Seq(Hit)
    BY <2>1, ParamsAsked DEF SearchAssumption
  <2>4. pager.from = 0 \/ pager.from < Len(hits)
    <3>1. UrlGood(url)
      <4>1. pager.at \in DOMAIN pager.urls
        BY <2>1 DEF PagerOK, PagersOf
      <4> QED BY <2>1, <4>1 DEF Waits
    <3> QED BY <2>2, <3>1 DEF UrlGood
  <2>5. pager.from \in Nat /\ pager.size \in Nat \ {0}
    BY <2>1 DEF PagerOK, PagersOf
  <2>6. ASSUME hits # <<>> PROVE pager.rows # <<>>
    <3> DEFINE from == pager.from
               size == pager.size
    <3>1. from < Len(hits)
      <4>1. Len(hits) > 0
        BY <2>3, <2>6
      <4> QED BY <2>4, <4>1
    <3>2. from \in Nat /\ size \in Nat \ {0}
      BY <2>5
    <3> HIDE DEF hits, from, size
    <3>3. OfSearch!Page(OfSearch!Read(hits, from, size), size) # <<>>
      BY <2>3, <3>1, <3>2, PageRead
    <3> QED BY <2>2, <3>3 DEF from, size
  <2> QED BY <2>2, <2>6
<1> QED BY <1>1, <1>2 DEF SearchInv, OfSearch!SearchHolds

\* The page of a list is one of a search, and not after its end.
PageOfOne(list, from, size) ==
  \E t \in OfSearch!Found : \E ps \in {OfSearch!Encoded(t), OfSearch!Params(t)} :
    \E n \in 0 .. Len(Hits(ps)) :
      /\ OfSearch!Page(OfSearch!Read(list, from, size), size) =
           OfSearch!Page(OfSearch!Read(Hits(ps), n, size), size)
      /\ (Len(list) > from + size) <=> (Len(Hits(ps)) > n + size)

\* What is found is shown as a page of a search, also if that is after the last.
LEMMA PageOfSome ==
  ASSUME SearchAssumption, NEW params \in Asked, NEW from \in Nat, NEW size \in Nat \ {0}
  PROVE  PageOfOne(Hits(params), from, size)
<1>1. PICK t \in OfSearch!Found : params \in {OfSearch!Encoded(t), OfSearch!Params(t)}
  BY DEF Asked
<1> DEFINE list == Hits(params)
<1>2. list \in Seq(Hit) /\ Len(list) \in Nat
  BY DEF SearchAssumption
<1> SUFFICES \E n \in 0 .. Len(list) :
               /\ OfSearch!Page(OfSearch!Read(list, from, size), size) =
                    OfSearch!Page(OfSearch!Read(list, n, size), size)
               /\ (Len(list) > from + size) <=> (Len(list) > n + size)
  BY <1>1 DEF PageOfOne
<1> HIDE DEF list
<1>4. CASE from <= Len(list)
  BY <1>2, <1>4
<1>5. CASE from > Len(list)
  <2> DEFINE n == Len(list)
  <2>1. n \in 0 .. Len(list)
    BY <1>2
  <2>2. ~(Len(list) > from + size) /\ ~(Len(list) > n + size)
    BY <1>2, <1>5
  <2>3. ASSUME NEW k \in Nat, k >= n
        PROVE  OfSearch!Read(list, k, size) = <<>>
    <3>1. OfSearch!Min({k + size + 1, Len(list)}) = n
      <4>1. k + size + 1 \in Nat /\ ~(k + size + 1 <= Len(list))
        BY <1>2, <2>3
      <4> QED BY <1>2, <4>1, MinOfTwo
    <3>2. OfSearch!Read(list, k, size) = SubSeq(list, k + 1, n)
      BY <3>1 DEF OfSearch!Read
    <3>3. \A i \in k + 1 .. n : list[i] \in Hit
      BY <1>2, <2>3
    <3>4. SubSeq(list, k + 1, n) \in Seq(Hit) /\ Len(SubSeq(list, k + 1, n)) = 0
      <4>1. k + 1 \in Nat /\ n \in Nat /\ ~(k + 1 <= n)
        BY <1>2, <2>3
      <4> QED BY <3>3, <4>1, SubSeqProperties
    <3> QED BY <3>2, <3>4
  <2>4. OfSearch!Read(list, from, size) = OfSearch!Read(list, n, size)
    BY <1>2, <1>5, <2>3
  <2> HIDE DEF n
  <2> QED BY <2>1, <2>2, <2>4
<1> QED BY <1>2, <1>4, <1>5

\* A page as it is opened.
LEMMA SearchOpened ==
  ASSUME NEW T, NEW P, NEW list \in Seq(T), NEW params \in P, NEW from \in Nat,
         NEW size \in Nat \ {0}, NEW written \in {"pager", "other"}, NEW p,
         p = OfSearch!Opened(params, list, from, size, written)
  PROVE  /\ PagerOK(p, T, P) /\ p.asked = <<>> /\ p.at = 1 /\ p.from = from /\ p.size = size
         /\ p.urls = <<OfSearch!Url(params, from, size, written)>>
         /\ p.rows = OfSearch!Page(OfSearch!Read(list, from, size), size)
         /\ p.next = (Len(list) > from + size)
<1> DEFINE url == OfSearch!Url(params, from, size, written)
           shows == OfSearch!Page(OfSearch!Read(list, from, size), size)
           more == OfSearch!NextEnabled(OfSearch!Read(list, from, size), size)
<1>1. p = [from |-> from, size |-> size, rows |-> shows, next |-> more, urls |-> <<url>>, at |-> 1,
           asked |-> <<>>]
  BY DEF OfSearch!Opened
<1>2. shows \in Seq(T) /\ more \in BOOLEAN /\ more = (Len(list) > from + size)
  <2>1. more \in BOOLEAN
    BY DEF OfSearch!NextEnabled
  <2>2. shows \in Seq(T) /\ (more <=> Len(list) > from + size)
    BY PageRead
  <2> QED BY <2>1, <2>2
<1>3. <<url>> \in Seq(UrlsOf(P)) /\ Len(<<url>>) = 1
  BY DEF OfSearch!Url, UrlsOf
<1> HIDE DEF url, shows, more
<1>4. <<>> \in Seq(AskedOf(T, P))
  OBVIOUS
<1>5. p \in PagersOf(T, P)
  BY <1>1, <1>2, <1>3, <1>4 DEF PagersOf
<1> QED BY <1>1, <1>2, <1>3, <1>5 DEF PagerOK, url, shows

LEMMA SearchInit ==
  ASSUME SearchAssumption, OfSearch!Init
  PROVE  SearchInv
<1> DEFINE params == OfSearch!Encoded(search)
<1>1. PICK text \in Texts, type_ \in SearchTypes \cup {"unset"}, size \in Sizes,
           written \in {"pager", "other"} :
        /\ search = [text |-> text, type |-> type_]
        /\ \E from : /\ from = 0 \/ (from = size /\ from < Len(Hits(params)))
                    /\ field = OfSearch!InField(search)
                    /\ pager = OfSearch!Opened(params, Hits(params), from, size, written)
                    /\ waited = (Reads(text) = text) /\ cut = FALSE
  <2>1. PICK text \in Texts, type_ \in SearchTypes \cup {"unset"}, size \in Sizes,
             written \in {"pager", "other"} :
          LET s == [text |-> text, type |-> type_]
              hits == Hits(OfSearch!Encoded(s))
          IN \E from \in {0} \cup {n \in {size} : n < Len(hits)} :
               /\ search = s /\ field = OfSearch!InField(s)
               /\ pager = OfSearch!Opened(OfSearch!Encoded(s), hits, from, size, written)
               /\ due = FALSE /\ waited = (Reads(text) = text) /\ cut = FALSE
    BY Zenon DEF OfSearch!Init
  <2>2. search = [text |-> text, type |-> type_]
    BY <2>1
  <2>3. \E from \in {0} \cup {n \in {size} : n < Len(Hits(params))} :
          /\ field = OfSearch!InField(search)
          /\ pager = OfSearch!Opened(params, Hits(params), from, size, written)
          /\ waited = (Reads(text) = text) /\ cut = FALSE
    BY <2>1, <2>2
  <2> QED BY <2>2, <2>3
<1>2. PICK from : /\ from = 0 \/ (from = size /\ from < Len(Hits(params)))
                  /\ field = OfSearch!InField(search)
                  /\ pager = OfSearch!Opened(params, Hits(params), from, size, written)
                  /\ waited = (Reads(text) = text) /\ cut = FALSE
  BY <1>1
<1>3. search \in OfSearch!Found /\ field \in OfSearch!Found /\ search.text = text
  BY <1>1, <1>2 DEF OfSearch!Found, OfSearch!InField, OfSearch!TypeSent
<1>4. /\ params \in Asked /\ (Reads(text) = text => OfSearch!Params(search) = params)
      /\ params.text = text /\ ~params.rest
  <2>1. params \in Asked /\ (Reads(text) = text => OfSearch!Params(search) = params)
    BY <1>3, ParamsAsked
  <2> QED BY <1>3, <2>1 DEF OfSearch!Encoded
<1>5. Hits(params) \in Seq(Hit)
  BY <1>4 DEF SearchAssumption
<1>6. from \in Nat /\ size \in Nat \ {0} /\ (from = 0 \/ from < Len(Hits(params)))
  BY <1>2 DEF SearchAssumption
<1> HIDE DEF params
<1> DEFINE url == OfSearch!Url(params, from, size, written)
           list == Hits(params)
<1>7. pager = OfSearch!Opened(params, list, from, size, written)
  BY <1>2 DEF params
<1> HIDE DEF list
<1>8. /\ PagerOK(pager, Hit, Asked) /\ pager.asked = <<>> /\ pager.at = 1 /\ pager.from = from
      /\ pager.size = size /\ pager.urls = <<url>>
      /\ pager.rows = OfSearch!Page(OfSearch!Read(list, from, size), size)
      /\ pager.next = (Len(list) > from + size)
  <2>1. list \in Seq(Hit)
    BY <1>5 DEF list
  <2>2. PagerOK(pager, Hit, Asked)
    BY <1>4, <1>6, <1>7, <2>1, SearchOpened
  <2>3. /\ pager.asked = <<>> /\ pager.at = 1 /\ pager.from = from /\ pager.size = size
        /\ pager.urls = <<url>>
        /\ pager.rows = OfSearch!Page(OfSearch!Read(list, from, size), size)
        /\ pager.next = OfSearch!NextEnabled(OfSearch!Read(list, from, size), size)
    BY <1>7 DEF OfSearch!Opened
  <2>4. OfSearch!NextEnabled(OfSearch!Read(list, from, size), size) <=> Len(list) > from + size
    BY <1>6, <2>1, PageRead
  <2>5. pager.next \in BOOLEAN
    BY <2>2 DEF PagerOK, PagersOf
  <2> HIDE DEF url
  <2> QED BY <2>2, <2>3, <2>4, <2>5
<1>9. pager.urls[pager.at] = url /\ \A i \in DOMAIN pager.urls : pager.urls[i] = url
  BY <1>8
<1>10. url.params = params /\ url.from = from /\ url.size = size
  BY DEF OfSearch!Url
<1> HIDE DEF url
<1>11. OfSearch!RowsOfOne
  <2>1. PageOfOne(list, from, size)
    BY <1>4, <1>6, PageOfSome DEF list
  <2> QED BY <1>8, <2>1 DEF OfSearch!RowsOfOne, PageOfOne
<1>12. ASSUME waited PROVE Waits(pager, search)
  <2>1. Reads(text) = text /\ OfSearch!Params(search) = params
    BY <1>2, <1>4, <1>12
  <2>2. UrlGood(url)
    BY <1>4, <1>6, <1>10, <2>1 DEF UrlGood
  <2>3. Len(pager.asked) <= 1
    BY <1>8
  <2> QED BY <1>3, <1>8, <1>9, <1>10, <2>1, <2>2, <2>3 DEF Waits, list
<1> QED BY <1>2, <1>3, <1>8, <1>11, <1>12 DEF SearchInv, SearchTypesOK

\* A step that leaves what is shown as it is.
LEMMA SearchMoves ==
  ASSUME SearchInv, NEW p, PagerOK(p, Hit, Asked), NEW s, OfSearch!Becomes(p, s),
         search' = s, s \in OfSearch!Found, field' \in OfSearch!Found,
         p.rows = pager.rows, p.next = pager.next, p.size = pager.size,
         ~cut', waited' => Waits(p, s)
  PROVE  SearchInv'
<1>1. pager' = p
  BY DEF OfSearch!Becomes
<1>2. SearchTypesOK'
  BY <1>1 DEF SearchTypesOK
<1>3. OfSearch!RowsOfOne'
  BY <1>1 DEF SearchInv, OfSearch!RowsOfOne
<1>4. waited' => Waits(pager', search')
  BY <1>1
<1>5. (waited => Waits(pager, search))'
  BY <1>4 DEF Waits, UrlGood
<1> QED BY <1>2, <1>3, <1>5 DEF SearchInv

\* One who waited asks for a page of what is found.
LEMMA AsksOnce ==
  ASSUME SearchAssumption, NEW q, PagerOK(q, Hit, Asked), q.asked = <<>>,
         \A i \in DOMAIN q.urls : UrlGood(q.urls[i]),
         NEW s \in OfSearch!Found, Reads(s.text) = s.text,
         NEW from \in Nat, NEW size \in Nat \ {0},
         from = 0 \/ from < Len(Hits(OfSearch!Params(s))),
         NEW p, p = OfSearch!Triggered(q, OfSearch!Params(s), from, size)
  PROVE  Waits(p, s)
<1> DEFINE params == OfSearch!Params(s)
           url == OfSearch!Url(params, from, size, "pager")
           ask == [params |-> params, from |-> from, size |-> size, rows |-> OfSearch!Unread]
<1>1. params \in Asked /\ params = OfSearch!Encoded(s)
  BY ParamsAsked
<1> HIDE DEF params
<1>2. /\ PagerOK(p, Hit, Asked) /\ p.urls[p.at] = url
      /\ \A i \in DOMAIN p.urls : p.urls[i] = url \/ \E j \in DOMAIN q.urls : p.urls[i] = q.urls[j]
      /\ p.asked = Append(q.asked, ask)
  <2>1. p = OfSearch!Triggered(q, params, from, size)
    BY DEF params
  <2> QED BY <1>1, <2>1, TriggeredAsks
<1>3. url.params = params /\ url.from = from /\ url.size = size
  BY DEF OfSearch!Url
<1>4. p.asked = <<ask>> /\ Len(p.asked) = 1 /\ p.asked[1] = ask
  BY <1>2
<1> HIDE DEF url
<1>5. UrlGood(url)
  BY <1>1, <1>3 DEF UrlGood, OfSearch!Encoded, params
<1>6. \A i \in DOMAIN p.urls : UrlGood(p.urls[i])
  BY <1>2, <1>5
<1> QED BY <1>2, <1>3, <1>4, <1>6 DEF Waits, params

\* One who waited is not after the end of what is found.
LEMMA WaitedWithin ==
  ASSUME SearchAssumption, SearchInv, waited, pager.asked = <<>>
  PROVE  pager.from = 0 \/ pager.from < Len(Hits(OfSearch!Params(search)))
<1>1. Waits(pager, search) /\ PagerOK(pager, Hit, Asked)
  BY DEF SearchInv, SearchTypesOK
<1>2. pager.at \in DOMAIN pager.urls
  BY <1>1 DEF PagerOK, PagersOf
<1>3. UrlGood(pager.urls[pager.at])
  BY <1>1, <1>2 DEF Waits
<1> QED BY <1>1, <1>3 DEF Waits, UrlGood

\* A page is asked for, of what is searched or of something else.
LEMMA AskingKeeps ==
  ASSUME SearchAssumption, SearchInv,
         NEW q, PagerOK(q, Hit, Asked), q.urls = pager.urls, q.asked = pager.asked,
         q.rows = pager.rows, q.next = pager.next, q.size = pager.size,
         NEW s \in OfSearch!Found, NEW from \in Nat, NEW size \in Nat \ {0},
         waited /\ pager.asked = <<>> => from = 0 \/ from < Len(Hits(OfSearch!Params(s))),
         OfSearch!Becomes(OfSearch!Triggered(q, OfSearch!Params(s), from, size), s),
         search' = s, field' \in OfSearch!Found, ~cut'
  PROVE  SearchInv'
<1> DEFINE p == OfSearch!Triggered(q, OfSearch!Params(s), from, size)
<1>1. OfSearch!Params(s) \in Asked
  BY ParamsAsked
<1>2. /\ PagerOK(p, Hit, Asked) /\ p.rows = q.rows /\ p.next = q.next /\ p.size = q.size
  <2> DEFINE params == OfSearch!Params(s)
  <2>1. params \in Asked /\ p = OfSearch!Triggered(q, params, from, size)
    BY <1>1
  <2> HIDE DEF params, p
  <2> QED BY <2>1, SearchAsks
<1>3. ASSUME waited' PROVE Waits(p, s)
  <2>1. waited /\ pager.asked = <<>> /\ Reads(s.text) = s.text
    BY <1>3 DEF OfSearch!Becomes
  <2>2. \A i \in DOMAIN q.urls : UrlGood(q.urls[i])
    BY <2>1 DEF SearchInv, Waits
  <2> QED BY <2>1, <2>2, AsksOnce
<1>4. OfSearch!Becomes(p, s)
  OBVIOUS
<1> HIDE DEF p
<1> QED BY <1>2, <1>3, <1>4, SearchMoves

LEMMA SearchFacts ==
  ASSUME SearchInv
  PROVE  /\ PagerOK(pager, Hit, Asked) /\ pager \in PagersOf(Hit, Asked)
         /\ pager.from \in Nat /\ pager.size \in Nat \ {0}
         /\ search \in OfSearch!Found /\ field \in OfSearch!Found /\ ~cut
BY DEF SearchInv, SearchTypesOK, PagerOK, PagersOf

LEMMA TurningKeeps ==
  ASSUME SearchAssumption, SearchInv,
         \/ OfSearch!TurnBack \/ OfSearch!TurnOn \/ \E size \in Sizes : OfSearch!Resize(size)
  PROVE  SearchInv'
<1>1. ASSUME NEW from \in Nat, NEW size \in Nat \ {0},
             waited /\ pager.asked = <<>> => from = 0 \/ from < Len(Hits(OfSearch!Params(search))),
             OfSearch!Turn(OfSearch!Triggered(pager, OfSearch!Params(search), from, size))
      PROVE  SearchInv'
  <2>1. /\ OfSearch!Becomes(OfSearch!Triggered(pager, OfSearch!Params(search), from, size), search)
        /\ search' = search /\ field' = field /\ cut' = cut
    BY <1>1 DEF OfSearch!Turn
  <2>2. /\ PagerOK(pager, Hit, Asked) /\ search \in OfSearch!Found /\ field' \in OfSearch!Found
        /\ ~cut'
    BY <2>1, SearchFacts
  <2> QED BY <1>1, <2>1, <2>2, AskingKeeps
<1>2. pager.from \in Nat /\ pager.size \in Nat \ {0}
  BY SearchFacts
<1>3. waited /\ pager.asked = <<>> =>
        pager.from = 0 \/ pager.from < Len(Hits(OfSearch!Params(search)))
  BY WaitedWithin
<1>4. Len(Hits(OfSearch!Params(search))) \in Nat
  <2>1. OfSearch!Params(search) \in Asked
    BY SearchFacts, ParamsAsked
  <2> QED BY <2>1 DEF SearchAssumption
<1>5. CASE OfSearch!TurnBack
  <2> DEFINE from == IF pager.from > pager.size THEN pager.from - pager.size ELSE 0
  <2>1. OfSearch!Turn(OfSearch!Triggered(pager, OfSearch!Params(search), from, pager.size))
    BY <1>5 DEF OfSearch!TurnBack, OfSearch!Previous
  <2>2. from \in Nat /\ (from = 0 \/ from < pager.from)
    BY <1>2
  <2>3. waited /\ pager.asked = <<>> => from = 0 \/ from < Len(Hits(OfSearch!Params(search)))
    BY <1>2, <1>3, <1>4, <2>2
  <2> HIDE DEF from
  <2> QED BY <1>1, <1>2, <2>1, <2>2, <2>3
<1>6. CASE OfSearch!TurnOn
  <2> DEFINE from == pager.from + pager.size
  <2>1. pager.next /\ OfSearch!Turn(OfSearch!Triggered(pager, OfSearch!Params(search), from, pager.size))
    BY <1>6 DEF OfSearch!TurnOn, OfSearch!Next_, OfSearch!NextShown
  <2>2. from \in Nat
    BY <1>2
  <2>3. ASSUME waited, pager.asked = <<>> PROVE from < Len(Hits(OfSearch!Params(search)))
    <3>1. pager.next = (Len(Hits(OfSearch!Params(search))) > pager.from + pager.size)
      BY <2>3 DEF SearchInv, Waits
    <3> QED BY <1>2, <1>4, <2>1, <3>1
  <2> HIDE DEF from
  <2> QED BY <1>1, <1>2, <2>1, <2>2, <2>3
<1>7. ASSUME NEW size \in Sizes, OfSearch!Resize(size) PROVE SearchInv'
  <2>1. OfSearch!Turn(OfSearch!Triggered(pager, OfSearch!Params(search), pager.from, size))
    BY <1>7 DEF OfSearch!Resize, OfSearch!Resized
  <2>2. size \in Nat \ {0}
    BY DEF SearchAssumption
  <2> QED BY <1>1, <1>2, <1>3, <2>1, <2>2
<1> QED BY <1>5, <1>6, <1>7

\* The pager as it is told of other parameters.
LEMMA FromStart ==
  ASSUME NEW T, NEW P, NEW p, PagerOK(p, T, P)
  PROVE  LET q == [p EXCEPT !.from = 0]
         IN  /\ PagerOK(q, T, P) /\ q.urls = p.urls /\ q.asked = p.asked /\ q.at = p.at
             /\ q.rows = p.rows /\ q.next = p.next /\ q.size = p.size
<1>1. p \in PagersOf(T, P)
  BY DEF PagerOK
<1> DEFINE q == [p EXCEPT !.from = 0]
<1>2. /\ q \in PagersOf(T, P) /\ q.urls = p.urls /\ q.asked = p.asked /\ q.at = p.at
      /\ q.rows = p.rows /\ q.next = p.next /\ q.size = p.size
  BY <1>1 DEF PagersOf
<1> HIDE DEF q
<1> QED BY <1>2 DEF PagerOK, q

LEMMA FieldKeeps ==
  ASSUME SearchAssumption, SearchInv,
         \/ OfSearch!Search
         \/ (\E text \in Texts : OfSearch!TypeText(text)) \/ (\E t \in SearchTypes : OfSearch!SelectType(t))
  PROVE  SearchInv'
<1>0. /\ PagerOK(pager, Hit, Asked) /\ pager.from \in Nat /\ pager.size \in Nat \ {0}
      /\ search \in OfSearch!Found /\ field \in OfSearch!Found /\ ~cut
  BY SearchFacts
<1>1. CASE OfSearch!Search
  <2>1. search' = field /\ field' = OfSearch!InField(field) /\ cut' = cut
    BY <1>1 DEF OfSearch!Search
  <2>2. field' \in OfSearch!Found
    BY <1>0, <2>1 DEF OfSearch!InField, OfSearch!Found, OfSearch!TypeSent
  <2>3. CASE search = field
    <3>1. OfSearch!Becomes(OfSearch!Triggered(pager, OfSearch!Params(field), pager.from, pager.size), field)
      BY <1>1, <2>3 DEF OfSearch!Search
    <3>2. waited /\ pager.asked = <<>> =>
            pager.from = 0 \/ pager.from < Len(Hits(OfSearch!Params(field)))
      BY <2>3, WaitedWithin
    <3> QED BY <1>0, <2>1, <2>2, <3>1, <3>2, AskingKeeps
  <2>4. CASE search # field /\ OfSearch!Params(field) # OfSearch!Params(search)
    <3> DEFINE q == [pager EXCEPT !.from = 0]
    <3>1. OfSearch!Becomes(OfSearch!Triggered(q, OfSearch!Params(field), 0, pager.size), field)
      BY <1>1, <2>4 DEF OfSearch!Search, OfSearch!Told, OfSearch!ParamsChanged
    <3>2. /\ PagerOK(q, Hit, Asked) /\ q.urls = pager.urls /\ q.asked = pager.asked
          /\ q.rows = pager.rows /\ q.next = pager.next /\ q.size = pager.size
      BY <1>0, FromStart
    <3> HIDE DEF q
    <3>3. 0 \in Nat
      OBVIOUS
    <3> QED BY <1>0, <2>1, <2>2, <3>1, <3>2, <3>3, AskingKeeps
  <2>5. CASE search # field /\ OfSearch!Params(field) = OfSearch!Params(search)
    <3>1. OfSearch!Becomes(pager, field)
      BY <1>1, <2>5 DEF OfSearch!Search, OfSearch!Told
    <3>2. ASSUME waited' PROVE Waits(pager, field)
      <4>1. waited /\ Reads(field.text) = field.text
        BY <3>1, <3>2 DEF OfSearch!Becomes
      <4> QED BY <2>5, <4>1 DEF SearchInv, Waits
    <3> QED BY <1>0, <2>1, <2>2, <3>1, <3>2, SearchMoves
  <2> QED BY <2>3, <2>4, <2>5
<1>2. ASSUME field' \in OfSearch!Found, UNCHANGED <<search, pager, waited, cut>>
      PROVE  SearchInv'
  BY <1>2 DEF SearchInv, SearchTypesOK, OfSearch!RowsOfOne, Waits, UrlGood
<1>3. ASSUME NEW text \in Texts, OfSearch!TypeText(text) PROVE SearchInv'
  <2>1. field' \in OfSearch!Found
    BY <1>0, <1>3 DEF OfSearch!TypeText, OfSearch!Found
  <2> QED BY <1>2, <1>3, <2>1 DEF OfSearch!TypeText
<1>4. ASSUME NEW t \in SearchTypes, OfSearch!SelectType(t) PROVE SearchInv'
  <2>1. field' \in OfSearch!Found
    BY <1>0, <1>4 DEF OfSearch!SelectType, OfSearch!Found
  <2> QED BY <1>2, <1>4, <2>1 DEF OfSearch!SelectType
<1> QED BY <1>1, <1>3, <1>4

\* An answer is read and shown.
LEMMA ResultsShown ==
  ASSUME SearchAssumption, SearchInv, NEW i \in DOMAIN pager.asked, OfSearch!Answer(i)
  PROVE  SearchInv'
<1> DEFINE r == pager.asked[i]
           list == Hits(r.params)
           q == OfSearch!Served(pager, i, list)
<1>1. pager' = OfSearch!Answered(q, i) /\ UNCHANGED <<field, due, search, waited, cut>>
  BY DEF OfSearch!Answer
<1>2. PagerOK(pager, Hit, Asked) /\ pager.asked \in Seq(AskedOf(Hit, Asked)) /\ r \in AskedOf(Hit, Asked)
  <2>1. pager \in PagersOf(Hit, Asked) /\ PagerOK(pager, Hit, Asked)
    BY SearchFacts
  <2> QED BY <2>1 DEF PagersOf
<1>3. r.params \in Asked /\ r.from \in Nat /\ r.size \in Nat \ {0}
  BY <1>2 DEF AskedOf
<1>4. list \in Seq(Hit)
  BY <1>3 DEF SearchAssumption
<1> HIDE DEF list
<1>5. /\ PagerOK(q, Hit, Asked) /\ q.urls = pager.urls /\ q.at = pager.at
      /\ i \in DOMAIN q.asked /\ Len(q.asked) = Len(pager.asked)
      /\ q.asked[i] = [r EXCEPT !.rows = OfSearch!Read(list, r.from, r.size)]
  BY <1>2, <1>4, ServedReads
<1> HIDE DEF q
<1>6. /\ q.asked[i].from = r.from /\ q.asked[i].size = r.size
      /\ q.asked[i].rows = OfSearch!Read(list, r.from, r.size)
  BY <1>2, <1>5 DEF AskedOf
<1>7. q.asked[i].rows \in Seq(Hit)
  <2> DEFINE from == r.from
             size == r.size
  <2>1. from \in Nat /\ size \in Nat \ {0}
    BY <1>3
  <2>2. q.asked[i].rows = OfSearch!Read(list, from, size)
    BY <1>6
  <2> HIDE DEF from, size
  <2>3. OfSearch!Read(list, from, size) \in Seq(Hit)
    BY <1>4, <2>1, PageRead
  <2> QED BY <2>2, <2>3
<1>8. /\ PagerOK(pager', Hit, Asked) /\ pager'.from = r.from /\ pager'.size = r.size
      /\ pager'.rows = OfSearch!Page(OfSearch!Read(list, r.from, r.size), r.size)
      /\ pager'.next = OfSearch!NextEnabled(OfSearch!Read(list, r.from, r.size), r.size)
      /\ pager'.urls = pager.urls /\ pager'.at = pager.at /\ Len(pager'.asked) = Len(pager.asked) - 1
  <2>1. /\ PagerOK(pager', Hit, Asked) /\ pager'.from = q.asked[i].from
        /\ pager'.size = q.asked[i].size
        /\ pager'.rows = OfSearch!Page(q.asked[i].rows, q.asked[i].size)
        /\ pager'.next = OfSearch!NextEnabled(q.asked[i].rows, q.asked[i].size)
        /\ pager'.urls = q.urls /\ pager'.at = q.at /\ Len(pager'.asked) = Len(q.asked) - 1
    <3>1. PagerOK(q, Hit, Asked) /\ i \in DOMAIN q.asked
      BY <1>5
    <3>2. q.asked[i].rows \in Seq(Hit) /\ pager' = OfSearch!Answered(q, i)
      BY <1>1, <1>7
    <3> QED BY <3>1, <3>2, AnsweredShows
  <2> HIDE DEF r
  <2> QED BY <2>1, <1>5, <1>6
<1>9. pager'.next = (Len(list) > r.from + r.size)
  <2>1. OfSearch!NextEnabled(OfSearch!Read(list, r.from, r.size), r.size) <=> Len(list) > r.from + r.size
    BY <1>3, <1>4, PageRead
  <2>2. pager'.next \in BOOLEAN
    BY <1>8 DEF PagerOK, PagersOf
  <2> QED BY <1>8, <2>1, <2>2
<1>10. OfSearch!RowsOfOne'
  <2> DEFINE from == r.from
             size == r.size
  <2>1. PageOfOne(list, from, size)
    BY <1>3, PageOfSome DEF list
  <2>2. /\ pager'.rows = OfSearch!Page(OfSearch!Read(list, from, size), size)
        /\ pager'.next = (Len(list) > from + size) /\ pager'.size = size
    BY <1>8, <1>9
  <2> HIDE DEF from, size
  <2> QED BY <2>1, <2>2 DEF OfSearch!RowsOfOne, PageOfOne
<1>11. SearchTypesOK'
  BY <1>1, <1>8, SearchFacts DEF SearchTypesOK
<1>12. ASSUME waited' PROVE Waits(pager', search')
  <2>1. Waits(pager, search)
    BY <1>1, <1>12 DEF SearchInv
  <2>2. i = 1 /\ Len(pager.asked) = 1
    <3>1. Len(pager.asked) \in Nat /\ i \in 1 .. Len(pager.asked) /\ Len(pager.asked) <= 1
      BY <1>2, <2>1 DEF Waits
    <3>2. \A m \in Nat : \A k \in 1 .. m : m <= 1 => k = 1 /\ m = 1
      OBVIOUS
    <3> QED BY <3>1, <3>2
  <2>3. pager'.asked = <<>>
    <3>1. pager'.asked \in Seq(AskedOf(Hit, Asked))
      BY <1>8 DEF PagerOK, PagersOf
    <3> QED BY <1>8, <2>2, <3>1
  <2>4. pager.asked # <<>>
    BY <2>2
  <2> DEFINE url == pager.urls[pager.at]
  <2>5. url.params = OfSearch!Params(search) /\ r.params = url.params /\ r.from = url.from /\ r.size = url.size
    BY <2>1, <2>2, <2>4 DEF Waits
  <2>6. list = Hits(OfSearch!Params(search))
    BY <2>5 DEF list
  <2>7. Len(pager'.asked) <= 1
    BY <2>3
  <2> HIDE DEF r
  <2> QED BY <1>1, <1>8, <1>9, <2>1, <2>3, <2>5, <2>6, <2>7 DEF Waits
<1>13. (waited => Waits(pager, search))'
  BY <1>12 DEF Waits, UrlGood
<1> QED BY <1>1, <1>10, <1>11, <1>13, SearchFacts DEF SearchInv

\* What an address is read as is asked for with that address again.
LEMMA ReadFromGood ==
  ASSUME SearchAssumption, NEW url \in UrlsOf(Asked)
  PROVE  /\ OfSearch!ReadFrom(url) \in OfSearch!Found /\ OfSearch!ReadFrom(url).text = url.params.text
         /\ Reads(url.params.text) = url.params.text /\ ~url.params.rest
              => OfSearch!Params(OfSearch!ReadFrom(url)) = url.params
<1> DEFINE s == OfSearch!ReadFrom(url)
           params == url.params
<1>1. params \in Asked
  BY DEF UrlsOf
<1>2. /\ params.text \in Texts /\ params.rest \in BOOLEAN /\ params.type \in SearchTypes \cup {""}
      /\ params = [text |-> params.text, rest |-> params.rest, type |-> params.type]
  BY <1>1, AskedFields
<1>3. s = [text |-> params.text, type |-> IF params.type = "" THEN "unset" ELSE params.type]
  BY DEF OfSearch!ReadFrom
<1> HIDE DEF s, params
<1>4. s \in OfSearch!Found /\ s.text = params.text
  BY <1>2, <1>3 DEF OfSearch!Found
<1>5. OfSearch!TypeSent(s) = params.type
  BY <1>2, <1>3 DEF OfSearch!TypeSent, SearchAssumption
<1>6. ASSUME Reads(params.text) = params.text, ~params.rest PROVE OfSearch!Params(s) = params
  BY <1>2, <1>4, <1>5, <1>6 DEF OfSearch!Params
<1> QED BY <1>4, <1>6 DEF s, params

\* The browser goes back or forward.
LEMMA NavigatingKeeps ==
  ASSUME SearchAssumption, SearchInv, NEW i \in DOMAIN pager.urls, OfSearch!Navigate(i)
  PROVE  SearchInv'
<1> DEFINE url == pager.urls[i]
           s == OfSearch!ReadFrom(url)
           there == [pager EXCEPT !.at = i]
           start == [there EXCEPT !.from = 0]
           params == OfSearch!Params(s)
           told == OfSearch!Triggered(start, params, 0, pager.size)
           now == IF params = OfSearch!Params(search) THEN there ELSE told
           p == IF url.from = pager.from /\ url.size = pager.size THEN now
                ELSE OfSearch!Triggered(now, params, url.from, url.size)
           clean == Reads(url.params.text) = url.params.text /\ ~url.params.rest
<1>1. /\ PagerOK(pager, Hit, Asked) /\ pager \in PagersOf(Hit, Asked) /\ pager.from \in Nat
      /\ pager.size \in Nat \ {0} /\ search \in OfSearch!Found /\ field \in OfSearch!Found /\ ~cut
  BY SearchFacts
<1>2. /\ pager.urls \in Seq(UrlsOf(Asked)) /\ i \in Nat /\ url \in UrlsOf(Asked)
      /\ url.from \in Nat /\ url.size \in Nat \ {0} /\ url.params \in Asked
      /\ url = [params |-> url.params, from |-> url.from, size |-> url.size, written |-> url.written]
  <2>1. pager.urls \in Seq(UrlsOf(Asked)) /\ i \in Nat /\ url \in UrlsOf(Asked)
    BY <1>1 DEF PagersOf
  <2> HIDE DEF url
  <2> QED BY <2>1 DEF UrlsOf
<1>3. /\ s \in OfSearch!Found /\ s.text = url.params.text /\ params \in Asked
      /\ clean => params = url.params
  <2> HIDE DEF url
  <2>1. s \in OfSearch!Found /\ s.text = url.params.text /\ (clean => params = url.params)
    BY <1>2, ReadFromGood
  <2> QED BY <2>1, ParamsAsked
<1>4. /\ OfSearch!Becomes(p, s) /\ search' = s
      /\ field' = IF s = search THEN field
                  ELSE [text |-> IF s.text = search.text THEN field.text ELSE s.text,
                        type |-> IF s.type = search.type THEN field.type ELSE OfSearch!TypeSent(s)]
      /\ cut' = (cut \/ (/\ p.urls # pager.urls /\ url.written = "pager" /\ clean
                         /\ params = OfSearch!Params(search) \/ (url.from = 0 /\ url.size = pager.size)))
  <2>1. there.size = pager.size
    BY <1>1 DEF PagersOf
  <2>2. now = OfSearch!Told(there, s)
    BY <2>1 DEF OfSearch!Told, OfSearch!ParamsChanged
  <2>3. p = OfSearch!Navigated(pager, now, url, params)
    BY DEF OfSearch!Navigated
  <2>4. /\ OfSearch!Becomes(OfSearch!Navigated(pager, OfSearch!Told(there, s), url, params), s)
        /\ search' = s
        /\ field' = IF s = search THEN field
                    ELSE [text |-> IF s.text = search.text THEN field.text ELSE s.text,
                          type |-> IF s.type = search.type THEN field.type ELSE OfSearch!TypeSent(s)]
        /\ cut' = (cut \/ (/\ OfSearch!Navigated(pager, OfSearch!Told(there, s), url, params).urls # pager.urls
                           /\ url.written = "pager" /\ clean
                           /\ params = OfSearch!Params(search) \/ (url.from = 0 /\ url.size = pager.size)))
    BY DEF OfSearch!Navigate
  <2> HIDE DEF p, now
  <2> QED BY <2>2, <2>3, <2>4
<1>5. field' \in OfSearch!Found
  BY <1>1, <1>3, <1>4 DEF OfSearch!Found, OfSearch!TypeSent
<1>6. /\ PagerOK(there, Hit, Asked) /\ there.urls = pager.urls /\ there.asked = pager.asked
      /\ there.rows = pager.rows /\ there.next = pager.next /\ there.size = pager.size
      /\ there.from = pager.from /\ there.at = i /\ there.urls[there.at] = url
  <2>1. /\ there \in PagersOf(Hit, Asked) /\ there.urls = pager.urls /\ there.asked = pager.asked
        /\ there.rows = pager.rows /\ there.next = pager.next /\ there.size = pager.size
        /\ there.from = pager.from /\ there.at = i
    BY <1>1, <1>2 DEF PagersOf
  <2>2. i \in 1 .. Len(pager.urls)
    BY <1>2
  <2> HIDE DEF there
  <2> QED BY <2>1, <2>2 DEF PagerOK
<1> HIDE DEF there
<1>7. /\ PagerOK(start, Hit, Asked) /\ start.urls = pager.urls /\ start.asked = pager.asked
      /\ start.rows = pager.rows /\ start.next = pager.next /\ start.size = pager.size
      /\ start.at = i /\ start.urls[start.at] = url
  <2>1. /\ PagerOK(start, Hit, Asked) /\ start.urls = there.urls /\ start.asked = there.asked
        /\ start.rows = there.rows /\ start.next = there.next /\ start.size = there.size
        /\ start.at = there.at
    BY <1>6, FromStart
  <2> QED BY <1>6, <2>1
<1> HIDE DEF start
<1>8. /\ PagerOK(told, Hit, Asked) /\ told.size = pager.size /\ told.rows = pager.rows
      /\ told.next = pager.next /\ Len(told.asked) = Len(pager.asked) + 1
      /\ told.urls[told.at] = OfSearch!Url(params, 0, pager.size, "pager")
      /\ OfSearch!Url(params, 0, pager.size, "pager") = url => told.urls = pager.urls
  <2> HIDE DEF params, url
  <2>1. params \in Asked /\ 0 \in Nat /\ pager.size \in Nat \ {0}
    BY <1>1, <1>3
  <2>2. /\ PagerOK(told, Hit, Asked) /\ told.size = start.size /\ told.rows = start.rows
        /\ told.next = start.next /\ Len(told.asked) = Len(start.asked) + 1
        /\ told.urls[told.at] = OfSearch!Url(params, 0, pager.size, "pager")
        /\ OfSearch!Url(params, 0, pager.size, "pager") = start.urls[start.at] => told.urls = start.urls
    BY <1>7, <2>1, SearchAsks
  <2> QED BY <1>7, <2>2
<1>9. clean /\ url.written = "pager" => url = OfSearch!Url(params, url.from, url.size, "pager")
  <2> HIDE DEF params, url, clean
  <2> QED BY <1>2, <1>3 DEF OfSearch!Url
<1>10. ASSUME waited, pager.asked = <<>>
       PROVE  clean /\ (url.from = 0 \/ url.from < Len(Hits(params)))
  <2>1. UrlGood(url)
    BY <1>10 DEF SearchInv, Waits
  <2> QED BY <1>3, <2>1 DEF UrlGood
<1>11. ASSUME p.urls = pager.urls \/ ~clean \/ url.written # "pager"
                \/ (params # OfSearch!Params(search) /\ ~(url.from = 0 /\ url.size = pager.size))
       PROVE  ~cut'
  BY <1>1, <1>4, <1>11
<1> HIDE DEF told
<1>12. CASE params = OfSearch!Params(search) /\ url.from = pager.from /\ url.size = pager.size
  <2>1. p = there
    BY <1>12
  <2>2. ~cut'
    <3>1. p.urls = pager.urls
      BY <1>6, <2>1
    <3> QED BY <1>11, <3>1
  <2> HIDE DEF p, now, s, params, url, clean
  <2>3. ASSUME waited' PROVE Waits(there, s)
    <3>1. waited /\ pager.asked = <<>> /\ Reads(s.text) = s.text
      BY <1>4, <2>3 DEF OfSearch!Becomes
    <3>2. Waits(pager, search) /\ url.params = params
      BY <1>3, <1>10, <3>1 DEF SearchInv
    <3>3. params = OfSearch!Params(s)
      BY DEF params
    <3> QED BY <1>6, <1>12, <3>1, <3>2, <3>3 DEF Waits
  <2>4. OfSearch!Becomes(there, s) /\ s \in OfSearch!Found /\ search' = s
    BY <1>3, <1>4, <2>1
  <2> QED BY <1>5, <1>6, <2>2, <2>3, <2>4, SearchMoves
<1>13. CASE params = OfSearch!Params(search) /\ ~(url.from = pager.from /\ url.size = pager.size)
  <2>1. p = OfSearch!Triggered(there, params, url.from, url.size)
    BY <1>13
  <2> HIDE DEF params, url, clean, p, now
  <2>2. OfSearch!Url(params, url.from, url.size, "pager") = there.urls[there.at] => p.urls = there.urls
    <3> DEFINE from == url.from
               size == url.size
    <3>1. /\ from \in Nat /\ size \in Nat \ {0} /\ params \in Asked /\ PagerOK(there, Hit, Asked)
          /\ p = OfSearch!Triggered(there, params, from, size)
      BY <1>2, <1>3, <1>6, <2>1
    <3> HIDE DEF from, size
    <3>2. OfSearch!Url(params, from, size, "pager") = there.urls[there.at] => p.urls = there.urls
      BY <3>1, SearchAsks
    <3> QED BY <3>2 DEF from, size
  <2>3. ~cut'
    BY <1>6, <1>9, <1>11, <2>2
  <2>4. OfSearch!Becomes(OfSearch!Triggered(there, OfSearch!Params(s), url.from, url.size), s)
    BY <1>4, <2>1 DEF params
  <2>5. waited /\ pager.asked = <<>> => url.from = 0 \/ url.from < Len(Hits(OfSearch!Params(s)))
    BY <1>10 DEF params
  <2> HIDE DEF s
  <2> QED BY <1>2, <1>3, <1>4, <1>5, <1>6, <2>3, <2>4, <2>5, AskingKeeps
<1>14. CASE params # OfSearch!Params(search) /\ url.from = pager.from /\ url.size = pager.size
  <2>1. p = told
    BY <1>14
  <2> HIDE DEF params, url, clean, p, now
  <2>2. ~cut'
    BY <1>8, <1>9, <1>11, <1>14, <2>1
  <2>3. OfSearch!Becomes(OfSearch!Triggered(start, OfSearch!Params(s), 0, pager.size), s)
    BY <1>4, <2>1 DEF params, told
  <2>4. 0 \in Nat
    OBVIOUS
  <2> HIDE DEF s
  <2> QED BY <1>1, <1>3, <1>4, <1>5, <1>7, <2>2, <2>3, <2>4, AskingKeeps
<1>15. CASE params # OfSearch!Params(search) /\ ~(url.from = pager.from /\ url.size = pager.size)
  <2>1. p = OfSearch!Triggered(told, params, url.from, url.size)
    BY <1>15
  <2> HIDE DEF params, url, clean, p, now
  <2>2. /\ PagerOK(p, Hit, Asked) /\ p.size = told.size /\ p.rows = told.rows /\ p.next = told.next
        /\ Len(p.asked) = Len(told.asked) + 1
        /\ OfSearch!Url(params, url.from, url.size, "pager") = told.urls[told.at] => p.urls = told.urls
    <3> DEFINE from == url.from
               size == url.size
    <3>1. /\ from \in Nat /\ size \in Nat \ {0} /\ params \in Asked /\ PagerOK(told, Hit, Asked)
          /\ p = OfSearch!Triggered(told, params, from, size)
      BY <1>2, <1>3, <1>8, <2>1
    <3> HIDE DEF from, size
    <3>2. /\ PagerOK(p, Hit, Asked) /\ p.size = told.size /\ p.rows = told.rows
          /\ p.next = told.next /\ Len(p.asked) = Len(told.asked) + 1
          /\ OfSearch!Url(params, from, size, "pager") = told.urls[told.at] => p.urls = told.urls
      BY <3>1, SearchAsks
    <3> QED BY <3>2 DEF from, size
  <2>3. ~cut'
    BY <1>8, <1>9, <1>11, <1>15, <2>2
  <2>4. ~waited'
    <3> SUFFICES ASSUME waited' PROVE FALSE
      OBVIOUS
    <3>1. Len(p.asked) <= 1 /\ pager.asked = <<>>
      BY <1>4 DEF OfSearch!Becomes
    <3>2. Len(p.asked) = 2
      BY <1>8, <2>2, <3>1
    <3> QED BY <3>1, <3>2
  <2>5. /\ PagerOK(p, Hit, Asked) /\ p.size = pager.size /\ p.rows = pager.rows /\ p.next = pager.next
    BY <1>8, <2>2
  <2> HIDE DEF s
  <2> QED BY <1>3, <1>4, <1>5, <2>3, <2>4, <2>5, SearchMoves
<1> HIDE DEF params, url, p, now, s, clean
<1> QED BY <1>12, <1>13, <1>14, <1>15

LEMMA SearchKeeps ==
  ASSUME SearchAssumption, SearchInv, [OfSearch!Next]_(OfSearch!searchVars)
  PROVE  SearchInv'
<1>1. CASE UNCHANGED OfSearch!searchVars
  BY <1>1 DEF OfSearch!searchVars, SearchInv, SearchTypesOK, OfSearch!RowsOfOne, Waits, UrlGood
<1>2. CASE \/ \E text \in Texts : OfSearch!TypeText(text)
           \/ \E t \in SearchTypes : OfSearch!SelectType(t)
           \/ OfSearch!Submit \/ OfSearch!FieldSearches
  BY <1>2, FieldKeeps DEF OfSearch!Submit, OfSearch!FieldSearches
<1>3. CASE OfSearch!TurnBack \/ OfSearch!TurnOn \/ \E size \in Sizes : OfSearch!Resize(size)
  BY <1>3, TurningKeeps
<1>4. CASE \E i \in DOMAIN pager.asked : OfSearch!Answer(i)
  BY <1>4, ResultsShown
<1>5. CASE \E i \in DOMAIN pager.urls : OfSearch!Navigate(i)
  BY <1>5, NavigatingKeeps
<1> QED BY <1>1, <1>2, <1>3, <1>4, <1>5 DEF OfSearch!Next

----------------------------------------------------------------------------
(* The modal that adds to collections.                                     *)

BatchType ==
  [into : SUBSET OfAdding!All, on : SUBSET Results, kind : KindsFound, new : BOOLEAN,
   done : SUBSET OfAdding!All, failed : SUBSET OfAdding!All, made : BOOLEAN,
   told : {"none", "ok", "error"}]

AddingTypes ==
  /\ ticked \in Seq(Results) /\ asks \in Seq(KindsFound)
  /\ shown \in BOOLEAN /\ creating \in BOOLEAN /\ inOrder \in BOOLEAN
  /\ available \subseteq OfAdding!All /\ chosen \subseteq OfAdding!All
  /\ held \in [OfAdding!All -> SUBSET Results]
  /\ type \in [New -> KindsFound \cup {"none"}]
  /\ batches \in Seq(BatchType)

\* A collection that there is: an old one, or one that was made.
Exists(c) == OfAdding!TypeOf(c) # "none"

\* The last list that was asked for is of the type of what is ticked.
AsksLast ==
  inOrder =>
    IF ticked = <<>> THEN available = {}
    ELSE IF asks # <<>> THEN asks[Len(asks)] = Kind(ticked[1])
    ELSE /\ \A c \in available : OfAdding!TypeOf(c) = Kind(ticked[1])
         /\ \A c \in Old : KindOf(c) = Kind(ticked[1]) => c \in available

ShownOfOne ==
  shown => /\ ticked # <<>> /\ Kind(ticked[1]) \in EntityKinds
           /\ \A x \in OfAdding!ToSet(ticked) : Kind(x) = Kind(ticked[1])

\* A batch b, with what the collections hold and the types of the new ones.
BatchHolds(b, its, ty) ==
  /\ b.told = "ok" => b.done = b.into
  /\ b.told = "error" => b.failed # {} \/ (b.new /\ ~b.made)
  /\ \A c \in b.done : b.on \subseteq its[c]
  /\ b.on # {} /\ \A x \in b.on : Kind(x) = b.kind
  /\ b.new => \E c \in New : b.into = {c} /\ (b.made <=> ty[c] # "none")
  /\ ~b.new => \A c \in b.into \cap New : ty[c] # "none"

\* Each new collection is of one batch.
MadeOnce ==
  \A i, j \in DOMAIN batches :
    batches[i].new /\ batches[j].new /\ batches[i].into = batches[j].into => i = j

MadeByBatch ==
  \A c \in New : type[c] # "none" =>
    \E i \in DOMAIN batches : batches[i].new /\ batches[i].into = {c}

ItemsOfType == \A c \in OfAdding!All : \A x \in held[c] : Kind(x) = OfAdding!TypeOf(c)

AddingInv ==
  /\ AddingTypes /\ AsksLast /\ ShownOfOne
  /\ \A c \in available \cup chosen : Exists(c)
  /\ \A i \in DOMAIN batches : BatchHolds(batches[i], held, type)
  /\ MadeOnce /\ MadeByBatch /\ ItemsOfType

LEMMA AddingInvHolds ==
  ASSUME AddingAssumption, AddingInv
  PROVE  OfAdding!AddingHolds
<1>1. OfAdding!AddedAsTold
  BY DEF OfAdding!AddedAsTold, AddingInv, BatchHolds, ItemsOfType, AddingTypes
<1>2. OfAdding!ListedForType
  <2>1. \A x \in OfAdding!ToSet(ticked) : x \in Results
    BY DEF AddingInv, AddingTypes, OfAdding!ToSet
  <2>2. OfAdding!First(ticked) = IF ticked = <<>> THEN "none" ELSE Kind(ticked[1])
    BY DEF OfAdding!First, OfAdding!No
  <2>3. ASSUME shown PROVE \A x \in OfAdding!ToSet(ticked) :
                              Kind(x) = OfAdding!First(ticked) /\ Kind(x) \in EntityKinds
    BY <2>2, <2>3 DEF AddingInv, ShownOfOne
  <2>4. ASSUME inOrder, asks = <<>>, ticked = <<>>
        PROVE  /\ \A c \in available : OfAdding!TypeOf(c) = OfAdding!First(ticked)
               /\ OfAdding!ListOf(OfAdding!First(ticked)) \cap Old \subseteq available
    BY <2>2, <2>4 DEF AddingInv, AsksLast, AddingAssumption, OfAdding!ListOf, OfAdding!TypeOf
  <2>5. ASSUME inOrder, asks = <<>>, ticked # <<>>
        PROVE  /\ \A c \in available : OfAdding!TypeOf(c) = OfAdding!First(ticked)
               /\ OfAdding!ListOf(OfAdding!First(ticked)) \cap Old \subseteq available
    BY <2>2, <2>5 DEF AddingInv, AsksLast, OfAdding!ListOf, OfAdding!TypeOf
  <2> QED BY <2>3, <2>4, <2>5 DEF OfAdding!ListedForType
<1>3. OfAdding!NewIsFilled
  <2> SUFFICES ASSUME NEW c \in New, type[c] # "none", held[c] = {}
               PROVE  \E i \in DOMAIN batches : c \in batches[i].into /\ batches[i].told # "ok"
    BY DEF OfAdding!NewIsFilled, OfAdding!No
  <2>1. PICK i \in DOMAIN batches : batches[i].new /\ batches[i].into = {c}
    BY DEF AddingInv, MadeByBatch
  <2>2. BatchHolds(batches[i], held, type)
    BY DEF AddingInv
  <2>3. batches[i].told # "ok"
    BY <2>1, <2>2 DEF BatchHolds
  <2> QED BY <2>1, <2>3
<1> QED BY <1>1, <1>2, <1>3 DEF OfAdding!AddingHolds

LEMMA AddingInit ==
  ASSUME OfAdding!Init, AddingAssumption
  PROVE  AddingInv
<1>1. AddingTypes
  <2>1. <<>> \in Seq(Results) /\ <<>> \in Seq(KindsFound) /\ <<>> \in Seq(BatchType)
    OBVIOUS
  <2>2. held \in [OfAdding!All -> SUBSET Results] /\ type \in [New -> KindsFound \cup {"none"}]
    BY DEF OfAdding!Init, OfAdding!No
  <2> QED BY <2>1, <2>2 DEF AddingTypes, OfAdding!Init
<1> QED BY <1>1 DEF AddingInv, OfAdding!Init, OfAdding!No, AsksLast, ShownOfOne, MadeOnce,
                     MadeByBatch, ItemsOfType

\* What is ticked changes while the modal is closed.
LEMMA TicksKeep ==
  ASSUME AddingAssumption, AddingInv, ~shown,
         NEW rows_ \in Seq(Results), OfAdding!Ticks(rows_)
  PROVE  AddingInv'
<1> DEFINE first(s) == IF s = <<>> THEN "none" ELSE Kind(s[1])
<1>1. UNCHANGED <<shown, creating, chosen, held, type, batches, inOrder>> /\ ticked' = rows_
  BY DEF OfAdding!Ticks
<1>2. \A s : OfAdding!First(s) = first(s)
  BY DEF OfAdding!First, OfAdding!No
<1>3. \A s \in Seq(Results) : s # <<>> => first(s) \in KindsFound
  <2> TAKE s \in Seq(Results)
  <2> HAVE s # <<>>
  <2>1. s[1] \in Results
    OBVIOUS
  <2> QED BY <2>1 DEF KindsFound
<1> HIDE DEF first
<1>4. AddingTypes' /\ \A c \in available' : c \in available
  <2>1. asks' \in Seq(KindsFound) /\ available' \subseteq available
    <3>1. asks \in Seq(KindsFound)
      BY DEF AddingInv, AddingTypes
    <3>2. CASE first(rows_) = first(ticked)
      BY <3>1, <3>2, <1>2 DEF OfAdding!Ticks
    <3>3. CASE first(rows_) # first(ticked) /\ rows_ = <<>>
      BY <3>1, <3>3, <1>2 DEF OfAdding!Ticks
    <3>4. CASE first(rows_) # first(ticked) /\ rows_ # <<>>
      <4>1. asks' = Append(asks, first(rows_)) /\ available' = available
        BY <3>4, <1>2 DEF OfAdding!Ticks
      <4> QED BY <4>1, <3>1, <3>4, <1>3
    <3> QED BY <3>2, <3>3, <3>4
  <2> QED BY <2>1, <1>1 DEF AddingInv, AddingTypes
<1>5. AsksLast'
  <2>1. first(<<>>) = "none" /\ \A s : s # <<>> => first(s) = Kind(s[1])
    BY DEF first
  <2>2. \A s \in Seq(Results) : first(s) = "none" => s = <<>>
    BY <1>3 DEF AddingAssumption
  <2>3. CASE first(rows_) = first(ticked)
    <3>1. asks' = asks /\ available' = available
      BY <1>2, <2>3 DEF OfAdding!Ticks
    <3>2. rows_ = <<>> <=> ticked = <<>>
      BY <2>1, <2>2, <2>3 DEF AddingInv, AddingTypes
    <3>3. rows_ # <<>> => Kind(rows_[1]) = Kind(ticked[1])
      BY <2>1, <2>3, <3>2
    <3> QED BY <3>1, <3>2, <3>3, <1>1 DEF AddingInv, AsksLast, OfAdding!TypeOf
  <2>4. CASE first(rows_) # first(ticked) /\ rows_ = <<>>
    BY <1>1, <1>2, <2>4 DEF OfAdding!Ticks, AsksLast
  <2>5. CASE first(rows_) # first(ticked) /\ rows_ # <<>>
    <3>1. asks' = Append(asks, Kind(rows_[1]))
      BY <1>2, <2>1, <2>5 DEF OfAdding!Ticks
    <3>2. asks' # <<>> /\ asks'[Len(asks')] = Kind(rows_[1])
      BY <3>1, <2>1, <2>5, <1>3 DEF AddingInv, AddingTypes
    <3> QED BY <3>2, <2>5, <1>1 DEF AsksLast
  <2> QED BY <2>3, <2>4, <2>5
<1>6. ShownOfOne'
  BY <1>1 DEF ShownOfOne
<1>7. /\ \A c \in available' \cup chosen' : Exists(c)'
      /\ \A i \in DOMAIN batches' : BatchHolds(batches'[i], held', type')
  BY <1>1, <1>4 DEF AddingInv, Exists, OfAdding!TypeOf
<1>8. MadeOnce' /\ MadeByBatch' /\ ItemsOfType'
  BY <1>1 DEF AddingInv, MadeOnce, MadeByBatch, ItemsOfType, OfAdding!TypeOf, OfAdding!All
<1> QED BY <1>4, <1>5, <1>6, <1>7, <1>8 DEF AddingInv

LEMMA TogglingKeeps ==
  ASSUME AddingAssumption, AddingInv, OfAdding!ClearSelected \/ \E x \in Results : OfAdding!Toggle(x)
  PROVE  AddingInv'
<1>1. CASE OfAdding!ClearSelected
  <2>1. <<>> \in Seq(Results)
    OBVIOUS
  <2> QED BY <1>1, <2>1, TicksKeep DEF OfAdding!ClearSelected
<1>2. ASSUME NEW r \in Results, OfAdding!Toggle(r) PROVE AddingInv'
  <2>1. ticked \in Seq(Results)
    BY DEF AddingInv, AddingTypes
  <2>2. Append(ticked, r) \in Seq(Results)
    BY <2>1
  <2>3. ASSUME r \in OfAdding!ToSet(ticked) PROVE OfAdding!Unticked(r) \in Seq(Results)
    <3>1. \E i \in DOMAIN ticked : ticked[i] = r
      BY <2>3 DEF OfAdding!ToSet
    <3>2. (CHOOSE i \in DOMAIN ticked : ticked[i] = r) \in DOMAIN ticked
      BY <3>1
    <3> QED BY <2>1, <3>2, RemovedAt DEF OfAdding!Unticked, OfAdding!RemoveAt
  <2>4. CASE r \in OfAdding!ToSet(ticked)
    BY <1>2, <2>3, <2>4, TicksKeep DEF OfAdding!Toggle
  <2>5. CASE r \notin OfAdding!ToSet(ticked)
    BY <1>2, <2>2, <2>5, TicksKeep DEF OfAdding!Toggle
  <2> QED BY <2>4, <2>5
<1> QED BY <1>1, <1>2

\* The collections of the last type that was asked for.
LEMMA ReceivingKeeps ==
  ASSUME AddingAssumption, AddingInv, NEW i \in DOMAIN asks, OfAdding!ReceiveCollections(i)
  PROVE  AddingInv'
<1>1. /\ UNCHANGED <<ticked, shown, creating, chosen, held, type, batches>>
      /\ available' = OfAdding!ListOf(asks[i]) /\ asks' = OfAdding!RemoveAt(asks, i)
      /\ inOrder' = (inOrder /\ i = 1 /\ ticked # <<>>)
  BY DEF OfAdding!ReceiveCollections, OfAdding!Received
<1>2. asks \in Seq(KindsFound) /\ asks[i] \in KindsFound
  BY DEF AddingInv, AddingTypes
<1>3. asks' \in Seq(KindsFound) /\ Len(asks') = Len(asks) - 1
  BY <1>1, <1>2, RemovedAt DEF OfAdding!RemoveAt
<1>4. AddingTypes' /\ \A c \in available' : Exists(c)'
  <2>1. available' \subseteq OfAdding!All /\ \A c \in available' : OfAdding!TypeOf(c) = asks[i]
    BY <1>1 DEF OfAdding!ListOf
  <2>2. AddingTypes'
    BY <1>1, <1>3, <2>1 DEF AddingInv, AddingTypes
  <2> QED BY <1>1, <1>2, <2>1, <2>2 DEF Exists, OfAdding!TypeOf, AddingAssumption
<1>5. AsksLast'
  <2> SUFFICES ASSUME inOrder', ticked # <<>> PROVE
        IF asks' # <<>> THEN asks'[Len(asks')] = Kind(ticked[1])
        ELSE /\ \A c \in available' : OfAdding!TypeOf(c)' = Kind(ticked[1])
             /\ \A c \in Old : KindOf(c) = Kind(ticked[1]) => c \in available'
    BY <1>1 DEF AsksLast
  <2>1. inOrder /\ i = 1 /\ asks # <<>> /\ asks[Len(asks)] = Kind(ticked[1])
    <3>1. inOrder /\ i = 1
      BY <1>1
    <3>2. asks # <<>>
      BY <1>2
    <3> QED BY <3>1, <3>2 DEF AddingInv, AsksLast
  <2>2. CASE Len(asks) = 1
    <3>1. asks' = <<>>
      BY <1>3, <2>2
    <3>2. available' = OfAdding!ListOf(Kind(ticked[1]))
      BY <1>1, <2>1, <2>2
    <3> QED BY <3>1, <3>2, <1>1 DEF OfAdding!ListOf, OfAdding!TypeOf, OfAdding!All
  <2>3. CASE Len(asks) # 1
    <3>1. Len(asks) \in Nat /\ Len(asks) > 1
      <4>1. 1 \in 1 .. Len(asks) /\ Len(asks) \in Nat
        BY <1>2, <2>1
      <4> QED BY <4>1, <2>3
    <3>2. asks'[Len(asks) - 1] = asks[Len(asks)]
      BY <1>1, <1>2, <2>1, <3>1, RemovedAt DEF OfAdding!RemoveAt
    <3>3. asks' # <<>>
      BY <1>3, <3>1
    <3> QED BY <1>3, <2>1, <3>2, <3>3
  <2> QED BY <2>2, <2>3
<1>6. ShownOfOne' /\ \A c \in chosen' : Exists(c)'
  BY <1>1 DEF AddingInv, ShownOfOne, Exists, OfAdding!TypeOf
<1>7. /\ \A j \in DOMAIN batches' : BatchHolds(batches'[j], held', type')
      /\ MadeOnce' /\ MadeByBatch' /\ ItemsOfType'
  BY <1>1 DEF AddingInv, MadeOnce, MadeByBatch, ItemsOfType, OfAdding!TypeOf, OfAdding!All
<1> QED BY <1>4, <1>5, <1>6, <1>7 DEF AddingInv

\* Opening and closing, and what is chosen.
LEMMA ChoosingKeeps ==
  ASSUME AddingAssumption, AddingInv,
         \/ OfAdding!Open \/ OfAdding!Close
         \/ \E new \in BOOLEAN : OfAdding!ShowCreate(new)
         \/ \E c \in OfAdding!All : OfAdding!Choose(c)
  PROVE  AddingInv'
<1>1. UNCHANGED <<ticked, available, asks, held, type, batches, inOrder>>
  BY DEF OfAdding!Open, OfAdding!Close, OfAdding!ShowCreate, OfAdding!Choose
<1>2. /\ shown' \in BOOLEAN /\ creating' \in BOOLEAN
      /\ chosen' \subseteq chosen \cup available
      /\ shown' => shown \/ OfAdding!MayOpen
  BY DEF AddingInv, AddingTypes, OfAdding!Open, OfAdding!Close, OfAdding!ShowCreate, OfAdding!Choose
<1>3. AddingTypes' /\ AsksLast'
  BY <1>1, <1>2 DEF AddingInv, AddingTypes, AsksLast, OfAdding!TypeOf
<1>4. ShownOfOne'
  BY <1>1, <1>2 DEF AddingInv, ShownOfOne, OfAdding!MayOpen, OfAdding!First
<1>5. \A c \in available' \cup chosen' : Exists(c)'
  BY <1>1, <1>2 DEF AddingInv, Exists, OfAdding!TypeOf
<1>6. /\ \A j \in DOMAIN batches' : BatchHolds(batches'[j], held', type')
      /\ MadeOnce' /\ MadeByBatch' /\ ItemsOfType'
  BY <1>1 DEF AddingInv, MadeOnce, MadeByBatch, ItemsOfType, OfAdding!TypeOf, OfAdding!All
<1> QED BY <1>3, <1>4, <1>5, <1>6 DEF AddingInv

\* A batch of what is ticked, into collections that there are or into a new one.
LEMMA SubmittingKeeps ==
  ASSUME AddingAssumption, AddingInv, OfAdding!AddToChosen \/ OfAdding!AddToNew
  PROVE  AddingInv'
<1>1. PICK into \in SUBSET OfAdding!All, new \in BOOLEAN :
        /\ OfAdding!Submit(OfAdding!Batch(into, new))
        /\ ~new => into = chosen
        /\ new => \E c \in New : /\ into = {c} /\ type[c] = "none"
                               /\ \A i \in DOMAIN batches : c \notin batches[i].into
  <2>1. CASE OfAdding!AddToChosen
    BY <2>1 DEF OfAdding!AddToChosen, AddingInv, AddingTypes
  <2>2. CASE OfAdding!AddToNew
    <3>1. PICK c \in New : /\ type[c] = "none" /\ \A i \in DOMAIN batches : c \notin batches[i].into
                           /\ OfAdding!Submit(OfAdding!Batch({c}, TRUE))
      BY <2>2 DEF OfAdding!AddToNew, OfAdding!No
    <3>2. {c} \in SUBSET OfAdding!All
      BY DEF OfAdding!All
    <3> QED BY <3>1, <3>2
  <2> QED BY <2>1, <2>2
<1> DEFINE b == OfAdding!Batch(into, new)
<1>2. /\ shown /\ batches' = Append(batches, b)
      /\ UNCHANGED <<ticked, shown, creating, available, asks, chosen, held, type, inOrder>>
  BY <1>1 DEF OfAdding!Submit
<1>3. /\ b.into = into /\ b.new = new /\ b.done = {} /\ b.failed = {} /\ b.made = FALSE
      /\ b.told = "none" /\ b.on = OfAdding!ToSet(ticked) /\ b.kind = OfAdding!First(ticked)
  BY DEF OfAdding!Batch, OfAdding!No
<1>4. /\ ticked \in Seq(Results) /\ ticked # <<>>
      /\ OfAdding!First(ticked) = Kind(ticked[1]) /\ ticked[1] \in OfAdding!ToSet(ticked)
      /\ OfAdding!ToSet(ticked) \subseteq Results /\ Kind(ticked[1]) \in KindsFound
  <2>1. ticked \in Seq(Results) /\ ticked # <<>>
    BY <1>2 DEF AddingInv, AddingTypes, ShownOfOne
  <2>2. 1 \in DOMAIN ticked /\ ticked[1] \in Results
    BY <2>1
  <2> QED BY <2>1, <2>2 DEF OfAdding!First, OfAdding!ToSet, KindsFound
<1>5. b \in BatchType
  BY <1>4 DEF OfAdding!Batch, OfAdding!No, BatchType
<1>6. BatchHolds(b, held, type)
  <2>1. b.on # {} /\ \A x \in b.on : Kind(x) = b.kind
    BY <1>2, <1>3, <1>4 DEF AddingInv, ShownOfOne
  <2>2. new => \E c \in New : into = {c} /\ type[c] = "none"
    BY <1>1
  <2>3. ~new => \A c \in into \cap New : type[c] # "none"
    BY <1>1 DEF AddingInv, Exists, OfAdding!TypeOf, AddingAssumption
  <2> HIDE DEF b
  <2> QED BY <1>3, <2>1, <2>2, <2>3 DEF BatchHolds
<1> HIDE DEF b
<1>7. batches \in Seq(BatchType)
  BY DEF AddingInv, AddingTypes
<1>8. /\ batches' \in Seq(BatchType) /\ Len(batches) \in Nat
      /\ DOMAIN batches = 1 .. Len(batches) /\ DOMAIN batches' = 1 .. Len(batches) + 1
      /\ \A i \in DOMAIN batches : batches'[i] = batches[i]
      /\ batches'[Len(batches) + 1] = b
  BY <1>2, <1>5, <1>7
<1>9. \A i \in DOMAIN batches' : i \in DOMAIN batches \/ i = Len(batches) + 1
  BY <1>8
<1>10. AddingTypes' /\ AsksLast' /\ ShownOfOne'
  BY <1>2, <1>8 DEF AddingInv, AddingTypes, AsksLast, ShownOfOne, OfAdding!TypeOf
<1>11. \A i \in DOMAIN batches' : BatchHolds(batches'[i], held', type')
  BY <1>2, <1>6, <1>8, <1>9 DEF AddingInv
<1>12. MadeOnce'
  <2> SUFFICES ASSUME NEW i \in DOMAIN batches', NEW j \in DOMAIN batches',
                      batches'[i].new, batches'[j].new, batches'[i].into = batches'[j].into
               PROVE  i = j
    BY DEF MadeOnce
  <2>1. ASSUME NEW k \in DOMAIN batches, b.new PROVE batches[k].into # b.into
    BY <1>1, <1>3, <2>1
  <2> QED BY <1>8, <1>9, <2>1 DEF AddingInv, MadeOnce
<1>13. MadeByBatch'
  <2> SUFFICES ASSUME NEW c \in New, type[c] # "none"
               PROVE  \E i \in DOMAIN batches' : batches'[i].new /\ batches'[i].into = {c}
    BY <1>2 DEF MadeByBatch
  <2>1. PICK i \in DOMAIN batches : batches[i].new /\ batches[i].into = {c}
    BY DEF AddingInv, MadeByBatch
  <2>2. i \in DOMAIN batches' /\ batches'[i] = batches[i]
    BY <1>8
  <2> QED BY <2>1, <2>2
<1>14. ItemsOfType' /\ \A c \in available' \cup chosen' : Exists(c)'
  BY <1>2 DEF AddingInv, ItemsOfType, Exists, OfAdding!TypeOf, OfAdding!All
<1> QED BY <1>10, <1>11, <1>12, <1>13, <1>14 DEF AddingInv

----------------------------------------------------------------------------
(* Answers.                                                                *)

\* One batch goes on.
LEMMA BatchMoves ==
  ASSUME AddingInv, NEW i \in DOMAIN batches, NEW b \in BatchType,
         b.into = batches[i].into, b.new = batches[i].new,
         batches' = [batches EXCEPT ![i] = b]
  PROVE  /\ batches' \in Seq(BatchType) /\ DOMAIN batches' = DOMAIN batches
         /\ batches'[i] = b /\ \A j \in DOMAIN batches : j # i => batches'[j] = batches[j]
         /\ MadeOnce'
         /\ \A c \in New : (\E j \in DOMAIN batches : batches[j].new /\ batches[j].into = {c})
              => \E j \in DOMAIN batches' : batches'[j].new /\ batches'[j].into = {c}
<1>1. batches \in Seq(BatchType)
  BY DEF AddingInv, AddingTypes
<1>2. /\ batches' \in Seq(BatchType) /\ DOMAIN batches' = DOMAIN batches
      /\ batches'[i] = b /\ \A j \in DOMAIN batches : j # i => batches'[j] = batches[j]
  BY <1>1
<1>3. \A j \in DOMAIN batches : batches'[j].new = batches[j].new /\ batches'[j].into = batches[j].into
  BY <1>2
<1> QED BY <1>2, <1>3 DEF AddingInv, MadeOnce

LEMMA CreatingKeeps ==
  ASSUME AddingAssumption, AddingInv, NEW i \in DOMAIN batches, OfAdding!Create(i)
  PROVE  AddingInv'
<1> DEFINE b == [batches[i] EXCEPT !.made = TRUE]
<1>1. /\ batches[i].new /\ ~batches[i].made /\ batches[i].told = "none"
      /\ batches' = [batches EXCEPT ![i] = b]
      /\ type' = [c \in New |-> IF c \in batches[i].into THEN batches[i].kind ELSE type[c]]
      /\ UNCHANGED <<ticked, shown, creating, available, asks, chosen, held, inOrder>>
  BY DEF OfAdding!Create, OfAdding!No
<1>2. batches[i] \in BatchType
  BY DEF AddingInv, AddingTypes
<1>3. /\ b \in BatchType /\ b.into = batches[i].into /\ b.new = batches[i].new /\ b.made
      /\ b.told = batches[i].told /\ b.failed = batches[i].failed /\ b.done = batches[i].done
      /\ b.on = batches[i].on /\ b.kind = batches[i].kind
  BY <1>2 DEF BatchType
<1> HIDE DEF b
<1>4. /\ batches' \in Seq(BatchType) /\ DOMAIN batches' = DOMAIN batches
      /\ batches'[i] = b /\ \A j \in DOMAIN batches : j # i => batches'[j] = batches[j]
      /\ MadeOnce'
      /\ \A c \in New : (\E j \in DOMAIN batches : batches[j].new /\ batches[j].into = {c})
           => \E j \in DOMAIN batches' : batches'[j].new /\ batches'[j].into = {c}
  BY <1>1, <1>3, BatchMoves
<1>5. PICK c \in New : batches[i].into = {c} /\ type[c] = "none"
  BY <1>1 DEF AddingInv, BatchHolds
<1>6. batches[i].kind \in KindsFound /\ batches[i].kind # "none"
  BY <1>2 DEF BatchType, AddingAssumption
<1>7. /\ type' \in [New -> KindsFound \cup {"none"}] /\ type'[c] # "none"
      /\ \A d \in New : d # c => type'[d] = type[d]
  BY <1>1, <1>5, <1>6 DEF AddingInv, AddingTypes
<1>8. \A d \in OfAdding!All : d # c => OfAdding!TypeOf(d)' = OfAdding!TypeOf(d)
  BY <1>7 DEF OfAdding!TypeOf, OfAdding!All
<1>9. c \notin Old /\ c \in OfAdding!All /\ OfAdding!TypeOf(c) = "none"
  BY <1>5 DEF AddingAssumption, OfAdding!TypeOf, OfAdding!All
<1>10. AddingTypes' /\ ShownOfOne'
  BY <1>1, <1>4, <1>7 DEF AddingInv, AddingTypes, ShownOfOne
<1>11. \A d \in available' \cup chosen' : Exists(d)'
  <2>1. c \notin available \cup chosen
    BY <1>9 DEF AddingInv, Exists
  <2> QED BY <1>1, <1>8, <2>1 DEF AddingInv, AddingTypes, Exists
<1>12. AsksLast'
  <2>1. c \notin available
    BY <1>9 DEF AddingInv, Exists
  <2>2. \A d \in available : OfAdding!TypeOf(d)' = OfAdding!TypeOf(d)
    BY <1>8, <2>1 DEF AddingInv, AddingTypes
  <2> QED BY <1>1, <2>2 DEF AddingInv, AsksLast
<1>13. \A j \in DOMAIN batches' : BatchHolds(batches'[j], held', type')
  <2>1. BatchHolds(b, held', type')
    BY <1>1, <1>3, <1>5, <1>7 DEF AddingInv, BatchHolds
  <2>2. ASSUME NEW j \in DOMAIN batches, j # i PROVE BatchHolds(batches[j], held', type')
    <3>1. BatchHolds(batches[j], held, type)
      BY DEF AddingInv
    <3>2. ASSUME batches[j].new
          PROVE  \E d \in New : batches[j].into = {d} /\ (batches[j].made <=> type'[d] # "none")
      <4>1. PICK d \in New : batches[j].into = {d} /\ (batches[j].made <=> type[d] # "none")
        BY <3>1, <3>2 DEF BatchHolds
      <4>2. d # c
        BY <1>1, <1>5, <2>2, <3>2, <4>1 DEF AddingInv, MadeOnce
      <4> QED BY <1>7, <4>1, <4>2
    <3>3. \A d \in New : type[d] # "none" => type'[d] # "none"
      BY <1>7
    <3> QED BY <1>1, <3>1, <3>2, <3>3 DEF BatchHolds
  <2> QED BY <1>4, <2>1, <2>2
<1>14. MadeByBatch'
  <2> SUFFICES ASSUME NEW d \in New, type'[d] # "none"
               PROVE  \E j \in DOMAIN batches' : batches'[j].new /\ batches'[j].into = {d}
    BY DEF MadeByBatch
  <2>1. CASE d = c
    BY <1>1, <1>5, <2>1, <1>4
  <2>2. CASE d # c
    BY <1>4, <1>7, <2>2 DEF AddingInv, MadeByBatch
  <2> QED BY <2>1, <2>2
<1>15. ItemsOfType'
  <2>1. held[c] = {}
    <3>1. \A x \in held[c] : x \in Results /\ Kind(x) = "none"
      BY <1>9 DEF AddingInv, ItemsOfType, AddingTypes
    <3> QED BY <3>1 DEF AddingAssumption, KindsFound
  <2>2. \A d \in OfAdding!All : \A x \in held[d] : Kind(x) = OfAdding!TypeOf(d)'
    BY <1>8, <2>1 DEF AddingInv, ItemsOfType
  <2> QED BY <1>1, <2>2 DEF ItemsOfType, OfAdding!All
<1> QED BY <1>4, <1>10, <1>11, <1>12, <1>13, <1>14, <1>15 DEF AddingInv

\* A request answered or told of changes nothing but its batch, and what a collection holds.
LEMMA AnsweringKeeps ==
  ASSUME AddingAssumption, AddingInv, NEW i \in DOMAIN batches, NEW b \in BatchType,
         b.into = batches[i].into, b.new = batches[i].new, b.made = batches[i].made,
         batches' = [batches EXCEPT ![i] = b],
         NEW its, held' = its, its \in [OfAdding!All -> SUBSET Results],
         \A c \in OfAdding!All : held[c] \subseteq its[c],
         \A c \in OfAdding!All : \A x \in its[c] : Kind(x) = OfAdding!TypeOf(c),
         BatchHolds(b, its, type),
         shown' \in {FALSE, shown}, chosen' \in {{}, chosen},
         UNCHANGED <<ticked, creating, available, asks, type, inOrder>>
  PROVE  AddingInv'
<1>1. /\ batches' \in Seq(BatchType) /\ DOMAIN batches' = DOMAIN batches
      /\ batches'[i] = b /\ \A j \in DOMAIN batches : j # i => batches'[j] = batches[j]
      /\ MadeOnce'
      /\ \A c \in New : (\E j \in DOMAIN batches : batches[j].new /\ batches[j].into = {c})
           => \E j \in DOMAIN batches' : batches'[j].new /\ batches'[j].into = {c}
  BY BatchMoves
<1>2. shown' \in BOOLEAN /\ (shown' => shown) /\ chosen' \subseteq chosen
  <2>1. CASE shown' = FALSE
    BY <2>1
  <2>2. CASE shown' = shown
    BY <2>2 DEF AddingInv, AddingTypes
  <2> QED BY <2>1, <2>2
<1>3. AddingTypes' /\ AsksLast' /\ ShownOfOne'
  <2>1. AddingTypes'
    BY <1>1, <1>2 DEF AddingInv, AddingTypes
  <2>2. AsksLast'
    BY DEF AddingInv, AsksLast, OfAdding!TypeOf
  <2>3. ShownOfOne'
    BY <1>2 DEF AddingInv, ShownOfOne
  <2> QED BY <2>1, <2>2, <2>3
<1>4. \A c \in available' \cup chosen' : Exists(c)'
  BY <1>2 DEF AddingInv, Exists, OfAdding!TypeOf
<1>5. \A j \in DOMAIN batches' : BatchHolds(batches'[j], held', type')
  <2>1. ASSUME NEW j \in DOMAIN batches, j # i PROVE BatchHolds(batches[j], its, type)
    <3>1. BatchHolds(batches[j], held, type)
      BY DEF AddingInv
    <3>2. batches[j].done \subseteq OfAdding!All
      <4>1. batches[j] \in BatchType
        BY DEF AddingInv, AddingTypes
      <4> QED BY <4>1 DEF BatchType
    <3>3. \A c \in batches[j].done : batches[j].on \subseteq its[c]
      BY <3>1, <3>2 DEF BatchHolds
    <3> QED BY <3>1, <3>3 DEF BatchHolds
  <2> QED BY <1>1, <2>1
<1>6. MadeByBatch' /\ ItemsOfType'
  <2>1. MadeByBatch'
    BY <1>1 DEF AddingInv, MadeByBatch
  <2>2. ItemsOfType'
    BY DEF ItemsOfType, OfAdding!TypeOf, OfAdding!All
  <2> QED BY <2>1, <2>2
<1> QED BY <1>1, <1>3, <1>4, <1>5, <1>6 DEF AddingInv

LEMMA AddedKeeps ==
  ASSUME AddingAssumption, AddingInv, NEW i \in DOMAIN batches, NEW c \in OfAdding!All,
         NEW fails \in BOOLEAN, OfAdding!Add(i, c, fails)
  PROVE  AddingInv'
<1>1. batches[i] \in BatchType /\ BatchHolds(batches[i], held, type)
  BY DEF AddingInv, AddingTypes
<1>2. /\ c \in batches[i].into \ (batches[i].done \cup batches[i].failed)
      /\ UNCHANGED <<ticked, shown, creating, available, asks, chosen, type, inOrder>>
  BY DEF OfAdding!Add, OfAdding!Unanswered
<1>3. held \in [OfAdding!All -> SUBSET Results]
      /\ \A d \in OfAdding!All : \A x \in held[d] : Kind(x) = OfAdding!TypeOf(d)
  BY DEF AddingInv, AddingTypes, ItemsOfType
<1>4. CASE fails \/ OfAdding!TypeOf(c) # batches[i].kind
  <2> DEFINE b == [batches[i] EXCEPT !.failed = @ \cup {c}]
  <2>1. batches' = [batches EXCEPT ![i] = b] /\ held' = held
    BY <1>4 DEF OfAdding!Add
  <2>2. /\ b \in BatchType /\ b.into = batches[i].into /\ b.new = batches[i].new
        /\ b.made = batches[i].made /\ b.told = batches[i].told /\ b.done = batches[i].done
        /\ b.failed = batches[i].failed \cup {c}
        /\ b.on = batches[i].on /\ b.kind = batches[i].kind
    BY <1>1 DEF BatchType
  <2> HIDE DEF b
  <2>3. BatchHolds(b, held, type)
    BY <1>1, <2>2 DEF BatchHolds
  <2> QED BY <1>2, <1>3, <2>1, <2>2, <2>3, AnsweringKeeps
<1>5. CASE ~(fails \/ OfAdding!TypeOf(c) # batches[i].kind)
  <2> DEFINE b == [batches[i] EXCEPT !.done = @ \cup {c}]
             its == [held EXCEPT ![c] = @ \cup batches[i].on]
  <2>1. batches' = [batches EXCEPT ![i] = b] /\ held' = its
    BY <1>5 DEF OfAdding!Add
  <2>2. /\ b \in BatchType /\ b.into = batches[i].into /\ b.new = batches[i].new
        /\ b.made = batches[i].made /\ b.told = batches[i].told
        /\ b.done = batches[i].done \cup {c}
        /\ b.failed = batches[i].failed
        /\ b.on = batches[i].on /\ b.kind = batches[i].kind
    BY <1>1 DEF BatchType
  <2> HIDE DEF b
  <2>3. batches[i].on \subseteq Results
    BY <1>1 DEF BatchType
  <2>4. /\ its \in [OfAdding!All -> SUBSET Results]
        /\ \A d \in OfAdding!All : held[d] \subseteq its[d]
        /\ its[c] = held[c] \cup batches[i].on
        /\ \A d \in OfAdding!All : d # c => its[d] = held[d]
    BY <1>3, <2>3
  <2> HIDE DEF its
  <2>5. \A d \in OfAdding!All : \A x \in its[d] : Kind(x) = OfAdding!TypeOf(d)
    BY <1>1, <1>3, <1>5, <2>4 DEF BatchHolds
  <2>6. batches[i].done \subseteq OfAdding!All
    BY <1>1 DEF BatchType
  <2>7. BatchHolds(b, its, type)
    <3>1. b.told # "ok"
      BY <1>1, <1>2, <2>2 DEF BatchHolds
    <3>2. \A d \in b.done : b.on \subseteq its[d]
      BY <1>1, <2>2, <2>4, <2>6 DEF BatchHolds
    <3> QED BY <1>1, <2>2, <3>1, <3>2 DEF BatchHolds
  <2> QED BY <1>2, <2>1, <2>2, <2>4, <2>5, <2>7, AnsweringKeeps
<1> QED BY <1>4, <1>5

LEMMA TellingKeeps ==
  ASSUME AddingAssumption, AddingInv, NEW i \in DOMAIN batches,
         OfAdding!TellSuccess(i) \/ OfAdding!TellError(i)
  PROVE  AddingInv'
<1>1. batches[i] \in BatchType /\ BatchHolds(batches[i], held, type)
  BY DEF AddingInv, AddingTypes
<1>2. held \in [OfAdding!All -> SUBSET Results]
      /\ \A d \in OfAdding!All : \A x \in held[d] : Kind(x) = OfAdding!TypeOf(d)
  BY DEF AddingInv, AddingTypes, ItemsOfType
<1>3. PICK t \in {"ok", "error"} :
        /\ batches' = [batches EXCEPT ![i] = [batches[i] EXCEPT !.told = t]]
        /\ t = "ok" => batches[i].done = batches[i].into
        /\ t = "error" => batches[i].failed # {} \/ (batches[i].new /\ ~batches[i].made)
        /\ shown' \in {FALSE, shown} /\ chosen' \in {{}, chosen}
        /\ UNCHANGED <<ticked, creating, available, asks, held, type, inOrder>>
  BY DEF OfAdding!TellSuccess, OfAdding!TellError, OfAdding!AllDone
<1> DEFINE b == [batches[i] EXCEPT !.told = t]
<1>4. /\ b \in BatchType /\ b.into = batches[i].into /\ b.new = batches[i].new
      /\ b.made = batches[i].made /\ b.told = t /\ b.done = batches[i].done
      /\ b.failed = batches[i].failed /\ b.on = batches[i].on /\ b.kind = batches[i].kind
  BY <1>1 DEF BatchType
<1>5. batches' = [batches EXCEPT ![i] = b]
  BY <1>3
<1> HIDE DEF b
<1>6. BatchHolds(b, held, type)
  BY <1>1, <1>3, <1>4 DEF BatchHolds
<1>7. held' = held /\ UNCHANGED <<ticked, creating, available, asks, type, inOrder>>
  BY <1>3
<1>8. \A c \in OfAdding!All : held[c] \subseteq held[c]
  OBVIOUS
<1>9. shown' \in {FALSE, shown} /\ chosen' \in {{}, chosen}
  BY <1>3
<1> QED BY <1>2, <1>4, <1>5, <1>6, <1>7, <1>8, <1>9, AnsweringKeeps

LEMMA AddingKeeps ==
  ASSUME AddingAssumption, AddingInv, [OfAdding!Next]_(OfAdding!addVars)
  PROVE  AddingInv'
<1>1. CASE UNCHANGED OfAdding!addVars
  BY <1>1 DEF OfAdding!addVars, AddingInv, AddingTypes, AsksLast, ShownOfOne, Exists, MadeOnce,
              MadeByBatch, ItemsOfType, OfAdding!TypeOf, OfAdding!All
<1>2. CASE OfAdding!Next
  BY <1>2, TogglingKeeps, ReceivingKeeps, ChoosingKeeps, SubmittingKeeps, CreatingKeeps, AddedKeeps,
     TellingKeeps DEF OfAdding!Next
<1> QED BY <1>1, <1>2

----------------------------------------------------------------------------
(* The pages together.                                                     *)

PagesInv ==
  /\ part = "merge" => MergePageInv
  /\ part = "collection" => CollectionInv
  /\ part = "search" => SearchInv
  /\ part = "adding" => AddingInv

LEMMA InitPagesInv == PagesInit => PagesInv
BY PagesAssumption, MergePageInit, CollectionInit, SearchInit, AddingInit DEF PagesInit, PagesInv

LEMMA NextKeepsPagesInv ==
  ASSUME PagesInv, [PagesNext]_<<part, vars, pageVars>>
  PROVE  PagesInv'
<1>1. part' = part
  BY DEF PagesNext
<1>2. ASSUME part = "merge" PROVE MergePageInv'
  <2>1. [OfMerge!Next]_(OfMerge!vars)
    BY <1>2 DEF PagesNext, pageVars, shared, ofMergePage, OfMerge!vars
  <2> QED BY <1>2, <2>1, PagesAssumption, MergePageKeeps DEF PagesInv
<1>3. ASSUME part = "collection" PROVE CollectionInv'
  <2>1. [OfCollection!Next]_(OfCollection!collectionVars)
    BY <1>3 DEF PagesNext, pageVars, shared, ofCollection, OfCollection!collectionVars
  <2> QED BY <1>3, <2>1, PagesAssumption, CollectionKeeps DEF PagesInv
<1>4. ASSUME part = "search" PROVE SearchInv'
  <2>1. [OfSearch!Next]_(OfSearch!searchVars)
    BY <1>4 DEF PagesNext, pageVars, shared, ofSearch, OfSearch!searchVars
  <2> QED BY <1>4, <2>1, PagesAssumption, SearchKeeps DEF PagesInv
<1>5. ASSUME part = "adding" PROVE AddingInv'
  <2>1. [OfAdding!Next]_(OfAdding!addVars)
    BY <1>5 DEF PagesNext, pageVars, shared, ofAdding, OfAdding!addVars
  <2> QED BY <1>5, <2>1, PagesAssumption, AddingKeeps DEF PagesInv
<1> QED BY <1>1, <1>2, <1>3, <1>4, <1>5 DEF PagesInv

LEMMA PagesInvHolds == PagesInv => PagesHold
BY PagesAssumption, MergePageInvHolds, CollectionInvHolds, SearchInvHolds, AddingInvHolds
   DEF PagesInv, PagesHold

\* Whatever is merged, listed, searched for and added, and whatever sizes of pages, answers in
\* whatever order and failures there are: the page of a merge shows what it sends and saves
\* what was chosen, the pages with results by the page show what they have asked for, and
\* what is ticked is what is removed or added (MergePage, CollectionPage, SearchPage,
\* AddToCollection).
THEOREM PagesDoAsTold == PagesSpec => []PagesHold
<1>1. PagesInv /\ [PagesNext]_<<part, vars, pageVars>> => PagesInv'
  BY NextKeepsPagesInv
<1> QED BY <1>1, InitPagesInv, PagesInvHolds, PTL DEF PagesSpec
=============================================================================

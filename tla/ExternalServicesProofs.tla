----------------------- MODULE ExternalServicesProofs -----------------------
(***************************************************************************)
(* Proofs about ExternalServices, for any number of pages and of requests  *)
(* at a time: the tokens the site keeps are those CritiqueBrainz accepts,  *)
(* and reviews are made as often as they are sent and fail for a reason.   *)
(***************************************************************************)
EXTENDS ExternalServices, FiniteSetTheorems, TLAPS

\* Where a request is, name by name.
USE DEF Working, Gone, OnTheWay

----------------------------------------------------------------------------
(* The inductive invariant.                                                *)

\* What a request is at says what it is about, what it has and what it has tried.
Shape(t) ==
  /\ t.kind = "link" => t.page = NoPage
  /\ t.at \in {"away", "save"} => t.kind = "link"
  /\ t.at \in {"refresh", "update"} => t.kind \in {"token", "review"}
  /\ t.at = "send" => t.kind = "review"
  /\ t.at \in {"refresh", "update", "save", "send"} => t.token # NoToken
  /\ t.at \in {"read", "refresh", "update"} => ~t.again
  /\ t.at = "late send" => t.kind = "review"
  /\ t.at \in {"thrown"} \cup Gone => t.excused

Shapes == \A j \in Jobs : Shape(job[j])

\* No token is used that was never granted.
TokensGranted ==
  /\ \A p \in Pages : page[p].token <= granted
  /\ \A j \in Jobs : job[j].token <= granted

\* A request obtains at most one grant.
MayObtain(t) ==
  \/ t.at \in {"read", "refresh", "away", "late refresh", "late link"}
  \/ t.at = "send" /\ ~t.again
Obtaining(jobs) == {j \in Jobs : MayObtain(jobs[j])}
Obtained == granted + Cardinality(Obtaining(job)) <= requests

\* A review that is on its way is made once.
MayMake(t, p) ==
  /\ t.kind = "review" /\ t.page = p
  /\ t.at \in {"read", "refresh", "update", "send", "late send"}
Making(jobs, p) == {j \in Jobs : MayMake(jobs[j], p)}
MadeOnce == \A p \in Pages : reviews[p] + Cardinality(Making(job, p)) <= sent[p]

\* A page thanks, or is going to be told to, only for a review that was made.
Thanks ==
  \A p \in Pages :
    /\ page[p].done => reviews[p] > 0
    /\ \A j \in Jobs : job[j].kind = "review" /\ job[j].page = p /\ job[j].ok => reviews[p] > 0

\* One request at a time is about to write a grant, which is the latest and not the row's.
OneWriter ==
  ~torn =>
    /\ Writing = {} => row \in {0, granted}
    /\ \A j \in Writing : /\ job[j].token = granted /\ row # granted
                          /\ job[j].at = "save" => row = 0
    /\ \A j, k \in Writing : j = k
    /\ \A j \in Jobs : job[j].at = "refresh" /\ job[j].token = granted => Writing = {}

\* Who is at work with another grant than the latest may fail.
Doubtful(t) == t.at \in {"refresh", "update"} \/ (t.at = "send" /\ t.again)
Doubts == \A j \in Jobs : Doubtful(job[j]) /\ job[j].token # granted => job[j].excused

IInv ==
  /\ TypeOK /\ Shapes /\ TokensGranted /\ Obtained /\ MadeOnce /\ Thanks
  /\ OneWriter /\ Doubts /\ FailsForAReason

----------------------------------------------------------------------------
(* Requests as records.                                                    *)

\* A request of which nobody waits for the answer, or which is excused.
Weaker(n, t) ==
  /\ n.kind = t.kind /\ n.at = t.at /\ n.token = t.token /\ n.again = t.again /\ n.ok = t.ok
  /\ n.page \in {t.page, NoPage}
  /\ t.excused => n.excused

OthersWeaker(j) == \A k \in Jobs \ {j} : Weaker(job'[k], job[k])

\* Another grant excuses the requests that are at work with the one before.
OthersExcused(j) ==
  \A k \in Jobs \ {j} : job[k].at \in {"refresh", "update", "send"} => job'[k].excused

\* What a request that has gone on must be.
JobKept(n, gr) ==
  /\ Shape(n)
  /\ n.token <= gr
  /\ n.at \in {"answer", "thrown"} \cup Gone /\ ~n.ok => n.excused
  /\ Doubtful(n) /\ n.token # gr => n.excused

LEMMA IdleFacts ==
  /\ Idle \in Job /\ Idle.at = "idle" /\ Idle.kind = "token" /\ Idle.page = NoPage
  /\ Idle.token = NoToken /\ ~Idle.again /\ ~Idle.ok /\ NoToken \in Grants
  /\ Shape(Idle) /\ ~MayObtain(Idle) /\ (\A p : ~MayMake(Idle, p)) /\ ~Doubtful(Idle)
  /\ \A gr \in Nat : JobKept(Idle, gr)
<1>1. NoToken \in Grants
  BY BoundAssumption DEF Grants, NoToken
<1>2. /\ Idle.at = "idle" /\ Idle.kind = "token" /\ Idle.page = NoPage
      /\ Idle.token = NoToken /\ ~Idle.again /\ ~Idle.ok
  BY DEF Idle
<1>3. Idle \in Job
  BY <1>1 DEF Idle, Job
<1>4. Shape(Idle) /\ ~MayObtain(Idle) /\ (\A p : ~MayMake(Idle, p)) /\ ~Doubtful(Idle)
  BY <1>2 DEF Shape, MayObtain, MayMake, Doubtful
<1>5. \A gr \in Nat : JobKept(Idle, gr)
  BY <1>2, <1>4 DEF JobKept, NoToken
<1> QED
  BY <1>1, <1>2, <1>3, <1>4, <1>5

LEMMA OneMore == \A r \in Nat : r + 1 \in Nat /\ r + 1 > 0
OBVIOUS

LEMMA JobFields ==
  ASSUME NEW t \in Job
  PROVE  /\ t.kind \in {"token", "review", "link"}
         /\ t.at \in Working \cup Gone \cup {"idle", "away", "thrown"}
         /\ t.page \in Pages \cup {NoPage} /\ t.token \in Nat /\ t.token \in Grants
         /\ t.again \in BOOLEAN /\ t.ok \in BOOLEAN /\ t.excused \in BOOLEAN
<1>1. /\ t.kind \in {"token", "review", "link"}
      /\ t.at \in Working \cup Gone \cup {"idle", "away", "thrown"}
      /\ t.page \in Pages \cup {NoPage} /\ t.token \in Grants
      /\ t.again \in BOOLEAN /\ t.ok \in BOOLEAN /\ t.excused \in BOOLEAN
  BY DEF Job
<1>2. Grants \subseteq Nat
  BY BoundAssumption DEF Grants
<1>3. t.token \in Nat
  BY <1>1, <1>2
<1> QED
  BY <1>1, <1>3

LEMMA Types ==
  ASSUME TypeOK
  PROVE  /\ row \in Nat /\ row <= granted /\ granted \in Nat /\ granted \in Grants
         /\ requests \in Nat /\ faults \in Nat
         /\ \A p \in Pages : reviews[p] \in Nat /\ sent[p] \in Nat
                             /\ page[p].token \in Int /\ page[p].done \in BOOLEAN
         /\ \A j \in Jobs : job[j] \in Job
<1>1. Grants \subseteq Nat /\ NotYet \in Int
  BY BoundAssumption DEF Grants, NotYet
<1>2. row \in Nat /\ row <= granted /\ granted \in Nat /\ granted \in Grants
  BY <1>1 DEF TypeOK
<1>3. requests \in Nat /\ faults \in Nat
  BY DEF TypeOK
<1>4. \A p \in Pages : /\ reviews[p] \in Nat /\ sent[p] \in Nat
                       /\ page[p].token \in Int /\ page[p].done \in BOOLEAN
  <2> SUFFICES ASSUME NEW p \in Pages
               PROVE  /\ reviews[p] \in Nat /\ sent[p] \in Nat
                      /\ page[p].token \in Int /\ page[p].done \in BOOLEAN
    OBVIOUS
  <2>1. page[p] \in [token : Grants \cup {NotYet}, done : BOOLEAN]
    BY DEF TypeOK
  <2>2. page[p].done \in BOOLEAN
    BY <2>1
  <2>3. page[p].token \in Grants \cup {NotYet}
    BY <2>1
  <2>3a. page[p].token \in Int
    <3>1. page[p].token \in Nat \/ page[p].token = -1
      BY <1>1, <2>3 DEF NotYet
    <3>2. \A x : x \in Nat \/ x = -1 => x \in Int
      OBVIOUS
    <3> QED
      BY <3>1, <3>2
  <2>4. reviews[p] \in Nat /\ sent[p] \in Nat
    BY DEF TypeOK
  <2> QED
    BY <2>2, <2>3a, <2>4
<1> QED
  BY <1>2, <1>3, <1>4 DEF TypeOK

----------------------------------------------------------------------------
(* What a step has to keep, part by part.                                  *)

LEMMA JobsKept ==
  ASSUME IInv, TypeOK', NEW j \in Jobs, OthersWeaker(j), JobKept(job'[j], granted'),
         \/ granted' = granted
         \/ granted' = granted + 1 /\ OthersExcused(j),
         \A p \in Pages : page'[p].token <= granted'
  PROVE  Shapes' /\ TokensGranted' /\ Doubts' /\ FailsForAReason'
<1>1. granted \in Nat /\ granted' \in Nat /\ granted <= granted'
  BY Types DEF IInv
<1>2. ASSUME NEW k \in Jobs
      PROVE  JobKept(job'[k], granted')
  <2>1. CASE k = j
    BY <2>1
  <2>3. CASE k # j
    <3> DEFINE n == job'[k]
               t == job[k]
    <3>1. /\ n.kind = t.kind /\ n.at = t.at /\ n.token = t.token /\ n.again = t.again
          /\ n.ok = t.ok /\ n.page \in {t.page, NoPage} /\ (t.excused => n.excused)
      BY <2>3 DEF OthersWeaker, Weaker
    <3>2. /\ Shape(t) /\ t.token <= granted
          /\ (t.at \in {"answer", "thrown"} \cup Gone /\ ~t.ok => t.excused)
          /\ (Doubtful(t) /\ t.token # granted => t.excused)
      BY DEF IInv, Shapes, TokensGranted, Doubts, FailsForAReason
    <3>3. t.at \in {"refresh", "update", "send"} => granted' = granted \/ n.excused
      BY <2>3 DEF OthersExcused
    <3>4. t.token \in Nat
      BY Types, JobFields DEF IInv
    <3> HIDE DEF n, t
    <3>5. Shape(n)
      BY <3>1, <3>2 DEF Shape
    <3>6. n.token <= granted'
      <4>1. n.token = t.token /\ t.token <= granted
        BY <3>1, <3>2
      <4> QED
        BY <1>1, <3>4, <4>1
    <3>7. Doubtful(n) /\ n.token # granted' => n.excused
      BY <3>1, <3>2, <3>3 DEF Doubtful
    <3>8. n.at \in {"answer", "thrown"} \cup Gone /\ ~n.ok => n.excused
      BY <3>1, <3>2
    <3>9. JobKept(n, granted')
      BY <3>5, <3>6, <3>7, <3>8 DEF JobKept
    <3> QED
      BY <3>9 DEF n
  <2> QED
    BY <2>1, <2>3
<1> QED
  BY <1>2 DEF JobKept, Shapes, TokensGranted, Doubts, FailsForAReason

\* How many are in a set of requests to which one may come, or from which one goes.
LEMMA Counting ==
  ASSUME NEW S \in SUBSET Jobs, NEW T \in SUBSET Jobs, NEW j \in Jobs, S \subseteq T \cup {j}
  PROVE  /\ Cardinality(S) \in Nat /\ Cardinality(T) \in Nat
         /\ Cardinality(S) <= Cardinality(T) + 1
         /\ (j \in S => j \in T) => Cardinality(S) <= Cardinality(T)
         /\ j \in T /\ j \notin S => Cardinality(S) + 1 <= Cardinality(T)
<1>1. IsFiniteSet(S) /\ IsFiniteSet(T) /\ IsFiniteSet(T \cup {j}) /\ IsFiniteSet(T \ {j})
  BY JobsAssumption, FS_Subset, FS_AddElement
<1>2. Cardinality(S) \in Nat /\ Cardinality(T) \in Nat
  BY <1>1, FS_CardinalityType
<1>3. Cardinality(S) <= Cardinality(T \cup {j})
  BY <1>1, FS_Subset
<1>4. Cardinality(T \cup {j}) = IF j \in T THEN Cardinality(T) ELSE Cardinality(T) + 1
  BY <1>1, FS_AddElement
<1>5. (j \in S => j \in T) => Cardinality(S) <= Cardinality(T)
  BY <1>1, FS_Subset
<1>6. j \in T /\ j \notin S => Cardinality(S) + 1 <= Cardinality(T)
  <2> HAVE j \in T /\ j \notin S
  <2>1. S \subseteq T \ {j}
    OBVIOUS
  <2>2. Cardinality(S) <= Cardinality(T \ {j})
    BY <1>1, <2>1, FS_Subset
  <2>3. Cardinality(T \ {j}) = Cardinality(T) - 1
    BY <1>1, FS_RemoveElement
  <2> QED
    BY <1>2, <2>2, <2>3
<1> QED
  BY <1>2, <1>3, <1>4, <1>5, <1>6

LEMMA ObtainedKept ==
  ASSUME IInv, TypeOK', NEW j \in Jobs, OthersWeaker(j),
         \/ /\ granted' = granted /\ requests' = requests
            /\ MayObtain(job'[j]) => MayObtain(job[j])
         \/ /\ granted' = granted + 1 /\ requests' = requests
            /\ MayObtain(job[j]) /\ ~MayObtain(job'[j])
         \/ granted' = granted /\ requests' = requests + 1
  PROVE  Obtained'
<1> DEFINE S == Obtaining(job')
           T == Obtaining(job)
<1>1. \A k \in Jobs \ {j} : MayObtain(job'[k]) => MayObtain(job[k])
  BY IdleFacts DEF OthersWeaker, Weaker, MayObtain
<1>2. S \in SUBSET Jobs /\ T \in SUBSET Jobs /\ S \subseteq T \cup {j}
  BY <1>1 DEF Obtaining
<1>3. (j \in S <=> MayObtain(job'[j])) /\ (j \in T <=> MayObtain(job[j]))
  BY DEF Obtaining
<1>4. granted + Cardinality(T) <= requests
  BY DEF IInv, Obtained
<1>5. granted \in Nat /\ requests \in Nat
  BY Types DEF IInv
<1> HIDE DEF S, T
<1>6. /\ Cardinality(S) \in Nat /\ Cardinality(T) \in Nat
      /\ Cardinality(S) <= Cardinality(T) + 1
      /\ (j \in S => j \in T) => Cardinality(S) <= Cardinality(T)
      /\ j \in T /\ j \notin S => Cardinality(S) + 1 <= Cardinality(T)
  BY <1>2, Counting
<1>7. granted' + Cardinality(S) <= requests'
  BY <1>3, <1>4, <1>5, <1>6
<1> QED
  BY <1>7 DEF Obtained, S

\* A review for a page is still to be made, is made, is sent, or belongs to a page that is gone.
LEMMA MadeKept ==
  ASSUME IInv, NEW j \in Jobs, OthersWeaker(j), NEW p \in Pages,
         \/ /\ reviews'[p] = reviews[p] /\ sent'[p] = sent[p]
            /\ MayMake(job'[j], p) => MayMake(job[j], p)
         \/ /\ reviews'[p] = reviews[p] + 1 /\ sent'[p] = sent[p]
            /\ MayMake(job[j], p) /\ ~MayMake(job'[j], p)
         \/ reviews'[p] = reviews[p] /\ sent'[p] = sent[p] + 1
         \/ /\ reviews'[p] = 0 /\ sent'[p] = 0
            /\ \A k \in Jobs : ~MayMake(job'[k], p)
  PROVE  reviews'[p] + Cardinality(Making(job', p)) <= sent'[p]
<1> DEFINE S == Making(job', p)
           T == Making(job, p)
<1>1. \A k \in Jobs \ {j} : MayMake(job'[k], p) => MayMake(job[k], p)
  BY IdleFacts, NoPageAssumption DEF OthersWeaker, Weaker, MayMake
<1>2. S \in SUBSET Jobs /\ T \in SUBSET Jobs /\ S \subseteq T \cup {j}
  BY <1>1 DEF Making
<1>3. (j \in S <=> MayMake(job'[j], p)) /\ (j \in T <=> MayMake(job[j], p))
      /\ ((\A k \in Jobs : ~MayMake(job'[k], p)) => S = {})
  BY DEF Making
<1>4. reviews[p] + Cardinality(T) <= sent[p]
  BY DEF IInv, MadeOnce
<1>5. reviews[p] \in Nat /\ sent[p] \in Nat
  BY Types DEF IInv
<1> HIDE DEF S, T
<1>6. /\ Cardinality(S) \in Nat /\ Cardinality(T) \in Nat
      /\ Cardinality(S) <= Cardinality(T) + 1
      /\ (j \in S => j \in T) => Cardinality(S) <= Cardinality(T)
      /\ j \in T /\ j \notin S => Cardinality(S) + 1 <= Cardinality(T)
  BY <1>2, Counting
<1>7. Cardinality({}) = 0
  BY FS_EmptySet
<1>8. reviews'[p] + Cardinality(S) <= sent'[p]
  BY <1>3, <1>4, <1>5, <1>6, <1>7
<1> QED
  BY <1>8 DEF S

LEMMA ThanksKept ==
  ASSUME IInv, TypeOK', NEW j \in Jobs, OthersWeaker(j),
         \A p \in Pages :
           \/ /\ reviews'[p] >= reviews[p]
              /\ page'[p].done => page[p].done \/ reviews[p] > 0
           \/ ~page'[p].done /\ \A k \in Jobs : job'[k].page = p => ~job'[k].ok,
         \A p \in Pages :
           job'[j].kind = "review" /\ job'[j].page = p /\ job'[j].ok => reviews'[p] > 0
  PROVE  Thanks'
<1> SUFFICES ASSUME NEW p \in Pages
             PROVE  /\ page'[p].done => reviews'[p] > 0
                    /\ \A k \in Jobs : job'[k].kind = "review" /\ job'[k].page = p /\ job'[k].ok
                                         => reviews'[p] > 0
  BY DEF Thanks
<1>1. /\ reviews[p] \in Nat /\ reviews'[p] \in Nat
      /\ page[p].done => reviews[p] > 0
  BY Types DEF IInv, Thanks, TypeOK
<1>2. CASE ~page'[p].done /\ \A k \in Jobs : job'[k].page = p => ~job'[k].ok
  BY <1>2
<1>3. CASE reviews'[p] >= reviews[p] /\ (page'[p].done => page[p].done \/ reviews[p] > 0)
  <2>1. page'[p].done => reviews'[p] > 0
    BY <1>1, <1>3
  <2>2. ASSUME NEW k \in Jobs \ {j}, job'[k].kind = "review", job'[k].page = p, job'[k].ok
        PROVE  reviews'[p] > 0
    <3>1. job[k].kind = "review" /\ job[k].page = p /\ job[k].ok
      BY <2>2, IdleFacts, NoPageAssumption DEF OthersWeaker, Weaker
    <3>2. reviews[p] > 0
      BY <3>1 DEF IInv, Thanks
    <3> QED
      BY <1>1, <1>3, <3>2
  <2> QED
    BY <2>1, <2>2
<1> QED
  BY <1>2, <1>3

----------------------------------------------------------------------------
(* Who is about to write a grant.                                          *)

LEMMA OthersAt ==
  ASSUME NEW j \in Jobs, OthersWeaker(j)
  PROVE  /\ \A k \in Jobs \ {j} : k \in Writing' <=> k \in Writing
         /\ \A k \in Jobs \ {j} : k \in Writing =>
              job'[k].token = job[k].token /\ job'[k].at = job[k].at
         /\ \A k \in Jobs \ {j} : job'[k].at = "refresh" =>
              job[k].at = "refresh" /\ job'[k].token = job[k].token
         /\ j \in Writing' <=> job'[j].at \in {"update", "save"}
BY IdleFacts DEF OthersWeaker, Weaker, Writing

LEMMA WritersSame ==
  ASSUME IInv, NEW j \in Jobs, OthersWeaker(j), UNCHANGED <<row, granted, torn>>,
         j \notin Writing, job'[j].at \notin {"update", "save"},
         job'[j].at = "refresh" => job'[j].token = row \/ job'[j].token # granted
  PROVE  OneWriter'
<1> SUFFICES ASSUME ~torn'
             PROVE  /\ Writing' = {} => row' \in {0, granted'}
                    /\ \A i \in Writing' : /\ job'[i].token = granted' /\ row' # granted'
                                           /\ job'[i].at = "save" => row' = 0
                    /\ \A i, k \in Writing' : i = k
                    /\ \A i \in Jobs : job'[i].at = "refresh" /\ job'[i].token = granted'
                                         => Writing' = {}
  BY DEF OneWriter
<1>1. Writing' = Writing /\ Writing \subseteq Jobs \ {j}
  <2>1. Writing \subseteq Jobs /\ Writing' \subseteq Jobs
    BY DEF Writing
  <2> QED
    BY <2>1, OthersAt
<1>2. /\ Writing = {} => row \in {0, granted}
      /\ \A i \in Writing : /\ job[i].token = granted /\ row # granted
                            /\ job[i].at = "save" => row = 0
      /\ \A i, k \in Writing : i = k
      /\ \A i \in Jobs : job[i].at = "refresh" /\ job[i].token = granted => Writing = {}
  BY DEF IInv, OneWriter
<1>3. \A i \in Writing' : /\ job'[i].token = granted' /\ row' # granted'
                          /\ job'[i].at = "save" => row' = 0
  BY <1>1, <1>2, OthersAt
<1>4. ASSUME NEW i \in Jobs, job'[i].at = "refresh", job'[i].token = granted'
      PROVE  Writing' = {}
  <2>1. CASE i = j
    BY <1>1, <1>2, <1>4, <2>1
  <2>2. CASE i # j
    BY <1>1, <1>2, <1>4, <2>2, OthersAt
  <2> QED
    BY <2>1, <2>2
<1> QED
  BY <1>1, <1>2, <1>3, <1>4

\* A grant has been made, and is going to be written if there is a row.
LEMMA WriterComes ==
  ASSUME IInv, NEW j \in Jobs, OthersWeaker(j), row' = row, granted' = granted + 1,
         ~torn' => Writing = {},
         ~torn' /\ job'[j].at # "update" => row = 0,
         job'[j].at \in {"update", "save"} => job'[j].token = granted + 1,
         job'[j].at # "refresh"
  PROVE  OneWriter'
<1> SUFFICES ASSUME ~torn'
             PROVE  /\ Writing' = {} => row' \in {0, granted'}
                    /\ \A i \in Writing' : /\ job'[i].token = granted' /\ row' # granted'
                                           /\ job'[i].at = "save" => row' = 0
                    /\ \A i, k \in Writing' : i = k
                    /\ \A i \in Jobs : job'[i].at = "refresh" /\ job'[i].token = granted'
                                         => Writing' = {}
  BY DEF OneWriter
<1>1. granted \in Nat /\ row \in Nat /\ row <= granted
  BY Types DEF IInv
<1>2. Writing' \subseteq {j}
  <2>1. Writing' \subseteq Jobs
    BY DEF Writing
  <2> QED
    BY <2>1, OthersAt
<1>3. \A i \in Writing' : i = j /\ job'[j].at \in {"update", "save"}
  BY <1>2, OthersAt
<1>4. ASSUME NEW i \in Jobs, job'[i].at = "refresh", job'[i].token = granted'
      PROVE  FALSE
  <2>1. i # j
    BY <1>4
  <2>2. job[i].token = granted + 1
    BY <1>4, <2>1, OthersAt
  <2>3. job[i].token <= granted
    BY DEF IInv, TokensGranted
  <2> QED
    BY <1>1, <2>2, <2>3
<1>5. Writing' = {} => row' \in {0, granted'}
  <2> HAVE Writing' = {}
  <2>1. job'[j].at # "update"
    BY OthersAt
  <2> QED
    BY <2>1
<1>6. row' # granted'
  BY <1>1
<1> QED
  BY <1>2, <1>3, <1>4, <1>5, <1>6

\* The grant is written, or not.
LEMMA WriterGoes ==
  ASSUME IInv, NEW j \in Jobs, OthersWeaker(j), granted' = granted, torn => torn',
         j \in Writing, job'[j].at \notin {"update", "save"},
         ~torn /\ ~torn' => row' \in {0, job[j].token}
  PROVE  OneWriter'
<1> SUFFICES ASSUME ~torn'
             PROVE  Writing' = {} /\ row' \in {0, granted'}
  BY DEF OneWriter
<1>1. job[j].token = granted /\ \A k \in Writing : k = j
  BY DEF IInv, OneWriter
<1>2. Writing' = {}
  <2>1. Writing' \subseteq Jobs
    BY DEF Writing
  <2> QED
    BY <1>1, <2>1, OthersAt
<1> QED
  BY <1>1, <1>2

----------------------------------------------------------------------------
(* Steps of several kinds.                                                 *)

\* What a step does to the number of grants that may still be obtained.
ObtainStep(n, t) ==
  \/ /\ granted' = granted /\ requests' = requests
     /\ MayObtain(n) => MayObtain(t)
  \/ /\ granted' = granted + 1 /\ requests' = requests
     /\ MayObtain(t) /\ ~MayObtain(n)
  \/ granted' = granted /\ requests' = requests + 1

\* And to the number of reviews.
MakeStep(n, t, p) ==
  \/ /\ reviews'[p] = reviews[p] /\ sent'[p] = sent[p]
     /\ MayMake(n, p) => MayMake(t, p)
  \/ /\ reviews'[p] = reviews[p] + 1 /\ sent'[p] = sent[p]
     /\ MayMake(t, p) /\ ~MayMake(n, p)
  \/ reviews'[p] = reviews[p] /\ sent'[p] = sent[p] + 1

LEMMA AllKept ==
  ASSUME IInv, TypeOK', OneWriter', NEW j \in Jobs, OthersWeaker(j), JobKept(job'[j], granted'),
         ObtainStep(job'[j], job[j]), granted' = granted \/ OthersExcused(j),
         \A p \in Pages : MakeStep(job'[j], job[j], p),
         \A p \in Pages : page'[p].token <= granted'
                          /\ (page'[p].done => page[p].done \/ reviews[p] > 0),
         \A p \in Pages :
           job'[j].kind = "review" /\ job'[j].page = p /\ job'[j].ok => reviews'[p] > 0
  PROVE  IInv'
<1>1. granted' = granted \/ (granted' = granted + 1 /\ OthersExcused(j))
  BY DEF ObtainStep
<1>2. Shapes' /\ TokensGranted' /\ Doubts' /\ FailsForAReason'
  BY <1>1, JobsKept
<1>3. Obtained'
  BY ObtainedKept DEF ObtainStep
<1>4. MadeOnce'
  <2> SUFFICES ASSUME NEW p \in Pages
               PROVE  reviews'[p] + Cardinality(Making(job', p)) <= sent'[p]
    BY DEF MadeOnce
  <2> QED
    BY MadeKept DEF MakeStep
<1>5. Thanks'
  <2>1. \A p \in Pages : reviews'[p] >= reviews[p]
    <3>1. \A p \in Pages : reviews[p] \in Nat
      BY Types DEF IInv
    <3> QED
      BY <3>1 DEF MakeStep
  <2> QED
    BY <2>1, ThanksKept
<1> QED
  BY <1>2, <1>3, <1>4, <1>5 DEF IInv

\* What IInv says of one request.
LEMMA OfOne ==
  ASSUME IInv, NEW j \in Jobs
  PROVE  /\ job[j] \in Job /\ JobKept(job[j], granted) /\ job \in [Jobs -> Job]
         /\ \A p \in Pages : page[p].token <= granted
         /\ \A p \in Pages :
              job[j].kind = "review" /\ job[j].page = p /\ job[j].ok => reviews[p] > 0
BY DEF IInv, TypeOK, Shapes, TokensGranted, FailsForAReason, Doubts, JobKept, Thanks

\* A request goes on, or is over, and no grant and no review is made.
LEMMA StepKeeps ==
  ASSUME IInv, OneWriter', NEW j \in Jobs, NEW n \in Job, job' = [job EXCEPT ![j] = n],
         JobKept(n, granted), row' \in 0..granted, torn' \in BOOLEAN,
         faults' \in 0..MaxFaults,
         UNCHANGED <<granted, age, page, reviews, sent, requests>>,
         MayObtain(n) => MayObtain(job[j]),
         \A p \in Pages : MayMake(n, p) => MayMake(job[j], p),
         n.kind = "review" /\ n.ok => job[j].kind = "review" /\ job[j].ok /\ job[j].page = n.page
  PROVE  IInv'
<1>1. job \in [Jobs -> Job]
  BY OfOne
<1>2. job'[j] = n /\ job' \in [Jobs -> Job] /\ \A k \in Jobs \ {j} : job'[k] = job[k]
  BY <1>1
<1>3. OthersWeaker(j)
  BY <1>2 DEF OthersWeaker, Weaker
<1>4. TypeOK'
  BY <1>2 DEF IInv, TypeOK
<1>5. ObtainStep(job'[j], job[j]) /\ \A p \in Pages : MakeStep(job'[j], job[j], p)
  BY <1>2 DEF ObtainStep, MakeStep
<1>6. \A p \in Pages : page'[p].token <= granted' /\ (page'[p].done => page[p].done)
  BY OfOne
<1>7. \A p \in Pages :
        job'[j].kind = "review" /\ job'[j].page = p /\ job'[j].ok => reviews'[p] > 0
  BY <1>2, OfOne
<1> QED
  BY <1>2, <1>3, <1>4, <1>5, <1>6, <1>7, AllKept

\* One that has no grant to write, before or after.
LEMMA StepQuiet ==
  ASSUME IInv, NEW j \in Jobs, NEW n \in Job, job' = [job EXCEPT ![j] = n],
         JobKept(n, granted), faults' \in 0..MaxFaults,
         UNCHANGED <<row, torn, granted, age, page, reviews, sent, requests>>,
         job[j].at \in {"read", "refresh", "send", "away"},
         n.at \notin {"update", "save"},
         n.at = "refresh" => n.token = row,
         MayObtain(n) => MayObtain(job[j]),
         n.kind = job[j].kind, n.page = job[j].page,
         MayMake(n, n.page) => MayMake(job[j], n.page),
         n.kind = "review" /\ n.ok => job[j].ok
  PROVE  IInv'
<1>1. job \in [Jobs -> Job]
  BY OfOne
<1>2. job'[j] = n /\ \A k \in Jobs \ {j} : job'[k] = job[k]
  BY <1>1
<1>3. OthersWeaker(j)
  BY <1>2 DEF OthersWeaker, Weaker
<1>4. OneWriter'
  BY <1>2, <1>3, WritersSame DEF Writing
<1>5. row' \in 0..granted /\ torn' \in BOOLEAN
  BY DEF IInv, TypeOK
<1>6. \A p \in Pages : MayMake(n, p) => MayMake(job[j], p)
  BY DEF MayMake
<1> QED
  BY <1>4, <1>5, <1>6, StepKeeps

\* The review of a request is made, which is its last step.
LEMMA MadeKeeps ==
  ASSUME IInv, NEW j \in Jobs, NEW n \in Job, job' = [job EXCEPT ![j] = n],
         job[j].at \in {"send", "late send"}, Made(j), n.at \in {"answer", "cut"},
         n.kind = "review" /\ n.ok => n.page = job[j].page,
         JobKept(n, granted), faults' \in 0..MaxFaults,
         UNCHANGED <<row, torn, granted, age, page, sent, requests>>
  PROVE  IInv'
<1> DEFINE t == job[j]
<1>1. job \in [Jobs -> Job] /\ t \in Job /\ Shape(t)
  BY OfOne DEF JobKept
<1>2. job'[j] = n /\ job' \in [Jobs -> Job] /\ \A k \in Jobs \ {j} : job'[k] = job[k]
  BY <1>1
<1>3. OthersWeaker(j)
  BY <1>2 DEF OthersWeaker, Weaker
<1>4. \A p \in Pages : reviews'[p] = IF p = t.page THEN reviews[p] + 1 ELSE reviews[p]
  BY NoPageAssumption DEF Made, IInv, TypeOK
<1>5. reviews' \in [Pages -> Nat]
  <2>1. t.page \in Pages \cup {NoPage} /\ reviews \in [Pages -> Nat]
    BY <1>1, JobFields DEF IInv, TypeOK
  <2>2. reviews' = IF t.page = NoPage THEN reviews ELSE [reviews EXCEPT ![t.page] = @ + 1]
    BY DEF Made
  <2>3. CASE t.page = NoPage
    BY <2>1, <2>2, <2>3
  <2>4. CASE t.page \in Pages
    <3>1. reviews' = [reviews EXCEPT ![t.page] = reviews[t.page] + 1]
      BY <2>2, <2>4, NoPageAssumption
    <3>a. reviews[t.page] \in Nat
      BY <2>1, <2>4
    <3>2. reviews[t.page] + 1 \in Nat
      BY <3>a, OneMore
    <3> QED
      BY <2>1, <3>1, <3>2
  <2> QED
    BY <2>1, <2>3, <2>4
<1>6. TypeOK'
  BY <1>2, <1>5 DEF IInv, TypeOK
<1>7. OneWriter'
  BY <1>2, <1>3, WritersSame DEF Writing
<1>8. ObtainStep(job'[j], t)
  BY <1>2 DEF ObtainStep, MayObtain
<1>9. ASSUME NEW p \in Pages PROVE MakeStep(job'[j], t, p)
  BY <1>1, <1>2, <1>4 DEF MakeStep, MayMake, Shape
<1>10. \A p \in Pages : page'[p].token <= granted' /\ (page'[p].done => page[p].done)
  BY OfOne
<1>11. \A p \in Pages :
         job'[j].kind = "review" /\ job'[j].page = p /\ job'[j].ok => reviews'[p] > 0
  <2> SUFFICES ASSUME NEW p \in Pages, n.kind = "review", n.page = p, n.ok
               PROVE  reviews'[p] > 0
    BY <1>2
  <2>1. p = t.page
    OBVIOUS
  <2>2. reviews'[p] = reviews[p] + 1
    BY <1>4, <2>1
  <2>3. reviews[p] \in Nat
    BY Types DEF IInv
  <2> QED
    BY <2>2, <2>3, OneMore
<1> QED
  BY <1>2, <1>3, <1>6, <1>7, <1>8, <1>9, <1>10, <1>11, AllKept

\* There is a number left for a grant that may be obtained.
LEMMA GrantTyped ==
  ASSUME IInv, NEW j \in Jobs, MayObtain(job[j])
  PROVE  granted + 1 \in Grants
<1> DEFINE S == Obtaining(job)
<1>1. j \in S /\ S \in SUBSET Jobs
  BY DEF Obtaining
<1>2. granted + Cardinality(S) <= requests
  BY DEF IInv, Obtained
<1> HIDE DEF S
<1>3. Cardinality(S) \in Nat /\ Cardinality(S \ {j}) + 1 <= Cardinality(S)
      /\ Cardinality(S \ {j}) \in Nat
  BY <1>1, Counting
<1>4. requests \in Nat /\ requests <= MaxRequests /\ granted \in Nat
  BY Types, BoundAssumption DEF IInv, TypeOK
<1>5. granted + 1 <= MaxRequests
  BY <1>2, <1>3, <1>4, BoundAssumption
<1> QED
  BY <1>4, <1>5, BoundAssumption DEF Grants

\* A request obtains a grant.
LEMMA GrantKeeps ==
  ASSUME IInv, NEW j \in Jobs, NEW n \in Job, Grant(j, n), row' = row, torn' \in BOOLEAN,
         ~torn' => Writing = {},
         ~torn' /\ n.at # "update" => row = 0,
         n.at \in {"update", "save"} => n.token = granted + 1,
         faults' \in 0..MaxFaults,
         UNCHANGED <<page, reviews, sent, requests>>,
         JobKept(n, granted + 1), MayObtain(job[j]), ~MayObtain(n),
         \A p \in Pages : MayMake(n, p) => MayMake(job[j], p),
         n.kind = "review" /\ n.ok => job[j].kind = "review" /\ job[j].ok /\ job[j].page = n.page
  PROVE  IInv'
<1>1. granted' = granted + 1 /\ job \in [Jobs -> Job]
  BY OfOne DEF Grant
<1>2. \A k \in Jobs : Excuse(k) \in Job /\ Weaker(Excuse(k), job[k]) /\ Excuse(k).excused
  <2>1. \A t \in Job : /\ [t EXCEPT !.excused = TRUE] \in Job
                       /\ Weaker([t EXCEPT !.excused = TRUE], t)
                       /\ [t EXCEPT !.excused = TRUE].excused
    BY DEF Job, Weaker
  <2> QED
    BY <1>1, <2>1 DEF Excuse
<1>3. /\ job'[j] = n
      /\ \A k \in Jobs \ {j} : job'[k] = IF job[k].at \in {"refresh", "update", "send"}
                                          THEN Excuse(k) ELSE job[k]
  BY DEF Grant
<1>4. job' \in [Jobs -> Job]
  BY <1>1, <1>2 DEF Grant
<1>5. OthersWeaker(j) /\ OthersExcused(j)
  BY <1>2, <1>3 DEF OthersWeaker, OthersExcused, Weaker
<1>6. n.at # "refresh"
  BY DEF MayObtain
<1>7. OneWriter'
  BY <1>1, <1>3, <1>5, <1>6, WriterComes
<1>8. ObtainStep(job'[j], job[j]) /\ \A p \in Pages : MakeStep(job'[j], job[j], p)
  BY <1>1, <1>3 DEF ObtainStep, MakeStep
<1>9. granted \in Nat /\ row \in Nat /\ row <= granted /\ granted' \in Nat
  BY <1>1, Types DEF IInv
<1>10. \A p \in Pages : page'[p].token <= granted' /\ (page'[p].done => page[p].done)
  BY <1>1, <1>9, OfOne, Types DEF IInv
<1>11. granted' \in Grants
  BY <1>1, GrantTyped
<1>12. TypeOK'
  <2>1. row' \in 0..granted'
    BY <1>1, <1>9
  <2>2. requests' \in 0..MaxRequests
    BY DEF IInv, TypeOK
  <2>3. /\ page' \in [Pages -> [token : Grants \cup {NotYet}, done : BOOLEAN]]
        /\ reviews' \in [Pages -> Nat] /\ sent' \in [Pages -> Nat]
    BY DEF IInv, TypeOK
  <2>4. age' \in [Grants -> Ages]
    <3>1. age \in [Grants -> Ages] /\ "fresh" \in Ages
      BY DEF IInv, TypeOK, Ages
    <3> QED
      BY <3>1 DEF Grant
  <2> QED
    BY <1>4, <1>11, <2>1, <2>2, <2>3, <2>4 DEF TypeOK
<1>13. \A p \in Pages :
         job'[j].kind = "review" /\ job'[j].page = p /\ job'[j].ok => reviews'[p] > 0
  BY <1>3, OfOne
<1> QED
  BY <1>1, <1>3, <1>5, <1>7, <1>8, <1>10, <1>12, <1>13, AllKept

----------------------------------------------------------------------------
(* The steps.                                                              *)

LEMMA InitKeeps == Init => IInv
<1> SUFFICES ASSUME Init PROVE IInv
  OBVIOUS
<1>1. \A j \in Jobs : job[j] = Idle
  BY DEF Init
<1>2. TypeOK
  <2>1. 0 \in Grants /\ NoToken \in Grants
    BY BoundAssumption DEF Grants, NoToken
  <2>2. row \in 0..granted /\ granted \in Grants
    BY <2>1 DEF Init
  <2>3. age \in [Grants -> Ages]
    BY DEF Init, Ages
  <2>4. page \in [Pages -> [token : Grants \cup {NotYet}, done : BOOLEAN]]
    BY DEF Init
  <2>5. reviews \in [Pages -> Nat] /\ sent \in [Pages -> Nat]
    BY DEF Init
  <2>6. job \in [Jobs -> Job]
    BY IdleFacts DEF Init
  <2>7. requests \in 0..MaxRequests /\ faults \in 0..MaxFaults
    BY BoundAssumption DEF Init
  <2>8. torn \in BOOLEAN
    BY DEF Init
  <2> QED
    BY <2>2, <2>3, <2>4, <2>5, <2>6, <2>7, <2>8 DEF TypeOK
<1>3. Shapes /\ TokensGranted /\ Doubts /\ FailsForAReason
  <2>1. Shapes /\ Doubts /\ FailsForAReason
    BY <1>1, IdleFacts DEF Shapes, Doubts, FailsForAReason
  <2>2. TokensGranted
    <3>1. granted = 0 /\ (\A p \in Pages : page[p].token = -1) /\ \A j \in Jobs : job[j].token = 0
      BY <1>1, IdleFacts DEF Init, NotYet, NoToken
    <3> QED
      BY <3>1 DEF TokensGranted
  <2> QED
    BY <2>1, <2>2
<1>4. Obtaining(job) = {} /\ \A p : Making(job, p) = {}
  BY <1>1, IdleFacts DEF Obtaining, Making
<1>5. Obtained /\ MadeOnce
  <2>1. Cardinality(Obtaining(job)) = 0 /\ \A p : Cardinality(Making(job, p)) = 0
    BY <1>4, FS_EmptySet
  <2>2. /\ granted = 0 /\ requests = 0
        /\ \A p \in Pages : reviews[p] = 0 /\ sent[p] = 0
    BY DEF Init
  <2>3. granted + Cardinality(Obtaining(job)) <= requests
    BY <2>1, <2>2
  <2>4. \A p \in Pages : reviews[p] + Cardinality(Making(job, p)) <= sent[p]
    BY <2>1, <2>2
  <2> QED
    BY <2>3, <2>4 DEF Obtained, MadeOnce
<1>6. Thanks
  BY <1>1, IdleFacts DEF Thanks, Init
<1>7. OneWriter
  BY <1>1, IdleFacts DEF OneWriter, Writing, Init
<1> QED
  BY <1>2, <1>3, <1>5, <1>6, <1>7 DEF IInv

\* A request in whose place another one may begin.
Free(t) == t.at \in {"idle"} \cup Gone

Begun(kind, at, p, token) ==
  [Idle EXCEPT !.kind = kind, !.at = at, !.page = p, !.token = token]

\* A request begins: it is the answer to a page's opening, a review or a link.
LEMMA StartTyped ==
  ASSUME IInv, NEW j \in Jobs, NEW kind \in {"token", "review", "link"},
         NEW at \in {"read", "send"}, NEW p \in Pages \cup {NoPage}, NEW token \in Grants,
         Start(j, kind, at, p, token),
         NEW n, n = Begun(kind, at, p, token)
  PROVE  /\ n \in Job /\ n.kind = kind /\ n.at = at /\ n.page = p /\ n.token = token
         /\ ~n.again /\ ~n.ok
         /\ job'[j] = n /\ job' \in [Jobs -> Job] /\ OthersWeaker(j)
         /\ kind = "token" /\ p # NoPage => \A k \in Jobs \ {j} : job'[k].page # p
         /\ requests' = requests + 1 /\ requests' \in 0..MaxRequests
         /\ Free(job[j])
         /\ UNCHANGED <<row, granted, age, torn, faults>>
<1>1. /\ n \in Job /\ n.kind = kind /\ n.at = at /\ n.page = p /\ n.token = token
      /\ ~n.again /\ ~n.ok
  BY IdleFacts DEF Job, Begun
<1>2. job \in [Jobs -> Job]
  BY OfOne
<1>3. /\ job'[j] = n
      /\ \A k \in Jobs \ {j} :
           job'[k] = IF kind = "token" /\ job[k].page = p
                     THEN [job[k] EXCEPT !.page = NoPage] ELSE job[k]
      /\ job' = [k \in Jobs |-> job'[k]]
  BY DEF Start, Begun
<1>4. \A t \in Job : /\ [t EXCEPT !.page = NoPage] \in Job
                     /\ Weaker([t EXCEPT !.page = NoPage], t)
                     /\ [t EXCEPT !.page = NoPage].page = NoPage
                     /\ Weaker(t, t)
  BY DEF Job, Weaker
<1>5. \A k \in Jobs \ {j} : job'[k] \in Job /\ Weaker(job'[k], job[k])
  BY <1>2, <1>3, <1>4
<1>6. job' \in [Jobs -> Job] /\ OthersWeaker(j)
  BY <1>1, <1>3, <1>5 DEF OthersWeaker
<1>7. kind = "token" /\ p # NoPage => \A k \in Jobs \ {j} : job'[k].page # p
  <2> SUFFICES ASSUME kind = "token", p # NoPage, NEW k \in Jobs \ {j}
               PROVE  job'[k].page # p
    OBVIOUS
  <2>1. job[k] \in Job
    BY <1>2
  <2>2. [job[k] EXCEPT !.page = NoPage].page = NoPage /\ Idle.page = NoPage
    BY <1>4, <2>1, IdleFacts
  <2>3. CASE job[k].page = p
    BY <1>3, <2>2, <2>3
  <2>4. CASE job[k].page # p
    BY <1>3, <2>4
  <2> QED
    BY <2>3, <2>4
<1>8. requests' = requests + 1 /\ requests' \in 0..MaxRequests /\ Free(job[j])
  <2>1. requests' = requests + 1 /\ requests < MaxRequests /\ Free(job[j])
    BY DEF Start, Free
  <2>2. requests' \in 0..MaxRequests
    BY <2>1, BoundAssumption DEF IInv, TypeOK
  <2> QED
    BY <2>1, <2>2
<1>9. UNCHANGED <<row, granted, age, torn, faults>>
  BY DEF Start
<1> QED
  BY <1>1, <1>3, <1>6, <1>7, <1>8, <1>9

\* What a beginning leaves: all but the page and its reviews.
LEMMA StartKept ==
  ASSUME IInv, NEW j \in Jobs, OthersWeaker(j), job' \in [Jobs -> Job],
         Free(job[j]), job'[j].at \in {"read", "send"}, Shape(job'[j]),
         job'[j].token <= granted, ~job'[j].again,
         requests' = requests + 1, requests' \in 0..MaxRequests,
         page' \in [Pages -> [token : Grants \cup {NotYet}, done : BOOLEAN]],
         reviews' \in [Pages -> Nat], sent' \in [Pages -> Nat],
         \A p \in Pages : page'[p].token <= granted,
         UNCHANGED <<row, granted, age, torn, faults>>
  PROVE  /\ TypeOK' /\ OneWriter' /\ Obtained'
         /\ Shapes' /\ TokensGranted' /\ Doubts' /\ FailsForAReason'
<1>1. TypeOK'
  BY DEF IInv, TypeOK
<1>2. OneWriter'
  <2>1. j \notin Writing
    BY DEF Writing, Free
  <2> QED
    BY <2>1, WritersSame
<1>3. Obtained'
  BY <1>1, ObtainedKept
<1>4. JobKept(job'[j], granted')
  BY DEF JobKept, Doubtful
<1> QED
  BY <1>1, <1>2, <1>3, <1>4, JobsKept

LEMMA OpenPageKeeps ==
  ASSUME IInv, NEW j \in Jobs, NEW p \in Pages, OpenPage(j, p)
  PROVE  IInv'
<1>n. PICK n : n = Begun("token", "read", p, NoToken)
  OBVIOUS
<1>0. Start(j, "token", "read", p, NoToken)
  BY DEF OpenPage
<1>a. /\ "token" \in {"token", "review", "link"} /\ "read" \in {"read", "send"}
      /\ p \in Pages \cup {NoPage} /\ NoToken \in Grants
  BY IdleFacts
<1>1. /\ n.kind = "token" /\ n.at = "read" /\ n.page = p /\ n.token = NoToken
      /\ ~n.again /\ ~n.ok
      /\ job'[j] = n /\ job' \in [Jobs -> Job] /\ OthersWeaker(j)
      /\ \A k \in Jobs \ {j} : job'[k].page # p
      /\ requests' = requests + 1 /\ requests' \in 0..MaxRequests
      /\ Free(job[j])
      /\ UNCHANGED <<row, granted, age, torn, faults>>
  BY <1>n, <1>0, <1>a, StartTyped, NoPageAssumption
<1>2. /\ page' = [page EXCEPT ![p] = [token |-> NotYet, done |-> FALSE]]
      /\ reviews' = [reviews EXCEPT ![p] = 0] /\ sent' = [sent EXCEPT ![p] = 0]
  BY DEF OpenPage
<1>3. /\ page' \in [Pages -> [token : Grants \cup {NotYet}, done : BOOLEAN]]
      /\ reviews' \in [Pages -> Nat] /\ sent' \in [Pages -> Nat]
  BY <1>2 DEF IInv, TypeOK
<1>4. \A q \in Pages :
        IF q = p THEN ~page'[q].done /\ page'[q].token = NotYet /\ reviews'[q] = 0 /\ sent'[q] = 0
        ELSE page'[q] = page[q] /\ reviews'[q] = reviews[q] /\ sent'[q] = sent[q]
  BY <1>2 DEF IInv, TypeOK
<1>5. granted \in Nat
  BY Types DEF IInv
<1>6. \A q \in Pages : page'[q].token <= granted
  BY <1>4, <1>5, OfOne DEF NotYet
<1>7. Shape(n)
  BY <1>1, NoPageAssumption DEF Shape
<1>8. /\ TypeOK' /\ OneWriter' /\ Obtained'
      /\ Shapes' /\ TokensGranted' /\ Doubts' /\ FailsForAReason'
  BY <1>1, <1>3, <1>5, <1>6, <1>7, StartKept DEF NoToken
<1>9. MadeOnce'
  <2> SUFFICES ASSUME NEW q \in Pages
               PROVE  reviews'[q] + Cardinality(Making(job', q)) <= sent'[q]
    BY DEF MadeOnce
  <2>1. ~MayMake(job'[j], q)
    BY <1>1 DEF MayMake
  <2>2. q = p => \A k \in Jobs : ~MayMake(job'[k], q)
    BY <1>1, <2>1 DEF MayMake
  <2> QED
    BY <1>1, <1>4, <2>1, <2>2, MadeKept
<1>10. Thanks'
  <2>1. \A q \in Pages :
           \/ /\ reviews'[q] >= reviews[q]
              /\ page'[q].done => page[q].done \/ reviews[q] > 0
           \/ ~page'[q].done /\ \A k \in Jobs : job'[k].page = q => ~job'[k].ok
    <3>1. \A q \in Pages : reviews[q] \in Nat
      BY Types DEF IInv
    <3>2. \A q \in Pages : q # p => reviews'[q] = reviews[q] /\ page'[q] = page[q]
      BY <1>4
    <3>3. \A q \in Pages : q # p => reviews'[q] >= reviews[q]
      BY <3>1, <3>2
    <3>4. ~page'[p].done /\ \A k \in Jobs : job'[k].page = p => ~job'[k].ok
      BY <1>1, <1>4
    <3> QED
      BY <3>2, <3>3, <3>4
  <2>2. ~job'[j].ok
    BY <1>1
  <2> QED
    BY <1>1, <1>8, <2>1, <2>2, ThanksKept
<1> QED
  BY <1>8, <1>9, <1>10 DEF IInv

LEMMA SubmitKeeps ==
  ASSUME IInv, NEW j \in Jobs, NEW p \in Pages, Submit(j, p)
  PROVE  IInv'
<1> DEFINE token == page[p].token
<1>n. PICK n : n = Begun("review", "send", p, token)
  OBVIOUS
<1>0. /\ Start(j, "review", "send", p, token) /\ token # NoToken /\ token \in Grants
      /\ sent' = [sent EXCEPT ![p] = @ + 1] /\ UNCHANGED <<page, reviews>>
  BY DEF Submit, IInv, TypeOK
<1>a. /\ "review" \in {"token", "review", "link"} /\ "send" \in {"read", "send"}
      /\ p \in Pages \cup {NoPage} /\ token \in Grants
  BY <1>0
<1>1. /\ n.kind = "review" /\ n.at = "send" /\ n.page = p /\ n.token = token
      /\ ~n.again /\ ~n.ok
      /\ job'[j] = n /\ job' \in [Jobs -> Job] /\ OthersWeaker(j)
      /\ requests' = requests + 1 /\ requests' \in 0..MaxRequests
      /\ Free(job[j])
      /\ UNCHANGED <<row, granted, age, torn, faults>>
  <2> HIDE DEF token
  <2> QED
    BY <1>n, <1>0, <1>a, StartTyped
<1>2. token <= granted
  BY OfOne
<1> HIDE DEF token
<1>3. /\ page' \in [Pages -> [token : Grants \cup {NotYet}, done : BOOLEAN]]
      /\ reviews' \in [Pages -> Nat] /\ sent' \in [Pages -> Nat]
  BY <1>0 DEF IInv, TypeOK
<1>4. Shape(n)
  BY <1>0, <1>1, NoPageAssumption DEF Shape
<1>5. /\ TypeOK' /\ OneWriter' /\ Obtained'
      /\ Shapes' /\ TokensGranted' /\ Doubts' /\ FailsForAReason'
  BY <1>0, <1>1, <1>2, <1>3, <1>4, OfOne, StartKept
<1>6. MadeOnce'
  <2> SUFFICES ASSUME NEW q \in Pages
               PROVE  reviews'[q] + Cardinality(Making(job', q)) <= sent'[q]
    BY DEF MadeOnce
  <2>1. sent'[q] = IF q = p THEN sent[q] + 1 ELSE sent[q]
    BY <1>0 DEF IInv, TypeOK
  <2>2. q # p => ~MayMake(job'[j], q)
    BY <1>1 DEF MayMake
  <2> QED
    BY <1>0, <1>1, <2>1, <2>2, MadeKept
<1>7. Thanks'
  <2>1. \A q \in Pages : reviews'[q] >= reviews[q] /\ page'[q].done = page[q].done
    BY <1>0, Types DEF IInv
  <2> QED
    BY <1>1, <1>5, <2>1, ThanksKept
<1> QED
  BY <1>5, <1>6, <1>7 DEF IInv

LEMMA ConnectKeeps ==
  ASSUME IInv, NEW j \in Jobs, Connect(j)
  PROVE  IInv'
<1>n. PICK n : n = Begun("link", "read", NoPage, NoToken)
  OBVIOUS
<1>0. Start(j, "link", "read", NoPage, NoToken) /\ UNCHANGED <<page, reviews, sent>>
  BY DEF Connect
<1>a. /\ "link" \in {"token", "review", "link"} /\ "read" \in {"read", "send"}
      /\ NoPage \in Pages \cup {NoPage} /\ NoToken \in Grants
  BY IdleFacts
<1>1. /\ n.kind = "link" /\ n.at = "read" /\ n.page = NoPage /\ n.token = NoToken
      /\ ~n.again /\ ~n.ok
      /\ job'[j] = n /\ job' \in [Jobs -> Job] /\ OthersWeaker(j)
      /\ requests' = requests + 1 /\ requests' \in 0..MaxRequests
      /\ Free(job[j])
      /\ UNCHANGED <<row, granted, age, torn, faults>>
  BY <1>n, <1>0, <1>a, StartTyped
<1>2. granted \in Nat
  BY Types DEF IInv
<1>3. /\ page' \in [Pages -> [token : Grants \cup {NotYet}, done : BOOLEAN]]
      /\ reviews' \in [Pages -> Nat] /\ sent' \in [Pages -> Nat]
  BY <1>0 DEF IInv, TypeOK
<1>4. Shape(n)
  BY <1>1 DEF Shape
<1>5. /\ TypeOK' /\ OneWriter' /\ Obtained'
      /\ Shapes' /\ TokensGranted' /\ Doubts' /\ FailsForAReason'
  BY <1>0, <1>1, <1>2, <1>3, <1>4, OfOne, StartKept DEF NoToken
<1>6. MadeOnce'
  <2> SUFFICES ASSUME NEW q \in Pages
               PROVE  reviews'[q] + Cardinality(Making(job', q)) <= sent'[q]
    BY DEF MadeOnce
  <2>1. ~MayMake(job'[j], q)
    BY <1>1 DEF MayMake
  <2> QED
    BY <1>0, <1>1, <2>1, MadeKept
<1>7. Thanks'
  <2>1. \A q \in Pages : reviews'[q] >= reviews[q] /\ page'[q].done = page[q].done
    BY <1>0, Types DEF IInv
  <2> QED
    BY <1>1, <1>5, <2>1, ThanksKept
<1> QED
  BY <1>5, <1>6, <1>7 DEF IInv

\* The page learns what it asked for; the request is over.
LEMMA AnswerKeeps ==
  ASSUME IInv, NEW j \in Jobs, Answer(j)
  PROVE  IInv'
<1> DEFINE t == job[j]
<1>1. /\ t \in Job /\ job \in [Jobs -> Job] /\ t.token \in Grants /\ t.ok \in BOOLEAN
      /\ t.kind \in {"token", "review", "link"} /\ Shape(t) /\ t.token <= granted
      /\ t.at = "answer"
  BY OfOne, JobFields DEF Answer, JobKept
<1>2. /\ job' = [job EXCEPT ![j] = Idle]
      /\ UNCHANGED <<row, granted, age, reviews, sent, torn, requests, faults>>
  BY DEF Answer, Answered
<1>3. /\ job'[j] = Idle /\ job' \in [Jobs -> Job]
      /\ \A k \in Jobs \ {j} : job'[k] = job[k]
  BY <1>1, <1>2, IdleFacts
<1>4. OthersWeaker(j)
  BY <1>3 DEF OthersWeaker, Weaker
<1>5. page \in [Pages -> [token : Grants \cup {NotYet}, done : BOOLEAN]]
  BY DEF IInv, TypeOK
<1>6. ASSUME NEW p \in Pages
      PROVE  /\ page'[p] \in [token : Grants \cup {NotYet}, done : BOOLEAN]
             /\ page'[p].token <= granted
             /\ page'[p].done => page[p].done \/ reviews[p] > 0
  <2>1. page'[p] = IF p # t.page THEN page[p]
                   ELSE IF t.kind = "token" THEN [page[p] EXCEPT !.token = t.token]
                   ELSE [page[p] EXCEPT !.done = page[p].done \/ t.ok]
    BY DEF Answer
  <2>2. page[p] \in [token : Grants \cup {NotYet}, done : BOOLEAN] /\ page[p].token <= granted
    BY <1>5, OfOne
  <2>3. p = t.page /\ t.kind = "review" /\ t.ok => reviews[p] > 0
    BY OfOne
  <2>4. p = t.page => t.kind # "link"
    BY <1>1, NoPageAssumption DEF Shape
  <2> HIDE DEF t
  <2>5. CASE p # t.page
    BY <2>1, <2>2, <2>5
  <2>6. CASE p = t.page /\ t.kind = "token"
    <3>1. page'[p] = [page[p] EXCEPT !.token = t.token]
      BY <2>1, <2>6
    <3> QED
      BY <1>1, <2>2, <3>1
  <2>7. CASE p = t.page /\ t.kind = "review"
    <3> DEFINE done == page[p].done \/ t.ok
    <3>1. page'[p] = [page[p] EXCEPT !.done = done] /\ done \in BOOLEAN
      BY <1>1, <2>1, <2>2, <2>7
    <3> HIDE DEF done
    <3>2. page'[p] \in [token : Grants \cup {NotYet}, done : BOOLEAN]
          /\ page'[p].token = page[p].token /\ page'[p].done = done
      BY <2>2, <3>1
    <3> QED
      BY <2>2, <2>3, <2>7, <3>2 DEF done
  <2> QED
    BY <1>1, <2>4, <2>5, <2>6, <2>7
<1>7. page' \in [Pages -> [token : Grants \cup {NotYet}, done : BOOLEAN]]
  <2>1. page' = [p \in Pages |-> page'[p]]
    BY DEF Answer
  <2> QED
    BY <1>6, <2>1
<1>8. TypeOK'
  BY <1>2, <1>3, <1>7 DEF IInv, TypeOK
<1>9. OneWriter'
  BY <1>1, <1>2, <1>3, <1>4, IdleFacts, WritersSame DEF Writing
<1>10. JobKept(job'[j], granted')
  BY <1>2, <1>3, IdleFacts, Types DEF IInv
<1>11. ObtainStep(job'[j], job[j]) /\ \A p \in Pages : MakeStep(job'[j], job[j], p)
  BY <1>2, <1>3, IdleFacts DEF ObtainStep, MakeStep
<1>12. granted' = granted /\ job'[j].kind # "review"
  BY <1>2, <1>3, IdleFacts
<1> QED
  BY <1>4, <1>6, <1>8, <1>9, <1>10, <1>11, <1>12, AllKept

LEMMA ReadKeeps ==
  ASSUME IInv, NEW j \in Jobs, Read(j)
  PROVE  IInv'
<1> DEFINE t == job[j]
           excused == t.excused \/ row # granted \/ row = 0
           ok == ~Outdated(j)
           d == [t EXCEPT !.excused = excused]
           n == CASE t.kind = "link" -> [t EXCEPT !.at = "away"]
                  [] t.kind # "link" /\ row = 0 -> [d EXCEPT !.at = "answer", !.token = NoToken]
                  [] OTHER -> [d EXCEPT !.token = row, !.ok = ok,
                                 !.at = IF Outdated(j) THEN "refresh" ELSE "answer"]
<1>1. /\ t \in Job /\ JobKept(t, granted) /\ Shape(t) /\ ~t.again /\ t.at = "read"
      /\ t.kind \in {"token", "review", "link"} /\ t.excused \in BOOLEAN
  BY OfOne, JobFields DEF JobKept, Read, Shape
<1>2. /\ job' = [job EXCEPT ![j] = n]
      /\ UNCHANGED <<row, granted, age, page, reviews, sent, torn, requests, faults>>
  BY DEF Read, Step
<1>3. /\ row \in Grants /\ row \in Nat /\ granted \in Nat /\ row <= granted /\ row \in 0..granted
      /\ granted \in Grants
  <2>1. row \in 0..granted /\ granted \in Grants
    BY DEF IInv, TypeOK
  <2>2. row \in Nat /\ granted \in Nat /\ row <= granted
    BY Types DEF IInv
  <2> QED
    BY <2>1, <2>2, BoundAssumption DEF Grants
<1>4. excused \in BOOLEAN /\ ok \in BOOLEAN /\ (Outdated(j) <=> ~ok)
      /\ (t.kind = "review" => ~ok) /\ (row # granted \/ row = 0 => excused)
  BY DEF Outdated
<1> HIDE DEF t, ok, excused
<1>5. CASE t.kind = "link"
  <2>1. n = [t EXCEPT !.at = "away"]
    BY <1>5
  <2> HIDE DEF n
  <2>2. /\ n \in Job /\ n.at = "away" /\ n.kind = t.kind /\ n.page = t.page /\ n.token = t.token
        /\ n.again = t.again /\ n.ok = t.ok /\ n.excused = t.excused
    BY <1>1, <2>1 DEF Job
  <2>3. JobKept(n, granted)
    BY <1>1, <1>5, <2>2 DEF JobKept, Shape, Doubtful
  <2> QED
    BY <1>1, <1>2, <1>3, <1>5, <2>2, <2>3, StepQuiet DEF t, MayObtain, MayMake, IInv, TypeOK
<1>6. CASE t.kind # "link" /\ row = 0
  <2>1. n = [d EXCEPT !.at = "answer", !.token = NoToken]
    BY <1>6
  <2> HIDE DEF n
  <2>2. /\ n \in Job /\ n.at = "answer" /\ n.kind = t.kind /\ n.page = t.page /\ n.token = NoToken
        /\ n.again = t.again /\ n.ok = t.ok /\ n.excused = excused
    BY <1>1, <1>4, <2>1, IdleFacts DEF Job
  <2>3. JobKept(n, granted)
    BY <1>1, <1>3, <1>4, <1>6, <2>2 DEF JobKept, Shape, Doubtful, NoToken
  <2> QED
    BY <1>1, <1>2, <1>3, <1>6, <2>2, <2>3, StepQuiet DEF t, MayObtain, MayMake, IInv, TypeOK
<1>7. CASE t.kind # "link" /\ row # 0
  <2> DEFINE at == IF Outdated(j) THEN "refresh" ELSE "answer"
  <2>1. n = [d EXCEPT !.token = row, !.ok = ok, !.at = at]
    BY <1>7
  <2>2. at = IF ok THEN "answer" ELSE "refresh"
    BY <1>4
  <2> HIDE DEF n, at
  <2>3. /\ n \in Job /\ n.at = at /\ n.kind = t.kind /\ n.page = t.page /\ n.token = row
        /\ n.again = t.again /\ n.ok = ok /\ n.excused = excused
    BY <1>1, <1>3, <1>4, <2>1, <2>2 DEF Job
  <2>4. JobKept(n, granted)
    BY <1>1, <1>3, <1>4, <1>7, <2>2, <2>3 DEF JobKept, Shape, Doubtful, NoToken
  <2> QED
    BY <1>1, <1>2, <1>3, <1>4, <1>7, <2>2, <2>3, <2>4, StepQuiet DEF t, MayObtain, MayMake, IInv, TypeOK
<1> QED
  BY <1>5, <1>6, <1>7

\* What a refreshed token is to the request that asked for it.
LEMMA RefreshedFields ==
  ASSUME NEW j, NEW token \in Grants, NEW c \in Job, NEW n, n = Refreshed(j, token, c)
  PROVE  /\ n \in Job /\ n.kind = c.kind /\ n.page = c.page /\ n.excused = c.excused
         /\ n.token = token
         /\ c.kind = "token" =>
              n.at = "answer" /\ n.again = c.again
         /\ c.kind = "token" => (token # NoToken => n.ok) /\ (token = NoToken => ~n.ok)
         /\ c.kind # "token" /\ token = NoToken => n.at = "thrown" /\ n.again = c.again
         /\ c.kind # "token" => n.ok = c.ok
         /\ c.kind # "token" /\ token # NoToken => n.at = "send" /\ n.again
<1>1. CASE c.kind = "token"
  <2> DEFINE ok == token # NoToken
  <2>1. n = [c EXCEPT !.token = token, !.ok = ok, !.at = "answer"] /\ ok \in BOOLEAN
    BY <1>1 DEF Refreshed
  <2> HIDE DEF ok
  <2>2. /\ n \in Job /\ n.kind = c.kind /\ n.page = c.page /\ n.excused = c.excused
        /\ n.token = token /\ n.at = "answer" /\ n.again = c.again /\ n.ok = ok
    BY <2>1 DEF Job
  <2> QED
    BY <1>1, <2>2 DEF ok
<1>2. CASE c.kind # "token" /\ token = NoToken
  <2>1. n = [c EXCEPT !.token = NoToken, !.at = "thrown"]
    BY <1>2 DEF Refreshed
  <2> QED
    BY <1>2, <2>1 DEF Job
<1>3. CASE c.kind # "token" /\ token # NoToken
  <2>1. n = [c EXCEPT !.token = token, !.again = TRUE, !.at = "send"]
    BY <1>3 DEF Refreshed
  <2> QED
    BY <1>3, <2>1 DEF Job
<1> QED
  BY <1>1, <1>2, <1>3

\* The other fields of a request that is excused, or has failed.
LEMMA ExcusedFields ==
  ASSUME IInv, NEW j \in Jobs, NEW n, n = Excuse(j)
  PROVE  /\ n \in Job /\ n.excused /\ n.kind = job[j].kind /\ n.at = job[j].at
         /\ n.page = job[j].page /\ n.token = job[j].token /\ n.again = job[j].again
         /\ n.ok = job[j].ok
<1>1. job[j] \in Job
  BY OfOne
<1> QED
  BY <1>1 DEF Excuse, Job

\* A refresh that brought nothing.
LEMMA NotRefreshed ==
  ASSUME IInv, NEW j \in Jobs, job[j].at \in {"refresh", "update"},
         NEW c \in Job, c = job[j] \/ c = Excuse(j),
         c.excused, NEW n, n = Refreshed(j, NoToken, c)
  PROVE  /\ n \in Job /\ JobKept(n, granted) /\ JobKept(n, granted + 1) /\ ~MayObtain(n)
         /\ n.at \in {"answer", "thrown"}
         /\ \A p : ~MayMake(n, p)
         /\ n.kind = "review" /\ n.ok =>
              job[j].kind = "review" /\ job[j].ok /\ job[j].page = n.page
<1>1. /\ c.kind = job[j].kind /\ c.page = job[j].page /\ c.again = job[j].again
      /\ c.ok = job[j].ok /\ Shape(job[j])
  BY ExcusedFields, OfOne DEF JobKept
<1>2. /\ n \in Job /\ n.kind = c.kind /\ n.page = c.page /\ n.excused = c.excused
      /\ n.token = NoToken
      /\ c.kind = "token" =>
           n.at = "answer" /\ n.again = c.again /\ ~n.ok
      /\ c.kind # "token" => n.at = "thrown" /\ n.again = c.again
      /\ c.kind # "token" => n.ok = c.ok
  <2>1. NoToken \in Grants
    BY IdleFacts
  <2>2. n \in Job
    BY <2>1, RefreshedFields
  <2>2a. n.kind = c.kind /\ n.page = c.page /\ n.token = NoToken
    BY <2>1, RefreshedFields
  <2>2b. n.excused = c.excused
    BY <2>1, RefreshedFields
  <2>3. c.kind = "token" => n.at = "answer" /\ n.again = c.again
    BY <2>1, RefreshedFields
  <2>4. c.kind = "token" => ~n.ok
    BY <2>1, RefreshedFields
  <2>5. c.kind # "token" => n.at = "thrown" /\ n.again = c.again
    BY <2>1, RefreshedFields
  <2>6. c.kind # "token" => n.ok = c.ok
    BY <2>1, RefreshedFields
  <2> QED
    BY <2>2, <2>2a, <2>2b, <2>3, <2>4, <2>5, <2>6
<1>3. Shape(n)
  BY <1>1, <1>2 DEF Shape
<1>4. granted \in Nat
  BY Types DEF IInv
<1>6. ~MayObtain(n) /\ n.at \in {"answer", "thrown"} /\ ~Doubtful(n)
  BY <1>2 DEF MayObtain, Doubtful
<1>5. JobKept(n, granted) /\ JobKept(n, granted + 1)
  <2>1. n.token <= granted /\ n.token <= granted + 1
    BY <1>2, <1>4 DEF NoToken
  <2>2. n.excused
    BY <1>2
  <2> QED
    BY <1>3, <1>6, <2>1, <2>2 DEF JobKept
<1>7. \A p : ~MayMake(n, p)
  BY <1>6 DEF MayMake
<1> QED
  BY <1>1, <1>2, <1>5, <1>6, <1>7

\* The types of what a fault or a step of the server leaves alone.
LEMMA Bounds ==
  ASSUME IInv
  PROVE  /\ row \in 0..granted /\ torn \in BOOLEAN /\ faults \in 0..MaxFaults
         /\ \A j \in Jobs : Fault(j) => faults' \in 0..MaxFaults
BY BoundAssumption DEF IInv, TypeOK, Fault

LEMMA RefreshKeeps ==
  ASSUME IInv, NEW j \in Jobs, Refresh(j)
  PROVE  IInv'
<1> DEFINE t == job[j]
<1>1. /\ t \in Job /\ JobKept(t, granted) /\ Shape(t) /\ t.at = "refresh" /\ ~t.again
      /\ t.kind \in {"token", "review"}
  BY OfOne DEF JobKept, Refresh, Shape
<1>2. UNCHANGED <<row, page, reviews, sent, torn, requests, faults>>
  BY DEF Refresh
<1>3. granted \in Nat /\ granted \in Grants
  BY Types DEF IInv
<1>4. CASE t.token = granted
  <2> DEFINE n == [t EXCEPT !.token = granted + 1, !.at = "update"]
  <2>1. Grant(j, n)
    BY <1>4 DEF Refresh
  <2>2. granted + 1 \in Grants
    BY <1>1, GrantTyped DEF MayObtain
  <2> HIDE DEF t
  <2>3. /\ n \in Job /\ n.token = granted + 1 /\ n.at = "update" /\ n.kind = t.kind
        /\ n.page = t.page /\ n.again = t.again /\ n.ok = t.ok
    BY <1>1, <2>2 DEF Job
  <2> HIDE DEF n
  <2>4. JobKept(n, granted + 1)
    BY <1>1, <1>3, <2>3 DEF JobKept, Shape, Doubtful, NoToken
  <2>5. MayObtain(t) /\ ~MayObtain(n) /\ \A p \in Pages : MayMake(n, p) => MayMake(t, p)
    BY <1>1, <2>3 DEF MayObtain, MayMake
  <2>6. ~torn => Writing = {}
    BY <1>1, <1>4 DEF IInv, OneWriter, t
  <2> QED
    BY <1>2, <2>1, <2>3, <2>4, <2>5, <2>6, Bounds, GrantKeeps DEF t
<1>5. CASE t.token # granted
  <2>1. PICK n : n = Refreshed(j, NoToken, t)
    OBVIOUS
  <2>2. job' = [job EXCEPT ![j] = n] /\ UNCHANGED <<granted, age>>
    BY <1>5, <2>1 DEF Refresh, Step
  <2>3. t.excused
    BY <1>1, <1>5 DEF JobKept, Doubtful
  <2>4. /\ n \in Job /\ JobKept(n, granted) /\ ~MayObtain(n)
        /\ n.at \in {"answer", "thrown"} /\ \A p : ~MayMake(n, p)
    BY <1>1, <2>1, <2>3, NotRefreshed
  <2>5. n.kind = "review" /\ n.ok => t.kind = "review" /\ t.ok /\ t.page = n.page
    BY <1>1, <2>1, <2>3, NotRefreshed
  <2>6. OneWriter'
    <3>1. job'[j] = n /\ OthersWeaker(j)
      BY <2>2, OfOne DEF OthersWeaker, Weaker
    <3> QED
      BY <1>1, <1>2, <2>2, <2>4, <3>1, WritersSame DEF Writing
  <2> QED
    BY <1>2, <2>2, <2>4, <2>5, <2>6, Bounds, StepKeeps
<1> QED
  BY <1>4, <1>5

LEMMA UpdateKeeps ==
  ASSUME IInv, NEW j \in Jobs, Update(j)
  PROVE  IInv'
<1> DEFINE t == job[j]
<1>1. /\ t \in Job /\ JobKept(t, granted) /\ Shape(t) /\ t.at = "update" /\ ~t.again
      /\ t.kind \in {"token", "review"} /\ t.token # NoToken /\ t.token \in Grants /\ t.token \in Nat
      /\ j \in Writing
  BY OfOne, JobFields DEF JobKept, Update, Shape, Writing
<1>2. UNCHANGED <<granted, age, page, reviews, sent, torn, requests, faults>>
      /\ row' = IF row = 0 THEN 0 ELSE t.token
  BY DEF Update, UpdatedRow
<1>3. granted \in Nat /\ t.token <= granted /\ row' \in 0..granted
  BY <1>1, <1>2, Types DEF IInv, JobKept
<1>4. CASE row = 0
  <2>1. PICK c, n : c = Excuse(j) /\ n = Refreshed(j, NoToken, c)
    OBVIOUS
  <2>2. job' = [job EXCEPT ![j] = n]
    BY <1>4, <2>1 DEF Update, Step
  <2>3. c.excused /\ c \in Job
    BY <2>1, ExcusedFields
  <2>4. /\ n \in Job /\ JobKept(n, granted) /\ ~MayObtain(n)
        /\ n.at \in {"answer", "thrown"} /\ \A p : ~MayMake(n, p)
    BY <1>1, <2>1, <2>3, NotRefreshed
  <2>5. n.kind = "review" /\ n.ok => t.kind = "review" /\ t.ok /\ t.page = n.page
    BY <1>1, <2>1, <2>3, NotRefreshed
  <2>6. OneWriter'
    <3>1. job'[j] = n /\ OthersWeaker(j)
      BY <2>2, OfOne DEF OthersWeaker, Weaker
    <3> QED
      BY <1>1, <1>2, <1>4, <2>4, <3>1, WriterGoes
  <2> QED
    BY <1>2, <1>3, <2>2, <2>4, <2>5, <2>6, Bounds, StepKeeps
<1>5. CASE row # 0
  <2>1. PICK n : n = Refreshed(j, t.token, t)
    OBVIOUS
  <2>2. job' = [job EXCEPT ![j] = n]
    BY <1>5, <2>1 DEF Update, Step
  <2>3. n \in Job /\ n.kind = t.kind /\ n.page = t.page /\ n.token = t.token
    BY <1>1, <2>1, RefreshedFields
  <2>4. n.excused = t.excused
    BY <1>1, <2>1, RefreshedFields
  <2>5. t.kind = "token" => n.at = "answer" /\ n.again = t.again /\ n.ok
    BY <1>1, <2>1, RefreshedFields
  <2>6. t.kind = "review" => n.at = "send" /\ n.again /\ n.ok = t.ok
    BY <1>1, <2>1, RefreshedFields
  <2>7. JobKept(n, granted)
    <3>1. Shape(n)
      BY <1>1, <2>3, <2>5, <2>6 DEF Shape
    <3>2. t.token # granted => t.excused
      BY <1>1 DEF JobKept, Doubtful
    <3> QED
      BY <1>1, <1>3, <2>3, <2>4, <2>5, <2>6, <3>1, <3>2 DEF JobKept, Doubtful
  <2>8. ~MayObtain(n) /\ \A p \in Pages : MayMake(n, p) => MayMake(t, p)
    BY <1>1, <2>3, <2>5, <2>6 DEF MayObtain, MayMake
  <2>9. n.at \notin {"update", "save"}
    BY <1>1, <2>5, <2>6
  <2>10. OneWriter'
    <3>1. job'[j] = n /\ OthersWeaker(j)
      BY <2>2, OfOne DEF OthersWeaker, Weaker
    <3> QED
      BY <1>1, <1>2, <1>5, <2>9, <3>1, WriterGoes
  <2>11. n.kind = "review" /\ n.ok => t.kind = "review" /\ t.ok /\ t.page = n.page
    BY <2>3, <2>6
  <2> QED
    BY <1>2, <1>3, <2>2, <2>3, <2>7, <2>8, <2>10, <2>11, Bounds, StepKeeps
<1> QED
  BY <1>4, <1>5

\* A review that is refused is tried again, or has failed.
LEMMA RefusedFields ==
  ASSUME IInv, NEW j \in Jobs, job[j].at = "send", NEW n, n = Refused(j)
  PROVE  /\ n \in Job /\ n.kind = job[j].kind /\ n.page = job[j].page /\ n.again = job[j].again
         /\ n.token = job[j].token /\ n.ok = job[j].ok
         /\ \/ n.at = "read" /\ ~n.again /\ ~Valid(job[j].token)
            \/ n.at = "answer" /\ (job[j].excused \/ age[job[j].token] = "expired" => n.excused)
<1> DEFINE t == job[j]
           excused == t.excused \/ age[t.token] = "expired"
<1>1. t \in Job /\ excused \in BOOLEAN
  BY OfOne, JobFields
<1>2. CASE TryAgain(j)
  <2>1. n = [t EXCEPT !.at = "read"] /\ ~t.again /\ ~Valid(t.token)
    BY <1>2 DEF Refused, TryAgain
  <2> QED
    BY <1>1, <2>1 DEF Job
<1>3. CASE ~TryAgain(j)
  <2>1. n = [t EXCEPT !.at = "answer", !.excused = excused]
    BY <1>3 DEF Refused
  <2> HIDE DEF excused, t
  <2>2. /\ n \in Job /\ n.kind = t.kind /\ n.page = t.page /\ n.again = t.again
        /\ n.token = t.token /\ n.ok = t.ok /\ n.at = "answer" /\ n.excused = excused
    BY <1>1, <2>1 DEF Job
  <2> QED
    BY <2>2 DEF t, excused
<1> QED
  BY <1>2, <1>3

\* Only the second attempt ends in a refusal of the token.
LEMMA RefusedAgain ==
  ASSUME IInv, NEW j \in Jobs, ~Valid(job[j].token), Refused(j).at = "answer"
  PROVE  job[j].again
<1>1. job[j] \in Job
  BY OfOne
<1>2. TryAgain(j) => Refused(j).at = "read"
  BY <1>1 DEF Refused, Job
<1> QED
  BY <1>2 DEF TryAgain

\* A request that has its answer and no grant to write, and an excuse if it needs one.
LEMMA EndKeeps ==
  ASSUME IInv, NEW j \in Jobs, NEW n \in Job, job' = [job EXCEPT ![j] = n],
         job[j].at \in {"read", "refresh", "send", "away"},
         n.at \in {"answer", "thrown"}, n.kind = job[j].kind, n.page = job[j].page,
         n.token <= granted, n.excused, n.ok = job[j].ok,
         faults' \in 0..MaxFaults,
         UNCHANGED <<row, torn, granted, age, page, reviews, sent, requests>>
  PROVE  IInv'
<1>1. Shape(job[j])
  BY OfOne DEF JobKept
<1>2. JobKept(n, granted)
  BY <1>1 DEF JobKept, Shape, Doubtful
<1> QED
  BY <1>2, StepQuiet DEF MayObtain, MayMake

LEMMA SendKeeps ==
  ASSUME IInv, NEW j \in Jobs, Send(j)
  PROVE  IInv'
<1> DEFINE t == job[j]
<1>1. /\ t \in Job /\ JobKept(t, granted) /\ Shape(t) /\ t.at = "send" /\ t.kind = "review"
      /\ t.token # NoToken /\ t.token <= granted /\ granted \in Nat
  BY OfOne, Types DEF JobKept, Send, Shape, IInv
<1>2. UNCHANGED <<row, granted, age, page, sent, torn, requests, faults>>
  BY DEF Send
<1>3. ASSUME Made(j), Step(j, [t EXCEPT !.at = "answer", !.ok = TRUE])
      PROVE  IInv'
  <2> DEFINE n == [t EXCEPT !.at = "answer", !.ok = TRUE]
  <2>1. job' = [job EXCEPT ![j] = n]
    BY <1>3 DEF Step
  <2> HIDE DEF t
  <2>2. /\ n \in Job /\ n.at = "answer" /\ n.ok /\ n.kind = t.kind /\ n.page = t.page
        /\ n.token = t.token
    BY <1>1 DEF Job
  <2> HIDE DEF n
  <2>3. JobKept(n, granted)
    BY <1>1, <2>2 DEF JobKept, Shape, Doubtful
  <2> QED
    BY <1>1, <1>2, <1>3, <2>1, <2>2, <2>3, Bounds, MadeKeeps DEF t
<1>4. ASSUME Step(j, [Fail(j) EXCEPT !.excused = TRUE]), UNCHANGED reviews
      PROVE  IInv'
  <2>1. PICK n : n = [Fail(j) EXCEPT !.excused = TRUE]
    OBVIOUS
  <2>2. job' = [job EXCEPT ![j] = n]
    BY <1>4, <2>1 DEF Step
  <2>3. /\ n \in Job /\ n.at = "answer" /\ n.token = NoToken /\ n.excused /\ n.kind = t.kind
        /\ n.page = t.page /\ n.ok = t.ok
    BY <1>1, <2>1, IdleFacts DEF Fail, Job
  <2>4. n.token <= granted
    BY <1>1, <2>3 DEF NoToken
  <2> QED
    BY <1>1, <1>2, <1>4, <2>2, <2>3, <2>4, Bounds, EndKeeps
<1>5. ASSUME ~Valid(t.token), Step(j, Refused(j)), UNCHANGED reviews
      PROVE  IInv'
  <2>1. PICK n : n = Refused(j)
    OBVIOUS
  <2>2. job' = [job EXCEPT ![j] = n]
    BY <1>5, <2>1 DEF Step
  <2>3. /\ n \in Job /\ n.kind = t.kind /\ n.page = t.page /\ n.again = t.again
        /\ n.token = t.token /\ n.ok = t.ok
        /\ \/ n.at = "read" /\ ~n.again
           \/ n.at = "answer" /\ (t.excused \/ age[t.token] = "expired" => n.excused)
    BY <1>1, <2>1, RefusedFields
  <2>4. CASE n.at = "read"
    <3>1. ~n.again
      BY <2>3, <2>4
    <3>2. JobKept(n, granted)
      BY <1>1, <2>3, <2>4, <3>1 DEF JobKept, Shape, Doubtful
    <3>3. MayObtain(t) /\ MayMake(t, t.page)
      BY <1>1, <2>3, <3>1 DEF MayObtain, MayMake
    <3> QED
      BY <1>1, <1>2, <1>5, <2>2, <2>3, <2>4, <3>2, <3>3, Bounds, StepQuiet
  <2>5. CASE n.at = "answer"
    <3>1. n.excused
      <4>1. t.token = granted => age[t.token] = "expired"
        BY <1>5 DEF Valid
      <4>2. t.token # granted /\ t.again => t.excused
        BY <1>1 DEF JobKept, Doubtful
      <4>3. t.again
        BY <1>5, <2>1, <2>5, RefusedAgain
      <4> QED
        BY <2>3, <2>5, <4>1, <4>2, <4>3
    <3> QED
      BY <1>1, <1>2, <1>5, <2>2, <2>3, <2>5, <3>1, Bounds, EndKeeps
  <2> QED
    BY <2>3, <2>4, <2>5
<1> QED
  BY <1>3, <1>4, <1>5 DEF Send

\* A request that fails with an excuse.
Failed(j) == [Fail(j) EXCEPT !.excused = TRUE]

LEMMA FailedFields ==
  ASSUME IInv, NEW j \in Jobs, NEW n, n = Failed(j)
  PROVE  /\ n \in Job /\ n.at = "answer" /\ n.token = NoToken /\ n.token <= granted
         /\ n.token <= granted + 1 /\ n.excused
         /\ n.kind = job[j].kind /\ n.page = job[j].page /\ n.again = job[j].again
         /\ n.ok = job[j].ok
<1>1. job[j] \in Job
  BY OfOne
<1>2. n \in Job /\ n.at = "answer" /\ n.token = NoToken /\ n.kind = job[j].kind
      /\ n.page = job[j].page
  BY <1>1, IdleFacts DEF Failed, Fail, Job
<1>3. n.excused
  BY <1>1 DEF Failed, Fail, Job
<1>4. n.ok = job[j].ok
  BY <1>1 DEF Failed, Fail, Job
<1>5. n.again = job[j].again
  BY <1>1 DEF Failed, Fail, Job
<1>6. n.token <= granted /\ n.token <= granted + 1
  BY <1>2, Types DEF IInv, NoToken
<1> QED
  BY <1>2, <1>3, <1>4, <1>5, <1>6

LEMMA SaveKeeps ==
  ASSUME IInv, NEW j \in Jobs, Save(j)
  PROVE  IInv'
<1> DEFINE t == job[j]
<1>1. /\ t \in Job /\ JobKept(t, granted) /\ Shape(t) /\ t.at = "save" /\ t.kind = "link"
      /\ t.token \in Nat /\ t.token <= granted /\ granted \in Nat /\ j \in Writing
  BY OfOne, JobFields, Types DEF JobKept, Save, Shape, Writing, IInv
<1>2. UNCHANGED <<granted, age, page, reviews, sent, torn, requests, faults>>
  BY DEF Save
<1>3. CASE row = 0
  <2> DEFINE n == [t EXCEPT !.at = "answer", !.ok = TRUE]
  <2>1. job' = [job EXCEPT ![j] = n] /\ row' = t.token
    BY <1>3 DEF Save, Step
  <2> HIDE DEF t
  <2>2. /\ n \in Job /\ n.at = "answer" /\ n.ok /\ n.kind = t.kind /\ n.page = t.page
        /\ n.token = t.token
    BY <1>1 DEF Job
  <2> HIDE DEF n
  <2>3. JobKept(n, granted)
    BY <1>1, <2>2 DEF JobKept, Shape, Doubtful
  <2>4. OneWriter'
    <3>1. job'[j] = n /\ OthersWeaker(j)
      BY <2>1, OfOne DEF OthersWeaker, Weaker
    <3> QED
      BY <1>1, <1>2, <2>1, <2>2, <3>1, WriterGoes DEF t
  <2>5. ~MayObtain(n) /\ \A p \in Pages : ~MayMake(n, p)
    BY <2>2 DEF MayObtain, MayMake
  <2>6. row' \in 0..granted
    BY <1>1, <2>1
  <2> QED
    BY <1>1, <1>2, <2>1, <2>2, <2>3, <2>4, <2>5, <2>6, Bounds, StepKeeps
<1>4. CASE row # 0
  <2>1. PICK n : n = Failed(j)
    OBVIOUS
  <2>2. job' = [job EXCEPT ![j] = n] /\ row' = row
    BY <1>4, <2>1 DEF Save, Step, Failed
  <2>3. n \in Job /\ n.at = "answer" /\ n.token <= granted /\ n.kind = t.kind /\ n.page = t.page
    BY <2>1, FailedFields
  <2>4. n.excused
    BY <2>1, FailedFields
  <2>5. JobKept(n, granted)
    BY <1>1, <2>3, <2>4 DEF JobKept, Shape, Doubtful
  <2>6. torn
    BY <1>1, <1>4 DEF IInv, OneWriter
  <2>7. OneWriter'
    BY <1>2, <2>6 DEF OneWriter
  <2>8. ~MayObtain(n) /\ \A p \in Pages : ~MayMake(n, p)
    BY <2>3 DEF MayObtain, MayMake
  <2> QED
    BY <1>1, <1>2, <2>2, <2>3, <2>5, <2>7, <2>8, Bounds, StepKeeps
<1> QED
  BY <1>3, <1>4

\* Where a grant is made by authorising and nothing is torn, no other grant is about.
LEMMA AcrossNothing ==
  ASSUME IInv, NEW j \in Jobs, j \notin Writing, torn' = Across(j)
  PROVE  /\ torn' \in BOOLEAN
         /\ ~torn' => row = 0 /\ Writing = {}
BY DEF Across, Writing

LEMMA AuthoriseKeeps ==
  ASSUME IInv, NEW j \in Jobs, Authorise(j)
  PROVE  IInv'
<1> DEFINE t == job[j]
           n == [t EXCEPT !.token = granted + 1, !.at = "save"]
<1>1. /\ t \in Job /\ JobKept(t, granted) /\ Shape(t) /\ t.at = "away" /\ t.kind = "link"
      /\ granted \in Nat
  BY OfOne, Types DEF JobKept, Authorise, Shape, IInv
<1>2. /\ Grant(j, n) /\ torn' = Across(j)
      /\ UNCHANGED <<row, page, reviews, sent, requests, faults>>
  BY DEF Authorise
<1>3. granted + 1 \in Grants /\ MayObtain(t)
  BY <1>1, GrantTyped DEF MayObtain
<1> HIDE DEF t
<1>4. /\ n \in Job /\ n.token = granted + 1 /\ n.at = "save" /\ n.kind = t.kind
      /\ n.page = t.page
  BY <1>1, <1>3 DEF Job
<1> HIDE DEF n
<1>5. JobKept(n, granted + 1)
  BY <1>1, <1>4 DEF JobKept, Shape, Doubtful, NoToken
<1>6. ~MayObtain(n) /\ \A p \in Pages : ~MayMake(n, p)
  BY <1>4 DEF MayObtain, MayMake
<1>7. torn' \in BOOLEAN /\ (~torn' => row = 0 /\ Writing = {})
  BY <1>1, <1>2, AcrossNothing DEF t, Writing
<1> QED
  BY <1>1, <1>2, <1>3, <1>4, <1>5, <1>6, <1>7, Bounds, GrantKeeps DEF t

LEMMA AbandonKeeps ==
  ASSUME IInv, NEW j \in Jobs, Abandon(j)
  PROVE  IInv'
<1>1. /\ job[j].at = "away" /\ job' = [job EXCEPT ![j] = Idle] /\ granted \in Nat
      /\ UNCHANGED <<row, granted, age, page, reviews, sent, torn, requests, faults>>
  BY Types DEF Abandon, Answered, IInv
<1>2. OneWriter'
  <2>1. job'[j] = Idle /\ OthersWeaker(j)
    BY <1>1, OfOne DEF OthersWeaker, Weaker
  <2> QED
    BY <1>1, <2>1, IdleFacts, WritersSame DEF Writing
<1> QED
  BY <1>1, <1>2, IdleFacts, Bounds, StepKeeps

LEMMA DisconnectKeeps ==
  ASSUME IInv, Disconnect
  PROVE  IInv'
<1>1. /\ row' = 0 /\ torn' = (torn /\ Writing # {})
      /\ UNCHANGED <<granted, age, page, reviews, sent, job, requests, faults>>
  BY DEF Disconnect
<1>2. TypeOK'
  BY <1>1, Types DEF IInv, TypeOK
<1>3. Shapes' /\ TokensGranted' /\ Doubts' /\ FailsForAReason'
  BY <1>1 DEF IInv, Shapes, TokensGranted, Doubts, FailsForAReason
<1>4. Obtained' /\ MadeOnce' /\ Thanks'
  BY <1>1 DEF IInv, Obtained, Obtaining, MadeOnce, Making, Thanks
<1>5. OneWriter'
  <2> SUFFICES ASSUME ~torn' PROVE OneWriter'
    BY DEF OneWriter
  <2>1. Writing' = Writing /\ Writing \subseteq Jobs
    BY <1>1 DEF Writing
  <2>2. \A j \in Writing : job[j].token # 0
    BY DEF IInv, Shapes, Shape, Writing, NoToken
  <2>3. CASE ~torn
    BY <1>1, <2>1, <2>2, <2>3 DEF IInv, OneWriter
  <2>4. CASE Writing = {}
    BY <1>1, <2>1, <2>4 DEF OneWriter
  <2> QED
    BY <1>1, <2>3, <2>4
<1> QED
  BY <1>2, <1>3, <1>4, <1>5 DEF IInv

LEMMA GrowOldKeeps ==
  ASSUME IInv, NEW g \in Grants, GrowOld(g)
  PROVE  IInv'
<1>1. UNCHANGED <<row, granted, page, reviews, sent, job, torn, requests, faults>>
  BY DEF GrowOld
<1>2. age' \in [Grants -> Ages]
  BY DEF GrowOld, IInv, TypeOK, Ages
<1>3. TypeOK'
  BY <1>1, <1>2 DEF IInv, TypeOK
<1>4. Shapes' /\ TokensGranted' /\ Doubts' /\ FailsForAReason'
  BY <1>1 DEF IInv, Shapes, TokensGranted, Doubts, FailsForAReason
<1>5. Obtained' /\ MadeOnce' /\ Thanks'
  BY <1>1 DEF IInv, Obtained, Obtaining, MadeOnce, Making, Thanks
<1>6. OneWriter'
  BY <1>1 DEF IInv, OneWriter, Writing
<1> QED
  BY <1>3, <1>4, <1>5, <1>6 DEF IInv

LEMMA StatementFailsKeeps ==
  ASSUME IInv, NEW j \in Jobs, StatementFails(j)
  PROVE  IInv'
<1> DEFINE t == job[j]
<1>1. /\ t \in Job /\ JobKept(t, granted) /\ Shape(t) /\ t.at \in {"read", "update", "save"}
  BY OfOne DEF JobKept, StatementFails
<1>2. /\ UNCHANGED <<row, granted, age, page, reviews, sent, requests>> /\ Fault(j)
      /\ torn' = (torn \/ (t.at = "update" /\ row # 0))
  BY DEF StatementFails, Fault
<1>3. torn' \in BOOLEAN
  BY <1>2, Bounds
<1>4. CASE t.at = "read"
  <2> DEFINE at == IF t.kind # "review" THEN "thrown" ELSE "answer"
             n == [Failed(j) EXCEPT !.at = at]
  <2>1. PICK c : c = Failed(j)
    OBVIOUS
  <2>2. /\ c \in Job /\ c.at = "answer" /\ c.token <= granted /\ c.kind = t.kind /\ c.page = t.page
    BY <2>1, FailedFields
  <2>3. c.excused
    BY <2>1, FailedFields
  <2>4. c.ok = t.ok
    BY <2>1, FailedFields
  <2>5. job' = [job EXCEPT ![j] = n]
    <3>1. Fail(j).at = "answer"
      BY <1>1 DEF Fail, Job
    <3> QED
      BY <1>4, <3>1 DEF StatementFails, Step, Failed
  <2>6. n = [c EXCEPT !.at = at]
    BY <2>1
  <2>7. at \in {"thrown", "answer"}
    OBVIOUS
  <2> HIDE DEF n, at
  <2>8. n \in Job /\ n.at = at /\ n.token <= granted /\ n.kind = t.kind /\ n.page = t.page
    BY <2>2, <2>6, <2>7 DEF Job
  <2>9. n.excused
    BY <2>2, <2>3, <2>6 DEF Job
  <2>10. n.ok = t.ok
    BY <2>2, <2>4, <2>6 DEF Job
  <2>11. torn' = torn
    BY <1>2, <1>4, Bounds
  <2> QED
    BY <1>2, <1>4, <2>5, <2>7, <2>8, <2>9, <2>10, <2>11, Bounds, EndKeeps
<1>5. CASE t.at = "update"
  <2>1. PICK c, n : c = Excuse(j) /\ n = Refreshed(j, NoToken, c)
    OBVIOUS
  <2>2. job' = [job EXCEPT ![j] = n]
    BY <1>5, <2>1 DEF StatementFails, Step
  <2>3. c.excused /\ c \in Job
    BY <2>1, ExcusedFields
  <2>4. /\ n \in Job /\ JobKept(n, granted) /\ ~MayObtain(n)
        /\ n.at \in {"answer", "thrown"} /\ \A p : ~MayMake(n, p)
    BY <1>5, <2>1, <2>3, NotRefreshed
  <2>5. n.kind = "review" /\ n.ok => t.kind = "review" /\ t.ok /\ t.page = n.page
    BY <1>5, <2>1, <2>3, NotRefreshed
  <2>6. OneWriter'
    <3>1. job'[j] = n /\ OthersWeaker(j)
      BY <2>2, OfOne DEF OthersWeaker, Weaker
    <3>2. j \in Writing
      BY <1>5 DEF Writing
    <3>3. (torn => torn') /\ (~torn' => row = 0)
      BY <1>2, <1>5
    <3> QED
      BY <1>2, <2>4, <3>1, <3>2, <3>3, WriterGoes
  <2> QED
    BY <1>2, <1>3, <2>2, <2>4, <2>5, <2>6, Bounds, StepKeeps
<1>6. CASE t.at = "save"
  <2>1. PICK n : n = Failed(j)
    OBVIOUS
  <2>2. /\ n \in Job /\ n.at = "answer" /\ n.token <= granted /\ n.kind = t.kind /\ n.page = t.page
    BY <2>1, FailedFields
  <2>3. n.excused
    BY <2>1, FailedFields
  <2>4. job' = [job EXCEPT ![j] = n]
    <3>1. [Fail(j) EXCEPT !.excused = TRUE, !.at = Fail(j).at] = Failed(j)
      <4>1. \A r \in Job : [r EXCEPT !.excused = TRUE, !.at = r.at] = [r EXCEPT !.excused = TRUE]
        BY DEF Job
      <4>2. Fail(j) \in Job
        BY <1>1, IdleFacts DEF Fail, Job
      <4> QED
        BY <4>1, <4>2 DEF Failed
    <3> QED
      BY <1>6, <2>1, <3>1 DEF StatementFails, Step
  <2>5. n.kind = "link" /\ JobKept(n, granted)
    BY <1>1, <1>6, <2>2, <2>3 DEF JobKept, Shape, Doubtful
  <2>6. OneWriter'
    <3>1. job'[j] = n /\ OthersWeaker(j)
      BY <2>4, OfOne DEF OthersWeaker, Weaker
    <3>2. j \in Writing
      BY <1>6 DEF Writing
    <3>3. torn' = torn /\ (~torn => row = 0)
      BY <1>2, <1>6, <3>2, Bounds DEF IInv, OneWriter
    <3> QED
      BY <1>2, <2>2, <3>1, <3>2, <3>3, WriterGoes
  <2>7. ~MayObtain(n) /\ \A p \in Pages : ~MayMake(n, p)
    BY <2>2 DEF MayObtain, MayMake
  <2> QED
    BY <1>2, <1>3, <2>2, <2>4, <2>5, <2>6, <2>7, Bounds, StepKeeps
<1> QED
  BY <1>1, <1>4, <1>5, <1>6

LEMMA UnreachableKeeps ==
  ASSUME IInv, NEW j \in Jobs, Unreachable(j)
  PROVE  IInv'
<1> DEFINE t == job[j]
<1>1. /\ t \in Job /\ t.at \in {"refresh", "send"} /\ granted \in Nat
  BY OfOne, Types DEF Unreachable, IInv
<1>2. UNCHANGED <<row, torn, granted, age, page, reviews, sent, requests>> /\ Fault(j)
  BY DEF Unreachable, Fault
<1>3. CASE t.at = "refresh"
  <2>1. PICK c, n : c = Excuse(j) /\ n = Refreshed(j, NoToken, c)
    OBVIOUS
  <2>2. job' = [job EXCEPT ![j] = n]
    BY <1>3, <2>1 DEF Unreachable, Step
  <2>3. c.excused /\ c \in Job
    BY <2>1, ExcusedFields
  <2>4. /\ n \in Job /\ JobKept(n, granted) /\ ~MayObtain(n)
        /\ n.at \in {"answer", "thrown"} /\ \A p : ~MayMake(n, p)
    BY <1>3, <2>1, <2>3, NotRefreshed
  <2>5. n.kind = "review" /\ n.ok => t.kind = "review" /\ t.ok /\ t.page = n.page
    BY <1>3, <2>1, <2>3, NotRefreshed
  <2>6. OneWriter'
    <3>1. job'[j] = n /\ OthersWeaker(j)
      BY <2>2, OfOne DEF OthersWeaker, Weaker
    <3> QED
      BY <1>2, <1>3, <2>4, <3>1, WritersSame DEF Writing
  <2> QED
    BY <1>2, <2>2, <2>4, <2>5, <2>6, Bounds, StepKeeps
<1>4. CASE t.at = "send"
  <2>1. PICK r : r = Refused(j)
    OBVIOUS
  <2>2. r \in Job /\ r.kind = t.kind /\ r.page = t.page
    BY <1>4, <2>1, RefusedFields
  <2>3. r.ok = t.ok
    BY <1>4, <2>1, RefusedFields
  <2> DEFINE n == [r EXCEPT !.at = "answer", !.token = NoToken, !.excused = TRUE]
  <2>4. job' = [job EXCEPT ![j] = n]
    BY <1>4, <2>1 DEF Unreachable, Step
  <2>5. n \in Job /\ n.at = "answer" /\ n.token = NoToken /\ n.kind = t.kind /\ n.page = t.page
    BY <2>2, IdleFacts DEF Job
  <2>6. n.excused
    BY <2>2 DEF Job
  <2>7. n.ok = t.ok
    BY <2>2, <2>3 DEF Job
  <2>8. n.token <= granted
    BY <1>1, <2>5 DEF NoToken
  <2> HIDE DEF n
  <2> QED
    BY <1>2, <1>4, <2>4, <2>5, <2>6, <2>7, <2>8, Bounds, EndKeeps
<1> QED
  BY <1>1, <1>3, <1>4

LEMMA AnswerLostKeeps ==
  ASSUME IInv, NEW j \in Jobs, AnswerLost(j)
  PROVE  IInv'
<1> DEFINE t == job[j]
<1>1. t \in Job /\ JobKept(t, granted) /\ Shape(t) /\ granted \in Nat
  BY OfOne, Types DEF JobKept, IInv
<1>2. UNCHANGED <<row, page, sent, requests>> /\ Fault(j)
  BY DEF AnswerLost, Fault
<1>3. ASSUME t.at = "refresh", t.token = granted, torn' = (torn \/ row # 0),
             Grant(j, Refreshed(j, NoToken, Excuse(j))), UNCHANGED reviews
      PROVE  IInv'
  <2>1. PICK c, n : c = Excuse(j) /\ n = Refreshed(j, NoToken, c)
    OBVIOUS
  <2>2. Grant(j, n)
    BY <1>3, <2>1
  <2>3. c.excused /\ c \in Job
    BY <2>1, ExcusedFields
  <2>4. /\ n \in Job /\ JobKept(n, granted + 1) /\ ~MayObtain(n)
        /\ n.at \in {"answer", "thrown"} /\ \A p : ~MayMake(n, p)
    BY <1>3, <2>1, <2>3, NotRefreshed
  <2>5. n.kind = "review" /\ n.ok => t.kind = "review" /\ t.ok /\ t.page = n.page
    BY <1>3, <2>1, <2>3, NotRefreshed
  <2>6. torn' \in BOOLEAN /\ (~torn' => row = 0 /\ Writing = {})
    BY <1>3, Bounds DEF IInv, OneWriter
  <2>7. MayObtain(t)
    BY <1>3 DEF MayObtain
  <2> QED
    BY <1>2, <1>3, <2>2, <2>4, <2>5, <2>6, <2>7, Bounds, GrantKeeps
<1>4. ASSUME t.at = "send", Valid(t.token), Made(j),
             Step(j, [Refused(j) EXCEPT !.excused = TRUE]), UNCHANGED <<granted, age, torn>>
      PROVE  IInv'
  <2>1. PICK r : r = Refused(j)
    OBVIOUS
  <2>2. r \in Job /\ r.kind = t.kind /\ r.page = t.page /\ r.token = t.token /\ r.at = "answer"
    BY <1>4, <2>1, RefusedFields
  <2> DEFINE n == [r EXCEPT !.excused = TRUE]
  <2>3. job' = [job EXCEPT ![j] = n]
    BY <1>4, <2>1 DEF Step
  <2>4. n \in Job /\ n.kind = t.kind /\ n.page = t.page /\ n.token = t.token /\ n.at = "answer"
    BY <2>2 DEF Job
  <2>5. n.excused
    BY <2>2 DEF Job
  <2> HIDE DEF n
  <2>6. JobKept(n, granted)
    BY <1>1, <2>4, <2>5 DEF JobKept, Shape, Doubtful
  <2> QED
    BY <1>2, <1>4, <2>3, <2>4, <2>6, Bounds, MadeKeeps
<1>5. ASSUME t.at = "away", torn' = Across(j), Grant(j, [Fail(j) EXCEPT !.excused = TRUE]),
             UNCHANGED reviews
      PROVE  IInv'
  <2>1. PICK n : n = Failed(j)
    OBVIOUS
  <2>2. Grant(j, n)
    BY <1>5, <2>1 DEF Failed
  <2>3. /\ n \in Job /\ n.at = "answer" /\ n.token <= granted + 1 /\ n.kind = t.kind
        /\ n.page = t.page
    BY <2>1, FailedFields
  <2>4. n.excused
    BY <2>1, FailedFields
  <2>5. t.kind = "link" /\ JobKept(n, granted + 1)
    BY <1>1, <1>5, <2>3, <2>4 DEF JobKept, Shape, Doubtful
  <2>6. torn' \in BOOLEAN /\ (~torn' => row = 0 /\ Writing = {})
    BY <1>5, AcrossNothing DEF Writing
  <2>7. MayObtain(t) /\ ~MayObtain(n) /\ \A p \in Pages : ~MayMake(n, p)
    BY <1>5, <2>3 DEF MayObtain, MayMake
  <2> QED
    BY <1>2, <1>5, <2>2, <2>3, <2>5, <2>6, <2>7, Bounds, GrantKeeps
<1> QED
  BY <1>3, <1>4, <1>5 DEF AnswerLost

\* What the end of the process leaves of a request.
LEMMA CutFields ==
  ASSUME NEW t \in Job, NEW n, n = Cut(t)
  PROVE  /\ n \in Job /\ ~n.again /\ ~n.ok /\ n.token \in {NoToken, t.token}
         /\ n.excused <=> (t.excused \/ t.at # "thrown")
         /\ n.at \in Gone
         /\ n.at = "late refresh" => t.at = "refresh"
         /\ n.at = "late link" => t.at = "away"
         /\ n.at = "late send" => t.at = "send" /\ n.kind = "review" /\ n.page = t.page
         /\ n.at # "late send" => n.kind = "token" /\ n.page = NoPage
         /\ t.at \in OnTheWay => n.at = "cut"
<1> DEFINE over == [Idle EXCEPT !.at = "cut", !.excused = t.excused \/ t.at # "thrown"]
<1>1. over \in Job
  <2>1. Idle \in Job /\ t.excused \in BOOLEAN
    BY IdleFacts, JobFields
  <2> QED
    BY <2>1 DEF Job
<1>2. /\ over.at = "cut" /\ ~over.again /\ ~over.ok /\ over.token = NoToken
      /\ over.kind = "token" /\ over.page = NoPage
      /\ over.excused <=> (t.excused \/ t.at # "thrown")
  BY IdleFacts, JobFields DEF Job
<1>3. n = CASE t.at = "refresh" /\ t.token = granted ->
                 [over EXCEPT !.at = "late refresh", !.token = t.token]
            [] t.at = "send" /\ Valid(t.token) ->
                 [over EXCEPT !.at = "late send", !.kind = "review", !.page = t.page, !.token = t.token]
            [] t.at = "away" -> [over EXCEPT !.at = "late link"]
            [] OTHER -> over
  BY DEF Cut
<1> HIDE DEF over
<1>4. CASE n = [over EXCEPT !.at = "late refresh", !.token = t.token] /\ t.at = "refresh"
  BY <1>1, <1>2, <1>4, JobFields DEF Job, Gone, OnTheWay
<1>5. CASE /\ t.at = "send"
           /\ n = [over EXCEPT !.at = "late send", !.kind = "review", !.page = t.page,
                               !.token = t.token]
  BY <1>1, <1>2, <1>5, JobFields DEF Job, Gone, OnTheWay
<1>6. CASE n = [over EXCEPT !.at = "late link"] /\ t.at = "away"
  BY <1>1, <1>2, <1>6 DEF Job, Gone, OnTheWay
<1>7. CASE n = over
  BY <1>1, <1>2, <1>7 DEF Gone
<1> QED
  BY <1>3, <1>4, <1>5, <1>6, <1>7

\* All requests the process is at work on are over: none of them is about to write.
LEMMA ProcessEndKeeps ==
  ASSUME IInv, End, faults' \in 0..MaxFaults
  PROVE  IInv'
<1>1. PICK back \in SUBSET {j \in Jobs : job[j].at = "away"} :
        job' = [j \in Jobs |-> IF j \in Ended(back) THEN Cut(job[j]) ELSE job[j]]
  BY DEF End
<1>2. /\ torn' = (torn \/ (row # 0 /\ \E j \in Jobs : job[j].at = "update"))
      /\ UNCHANGED <<row, granted, age, page, reviews, sent, requests>>
  BY DEF End
<1>3. \A j \in Jobs : job'[j] = IF j \in Ended(back) THEN Cut(job[j]) ELSE job[j]
  BY <1>1
<1>4. \A j \in Jobs : /\ job[j] \in Job /\ JobKept(job[j], granted) /\ Shape(job[j])
                      /\ j \in Ended(back) <=> job[j].at \in Working \cup {"thrown"} \/ j \in back
  BY OfOne DEF JobKept, Ended
<1>5. granted \in Nat
  BY Types DEF IInv
\* One request after the end, and before it.
<1>6. ASSUME NEW j \in Jobs
      PROVE  /\ job'[j] \in Job /\ JobKept(job'[j], granted)
             /\ job'[j].at \notin {"update", "save"}
             /\ MayObtain(job'[j]) => MayObtain(job[j])
             /\ \A p : MayMake(job'[j], p) => MayMake(job[j], p)
             /\ job'[j].ok => job'[j] = job[j]
  <2> DEFINE t == job[j]
             n == job'[j]
  <2>1. t \in Job /\ JobKept(t, granted) /\ Shape(t)
    BY <1>4
  <2>2. CASE j \in Ended(back)
    <3>1. n = Cut(t) /\ t.at \in Working \cup {"thrown", "away"}
      BY <1>3, <1>4, <2>2
    <3>2. /\ n \in Job /\ ~n.again /\ ~n.ok /\ n.token \in {NoToken, t.token}
          /\ n.excused <=> (t.excused \/ t.at # "thrown")
          /\ n.at \in Gone
          /\ n.at = "late refresh" => t.at = "refresh"
          /\ n.at = "late link" => t.at = "away"
          /\ n.at = "late send" => t.at = "send" /\ n.kind = "review" /\ n.page = t.page
          /\ n.at # "late send" => n.kind = "token" /\ n.page = NoPage
      <4> HIDE DEF n, t
      <4> QED
        BY <2>1, <3>1, CutFields
    <3>3. t.token <= granted /\ t.token \in Nat /\ (t.at = "thrown" => t.excused)
          /\ (t.at = "send" => t.kind = "review")
      BY <2>1, JobFields DEF JobKept, Shape
    <3> HIDE DEF n, t
    <3>4. n.excused /\ n.token <= granted
      <4>1. n.excused /\ (n.token = 0 \/ n.token = t.token)
        BY <3>2, <3>3 DEF NoToken
      <4> QED
        BY <1>5, <3>3, <4>1
    <3>5. Shape(n) /\ ~Doubtful(n)
      BY <3>2, <3>4 DEF Shape, Doubtful, Gone, OnTheWay
    <3>6. JobKept(n, granted)
      BY <3>4, <3>5 DEF JobKept
    <3>7. n.at \notin {"update", "save"}
      BY <3>2 DEF Gone, OnTheWay
    <3>8. MayObtain(n) => MayObtain(t)
      BY <3>2 DEF MayObtain, Gone, OnTheWay
    <3>9. \A p : MayMake(n, p) => MayMake(t, p)
      BY <3>2, <3>3 DEF MayMake, Gone, OnTheWay
    <3> QED
      BY <3>2, <3>6, <3>7, <3>8, <3>9 DEF n, t
  <2>3. CASE j \notin Ended(back)
    BY <1>3, <1>4, <2>1, <2>3 DEF Working
  <2> QED
    BY <2>2, <2>3
<1>7. TypeOK'
  <2>1. job' \in [Jobs -> Job]
    BY <1>1, <1>3, <1>6
  <2> QED
    BY <1>2, <2>1 DEF IInv, TypeOK
<1>8. Shapes' /\ TokensGranted' /\ Doubts' /\ FailsForAReason'
  BY <1>2, <1>6, OfOne DEF JobKept, Shapes, TokensGranted, Doubts, FailsForAReason, IInv
<1>9. Obtained'
  <2>1. Obtaining(job') \subseteq Obtaining(job) /\ Obtaining(job) \subseteq Jobs
    BY <1>6 DEF Obtaining
  <2>2. Cardinality(Obtaining(job')) <= Cardinality(Obtaining(job))
    BY <2>1, JobsAssumption, FS_Subset
  <2>3. Cardinality(Obtaining(job')) \in Nat /\ Cardinality(Obtaining(job)) \in Nat
    BY <2>1, JobsAssumption, FS_Subset, FS_CardinalityType
  <2>4. granted + Cardinality(Obtaining(job)) <= requests /\ requests \in Nat
    BY Types DEF IInv, Obtained
  <2> HIDE DEF Obtaining
  <2>5. granted + Cardinality(Obtaining(job')) <= requests
    BY <1>5, <2>2, <2>3, <2>4
  <2> QED
    BY <1>2, <2>5 DEF Obtained
<1>10. MadeOnce'
  <2> SUFFICES ASSUME NEW p \in Pages
               PROVE  reviews'[p] + Cardinality(Making(job', p)) <= sent'[p]
    BY DEF MadeOnce
  <2>1. Making(job', p) \subseteq Making(job, p) /\ Making(job, p) \subseteq Jobs
    BY <1>6 DEF Making
  <2>2. Cardinality(Making(job', p)) <= Cardinality(Making(job, p))
    BY <2>1, JobsAssumption, FS_Subset
  <2>3. Cardinality(Making(job', p)) \in Nat /\ Cardinality(Making(job, p)) \in Nat
    BY <2>1, JobsAssumption, FS_Subset, FS_CardinalityType
  <2>4. reviews[p] + Cardinality(Making(job, p)) <= sent[p]
        /\ reviews[p] \in Nat /\ sent[p] \in Nat
    BY Types DEF IInv, MadeOnce
  <2> HIDE DEF Making
  <2>5. reviews[p] + Cardinality(Making(job', p)) <= sent[p]
    BY <2>2, <2>3, <2>4
  <2> QED
    BY <1>2, <2>5
<1>11. Thanks'
  BY <1>2, <1>6 DEF IInv, Thanks
<1>12. OneWriter'
  <2>1. Writing' = {} /\ \A i \in Writing' : FALSE
    BY <1>6 DEF Writing
  <2>2. ~torn' => row \in {0, granted}
    <3> SUFFICES ASSUME ~torn' PROVE row \in {0, granted}
      OBVIOUS
    <3>1. ~torn /\ (row # 0 => \A j \in Jobs : job[j].at # "update")
      BY <1>2
    <3>2. CASE Writing = {}
      BY <3>1, <3>2 DEF IInv, OneWriter
    <3>3. CASE Writing # {}
      <4>1. PICK j \in Jobs : j \in Writing /\ job[j].at \in {"update", "save"}
        BY <3>3 DEF Writing
      <4>2. job[j].at = "save" => row = 0
        BY <3>1, <4>1 DEF IInv, OneWriter
      <4> QED
        BY <3>1, <4>1, <4>2
    <3> QED
      BY <3>2, <3>3
  <2> QED
    BY <1>2, <2>1, <2>2 DEF OneWriter
<1> QED
  BY <1>7, <1>8, <1>9, <1>10, <1>11, <1>12 DEF IInv

\* CritiqueBrainz does what it was asked to before the process ended.
LEMMA LateKeeps ==
  ASSUME IInv, NEW j \in Jobs, Late(j)
  PROVE  IInv'
<1> DEFINE t == job[j]
<1>n. PICK n : n = Cut(t)
  OBVIOUS
<1>1. /\ t \in Job /\ granted \in Nat
      /\ t.at \in {"late link", "late refresh", "late send"} /\ t.at \in Gone
      /\ UNCHANGED <<row, page, sent, requests, faults>>
  BY OfOne, Types DEF Late, IInv, Gone, OnTheWay
<1>2. /\ n \in Job /\ ~n.again /\ ~n.ok /\ n.token \in {NoToken, t.token}
      /\ n.excused /\ n.at = "cut" /\ n.kind = "token" /\ n.page = NoPage
  <2>1. t \in Job /\ t.at \in OnTheWay /\ t.at # "thrown"
    BY <1>1
  <2> HIDE DEF t
  <2>2. /\ n \in Job /\ ~n.again /\ ~n.ok /\ n.token \in {NoToken, t.token}
        /\ n.excused <=> (t.excused \/ t.at # "thrown")
        /\ n.at # "late send" => n.kind = "token" /\ n.page = NoPage
        /\ t.at \in OnTheWay => n.at = "cut"
    BY <1>n, <2>1, CutFields
  <2>3. n.at = "cut" /\ n.excused
    BY <2>1, <2>2
  <2> QED
    BY <2>2, <2>3
<1>3. t.token <= granted /\ t.token \in Nat
  BY <1>1, OfOne, JobFields DEF JobKept
<1> HIDE DEF t
<1>4. JobKept(n, granted) /\ JobKept(n, granted + 1)
  <2>1. (n.token = 0 \/ n.token = t.token) /\ granted \in Nat
    BY <1>1, <1>2 DEF NoToken
  <2>2. n.token <= granted /\ n.token <= granted + 1
    BY <1>3, <2>1
  <2> QED
    BY <1>2, <2>2 DEF JobKept, Shape, Doubtful
<1>5. ~MayObtain(n) /\ \A p : ~MayMake(n, p)
  BY <1>2 DEF MayObtain, MayMake
<1>6. faults' \in 0..MaxFaults
  BY <1>1, Bounds
<1>7. CASE /\ t.at \in {"late link", "late refresh"}
           /\ torn' = Across(j) /\ Grant(j, n) /\ UNCHANGED reviews
  <2>1. torn' \in BOOLEAN /\ (~torn' => row = 0 /\ Writing = {})
    BY <1>7, AcrossNothing DEF t, Writing
  <2>2. MayObtain(job[j])
    BY <1>7 DEF MayObtain, t
  <2> QED
    BY <1>1, <1>2, <1>4, <1>5, <1>6, <1>7, <2>1, <2>2, GrantKeeps
<1>8. CASE /\ t.at = "late send" /\ Made(j) /\ job' = [job EXCEPT ![j] = n]
           /\ UNCHANGED <<granted, age, torn>>
  BY <1>1, <1>2, <1>4, <1>6, <1>8, MadeKeeps DEF t
<1> QED
  BY <1>n, <1>7, <1>8 DEF Late, Step, t

LEMMA EndOfCrash ==
  ASSUME IInv, Crash
  PROVE  IInv'
<1>1. faults' \in 0..MaxFaults
  BY Types, BoundAssumption DEF Crash, IInv
<1> QED
  BY <1>1, ProcessEndKeeps DEF Crash

LEMMA NextKeeps ==
  ASSUME IInv, [Next]_vars
  PROVE  IInv'
<1>1. ASSUME NEW j \in Jobs, Serve(j)
      PROVE  IInv'
  BY <1>1, ReadKeeps, RefreshKeeps, UpdateKeeps, SendKeeps, SaveKeeps, AnswerKeeps DEF Serve
<1>2. CASE UNCHANGED vars
  <2>1. UNCHANGED <<row, granted, age, page, reviews, sent, job, torn, requests, faults>>
    BY <1>2 DEF vars
  <2>2. TypeOK' /\ Shapes' /\ TokensGranted' /\ Doubts' /\ FailsForAReason'
    BY <2>1 DEF IInv, TypeOK, Shapes, TokensGranted, Doubts, FailsForAReason
  <2>3. Obtained' /\ MadeOnce' /\ Thanks' /\ OneWriter'
    BY <2>1 DEF IInv, Obtained, Obtaining, MadeOnce, Making, Thanks, OneWriter, Writing
  <2> QED
    BY <2>2, <2>3 DEF IInv
<1>3. CASE Running
  BY <1>1, <1>3, EndOfCrash, LateKeeps, OpenPageKeeps, SubmitKeeps, ConnectKeeps, AuthoriseKeeps, AbandonKeeps,
     StatementFailsKeeps, UnreachableKeeps, AnswerLostKeeps, DisconnectKeeps, GrowOldKeeps
  DEF Running
<1>4. CASE ServerExit
  BY <1>4, ProcessEndKeeps, Bounds DEF ServerExit
<1> QED
  BY <1>2, <1>3, <1>4 DEF Next

LEMMA IInvAlways == Spec => []IInv
<1>1. Init => IInv
  BY InitKeeps
<1>2. IInv /\ [Next]_vars => IInv'
  BY NextKeeps
<1> QED
  BY <1>1, <1>2, PTL DEF Spec

\* An editor's row holds a grant that was made, a page and a request a token of one, and
\* a request obtains at most one (critiquebrainz.ts:39-142, externalService.js:83-160).
THEOREM TypesOfServices == Spec => []TypeOK
<1>1. IInv => TypeOK
  BY DEF IInv
<1> QED
  BY <1>1, IInvAlways, PTL

----------------------------------------------------------------------------
(* The theorems.                                                           *)

\* A page thanks only for a review that was made, a review is made at most once each
\* time it is sent although it is tried again with refreshed tokens, and what is refused
\* or left without an answer was entitled to fail (reviews.ts:36-76,
\* critiquebrainz.ts:168-210), with any number of pages and requests.
THEOREM ReviewsHoldAlways == Spec => []ReviewsHold
<1>1. IInv => ReviewedAsSent
  <2> SUFFICES ASSUME IInv, NEW p \in Pages
               PROVE  (page[p].done => reviews[p] > 0) /\ reviews[p] <= sent[p]
    BY DEF ReviewedAsSent
  <2>1. page[p].done => reviews[p] > 0
    BY DEF IInv, Thanks
  <2>2. reviews[p] + Cardinality(Making(job, p)) <= sent[p]
    BY DEF IInv, MadeOnce
  <2>3. Cardinality(Making(job, p)) \in Nat
    <3>1. IsFiniteSet(Making(job, p))
      BY JobsAssumption, FS_Subset DEF Making
    <3> QED
      BY <3>1, FS_CardinalityType
  <2>4. reviews[p] \in Nat /\ sent[p] \in Nat
    BY Types DEF IInv
  <2> HIDE DEF Making
  <2> QED
    BY <2>1, <2>2, <2>3, <2>4
<1>2. IInv => ReviewsHold
  BY <1>1 DEF IInv, ReviewsHold
<1> QED
  BY <1>2, IInvAlways, PTL

LEMMA AcceptedOfIInv ==
  ASSUME IInv
  PROVE  RowAccepted
<1>1. CASE torn
  BY <1>1 DEF RowAccepted
<1>2. CASE ~torn /\ Writing = {}
  BY <1>2 DEF IInv, OneWriter, RowAccepted
<1>3. CASE ~torn /\ Writing # {}
  <2>1. PICK j : j \in Writing
    BY <1>3
  <2> QED
    BY <1>3, <2>1 DEF IInv, OneWriter, RowAccepted
<1> QED
  BY <1>1, <1>2, <1>3

\* What makes a row where there is none.
LEMMA RowMade ==
  ASSUME IInv, [Next]_vars, row = 0, row' # 0
  PROVE  \E j \in Jobs : job[j].kind = "link" /\ job[j].at = "save"
<1>1. ASSUME NEW j \in Jobs, NEW p \in Pages, OpenPage(j, p) \/ Submit(j, p)
      PROVE  FALSE
  BY <1>1 DEF OpenPage, Submit, Start
<1>2. ASSUME NEW j \in Jobs, Connect(j) \/ Authorise(j) \/ Abandon(j)
      PROVE  FALSE
  BY <1>2 DEF Connect, Start, Authorise, Abandon
<1>3. ASSUME NEW j \in Jobs, StatementFails(j) \/ Unreachable(j) \/ AnswerLost(j)
      PROVE  FALSE
  BY <1>3 DEF StatementFails, Unreachable, AnswerLost
<1>4. ASSUME NEW j \in Jobs, Read(j) \/ Refresh(j) \/ Send(j) \/ Answer(j)
      PROVE  FALSE
  BY <1>4 DEF Read, Refresh, Send, Answer
<1>5. ASSUME NEW j \in Jobs, Update(j)
      PROVE  FALSE
  BY <1>5 DEF Update, UpdatedRow
<1>6. ASSUME NEW j \in Jobs, Save(j)
      PROVE  job[j].kind = "link" /\ job[j].at = "save"
  BY <1>6 DEF Save, IInv, Shapes, Shape
<1>7. ASSUME Disconnect \/ (\E g \in Grants : GrowOld(g)) \/ UNCHANGED vars
      PROVE  FALSE
  BY <1>7 DEF Disconnect, GrowOld, vars
<1>8. ASSUME ServerExit \/ Crash \/ (\E j \in Jobs : Late(j))
      PROVE  FALSE
  BY <1>8 DEF ServerExit, Crash, End, Late
<1> QED
  BY <1>1, <1>2, <1>3, <1>4, <1>5, <1>6, <1>7, <1>8 DEF Next, Running, Serve

\* The tokens of the row are those CritiqueBrainz accepts, or are about to be written,
\* unless a grant was lost or obtained across another one; and an editor who has
\* disconnected is linked again only by authorising it, never by a refresh that was
\* running (critiquebrainz.ts:75-142, externalService.js:83-181).
THEOREM TokensKeptAlways == Spec => TokensKept
<1>1. IInv => RowAccepted
  BY AcceptedOfIInv
<1>2. IInv /\ [Next]_vars =>
        [row = 0 /\ row' # 0 => \E j \in Jobs : job[j].kind = "link" /\ job[j].at = "save"]_vars
  BY RowMade
<1> QED
  BY <1>1, <1>2, IInvAlways, PTL DEF Spec, TokensKept, NotRelinked
=============================================================================

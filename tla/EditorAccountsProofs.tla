------------------------ MODULE EditorAccountsProofs ------------------------
(***************************************************************************)
(* What holds of editors and their MetaBrainz accounts for any number of   *)
(* accounts, browsers and deliveries: types whatever requests overlap, and *)
(* when they do not, one editor per account; an account that is deleted    *)
(* stays deleted; and, where accounts are not linked, editors catch up     *)
(* with the names of their accounts.                                       *)
(*                                                                         *)
(* The last two follow from what is in the mail: deliveries of an account  *)
(* are handled in the order they were sent, the first until it is taken.   *)
(***************************************************************************)
EXTENDS EditorAccounts, SequenceTheorems, TLAPS

----------------------------------------------------------------------------
(* The inductive invariants.                                               *)

\* What sessions and requests point to is there: rows of editor are not removed.
SessionsOK ==
  \A b \in Browsers : session[b].editor # Null => Exists(session[b].editor)

TaskOK(t) ==
  /\ t.id # Null => Exists(t.id)
  /\ t.kind = "hook" => t.delivery # Null
  /\ t.kind = "sign in" => t.browser # Null /\ t.profile # Null /\ t.id # Null
  /\ t.kind \in {"profile", "count"} => t.id # Null /\ t.row # Null

TypeInv ==
  /\ TypeOK
  /\ SessionsOK
  /\ \A w \in Workers : TaskOK(task[w])
  /\ \A u \in Users : account[u].state = "active" => account[u].name # Null
  /\ \A k \in DOMAIN mail :
       mail[k].event = "user.created" => mail[k].name # Null
  /\ \A w \in Workers :
       task[w].kind = "hook" /\ task[w].delivery.event = "user.created"
         => task[w].delivery.name # Null

\* Accounts from before the webhooks are there from the start, so that none of their
\* deliveries inserts an editor.
IsCreation(d) == d.event = "user.created"
OlderKnown ==
  /\ \A u \in Older : account[u].state # "none"
  /\ \A k \in DOMAIN mail : IsCreation(mail[k]) => mail[k].user \notin Older
  /\ \A w \in Workers : task[w].kind = "hook" /\ IsCreation(task[w].delivery)
                         => task[w].delivery.user \notin Older

\* Who is about to register has no editor yet.
ProfilesCurrent ==
  \A b \in Browsers :
    session[b].profile # Null /\ session[b].profile.user \in Registrants
      => EditorsOf(session[b].profile.user) = {}

\* What the request that is going on has read is still so, as far as it matters.
TaskCurrent(t) ==
  /\ t.kind = "hook" /\ t.id = Null /\ IsCreation(t.delivery)
       => EditorsOf(t.delivery.user) = {}
  /\ t.kind = "sign in" => editor[t.id].user = t.profile.user
  /\ t.kind \in {"profile", "count"} => editor[t.id].user = t.row.user

AccountInv ==
  /\ TypeInv /\ OlderKnown
  /\ OneEditorPerUser /\ ProfilesCurrent
  /\ \A w \in Workers : TaskCurrent(task[w])

----------------------------------------------------------------------------
(* Types.                                                                  *)

TaskType ==
  [kind : {"idle", "hook", "sign in", "profile", "count"},
   browser : Browsers \cup {Null}, delivery : Delivery \cup {Null},
   profile : Profile \cup {Null}, id : Ids \cup {Null},
   row : Editor \cup {Null}]

\* A worker without a request.
LEMMA IdleType == Idle \in TaskType /\ TaskOK(Idle)
BY DEF Idle, TaskType, TaskOK

\* A row, a delivery and a profile are not Null.
LEMMA EditorNotNull == Null \notin Editor
BY SentinelAssumption DEF Editor

\* A delivery is a record of known fields, which Null is not.
LEMMA DeliveryNotNull == Null \notin Delivery
BY SentinelAssumption DEF Delivery

\* So is a profile.
LEMMA ProfileNotNull == Null \notin Profile
BY SentinelAssumption DEF Profile

\* At the start there are no editors, sessions or requests.
LEMMA InitTypeInv == Init => TypeInv
<1> SUFFICES ASSUME Init PROVE TypeInv
  OBVIOUS
<1>1. TypeOK
  <2>1. account \in [Users -> Account] /\ editor \in [Ids -> Editor \cup {Null}]
    BY DEF Init
  <2>2. mail \in Seq(Delivery) /\ sent \in 0..MaxDeliveries
    BY BoundAssumption DEF Init
  <2>3. session \in [Browsers -> [editor : Ids \cup {Null},
                                  profile : Profile \cup {Null}]]
    BY DEF Init
  <2>4. task \in [Workers -> TaskType]
    BY IdleType DEF Init
  <2> QED BY <2>1, <2>2, <2>3, <2>4 DEF TypeOK, TaskType
<1>2. SessionsOK
  BY DEF Init, SessionsOK
<1>3. \A w \in Workers : task[w] = Idle
  BY DEF Init
<1>4. mail = <<>> /\ DOMAIN mail = {}
  BY DEF Init
<1> QED BY <1>1, <1>2, <1>3, <1>4, IdleType DEF Init, TypeInv, Idle

\* MetaBrainz appends a delivery.
LEMMA SendKeepsTypeInv ==
  ASSUME TypeInv, NEW u \in Users, NEW n \in Names \cup {Null},
         NEW e \in {"user.created", "user.updated", "user.deleted"},
         e = "user.created" => n # Null,
         Send(e, u, n),
         NEW a \in Account, a.state = "active" => a.name # Null,
         account' = [account EXCEPT ![u] = a]
  PROVE  TypeInv'
<1> DEFINE d == [event |-> e, user |-> u, name |-> n]
<1>1. d \in Delivery
  BY DEF Delivery
<1>2. mail \in Seq(Delivery)
  BY DEF TypeInv, TypeOK
<1>3. mail' = Append(mail, d) /\ UNCHANGED <<editor, session, task>>
  BY DEF Send
<1>4. sent' \in 0..MaxDeliveries
  <2>1. sent \in 0..MaxDeliveries
    BY DEF TypeInv, TypeOK
  <2>2. sent < MaxDeliveries /\ sent' = sent + 1
    BY DEF Send
  <2> QED BY <2>1, <2>2, BoundAssumption
<1>5. mail' \in Seq(Delivery) /\ Len(mail') = Len(mail) + 1
      /\ \A k \in 1..Len(mail) + 1 :
           mail'[k] = IF k = Len(mail) + 1 THEN d ELSE mail[k]
  <2> HIDE DEF d
  <2> QED BY <1>1, <1>2, <1>3, AppendProperties
<1>6. \A k \in DOMAIN mail' : mail'[k].event = "user.created" => mail'[k].name # Null
  BY <1>2, <1>5 DEF TypeInv
<1>7. account' \in [Users -> Account]
  BY DEF TypeInv, TypeOK
<1>8. \A v \in Users : account'[v].state = "active" => account'[v].name # Null
  BY DEF TypeInv, TypeOK
<1>9. TypeOK'
  BY <1>3, <1>4, <1>5, <1>7 DEF TypeInv, TypeOK
<1> QED BY <1>3, <1>6, <1>8, <1>9 DEF TypeInv, SessionsOK, TaskOK, Exists

\* What MetaBrainz does to accounts goes with a delivery of the same account.
LEMMA MetaBrainzKeepsTypeInv == TypeInv /\ MetaBrainz => TypeInv'
<1> SUFFICES ASSUME TypeInv, NEW u \in Users,
                    \/ \E n \in Names : SignUp(u, n) \/ Rename(u, n)
                    \/ ChangeEmail(u) \/ Leave(u)
             PROVE  TypeInv'
  BY DEF MetaBrainz
<1>0. account \in [Users -> Account]
  BY DEF TypeInv, TypeOK
<1>1. ASSUME NEW n \in Names, SignUp(u, n)
      PROVE  TypeInv'
  <2> DEFINE a == [state |-> "active", name |-> n]
  <2>1. a \in Account /\ a.name # Null
    BY SentinelAssumption DEF Account
  <2>2. Send("user.created", u, n) /\ account' = [account EXCEPT ![u] = a]
    BY <1>1 DEF SignUp
  <2> HIDE DEF a
  <2> QED BY <2>1, <2>2, SendKeepsTypeInv, SentinelAssumption
<1>2. ASSUME NEW n \in Names, Rename(u, n)
      PROVE  TypeInv'
  <2> DEFINE a == [account[u] EXCEPT !.name = n]
  <2>1. a \in Account /\ a.name # Null
    BY <1>0, SentinelAssumption DEF Account
  <2>2. Send("user.updated", u, n) /\ account' = [account EXCEPT ![u] = a]
    BY <1>0, <1>2 DEF Rename
  <2> HIDE DEF a
  <2> QED BY <2>1, <2>2, SendKeepsTypeInv
<1>3. CASE ChangeEmail(u)
  <2>1. account[u] \in Account /\ (account[u].state = "active" => account[u].name # Null)
    BY <1>0 DEF TypeInv
  <2>2. account' = [account EXCEPT ![u] = account[u]]
    BY <1>0, <1>3 DEF ChangeEmail
  <2>3. Send("user.updated", u, Null)
    BY <1>3 DEF ChangeEmail
  <2> QED BY <2>1, <2>2, <2>3, SendKeepsTypeInv
<1>4. CASE Leave(u)
  <2> DEFINE a == [account[u] EXCEPT !.state = "deleted"]
  <2>1. a \in Account /\ a.state # "active"
    BY <1>0 DEF Account
  <2>2. Send("user.deleted", u, Null) /\ account' = [account EXCEPT ![u] = a]
    BY <1>0, <1>4 DEF Leave
  <2> HIDE DEF a
  <2> QED BY <2>1, <2>2, SendKeepsTypeInv
<1> QED BY <1>1, <1>2, <1>3, <1>4

\* A worker takes a request.
LEMMA StartKeepsTypeInv ==
  ASSUME TypeInv, NEW w \in Workers, NEW t \in TaskType, TaskOK(t),
         t.kind = "hook" /\ t.delivery.event = "user.created"
           => t.delivery.name # Null,
         task' = [task EXCEPT ![w] = t],
         UNCHANGED <<account, mail, sent, editor, session>>
  PROVE  TypeInv'
<1>1. task \in [Workers -> TaskType]
  BY DEF TypeInv, TypeOK, TaskType
<1>2. task' \in [Workers -> TaskType] /\ \A v \in Workers : task'[v] = IF v = w THEN t ELSE task[v]
  BY <1>1
<1>3. TypeOK'
  BY <1>2 DEF TypeInv, TypeOK, TaskType
<1>4. \A v \in Workers : TaskOK(task[v])'
  BY <1>2 DEF TypeInv, TaskOK, Exists
<1> QED BY <1>2, <1>3, <1>4 DEF TypeInv, SessionsOK, Exists

\* A worker is done: rows may be written and added, deliveries taken away.
LEMMA EndKeepsTypeInv ==
  ASSUME TypeInv, NEW w \in Workers, task' = [task EXCEPT ![w] = Idle],
         editor' \in [Ids -> Editor \cup {Null}],
         \A i \in Ids : Exists(i) => Exists(i)',
         mail' \in Seq(Delivery),
         \A k \in DOMAIN mail' : \E j \in DOMAIN mail : mail'[k] = mail[j],
         session' \in [Browsers -> [editor : Ids \cup {Null},
                                    profile : Profile \cup {Null}]],
         SessionsOK',
         UNCHANGED <<account, sent>>
  PROVE  TypeInv'
<1>1. task \in [Workers -> TaskType]
  BY DEF TypeInv, TypeOK, TaskType
<1>2. task' \in [Workers -> TaskType] /\ \A v \in Workers : task'[v] = IF v = w THEN Idle ELSE task[v]
  BY <1>1, IdleType
<1>3. TypeOK'
  BY <1>2 DEF TypeInv, TypeOK, TaskType
<1>4. \A v \in Workers : TaskOK(task[v])'
  <2>1. \A v \in Workers : task[v].id \in Ids \cup {Null}
    BY <1>1 DEF TaskType
  <2> QED BY <1>2, <2>1 DEF TypeInv, TaskOK, Idle
<1>5. \A v \in Workers :
        task'[v].kind = "hook" /\ task'[v].delivery.event = "user.created"
          => task'[v].delivery.name # Null
  BY <1>2 DEF TypeInv, Idle
<1> QED BY <1>3, <1>4, <1>5 DEF TypeInv

\* A worker takes a delivery, and a row of the account that is there.
LEMMA DeliverKeepsTypeInv ==
  ASSUME TypeInv, NEW w \in Workers, NEW u \in Users, Deliver(w, u)
  PROVE  TypeInv'
<1>1. PICK k \in DOMAIN mail, i \in IF EditorsOf(u) = {} THEN {Null} ELSE EditorsOf(u) :
        task' = [task EXCEPT ![w] =
          [Idle EXCEPT !.kind = "hook", !.delivery = mail[k], !.id = i]]
  BY DEF Deliver
<1> DEFINE t == [Idle EXCEPT !.kind = "hook", !.delivery = mail[k], !.id = i]
<1>2. mail[k] \in Delivery /\ (mail[k].event = "user.created" => mail[k].name # Null)
  <2>1. mail \in Seq(Delivery)
    BY DEF TypeInv, TypeOK
  <2> QED BY <2>1 DEF TypeInv
<1>3. i \in Ids \cup {Null} /\ (i # Null => Exists(i))
  BY DEF EditorsOf
<1>4. t.kind = "hook" /\ t.delivery = mail[k] /\ t.id = i
  BY IdleType DEF TaskType
<1>5. mail[k] # Null
  BY <1>2, DeliveryNotNull
<1>6. t \in TaskType
  BY <1>2, <1>3, IdleType DEF TaskType
<1>9. TaskOK(t)
  <2> HIDE DEF t
  <2> QED BY <1>3, <1>4, <1>5 DEF TaskOK
<1>7. t.kind = "hook" /\ t.delivery.event = "user.created" => t.delivery.name # Null
  BY <1>2, <1>4
<1>8. UNCHANGED <<account, mail, sent, editor, session>>
  BY DEF Deliver
<1> HIDE DEF t
<1> QED BY <1>1, <1>6, <1>7, <1>8, <1>9, StartKeepsTypeInv DEF t

\* A new row gets an id that is free; the others stay.
LEMMA InsertAdds ==
  ASSUME TypeOK, NEW row \in Editor, Insert(row)
  PROVE  /\ editor' \in [Ids -> Editor \cup {Null}]
         /\ NextId \in Ids /\ ~Exists(NextId)
         /\ editor' = [editor EXCEPT ![NextId] = row]
<1>1. NextId \in Ids /\ ~Exists(NextId)
  BY DEF Insert, NextId
<1> QED BY <1>1 DEF Insert, TypeOK

\* What the handlers of deliveries do to the rows.
LEMMA HandleWrites ==
  ASSUME TypeInv, NEW w \in Workers, task[w].kind = "hook",
         Handle(task[w].delivery, task[w].id)
  PROVE  LET d == task[w].delivery
             i == task[w].id
         IN \/ UNCHANGED editor
            \/ /\ d.event = "user.created" /\ i = Null
               /\ Insert([user |-> d.user, name |-> d.name, cached |-> d.name,
                          tokens |-> FALSE, text |-> FALSE])
            \/ /\ i \in Ids /\ Exists(i)
               /\ \E r \in Editor : r.user = editor[i].user
                                    /\ editor' = [editor EXCEPT ![i] = r]
<1> DEFINE d == task[w].delivery
           i == task[w].id
<1>1. d \in Delivery /\ i \in Ids \cup {Null} /\ (i # Null => Exists(i))
  BY DEF TypeInv, TypeOK, TaskOK
<1>2. editor \in [Ids -> Editor \cup {Null}]
  BY DEF TypeInv, TypeOK
<1>3. CASE d.event = "user.created"
  BY <1>3 DEF Handle, UserCreated
<1>4. CASE d.event = "user.updated"
  <2>1. CASE d.name = Null \/ i = Null
    BY <1>4, <2>1 DEF Handle, UserUpdated
  <2>2. CASE d.name # Null /\ i # Null
    <3> DEFINE r == [editor[i] EXCEPT !.name = d.name, !.cached = d.name]
    <3>1. d.name \in Names /\ editor[i] \in Editor /\ i \in Ids
      BY <1>1, <1>2, <2>2 DEF Delivery, Exists
    <3>2. r \in Editor /\ r.user = editor[i].user
      BY <3>1 DEF Editor
    <3>3. editor' = [editor EXCEPT ![i] = r]
      BY <1>2, <1>4, <2>2, <3>1 DEF Handle, UserUpdated, Editor
    <3> HIDE DEF r
    <3> QED BY <1>1, <2>2, <3>2, <3>3
  <2> QED BY <2>1, <2>2
<1>5. CASE d.event = "user.deleted"
  <2>1. CASE i = Null
    BY <1>5, <2>1 DEF Handle, UserDeleted
  <2>2. CASE i # Null
    <3> DEFINE r == Cleared(editor[i])
    <3>1. editor[i] \in Editor /\ i \in Ids
      BY <1>1, <1>2, <2>2 DEF Exists
    <3>2. r \in Editor /\ r.user = editor[i].user
      BY <3>1 DEF Editor, Cleared
    <3>3. editor' = [editor EXCEPT ![i] = r]
      BY <1>5, <2>2 DEF Handle, UserDeleted
    <3> HIDE DEF r
    <3> QED BY <1>1, <2>2, <3>2, <3>3
  <2> QED BY <2>1, <2>2
<1> QED BY <1>1, <1>3, <1>4, <1>5 DEF Delivery

\* Writing a row that is there, or adding one, keeps the table.
LEMMA WriteKeepsTable ==
  ASSUME TypeOK, NEW i \in Ids, NEW r \in Editor,
         editor' = [editor EXCEPT ![i] = r]
  PROVE  /\ editor' \in [Ids -> Editor \cup {Null}]
         /\ \A j \in Ids : Exists(j) => Exists(j)'
<1>1. r # Null
  BY EditorNotNull
<1> QED BY <1>1 DEF TypeOK, Exists

\* The handlers of deliveries keep the table: they remove no row.
LEMMA HandleKeepsTable ==
  ASSUME TypeInv, NEW w \in Workers, task[w].kind = "hook",
         Handle(task[w].delivery, task[w].id)
  PROVE  /\ editor' \in [Ids -> Editor \cup {Null}]
         /\ \A j \in Ids : Exists(j) => Exists(j)'
<1> DEFINE d == task[w].delivery
           new == [user |-> d.user, name |-> d.name, cached |-> d.name,
                   tokens |-> FALSE, text |-> FALSE]
<1>1. CASE UNCHANGED editor
  BY <1>1 DEF TypeInv, TypeOK, Exists
<1>2. CASE d.event = "user.created" /\ Insert(new)
  <2>1. d \in Delivery /\ d.name # Null
    BY <1>2 DEF TypeInv, TypeOK, TaskOK
  <2>2. new \in Editor
    BY <2>1 DEF Delivery, Editor
  <2> HIDE DEF new
  <2> QED BY <1>2, <2>2, InsertAdds, WriteKeepsTable DEF TypeInv
<1>3. ASSUME task[w].id \in Ids, NEW r \in Editor,
             editor' = [editor EXCEPT ![task[w].id] = r]
      PROVE  /\ editor' \in [Ids -> Editor \cup {Null}]
             /\ \A j \in Ids : Exists(j) => Exists(j)'
  BY <1>3, WriteKeepsTable DEF TypeInv
<1> QED BY <1>1, <1>2, <1>3, HandleWrites

\* Deliveries are taken out of the mail only.
LEMMA AnswerTakes ==
  ASSUME TypeInv, NEW w \in Workers, NEW arrives \in BOOLEAN, Answer(w, arrives)
  PROVE  /\ mail' \in Seq(Delivery)
         /\ \A k \in DOMAIN mail' : \E j \in DOMAIN mail : mail'[k] = mail[j]
<1>1. mail \in Seq(Delivery)
  BY DEF TypeInv, TypeOK
<1>2. UNCHANGED mail \/ \E k \in DOMAIN mail : mail' = RemoveAt(mail, k)
  BY DEF Answer
<1>3. ASSUME NEW k \in DOMAIN mail, mail' = RemoveAt(mail, k)
      PROVE  /\ mail' \in Seq(Delivery)
             /\ \A l \in DOMAIN mail' : \E j \in DOMAIN mail : mail'[l] = mail[j]
  <2> DEFINE front == SubSeq(mail, 1, k - 1)
             back == SubSeq(mail, k + 1, Len(mail))
  <2>1. k \in 1..Len(mail) /\ Len(mail) \in Nat
    BY <1>1
  <2>2. /\ front \in Seq(Delivery) /\ Len(front) = k - 1
        /\ \A j \in 1..(k - 1) : front[j] = mail[j]
    BY <1>1, <2>1, SubSeqProperties
  <2>3. /\ back \in Seq(Delivery) /\ Len(back) = Len(mail) - k
        /\ \A j \in 1..(Len(mail) - k) : back[j] = mail[k + j]
    BY <1>1, <2>1, SubSeqProperties
  <2>4. mail' = front \o back
    BY <1>3 DEF RemoveAt
  <2> DEFINE n == Len(mail)
  <2> HIDE DEF front, back, n
  <2>5. /\ front \o back \in Seq(Delivery)
        /\ Len(front \o back) = Len(front) + Len(back)
        /\ \A l \in 1..Len(front) + Len(back) :
             (front \o back)[l] =
               IF l <= Len(front) THEN front[l] ELSE back[l - Len(front)]
    BY <2>2, <2>3, ConcatProperties
  <2>6. n \in Nat /\ k \in 1..n /\ Len(front) = k - 1 /\ Len(back) = n - k
    BY <2>1, <2>2, <2>3 DEF n
  <2>7. Len(front) + Len(back) = n - 1
    BY <2>6
  <2>8. ASSUME NEW l \in 1..(n - 1)
        PROVE  mail'[l] = mail[l] \/ mail'[l] = mail[l + 1]
    <3>1. CASE l <= k - 1
      <4>1. (front \o back)[l] = front[l]
        BY <2>5, <2>6, <2>7, <3>1
      <4> QED BY <2>2, <2>4, <2>6, <3>1, <4>1
    <3>2. CASE ~(l <= k - 1)
      <4>1. (front \o back)[l] = back[l - (k - 1)]
        BY <2>5, <2>6, <2>7, <3>2
      <4>2. l - (k - 1) \in 1..(n - k) /\ k + (l - (k - 1)) = l + 1
        BY <2>6, <3>2
      <4> QED BY <2>3, <2>4, <4>1, <4>2 DEF n
    <3> QED BY <3>1, <3>2
  <2>9. DOMAIN mail' = 1..(n - 1) /\ DOMAIN mail = 1..n
    BY <1>1, <2>4, <2>5, <2>7 DEF n
  <2>10. \A l \in 1..(n - 1) : l \in 1..n /\ l + 1 \in 1..n
    BY <2>6
  <2> QED BY <2>4, <2>5, <2>8, <2>9, <2>10
<1> QED BY <1>1, <1>2, <1>3

\* A delivery is handled, and perhaps taken out of the mail.
LEMMA AnswerKeepsTypeInv ==
  ASSUME TypeInv, NEW w \in Workers, NEW arrives \in BOOLEAN, Answer(w, arrives)
  PROVE  TypeInv'
<1>1. /\ editor' \in [Ids -> Editor \cup {Null}]
      /\ \A j \in Ids : Exists(j) => Exists(j)'
  BY HandleKeepsTable DEF Answer
<1>2. task' = [task EXCEPT ![w] = Idle] /\ UNCHANGED <<account, sent, session>>
  BY DEF Answer
<1>3. SessionsOK'
  BY <1>1, <1>2 DEF TypeInv, TypeOK, SessionsOK
<1> QED BY <1>1, <1>2, <1>3, AnswerTakes, EndKeepsTypeInv DEF TypeInv, TypeOK

\* A session is replaced by one that points to a row that is there, or to none.
LEMMA SessionEnds ==
  ASSUME TypeInv, NEW b \in Browsers, NEW i \in Ids \cup {Null},
         NEW p \in Profile \cup {Null}, i # Null => Exists(i)',
         session' = [session EXCEPT ![b] = [editor |-> i, profile |-> p]],
         \A j \in Ids : Exists(j) => Exists(j)'
  PROVE  /\ session' \in [Browsers -> [editor : Ids \cup {Null},
                                       profile : Profile \cup {Null}]]
         /\ SessionsOK'
<1> DEFINE S == [editor : Ids \cup {Null}, profile : Profile \cup {Null}]
           s == [editor |-> i, profile |-> p]
<1>1. session \in [Browsers -> S]
  BY DEF TypeInv, TypeOK
<1>2. s \in S /\ s.editor = i
  OBVIOUS
<1>3. session' \in [Browsers -> S]
      /\ \A c \in Browsers : session'[c] = IF c = b THEN s ELSE session[c]
  BY <1>1, <1>2
<1>4. \A c \in Browsers : session[c].editor \in Ids \cup {Null}
  BY <1>1
<1> QED BY <1>2, <1>3, <1>4 DEF TypeInv, SessionsOK

\* A refused delivery changes no table.
LEMMA RefuseKeepsTypeInv ==
  ASSUME TypeInv, NEW w \in Workers, Refuse(w)
  PROVE  TypeInv'
<1>1. task' = [task EXCEPT ![w] = Idle]
      /\ UNCHANGED <<account, mail, sent, editor, session>>
  BY DEF Refuse
<1>2. /\ editor' \in [Ids -> Editor \cup {Null}] /\ mail' \in Seq(Delivery)
      /\ session' \in [Browsers -> [editor : Ids \cup {Null},
                                    profile : Profile \cup {Null}]]
      /\ \A i \in Ids : Exists(i) => Exists(i)'
      /\ \A k \in DOMAIN mail' : \E j \in DOMAIN mail : mail'[k] = mail[j]
      /\ SessionsOK'
  BY <1>1 DEF TypeInv, TypeOK, SessionsOK, Exists
<1> QED BY <1>1, <1>2, EndKeepsTypeInv

\* Signing out leaves an empty session.
LEMMA SignOutKeepsTypeInv ==
  ASSUME TypeInv, NEW b \in Browsers, SignOut(b)
  PROVE  TypeInv'
<1>1. session' = [session EXCEPT ![b] = [editor |-> Null, profile |-> Null]]
      /\ UNCHANGED <<account, mail, sent, editor, task>>
  BY DEF SignOut
<1>2. \A i \in Ids : Exists(i) => Exists(i)'
  BY <1>1 DEF Exists
<1>3. session' \in [Browsers -> [editor : Ids \cup {Null},
                                 profile : Profile \cup {Null}]] /\ SessionsOK'
  BY <1>1, <1>2, SessionEnds
<1> QED BY <1>1, <1>3 DEF TypeInv, TypeOK, TaskOK, Exists

\* Signing in keeps a profile for registration, or starts a request for a row that
\* is there.
LEMMA SignInKeepsTypeInv ==
  ASSUME TypeInv, NEW w \in Workers, NEW b \in Browsers, NEW u \in Users,
         SignIn(w, b, u)
  PROVE  TypeInv'
<1> DEFINE profile == [user |-> u, name |-> account[u].name]
<1>1. profile \in Profile
  <2>1. account[u].state = "active" /\ account[u] \in Account
    BY DEF SignIn, TypeInv, TypeOK
  <2>2. account[u].name \in Names
    BY <2>1 DEF TypeInv, Account
  <2> QED BY <2>2 DEF Profile
<1>2. CASE ~SignedIn(b) /\ EditorsOf(u) = {}
  <2>1. session' = [session EXCEPT ![b] = [editor |-> Null, profile |-> profile]]
        /\ UNCHANGED <<account, mail, sent, editor, task>>
    BY <1>2 DEF SignIn
  <2>2. \A i \in Ids : Exists(i) => Exists(i)'
    BY <2>1 DEF Exists
  <2> HIDE DEF profile
  <2>3. session' \in [Browsers -> [editor : Ids \cup {Null},
                                   profile : Profile \cup {Null}]] /\ SessionsOK'
    BY <1>1, <2>1, <2>2, SessionEnds
  <2> QED BY <2>1, <2>3 DEF TypeInv, TypeOK, TaskOK, Exists
<1>3. CASE ~(~SignedIn(b) /\ EditorsOf(u) = {})
  <2>1. PICK i \in IF SignedIn(b) THEN {session[b].editor} ELSE EditorsOf(u) :
          task' = [task EXCEPT ![w] =
            [Idle EXCEPT !.kind = "sign in", !.browser = b,
                         !.profile = profile, !.id = i]]
    BY <1>3 DEF SignIn
  <2> DEFINE t == [Idle EXCEPT !.kind = "sign in", !.browser = b,
                               !.profile = profile, !.id = i]
  <2>2. UNCHANGED <<account, mail, sent, editor, session>>
    BY <1>3 DEF SignIn
  <2>3. i \in Ids /\ Exists(i)
    <3>1. CASE SignedIn(b)
      <4>1. session[b].editor \in Ids \cup {Null} /\ session[b].editor # Null
        BY <3>1 DEF TypeInv, TypeOK, SignedIn
      <4> QED BY <2>1, <3>1, <4>1 DEF TypeInv, SessionsOK
    <3>2. CASE ~SignedIn(b)
      BY <2>1, <3>2 DEF EditorsOf
    <3> QED BY <3>1, <3>2
  <2>4. t \in TaskType
    BY <1>1, <2>3, IdleType DEF TaskType
  <2>5. t.kind = "sign in" /\ t.browser = b /\ t.profile = profile /\ t.id = i
    BY IdleType DEF TaskType
  <2>6. b # Null /\ profile # Null /\ i # Null
    BY <1>1, <2>3, ProfileNotNull, SentinelAssumption
  <2>7. TaskOK(t)
    <3> HIDE DEF t, profile
    <3> QED BY <2>3, <2>5, <2>6 DEF TaskOK
  <2> HIDE DEF t
  <2> QED BY <2>1, <2>2, <2>4, <2>5, <2>7, StartKeepsTypeInv DEF t
<1> QED BY <1>2, <1>3

\* A request of a signed-in editor reads a row that is there.
LEMMA FetchKeepsTypeInv ==
  ASSUME TypeInv, NEW w \in Workers, NEW b \in Browsers,
         NEW kind \in {"profile", "count"}, Fetch(w, b, kind)
  PROVE  TypeInv'
<1> DEFINE i == session[b].editor
           t == [Idle EXCEPT !.kind = kind, !.browser = b, !.id = i,
                             !.row = editor[i]]
<1>1. task' = [task EXCEPT ![w] = t]
      /\ UNCHANGED <<account, mail, sent, editor, session>>
  BY DEF Fetch
<1>2. i \in Ids /\ Exists(i) /\ i # Null
  <2>1. i \in Ids \cup {Null} /\ i # Null
    BY DEF Fetch, SignedIn, TypeInv, TypeOK
  <2> QED BY <2>1 DEF TypeInv, SessionsOK
<1>3. editor[i] \in Editor /\ editor[i] # Null
  BY <1>2 DEF TypeInv, TypeOK, Exists
<1>4. t \in TaskType
  BY <1>2, <1>3, IdleType DEF TaskType
<1>5. t.kind = kind /\ t.id = i /\ t.row = editor[i]
  BY IdleType DEF TaskType
<1>6. TaskOK(t)
  <2> HIDE DEF t, i
  <2> QED BY <1>2, <1>3, <1>5 DEF TaskOK
<1> HIDE DEF t
<1> QED BY <1>1, <1>4, <1>5, <1>6, StartKeepsTypeInv

\* A request that is over has written one row that was there, or nothing.
LEMMA FinishWrites ==
  ASSUME TypeInv, NEW w \in Workers,
         \/ FinishSignIn(w)
         \/ \E n \in DisplayNames : FinishProfile(w, n)
         \/ FinishCount(w)
  PROVE  \/ UNCHANGED editor
         \/ /\ task[w].id \in Ids /\ Exists(task[w].id)
            /\ \E r \in Editor :
                 /\ r.user = IF task[w].kind = "sign in"
                             THEN task[w].profile.user ELSE task[w].row.user
                 /\ editor' = [editor EXCEPT ![task[w].id] = r]
<1> DEFINE t == task[w]
<1>1. t \in TaskType /\ TaskOK(t)
  BY DEF TypeInv, TypeOK, TaskType
<1>2. editor \in [Ids -> Editor \cup {Null}]
  BY DEF TypeInv, TypeOK
<1>3. CASE FinishSignIn(w)
  <2> DEFINE r == [editor[t.id] EXCEPT !.user = t.profile.user,
                                       !.cached = t.profile.name, !.tokens = TRUE]
  <2>1. t.kind = "sign in" /\ t.id \in Ids /\ Exists(t.id) /\ t.profile \in Profile
    BY <1>1, <1>3 DEF FinishSignIn, TaskOK, TaskType
  <2>2. editor[t.id] \in Editor
    BY <1>2, <2>1 DEF Exists
  <2>3. r \in Editor /\ r.user = t.profile.user
    BY <2>1, <2>2 DEF Editor, Profile
  <2>4. editor' = [editor EXCEPT ![t.id] = r]
    BY <1>2, <1>3, <2>1, <2>2 DEF FinishSignIn, Editor
  <2> HIDE DEF r
  <2> QED BY <2>1, <2>3, <2>4
<1>4. ASSUME NEW n \in DisplayNames, FinishProfile(w, n)
      PROVE  \/ UNCHANGED editor
             \/ /\ t.id \in Ids /\ Exists(t.id) /\ t.kind # "sign in"
                /\ \E r \in Editor : r.user = t.row.user
                                     /\ editor' = [editor EXCEPT ![t.id] = r]
  <2> DEFINE r == [t.row EXCEPT !.name = n, !.text = TRUE]
  <2>1. t.kind = "profile" /\ t.id \in Ids /\ Exists(t.id) /\ t.row \in Editor
    BY <1>1, <1>4 DEF FinishProfile, TaskOK, TaskType
  <2>2. r \in Editor /\ r.user = t.row.user
    BY <2>1 DEF Editor
  <2>3. UNCHANGED editor \/ editor' = [editor EXCEPT ![t.id] = r]
    BY <1>4 DEF FinishProfile
  <2> HIDE DEF r
  <2> QED BY <2>1, <2>2, <2>3
<1>5. CASE FinishCount(w)
  <2>1. t.kind = "count" /\ t.id \in Ids /\ Exists(t.id) /\ t.row \in Editor
    BY <1>1, <1>5 DEF FinishCount, TaskOK, TaskType
  <2>2. UNCHANGED editor \/ editor' = [editor EXCEPT ![t.id] = t.row]
    BY <1>5 DEF FinishCount
  <2> QED BY <2>1, <2>2
<1> QED BY <1>3, <1>4, <1>5

\* The requests of editors write rows that are there.
LEMMA FinishKeepsTypeInv ==
  ASSUME TypeInv, NEW w \in Workers,
         \/ FinishSignIn(w)
         \/ \E n \in DisplayNames : FinishProfile(w, n)
         \/ FinishCount(w)
  PROVE  TypeInv'
<1>1. /\ editor' \in [Ids -> Editor \cup {Null}]
      /\ \A j \in Ids : Exists(j) => Exists(j)'
  <2>1. CASE UNCHANGED editor
    BY <2>1 DEF TypeInv, TypeOK, Exists
  <2>2. ASSUME task[w].id \in Ids, NEW r \in Editor,
               editor' = [editor EXCEPT ![task[w].id] = r]
        PROVE  /\ editor' \in [Ids -> Editor \cup {Null}]
               /\ \A j \in Ids : Exists(j) => Exists(j)'
    BY <2>2, WriteKeepsTable DEF TypeInv
  <2> QED BY <2>1, <2>2, FinishWrites
<1>2. task' = [task EXCEPT ![w] = Idle] /\ UNCHANGED <<account, mail, sent>>
  BY DEF FinishSignIn, FinishProfile, FinishCount
<1>3. /\ session' \in [Browsers -> [editor : Ids \cup {Null},
                                    profile : Profile \cup {Null}]]
      /\ SessionsOK'
  <2>1. CASE UNCHANGED session
    BY <1>1, <2>1 DEF TypeInv, TypeOK, SessionsOK
  <2>2. CASE FinishSignIn(w)
    <3> DEFINE t == task[w]
    <3>1. t \in TaskType /\ TaskOK(t)
      BY DEF TypeInv, TypeOK, TaskType
    <3>2. t.browser \in Browsers /\ t.id \in Ids /\ Exists(t.id)
      BY <2>2, <3>1 DEF FinishSignIn, TaskOK, TaskType
    <3>3. session' = [session EXCEPT ![t.browser] = [editor |-> t.id, profile |-> Null]]
      BY <2>2 DEF FinishSignIn
    <3> HIDE DEF t
    <3> QED BY <1>1, <3>2, <3>3, SessionEnds
  <2> QED BY <2>1, <2>2 DEF FinishProfile, FinishCount
<1>4. /\ mail' \in Seq(Delivery)
      /\ \A k \in DOMAIN mail' : \E j \in DOMAIN mail : mail'[k] = mail[j]
  BY <1>2 DEF TypeInv, TypeOK
<1> QED BY <1>1, <1>2, <1>3, <1>4, EndKeepsTypeInv

\* Registration adds a row for the profile in the session.
LEMMA RegisterKeepsTypeInv ==
  ASSUME TypeInv, NEW b \in Browsers, NEW n \in DisplayNames, Register(b, n)
  PROVE  TypeInv'
<1> DEFINE p == session[b].profile
           row == [user |-> p.user, name |-> n, cached |-> p.name,
                   tokens |-> TRUE, text |-> TRUE]
           s == [session[b] EXCEPT !.profile = Null]
<1>1. p \in Profile /\ session[b].editor \in Ids \cup {Null}
  BY DEF Register, TypeInv, TypeOK
<1>2. row \in Editor
  BY <1>1 DEF Editor, Profile
<1>3. Insert(row) /\ session' = [session EXCEPT ![b].profile = Null]
      /\ UNCHANGED <<account, mail, sent, task>>
  BY DEF Register
<1>4. /\ editor' \in [Ids -> Editor \cup {Null}]
      /\ \A j \in Ids : Exists(j) => Exists(j)'
  <2> HIDE DEF row
  <2> QED BY <1>2, <1>3, InsertAdds, WriteKeepsTable DEF TypeInv
<1>5. PICK i \in Ids \cup {Null} : session[b].editor = i
  BY <1>1
<1>6. session' = [session EXCEPT ![b] = [editor |-> i, profile |-> Null]]
  <2>1. session[b] \in [editor : Ids \cup {Null}, profile : Profile \cup {Null}]
    BY DEF TypeInv, TypeOK
  <2>2. [session[b] EXCEPT !.profile = Null] = [editor |-> i, profile |-> Null]
    BY <1>5, <2>1
  <2> QED BY <1>3, <2>2 DEF TypeInv, TypeOK
<1>7. i # Null => Exists(i)'
  BY <1>4, <1>5 DEF TypeInv, SessionsOK
<1>8. session' \in [Browsers -> [editor : Ids \cup {Null},
                                 profile : Profile \cup {Null}]] /\ SessionsOK'
  BY <1>4, <1>6, <1>7, SessionEnds
<1>9. \A w \in Workers : TaskOK(task[w])'
  <2>1. \A w \in Workers : task[w].id \in Ids \cup {Null}
    BY DEF TypeInv, TypeOK
  <2> QED BY <1>3, <1>4, <2>1 DEF TypeInv, TaskOK
<1> QED BY <1>3, <1>4, <1>8, <1>9 DEF TypeInv, TypeOK

\* Every step keeps the types.
LEMMA NextKeepsTypeInv == TypeInv /\ [Next]_vars => TypeInv'
<1> SUFFICES ASSUME TypeInv, [Next]_vars
             PROVE  TypeInv'
  OBVIOUS
<1>1. CASE UNCHANGED vars
  BY <1>1 DEF vars, TypeInv, TypeOK, SessionsOK, TaskOK, Exists
<1>2. CASE MetaBrainz
  BY <1>2, MetaBrainzKeepsTypeInv
<1>3. ASSUME NEW w \in Workers, Hook(w)
      PROVE  TypeInv'
  BY <1>3, DeliverKeepsTypeInv, AnswerKeepsTypeInv, RefuseKeepsTypeInv DEF Hook
<1>4. ASSUME NEW w \in Workers, Site(w)
      PROVE  TypeInv'
  BY <1>4, SignInKeepsTypeInv, FetchKeepsTypeInv, FinishKeepsTypeInv DEF Site
<1>5. ASSUME NEW b \in Browsers,
             SignOut(b) \/ \E n \in DisplayNames : Register(b, n)
      PROVE  TypeInv'
  BY <1>5, SignOutKeepsTypeInv, RegisterKeepsTypeInv
<1> QED BY <1>1, <1>2, <1>3, <1>4, <1>5 DEF Next

\* Accounts, deliveries, rows, sessions and requests keep their types, whatever
\* requests overlap and whatever is registered or linked meanwhile.
THEOREM TypeCorrect == Spec => []TypeOK
<1>1. TypeInv => TypeOK
  BY DEF TypeInv
<1> QED BY <1>1, InitTypeInv, NextKeepsTypeInv, PTL DEF Spec

----------------------------------------------------------------------------
(* One editor per account.                                                 *)

\* A row written for the account it belongs to already, or for one that has
\* none, leaves every account with one editor.
LEMMA SameUserKeepsOne ==
  ASSUME TypeOK, OneEditorPerUser, NEW i \in Ids, NEW r \in Editor,
         editor' = [editor EXCEPT ![i] = r],
         \/ Exists(i) /\ r.user = editor[i].user
         \/ EditorsOf(r.user) = {}
  PROVE  OneEditorPerUser'
<1>1. \A j \in Ids : editor'[j] = IF j = i THEN r ELSE editor[j]
  BY DEF TypeOK
<1>2. ASSUME NEW j \in Ids \ {i}, Exists(j), editor[j].user = r.user
      PROVE  FALSE
  BY <1>2 DEF OneEditorPerUser, EditorsOf
<1> QED BY <1>1, <1>2 DEF OneEditorPerUser, Exists

\* Such a row has the editors of other accounts where they were.
LEMMA SameUserKeepsOthers ==
  ASSUME TypeOK, NEW i \in Ids, NEW r \in Editor, editor' = [editor EXCEPT ![i] = r],
         Exists(i) => r.user = editor[i].user,
         NEW u, Exists(i) \/ r.user # u
  PROVE  EditorsOf(u)' = EditorsOf(u)
<1>1. \A j \in Ids : editor'[j] = IF j = i THEN r ELSE editor[j]
  BY DEF TypeOK
<1>2. r # Null
  BY EditorNotNull
<1>3. \A j \in Ids : (Exists(j) /\ editor[j].user = u) <=> (Exists(j)' /\ editor'[j].user = u)
  BY <1>1, <1>2 DEF Exists
<1> QED BY <1>3 DEF EditorsOf

\* A delivery that MetaBrainz sends about an account from before the webhooks is not
\* about its creation.
LEMMA SendKeepsOlder ==
  ASSUME TypeInv, OlderKnown, NEW u \in Users, NEW n,
         NEW e \in {"user.created", "user.updated", "user.deleted"}, Send(e, u, n),
         e = "user.created" => u \notin Older,
         \A v \in Users : account[v].state # "none" => account'[v].state # "none"
  PROVE  OlderKnown'
<1> DEFINE d == [event |-> e, user |-> u, name |-> n]
<1>1. mail \in Seq(Delivery)
  BY DEF TypeInv, TypeOK
<1>2. /\ Len(mail) \in Nat /\ DOMAIN mail = 1..Len(mail)
      /\ DOMAIN mail' = 1..Len(mail) + 1
      /\ mail'[Len(mail) + 1] = d /\ \A k \in DOMAIN mail : mail'[k] = mail[k]
  BY <1>1 DEF Send
<1>3. IsCreation(d) => d.user \notin Older
  BY DEF IsCreation
<1> HIDE DEF d
<1>4. ASSUME NEW k \in DOMAIN mail'
      PROVE  mail'[k] = d \/ (k \in DOMAIN mail /\ mail'[k] = mail[k])
  <2>1. k = Len(mail) + 1 \/ k \in DOMAIN mail
    BY <1>2
  <2> QED BY <1>2, <2>1
<1>5. \A k \in DOMAIN mail' : IsCreation(mail'[k]) => mail'[k].user \notin Older
  BY <1>3, <1>4 DEF OlderKnown
<1>6. \A v \in Older : account'[v].state # "none"
  BY BoundAssumption DEF OlderKnown
<1>7. UNCHANGED task
  BY DEF Send
<1> QED BY <1>5, <1>6, <1>7 DEF OlderKnown, IsCreation

LEMMA MetaBrainzKeepsOlder ==
  ASSUME TypeInv, OlderKnown, MetaBrainz
  PROVE  OlderKnown'
<1>0. account \in [Users -> Account]
  BY DEF TypeInv, TypeOK
<1>1. ASSUME NEW u \in Users, NEW n \in Names, SignUp(u, n)
      PROVE  OlderKnown'
  <2>1. /\ Send("user.created", u, n) /\ u \notin Older
        /\ account' = [account EXCEPT ![u] = [state |-> "active", name |-> n]]
    BY <1>1 DEF SignUp, OlderKnown
  <2>2. \A v \in Users : account[v].state # "none" => account'[v].state # "none"
    BY <1>0, <2>1
  <2> QED BY <2>1, <2>2, SendKeepsOlder
<1>2. ASSUME NEW u \in Users, NEW n \in Names, Rename(u, n)
      PROVE  OlderKnown'
  <2>1. /\ Send("user.updated", u, n)
        /\ \A v \in Users : account'[v].state = account[v].state
    BY <1>0, <1>2 DEF Rename, Account
  <2> QED BY <2>1, SendKeepsOlder
<1>3. ASSUME NEW u \in Users, ChangeEmail(u)
      PROVE  OlderKnown'
  BY <1>3, SendKeepsOlder DEF ChangeEmail
<1>4. ASSUME NEW u \in Users, Leave(u)
      PROVE  OlderKnown'
  <2>1. /\ Send("user.deleted", u, Null)
        /\ account' = [account EXCEPT ![u].state = "deleted"]
    BY <1>4 DEF Leave
  <2>2. \A v \in Users : account[v].state # "none" => account'[v].state # "none"
    BY <1>0, <2>1 DEF Account
  <2> QED BY <2>1, <2>2, SendKeepsOlder
<1> QED BY <1>1, <1>2, <1>3, <1>4 DEF MetaBrainz

\* Every step keeps that, however many requests overlap.
LEMMA NextKeepsOlder ==
  ASSUME TypeInv, OlderKnown, [Next]_vars
  PROVE  OlderKnown'
<1>0. task \in [Workers -> TaskType]
  BY DEF TypeInv, TypeOK, TaskType
<1>1. ASSUME UNCHANGED account, NEW w \in Workers, NEW t,
             task' = [task EXCEPT ![w] = t],
             t.kind = "hook" /\ IsCreation(t.delivery) => t.delivery.user \notin Older,
             \A k \in DOMAIN mail' : \E j \in DOMAIN mail : mail'[k] = mail[j]
      PROVE  OlderKnown'
  <2>1. \A v \in Workers : task'[v] = IF v = w THEN t ELSE task[v]
    BY <1>0, <1>1
  <2>2. \A v \in Workers : task'[v].kind = "hook" /\ IsCreation(task'[v].delivery)
                           => task'[v].delivery.user \notin Older
    BY <1>1, <2>1 DEF OlderKnown
  <2>3. \A k \in DOMAIN mail' : IsCreation(mail'[k]) => mail'[k].user \notin Older
    BY <1>1 DEF OlderKnown
  <2> QED BY <1>1, <2>2, <2>3 DEF OlderKnown, IsCreation
<1>2. ASSUME UNCHANGED <<account, mail>>, NEW w \in Workers, NEW t,
             task' = [task EXCEPT ![w] = t], t.kind # "hook"
      PROVE  OlderKnown'
  BY <1>1, <1>2
<1>3. CASE UNCHANGED <<account, mail, task>>
  BY <1>3 DEF OlderKnown, IsCreation
<1>4. Idle.kind # "hook"
  BY DEF Idle
<1>5. ASSUME NEW w \in Workers, NEW u \in Users, Deliver(w, u)
      PROVE  OlderKnown'
  <2>1. PICK k \in DOMAIN mail, i \in IF EditorsOf(u) = {} THEN {Null} ELSE EditorsOf(u) :
          task' = [task EXCEPT ![w] =
            [Idle EXCEPT !.kind = "hook", !.delivery = mail[k], !.id = i]]
    BY <1>5 DEF Deliver
  <2> DEFINE t == [Idle EXCEPT !.kind = "hook", !.delivery = mail[k], !.id = i]
  <2>2. t.delivery = mail[k]
    BY IdleType DEF TaskType
  <2>3. UNCHANGED <<account, mail>> /\ task' = [task EXCEPT ![w] = t]
    BY <1>5, <2>1 DEF Deliver
  <2> HIDE DEF t
  <2>4. IsCreation(t.delivery) => t.delivery.user \notin Older
    BY <2>2 DEF OlderKnown
  <2> QED BY <1>1, <2>3, <2>4
<1>6. ASSUME NEW w \in Workers, NEW arrives \in BOOLEAN, Answer(w, arrives)
      PROVE  OlderKnown'
  <2>1. UNCHANGED account /\ task' = [task EXCEPT ![w] = Idle]
    BY <1>6 DEF Answer
  <2>2. \A k \in DOMAIN mail' : \E j \in DOMAIN mail : mail'[k] = mail[j]
    BY <1>6, AnswerTakes
  <2> QED BY <1>1, <1>4, <2>1, <2>2
<1>7. ASSUME NEW w \in Workers,
             \/ Refuse(w)
             \/ FinishSignIn(w)
             \/ \E n \in DisplayNames : FinishProfile(w, n)
             \/ FinishCount(w)
      PROVE  OlderKnown'
  <2>1. UNCHANGED <<account, mail>> /\ task' = [task EXCEPT ![w] = Idle]
    BY <1>7 DEF Refuse, FinishSignIn, FinishProfile, FinishCount
  <2> QED BY <1>2, <1>4, <2>1
<1>8. ASSUME NEW w \in Workers, NEW b \in Browsers, NEW u \in Users, SignIn(w, b, u)
      PROVE  OlderKnown'
  <2>1. UNCHANGED <<account, mail>>
    BY <1>8 DEF SignIn
  <2>2. CASE UNCHANGED task
    BY <1>3, <2>1, <2>2
  <2>3. CASE ~UNCHANGED task
    <3>1. PICK i : task' = [task EXCEPT ![w] =
            [Idle EXCEPT !.kind = "sign in", !.browser = b,
                         !.profile = [user |-> u, name |-> account[u].name], !.id = i]]
      BY <1>8, <2>3 DEF SignIn
    <3> DEFINE t == [Idle EXCEPT !.kind = "sign in", !.browser = b,
                                 !.profile = [user |-> u, name |-> account[u].name], !.id = i]
    <3>2. t.kind # "hook"
      BY IdleType DEF TaskType
    <3> HIDE DEF t
    <3> QED BY <1>2, <2>1, <3>1, <3>2 DEF t
  <2> QED BY <2>2, <2>3
<1>9. ASSUME NEW w \in Workers, NEW b \in Browsers,
             NEW kind \in {"profile", "count"}, Fetch(w, b, kind)
      PROVE  OlderKnown'
  <2> DEFINE t == [Idle EXCEPT !.kind = kind, !.browser = b, !.id = session[b].editor,
                               !.row = editor[session[b].editor]]
  <2>1. UNCHANGED <<account, mail>> /\ task' = [task EXCEPT ![w] = t]
    BY <1>9 DEF Fetch
  <2>2. t.kind # "hook"
    BY IdleType DEF TaskType
  <2> HIDE DEF t
  <2> QED BY <1>2, <2>1, <2>2
<1>10. ASSUME NEW w \in Workers, Hook(w) \/ Site(w)
       PROVE  OlderKnown'
  BY <1>5, <1>6, <1>7, <1>8, <1>9, <1>10 DEF Hook, Site
<1>11. CASE \/ UNCHANGED vars
            \/ \E b \in Browsers : SignOut(b) \/ \E n \in DisplayNames : Register(b, n)
  BY <1>3, <1>11 DEF vars, SignOut, Register
<1> QED BY <1>10, <1>11, MetaBrainzKeepsOlder DEF Next

\* The request that ends leaves nothing behind that could be out of date.
LEMMA EndKeepsAccountInv ==
  ASSUME \A v, w \in Workers : v = w, AccountInv, TypeInv', OlderKnown',
         OneEditorPerUser', ProfilesCurrent',
         NEW w \in Workers, task' = [task EXCEPT ![w] = Idle]
  PROVE  AccountInv'
<1>1. \A v \in Workers : task'[v] = Idle
  BY DEF AccountInv, TypeInv, TypeOK
<1>2. Idle.kind = "idle"
  BY DEF Idle
<1> QED BY <1>1, <1>2 DEF AccountInv, TaskCurrent

\* What a request reads is so when it starts.
LEMMA StartKeepsAccountInv ==
  ASSUME \A v, w \in Workers : v = w, AccountInv, TypeInv', OlderKnown',
         NEW w \in Workers, NEW t, TaskCurrent(t),
         task' = [task EXCEPT ![w] = t], UNCHANGED <<editor, session>>
  PROVE  AccountInv'
<1>1. \A v \in Workers : task'[v] = t
  BY DEF AccountInv, TypeInv, TypeOK
<1>2. OneEditorPerUser' /\ ProfilesCurrent'
  BY DEF AccountInv, OneEditorPerUser, ProfilesCurrent, EditorsOf, Exists
<1>3. EditorsOf(t.delivery.user)' = EditorsOf(t.delivery.user)
  BY DEF EditorsOf, Exists
<1>4. TaskCurrent(t)'
  BY <1>3 DEF TaskCurrent
<1>5. \A v \in Workers : TaskCurrent(task[v])'
  BY ZenonT(40), <1>1, <1>4 DEF TaskCurrent, EditorsOf, Exists
<1> QED BY <1>2, <1>5 DEF AccountInv

\* A delivery inserts an editor only if it has found none.
LEMMA AnswerKeepsAccountInv ==
  ASSUME \A v, w \in Workers : v = w, Registrants \subseteq Older,
         AccountInv, TypeInv', OlderKnown',
         NEW w \in Workers, NEW arrives \in BOOLEAN, Answer(w, arrives)
  PROVE  AccountInv'
<1> DEFINE d == task[w].delivery
           i == task[w].id
           new == [user |-> d.user, name |-> d.name, cached |-> d.name,
                   tokens |-> FALSE, text |-> FALSE]
<1>1. TypeInv /\ TypeOK /\ OneEditorPerUser /\ TaskCurrent(task[w])
  BY DEF AccountInv, TypeInv
<1>2. /\ task[w].kind = "hook" /\ Handle(d, i) /\ task' = [task EXCEPT ![w] = Idle]
      /\ UNCHANGED session
  BY DEF Answer
<1>3. CASE UNCHANGED editor
  <2>1. OneEditorPerUser' /\ ProfilesCurrent'
    BY <1>1, <1>2, <1>3 DEF AccountInv, OneEditorPerUser, ProfilesCurrent, EditorsOf, Exists
  <2> QED BY <1>2, <2>1, EndKeepsAccountInv
<1>4. CASE d.event = "user.created" /\ i = Null /\ Insert(new)
  <2>1. d \in Delivery /\ d.name # Null
    BY <1>1, <1>2, <1>4 DEF TypeInv, TypeOK, TaskOK
  <2>2. new \in Editor
    BY <2>1 DEF Delivery, Editor
  <2>3. EditorsOf(d.user) = {} /\ d.user \notin Older
    BY <1>1, <1>2, <1>4 DEF AccountInv, OlderKnown, TaskCurrent, IsCreation
  <2>4. new.user = d.user
    OBVIOUS
  <2> HIDE DEF new, d
  <2>5. NextId \in Ids /\ editor' = [editor EXCEPT ![NextId] = new]
    BY <1>1, <1>4, <2>2, InsertAdds
  <2>6. OneEditorPerUser'
    BY <1>1, <2>2, <2>3, <2>4, <2>5, SameUserKeepsOne
  <2>7. ASSUME NEW u \in Registrants
        PROVE  EditorsOf(u)' = EditorsOf(u)
    <3>1. ~Exists(NextId) /\ new.user # u
      BY <1>1, <1>4, <2>2, <2>3, <2>4, InsertAdds
    <3> QED BY <1>1, <2>2, <2>5, <3>1, SameUserKeepsOthers
  <2>8. ProfilesCurrent'
    BY <1>2, <2>7 DEF AccountInv, ProfilesCurrent
  <2> QED BY <1>2, <2>6, <2>8, EndKeepsAccountInv
<1>5. ASSUME i \in Ids, Exists(i), NEW r \in Editor, r.user = editor[i].user,
             editor' = [editor EXCEPT ![i] = r]
      PROVE  AccountInv'
  <2>1. OneEditorPerUser'
    BY <1>1, <1>5, SameUserKeepsOne
  <2>2. \A u : EditorsOf(u)' = EditorsOf(u)
    BY <1>1, <1>5, SameUserKeepsOthers
  <2>3. ProfilesCurrent'
    BY <1>2, <2>2 DEF AccountInv, ProfilesCurrent
  <2> QED BY <1>2, <2>1, <2>3, EndKeepsAccountInv
<1> QED BY <1>1, <1>2, <1>3, <1>4, <1>5, HandleWrites

\* Registration adds the first editor of an account.
LEMMA RegisterKeepsAccountInv ==
  ASSUME Registrants \subseteq Older, \A b, c \in Browsers : b = c,
         AccountInv, TypeInv', OlderKnown',
         NEW b \in Browsers, NEW n \in DisplayNames, Register(b, n)
  PROVE  AccountInv'
<1> DEFINE p == session[b].profile
           r == [user |-> p.user, name |-> n, cached |-> p.name,
                 tokens |-> TRUE, text |-> TRUE]
<1>0. TypeInv /\ TypeOK /\ OneEditorPerUser
  BY DEF AccountInv, TypeInv
<1>1. p \in Profile /\ p # Null /\ p.user \in Registrants
  BY <1>0, ProfileNotNull DEF Register, TypeOK
<1>2. r \in Editor /\ r.user = p.user
  BY <1>1 DEF Editor, Profile
<1>3. Insert(r) /\ UNCHANGED task
  BY DEF Register
<1>4. EditorsOf(p.user) = {}
  BY <1>1 DEF AccountInv, ProfilesCurrent
<1> HIDE DEF r
<1>5. NextId \in Ids /\ ~Exists(NextId) /\ editor' = [editor EXCEPT ![NextId] = r]
  BY <1>0, <1>2, <1>3, InsertAdds
<1>6. OneEditorPerUser'
  BY <1>0, <1>2, <1>4, <1>5, SameUserKeepsOne
<1>7. ProfilesCurrent'
  <2>1. session'[b].profile = Null
    <3>1. session \in [Browsers -> [editor : Ids \cup {Null}, profile : Profile \cup {Null}]]
      BY <1>0 DEF TypeOK
    <3>2. session' = [session EXCEPT ![b].profile = Null]
      BY DEF Register
    <3> HIDE DEF p
    <3> QED BY <3>1, <3>2
  <2>2. \A c \in Browsers : session'[c].profile = Null
    BY <2>1
  <2> QED BY <2>2 DEF ProfilesCurrent
<1>8. ASSUME NEW w \in Workers
      PROVE  TaskCurrent(task[w])'
  <2> DEFINE t == task[w]
  <2>1. TaskCurrent(t) /\ TaskOK(t) /\ t.id \in Ids \cup {Null}
    BY <1>0 DEF AccountInv, TypeInv, TypeOK
  <2>2. t.id # Null => editor'[t.id] = editor[t.id]
    <3>1. \A j \in Ids : editor'[j] = IF j = NextId THEN r ELSE editor[j]
      BY <1>0, <1>5 DEF TypeOK
    <3> QED BY <1>5, <2>1, <3>1 DEF TaskOK
  <2>3. t.kind = "hook" /\ IsCreation(t.delivery)
          => EditorsOf(t.delivery.user)' = EditorsOf(t.delivery.user)
    <3> SUFFICES ASSUME t.kind = "hook", IsCreation(t.delivery)
                 PROVE  EditorsOf(t.delivery.user)' = EditorsOf(t.delivery.user)
      OBVIOUS
    <3>1. UNCHANGED task
      BY <1>3
    <3>2. r.user # t.delivery.user
      BY <1>1, <1>2 DEF AccountInv, OlderKnown
    <3>3. \A u : r.user # u => EditorsOf(u)' = EditorsOf(u)
      BY <1>0, <1>2, <1>5, SameUserKeepsOthers
    <3>4. t' = t
      BY <3>1
    <3> QED BY <3>1, <3>2, <3>3 DEF EditorsOf, Exists
  <2>4. t.kind = "hook" /\ t.id = Null /\ IsCreation(t.delivery)
          => EditorsOf(t.delivery.user)' = {}
    BY <2>1, <2>3 DEF TaskCurrent
  <2>5. /\ t.kind = "sign in" => editor'[t.id].user = t.profile.user
        /\ t.kind \in {"profile", "count"} => editor'[t.id].user = t.row.user
    BY <2>1, <2>2 DEF TaskCurrent, TaskOK
  <2> QED BY <1>3, <2>4, <2>5 DEF TaskCurrent, IsCreation, EditorsOf, Exists
<1> QED BY <1>6, <1>7, <1>8 DEF AccountInv

\* Every step keeps one editor per account.
LEMMA NextKeepsAccountInv ==
  ASSUME \A v, w \in Workers : v = w, Linking = FALSE, Registrants \subseteq Older,
         Registrants = {} \/ \A b, c \in Browsers : b = c
  PROVE  AccountInv /\ [Next]_vars => AccountInv'
<1> SUFFICES ASSUME AccountInv, [Next]_vars
             PROVE  AccountInv'
  OBVIOUS
<1>0. TypeInv /\ TypeOK /\ OneEditorPerUser /\ TypeInv' /\ OlderKnown'
  BY NextKeepsTypeInv, NextKeepsOlder DEF AccountInv, TypeInv
<1>1. ASSUME UNCHANGED <<editor, task>>, ProfilesCurrent'
      PROVE  AccountInv'
  BY <1>0, <1>1 DEF AccountInv, OneEditorPerUser, TaskCurrent, IsCreation, EditorsOf, Exists
<1>2. CASE UNCHANGED vars \/ MetaBrainz \/ \E b \in Browsers : SignOut(b)
  <2>1. CASE UNCHANGED vars \/ MetaBrainz
    <3>1. UNCHANGED <<editor, session, task>>
      BY <2>1 DEF vars, MetaBrainz, SignUp, Rename, ChangeEmail, Leave, Send
    <3>2. ProfilesCurrent'
      BY <3>1 DEF AccountInv, ProfilesCurrent, EditorsOf, Exists
    <3> QED BY <1>1, <3>1, <3>2
  <2>2. ASSUME NEW b \in Browsers, SignOut(b)
        PROVE  AccountInv'
    <3>1. UNCHANGED <<editor, task>>
      BY <2>2 DEF SignOut
    <3>2. \A c \in Browsers : session'[c].profile # Null => session'[c] = session[c]
      BY <1>0, <2>2 DEF SignOut, TypeOK
    <3>3. ProfilesCurrent'
      BY <3>1, <3>2 DEF AccountInv, ProfilesCurrent, EditorsOf, Exists
    <3> QED BY <1>1, <3>1, <3>3
  <2> QED BY <1>2, <2>1, <2>2
<1>3. ASSUME NEW w \in Workers, NEW u \in Users, Deliver(w, u)
      PROVE  AccountInv'
  <2>1. PICK k \in DOMAIN mail, i \in IF EditorsOf(u) = {} THEN {Null} ELSE EditorsOf(u) :
          /\ mail[k].user = u
          /\ task' = [task EXCEPT ![w] =
               [Idle EXCEPT !.kind = "hook", !.delivery = mail[k], !.id = i]]
    BY <1>3 DEF Deliver
  <2> DEFINE t == [Idle EXCEPT !.kind = "hook", !.delivery = mail[k], !.id = i]
  <2>2. t.kind = "hook" /\ t.delivery = mail[k] /\ t.id = i
    BY IdleType DEF TaskType
  <2>3. i = Null => EditorsOf(u) = {}
    BY <2>1, SentinelAssumption DEF EditorsOf
  <2>4. TaskCurrent(t)
    <3> HIDE DEF t
    <3> QED BY <2>1, <2>2, <2>3 DEF TaskCurrent
  <2>5. UNCHANGED <<editor, session>>
    BY <1>3 DEF Deliver
  <2> HIDE DEF t
  <2> QED BY <1>0, <2>1, <2>4, <2>5, StartKeepsAccountInv DEF t
<1>4. ASSUME NEW w \in Workers, Refuse(w)
      PROVE  AccountInv'
  <2>1. task' = [task EXCEPT ![w] = Idle] /\ UNCHANGED <<editor, session>>
    BY <1>4 DEF Refuse
  <2>2. OneEditorPerUser' /\ ProfilesCurrent'
    BY <1>0, <2>1 DEF AccountInv, OneEditorPerUser, ProfilesCurrent, EditorsOf, Exists
  <2> QED BY <1>0, <2>1, <2>2, EndKeepsAccountInv
<1>5. ASSUME NEW w \in Workers, NEW b \in Browsers, NEW u \in Users, SignIn(w, b, u)
      PROVE  AccountInv'
  <2> DEFINE profile == [user |-> u, name |-> account[u].name]
  <2>1. CASE ~SignedIn(b) /\ EditorsOf(u) = {}
    <3> DEFINE s == [editor |-> Null, profile |-> profile]
    <3>1. UNCHANGED <<editor, task>> /\ session' = [session EXCEPT ![b] = s]
      BY <1>5, <2>1 DEF SignIn
    <3>2. \A c \in Browsers : session'[c] = IF c = b THEN s ELSE session[c]
      BY <1>0, <3>1 DEF TypeOK
    <3>3. s.profile.user = u
      OBVIOUS
    <3> HIDE DEF s
    <3>4. ProfilesCurrent'
      BY <2>1, <3>1, <3>2, <3>3 DEF AccountInv, ProfilesCurrent, EditorsOf, Exists
    <3> QED BY <1>1, <3>1, <3>4
  <2>2. CASE ~(~SignedIn(b) /\ EditorsOf(u) = {})
    <3>1. PICK i \in IF SignedIn(b) THEN {session[b].editor} ELSE EditorsOf(u) :
            task' = [task EXCEPT ![w] =
              [Idle EXCEPT !.kind = "sign in", !.browser = b,
                           !.profile = profile, !.id = i]]
      BY <1>5, <2>2 DEF SignIn
    <3> DEFINE t == [Idle EXCEPT !.kind = "sign in", !.browser = b,
                                 !.profile = profile, !.id = i]
    <3>2. t.kind = "sign in" /\ t.profile.user = u /\ t.id = i
      BY IdleType DEF TaskType
    <3>3. editor[i].user = u
      BY <1>5, <3>1 DEF SignIn, EditorsOf
    <3>4. TaskCurrent(t)
      <4> HIDE DEF t
      <4> QED BY <3>2, <3>3 DEF TaskCurrent
    <3>5. UNCHANGED <<editor, session>>
      BY <1>5, <2>2 DEF SignIn
    <3> HIDE DEF t
    <3> QED BY <1>0, <3>1, <3>4, <3>5, StartKeepsAccountInv DEF t
  <2> QED BY <2>1, <2>2
<1>6. ASSUME NEW w \in Workers, NEW b \in Browsers,
             NEW kind \in {"profile", "count"}, Fetch(w, b, kind)
      PROVE  AccountInv'
  <2> DEFINE t == [Idle EXCEPT !.kind = kind, !.browser = b,
                               !.id = session[b].editor,
                               !.row = editor[session[b].editor]]
  <2>1. task' = [task EXCEPT ![w] = t] /\ UNCHANGED <<editor, session>>
    BY <1>6 DEF Fetch
  <2>2. t.kind = kind /\ t.id = session[b].editor /\ t.row = editor[session[b].editor]
    BY IdleType DEF TaskType
  <2>3. TaskCurrent(t)
    <3> HIDE DEF t
    <3> QED BY <2>2 DEF TaskCurrent
  <2> HIDE DEF t
  <2> QED BY <1>0, <2>1, <2>3, StartKeepsAccountInv
<1>7. ASSUME NEW w \in Workers,
             \/ FinishSignIn(w)
             \/ \E n \in DisplayNames : FinishProfile(w, n)
             \/ FinishCount(w)
      PROVE  AccountInv'
  <2>1. task' = [task EXCEPT ![w] = Idle]
    BY <1>7 DEF FinishSignIn, FinishProfile, FinishCount
  <2>4. \A b \in Browsers : session'[b].profile # Null => session'[b] = session[b]
    <3>1. CASE UNCHANGED session
      BY <3>1
    <3>2. CASE FinishSignIn(w)
      BY <1>0, <3>2 DEF FinishSignIn, TypeOK
    <3> QED BY <1>7, <3>1, <3>2 DEF FinishProfile, FinishCount
  <2>5. (\A u : EditorsOf(u)' = EditorsOf(u)) => ProfilesCurrent'
    BY <2>4 DEF AccountInv, ProfilesCurrent
  <2>2. CASE UNCHANGED editor
    <3>1. OneEditorPerUser' /\ \A u : EditorsOf(u)' = EditorsOf(u)
      BY <1>0, <2>2 DEF OneEditorPerUser, EditorsOf, Exists
    <3> QED BY <1>0, <2>1, <2>5, <3>1, EndKeepsAccountInv
  <2>3. ASSUME task[w].id \in Ids, Exists(task[w].id), NEW r \in Editor,
               r.user = IF task[w].kind = "sign in"
                        THEN task[w].profile.user ELSE task[w].row.user,
               editor' = [editor EXCEPT ![task[w].id] = r]
        PROVE  AccountInv'
    <3>1. task[w].kind \in {"sign in", "profile", "count"}
      BY <1>7 DEF FinishSignIn, FinishProfile, FinishCount
    <3>2. r.user = editor[task[w].id].user
      <4>1. TaskCurrent(task[w])
        BY DEF AccountInv
      <4>2. CASE task[w].kind = "sign in"
        BY <2>3, <4>1, <4>2 DEF TaskCurrent
      <4>3. CASE task[w].kind \in {"profile", "count"}
        BY <2>3, <4>1, <4>3 DEF TaskCurrent
      <4> QED BY <3>1, <4>2, <4>3
    <3>3. OneEditorPerUser'
      BY <1>0, <2>3, <3>2, SameUserKeepsOne
    <3>4. \A u : EditorsOf(u)' = EditorsOf(u)
      BY <1>0, <2>3, <3>2, SameUserKeepsOthers
    <3> QED BY <1>0, <2>1, <2>5, <3>3, <3>4, EndKeepsAccountInv
  <2> QED BY <1>0, <1>7, <2>2, <2>3, FinishWrites
<1>8. ASSUME NEW b \in Browsers, NEW n \in DisplayNames, Register(b, n)
      PROVE  AccountInv'
  <2>1. Registrants # {}
    BY <1>8 DEF Register
  <2> QED BY <1>0, <1>8, <2>1, RegisterKeepsAccountInv
<1>9. ASSUME NEW w \in Workers, Hook(w) \/ Site(w)
      PROVE  AccountInv'
  BY <1>0, <1>3, <1>4, <1>5, <1>6, <1>7, <1>9, AnswerKeepsAccountInv DEF Hook, Site
<1> QED BY <1>2, <1>8, <1>9 DEF Next

\* If requests do not overlap and nobody links accounts, an account has one editor,
\* however often and in whatever order across accounts deliveries arrive:
\* handleUserCreated inserts only if it has found no editor. Those who register may do
\* so with one browser, and for accounts from before the webhooks: the form does not
\* look whether another session or a delivery has added the editor meanwhile.
THEOREM OneEditorPerAccount ==
  ASSUME \A v, w \in Workers : v = w, Linking = FALSE, Registrants \subseteq Older,
         Registrants = {} \/ \A b, c \in Browsers : b = c
  PROVE  Spec => []OneEditorPerUser
<1>1. Init => AccountInv
  <2> SUFFICES ASSUME Init PROVE AccountInv
    OBVIOUS
  <2>1. \A i \in Ids : ~Exists(i)
    BY DEF Init, Exists
  <2>2. \A w \in Workers : task[w].kind = "idle"
    BY DEF Init, Idle
  <2>3. OlderKnown
    <3>1. \A u \in Older : account[u].state = "active"
      BY BoundAssumption DEF Init
    <3> QED BY <2>2, <3>1 DEF Init, OlderKnown
  <2>4. ProfilesCurrent
    BY DEF Init, ProfilesCurrent
  <2> QED BY <2>1, <2>2, <2>3, <2>4, InitTypeInv DEF AccountInv, OneEditorPerUser, TaskCurrent
<1>2. AccountInv => OneEditorPerUser
  BY DEF AccountInv
<1> QED BY <1>1, <1>2, NextKeepsAccountInv, PTL DEF Spec

----------------------------------------------------------------------------
(* Deleted editors. The deletion is the last delivery about an account, so *)
(* that the row it clears is not written again: nobody is signed in to it  *)
(* when the next request begins, and no account is found to have it.       *)

\* About an account, its creation comes first and its deletion last.
MailInOrder ==
  \A j, k \in DOMAIN mail :
    j < k /\ mail[j].user = mail[k].user =>
      mail[j].event # "user.deleted" /\ mail[k].event # "user.created"

MailTrue ==
  \A k \in DOMAIN mail :
    /\ account[mail[k].user].state # "none"
    /\ mail[k].event = "user.deleted" => account[mail[k].user].state = "deleted"

\* What is being handled is the first delivery about its account.
IsFirst(k) == \A j \in 1..(k - 1) : mail[j].user # mail[k].user
HooksFirst ==
  \A w \in Workers : task[w].kind = "hook" =>
    \E k \in DOMAIN mail : mail[k] = task[w].delivery /\ IsFirst(k)

\* A deleted editor belongs to an account that is deleted, of which nothing is to come.
DeletedFinal ==
  \A i \in Ids : Exists(i) /\ editor[i].cached = Deleted =>
    /\ IsCleared(i)
    /\ account[editor[i].user].state = "deleted"
    /\ \A k \in DOMAIN mail : mail[k].user = editor[i].user => mail[k].event = "user.deleted"

\* A request writes the row of an editor that is not deleted, or the one that its
\* delivery is about.
TaskAlive(t) ==
  /\ t.kind = "hook" /\ t.id # Null => editor[t.id].user = t.delivery.user
  /\ t.kind \in {"sign in", "profile", "count"} => editor[t.id].cached # Deleted
  /\ t.kind \in {"profile", "count"} => t.row.cached # Deleted

DeletedInv ==
  /\ TypeInv /\ MailInOrder /\ MailTrue /\ HooksFirst /\ DeletedFinal
  /\ \A w \in Workers : TaskAlive(task[w])

\* A row that is cleared, and what is left of one.
LEMMA ClearedFacts ==
  ASSUME NEW r \in Editor
  PROVE  /\ Cleared(r) \in Editor /\ Cleared(r).cached = Deleted /\ Cleared(r).user = r.user
         /\ Cleared(Cleared(r)) = Cleared(r)
         /\ r = Cleared(r) => r.cached = Deleted
BY DEF Editor, Cleared

\* A delivery is taken out of the mail.
LEMMA RemovedAt ==
  ASSUME mail \in Seq(Delivery), NEW k \in DOMAIN mail, mail' = RemoveAt(mail, k)
  PROVE  /\ DOMAIN mail = 1..Len(mail) /\ Len(mail) \in Nat
         /\ DOMAIN mail' = 1..(Len(mail) - 1)
         /\ \A l \in 1..(Len(mail) - 1) : mail'[l] = IF l < k THEN mail[l] ELSE mail[l + 1]
<1> DEFINE front == SubSeq(mail, 1, k - 1)
           back == SubSeq(mail, k + 1, Len(mail))
<1>1. k \in 1..Len(mail) /\ Len(mail) \in Nat
  OBVIOUS
<1>2. /\ front \in Seq(Delivery) /\ Len(front) = k - 1
      /\ \A j \in 1..(k - 1) : front[j] = mail[j]
  BY <1>1, SubSeqProperties
<1>3. /\ back \in Seq(Delivery) /\ Len(back) = Len(mail) - k
      /\ \A j \in 1..(Len(mail) - k) : back[j] = mail[k + j]
  BY <1>1, SubSeqProperties
<1>4. mail' = front \o back
  BY DEF RemoveAt
<1> DEFINE n == Len(mail)
<1> HIDE DEF front, back, n
<1>5. /\ front \o back \in Seq(Delivery)
      /\ Len(front \o back) = Len(front) + Len(back)
      /\ \A l \in 1..Len(front) + Len(back) :
           (front \o back)[l] = IF l <= Len(front) THEN front[l] ELSE back[l - Len(front)]
  BY <1>2, <1>3, ConcatProperties
<1>6. n \in Nat /\ k \in 1..n /\ Len(front) = k - 1 /\ Len(back) = n - k
  BY <1>1, <1>2, <1>3 DEF n
<1>7. Len(front) + Len(back) = n - 1
  BY <1>6
<1>8. ASSUME NEW l \in 1..(n - 1)
      PROVE  mail'[l] = IF l < k THEN mail[l] ELSE mail[l + 1]
  <2>1. CASE l < k
    <3>1. (front \o back)[l] = front[l]
      BY <1>5, <1>6, <1>7, <2>1
    <3> QED BY <1>2, <1>4, <1>6, <2>1, <3>1
  <2>2. CASE ~(l < k)
    <3>1. (front \o back)[l] = back[l - (k - 1)]
      <4>1. l \in 1..Len(front) + Len(back) /\ ~(l <= Len(front))
        BY SMTT(20), <1>6, <1>7, <2>2
      <4>2. (front \o back)[l] = back[l - Len(front)]
        BY <1>5, <4>1
      <4> QED BY <1>6, <4>2
    <3>2. l - (k - 1) \in 1..(n - k) /\ k + (l - (k - 1)) = l + 1
      BY <1>6, <2>2
    <3> QED BY <1>3, <1>4, <2>2, <3>1, <3>2 DEF n
  <2> QED BY <2>1, <2>2
<1>9. DOMAIN mail' = 1..(n - 1) /\ DOMAIN mail = 1..n
  BY <1>4, <1>5, <1>7 DEF n
<1> QED BY <1>1, <1>8, <1>9 DEF n

\* What is left of the mail when a delivery is answered: all of it, in order, or all
\* but the delivery that was handled, which is the first about its account.
Left(f) ==
  /\ f \in [DOMAIN mail' -> DOMAIN mail]
  /\ DOMAIN mail' \subseteq Nat /\ DOMAIN mail \subseteq Nat
  /\ \A l \in DOMAIN mail' : mail'[l] = mail[f[l]]
  /\ \A l, m \in DOMAIN mail' : l < m <=> f[l] < f[m]

LEMMA NoneTaken ==
  ASSUME mail \in Seq(Delivery), UNCHANGED mail
  PROVE  \E f : Left(f) /\ \A k \in DOMAIN mail : f[k] = k
<1> DEFINE f == [k \in DOMAIN mail |-> k]
<1>1. DOMAIN mail \subseteq Nat
  OBVIOUS
<1>2. Left(f) /\ \A k \in DOMAIN mail : f[k] = k
  BY <1>1 DEF Left
<1> QED BY <1>2

LEMMA OneTaken ==
  ASSUME mail \in Seq(Delivery), NEW k \in DOMAIN mail, mail' = RemoveAt(mail, k)
  PROVE  \E f : /\ Left(f)
                /\ \A m \in DOMAIN mail : m # k <=> \E l \in DOMAIN mail' : f[l] = m
<1>0. /\ DOMAIN mail = 1..Len(mail) /\ Len(mail) \in Nat
      /\ DOMAIN mail' = 1..(Len(mail) - 1)
      /\ \A l \in 1..(Len(mail) - 1) : mail'[l] = IF l < k THEN mail[l] ELSE mail[l + 1]
  BY RemovedAt
<1> DEFINE n == Len(mail)
           f == [l \in 1..(n - 1) |-> IF l < k THEN l ELSE l + 1]
<1>1. /\ DOMAIN mail = 1..n /\ n \in Nat /\ DOMAIN mail' = 1..(n - 1)
      /\ \A l \in 1..(n - 1) : mail'[l] = IF l < k THEN mail[l] ELSE mail[l + 1]
  BY <1>0
<1> HIDE DEF n
<1>2. k \in 1..n
  BY <1>1
<1>3. \A l \in 1..(n - 1) : f[l] = IF l < k THEN l ELSE l + 1
  OBVIOUS
<1>4. f \in [1..(n - 1) -> 1..n]
  BY <1>1, <1>2
<1> HIDE DEF f
<1>5. \A l \in 1..(n - 1) : mail'[l] = mail[f[l]]
  BY <1>1, <1>3
<1>6. \A l, m \in 1..(n - 1) : l < m <=> f[l] < f[m]
  BY <1>1, <1>2, <1>3
<1>7. Left(f)
  BY <1>1, <1>4, <1>5, <1>6 DEF Left
<1>8. ASSUME NEW m \in 1..n
      PROVE  m # k <=> \E l \in 1..(n - 1) : f[l] = m
  <2>1. CASE m < k
    <3>1. m \in 1..(n - 1) /\ f[m] = m
      BY <1>1, <1>2, <1>3, <2>1
    <3> QED BY <1>1, <1>2, <2>1, <3>1
  <2>2. CASE m > k
    <3>1. m - 1 \in 1..(n - 1) /\ f[m - 1] = m
      BY <1>1, <1>2, <1>3, <2>2
    <3> QED BY <1>1, <1>2, <2>2, <3>1
  <2>3. CASE m = k
    BY <1>1, <1>2, <1>3, <2>3
  <2> QED BY <1>1, <1>2, <2>1, <2>2, <2>3
<1>9. \A m \in DOMAIN mail : m # k <=> \E l \in DOMAIN mail' : f[l] = m
  BY <1>1, <1>8
<1> QED BY <1>7, <1>9

\* The delivery that is answered is the first about its account.
LEMMA AnswerLeaves ==
  ASSUME TypeInv, HooksFirst, NEW w \in Workers, NEW arrives \in BOOLEAN, Answer(w, arrives)
  PROVE  \E f : /\ Left(f)
                /\ \/ ~arrives /\ UNCHANGED mail /\ \A k \in DOMAIN mail : f[k] = k
                   \/ /\ arrives
                      /\ \E k \in DOMAIN mail :
                           /\ mail[k] = task[w].delivery /\ IsFirst(k)
                           /\ \A m \in DOMAIN mail : m # k <=> \E l \in DOMAIN mail' : f[l] = m
<1>0. mail \in Seq(Delivery)
  BY DEF TypeInv, TypeOK
<1>1. mail \in Seq(Delivery) /\ DOMAIN mail = 1..Len(mail) /\ Len(mail) \in Nat
  BY <1>0
<1>2. CASE ~arrives
  BY <1>1, <1>2, NoneTaken DEF Answer
<1>3. CASE arrives
  <2>1. PICK k \in DOMAIN mail : /\ mail[k] = task[w].delivery
                                 /\ \A j \in 1..(k - 1) : mail[j] # mail[k]
                                 /\ mail' = RemoveAt(mail, k)
    BY <1>3 DEF Answer
  <2>2. PICK m \in DOMAIN mail : mail[m] = task[w].delivery /\ IsFirst(m)
    BY DEF HooksFirst, Answer
  <2>3. k = m
    <3>1. ~(k < m)
      BY <1>1, <2>1, <2>2 DEF IsFirst
    <3>2. ~(m < k)
      BY <1>1, <2>1, <2>2
    <3> QED BY <1>1, <3>1, <3>2
  <2>4. PICK f : /\ Left(f)
                 /\ \A l \in DOMAIN mail : l # k <=> \E i \in DOMAIN mail' : f[i] = l
    BY <1>1, <2>1, OneTaken
  <2> QED BY <1>3, <2>1, <2>2, <2>3, <2>4
<1> QED BY <1>2, <1>3

\* MetaBrainz appends a delivery: its first about the account is the creation, and
\* there is none after the deletion.
LEMMA SendKeepsDeleted ==
  ASSUME DeletedInv, TypeInv', NEW u \in Users, NEW n,
         NEW e \in {"user.created", "user.updated", "user.deleted"}, Send(e, u, n),
         NEW a \in Account, account' = [account EXCEPT ![u] = a],
         account[u].state = IF e = "user.created" THEN "none" ELSE "active",
         a.state = IF e = "user.deleted" THEN "deleted" ELSE "active"
  PROVE  DeletedInv'
<1> DEFINE d == [event |-> e, user |-> u, name |-> n]
           N == Len(mail) + 1
<1>0. mail \in Seq(Delivery) /\ account \in [Users -> Account]
  BY DEF DeletedInv, TypeInv, TypeOK
<1>1. /\ Len(mail) \in Nat /\ DOMAIN mail = 1..Len(mail) /\ DOMAIN mail' = 1..N
      /\ mail'[N] = d /\ \A k \in DOMAIN mail : mail'[k] = mail[k]
  BY <1>0 DEF Send
<1>2. UNCHANGED <<editor, session, task>>
  BY DEF Send
<1>3. d.event = e /\ d.user = u
  OBVIOUS
<1> HIDE DEF d
<1>4. \A v \in Users : account'[v] = IF v = u THEN a ELSE account[v]
  BY <1>0
<1>5. \A k \in DOMAIN mail : /\ mail[k] \in Delivery /\ mail[k].user \in Users
                             /\ mail[k].user = u => /\ e # "user.created"
                                                    /\ mail[k].event # "user.deleted"
  <2> SUFFICES ASSUME NEW k \in DOMAIN mail
               PROVE  /\ mail[k] \in Delivery /\ mail[k].user \in Users
                      /\ mail[k].user = u => /\ e # "user.created"
                                             /\ mail[k].event # "user.deleted"
    OBVIOUS
  <2>1. mail[k] \in Delivery
    BY <1>0
  <2>2. mail[k].user \in Users
    BY <2>1 DEF Delivery
  <2>3. /\ account[mail[k].user].state # "none"
        /\ mail[k].event = "user.deleted" => account[mail[k].user].state = "deleted"
    BY DEF DeletedInv, MailTrue
  <2> QED BY <2>1, <2>2, <2>3
<1>6. \A k \in DOMAIN mail' : k = N \/ (k \in DOMAIN mail /\ mail'[k] = mail[k] /\ k < N)
  BY <1>1
<1>7. MailInOrder'
  <2> SUFFICES ASSUME NEW j \in DOMAIN mail', NEW k \in DOMAIN mail', j < k,
                      mail'[j].user = mail'[k].user
               PROVE  mail'[j].event # "user.deleted" /\ mail'[k].event # "user.created"
    BY DEF MailInOrder
  <2>1. j \in DOMAIN mail /\ mail'[j] = mail[j]
    BY <1>1, <1>6
  <2>2. CASE k = N
    BY <1>1, <1>3, <1>5, <2>1, <2>2
  <2>3. CASE k \in DOMAIN mail /\ mail'[k] = mail[k]
    BY <2>1, <2>3 DEF DeletedInv, MailInOrder
  <2> QED BY <1>6, <2>2, <2>3
<1>8. MailTrue'
  <2> SUFFICES ASSUME NEW k \in DOMAIN mail'
               PROVE  /\ account'[mail'[k].user].state # "none"
                      /\ mail'[k].event = "user.deleted" =>
                           account'[mail'[k].user].state = "deleted"
    BY DEF MailTrue
  <2>1. CASE k = N
    BY <1>1, <1>3, <1>4, <2>1
  <2>2. CASE k \in DOMAIN mail /\ mail'[k] = mail[k]
    BY <1>4, <1>5, <2>2 DEF DeletedInv, MailTrue
  <2> QED BY <1>6, <2>1, <2>2
<1>9. HooksFirst'
  <2> SUFFICES ASSUME NEW w \in Workers, task[w].kind = "hook"
               PROVE  \E k \in DOMAIN mail' : mail'[k] = task[w].delivery /\ IsFirst(k)'
    BY <1>2 DEF HooksFirst
  <2>1. PICK k \in DOMAIN mail : mail[k] = task[w].delivery /\ IsFirst(k)
    BY DEF DeletedInv, HooksFirst
  <2>2. \A j \in 1..(k - 1) : j \in DOMAIN mail
    BY <1>1
  <2> QED BY <1>1, <2>1, <2>2 DEF IsFirst
<1>10. DeletedFinal'
  <2> SUFFICES ASSUME NEW i \in Ids, Exists(i), editor[i].cached = Deleted
               PROVE  /\ IsCleared(i)
                      /\ account'[editor[i].user].state = "deleted"
                      /\ \A k \in DOMAIN mail' : mail'[k].user = editor[i].user =>
                                                   mail'[k].event = "user.deleted"
    BY <1>2 DEF DeletedFinal, Exists, IsCleared
  <2>1. /\ IsCleared(i) /\ account[editor[i].user].state = "deleted"
        /\ \A k \in DOMAIN mail : mail[k].user = editor[i].user => mail[k].event = "user.deleted"
    BY DEF DeletedInv, DeletedFinal
  <2>2. editor[i].user \in Users /\ editor[i].user # u
    <3>1. editor[i] \in Editor
      BY DEF DeletedInv, TypeInv, TypeOK, Exists
    <3> QED BY <2>1, <3>1 DEF Editor
  <2> QED BY <1>1, <1>3, <1>4, <1>6, <2>1, <2>2
<1>11. \A w \in Workers : TaskAlive(task[w])'
  BY <1>2 DEF DeletedInv, TaskAlive
<1> QED BY <1>7, <1>8, <1>9, <1>10, <1>11 DEF DeletedInv

LEMMA MetaBrainzKeepsDeleted ==
  ASSUME DeletedInv, TypeInv', MetaBrainz
  PROVE  DeletedInv'
<1>0. account \in [Users -> Account]
  BY DEF DeletedInv, TypeInv, TypeOK
<1>1. ASSUME NEW u \in Users, NEW n \in Names, SignUp(u, n)
      PROVE  DeletedInv'
  <2> DEFINE a == [state |-> "active", name |-> n]
  <2>1. a \in Account /\ a.state = "active"
    BY DEF Account
  <2>2. /\ Send("user.created", u, n) /\ account' = [account EXCEPT ![u] = a]
        /\ account[u].state = "none"
    BY <1>1 DEF SignUp
  <2> HIDE DEF a
  <2> QED BY <2>1, <2>2, SendKeepsDeleted
<1>2. ASSUME NEW u \in Users, NEW n \in Names, Rename(u, n)
      PROVE  DeletedInv'
  <2> DEFINE a == [account[u] EXCEPT !.name = n]
  <2>1. a \in Account /\ a.state = account[u].state
    BY <1>0 DEF Account
  <2>2. /\ Send("user.updated", u, n) /\ account' = [account EXCEPT ![u] = a]
        /\ account[u].state = "active"
    BY <1>0, <1>2 DEF Rename
  <2> HIDE DEF a
  <2> QED BY <2>1, <2>2, SendKeepsDeleted
<1>3. ASSUME NEW u \in Users, ChangeEmail(u)
      PROVE  DeletedInv'
  <2>1. /\ account[u] \in Account /\ account' = [account EXCEPT ![u] = account[u]]
        /\ Send("user.updated", u, Null) /\ account[u].state = "active"
    BY <1>0, <1>3 DEF ChangeEmail
  <2> QED BY <2>1, SendKeepsDeleted
<1>4. ASSUME NEW u \in Users, Leave(u)
      PROVE  DeletedInv'
  <2> DEFINE a == [account[u] EXCEPT !.state = "deleted"]
  <2>1. a \in Account /\ a.state = "deleted"
    BY <1>0 DEF Account
  <2>2. /\ Send("user.deleted", u, Null) /\ account' = [account EXCEPT ![u] = a]
        /\ account[u].state = "active"
    BY <1>0, <1>4 DEF Leave
  <2> HIDE DEF a
  <2> QED BY <2>1, <2>2, SendKeepsDeleted
<1> QED BY <1>1, <1>2, <1>3, <1>4 DEF MetaBrainz

\* A row is written: of an editor that is not deleted, or, once nothing else is to come
\* about its account, cleared.
WritesRow(i, r) ==
  /\ i \in Ids /\ r \in Editor /\ editor' = [editor EXCEPT ![i] = r]
  /\ \/ r.cached # Deleted /\ (Exists(i) => editor[i].cached # Deleted)
     \/ /\ r = Cleared(r) /\ account[r.user].state = "deleted"
        /\ \A k \in DOMAIN mail : mail[k].user = r.user => mail[k].event = "user.deleted"

WritesOne == UNCHANGED editor \/ \E i, r : WritesRow(i, r)

LEMMA WriteKeepsFinal ==
  ASSUME DeletedInv, UNCHANGED account, NEW f, Left(f), WritesOne
  PROVE  DeletedFinal'
<1>0. editor \in [Ids -> Editor \cup {Null}]
  BY DEF DeletedInv, TypeInv, TypeOK
<1>1. \A k \in DOMAIN mail' : \E l \in DOMAIN mail : mail'[k] = mail[l]
  BY DEF Left
<1>2. ASSUME NEW i \in Ids, UNCHANGED editor[i], Exists(i), editor[i].cached = Deleted
      PROVE  /\ IsCleared(i)'
             /\ account'[editor'[i].user].state = "deleted"
             /\ \A k \in DOMAIN mail' : mail'[k].user = editor'[i].user =>
                                          mail'[k].event = "user.deleted"
  BY <1>1, <1>2 DEF DeletedInv, DeletedFinal, IsCleared
<1>3. ASSUME NEW i \in Ids, NEW r \in Editor, editor'[i] = r, r = Cleared(r),
             account[r.user].state = "deleted",
             \A k \in DOMAIN mail : mail[k].user = r.user => mail[k].event = "user.deleted"
      PROVE  /\ IsCleared(i)'
             /\ account'[editor'[i].user].state = "deleted"
             /\ \A k \in DOMAIN mail' : mail'[k].user = editor'[i].user =>
                                          mail'[k].event = "user.deleted"
  <2>1. IsCleared(i)'
    BY <1>3 DEF IsCleared
  <2> QED BY <1>1, <1>3, <2>1
<1>4. CASE UNCHANGED editor
  BY <1>2, <1>4 DEF DeletedFinal, Exists
<1>5. ASSUME NEW i, NEW r, WritesRow(i, r)
      PROVE  DeletedFinal'
  <2>1. i \in Ids /\ r \in Editor /\ \A j \in Ids : editor'[j] = IF j = i THEN r ELSE editor[j]
    BY <1>0, <1>5 DEF WritesRow
  <2>2. CASE r.cached # Deleted
    BY <1>2, <2>1, <2>2 DEF DeletedFinal, Exists
  <2>3. CASE r.cached = Deleted
    <3>1. /\ r = Cleared(r) /\ account[r.user].state = "deleted"
          /\ \A k \in DOMAIN mail : mail[k].user = r.user => mail[k].event = "user.deleted"
      BY <1>5, <2>3 DEF WritesRow
    <3> QED BY <1>2, <1>3, <2>1, <3>1 DEF DeletedFinal, Exists
  <2> QED BY <2>2, <2>3
<1> QED BY <1>4, <1>5 DEF WritesOne

LEMMA WritesKeepCleared ==
  ASSUME DeletedInv, WritesOne, NEW i \in Ids, Exists(i), IsCleared(i)
  PROVE  IsCleared(i)'
<1>0. editor \in [Ids -> Editor \cup {Null}]
  BY DEF DeletedInv, TypeInv, TypeOK
<1>1. editor[i] \in Editor /\ editor[i].cached = Deleted
  BY <1>0, ClearedFacts DEF Exists, IsCleared
<1>2. CASE UNCHANGED editor
  BY <1>2 DEF IsCleared
<1>3. ASSUME NEW j, NEW r, WritesRow(j, r)
      PROVE  IsCleared(i)'
  <2>1. j \in Ids /\ editor'[i] = IF i = j THEN r ELSE editor[i]
    BY <1>0, <1>3 DEF WritesRow
  <2>2. i = j => r = Cleared(r)
    BY <1>1, <1>3 DEF WritesRow
  <2> QED BY <2>1, <2>2 DEF IsCleared
<1> QED BY <1>2, <1>3 DEF WritesOne

LEMMA UnchangedLeft ==
  ASSUME TypeOK, UNCHANGED mail
  PROVE  \E f : Left(f)
BY NoneTaken DEF TypeOK

\* A request begins with what it reads.
LEMMA StartKeepsDeleted ==
  ASSUME \A v, w \in Workers : v = w, DeletedInv, TypeInv', NEW w \in Workers, NEW t,
         TaskAlive(t),
         t.kind = "hook" => \E k \in DOMAIN mail : mail[k] = t.delivery /\ IsFirst(k),
         task' = [task EXCEPT ![w] = t], UNCHANGED <<account, mail, editor>>
  PROVE  DeletedInv'
<1>1. \A v \in Workers : task'[v] = t
  BY DEF DeletedInv, TypeInv, TypeOK
<1>2. HooksFirst'
  BY <1>1 DEF HooksFirst, IsFirst
<1>3. \A v \in Workers : TaskAlive(task[v])'
  BY <1>1 DEF TaskAlive
<1>4. MailInOrder' /\ MailTrue' /\ DeletedFinal'
  BY DEF DeletedInv, MailInOrder, MailTrue, DeletedFinal, Exists, IsCleared
<1> QED BY <1>2, <1>3, <1>4 DEF DeletedInv

\* And ends with what it writes.
LEMMA EndKeepsDeleted ==
  ASSUME \A v, w \in Workers : v = w, DeletedInv, TypeInv', NEW w \in Workers,
         task' = [task EXCEPT ![w] = Idle], UNCHANGED account, NEW f, Left(f), WritesOne
  PROVE  DeletedInv'
<1>1. \A v \in Workers : task'[v] = Idle
  BY DEF DeletedInv, TypeInv, TypeOK
<1>2. Idle.kind = "idle"
  BY DEF Idle
<1>3. HooksFirst' /\ \A v \in Workers : TaskAlive(task[v])'
  BY <1>1, <1>2 DEF HooksFirst, TaskAlive
<1>4. MailTrue'
  BY DEF DeletedInv, MailTrue, Left
<1>5. MailInOrder'
  <2> SUFFICES ASSUME NEW j \in DOMAIN mail', NEW k \in DOMAIN mail', j < k,
                      mail'[j].user = mail'[k].user
               PROVE  mail'[j].event # "user.deleted" /\ mail'[k].event # "user.created"
    BY DEF MailInOrder
  <2>1. f[j] \in DOMAIN mail /\ f[k] \in DOMAIN mail /\ f[j] < f[k]
        /\ mail'[j] = mail[f[j]] /\ mail'[k] = mail[f[k]]
    BY DEF Left
  <2> QED BY <2>1 DEF DeletedInv, MailInOrder
<1> QED BY <1>3, <1>4, <1>5, WriteKeepsFinal DEF DeletedInv

LEMMA DeliverKeepsDeleted ==
  ASSUME \A v, w \in Workers : v = w, DeletedInv, TypeInv', NEW w \in Workers, NEW u \in Users,
         Deliver(w, u)
  PROVE  DeletedInv'
<1>1. PICK k \in DOMAIN mail, i \in IF EditorsOf(u) = {} THEN {Null} ELSE EditorsOf(u) :
        /\ mail[k].user = u /\ \A j \in 1..(k - 1) : mail[j].user # u
        /\ task' = [task EXCEPT ![w] =
             [Idle EXCEPT !.kind = "hook", !.delivery = mail[k], !.id = i]]
  BY DEF Deliver
<1> DEFINE t == [Idle EXCEPT !.kind = "hook", !.delivery = mail[k], !.id = i]
<1>2. t.kind = "hook" /\ t.delivery = mail[k] /\ t.id = i
  BY IdleType DEF TaskType
<1>3. i # Null => editor[i].user = u
  BY <1>1 DEF EditorsOf
<1> HIDE DEF t
<1>4. TaskAlive(t)
  BY <1>1, <1>2, <1>3 DEF TaskAlive
<1>5. mail[k] = t.delivery /\ IsFirst(k)
  BY <1>1, <1>2 DEF IsFirst
<1> QED BY <1>1, <1>4, <1>5, StartKeepsDeleted DEF Deliver, t

\* A name is written over that of an editor only while its account is not deleted, and
\* what clears it is the last delivery about the account.
LEMMA AnswerWrites ==
  ASSUME DeletedInv, NEW w \in Workers, NEW arrives \in BOOLEAN, Answer(w, arrives)
  PROVE  WritesOne
<1> DEFINE d == task[w].delivery
           i == task[w].id
<1>0. editor \in [Ids -> Editor \cup {Null}]
  BY DEF DeletedInv, TypeInv, TypeOK
<1>1. /\ d \in Delivery /\ i \in Ids \cup {Null} /\ (i # Null => Exists(i))
      /\ d.event = "user.created" => d.name # Null
      /\ i # Null => editor[i].user = d.user
      /\ Handle(d, i)
  BY DEF DeletedInv, TypeInv, TypeOK, TaskOK, TaskAlive, Answer
<1>2. PICK k \in DOMAIN mail : mail[k] = d /\ IsFirst(k)
  BY DEF DeletedInv, HooksFirst, Answer
<1>3. i # Null /\ d.event # "user.deleted" => editor[i].cached # Deleted
  BY <1>1, <1>2 DEF DeletedInv, DeletedFinal
<1>4. CASE d.event = "user.created"
  <2>1. CASE i # Null
    BY <1>1, <1>4, <2>1 DEF Handle, UserCreated, WritesOne
  <2>2. CASE i = Null
    <3> DEFINE r == [user |-> d.user, name |-> d.name, cached |-> d.name,
                     tokens |-> FALSE, text |-> FALSE]
    <3>1. d.name \in Names /\ d.user \in Users
      BY <1>1, <1>4 DEF Delivery
    <3>2. r \in Editor /\ r.cached # Deleted
      BY <3>1, SentinelAssumption DEF Editor
    <3>3. Insert(r)
      BY <1>1, <1>4, <2>2 DEF Handle, UserCreated
    <3> HIDE DEF r
    <3>4. NextId \in Ids /\ ~Exists(NextId) /\ editor' = [editor EXCEPT ![NextId] = r]
      BY <3>2, <3>3, InsertAdds DEF DeletedInv, TypeInv
    <3>5. WritesRow(NextId, r)
      BY <3>2, <3>4 DEF WritesRow
    <3> QED BY <3>5 DEF WritesOne
  <2> QED BY <2>1, <2>2
<1>5. CASE d.event = "user.updated"
  <2>1. CASE d.name = Null \/ i = Null
    BY <1>1, <1>5, <2>1 DEF Handle, UserUpdated, WritesOne
  <2>2. CASE d.name # Null /\ i # Null
    <3> DEFINE r == [editor[i] EXCEPT !.name = d.name, !.cached = d.name]
    <3>1. d.name \in Names /\ editor[i] \in Editor /\ i \in Ids
      BY <1>0, <1>1, <2>2 DEF Delivery, Exists
    <3>2. r \in Editor /\ r.cached # Deleted
      BY <3>1, SentinelAssumption DEF Editor
    <3>3. editor' = [editor EXCEPT ![i] = r]
      BY <1>0, <1>1, <1>5, <2>2, <3>1 DEF Handle, UserUpdated, Editor
    <3> HIDE DEF r
    <3>4. WritesRow(i, r)
      BY <1>3, <1>5, <2>2, <3>1, <3>2, <3>3 DEF WritesRow
    <3> QED BY <3>4 DEF WritesOne
  <2> QED BY <2>1, <2>2
<1>6. CASE d.event = "user.deleted"
  <2>1. CASE i = Null
    BY <1>1, <1>6, <2>1 DEF Handle, UserDeleted, WritesOne
  <2>2. CASE i # Null
    <3> DEFINE r == Cleared(editor[i])
    <3>1. editor[i] \in Editor /\ i \in Ids
      BY <1>0, <1>1, <2>2 DEF Exists
    <3>2. r \in Editor /\ r = Cleared(r) /\ r.user = d.user
      BY <1>1, <2>2, <3>1, ClearedFacts
    <3>3. editor' = [editor EXCEPT ![i] = r]
      BY <1>1, <1>6, <2>2 DEF Handle, UserDeleted
    <3> HIDE DEF r
    <3>4. account[d.user].state = "deleted"
      BY <1>2, <1>6 DEF DeletedInv, MailTrue
    <3>5. ASSUME NEW l \in DOMAIN mail, mail[l].user = d.user
          PROVE  mail[l].event = "user.deleted"
      <4>0. mail \in Seq(Delivery)
        BY DEF DeletedInv, TypeInv, TypeOK
      <4>1. DOMAIN mail = 1..Len(mail) /\ Len(mail) \in Nat
        BY <4>0
      <4>2. ~(l < k)
        BY <1>2, <3>5, <4>1 DEF IsFirst
      <4>3. ~(k < l)
        BY <1>2, <1>6, <3>5 DEF DeletedInv, MailInOrder
      <4>4. l = k
        BY <4>1, <4>2, <4>3
      <4> QED BY <1>2, <1>6, <4>4
    <3>6. WritesRow(i, r)
      BY <3>1, <3>2, <3>3, <3>4, <3>5 DEF WritesRow
    <3> QED BY <3>6 DEF WritesOne
  <2> QED BY <2>1, <2>2
<1> QED BY <1>1, <1>4, <1>5, <1>6 DEF Delivery

LEMMA SignInKeepsDeleted ==
  ASSUME \A v, w \in Workers : v = w, DeletedInv, TypeInv', NEW w \in Workers,
         NEW b \in Browsers, NEW u \in Users, SignIn(w, b, u)
  PROVE  DeletedInv'
<1> DEFINE profile == [user |-> u, name |-> account[u].name]
<1>1. CASE ~SignedIn(b) /\ EditorsOf(u) = {}
  <2>1. UNCHANGED <<account, mail, editor, task>>
    BY <1>1 DEF SignIn
  <2> QED BY <2>1 DEF DeletedInv, MailInOrder, MailTrue, HooksFirst, IsFirst, DeletedFinal,
                      TaskAlive, Exists, IsCleared
<1>2. CASE ~(~SignedIn(b) /\ EditorsOf(u) = {})
  <2>1. PICK i \in IF SignedIn(b) THEN {session[b].editor} ELSE EditorsOf(u) :
          task' = [task EXCEPT ![w] =
            [Idle EXCEPT !.kind = "sign in", !.browser = b,
                         !.profile = profile, !.id = i]]
    BY <1>2 DEF SignIn
  <2> DEFINE t == [Idle EXCEPT !.kind = "sign in", !.browser = b,
                               !.profile = profile, !.id = i]
  <2>2. UNCHANGED <<account, mail, sent, editor, session>> /\ account[u].state = "active"
    BY <1>2 DEF SignIn
  <2>3. editor[i].cached # Deleted
    <3>1. CASE SignedIn(b)
      BY <2>1, <3>1 DEF SignedIn
    <3>2. CASE ~SignedIn(b)
      <4>1. i \in Ids /\ Exists(i) /\ editor[i].user = u
        BY <2>1, <3>2 DEF EditorsOf
      <4> QED BY <2>2, <4>1 DEF DeletedInv, DeletedFinal
    <3> QED BY <3>1, <3>2
  <2>4. t.kind = "sign in" /\ t.id = i
    BY IdleType DEF TaskType
  <2> HIDE DEF t
  <2>5. TaskAlive(t)
    BY <2>3, <2>4 DEF TaskAlive
  <2> QED BY <2>1, <2>2, <2>4, <2>5, StartKeepsDeleted DEF t
<1> QED BY <1>1, <1>2

LEMMA FetchKeepsDeleted ==
  ASSUME \A v, w \in Workers : v = w, DeletedInv, TypeInv', NEW w \in Workers,
         NEW b \in Browsers, NEW kind \in {"profile", "count"}, Fetch(w, b, kind)
  PROVE  DeletedInv'
<1> DEFINE i == session[b].editor
           t == [Idle EXCEPT !.kind = kind, !.browser = b, !.id = i, !.row = editor[i]]
<1>1. task' = [task EXCEPT ![w] = t] /\ UNCHANGED <<account, mail, editor>>
  BY DEF Fetch
<1>2. t.kind = kind /\ t.id = i /\ t.row = editor[i]
  BY IdleType DEF TaskType
<1>3. editor[i].cached # Deleted
  BY DEF Fetch, SignedIn
<1> HIDE DEF t
<1>4. TaskAlive(t)
  BY <1>2, <1>3 DEF TaskAlive
<1> QED BY <1>1, <1>2, <1>4, StartKeepsDeleted

\* What the other requests write is the row of an editor that was not deleted.
LEMMA FinishKeepsAlive ==
  ASSUME DeletedInv, NEW w \in Workers,
         \/ FinishSignIn(w)
         \/ \E n \in DisplayNames : FinishProfile(w, n)
         \/ FinishCount(w)
  PROVE  WritesOne
<1> DEFINE t == task[w]
<1>1. t \in TaskType /\ TaskOK(t) /\ TaskAlive(t)
  BY DEF DeletedInv, TypeInv, TypeOK, TaskType
<1>2. editor \in [Ids -> Editor \cup {Null}]
  BY DEF DeletedInv, TypeInv, TypeOK
<1>3. CASE FinishSignIn(w)
  <2> DEFINE r == [editor[t.id] EXCEPT !.user = t.profile.user,
                                       !.cached = t.profile.name, !.tokens = TRUE]
  <2>1. t.kind = "sign in" /\ t.id \in Ids /\ Exists(t.id) /\ t.profile \in Profile
    BY <1>1, <1>3 DEF FinishSignIn, TaskOK, TaskType
  <2>2. editor[t.id] \in Editor /\ t.profile.name \in Names /\ t.profile.user \in Users
    BY <1>2, <2>1 DEF Exists, Profile
  <2>3. r \in Editor /\ r.cached = t.profile.name
    BY <2>2 DEF Editor
  <2>4. editor' = [editor EXCEPT ![t.id] = r]
    BY <1>2, <1>3, <2>1, <2>2 DEF FinishSignIn, Editor
  <2> HIDE DEF r
  <2>5. WritesRow(t.id, r)
    BY <1>1, <2>1, <2>2, <2>3, <2>4, SentinelAssumption DEF WritesRow, TaskAlive
  <2> QED BY <2>5 DEF WritesOne
<1>4. ASSUME NEW n \in DisplayNames, FinishProfile(w, n)
      PROVE  WritesOne
  <2> DEFINE r == [t.row EXCEPT !.name = n, !.text = TRUE]
  <2>1. t.kind = "profile" /\ t.id \in Ids /\ Exists(t.id) /\ t.row \in Editor
    BY <1>1, <1>4 DEF FinishProfile, TaskOK, TaskType
  <2>2. r \in Editor /\ r.cached = t.row.cached
    BY <2>1 DEF Editor
  <2>3. UNCHANGED editor \/ editor' = [editor EXCEPT ![t.id] = r]
    BY <1>4 DEF FinishProfile
  <2> HIDE DEF r
  <2>4. UNCHANGED editor \/ WritesRow(t.id, r)
    BY <1>1, <2>1, <2>2, <2>3 DEF WritesRow, TaskAlive
  <2> QED BY <2>4 DEF WritesOne
<1>5. CASE FinishCount(w)
  <2>1. t.kind = "count" /\ t.id \in Ids /\ Exists(t.id) /\ t.row \in Editor
    BY <1>1, <1>5 DEF FinishCount, TaskOK, TaskType
  <2>2. UNCHANGED editor \/ editor' = [editor EXCEPT ![t.id] = t.row]
    BY <1>5 DEF FinishCount
  <2>3. UNCHANGED editor \/ WritesRow(t.id, t.row)
    BY <1>1, <2>1, <2>2 DEF WritesRow, TaskAlive
  <2> QED BY <2>3 DEF WritesOne
<1> QED BY <1>3, <1>4, <1>5

\* Registration adds a row, with the name that its account had.
LEMMA RegisterWrites ==
  ASSUME DeletedInv, NEW b \in Browsers, NEW n \in DisplayNames, Register(b, n)
  PROVE  /\ WritesOne
         /\ \E r \in Editor : /\ r.user = session[b].profile.user /\ r.user \in Registrants
                              /\ ~Exists(NextId) /\ NextId \in Ids
                              /\ editor' = [editor EXCEPT ![NextId] = r]
<1> DEFINE p == session[b].profile
           r == [user |-> p.user, name |-> n, cached |-> p.name,
                 tokens |-> TRUE, text |-> TRUE]
<1>1. p \in Profile
  BY DEF Register, DeletedInv, TypeInv, TypeOK
<1>2. r \in Editor /\ r.cached # Deleted /\ r.user = p.user
  BY <1>1, SentinelAssumption DEF Editor, Profile
<1>3. Insert(r) /\ p.user \in Registrants
  BY DEF Register
<1> HIDE DEF r
<1>4. NextId \in Ids /\ ~Exists(NextId) /\ editor' = [editor EXCEPT ![NextId] = r]
  BY <1>2, <1>3, InsertAdds DEF DeletedInv, TypeInv
<1>5. WritesRow(NextId, r)
  BY <1>2, <1>4 DEF WritesRow
<1> QED BY <1>2, <1>3, <1>4, <1>5 DEF WritesOne

LEMMA RegisterKeepsDeleted ==
  ASSUME DeletedInv, TypeInv', NEW b \in Browsers, NEW n \in DisplayNames, Register(b, n)
  PROVE  DeletedInv'
<1>1. UNCHANGED <<account, mail, task>>
  BY DEF Register
<1>2. PICK r \in Editor : ~Exists(NextId) /\ editor' = [editor EXCEPT ![NextId] = r]
  BY RegisterWrites
<1>3. PICK f : Left(f)
  BY <1>1, UnchangedLeft DEF DeletedInv, TypeInv
<1>4. DeletedFinal'
  BY <1>1, <1>3, RegisterWrites, WriteKeepsFinal
<1>5. MailInOrder' /\ MailTrue' /\ HooksFirst'
  BY <1>1 DEF DeletedInv, MailInOrder, MailTrue, HooksFirst, IsFirst
<1>6. \A i \in Ids : Exists(i) => editor'[i] = editor[i]
  BY <1>2 DEF DeletedInv, TypeInv, TypeOK
<1>7. \A w \in Workers : TaskAlive(task[w])'
  <2>1. \A w \in Workers : task[w].id \in Ids \cup {Null} /\ TaskOK(task[w]) /\ TaskAlive(task[w])
    BY DEF DeletedInv, TypeInv, TypeOK
  <2> QED BY <1>1, <1>6, <2>1 DEF TaskAlive, TaskOK
<1> QED BY <1>4, <1>5, <1>7 DEF DeletedInv

\* Every step writes one row at most, and that of a deleted editor only to clear it.
LEMMA NextWrites ==
  ASSUME DeletedInv, [Next]_vars
  PROVE  WritesOne
<1>1. CASE UNCHANGED vars \/ MetaBrainz \/ \E b \in Browsers : SignOut(b)
  BY <1>1 DEF vars, MetaBrainz, SignUp, Rename, ChangeEmail, Leave, Send, SignOut, WritesOne
<1>2. ASSUME NEW w \in Workers, Hook(w)
      PROVE  WritesOne
  <2>1. ASSUME NEW u \in Users, Deliver(w, u) \/ Refuse(w)
        PROVE  WritesOne
    BY <2>1 DEF Deliver, Refuse, WritesOne
  <2>2. CASE Refuse(w)
    BY <2>2 DEF Refuse, WritesOne
  <2> QED BY <1>2, <2>1, <2>2, AnswerWrites DEF Hook
<1>3. ASSUME NEW w \in Workers, Site(w)
      PROVE  WritesOne
  <2>1. ASSUME NEW b \in Browsers, NEW u \in Users, SignIn(w, b, u)
        PROVE  WritesOne
    BY <2>1 DEF SignIn, WritesOne
  <2>2. ASSUME NEW b \in Browsers, NEW kind \in {"profile", "count"}, Fetch(w, b, kind)
        PROVE  WritesOne
    BY <2>2 DEF Fetch, WritesOne
  <2> QED BY <1>3, <2>1, <2>2, FinishKeepsAlive DEF Site
<1>4. ASSUME NEW b \in Browsers, NEW n \in DisplayNames, Register(b, n)
      PROVE  WritesOne
  BY <1>4, RegisterWrites
<1> QED BY <1>1, <1>2, <1>3, <1>4 DEF Next

LEMMA NextKeepsDeleted ==
  ASSUME \A v, w \in Workers : v = w, DeletedInv, [Next]_vars
  PROVE  DeletedInv'
<1>0. TypeInv /\ TypeOK /\ TypeInv'
  BY NextKeepsTypeInv DEF DeletedInv, TypeInv
<1>1. CASE UNCHANGED <<account, mail, editor, task>>
  BY <1>0, <1>1 DEF DeletedInv, MailInOrder, MailTrue, HooksFirst, IsFirst, DeletedFinal,
                    TaskAlive, Exists, IsCleared
<1>2. CASE UNCHANGED vars \/ \E b \in Browsers : SignOut(b)
  BY <1>1, <1>2 DEF vars, SignOut
<1>3. CASE MetaBrainz
  BY <1>0, <1>3, MetaBrainzKeepsDeleted
<1>4. ASSUME NEW w \in Workers, NEW arrives \in BOOLEAN, Answer(w, arrives)
      PROVE  DeletedInv'
  <2>1. PICK f : Left(f)
    BY <1>4, AnswerLeaves DEF DeletedInv
  <2>2. task' = [task EXCEPT ![w] = Idle] /\ UNCHANGED account /\ WritesOne
    BY <1>4, AnswerWrites DEF Answer
  <2> QED BY <1>0, <2>1, <2>2, EndKeepsDeleted
<1>5. ASSUME NEW w \in Workers,
             \/ Refuse(w)
             \/ FinishSignIn(w)
             \/ \E n \in DisplayNames : FinishProfile(w, n)
             \/ FinishCount(w)
      PROVE  DeletedInv'
  <2>1. task' = [task EXCEPT ![w] = Idle] /\ UNCHANGED <<account, mail>>
    BY <1>5 DEF Refuse, FinishSignIn, FinishProfile, FinishCount
  <2>2. PICK f : Left(f)
    BY <1>0, <2>1, UnchangedLeft
  <2>3. WritesOne
    <3>1. CASE Refuse(w)
      BY <3>1 DEF Refuse, WritesOne
    <3> QED BY <1>5, <3>1, FinishKeepsAlive
  <2> QED BY <1>0, <2>1, <2>2, <2>3, EndKeepsDeleted
<1>6. ASSUME NEW w \in Workers, Hook(w)
      PROVE  DeletedInv'
  BY <1>0, <1>4, <1>5, <1>6, DeliverKeepsDeleted DEF Hook
<1>7. ASSUME NEW w \in Workers, Site(w)
      PROVE  DeletedInv'
  BY <1>0, <1>5, <1>7, SignInKeepsDeleted, FetchKeepsDeleted DEF Site
<1>8. ASSUME NEW b \in Browsers, NEW n \in DisplayNames, Register(b, n)
      PROVE  DeletedInv'
  BY <1>0, <1>8, RegisterKeepsDeleted
<1> QED BY <1>2, <1>3, <1>6, <1>7, <1>8 DEF Next

LEMMA InitDeleted == Init => DeletedInv
<1> SUFFICES ASSUME Init PROVE DeletedInv
  OBVIOUS
<1>1. /\ DOMAIN mail = {} /\ \A i \in Ids : ~Exists(i)
      /\ \A w \in Workers : task[w].kind = "idle"
  BY DEF Init, Exists, Idle
<1> QED BY <1>1, InitTypeInv DEF DeletedInv, MailInOrder, MailTrue, HooksFirst, DeletedFinal,
                                 TaskAlive

\* If requests do not overlap, an editor that was deleted stays deleted, whatever is
\* registered and linked (deleteEditorByMetaBrainzID, helpers/editor.ts): the deletion is
\* the last delivery about an account, and nobody signs in to what it leaves.
THEOREM DeletedForGood ==
  ASSUME \A v, w \in Workers : v = w
  PROVE  Spec => DeletedStaysDeleted
<1>1. Init => DeletedInv
  BY InitDeleted
<1>2. DeletedInv /\ [Next]_vars => DeletedInv'
  BY NextKeepsDeleted
<1>3. DeletedInv /\ [Next]_vars =>
        [\A i \in Ids : Exists(i) /\ IsCleared(i) => IsCleared(i)']_vars
  BY NextWrites, WritesKeepCleared
<1> QED BY <1>1, <1>2, <1>3, PTL DEF Spec, DeletedStaysDeleted

----------------------------------------------------------------------------
(* What has become of an account that only deliveries make an editor for.  *)

Fresh == Users \ (Older \cup Registrants)

\* The last name that is on its way is the account's.
LastName ==
  \A k \in DOMAIN mail :
    /\ mail[k].name # Null /\ account[mail[k].user].state = "active"
    /\ \A l \in DOMAIN mail : l > k /\ mail[l].user = mail[k].user => mail[l].name = Null
    => mail[k].name = account[mail[k].user].name

Renamed(u) ==
  \E k \in DOMAIN mail : mail[k].user = u /\ mail[k].event = "user.updated" /\ mail[k].name # Null

\* The deletion or the last renaming are on their way, or its editor shows them.
Settled(u) ==
  /\ \A i, j \in EditorsOf(u) : i = j
  /\ account[u].state = "none" => EditorsOf(u) = {}
  /\ account[u].state # "none" /\ EditorsOf(u) = {} =>
       \E k \in DOMAIN mail : mail[k].user = u /\ mail[k].event = "user.created"
  /\ account[u].state = "active" /\ ~Renamed(u) =>
       \A i \in EditorsOf(u) : editor[i].cached = account[u].name
  /\ account[u].state = "deleted" /\ (\A k \in DOMAIN mail : mail[k].user # u) =>
       \A i \in EditorsOf(u) : IsCleared(i)
  /\ account[u].state = "deleted" /\ (\E k \in DOMAIN mail : mail[k].user = u) =>
       \E k \in DOMAIN mail : mail[k].user = u /\ mail[k].event = "user.deleted"

\* What the request that is going on has read is still so.
TaskSettled(t) ==
  /\ t.kind = "hook" /\ t.id = Null /\ t.delivery.user \in Fresh => EditorsOf(t.delivery.user) = {}
  /\ t.kind = "sign in" =>
       /\ editor[t.id].user = t.profile.user
       /\ t.profile.user \in Fresh /\ account[t.profile.user].state = "active"
          /\ ~Renamed(t.profile.user) => t.profile.name = account[t.profile.user].name
  /\ t.kind \in {"profile", "count"} => editor[t.id] = t.row

SettledInv ==
  /\ DeletedInv /\ LastName
  /\ \A u \in Fresh : Settled(u)
  /\ \A w \in Workers : TaskSettled(task[w])

\* What an account has in the editor table when one row is written.
LEMMA WrittenRow ==
  ASSUME TypeOK, NEW i \in Ids, NEW r \in Editor, editor' = [editor EXCEPT ![i] = r]
  PROVE  /\ \A j \in Ids : editor'[j] = IF j = i THEN r ELSE editor[j]
         /\ \A u : r.user = u => EditorsOf(u)' = EditorsOf(u) \cup {i}
         /\ \A u : r.user # u /\ i \notin EditorsOf(u) => EditorsOf(u)' = EditorsOf(u)
<1>1. \A j \in Ids : editor'[j] = IF j = i THEN r ELSE editor[j]
  BY DEF TypeOK
<1>2. r # Null
  BY EditorNotNull
<1>3. \A u, j : j \in EditorsOf(u)' <=> IF j = i THEN r.user = u ELSE j \in EditorsOf(u)
  BY <1>1, <1>2 DEF EditorsOf, Exists
<1> QED BY <1>1, <1>3

LEMMA SendKeepsSettled ==
  ASSUME SettledInv, TypeInv', DeletedInv', NEW u \in Users, NEW n \in Names \cup {Null},
         NEW e \in {"user.created", "user.updated", "user.deleted"}, Send(e, u, n),
         NEW a \in Account, account' = [account EXCEPT ![u] = a],
         account[u].state = IF e = "user.created" THEN "none" ELSE "active",
         a.state = IF e = "user.deleted" THEN "deleted" ELSE "active",
         n = Null => a.name = account[u].name,
         e # "user.deleted" /\ n # Null => n = a.name,
         e = "user.created" => n # Null
  PROVE  SettledInv'
<1> DEFINE d == [event |-> e, user |-> u, name |-> n]
           N == Len(mail) + 1
<1>0. mail \in Seq(Delivery) /\ account \in [Users -> Account]
  BY DEF SettledInv, DeletedInv, TypeInv, TypeOK
<1>1. /\ Len(mail) \in Nat /\ DOMAIN mail = 1..Len(mail) /\ DOMAIN mail' = 1..N
      /\ mail'[N] = d /\ \A k \in DOMAIN mail : mail'[k] = mail[k]
  BY <1>0 DEF Send
<1>2. UNCHANGED <<editor, session, task>>
  BY DEF Send
<1>3. d.event = e /\ d.user = u /\ d.name = n
  OBVIOUS
<1> HIDE DEF d
<1>4. \A v \in Users : account'[v] = IF v = u THEN a ELSE account[v]
  BY <1>0
<1>5. \A k \in DOMAIN mail' : k = N \/ (k \in DOMAIN mail /\ mail'[k] = mail[k] /\ k < N)
  BY <1>1
<1>6. DOMAIN mail \subseteq DOMAIN mail' /\ N \in DOMAIN mail'
  BY <1>1
<1>7. \A k \in DOMAIN mail : mail[k].user \in Users
  <2>1. \A k \in DOMAIN mail : mail[k] \in Delivery
    BY <1>0
  <2> QED BY <2>1 DEF Delivery
<1> HIDE DEF N
<1>8. LastName'
  <2> SUFFICES ASSUME NEW k \in DOMAIN mail', mail'[k].name # Null,
                      account'[mail'[k].user].state = "active",
                      \A l \in DOMAIN mail' :
                        l > k /\ mail'[l].user = mail'[k].user => mail'[l].name = Null
               PROVE  mail'[k].name = account'[mail'[k].user].name
    BY DEF LastName
  <2>1. CASE k = N
    BY <1>1, <1>3, <1>4, <2>1
  <2>2. CASE k \in DOMAIN mail /\ mail'[k] = mail[k] /\ k < N
    <3>1. N > k /\ (mail[k].user = u => n = Null)
      <4>1. N > k
        BY <1>1, <2>2 DEF N
      <4> QED BY <1>1, <1>3, <1>6, <2>2, <4>1
    <3>2. \A l \in DOMAIN mail : l > k /\ mail[l].user = mail[k].user => mail[l].name = Null
      BY <1>1, <1>6, <2>2
    <3>3. account[mail[k].user].state = "active" =>
            mail[k].name = account[mail[k].user].name
      BY <2>2, <3>2 DEF SettledInv, LastName
    <3>4. CASE mail[k].user # u
      BY <1>4, <1>7, <2>2, <3>3, <3>4
    <3>5. CASE mail[k].user = u
      <4>1. account[u].state # "none"
        BY <3>5, <2>2 DEF SettledInv, DeletedInv, MailTrue
      <4> QED BY <1>4, <2>2, <3>1, <3>3, <3>5, <4>1
    <3> QED BY <3>4, <3>5
  <2> QED BY <1>5, <2>1, <2>2
<1>9. \A v : EditorsOf(v)' = EditorsOf(v)
  BY <1>2 DEF EditorsOf, Exists
<1>10. \A i : IsCleared(i)' = IsCleared(i)
  BY <1>2 DEF IsCleared
<1>11. \A v : v # u => (Renamed(v)' <=> Renamed(v))
  BY <1>1, <1>3, <1>5, <1>6 DEF Renamed
<1>12. Renamed(u)' <=> Renamed(u) \/ (e = "user.updated" /\ n # Null)
  BY <1>1, <1>3, <1>5, <1>6 DEF Renamed
<1>13. ASSUME NEW v \in Fresh, v # u
       PROVE  Settled(v)'
  <2>1. Settled(v) /\ account'[v] = account[v]
    BY <1>4, <1>13 DEF SettledInv, Fresh
  <2>2. \A k \in DOMAIN mail' : mail'[k].user = v => k \in DOMAIN mail /\ mail'[k] = mail[k]
    BY <1>1, <1>3, <1>5, <1>13
  <2>3. \A k \in DOMAIN mail : k \in DOMAIN mail' /\ mail'[k] = mail[k]
    BY <1>1, <1>6
  <2> QED BY <1>2, <1>9, <1>10, <1>11, <1>13, <2>1, <2>2, <2>3 DEF Settled
<1>14. ASSUME u \in Fresh
       PROVE  Settled(u)'
  <2>1. Settled(u) /\ account'[u] = a
    BY <1>4, <1>14 DEF SettledInv, Fresh
  <2>2. mail'[N].user = u /\ mail'[N].event = e
    BY <1>1, <1>3
  <2>3. \A i, j \in EditorsOf(u)' : i = j
    BY <1>9, <2>1 DEF Settled
  <2>4. EditorsOf(u)' = {} =>
          \E k \in DOMAIN mail' : mail'[k].user = u /\ mail'[k].event = "user.created"
    BY <1>1, <1>6, <1>9, <2>1, <2>2 DEF Settled
  <2>5. a.state = "active" /\ ~Renamed(u)' =>
          \A i \in EditorsOf(u)' : editor'[i].cached = a.name
    <3> HAVE a.state = "active" /\ ~Renamed(u)'
    <3>1. CASE e = "user.created"
      BY <1>9, <2>1, <3>1 DEF Settled
    <3>2. CASE e = "user.updated"
      BY <1>2, <1>9, <1>12, <2>1, <3>2 DEF Settled
    <3> QED BY <3>1, <3>2
  <2>6. a.state = "deleted" => e = "user.deleted"
    OBVIOUS
  <2> QED BY <1>6, <2>1, <2>2, <2>3, <2>4, <2>5, <2>6 DEF Settled
<1>15. ASSUME NEW w \in Workers
       PROVE  TaskSettled(task[w])'
  <2> DEFINE t == task[w]
  <2>1. TaskSettled(t) /\ TaskOK(t) /\ t \in TaskType
    BY DEF SettledInv, DeletedInv, TypeInv, TypeOK, TaskType
  <2>2. ASSUME NEW v \in Fresh, t.kind = "sign in", t.profile.user = v,
               account'[v].state = "active", ~Renamed(v)'
        PROVE  t.profile.name = account'[v].name
    <3>0. v \in Users /\ t.id \in EditorsOf(v)
      BY <2>1, <2>2 DEF TaskSettled, TaskOK, TaskType, EditorsOf, Fresh
    <3>1. CASE v # u
      <4>1. account'[v] = account[v] /\ ~Renamed(v)
        BY <1>4, <1>11, <2>2, <3>0, <3>1
      <4> QED BY <2>1, <2>2, <4>1 DEF TaskSettled
    <3>2. CASE v = u
      <4>1. e # "user.created"
        BY ZenonT(40), <2>2, <3>0, <3>2 DEF SettledInv, Settled
      <4>2. account'[u] = a /\ ~Renamed(u)'
        BY <1>4, <2>2, <3>2
      <4>3. a.state = "active"
        BY <2>2, <3>2, <4>2
      <4>4. e = "user.updated"
        BY <4>1, <4>3
      <4>5. n = Null /\ ~Renamed(u)
        BY <1>12, <4>2, <4>4
      <4> QED BY <2>1, <2>2, <3>2, <4>2, <4>4, <4>5 DEF TaskSettled
    <3> QED BY <3>1, <3>2
  <2> QED BY <1>2, <1>9, <2>1, <2>2 DEF TaskSettled, Renamed
<1> QED BY <1>8, <1>13, <1>14, <1>15 DEF SettledInv

LEMMA MetaBrainzKeepsSettled ==
  ASSUME SettledInv, TypeInv', DeletedInv', MetaBrainz
  PROVE  SettledInv'
<1>0. account \in [Users -> Account]
  BY DEF SettledInv, DeletedInv, TypeInv, TypeOK
<1>1. ASSUME NEW u \in Users, NEW n \in Names, SignUp(u, n)
      PROVE  SettledInv'
  <2> DEFINE a == [state |-> "active", name |-> n]
  <2>1. a \in Account /\ a.state = "active" /\ a.name = n /\ n # Null
    BY SentinelAssumption DEF Account
  <2>2. /\ Send("user.created", u, n) /\ account' = [account EXCEPT ![u] = a]
        /\ account[u].state = "none"
    BY <1>1 DEF SignUp
  <2> HIDE DEF a
  <2> QED BY <2>1, <2>2, SendKeepsSettled
<1>2. ASSUME NEW u \in Users, NEW n \in Names, Rename(u, n)
      PROVE  SettledInv'
  <2> DEFINE a == [account[u] EXCEPT !.name = n]
  <2>1. a \in Account /\ a.state = account[u].state /\ a.name = n /\ n # Null
    BY <1>0, SentinelAssumption DEF Account
  <2>2. /\ Send("user.updated", u, n) /\ account' = [account EXCEPT ![u] = a]
        /\ account[u].state = "active"
    BY <1>0, <1>2 DEF Rename
  <2> HIDE DEF a
  <2> QED BY <2>1, <2>2, SendKeepsSettled
<1>3. ASSUME NEW u \in Users, ChangeEmail(u)
      PROVE  SettledInv'
  <2>1. /\ account[u] \in Account /\ account' = [account EXCEPT ![u] = account[u]]
        /\ Send("user.updated", u, Null) /\ account[u].state = "active"
    BY <1>0, <1>3 DEF ChangeEmail
  <2> QED BY <2>1, SendKeepsSettled
<1>4. ASSUME NEW u \in Users, Leave(u)
      PROVE  SettledInv'
  <2> DEFINE a == [account[u] EXCEPT !.state = "deleted"]
  <2>1. a \in Account /\ a.state = "deleted" /\ a.name = account[u].name
    BY <1>0 DEF Account
  <2>2. /\ Send("user.deleted", u, Null) /\ account' = [account EXCEPT ![u] = a]
        /\ account[u].state = "active"
    BY <1>0, <1>4 DEF Leave
  <2> HIDE DEF a
  <2> QED BY <2>1, <2>2, SendKeepsSettled
<1> QED BY <1>1, <1>2, <1>3, <1>4 DEF MetaBrainz

\* A delivery that is answered changes what its account shows, and nothing else.
LEMMA AnswerKeepsLastName ==
  ASSUME SettledInv, UNCHANGED account, NEW f, Left(f), NEW k \in DOMAIN mail, IsFirst(k),
         \A m \in DOMAIN mail : m # k => \E l \in DOMAIN mail' : f[l] = m
  PROVE  LastName'
<1> SUFFICES ASSUME NEW j \in DOMAIN mail', mail'[j].name # Null,
                    account[mail'[j].user].state = "active",
                    \A l \in DOMAIN mail' :
                      l > j /\ mail'[l].user = mail'[j].user => mail'[l].name = Null
             PROVE  mail'[j].name = account[mail'[j].user].name
  BY DEF LastName
<1>1. f[j] \in DOMAIN mail /\ mail'[j] = mail[f[j]]
  BY DEF Left
<1>2. ASSUME NEW m \in DOMAIN mail, m > f[j], mail[m].user = mail[f[j]].user
      PROVE  mail[m].name = Null
  <2>0. mail \in Seq(Delivery)
    BY DEF SettledInv, DeletedInv, TypeInv, TypeOK
  <2>1. DOMAIN mail = 1..Len(mail) /\ Len(mail) \in Nat
    BY <2>0
  <2>2. m # k
    BY <1>1, <1>2, <2>1 DEF IsFirst
  <2>3. PICK l \in DOMAIN mail' : f[l] = m
    BY <2>2
  <2>4. j \in Nat /\ l \in Nat /\ f[l] \in Nat /\ f[j] \in Nat /\ (j < l <=> f[j] < f[l])
        /\ mail'[l] = mail[m]
    BY <2>3 DEF Left
  <2>5. l > j
    BY <1>2, <2>3, <2>4
  <2> QED BY <1>1, <1>2, <2>4, <2>5
<1> QED BY <1>1, <1>2 DEF SettledInv, LastName

\* What is handled for account u is written to its only editor.
LEMMA HandleSettles ==
  ASSUME SettledInv, NEW d \in Delivery, NEW i \in Ids \cup {Null}, NEW u \in Fresh,
         Settled(u), d.user = u, Handle(d, i),
         d.event = "user.created" => d.name # Null,
         i = Null => EditorsOf(u) = {}, i # Null => i \in EditorsOf(u)
  PROVE  /\ \A j, l \in EditorsOf(u)' : j = l
         /\ d.event = "user.created" => EditorsOf(u)' # {}
         /\ i # Null \/ d.event # "user.created" => EditorsOf(u)' = EditorsOf(u)
         /\ \/ d.event = "user.created" /\ i # Null
            \/ d.event = "user.updated" /\ d.name = Null
            => UNCHANGED editor
         /\ \/ d.event = "user.created" /\ i = Null
            \/ d.event = "user.updated" /\ d.name # Null
            => \A j \in EditorsOf(u)' : editor'[j].cached = d.name
         /\ d.event = "user.deleted" => \A j \in EditorsOf(u)' : IsCleared(j)'
<1>0. TypeOK /\ editor \in [Ids -> Editor \cup {Null}]
  BY DEF SettledInv, DeletedInv, TypeInv, TypeOK
<1>1. i # Null => EditorsOf(u) = {i} /\ i \in Ids /\ editor[i] \in Editor
                  /\ editor[i].user = u
  <2> HAVE i # Null
  <2>1. EditorsOf(u) = {i}
    BY DEF Settled
  <2>2. i \in Ids /\ Exists(i) /\ editor[i].user = u
    BY <2>1 DEF EditorsOf
  <2> QED BY <1>0, <2>1, <2>2 DEF Exists
<1>2. ASSUME UNCHANGED editor
      PROVE  EditorsOf(u)' = EditorsOf(u)
  BY <1>2 DEF EditorsOf, Exists
<1>3. d.user \in Users /\ d.name \in Names \cup {Null}
      /\ d.event \in {"user.created", "user.updated", "user.deleted"}
  BY DEF Delivery
<1>4. CASE d.event = "user.created" /\ i # Null
  <2>1. UNCHANGED editor
    BY <1>4 DEF Handle, UserCreated
  <2> QED BY <1>1, <1>2, <1>4, <2>1
<1>5. CASE d.event = "user.created" /\ i = Null
  <2> DEFINE r == [user |-> d.user, name |-> d.name, cached |-> d.name,
                   tokens |-> FALSE, text |-> FALSE]
  <2>1. r \in Editor /\ r.user = u /\ r.cached = d.name
    BY <1>3, <1>5 DEF Editor
  <2>2. Insert(r)
    BY <1>5 DEF Handle, UserCreated
  <2> HIDE DEF r
  <2>3. NextId \in Ids /\ ~Exists(NextId) /\ editor' = [editor EXCEPT ![NextId] = r]
    BY <1>0, <2>1, <2>2, InsertAdds
  <2>4. editor'[NextId] = r
    BY <1>0, <2>3
  <2>5. EditorsOf(u)' = {} \cup {NextId}
    BY <1>0, <1>5, <2>1, <2>3, WrittenRow
  <2> QED BY <1>5, <2>1, <2>4, <2>5
<1>6. CASE d.event = "user.updated" /\ d.name = Null
  <2>1. UNCHANGED editor
    BY <1>6 DEF Handle, UserUpdated
  <2>2. EditorsOf(u)' = EditorsOf(u)
    BY <1>2, <2>1
  <2> QED BY <1>6, <2>1, <2>2 DEF Settled
<1>7. CASE d.event = "user.updated" /\ d.name # Null /\ i = Null
  <2>1. UNCHANGED editor
    BY <1>7 DEF Handle, UserUpdated
  <2>2. EditorsOf(u)' = {} /\ EditorsOf(u) = {}
    BY <1>2, <1>7, <2>1
  <2> QED BY <1>7, <2>1, <2>2
<1>8. CASE d.event = "user.updated" /\ d.name # Null /\ i # Null
  <2> DEFINE r == [editor[i] EXCEPT !.name = d.name, !.cached = d.name]
  <2>1. r \in Editor /\ r.cached = d.name /\ r.user = u
    BY <1>1, <1>3, <1>8 DEF Editor
  <2>2. editor' = [editor EXCEPT ![i] = r]
    BY <1>0, <1>1, <1>8 DEF Handle, UserUpdated, Editor
  <2> HIDE DEF r
  <2>3. editor'[i] = r
    BY <1>0, <1>1, <1>8, <2>2
  <2>4. EditorsOf(u)' = {i} \cup {i}
    BY <1>0, <1>1, <1>8, <2>1, <2>2, WrittenRow
  <2> QED BY <1>1, <1>8, <2>1, <2>3, <2>4
<1>9. CASE d.event = "user.deleted" /\ i = Null
  <2>1. UNCHANGED editor
    BY <1>9 DEF Handle, UserDeleted
  <2>2. EditorsOf(u)' = {} /\ EditorsOf(u) = {}
    BY <1>2, <1>9, <2>1
  <2> QED BY <1>9, <2>1, <2>2
<1>10. CASE d.event = "user.deleted" /\ i # Null
  <2> DEFINE r == Cleared(editor[i])
  <2>1. r \in Editor /\ r = Cleared(r) /\ r.user = u
    BY <1>1, <1>10, ClearedFacts
  <2>2. editor' = [editor EXCEPT ![i] = r]
    BY <1>10 DEF Handle, UserDeleted
  <2> HIDE DEF r
  <2>3. editor'[i] = r
    BY <1>0, <1>1, <1>10, <2>2
  <2>4. EditorsOf(u)' = {i} \cup {i}
    BY <1>0, <1>1, <1>10, <2>1, <2>2, WrittenRow
  <2>5. IsCleared(i)'
    BY <2>1, <2>3 DEF IsCleared
  <2> QED BY <1>1, <1>10, <2>4, <2>5
<1> QED BY <1>3, <1>4, <1>5, <1>6, <1>7, <1>8, <1>9, <1>10

\* What is handled for an account does not touch the editors of another.
LEMMA HandleLeaves ==
  ASSUME TypeOK, NEW d \in Delivery, NEW i \in Ids \cup {Null}, Handle(d, i),
         d.event = "user.created" => d.name # Null,
         i # Null => Exists(i) /\ editor[i].user = d.user,
         NEW u \in Users, u # d.user
  PROVE  EditorsOf(u)' = EditorsOf(u) /\ \A j \in EditorsOf(u) : editor'[j] = editor[j]
<1>0. editor \in [Ids -> Editor \cup {Null}]
  BY DEF TypeOK
<1>1. UNCHANGED editor \/ \E j, r : /\ j \in Ids /\ r \in Editor /\ r.user = d.user
                                    /\ editor' = [editor EXCEPT ![j] = r]
                                    /\ j \notin EditorsOf(u)
  <2>1. /\ d.user \in Users /\ d.name \in Names \cup {Null}
        /\ d.event \in {"user.created", "user.updated", "user.deleted"}
    BY DEF Delivery
  <2>2. i # Null => i \in Ids /\ editor[i] \in Editor /\ i \notin EditorsOf(u)
    BY <1>0 DEF Exists, EditorsOf
  <2>3. CASE d.event = "user.created" /\ i = Null
    <3> DEFINE r == [user |-> d.user, name |-> d.name, cached |-> d.name,
                     tokens |-> FALSE, text |-> FALSE]
    <3>1. r \in Editor /\ r.user = d.user
      BY <2>1, <2>3 DEF Editor
    <3>2. Insert(r)
      BY <2>3 DEF Handle, UserCreated
    <3> HIDE DEF r
    <3>3. NextId \in Ids /\ ~Exists(NextId) /\ editor' = [editor EXCEPT ![NextId] = r]
      BY <3>1, <3>2, InsertAdds
    <3> QED BY <3>1, <3>3 DEF EditorsOf
  <2>4. CASE d.event = "user.updated" /\ d.name # Null /\ i # Null
    <3> DEFINE r == [editor[i] EXCEPT !.name = d.name, !.cached = d.name]
    <3>1. r \in Editor /\ r.user = d.user
      BY <2>1, <2>2, <2>4 DEF Editor
    <3>2. editor' = [editor EXCEPT ![i] = r]
      BY <1>0, <2>2, <2>4 DEF Handle, UserUpdated, Editor
    <3> HIDE DEF r
    <3> QED BY <2>2, <2>4, <3>1, <3>2
  <2>5. CASE d.event = "user.deleted" /\ i # Null
    <3> DEFINE r == Cleared(editor[i])
    <3>1. r \in Editor /\ r.user = d.user
      BY <2>2, <2>5, ClearedFacts
    <3>2. editor' = [editor EXCEPT ![i] = r]
      BY <2>5 DEF Handle, UserDeleted
    <3> HIDE DEF r
    <3> QED BY <2>2, <2>5, <3>1, <3>2
  <2> QED BY <2>1, <2>3, <2>4, <2>5 DEF Handle, UserCreated, UserUpdated, UserDeleted
<1>2. CASE UNCHANGED editor
  BY <1>2 DEF EditorsOf, Exists
<1>3. ASSUME NEW j, NEW r, j \in Ids, r \in Editor, r.user = d.user,
             editor' = [editor EXCEPT ![j] = r], j \notin EditorsOf(u)
      PROVE  EditorsOf(u)' = EditorsOf(u) /\ \A l \in EditorsOf(u) : editor'[l] = editor[l]
  <2>0. j \in Ids /\ r \in Editor /\ editor' = [editor EXCEPT ![j] = r] /\ r.user # u
    BY <1>3
  <2>1. \A l \in Ids : editor'[l] = IF l = j THEN r ELSE editor[l]
    BY <1>0, <2>0
  <2>2. r # Null
    BY <2>0, EditorNotNull
  <2>3. \A l : l \in EditorsOf(u)' <=> l \in EditorsOf(u)
    BY <1>3, <2>0, <2>1, <2>2 DEF EditorsOf, Exists
  <2>4. EditorsOf(u)' = EditorsOf(u)
    BY <2>3
  <2>5. \A l \in EditorsOf(u) : editor'[l] = editor[l]
    BY <1>3, <2>1 DEF EditorsOf
  <2> QED BY <2>4, <2>5
<1> QED BY <1>1, <1>2, <1>3

LEMMA AnswerSettles ==
  ASSUME SettledInv, NEW w \in Workers, NEW arrives \in BOOLEAN, Answer(w, arrives),
         NEW u \in Fresh
  PROVE  Settled(u)'
<1> DEFINE d == task[w].delivery
           i == task[w].id
<1>0. TypeOK /\ TypeInv /\ UNCHANGED account /\ mail \in Seq(Delivery) /\ Settled(u)
  BY DEF SettledInv, DeletedInv, TypeInv, TypeOK, Answer
<1>1. /\ d \in Delivery /\ i \in Ids \cup {Null} /\ (i # Null => Exists(i) /\ editor[i].user = d.user)
      /\ d.event = "user.created" => d.name # Null
      /\ i = Null /\ d.user \in Fresh => EditorsOf(d.user) = {}
      /\ Handle(d, i)
  BY DEF SettledInv, DeletedInv, TypeInv, TypeOK, TaskOK, TaskAlive, TaskSettled, Answer
<1>2. PICK f : /\ Left(f)
               /\ \/ ~arrives /\ UNCHANGED mail /\ \A k \in DOMAIN mail : f[k] = k
                  \/ /\ arrives
                     /\ \E k \in DOMAIN mail :
                          /\ mail[k] = d /\ IsFirst(k)
                          /\ \A m \in DOMAIN mail : m # k <=> \E l \in DOMAIN mail' : f[l] = m
  BY AnswerLeaves DEF SettledInv, DeletedInv
<1>3. PICK k \in DOMAIN mail :
        /\ mail[k] = d /\ IsFirst(k)
        /\ \A m \in DOMAIN mail : m # k => \E l \in DOMAIN mail' : f[l] = m
        /\ (\E l \in DOMAIN mail' : f[l] = k) => UNCHANGED mail
  <2>1. CASE ~arrives
    <3>1. PICK k \in DOMAIN mail : mail[k] = d /\ IsFirst(k)
      BY DEF SettledInv, DeletedInv, HooksFirst, Answer
    <3> QED BY <1>2, <2>1, <3>1
  <2>2. CASE arrives
    BY <1>2, <2>2
  <2> QED BY <2>1, <2>2
<1>4. \A l \in DOMAIN mail' : f[l] \in DOMAIN mail /\ mail'[l] = mail[f[l]]
  BY <1>2 DEF Left
<1>5. \A m \in DOMAIN mail : m # k => \E l \in DOMAIN mail' : mail'[l] = mail[m]
  BY <1>3, <1>4
<1> HIDE DEF d, i
<1>6. CASE d.user # u
  <2>1. EditorsOf(u)' = EditorsOf(u) /\ \A j \in EditorsOf(u) : editor'[j] = editor[j]
    BY <1>0, <1>1, <1>6, HandleLeaves DEF Fresh
  <2>2. \A j \in EditorsOf(u) : IsCleared(j)' <=> IsCleared(j)
    BY <2>1 DEF IsCleared
  <2>3. \A m \in DOMAIN mail : mail[m].user = u => \E l \in DOMAIN mail' : mail'[l] = mail[m]
    BY <1>3, <1>5, <1>6
  <2>4. Renamed(u)' <=> Renamed(u)
    BY <1>4, <2>3 DEF Renamed
  <2>5. (\A m \in DOMAIN mail : mail[m].user # u) <=> (\A l \in DOMAIN mail' : mail'[l].user # u)
    BY <1>4, <2>3
  <2>6. \A e : (\E m \in DOMAIN mail : mail[m].user = u /\ mail[m].event = e) =>
                 \E l \in DOMAIN mail' : mail'[l].user = u /\ mail'[l].event = e
    BY <2>3
  <2>7. \A i1, j \in EditorsOf(u)' : i1 = j
    BY <1>0, <2>1 DEF Settled
  <2>8. account'[u].state = "active" /\ ~Renamed(u)' =>
          \A j \in EditorsOf(u)' : editor'[j].cached = account'[u].name
    BY <1>0, <2>1, <2>4 DEF Settled
  <2>9. account'[u].state = "deleted" /\ (\A l \in DOMAIN mail' : mail'[l].user # u) =>
          \A j \in EditorsOf(u)' : IsCleared(j)'
    BY <1>0, <2>1, <2>2, <2>5 DEF Settled
  <2>10. account'[u].state = "deleted" /\ (\E l \in DOMAIN mail' : mail'[l].user = u) =>
           \E l \in DOMAIN mail' : mail'[l].user = u /\ mail'[l].event = "user.deleted"
    BY <1>0, <2>5, <2>6 DEF Settled
  <2>11. account'[u].state = "none" => EditorsOf(u)' = {}
    BY <1>0, <2>1 DEF Settled
  <2>12. account'[u].state # "none" /\ EditorsOf(u)' = {} =>
           \E l \in DOMAIN mail' : mail'[l].user = u /\ mail'[l].event = "user.created"
    BY <1>0, <2>1, <2>6 DEF Settled
  <2> QED BY <2>7, <2>8, <2>9, <2>10, <2>11, <2>12 DEF Settled
<1>7. CASE d.user = u
  <2>0. d.event \in {"user.created", "user.updated", "user.deleted"}
    BY <1>1 DEF Delivery
  <2>1. i # Null => i \in EditorsOf(u)
    BY <1>1, <1>7 DEF EditorsOf
  <2>2. /\ \A j, l \in EditorsOf(u)' : j = l
        /\ d.event = "user.created" => EditorsOf(u)' # {}
        /\ i # Null \/ d.event # "user.created" => EditorsOf(u)' = EditorsOf(u)
        /\ \/ d.event = "user.created" /\ i # Null
           \/ d.event = "user.updated" /\ d.name = Null
           => UNCHANGED editor
        /\ \/ d.event = "user.created" /\ i = Null
           \/ d.event = "user.updated" /\ d.name # Null
           => \A j \in EditorsOf(u)' : editor'[j].cached = d.name
        /\ d.event = "user.deleted" => \A j \in EditorsOf(u)' : IsCleared(j)'
    BY ZenonT(40), <1>0, <1>1, <1>7, <2>1, HandleSettles
  <2>3. DOMAIN mail = 1..Len(mail) /\ Len(mail) \in Nat /\ \A m \in DOMAIN mail : mail[m] \in Delivery
    BY <1>0
  <2>4. ASSUME NEW m \in DOMAIN mail, mail[m].user = u, m # k
        PROVE  k < m /\ mail[m].event # "user.created" /\ d.event # "user.deleted"
    <3>1. ~(m < k)
      BY <1>3, <1>7, <2>3, <2>4 DEF IsFirst
    <3>2. k < m
      BY <2>3, <2>4, <3>1
    <3> QED BY <1>3, <1>7, <2>4, <3>2 DEF SettledInv, DeletedInv, MailInOrder
  <2>5. account[u].state # "none" /\ (d.event = "user.deleted" => account[u].state = "deleted")
    BY <1>3, <1>7 DEF SettledInv, DeletedInv, MailTrue
  <2>6. EditorsOf(u)' = {} =>
          \E l \in DOMAIN mail' : mail'[l].user = u /\ mail'[l].event = "user.created"
    <3> HAVE EditorsOf(u)' = {}
    <3>1. d.event # "user.created" /\ EditorsOf(u) = {}
      BY <2>2
    <3>2. PICK m \in DOMAIN mail : mail[m].user = u /\ mail[m].event = "user.created"
      BY <1>0, <2>5, <3>1 DEF Settled
    <3> QED BY <1>3, <1>5, <3>1, <3>2
  <2>7. account[u].state = "active" /\ ~Renamed(u)' =>
          \A j \in EditorsOf(u)' : editor'[j].cached = account[u].name
    <3> HAVE account[u].state = "active" /\ ~Renamed(u)'
    <3>1. ASSUME NEW m \in DOMAIN mail, mail[m].user = u, m # k
          PROVE  mail[m].name = Null
      <4>1. PICK l \in DOMAIN mail' : mail'[l] = mail[m]
        BY <1>5, <3>1
      <4>2. mail[m].event # "user.created"
        BY <2>4, <3>1
      <4>3. mail[m].event # "user.deleted"
        BY <3>1 DEF SettledInv, DeletedInv, MailTrue
      <4>4. mail[m].event = "user.updated"
        BY <2>3, <4>2, <4>3 DEF Delivery
      <4> QED BY <3>1, <4>1, <4>4 DEF Renamed
    <3>2. d.name # Null => d.name = account[u].name
      <4>1. \A m \in DOMAIN mail : m > k /\ mail[m].user = u => mail[m].name = Null
        BY <2>3, <3>1
      <4> QED BY <1>3, <1>7, <4>1 DEF SettledInv, LastName
    <3>3. CASE \/ d.event = "user.created" /\ i # Null
               \/ d.event = "user.updated" /\ d.name = Null
      <4>1. ~Renamed(u)
        BY <1>3, <3>1, <3>3 DEF Renamed
      <4>2. UNCHANGED editor /\ EditorsOf(u)' = EditorsOf(u)
        BY <2>2, <3>3
      <4> QED BY <1>0, <4>1, <4>2 DEF Settled
    <3>4. CASE \/ d.event = "user.created" /\ i = Null
               \/ d.event = "user.updated" /\ d.name # Null
      <4>1. d.name # Null
        BY <1>1, <3>4
      <4> QED BY <2>2, <3>2, <3>4, <4>1
    <3>5. d.event # "user.deleted"
      BY <2>5
    <3> QED BY <2>0, <3>3, <3>4, <3>5
  <2>8. account[u].state = "deleted" /\ (\A l \in DOMAIN mail' : mail'[l].user # u) =>
          \A j \in EditorsOf(u)' : IsCleared(j)'
    <3> HAVE account[u].state = "deleted" /\ (\A l \in DOMAIN mail' : mail'[l].user # u)
    <3>1. PICK m \in DOMAIN mail : mail[m].user = u /\ mail[m].event = "user.deleted"
      BY <1>0, <1>3, <1>7 DEF Settled
    <3>2. m = k
      BY <1>5, <3>1
    <3> QED BY <1>3, <2>2, <3>1, <3>2
  <2>9. account[u].state = "deleted" /\ (\E l \in DOMAIN mail' : mail'[l].user = u) =>
          \E l \in DOMAIN mail' : mail'[l].user = u /\ mail'[l].event = "user.deleted"
    <3> HAVE account[u].state = "deleted" /\ (\E l \in DOMAIN mail' : mail'[l].user = u)
    <3>1. PICK l \in DOMAIN mail' : mail'[l].user = u
      OBVIOUS
    <3>2. PICK m \in DOMAIN mail : mail[m].user = u /\ mail[m].event = "user.deleted"
      BY <1>0, <1>3, <1>7 DEF Settled
    <3>3. CASE m # k
      BY <1>5, <3>2, <3>3
    <3>4. CASE m = k
      <4>1. f[l] = k
        <5>1. f[l] \in DOMAIN mail /\ mail[f[l]].user = u
          BY <1>4, <3>1
        <5> QED BY <1>3, <2>4, <3>2, <3>4, <5>1
      <4>2. mail'[l] = mail[k]
        BY <1>4, <4>1
      <4> QED BY <3>2, <3>4, <4>2
    <3> QED BY <3>3, <3>4
  <2> QED BY <1>0, <2>2, <2>5, <2>6, <2>7, <2>8, <2>9 DEF Settled
<1> QED BY <1>6, <1>7

LEMMA AnswerKeepsSettled ==
  ASSUME \A v, w \in Workers : v = w, SettledInv, DeletedInv', NEW w \in Workers,
         NEW arrives \in BOOLEAN, Answer(w, arrives)
  PROVE  SettledInv'
<1>1. UNCHANGED account /\ task' = [task EXCEPT ![w] = Idle]
  BY DEF Answer
<1>2. PICK f : /\ Left(f)
               /\ \/ ~arrives /\ UNCHANGED mail /\ \A k \in DOMAIN mail : f[k] = k
                  \/ /\ arrives
                     /\ \E k \in DOMAIN mail :
                          /\ mail[k] = task[w].delivery /\ IsFirst(k)
                          /\ \A m \in DOMAIN mail : m # k <=> \E l \in DOMAIN mail' : f[l] = m
  BY AnswerLeaves DEF SettledInv, DeletedInv
<1>3. LastName'
  <2>1. PICK k \in DOMAIN mail : mail[k] = task[w].delivery /\ IsFirst(k)
    BY DEF SettledInv, DeletedInv, HooksFirst, Answer
  <2>2. CASE ~arrives
    <3>1. UNCHANGED mail
      BY <1>2, <2>2
    <3> QED BY <1>1, <3>1 DEF SettledInv, LastName
  <2>3. CASE arrives
    BY <1>1, <1>2, <2>3, AnswerKeepsLastName
  <2> QED BY <2>2, <2>3
<1>4. \A v \in Workers : task'[v] = Idle
  BY <1>1 DEF SettledInv, DeletedInv, TypeInv, TypeOK
<1>5. Idle.kind = "idle"
  BY DEF Idle
<1>6. \A v \in Workers : TaskSettled(task[v])'
  BY <1>4, <1>5 DEF TaskSettled
<1> QED BY <1>3, <1>6, AnswerSettles DEF SettledInv, Fresh

LEMMA NothingUnsettles ==
  ASSUME SettledInv, DeletedInv', UNCHANGED <<account, mail, editor, task>>
  PROVE  SettledInv'
<1>1. LastName' /\ \A u \in Fresh : Settled(u)'
  BY DEF SettledInv, LastName, Settled, EditorsOf, Exists, IsCleared, Renamed
<1>2. \A w \in Workers : TaskSettled(task[w])'
  BY DEF SettledInv, TaskSettled, EditorsOf, Exists, Renamed
<1> QED BY <1>1, <1>2 DEF SettledInv, Fresh

\* A request begins with what it reads.
LEMMA StartKeepsSettled ==
  ASSUME \A v, w \in Workers : v = w, SettledInv, DeletedInv', NEW w \in Workers, NEW t,
         TaskSettled(t), task' = [task EXCEPT ![w] = t], UNCHANGED <<account, mail, editor>>
  PROVE  SettledInv'
<1>1. \A v \in Workers : task'[v] = t
  BY DEF SettledInv, DeletedInv, TypeInv, TypeOK
<1>2. \A v \in Workers : TaskSettled(task[v])'
  BY <1>1 DEF TaskSettled, EditorsOf, Exists, Renamed
<1>3. LastName' /\ \A u \in Fresh : Settled(u)'
  BY DEF SettledInv, LastName, Settled, EditorsOf, Exists, IsCleared, Renamed
<1> QED BY <1>2, <1>3 DEF SettledInv, Fresh

\* A row that is written without a delivery says of its account what the account is, or
\* is that of an account whose owner registered.
WritesKnown(i, r) ==
  /\ i \in Ids /\ r \in Editor /\ editor' = [editor EXCEPT ![i] = r]
  /\ \/ /\ Exists(i) /\ editor[i].cached # Deleted /\ r.user = editor[i].user
        /\ r.user \in Fresh /\ account[r.user].state = "active" /\ ~Renamed(r.user) =>
             r.cached = account[r.user].name
     \/ ~Exists(i) /\ r.user \notin Fresh

LEMMA KnownKeepsSettled ==
  ASSUME SettledInv, UNCHANGED <<account, mail>>,
         UNCHANGED editor \/ \E i, r : WritesKnown(i, r)
  PROVE  /\ LastName'
         /\ \A u \in Fresh : Settled(u)' /\ EditorsOf(u)' = EditorsOf(u)
<1>0. TypeOK /\ editor \in [Ids -> Editor \cup {Null}]
  BY DEF SettledInv, DeletedInv, TypeInv, TypeOK
<1>1. LastName'
  BY DEF SettledInv, LastName
<1>2. CASE UNCHANGED editor
  BY <1>1, <1>2 DEF SettledInv, Settled, EditorsOf, Exists, IsCleared, Renamed
<1>3. ASSUME NEW i, NEW r, WritesKnown(i, r), NEW u \in Fresh
      PROVE  Settled(u)' /\ EditorsOf(u)' = EditorsOf(u)
  <2>0. i \in Ids /\ r \in Editor /\ editor' = [editor EXCEPT ![i] = r]
    BY <1>3 DEF WritesKnown
  <2>1. \A j \in Ids : editor'[j] = IF j = i THEN r ELSE editor[j]
    BY <1>0, <2>0
  <2>2. EditorsOf(u)' = EditorsOf(u)
    <3>1. CASE r.user = u
      <4>1. EditorsOf(u)' = EditorsOf(u) \cup {i}
        BY <1>0, <2>0, <3>1, WrittenRow
      <4>2. i \in EditorsOf(u)
        BY <1>3, <3>1 DEF WritesKnown, EditorsOf
      <4> QED BY <4>1, <4>2
    <3>2. CASE r.user # u
      <4>1. i \notin EditorsOf(u)
        BY <1>3, <3>2 DEF WritesKnown, EditorsOf
      <4> QED BY <1>0, <2>0, <3>2, <4>1, WrittenRow
    <3> QED BY <3>1, <3>2
  <2>3. Settled(u) /\ account'[u] = account[u] /\ mail' = mail
    BY DEF SettledInv
  <2>4. \A j \in EditorsOf(u) : j \in Ids /\ Exists(j) /\ editor[j].user = u
    BY DEF EditorsOf
  <2>5. i \in EditorsOf(u) => editor[i].cached # Deleted /\ r.user = u
                              /\ (account[u].state = "active" /\ ~Renamed(u) =>
                                    r.cached = account[u].name)
    BY <1>3, <2>4 DEF WritesKnown
  <2>6. Renamed(u)' <=> Renamed(u)
    BY <2>3 DEF Renamed
  <2>7. account[u].state = "active" /\ ~Renamed(u) =>
          \A j \in EditorsOf(u) : editor'[j].cached = account[u].name
    BY <2>1, <2>3, <2>4, <2>5 DEF Settled
  <2>8. account[u].state = "deleted" /\ (\A k \in DOMAIN mail : mail[k].user # u) =>
          \A j \in EditorsOf(u) : IsCleared(j)'
    <3> SUFFICES ASSUME account[u].state = "deleted", \A k \in DOMAIN mail : mail[k].user # u,
                        NEW j \in EditorsOf(u)
                 PROVE  IsCleared(j)'
      OBVIOUS
    <3>1. IsCleared(j)
      BY <2>3 DEF Settled
    <3>2. editor[j] \in Editor
      BY <1>0, <2>4 DEF Exists
    <3>3. editor[j].cached = Deleted
      BY <3>1, <3>2, ClearedFacts DEF IsCleared
    <3>4. j # i
      BY <2>5, <3>3
    <3> QED BY <2>1, <2>4, <3>1, <3>4 DEF IsCleared
  <2>9. Settled(u)'
    BY <2>2, <2>3, <2>6, <2>7, <2>8 DEF Settled
  <2> QED BY <2>2, <2>9
<1> QED BY <1>1, <1>2, <1>3

\* The requests of a signed-in browser.
LEMMA FinishWritesKnown ==
  ASSUME Linking = FALSE, SettledInv, NEW w \in Workers,
         \/ FinishSignIn(w)
         \/ \E n \in DisplayNames : FinishProfile(w, n)
         \/ FinishCount(w)
  PROVE  UNCHANGED editor \/ \E i, r : WritesKnown(i, r)
<1> DEFINE t == task[w]
<1>1. t \in TaskType /\ TaskOK(t) /\ TaskAlive(t) /\ TaskSettled(t)
  BY DEF SettledInv, DeletedInv, TypeInv, TypeOK, TaskType
<1>2. editor \in [Ids -> Editor \cup {Null}]
  BY DEF SettledInv, DeletedInv, TypeInv, TypeOK
<1>3. CASE FinishSignIn(w)
  <2> DEFINE r == [editor[t.id] EXCEPT !.user = t.profile.user,
                                       !.cached = t.profile.name, !.tokens = TRUE]
  <2>1. t.kind = "sign in" /\ t.id \in Ids /\ Exists(t.id) /\ t.profile \in Profile
    BY <1>1, <1>3 DEF FinishSignIn, TaskOK, TaskType
  <2>2. editor[t.id] \in Editor /\ t.profile.name \in Names /\ t.profile.user \in Users
    BY <1>2, <2>1 DEF Exists, Profile
  <2>3. r \in Editor /\ r.cached = t.profile.name /\ r.user = t.profile.user
    BY <2>2 DEF Editor
  <2>4. editor' = [editor EXCEPT ![t.id] = r]
    BY <1>2, <1>3, <2>1, <2>2 DEF FinishSignIn, Editor
  <2> HIDE DEF r
  <2>5. editor[t.id].cached # Deleted /\ editor[t.id].user = t.profile.user
    BY <1>1, <2>1 DEF TaskAlive, TaskSettled
  <2>6. r.user \in Fresh /\ account[r.user].state = "active" /\ ~Renamed(r.user) =>
          r.cached = account[r.user].name
    BY <1>1, <2>1, <2>3 DEF TaskSettled
  <2>7. WritesKnown(t.id, r)
    BY <2>1, <2>3, <2>4, <2>5, <2>6 DEF WritesKnown
  <2> QED BY <2>7
<1>4. ASSUME NEW r \in Editor, t.kind \in {"profile", "count"}, r.user = t.row.user,
             r.cached = t.row.cached, UNCHANGED editor \/ editor' = [editor EXCEPT ![t.id] = r]
      PROVE  UNCHANGED editor \/ \E i, s : WritesKnown(i, s)
  <2>1. t.id \in Ids /\ Exists(t.id) /\ editor[t.id] = t.row /\ t.row.cached # Deleted
    BY <1>1, <1>4 DEF TaskOK, TaskAlive, TaskSettled, TaskType
  <2>2. r.user \in Fresh /\ account[r.user].state = "active" /\ ~Renamed(r.user) =>
          r.cached = account[r.user].name
    <3> HAVE r.user \in Fresh /\ account[r.user].state = "active" /\ ~Renamed(r.user)
    <3>1. t.id \in EditorsOf(r.user) /\ Settled(r.user)
      BY <1>4, <2>1 DEF EditorsOf, SettledInv
    <3> QED BY <1>4, <2>1, <3>1 DEF Settled
  <2>3. UNCHANGED editor \/ WritesKnown(t.id, r)
    BY <1>4, <2>1, <2>2 DEF WritesKnown
  <2> QED BY <2>3
<1>5. ASSUME NEW n \in DisplayNames, FinishProfile(w, n)
      PROVE  UNCHANGED editor \/ \E i, s : WritesKnown(i, s)
  <2> DEFINE r == [t.row EXCEPT !.name = n, !.text = TRUE]
  <2>1. t.kind = "profile" /\ t.row \in Editor
    BY <1>1, <1>5 DEF FinishProfile, TaskOK, TaskType
  <2>2. r \in Editor /\ r.cached = t.row.cached /\ r.user = t.row.user
    BY <2>1 DEF Editor
  <2>3. UNCHANGED editor \/ editor' = [editor EXCEPT ![t.id] = r]
    BY <1>5 DEF FinishProfile
  <2> HIDE DEF r
  <2> QED BY <1>4, <2>1, <2>2, <2>3
<1>6. CASE FinishCount(w)
  <2>1. t.kind = "count" /\ t.row \in Editor
    BY <1>1, <1>6 DEF FinishCount, TaskOK, TaskType
  <2>2. UNCHANGED editor \/ editor' = [editor EXCEPT ![t.id] = t.row]
    BY <1>6 DEF FinishCount
  <2> QED BY <1>4, <2>1, <2>2
<1> QED BY <1>3, <1>5, <1>6

LEMMA DeliverKeepsSettled ==
  ASSUME \A v, w \in Workers : v = w, SettledInv, DeletedInv', NEW w \in Workers,
         NEW u \in Users, Deliver(w, u)
  PROVE  SettledInv'
<1>1. PICK k \in DOMAIN mail, i \in IF EditorsOf(u) = {} THEN {Null} ELSE EditorsOf(u) :
        /\ mail[k].user = u
        /\ task' = [task EXCEPT ![w] =
             [Idle EXCEPT !.kind = "hook", !.delivery = mail[k], !.id = i]]
  BY DEF Deliver
<1> DEFINE t == [Idle EXCEPT !.kind = "hook", !.delivery = mail[k], !.id = i]
<1>2. t.kind = "hook" /\ t.delivery = mail[k] /\ t.id = i
  BY IdleType DEF TaskType
<1>3. i = Null => EditorsOf(u) = {}
  <2>1. Null \notin Ids
    BY SentinelAssumption
  <2> QED BY <1>1, <2>1 DEF EditorsOf
<1> HIDE DEF t
<1>4. TaskSettled(t)
  BY <1>1, <1>2, <1>3 DEF TaskSettled
<1> QED BY <1>1, <1>4, StartKeepsSettled DEF Deliver, t

LEMMA SignInKeepsSettled ==
  ASSUME \A v, w \in Workers : v = w, Linking = FALSE, SettledInv, DeletedInv',
         NEW w \in Workers, NEW b \in Browsers, NEW u \in Users, SignIn(w, b, u)
  PROVE  SettledInv'
<1> DEFINE profile == [user |-> u, name |-> account[u].name]
<1>1. CASE ~SignedIn(b) /\ EditorsOf(u) = {}
  <2>1. UNCHANGED <<account, mail, editor, task>>
    BY <1>1 DEF SignIn
  <2> QED BY <2>1, NothingUnsettles
<1>2. CASE ~(~SignedIn(b) /\ EditorsOf(u) = {})
  <2>1. PICK i \in IF SignedIn(b) THEN {session[b].editor} ELSE EditorsOf(u) :
          task' = [task EXCEPT ![w] =
            [Idle EXCEPT !.kind = "sign in", !.browser = b,
                         !.profile = profile, !.id = i]]
    BY <1>2 DEF SignIn
  <2> DEFINE t == [Idle EXCEPT !.kind = "sign in", !.browser = b,
                               !.profile = profile, !.id = i]
  <2>2. UNCHANGED <<account, mail, editor>>
    BY <1>2 DEF SignIn
  <2>3. editor[i].user = u
    BY <2>1 DEF SignIn, EditorsOf
  <2>4. t.kind = "sign in" /\ t.id = i /\ t.profile.user = u /\ t.profile.name = account[u].name
    BY IdleType DEF TaskType
  <2> HIDE DEF t
  <2>5. TaskSettled(t)
    BY <2>3, <2>4 DEF TaskSettled
  <2> QED BY <2>1, <2>2, <2>4, <2>5, StartKeepsSettled DEF t
<1> QED BY <1>1, <1>2

LEMMA FetchKeepsSettled ==
  ASSUME \A v, w \in Workers : v = w, SettledInv, DeletedInv', NEW w \in Workers,
         NEW b \in Browsers, NEW kind \in {"profile", "count"}, Fetch(w, b, kind)
  PROVE  SettledInv'
<1> DEFINE i == session[b].editor
           t == [Idle EXCEPT !.kind = kind, !.browser = b, !.id = i, !.row = editor[i]]
<1>1. task' = [task EXCEPT ![w] = t] /\ UNCHANGED <<account, mail, editor>>
  BY DEF Fetch
<1>2. t.kind = kind /\ t.id = i /\ t.row = editor[i]
  BY IdleType DEF TaskType
<1> HIDE DEF t
<1>3. TaskSettled(t)
  BY <1>2 DEF TaskSettled
<1> QED BY <1>1, <1>3, StartKeepsSettled

LEMMA RegisterKeepsSettled ==
  ASSUME SettledInv, DeletedInv', NEW b \in Browsers, NEW n \in DisplayNames, Register(b, n)
  PROVE  SettledInv'
<1>1. UNCHANGED <<account, mail, task>>
  BY DEF Register
<1>2. PICK r \in Editor : /\ r.user \in Registrants /\ ~Exists(NextId) /\ NextId \in Ids
                          /\ editor' = [editor EXCEPT ![NextId] = r]
  BY RegisterWrites DEF SettledInv
<1>3. WritesKnown(NextId, r)
  BY <1>2 DEF WritesKnown, Fresh
<1>4. LastName' /\ \A u \in Fresh : Settled(u)' /\ EditorsOf(u)' = EditorsOf(u)
  BY <1>1, <1>3, KnownKeepsSettled
<1>5. ASSUME NEW w \in Workers
      PROVE  TaskSettled(task[w])'
  <2>1. task[w].id \in Ids \cup {Null} /\ TaskOK(task[w]) /\ TaskSettled(task[w])
    BY DEF SettledInv, DeletedInv, TypeInv, TypeOK
  <2>2. \A i \in Ids : Exists(i) => editor'[i] = editor[i]
    BY <1>2 DEF SettledInv, DeletedInv, TypeInv, TypeOK
  <2>3. task[w].id # Null => editor'[task[w].id] = editor[task[w].id]
    BY <2>1, <2>2 DEF TaskOK
  <2> QED BY <1>1, <1>4, <2>1, <2>3 DEF TaskSettled, TaskOK, Renamed
<1> QED BY <1>4, <1>5 DEF SettledInv, Fresh

LEMMA NextKeepsSettled ==
  ASSUME \A v, w \in Workers : v = w, Linking = FALSE, SettledInv, [Next]_vars
  PROVE  SettledInv'
<1>0. DeletedInv /\ DeletedInv' /\ TypeInv /\ TypeInv'
  BY NextKeepsDeleted, NextKeepsTypeInv DEF SettledInv, DeletedInv, TypeInv
<1>1. CASE UNCHANGED <<account, mail, editor, task>>
  BY <1>0, <1>1, NothingUnsettles
<1>2. CASE UNCHANGED vars \/ \E b \in Browsers : SignOut(b)
  BY <1>1, <1>2 DEF vars, SignOut
<1>3. CASE MetaBrainz
  BY <1>0, <1>3, MetaBrainzKeepsSettled
<1>4. ASSUME NEW w \in Workers,
             \/ Refuse(w)
             \/ FinishSignIn(w)
             \/ \E n \in DisplayNames : FinishProfile(w, n)
             \/ FinishCount(w)
      PROVE  SettledInv'
  <2>1. task' = [task EXCEPT ![w] = Idle] /\ UNCHANGED <<account, mail>>
    BY <1>4 DEF Refuse, FinishSignIn, FinishProfile, FinishCount
  <2>2. UNCHANGED editor \/ \E i, r : WritesKnown(i, r)
    <3>1. CASE Refuse(w)
      BY <3>1 DEF Refuse
    <3> QED BY <1>4, <3>1, FinishWritesKnown
  <2>3. LastName' /\ \A u \in Fresh : Settled(u)'
    BY <2>1, <2>2, KnownKeepsSettled
  <2>4. \A v \in Workers : task'[v] = Idle
    BY <1>0, <2>1 DEF TypeInv, TypeOK
  <2>5. Idle.kind = "idle"
    BY DEF Idle
  <2>6. \A v \in Workers : TaskSettled(task[v])'
    BY <2>4, <2>5 DEF TaskSettled
  <2> QED BY <1>0, <2>3, <2>6 DEF SettledInv, Fresh
<1>5. ASSUME NEW w \in Workers, Hook(w)
      PROVE  SettledInv'
  BY <1>0, <1>4, <1>5, DeliverKeepsSettled, AnswerKeepsSettled DEF Hook
<1>6. ASSUME NEW w \in Workers, Site(w)
      PROVE  SettledInv'
  BY <1>0, <1>4, <1>6, SignInKeepsSettled, FetchKeepsSettled DEF Site
<1>7. ASSUME NEW b \in Browsers, NEW n \in DisplayNames, Register(b, n)
      PROVE  SettledInv'
  BY <1>0, <1>7, RegisterKeepsSettled
<1> QED BY <1>2, <1>3, <1>5, <1>6, <1>7 DEF Next

LEMMA InitSettled == Init => SettledInv
<1> SUFFICES ASSUME Init PROVE SettledInv
  OBVIOUS
<1>1. /\ DOMAIN mail = {} /\ \A u : EditorsOf(u) = {}
      /\ \A w \in Workers : task[w].kind = "idle"
      /\ \A u \in Fresh : account[u].state = "none"
  BY DEF Init, EditorsOf, Exists, Idle, Fresh
<1>2. \A u \in Fresh : Settled(u)
  BY <1>1 DEF Settled
<1> QED BY <1>1, <1>2, InitDeleted DEF SettledInv, LastName, TaskSettled

\* If requests do not overlap and nobody signs in to the editor of another account, an
\* account that is neither older than the deliveries nor registered by its owner has,
\* once they are all answered, the editor that they describe (webhooks.ts and
\* helpers/oauthWebhooks.ts, however often a delivery is sent and a name refused).
THEOREM EditorsCatchUp ==
  ASSUME \A v, w \in Workers : v = w, Linking = FALSE
  PROVE  Spec => []CaughtUp
<1>1. SettledInv => CaughtUp
  <2> SUFFICES ASSUME SettledInv, NEW u \in Fresh, \A k \in DOMAIN mail : mail[k].user # u
               PROVE  CASE account[u].state = "none" -> EditorsOf(u) = {}
                        [] account[u].state = "active" ->
                             /\ EditorsOf(u) # {}
                             /\ \A i \in EditorsOf(u) : editor[i].cached = account[u].name
                        [] account[u].state = "deleted" ->
                             \A i \in EditorsOf(u) : IsCleared(i)
    BY DEF CaughtUp, Fresh
  <2>1. Settled(u) /\ ~Renamed(u)
    BY DEF SettledInv, Renamed
  <2>2. account[u].state \in {"none", "active", "deleted"}
    BY DEF SettledInv, DeletedInv, TypeInv, TypeOK, Account, Fresh
  <2> QED BY <2>1, <2>2 DEF Settled
<1>2. Init => SettledInv
  BY InitSettled
<1>3. SettledInv /\ [Next]_vars => SettledInv'
  BY NextKeepsSettled
<1> QED BY <1>1, <1>2, <1>3, PTL DEF Spec
=============================================================================

--------------------------- MODULE EditorAccounts ---------------------------
(***************************************************************************)
(* Editors and the MetaBrainz accounts they belong to: the webhooks that   *)
(* MetaBrainz sends (src/server/routes/webhooks.ts, helpers/               *)
(* oauthWebhooks.ts, helpers/editor.ts), signing in (routes/auth.js,       *)
(* helpers/auth.ts), registration (routes/register.js) and the requests    *)
(* of a signed-in editor that write the editor's row.                      *)
(*                                                                         *)
(* MetaBrainz sends a delivery until it is answered with success, and the  *)
(* deliveries about one account in order. A request of a browser or a      *)
(* delivery is handled in two steps: what it reads, and what it writes.    *)
(***************************************************************************)
EXTENDS Naturals, Sequences, SequencesExt

CONSTANTS
  Users,          \* MetaBrainz accounts
  Browsers,       \* a session each
  Workers,        \* requests that the server handles at the same time
  Names,          \* names of accounts
  DisplayNames,   \* names that editors give themselves
  Null,           \* SQL NULL, undefined
  Deleted,        \* '<deleted>', 'Deleted Editor #id'
  MaxEditors,     \* bound: rows of editor
  MaxDeliveries,  \* bound: deliveries sent
  Older,          \* accounts from before there were deliveries
  Registrants,    \* accounts whose owners register an editor
  Linking         \* whether a signed-in browser signs in with another account

ASSUME BoundAssumption ==
  /\ MaxEditors \in Nat
  /\ MaxDeliveries \in Nat
  /\ Older \subseteq Users
  /\ Registrants \subseteq Users
  /\ Linking \in BOOLEAN

VARIABLES
  account,  \* MetaBrainz's accounts
  mail,     \* deliveries that have not been answered with success, in order
  sent,     \* number of deliveries sent
  editor,   \* bookbrainz.editor
  session,  \* of each browser: the editor signed in, or the profile to register
  task      \* of each worker: what it has read

vars == <<account, mail, sent, editor, session, task>>

Ids == 1..MaxEditors

Account == [state : {"none", "active", "deleted"}, name : Names \cup {Null}]

Delivery ==
  [event : {"user.created", "user.updated", "user.deleted"},
   user : Users, name : Names \cup {Null}]

\* A row of editor. text stands for what people say of themselves: bio, gender,
\* area, languages.
Editor ==
  [user : Users, name : Names \cup DisplayNames \cup {Deleted},
   cached : Names \cup {Deleted}, tokens : BOOLEAN, text : BOOLEAN]

Profile == [user : Users, name : Names]

ASSUME SentinelAssumption ==
  /\ Null \notin Users \cup Browsers \cup Names \cup DisplayNames \cup {Deleted} \cup Ids
  /\ Null \notin Editor \cup Delivery \cup Profile
  /\ Deleted \notin Names \cup DisplayNames

Idle == [kind |-> "idle", browser |-> Null, delivery |-> Null,
         profile |-> Null, id |-> Null, row |-> Null]

Init ==
  /\ account \in [Users -> Account]
  /\ \A u \in Users :
       IF u \in Older
       THEN /\ account[u].state = "active" /\ account[u].name # Null
            /\ \A v \in Older \ {u} : account[v].name # account[u].name
       ELSE account[u] = [state |-> "none", name |-> Null]
  /\ mail = <<>>
  /\ sent = 0
  /\ editor = [i \in Ids |-> Null]
  /\ session = [b \in Browsers |-> [editor |-> Null, profile |-> Null]]
  /\ task = [w \in Workers |-> Idle]

----------------------------------------------------------------------------
(* MetaBrainz.                                                             *)

Send(event, u, n) ==
  /\ sent < MaxDeliveries
  /\ sent' = sent + 1
  /\ mail' = Append(mail, [event |-> event, user |-> u, name |-> n])
  /\ UNCHANGED <<editor, session, task>>

NameFree(n) ==
  \A u \in Users : account[u].state = "active" => account[u].name # n

SignUp(u, n) ==
  /\ account[u].state = "none" /\ NameFree(n)
  /\ account' = [account EXCEPT ![u] = [state |-> "active", name |-> n]]
  /\ Send("user.created", u, n)

Rename(u, n) ==
  /\ account[u].state = "active" /\ NameFree(n)
  /\ account' = [account EXCEPT ![u].name = n]
  /\ Send("user.updated", u, n)

\* An update without a new name.
ChangeEmail(u) ==
  /\ account[u].state = "active"
  /\ UNCHANGED account
  /\ Send("user.updated", u, Null)

Leave(u) ==
  /\ account[u].state = "active"
  /\ account' = [account EXCEPT ![u].state = "deleted"]
  /\ Send("user.deleted", u, Null)

----------------------------------------------------------------------------
(* The editor table.                                                       *)

Exists(i) == editor[i] # Null

\* fetchEditorByMetaBrainzUserId: any of the rows, there is no constraint.
EditorsOf(u) == {i \in Ids : Exists(i) /\ editor[i].user = u}

\* editor_name_key
Taken(n, i) == \E j \in Ids \ {i} : Exists(j) /\ editor[j].name = n

NextId == CHOOSE i \in Ids : ~Exists(i)

Insert(row) ==
  /\ \E i \in Ids : ~Exists(i)
  /\ editor' = [editor EXCEPT ![NextId] = row]

\* clearEditorByID and clearEditorLanguagesByEditorID
Cleared(row) ==
  [row EXCEPT !.name = Deleted, !.cached = Deleted,
              !.tokens = FALSE, !.text = FALSE]

IsCleared(i) == editor[i] = Cleared(editor[i])

----------------------------------------------------------------------------
(* Webhook deliveries.                                                     *)

\* POST /webhooks/metabrainz/: the handler fetches the editor of the account.
Deliver(w, u) ==
  /\ task[w] = Idle
  /\ \A v \in Workers :
       task[v].kind = "hook" => task[v].delivery.user # u
  /\ \E k \in DOMAIN mail :
       /\ mail[k].user = u
       /\ \A j \in 1..(k - 1) : mail[j].user # u
       /\ \E i \in IF EditorsOf(u) = {} THEN {Null} ELSE EditorsOf(u) :
            task' = [task EXCEPT ![w] =
              [Idle EXCEPT !.kind = "hook", !.delivery = mail[k], !.id = i]]
  /\ UNCHANGED <<account, mail, sent, editor, session>>

\* Wrong variant: an editor that is there already does not matter.
UserCreated_Always(d, i) ==
  /\ ~Taken(d.name, 0)
  /\ Insert([user |-> d.user, name |-> d.name, cached |-> d.name,
             tokens |-> FALSE, text |-> FALSE])

\* handleUserCreated. False if the name is taken: the insert throws.
UserCreated(d, i) ==
  IF i # Null THEN UNCHANGED editor
  ELSE /\ ~Taken(d.name, 0)
       /\ Insert([user |-> d.user, name |-> d.name, cached |-> d.name,
                  tokens |-> FALSE, text |-> FALSE])

\* Wrong variant: the cached name is not updated.
UserUpdated_Cached(d, i) ==
  IF d.name = Null \/ i = Null THEN UNCHANGED editor
  ELSE /\ ~Taken(d.name, i)
       /\ editor' = [editor EXCEPT ![i].name = d.name]

\* handleUserUpdated: nothing without a new name, else the two names alone.
UserUpdated(d, i) ==
  IF d.name = Null \/ i = Null THEN UNCHANGED editor
  ELSE /\ ~Taken(d.name, i)
       /\ editor' = [editor EXCEPT ![i].name = d.name, ![i].cached = d.name]

\* handleUserDeleted
UserDeleted(d, i) ==
  IF i = Null THEN UNCHANGED editor
  ELSE editor' = [editor EXCEPT ![i] = Cleared(@)]

Handle(d, i) ==
  CASE d.event = "user.created" -> UserCreated(d, i)
    [] d.event = "user.updated" -> UserUpdated(d, i)
    [] d.event = "user.deleted" -> UserDeleted(d, i)

\* The handler writes and the delivery is answered; the answer may get lost, and
\* MetaBrainz sends the delivery again.
Answer(w, arrives) ==
  /\ task[w].kind = "hook"
  /\ Handle(task[w].delivery, task[w].id)
  /\ IF arrives
     THEN \E k \in DOMAIN mail :
            /\ mail[k] = task[w].delivery
            /\ \A j \in 1..(k - 1) : mail[j] # mail[k]
            /\ mail' = RemoveAt(mail, k)
     ELSE UNCHANGED mail
  /\ task' = [task EXCEPT ![w] = Idle]
  /\ UNCHANGED <<account, sent, session>>

\* A name that is taken: 500, and MetaBrainz sends the delivery again.
Refuse(w) ==
  /\ task[w].kind = "hook"
  /\ LET d == task[w].delivery
         i == task[w].id
     IN \/ d.event = "user.created" /\ i = Null /\ Taken(d.name, 0)
        \/ d.event = "user.updated" /\ i # Null /\ Taken(d.name, i)
  /\ task' = [task EXCEPT ![w] = Idle]
  /\ UNCHANGED <<account, mail, sent, editor, session>>

----------------------------------------------------------------------------
(* Sessions.                                                               *)

\* Wrong variant: deserializeEditor does not look for deleted editors.
SignedIn_Any(b) == session[b].editor # Null

\* deserializeEditor: a deleted editor is nobody.
SignedIn(b) ==
  session[b].editor # Null /\ editor[session[b].editor].cached # Deleted

\* A browser waits for the answer to its request.
Waiting(b) == \E w \in Workers : task[w].browser = b

\* GET /cb with the profile of an active account. Nobody with an editor goes on
\* to registration.
SignIn(w, b, u) ==
  LET profile == [user |-> u, name |-> account[u].name]
  IN /\ task[w] = Idle /\ ~Waiting(b)
     /\ account[u].state = "active"
     /\ SignedIn(b) /\ ~Linking => editor[session[b].editor].user = u
     /\ IF ~SignedIn(b) /\ EditorsOf(u) = {}
        THEN /\ session' = [session EXCEPT ![b] =
                  [editor |-> Null, profile |-> profile]]
             /\ UNCHANGED task
        ELSE /\ \E i \in IF SignedIn(b) THEN {session[b].editor}
                         ELSE EditorsOf(u) :
                  task' = [task EXCEPT ![w] =
                    [Idle EXCEPT !.kind = "sign in", !.browser = b,
                                 !.profile = profile, !.id = i]]
             /\ UNCHANGED session
     /\ UNCHANGED <<account, mail, sent, editor>>

\* _updateMetaBrainzUser saves what came with the sign-in only, and logIn starts
\* a session of its own.
FinishSignIn(w) ==
  LET t == task[w]
  IN /\ t.kind = "sign in"
     /\ editor' = [editor EXCEPT ![t.id].user = t.profile.user,
                                 ![t.id].cached = t.profile.name,
                                 ![t.id].tokens = TRUE]
     /\ session' = [session EXCEPT ![t.browser] =
          [editor |-> t.id, profile |-> Null]]
     /\ task' = [task EXCEPT ![w] = Idle]
     /\ UNCHANGED <<account, mail, sent>>

SignOut(b) ==
  /\ ~Waiting(b)
  /\ session[b].editor # Null
  /\ session' = [session EXCEPT ![b] = [editor |-> Null, profile |-> Null]]
  /\ UNCHANGED <<account, mail, sent, editor, task>>

\* POST /register/handler: a profile in the session becomes an editor under a
\* name that is not taken.
Register(b, n) ==
  LET profile == session[b].profile
  IN /\ ~Waiting(b) /\ ~SignedIn(b) /\ profile # Null
     /\ profile.user \in Registrants
     /\ ~Taken(n, 0)
     /\ Insert([user |-> profile.user, name |-> n, cached |-> profile.name,
                tokens |-> TRUE, text |-> TRUE])
     /\ session' = [session EXCEPT ![b].profile = Null]
     /\ UNCHANGED <<account, mail, sent, task>>

\* POST /editor/edit/handler, and an edit of an entity, which counts in the row:
\* both fetch the row of the editor.
Fetch(w, b, kind) ==
  /\ task[w] = Idle /\ ~Waiting(b)
  /\ SignedIn(b)
  /\ task' = [task EXCEPT ![w] =
       [Idle EXCEPT !.kind = kind, !.browser = b, !.id = session[b].editor,
                    !.row = editor[session[b].editor]]]
  /\ UNCHANGED <<account, mail, sent, editor, session>>

\* They save all of it as it was read, with what they change. A profile whose
\* name is taken is refused.
FinishProfile(w, n) ==
  LET t == task[w]
  IN /\ t.kind = "profile"
     /\ editor' = IF Taken(n, t.id) THEN editor
                  ELSE [editor EXCEPT ![t.id] =
                          [t.row EXCEPT !.name = n, !.text = TRUE]]
     /\ task' = [task EXCEPT ![w] = Idle]
     /\ UNCHANGED <<account, mail, sent, session>>

FinishCount(w) ==
  LET t == task[w]
  IN /\ t.kind = "count"
     /\ editor' = IF Taken(t.row.name, t.id) /\ t.row.name # Deleted
                  THEN editor ELSE [editor EXCEPT ![t.id] = t.row]
     /\ task' = [task EXCEPT ![w] = Idle]
     /\ UNCHANGED <<account, mail, sent, session>>

----------------------------------------------------------------------------

MetaBrainz ==
  \E u \in Users :
    \/ \E n \in Names : SignUp(u, n) \/ Rename(u, n)
    \/ ChangeEmail(u) \/ Leave(u)

Hook(w) ==
  \/ \E u \in Users : Deliver(w, u)
  \/ \E arrives \in BOOLEAN : Answer(w, arrives)
  \/ Refuse(w)

Site(w) ==
  \/ \E b \in Browsers :
       \/ \E u \in Users : SignIn(w, b, u)
       \/ \E kind \in {"profile", "count"} : Fetch(w, b, kind)
  \/ FinishSignIn(w)
  \/ \E n \in DisplayNames : FinishProfile(w, n)
  \/ FinishCount(w)

Next ==
  \/ MetaBrainz
  \/ \E w \in Workers : Hook(w) \/ Site(w)
  \/ \E b \in Browsers : SignOut(b) \/ \E n \in DisplayNames : Register(b, n)

Spec == Init /\ [][Next]_vars

\* Requests are handled, MetaBrainz goes on sending what it has no answer to, and
\* not every answer gets lost.
Fairness ==
  /\ \A w \in Workers :
       WF_vars(FinishSignIn(w) \/ FinishCount(w) \/ Refuse(w)
                 \/ \E n \in DisplayNames : FinishProfile(w, n))
  /\ \A u \in Users : SF_vars(\E w \in Workers : Deliver(w, u))
  /\ \A w \in Workers, u \in Users :
       SF_vars(task[w].kind = "hook" /\ task[w].delivery.user = u /\ Answer(w, TRUE))

FairSpec == Spec /\ Fairness
----------------------------------------------------------------------------
(* Properties. Except TypeOK they are about requests that do not overlap.  *)

TypeOK ==
  /\ account \in [Users -> Account]
  /\ mail \in Seq(Delivery)
  /\ sent \in 0..MaxDeliveries
  /\ editor \in [Ids -> Editor \cup {Null}]
  /\ session \in [Browsers -> [editor : Ids \cup {Null},
                               profile : Profile \cup {Null}]]
  /\ task \in [Workers ->
       [kind : {"idle", "hook", "sign in", "profile", "count"},
        browser : Browsers \cup {Null}, delivery : Delivery \cup {Null},
        profile : Profile \cup {Null}, id : Ids \cup {Null},
        row : Editor \cup {Null}]]

\* An account has one editor, however often user.created is delivered ("Ignoring
\* duplicate user.created OAuth webhook delivery").
OneEditorPerUser ==
  \A i, j \in Ids :
    Exists(i) /\ Exists(j) /\ editor[i].user = editor[j].user => i = j

\* A deleted editor stays deleted: "Set the editor name to "Deleted Editor #ID",
\* Set cached MetaBrainz name to "<deleted>", Also clear bio, gender, area and
\* languages" (deleteEditorByMetaBrainzID).
DeletedStaysDeleted ==
  [][\A i \in Ids : Exists(i) /\ IsCleared(i) => IsCleared(i)']_vars

\* Once all deliveries about an account are answered and nothing is going on, its
\* editor agrees with it: the cached name is its name, or nothing is left if it
\* was deleted. An account whose owner registers is not promised that: what the
\* session keeps of it may be older than the deliveries that found no editor.
CaughtUp ==
  \A u \in Users \ (Older \cup Registrants) :
    (\A k \in DOMAIN mail : mail[k].user # u) /\ (\A w \in Workers : task[w] = Idle)
    => CASE account[u].state = "none" -> EditorsOf(u) = {}
         [] account[u].state = "active" ->
              /\ EditorsOf(u) # {}
              /\ \A i \in EditorsOf(u) : editor[i].cached = account[u].name
         [] account[u].state = "deleted" ->
              \A i \in EditorsOf(u) : IsCleared(i)

\* A delivery is answered with success in the end, however often it is sent,
\* unless its name is by then the name of another account's editor (the insert and
\* the update throw, and webhooks.ts answers 500).
DeliveriesEnd ==
  \A u \in Users :
    (\E k \in DOMAIN mail : mail[k].user = u)
      ~> (\A k \in DOMAIN mail : mail[k].user = u =>
            \E j \in Ids : /\ Exists(j) /\ editor[j].user # u
                           /\ \E l \in 1..k : /\ mail[l].user = u
                                              /\ mail[l].name = editor[j].name)
=============================================================================

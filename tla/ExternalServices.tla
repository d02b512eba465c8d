-------------------------- MODULE ExternalServices --------------------------
(***************************************************************************)
(* An editor's account linked to CritiqueBrainz and the reviews sent there *)
(* (src/server/routes/externalService.js, routes/reviews.ts,               *)
(* helpers/critiquebrainz.ts and the modal of an entity's page).           *)
(*                                                                         *)
(* CritiqueBrainz grants tokens one after the other, numbered here: a      *)
(* grant is an access token that expires and a token to refresh it with,   *)
(* and ends the grant before. The site keeps one grant per editor in a     *)
(* row, and a page keeps the access token it was given when it was opened. *)
(* An error of the server that nobody catches ends its process and, with   *)
(* it, every request it is at work on.                                     *)
(***************************************************************************)
EXTENDS Integers, FiniteSets

CONSTANTS
  Pages,     \* pages of entities the editor may have open
  Jobs,      \* requests the site answers at the same time
  NoPage,    \* whose answer nobody waits for
  MaxRequests, MaxFaults  \* bounds

ASSUME BoundAssumption == {MaxRequests, MaxFaults} \subseteq Nat
ASSUME NoPageAssumption == NoPage \notin Pages
ASSUME JobsAssumption == IsFiniteSet(Jobs)

VARIABLES
  row,      \* the grant in external_service_oauth, 0 without a row
  granted,  \* the latest grant of CritiqueBrainz, the only one it accepts
  age,      \* how old each access token is
  page,     \* the page's token (NotYet, NoToken or a grant), and whether it thanked
  reviews,  \* reviews made at CritiqueBrainz for each page
  job,      \* the requests
  sent,     \* history: reviews sent from each page
  torn,     \* history: a grant was not kept, or two were obtained across one another
  requests, faults  \* what the bounds count

vars == <<row, granted, age, page, reviews, job, sent, torn, requests, faults>>

NotYet == -1
NoToken == 0
Grants == 0..MaxRequests   \* a request obtains at most one

\* The site takes a token for expired five minutes before it is: marginTime.
Ages == {"fresh", "nearly", "expired"}

Working == {"read", "refresh", "update", "send", "save", "answer"}

\* Requests whose connection the process took with it. CritiqueBrainz may still get
\* what was on its way there: a refresh, a review or the code of an editor come back.
OnTheWay == {"late refresh", "late send", "late link"}
Gone == {"cut"} \cup OnTheWay

Job == [kind : {"token", "review", "link"},
        at : Working \cup Gone \cup {"idle", "away", "thrown"},
        page : Pages \cup {NoPage},
        token : Grants,
        again : BOOLEAN,   \* the review was sent before
        ok : BOOLEAN,
        excused : BOOLEAN] \* history: something that entitles it to fail has happened

Idle == [kind |-> "token", at |-> "idle", page |-> NoPage, token |-> NoToken,
         again |-> FALSE, ok |-> FALSE, excused |-> FALSE]

Init ==
  /\ row = 0 /\ granted = 0
  /\ age = [g \in Grants |-> "fresh"]
  /\ page = [p \in Pages |-> [token |-> NotYet, done |-> FALSE]]
  /\ reviews = [p \in Pages |-> 0]
  /\ sent = [p \in Pages |-> 0]
  /\ job = [j \in Jobs |-> Idle]
  /\ torn = FALSE
  /\ requests = 0 /\ faults = 0

\* Requests that hold a grant and are about to write it.
Writing == {j \in Jobs : job[j].at \in {"update", "save"}}

\* No request has run into an error that nobody catches.
Alive == \A j \in Jobs : job[j].at # "thrown"

----------------------------------------------------------------------------
(* The browser.                                                            *)

Start(j, kind, at, p, token) ==
  /\ job[j].at \in {"idle"} \cup Gone /\ requests < MaxRequests
  /\ requests' = requests + 1
  /\ job' = [k \in Jobs |->
       IF k = j THEN [Idle EXCEPT !.kind = kind, !.at = at, !.page = p, !.token = token]
       ELSE IF kind = "token" /\ job[k].page = p THEN [job[k] EXCEPT !.page = NoPage]
       ELSE job[k]]
  /\ UNCHANGED <<row, granted, age, torn, faults>>

\* Opens or reloads a page: the answers to the one before go to nobody.
OpenPage(j, p) ==
  /\ Start(j, "token", "read", p, NoToken)
  /\ page' = [page EXCEPT ![p] = [token |-> NotYet, done |-> FALSE]]
  /\ reviews' = [reviews EXCEPT ![p] = 0]
  /\ sent' = [sent EXCEPT ![p] = 0]

\* The button stays enabled while a review is on its way.
Submit(j, p) ==
  /\ page[p].token \notin {NotYet, NoToken} /\ ~page[p].done
  /\ Start(j, "review", "send", p, page[p].token)
  /\ sent' = [sent EXCEPT ![p] = @ + 1]
  /\ UNCHANGED <<page, reviews>>

\* The page of services may be older than the row: it offers to connect at any time.
Connect(j) == Start(j, "link", "read", NoPage, NoToken) /\ UNCHANGED <<page, reviews, sent>>

\* Ends with a request; what it is to the page is in its answer.
Answered(j) == [job EXCEPT ![j] = Idle]

Answer(j) ==
  /\ job[j].at = "answer"
  /\ job' = Answered(j)
  /\ page' = [p \in Pages |->
       IF p # job[j].page THEN page[p]
       ELSE CASE job[j].kind = "token" -> [page[p] EXCEPT !.token = job[j].token]
              [] OTHER -> [page[p] EXCEPT !.done = @ \/ job[j].ok]]
  /\ UNCHANGED <<row, granted, age, reviews, sent, torn, requests, faults>>

----------------------------------------------------------------------------
(* The server's steps, each of which ends in a statement or in a request   *)
(* to CritiqueBrainz.                                                      *)

Step(j, changed) == job' = [job EXCEPT ![j] = changed]
Fail(j) == [job[j] EXCEPT !.at = "answer", !.token = NoToken]
Excuse(j) == [job[j] EXCEPT !.excused = TRUE]

\* A page gets a token that will last; a review that was turned down needs another one.
Outdated(j) == job[j].kind = "review" \/ age[row] # "fresh"

\* Reads the row. To connect is to be sent to CritiqueBrainz, whatever the row is: it
\* is an object and has no length, so that it is not deleted.
Read(j) ==
  /\ job[j].at = "read"
  /\ LET doubtful == [job[j] EXCEPT !.excused = @ \/ row # granted \/ row = 0]
     IN Step(j, CASE job[j].kind = "link" -> [job[j] EXCEPT !.at = "away"]
                  [] job[j].kind # "link" /\ row = 0 ->
                       [doubtful EXCEPT !.at = "answer", !.token = NoToken]
                  [] OTHER ->
                       [doubtful EXCEPT !.token = row, !.ok = ~Outdated(j),
                          !.at = IF Outdated(j) THEN "refresh" ELSE "answer"])
  /\ UNCHANGED <<row, granted, age, page, reviews, sent, torn, requests, faults>>

\* What refreshAccessToken returned: a page is told of it. A review goes on with it,
\* and reading the token of nothing is an error that nobody catches.
Refreshed(j, token, changed) ==
  IF changed.kind = "token" THEN [changed EXCEPT !.token = token, !.ok = token # NoToken, !.at = "answer"]
  ELSE IF token = NoToken THEN [changed EXCEPT !.token = NoToken, !.at = "thrown"]
  ELSE [changed EXCEPT !.token = token, !.again = TRUE, !.at = "send"]

\* CritiqueBrainz grants anew: whoever was at work with the grant before may fail. Ages
\* are looked at of the latest grant and of those that are or will be in the row.
Grant(j, changed) ==
  /\ granted' = granted + 1
  /\ age' = [g \in Grants |-> IF g = row \/ \E k \in Writing : job[k].token = g
                             THEN age[g] ELSE "fresh"]
  /\ job' = [k \in Jobs |-> IF k = j THEN changed
                           ELSE IF job[k].at \in {"refresh", "update", "send"} THEN Excuse(k)
                           ELSE job[k]]

\* The grant's own token is exchanged for another grant, once.
Refresh(j) ==
  /\ job[j].at = "refresh"
  /\ IF job[j].token = granted
     THEN Grant(j, [job[j] EXCEPT !.token = granted + 1, !.at = "update"])
     ELSE Step(j, Refreshed(j, NoToken, job[j])) /\ UNCHANGED <<granted, age>>
  /\ UNCHANGED <<row, page, reviews, sent, torn, requests, faults>>

\* Wrong: the row is made when there is none.
UpdatedRow_Made(j) == job[j].token

\* Wrong: the new tokens are used and not kept.
UpdatedRow_Not(j) == row

\* Nothing is updated where nothing is.
UpdatedRow(j) == IF row = 0 THEN 0 ELSE job[j].token

Update(j) ==
  /\ job[j].at = "update"
  /\ row' = UpdatedRow(j)
  /\ Step(j, IF row = 0 THEN Refreshed(j, NoToken, Excuse(j))
             ELSE Refreshed(j, job[j].token, job[j]))
  /\ UNCHANGED <<granted, age, page, reviews, sent, torn, requests, faults>>

Valid(token) == token = granted /\ age[token] # "expired"

\* Wrong: whatever went wrong with the first attempt, there is another.
TryAgain_Always(j) == ~job[j].again

\* Wrong: there is no other attempt.
TryAgain_Never(j) == FALSE

\* CritiqueBrainz has answered that it does not accept the token.
TryAgain(j) == ~job[j].again /\ ~Valid(job[j].token)

\* Wrong: it is sent again with the token that was not accepted.
Refused_Resent(j) == job[j]

\* A review that was not made: another attempt, or the error that came back.
Refused(j) ==
  IF TryAgain(j) THEN [job[j] EXCEPT !.at = "read"]
  ELSE [job[j] EXCEPT !.at = "answer", !.excused = @ \/ age[job[j].token] = "expired"]

Made(j) ==
  reviews' = IF job[j].page = NoPage THEN reviews ELSE [reviews EXCEPT ![job[j].page] = @ + 1]

\* CritiqueBrainz may have reasons of its own to refuse: the entity was reviewed before.
Send(j) ==
  /\ job[j].at = "send"
  /\ \/ Valid(job[j].token) /\ Made(j) /\ Step(j, [job[j] EXCEPT !.at = "answer", !.ok = TRUE])
     \/ Valid(job[j].token) /\ Step(j, [Fail(j) EXCEPT !.excused = TRUE]) /\ UNCHANGED reviews
     \/ ~Valid(job[j].token) /\ Step(j, Refused(j)) /\ UNCHANGED reviews
  /\ UNCHANGED <<row, granted, age, page, sent, torn, requests, faults>>

\* History: a grant made while the row, or a request about to write it, has another one.
Across(j) == torn \/ row # 0 \/ Writing \ {j} # {}

\* The editor agrees and comes back with a code, which is exchanged for a grant.
Authorise(j) ==
  /\ job[j].at = "away"
  /\ torn' = Across(j)
  /\ Grant(j, [job[j] EXCEPT !.token = granted + 1, !.at = "save"])
  /\ UNCHANGED <<row, page, reviews, sent, requests, faults>>

\* Or never does, or without a code.
Abandon(j) ==
  /\ job[j].at = "away"
  /\ job' = Answered(j)
  /\ UNCHANGED <<row, granted, age, page, reviews, sent, torn, requests, faults>>

\* An editor has one row for the service.
Save(j) ==
  /\ job[j].at = "save"
  /\ IF row = 0 THEN row' = job[j].token /\ Step(j, [job[j] EXCEPT !.at = "answer", !.ok = TRUE])
     ELSE UNCHANGED row /\ Step(j, [Fail(j) EXCEPT !.excused = TRUE])
  /\ UNCHANGED <<granted, age, page, reviews, sent, torn, requests, faults>>

\* Deletes the row, and whatever was torn with it unless a request is about to write.
Disconnect ==
  /\ row # 0
  /\ row' = 0
  /\ torn' = (torn /\ Writing # {})
  /\ UNCHANGED <<granted, age, page, reviews, sent, job, requests, faults>>

----------------------------------------------------------------------------
(* Time and faults.                                                        *)

\* Only the ages of these two are looked at; the row's is not the younger of them.
GrowOld(g) ==
  /\ g \in {row, granted} \ {0} /\ age[g] # "expired"
  /\ g = granted /\ row \notin {0, granted} => age[row] \notin {age[g], "fresh"}
  /\ age' = [age EXCEPT ![g] = IF @ = "fresh" THEN "nearly" ELSE "expired"]
  /\ UNCHANGED <<row, granted, page, reviews, sent, job, torn, requests, faults>>

Fault(j) ==
  /\ faults < MaxFaults
  /\ faults' = faults + 1
  /\ UNCHANGED <<page, sent, requests>>

\* A statement fails, or CritiqueBrainz does not answer. Reading the row for a page or
\* to connect is not inside a try: nobody catches that error.
StatementFails(j) ==
  /\ job[j].at \in {"read", "update", "save"} /\ Fault(j)
  /\ torn' = (torn \/ (job[j].at = "update" /\ row # 0))
  /\ Step(j, IF job[j].at = "update" THEN Refreshed(j, NoToken, Excuse(j))
             ELSE [Fail(j) EXCEPT !.excused = TRUE,
                     !.at = IF job[j].at = "read" /\ job[j].kind # "review" THEN "thrown" ELSE @])
  /\ UNCHANGED <<row, granted, age, reviews>>

Unreachable(j) ==
  /\ job[j].at \in {"refresh", "send"} /\ Fault(j)
  /\ Step(j, IF job[j].at = "refresh" THEN Refreshed(j, NoToken, Excuse(j))
             ELSE [Refused(j) EXCEPT !.at = "answer", !.token = NoToken, !.excused = TRUE])
  /\ UNCHANGED <<row, granted, age, reviews, torn>>

\* CritiqueBrainz does what it was asked to, and its answer is lost.
AnswerLost(j) ==
  /\ Fault(j) /\ UNCHANGED row
  /\ \/ /\ job[j].at = "refresh" /\ job[j].token = granted
        /\ torn' = (torn \/ row # 0)
        /\ Grant(j, Refreshed(j, NoToken, Excuse(j)))
        /\ UNCHANGED reviews
     \/ /\ job[j].at = "send" /\ Valid(job[j].token)
        /\ Made(j) /\ Step(j, [Refused(j) EXCEPT !.excused = TRUE])
        /\ UNCHANGED <<granted, age, torn>>
     \/ /\ job[j].at = "away"
        /\ torn' = Across(j)
        /\ Grant(j, [Fail(j) EXCEPT !.excused = TRUE])
        /\ UNCHANGED reviews

\* What the end of the process leaves of a request: what CritiqueBrainz may still accept
\* of it, and that it is excused, unless the end is its own doing.
Cut(t) ==
  LET over == [Idle EXCEPT !.at = "cut", !.excused = t.excused \/ t.at # "thrown"]
  IN CASE t.at = "refresh" /\ t.token = granted ->
            [over EXCEPT !.at = "late refresh", !.token = t.token]
       [] t.at = "send" /\ Valid(t.token) ->
            [over EXCEPT !.at = "late send", !.kind = "review", !.page = t.page, !.token = t.token]
       [] t.at = "away" -> [over EXCEPT !.at = "late link"]
       [] OTHER -> over

\* Every request it is at work on, and those of editors back with a code.
Ended(back) == {j \in Jobs : job[j].at \in Working \cup {"thrown"}} \cup back

\* The process ends and is started again: a grant that was to be written is lost.
End ==
  /\ \E back \in SUBSET {j \in Jobs : job[j].at = "away"} :
       job' = [j \in Jobs |-> IF j \in Ended(back) THEN Cut(job[j]) ELSE job[j]]
  /\ torn' = (torn \/ (row # 0 /\ \E j \in Jobs : job[j].at = "update"))
  /\ UNCHANGED <<row, granted, age, page, reviews, sent, requests>>

\* An uncaught error ends it before it does anything else.
ServerExit == ~Alive /\ End /\ UNCHANGED faults

\* Or it ends for a reason elsewhere in the site.
Crash == faults < MaxFaults /\ faults' = faults + 1 /\ End

\* CritiqueBrainz gets what the process had sent, and nobody hears of it.
Late(j) ==
  /\ \/ /\ job[j].at = "late link" \/ (job[j].at = "late refresh" /\ job[j].token = granted)
        /\ torn' = Across(j)
        /\ Grant(j, Cut(job[j]))
        /\ UNCHANGED reviews
     \/ /\ job[j].at = "late send" /\ Valid(job[j].token)
        /\ Made(j) /\ Step(j, Cut(job[j]))
        /\ UNCHANGED <<granted, age, torn>>
  /\ UNCHANGED <<row, page, sent, requests, faults>>

Serve(j) ==
  \/ Read(j) \/ Refresh(j) \/ Update(j) \/ Send(j) \/ Save(j) \/ Answer(j)

\* What happens while the process runs.
Running ==
  \/ \E j \in Jobs, p \in Pages : OpenPage(j, p) \/ Submit(j, p)
  \/ \E j \in Jobs : Connect(j) \/ Authorise(j) \/ Abandon(j) \/ Serve(j) \/ Late(j)
  \/ \E j \in Jobs : StatementFails(j) \/ Unreachable(j) \/ AnswerLost(j)
  \/ Disconnect \/ Crash
  \/ \E g \in Grants : GrowOld(g)

Next == (Alive /\ Running) \/ ServerExit

\* The site goes on with what it was asked, CritiqueBrainz answers or fails, and a
\* process with an uncaught error ends.
Spec ==
  /\ Init /\ [][Next]_vars
  /\ WF_vars(ServerExit) /\ \A j \in Jobs : WF_vars(Alive /\ Serve(j))

----------------------------------------------------------------------------
(* Properties.                                                             *)

\* Types, and that no token is used that was never granted.
TypeOK ==
  /\ row \in 0..granted /\ granted \in Grants
  /\ age \in [Grants -> Ages]
  /\ page \in [Pages -> [token : Grants \cup {NotYet}, done : BOOLEAN]]
  /\ reviews \in [Pages -> Nat] /\ sent \in [Pages -> Nat]
  /\ job \in [Jobs -> Job]
  /\ torn \in BOOLEAN
  /\ requests \in 0..MaxRequests /\ faults \in 0..MaxFaults

\* The site's tokens are the ones CritiqueBrainz accepts, or a request is about to
\* write those: unless a grant was lost on its way, be it because the process ended
\* between CritiqueBrainz's answer and the statement, or the account was linked a second
\* time while a row or another request had a grant, which lasts until the editor
\* disconnects. Refreshing from several pages at a time loses them only so: of two
\* refreshes that cross, the one that comes to nothing may end the process with the other.
RowAccepted ==
  row \in {0, granted} \/ torn \/ \E j \in Writing : job[j].token = granted

\* A page thanks for a review that was made, and a review is made at most once each
\* time it is sent, although one that is turned down is sent again with other tokens.
ReviewedAsSent ==
  \A p \in Pages : (page[p].done => reviews[p] > 0) /\ reviews[p] <= sent[p]

\* A page that is told to connect first, a review that is refused, a link that failed,
\* and a request that ends the process or ends with it: there was no row, another grant
\* was made meanwhile or being saved, CritiqueBrainz refused, something was unavailable,
\* or it was another request, or the rest of the site, that ended the process. In
\* particular no review fails because the page's token has expired.
FailsForAReason ==
  \A j \in Jobs :
    job[j].at \in {"answer", "thrown"} \cup Gone /\ ~job[j].ok => job[j].excused

\* A review is made as often as it is sent, and fails only for a reason.
ReviewsHold == ReviewedAsSent /\ FailsForAReason

\* An editor who disconnected is linked again by authorising it, and not by a request
\* that was refreshing the tokens meanwhile.
NotRelinked ==
  [][row = 0 /\ row' # 0 => \E j \in Jobs : job[j].kind = "link" /\ job[j].at = "save"]_vars

\* The site has the tokens it was given for as long as the editor wants them.
TokensKept == []RowAccepted /\ NotRelinked

\* Every request is answered, sent on to CritiqueBrainz, or ends with the process: by its
\* own error, which something excuses, or by that of another request at the same time.
AnsweredOrCut ==
  \A j \in Jobs :
    (job[j].at \in Working)
      ~> (job[j].at \in {"idle", "away"} \/ (job[j].at \in Gone /\ job[j].excused))
=============================================================================

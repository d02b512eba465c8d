---------------------------- MODULE Achievements ----------------------------
(***************************************************************************)
(* What one editor is awarded, and shows (src/server/helpers/              *)
(* achievement.js, routes/editor.tsx). A change of entities is one         *)
(* transaction, which reads the editor's count of revisions and writes it  *)
(* back. After a creation or an edit, and each entity visited for the      *)
(* first time, counts are compared with the thresholds of the tiers of     *)
(* each track; a tier that is reached is looked up among the unlocks and   *)
(* inserted if it is not there, in two steps, the tiers of a track at the  *)
(* same time. Editors have nothing of this in common.                      *)
(*                                                                         *)
(* The editor chooses which unlocks the profile shows at its three ranks,  *)
(* from any number of windows.                                             *)
(***************************************************************************)
EXTENDS Naturals, Integers, Sequences, FiniteSets

CONSTANTS
  Revisionist, Creator, FunRunner, Explorer,  \* tracks
  Awards, Titles,
  Tiers,      \* of a track: [award, threshold, title]
  NoTitle, NoAward,
  Window,     \* days of edits that FunRunner looks at
  Entities,   \* that can be visited
  MaxRank,    \* ranks of the profile, 3 in the code
  Workers,    \* requests at the same time
  Listed,     \* bound: the awards that forms name
  MaxEdits, MaxDay, MaxPosts, MaxCrashes  \* bounds

Tracks == {Revisionist, Creator, FunRunner, Explorer}
Tier == [award : Awards, threshold : Nat \ {0}, title : Titles \cup {NoTitle}]

Ranks == 1..MaxRank

ASSUME BoundAssumption ==
  /\ {Window, MaxEdits, MaxDay, MaxPosts, MaxCrashes} \subseteq Nat
  /\ MaxRank \in Nat \ {0} /\ Listed \subseteq Awards
ASSUME TrackAssumption ==
  /\ Revisionist \notin {Creator, FunRunner, Explorer}
  /\ Creator \notin {FunRunner, Explorer} /\ FunRunner # Explorer
ASSUME TierAssumption ==
  /\ Tiers \in [Tracks -> SUBSET Tier]
  /\ NoTitle \notin Titles /\ NoAward \notin Awards
  /\ \A p, q \in Tracks : \A t \in Tiers[p], u \in Tiers[q] :
       t.award = u.award \/ (t.title = u.title /\ t.title # NoTitle) => p = q /\ t = u

VARIABLES
  edits,           \* history: revisions of the editor
  applied,         \* editor.revisions_applied, the count of them that is kept
  created, erased, \* revisions without parents that created an entity, or deleted one
  day, edited,     \* today, and the days of the revisions
  visited,         \* entities the editor has looked at
  unlocks,         \* achievement_unlock: the ranks of an award's rows, 0 for none
  titles,          \* title_unlock: how many rows of each
  task,            \* the request each worker is at
  overlapped,      \* history: a transaction was committed while another one was open
  shared,          \* history: tracks two requests were at, at the same time
  crossed,         \* history: two requests to rank met
  missed,          \* history: tracks not measured since, after a crash, a deletion
                   \* or a form that failed
  posts, crashes   \* what the bounds count

counts == <<edits, applied, created, erased, edited, overlapped>>
tables == <<unlocks, titles>>
vars == <<counts, day, visited, tables, task, shared, crossed, missed, posts, crashes>>

Steps == {"look", "insert", "look title", "insert title"}

\* After an edit the tracks are processed one after the other.
EditTracks == <<Revisionist, Creator, FunRunner>>

\* Does it delete the entity, and has its revision parents: those of the entity, unless
\* it is created or deleted, and of the others that its relationships change.
Changes == [deletes : BOOLEAN, parents : BOOLEAN]

Task == [kind : {"idle", "edit", "award", "rank"},
         change : Changes,
         read : Nat,                  \* the count that its transaction has read
         since : Nat,                 \* the day its transaction began
         tracks : UNION {[1..n -> Tracks] : n \in 0..3},  \* still to be processed
         open : SUBSET [tier : Tier, step : Steps],
         form : [Ranks -> Awards \cup {NoAward}],
         slot : Ranks \cup {0},       \* the rank that is written
         phase : {"fetch", "clear", "set"},
         held : SUBSET (Awards \X (Nat \ {0}))]  \* the row to take it from

NoForm == [r \in Ranks |-> NoAward]
Idle == [kind |-> "idle", change |-> [deletes |-> FALSE, parents |-> FALSE],
         read |-> 0, since |-> 0, tracks |-> <<>>, open |-> {}, form |-> NoForm,
         slot |-> 0, phase |-> "fetch", held |-> {}]

Init ==
  /\ edits = 0 /\ applied = 0 /\ created = 0 /\ erased = 0
  /\ day = 0 /\ edited = {} /\ visited = {} /\ overlapped = FALSE
  /\ unlocks = [a \in Awards |-> <<>>]
  /\ titles = [t \in Titles |-> 0]
  /\ task = [w \in Workers |-> Idle]
  /\ shared = {} /\ crossed = FALSE /\ missed = {}
  /\ posts = 0 /\ crashes = 0

Busy(kind) == {w \in Workers : task[w].kind = kind}
Pending(w) == {task[w].tracks[k] : k \in DOMAIN task[w].tracks}
Unlocked(a) == unlocks[a] # <<>>
Holders(r) == UNION {{<<a, k>> : k \in {j \in DOMAIN unlocks[a] : unlocks[a][j] = r}} : a \in Awards}

----------------------------------------------------------------------------
(* What is counted.                                                        *)

Begin(w, t) == task[w].kind = "idle" /\ task' = [task EXCEPT ![w] = t]

\* A request takes up the tracks it may award.
BeginAwards(w, tracks) ==
  /\ task' = [task EXCEPT ![w] = [Idle EXCEPT !.kind = "award", !.tracks = tracks]]
  /\ shared' = shared \cup ({tracks[k] : k \in DOMAIN tracks}
                          \cap UNION {Pending(v) : v \in Busy("award")})

\* The transaction of a change: the editor's row is read. One that is rolled back
\* leaves nothing, as if it had not begun.
Edit(w, change) ==
  /\ edits + Cardinality(Busy("edit")) < MaxEdits
  /\ Begin(w, [Idle EXCEPT !.kind = "edit", !.change = change, !.read = applied, !.since = day])
  /\ UNCHANGED <<counts, day, visited, tables, shared, crossed, missed, posts, crashes>>

\* incrementEditCount, on the row as it was read: the transactions that were committed
\* since are not in it.
Applied(t) == t.read + 1

\* What follows a change: the tracks of edits. Nothing does after a deletion, nor if the
\* form has another entity that is refused then.
Follow(w, change) ==
  \/ ~change.deletes /\ BeginAwards(w, EditTracks) /\ missed' = missed
  \/ /\ task' = [task EXCEPT ![w] = Idle]
     /\ missed' = missed \cup IF change.deletes THEN {Revisionist}
                              ELSE {Revisionist, Creator, FunRunner}
     /\ shared' = shared

\* The transaction is committed. Its revision is of the time when it began.
Commit(w) ==
  /\ w \in Busy("edit")
  /\ LET t == task[w]
         alone(deletes) == IF t.change = [deletes |-> deletes, parents |-> FALSE] THEN 1 ELSE 0
     IN /\ edits' = edits + 1 /\ applied' = Applied(t)
        /\ created' = created + alone(FALSE) /\ erased' = erased + alone(TRUE)
        /\ edited' = edited \cup {t.since}
        /\ overlapped' = (overlapped \/ Busy("edit") # {w})
        /\ Follow(w, t.change)
  /\ UNCHANGED <<day, visited, tables, crossed, posts, crashes>>

\* Only the first visit of an entity can be inserted; its page goes on with the
\* track of visits.
Visit(w, x) ==
  /\ x \notin visited /\ task[w].kind = "idle"
  /\ visited' = visited \cup {x}
  /\ BeginAwards(w, <<Explorer>>)
  /\ UNCHANGED <<counts, day, tables, crossed, missed, posts, crashes>>

NextDay ==
  /\ day < MaxDay
  /\ day' = day + 1
  /\ UNCHANGED <<counts, visited, tables, task, shared, crossed, missed, posts, crashes>>

\* getConsecutiveDaysWithEdits: from the last of the list back to the first that
\* is more than one day before the one looked at last.
Consecutive(list) ==
  LET next(k) == IF k = Len(list) THEN day ELSE list[k + 1]
  IN Cardinality({k \in DOMAIN list : \A j \in k..Len(list) : next(j) - list[j] <= 1})

\* The query does not order the days it selects.
DayLists ==
  LET recent == {d \in edited : day - d <= Window}
  IN {list \in [1..Cardinality(recent) -> recent] : \A d \in recent : \E k \in DOMAIN list : list[k] = d}

\* Wrong: any revision counts for Creator, not only those without a parent.
Signals_AnyRevision(track) ==
  CASE track = Revisionist -> {applied}
    [] track = Creator -> {edits}
    [] track = FunRunner -> {Consecutive(list) : list \in DayLists}
    [] track = Explorer -> {Cardinality(visited)}

\* What a track is measured by. For Creator the rows of a type whose revision has no
\* parent, which are not its creations: one that is related to an entity that was there
\* has parents, and the deletion of an unrelated one has none.
Signals(track) ==
  CASE track = Revisionist -> {applied}
    [] track = Creator -> {created + erased}
    [] track = FunRunner -> {Consecutive(list) : list \in DayLists}
    [] track = Explorer -> {Cardinality(visited)}

----------------------------------------------------------------------------
(* Awarding.                                                               *)

\* The tiers that are still open; when none is, the next track.
Progress(w, open) ==
  LET t == task[w]
  IN /\ task' = [task EXCEPT ![w] =
          IF open # {} THEN [t EXCEPT !.open = open]
          ELSE IF Len(t.tracks) > 1 THEN [t EXCEPT !.open = {}, !.tracks = Tail(@)]
          ELSE Idle]
     /\ UNCHANGED <<counts, day, visited, shared, crossed, posts, crashes>>

\* Wrong: only a tier that is just reached, those below had their turn.
Reached_Equal(track, signal) == {t \in Tiers[track] : t.threshold = signal}

Reached(track, signal) == {t \in Tiers[track] : t.threshold <= signal}

\* testTiers starts all the tiers that are reached.
Measure(w) ==
  /\ w \in Busy("award") /\ task[w].open = {}
  /\ \E signal \in Signals(Head(task[w].tracks)) :
       Progress(w, {[tier |-> t, step |-> "look"] : t \in Reached(Head(task[w].tracks), signal)})
  /\ missed' = missed \ {Head(task[w].tracks)}
  /\ UNCHANGED tables

\* Wrong: it is inserted whatever is found.
After_Blind(o) ==
  CASE o.step = "look" -> "insert"
    [] o.step = "insert" -> IF o.tier.title = NoTitle THEN "over" ELSE "look title"
    [] o.step = "look title" -> IF titles[o.tier.title] > 0 THEN "over" ELSE "insert title"
    [] o.step = "insert title" -> "over"

\* awardUnlock, for the achievement and then, if the tier has one, for the title.
After(o) ==
  LET title == IF o.tier.title = NoTitle THEN "over" ELSE "look title"
  IN CASE o.step = "look" -> IF Unlocked(o.tier.award) THEN title ELSE "insert"
       [] o.step = "insert" -> title
       [] o.step = "look title" -> IF titles[o.tier.title] > 0 THEN "over" ELSE "insert title"
       [] o.step = "insert title" -> "over"

\* One statement of one of the open tiers.
Award(w) ==
  /\ w \in Busy("award")
  /\ \E o \in task[w].open :
       /\ Progress(w, (task[w].open \ {o}) \cup
            IF After(o) = "over" THEN {} ELSE {[o EXCEPT !.step = After(o)]})
       /\ unlocks' = IF o.step = "insert" THEN [unlocks EXCEPT ![o.tier.award] = Append(@, 0)]
                     ELSE unlocks
       /\ titles' = IF o.step = "insert title" THEN [titles EXCEPT ![o.tier.title] = @ + 1]
                    ELSE titles
  /\ missed' = missed

----------------------------------------------------------------------------
(* Ranking.                                                                *)

\* The form names unlocked achievements, of when its page was opened or later.
Rank(w, form) ==
  /\ posts < MaxPosts
  /\ posts' = posts + 1
  /\ \A r \in Ranks : form[r] # NoAward => Unlocked(form[r])
  /\ Begin(w, [Idle EXCEPT !.kind = "rank", !.form = form, !.slot = 1])
  /\ crossed' = (crossed \/ Busy("rank") # {})
  /\ UNCHANGED <<counts, day, visited, tables, shared, missed, crashes>>

\* Wrong: an empty field of the form leaves its rank alone.
Displaced_Filled(t) == IF t.form[t.slot] = NoAward THEN {} ELSE Holders(t.slot)

Displaced(t) == Holders(t.slot)

\* Which unlock has the rank now.
Fetch(w) ==
  /\ w \in Busy("rank") /\ task[w].phase = "fetch"
  /\ LET holders == Displaced(task[w])
     IN IF holders = {} THEN task' = [task EXCEPT ![w].phase = "set"]
        ELSE \E h \in holders : task' = [task EXCEPT ![w].phase = "clear", ![w].held = {h}]
  /\ UNCHANGED <<counts, day, visited, tables, shared, crossed, missed, posts, crashes>>

Cleared(held) ==
  [a \in Awards |-> [k \in DOMAIN unlocks[a] |-> IF <<a, k>> \in held THEN 0 ELSE unlocks[a][k]]]

\* It is taken from the one that had it.
Clear(w) ==
  /\ w \in Busy("rank") /\ task[w].phase = "clear"
  /\ unlocks' = Cleared(task[w].held)
  /\ task' = [task EXCEPT ![w].phase = "set", ![w].held = {}]
  /\ UNCHANGED <<counts, day, visited, titles, shared, crossed, missed, posts, crashes>>

\* The achievement that the form has for the rank gets it; then the next rank.
Set(w) ==
  /\ w \in Busy("rank") /\ task[w].phase = "set"
  /\ LET t == task[w]
     IN /\ task' = [task EXCEPT ![w] =
             IF t.slot + 1 \in Ranks THEN [t EXCEPT !.phase = "fetch", !.slot = @ + 1]
             ELSE Idle]
        /\ LET asked == t.form[t.slot]
           IN IF asked = NoAward THEN unlocks' = unlocks
              ELSE \E k \in DOMAIN unlocks[asked] : unlocks' = [unlocks EXCEPT ![asked][k] = t.slot]
  /\ UNCHANGED <<counts, day, visited, titles, shared, crossed, missed, posts, crashes>>

\* The server stops and starts: what its requests still had to do is lost, and their
\* transactions are rolled back.
Crash ==
  /\ crashes < MaxCrashes
  /\ crashes' = crashes + 1
  /\ task' = [w \in Workers |-> Idle]
  /\ missed' = missed \cup UNION {Pending(w) : w \in Busy("award")}
  /\ UNCHANGED <<counts, day, visited, tables, shared, crossed, posts>>

----------------------------------------------------------------------------
Forms == [Ranks -> Listed \cup {NoAward}]

Next ==
  \/ \E w \in Workers, change \in Changes : Edit(w, change)
  \/ \E w \in Workers : Commit(w)
  \/ \E w \in Workers, x \in Entities : Visit(w, x)
  \/ NextDay
  \/ \E w \in Workers : Measure(w) \/ Award(w) \/ Fetch(w) \/ Clear(w) \/ Set(w)
  \/ \E w \in Workers, form \in Forms : Rank(w, form)
  \/ Crash

Spec == Init /\ [][Next]_vars

----------------------------------------------------------------------------
(* Properties.                                                             *)

\* The unlocks that requests to rank refer to stay where they are.
TypeOK ==
  /\ {edits, applied, created, erased, day} \subseteq Nat /\ overlapped \in BOOLEAN
  /\ edited \subseteq Nat /\ visited \subseteq Entities
  /\ unlocks \in [Awards -> Seq(Ranks \cup {0})]
  /\ titles \in [Titles -> Nat]
  /\ task \in [Workers -> Task]
  /\ \A w \in Workers :
       /\ \A h \in task[w].held : h[2] \in DOMAIN unlocks[h[1]]
       /\ task[w].open # {} => task[w].tracks # <<>>
  /\ shared \subseteq Tracks /\ missed \subseteq Tracks /\ crossed \in BOOLEAN
  /\ posts \in Nat /\ crashes \in Nat

\* An achievement is unlocked twice only if two requests were at its track at the
\* same time: awardUnlock looks and inserts in two steps and no constraint of the
\* table backs it. Requests for different tracks never disturb one another.
UnlockedOnce ==
  \A track \in Tracks \ shared : \A t \in Tiers[track] :
    /\ Len(unlocks[t.award]) <= 1
    /\ t.title # NoTitle => titles[t.title] <= 1

\* A run of n days with edits.
Streak(n) == \E d \in edited : \A k \in 0..(n - 1) : d - k \in edited

\* What is unlocked was earned. For Creator by revisions without parents, creations or
\* deletions; for FunRunner by as many days in a row with edits, in whatever order the
\* database lists the days.
EarnedOnly ==
  \A track \in Tracks : \A t \in Tiers[track] :
    Unlocked(t.award) =>
       CASE track = Revisionist -> edits >= t.threshold
         [] track = Creator -> created + erased >= t.threshold
         [] track = Explorer -> Cardinality(visited) >= t.threshold
         [] track = FunRunner -> Streak(t.threshold)

\* What an editor may expect a tier for: the revisions, unless one was committed while
\* another was open, when the count may lose one of them; entities created unrelated to others;
\* and visits. FunRunner is not promised: its days may be listed in an order that ends
\* the count early.
Expected(track, n) ==
  CASE track = Revisionist -> edits >= n /\ ~overlapped
    [] track = Creator -> created >= n
    [] track = Explorer -> Cardinality(visited) >= n
    [] track = FunRunner -> FALSE

\* Once no award request is running, what may be expected is unlocked, also when edits
\* and visits met and whatever was unlocked before, except in tracks that were due and
\* not measured since: cut short by a crash, left by a form that failed, or counted up
\* by a deletion. They are made up for by the next request for the track.
NothingMissed ==
  Busy("award") = {} =>
    \A track \in Tracks \ missed : \A t \in Tiers[track] : Expected(track, t.threshold) =>
      /\ Unlocked(t.award)
      /\ t.title # NoTitle => titles[t.title] > 0

\* What was earned is unlocked once, and nothing else is.
UnlockedAsEarned == UnlockedOnce /\ EarnedOnly /\ NothingMissed

\* When a form is answered and none ever met another, the profile shows what it
\* said: at each rank the achievement of the form, if a later rank has not taken it,
\* and nothing else.
RanksAsAsked ==
  [][\A w \in Workers :
       w \in Busy("rank") /\ task'[w] = Idle /\ crashes' = crashes /\ ~crossed =>
         \A r \in Ranks :
           LET asked == task[w].form[r]
           IN /\ \A h \in Holders(r)' : h[1] = asked
              /\ asked # NoAward /\ (\A s \in Ranks : s > r => task[w].form[s] # asked)
                   => Holders(r)' # {}]_vars
=============================================================================
